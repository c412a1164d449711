------------------------------ MODULE CommandLine ------------------------------
(***************************************************************************)
(* ftpb, the command line of the app (ftpb.ts, toolArgs.ts, the reading    *)
(* half of discovery.ts): it finds the app by two files, asks it for its   *)
(* tools, reads the arguments by the tool's schema, and calls the tool.     *)
(* Meanwhile the app may make a new token, stop, or die with its files left *)
(* behind, and another program may take its port.                          *)
(***************************************************************************)
EXTENDS Filtering

CONSTANTS MaxTokensGiven,   \* bound: words on the command line
          MaxAppSteps       \* bound: what the app does meanwhile

ASSUME LineAssumption == MaxTokensGiven \in Nat /\ MaxAppSteps \in Nat

VARIABLES
  lnArgv,     \* the words after the tool
  lnEnv,      \* FTPB_URL and FTPB_TOKEN are given
  lnAt,       \* "start", "token", "alive", "list", "call", or "exit"
  lnFound,    \* what was read: [pid, token]
  lnExit,     \* the exit code
  lnFiles,    \* the files of the app: [pid, token], 0 when missing
  lnApp,      \* the app: [up, token]
  lnPort,     \* who listens: "app", "other" or "none"
  lnRan,      \* the arguments the tool ran with; <<>> before
  lnTold,     \* history: who was told a token
  lnWasUp,    \* history: the app was up when the command started
  lnSteps

lineVars == <<lnArgv, lnEnv, lnAt, lnFound, lnExit, lnFiles, lnApp, lnPort, lnRan, lnTold, lnWasUp, lnSteps>>

-----------------------------------------------------------------------------
(* The arguments.  A schema gives each parameter its types.                 *)
Schema == [limit |-> {"integer"}, server |-> {"integer", "string"}, path |-> {"string"},
           paths |-> {"array"}, overwrite |-> {"boolean"}]
Params == DOMAIN Schema

(* A word: a flag, with a value of its own perhaps, or a text, by what it   *)
(* reads as in JSON ("no" when it is none).                                *)
Text(text, reads) == [flag |-> "", text |-> text, reads |-> reads]
Seven == Text("7", "integer")      Plain == Text("photos", "none")
Yes == Text("true", "boolean")     Two == Text("[a, b]", "array")
Object == Text("{limit: 9}", "object")
Texts == {Seven, Plain, Yes, Two, Object}
Flag(name) == [flag |-> name, text |-> "", reads |-> "none"]
Words == Texts \union {Flag(p) : p \in Params \union {"args", "no-overwrite", "unknown"}}
         \union {[flag |-> p, text |-> v.text, reads |-> v.reads] : p \in {"server", "overwrite"}, v \in {Seven, Yes}}
Inline(w) == w.flag # "" /\ w.text # ""

(* convert(): the JSON value when its type is allowed, else the text when   *)
(* a string is; else it is an error.                                        *)
Value(as, text) == [as |-> as, text |-> text]
Bad == Value("error", "")
Converted(types, w) ==
  IF w.reads \in types THEN Value(w.reads, w.text)
  ELSE IF "string" \in types THEN Value("string", w.text) ELSE Bad
Yields(b) == Value("boolean", IF b THEN "true" ELSE "false")

(* An array's value is the whole list, or one item of it.                   *)
Items(w) == IF w.reads = "array" THEN <<Value("string", "a"), Value("string", "b")>>
            ELSE <<Value("string", w.text)>>

(* parseToolArgs() reads word by word: [base, args, open, error], where     *)
(* open is the flag whose value comes next, and "maybe" after one that      *)
(* needs none.  --args gives the base, which flags override wherever.       *)
Given(st, p, v) == [st EXCEPT !.args = [q \in DOMAIN st.args \union {p} |-> IF q = p THEN v ELSE st.args[q]],
                              !.open = ""]
ItemsGiven(st, w) ==
  Given(st, "paths", (IF "paths" \in DOMAIN st.args THEN st.args["paths"] ELSE <<>>) \o Items(w))
Wrong(st) == [st EXCEPT !.error = TRUE]

Takes(st, p, w) ==
  CASE p = "args" -> IF w = Object THEN [st EXCEPT !.base = TRUE, !.open = ""] ELSE Wrong(st)
    [] p = "paths" -> ItemsGiven(st, w)
    [] OTHER -> IF Converted(Schema[p], w) = Bad THEN Wrong(st) ELSE Given(st, p, Converted(Schema[p], w))

FlagRead(st, w) ==
  CASE w.flag = "no-overwrite" -> Given(st, "overwrite", Yields(FALSE))
    [] w.flag = "unknown" -> Wrong(st)
    [] Inline(w) -> Takes(st, w.flag, w)
    [] w.flag = "overwrite" /\ ~Inline(w) -> [Given(st, "overwrite", Yields(TRUE)) EXCEPT !.open = "maybe"]
    [] OTHER -> [st EXCEPT !.open = w.flag]

WordRead(st, w) ==
  IF st.error THEN st
  ELSE CASE w.flag # "" /\ st.open \in {"", "maybe"} -> FlagRead([st EXCEPT !.open = ""], w)
         [] w = Yes /\ st.open = "maybe" -> Given(st, "overwrite", Yields(TRUE))
         [] w.flag = "" /\ st.open \notin {"", "maybe"} -> Takes(st, st.open, w)
         [] OTHER -> Wrong(st)   \* a stray word, or a flag where a value should be

NothingRead == [base |-> FALSE, args |-> <<>>, open |-> "", error |-> FALSE]
WordsRead(argv) ==
  LET read[n \in 0..Len(argv)] == IF n = 0 THEN NothingRead ELSE WordRead(read[n - 1], argv[n])
  IN  read

ParseToolArgs(argv) ==
  LET st == WordsRead(argv)[Len(argv)]
      based == IF st.base /\ "limit" \notin DOMAIN st.args THEN Given(st, "limit", Value("integer", "9")) ELSE st
  IN  [based EXCEPT !.error = @ \/ st.open \notin {"", "maybe"}]

-----------------------------------------------------------------------------
Exits(code) == lnAt' = "exit" /\ lnExit' = code
Keeps == UNCHANGED <<lnArgv, lnEnv, lnFiles, lnApp, lnPort, lnWasUp, lnSteps>>

(* readDiscovery(): the endpoint, then the token; without both, exit 4.     *)
ReadsEndpoint ==
  /\ lnAt = "start"
  /\ lnFound' = [lnFound EXCEPT !.pid = lnFiles.pid]
  /\ lnAt' = "token"
  /\ Keeps /\ UNCHANGED <<lnExit, lnRan, lnTold>>

ReadsToken ==
  /\ lnAt = "token"
  /\ LET token == IF lnEnv THEN 1 ELSE lnFiles.token IN
     /\ lnFound' = [lnFound EXCEPT !.token = token]
     /\ IF ~lnEnv /\ (lnFound.pid = 0 \/ token = 0) THEN Exits(4)
        ELSE lnAt' = "alive" /\ UNCHANGED lnExit
  /\ Keeps /\ UNCHANGED <<lnRan, lnTold>>

(* endpointOf(): files whose process is gone are stale.                     *)
Alive == lnApp.up
ChecksAlive ==
  /\ lnAt = "alive"
  /\ IF lnEnv \/ Alive THEN lnAt' = "list" /\ UNCHANGED lnExit ELSE Exits(4)
  /\ Keeps /\ UNCHANGED <<lnFound, lnRan, lnTold>>

(* request(): refused by nobody there, or for its token: exit 4; answered   *)
(* by something that is not the app: exit 1.                                *)
Asks(at) == lnAt = at /\ lnTold' = IF lnPort = "none" THEN lnTold ELSE lnTold \union {lnPort}
Accepts == lnPort = "app" /\ lnFound.token = lnApp.token
Unanswered == Exits(IF lnPort = "other" THEN 1 ELSE 4)

ListsTools ==
  /\ Asks("list")
  /\ IF ~Accepts THEN Unanswered
     ELSE IF ParseToolArgs(lnArgv).error THEN Exits(2) ELSE lnAt' = "call" /\ UNCHANGED lnExit
  /\ Keeps /\ UNCHANGED <<lnFound, lnRan>>

(* The tool ran, and its answer is its result, an error of its own, a       *)
(* value that it does not take (then it did not run), or is lost.           *)
CallsTool ==
  /\ Asks("call")
  /\ IF ~Accepts THEN Unanswered /\ UNCHANGED lnRan
     ELSE \/ Exits(2) /\ UNCHANGED lnRan
          \/ /\ \E code \in {0, 1, 4} : Exits(code)
             /\ lnRan' = <<ParseToolArgs(lnArgv).args>>
  /\ Keeps /\ UNCHANGED lnFound

-----------------------------------------------------------------------------
(* The app, and whoever takes its port after it.                            *)
AppStep == lnSteps < MaxAppSteps /\ lnAt # "exit" /\ lnSteps' = lnSteps + 1
MakesToken ==
  /\ AppStep /\ lnApp.up
  /\ lnApp' = [lnApp EXCEPT !.token = @ + 1] /\ lnFiles' = [lnFiles EXCEPT !.token = @ + 1]
  /\ UNCHANGED lnPort
StopsListening ==
  /\ AppStep /\ lnPort = "app"
  /\ lnPort' = "none" /\ lnFiles' = [pid |-> 0, token |-> 0]
  /\ UNCHANGED lnApp
AppDies ==
  /\ AppStep /\ lnApp.up
  /\ lnApp' = [lnApp EXCEPT !.up = FALSE] /\ lnPort' = "none"
  /\ UNCHANGED lnFiles
OtherTakesPort ==
  /\ AppStep /\ lnPort = "none" /\ lnPort' = "other"
  /\ UNCHANGED <<lnApp, lnFiles>>

(* Lines of more than one word are read while nothing else happens.         *)
LineInit ==
  /\ lnArgv \in UNION {[1..n -> Words] : n \in 0..MaxTokensGiven}
  /\ lnApp \in [up : BOOLEAN, token : {1}] /\ lnWasUp = lnApp.up
  /\ lnEnv \in BOOLEAN
  /\ Len(lnArgv) > 1 => lnApp.up /\ lnEnv
  /\ lnAt = "start" /\ lnFound = [pid |-> 0, token |-> 0] /\ lnExit = 9
  /\ lnFiles = [pid |-> 1, token |-> 1]
  /\ lnPort \in (IF lnApp.up THEN {"app"} ELSE {"none", "other"})
  /\ lnRan = <<>> /\ lnTold = {} /\ lnSteps = IF Len(lnArgv) > 1 THEN MaxAppSteps ELSE 0

LineProgress == ReadsEndpoint \/ ReadsToken \/ ChecksAlive \/ ListsTools \/ CallsTool

LineNext ==
  \/ LineProgress
  \/ /\ MakesToken \/ StopsListening \/ AppDies \/ OtherTakesPort
     /\ UNCHANGED <<lnArgv, lnEnv, lnAt, lnFound, lnExit, lnRan, lnTold, lnWasUp>>

LineSpec == LineInit /\ [][LineNext]_lineVars /\ WF_lineVars(LineProgress)

-----------------------------------------------------------------------------
LineTypeOK == lnAt = "exit" <=> lnExit \in {0, 1, 2, 4}

(* Where the last value of a parameter is given, and whether it is given.   *)
ValueAt(p, i) ==
  \/ lnArgv[i].flag = p /\ (Inline(lnArgv[i]) \/ p = "overwrite")
  \/ p = "overwrite" /\ lnArgv[i].flag = "no-overwrite"
  \/ i > 1 /\ lnArgv[i].flag = "" /\ lnArgv[i - 1].flag = p /\ ~Inline(lnArgv[i - 1])
LastAt(p) == {i \in DOMAIN lnArgv : ValueAt(p, i) /\ \A j \in DOMAIN lnArgv : j > i => ~ValueAt(p, j)}

(* The tool runs with every value that is on the command line and no other: *)
(* each parameter with its last value, of a type its schema has, a list     *)
(* with all the items that are given.                                      *)
RanAsWritten ==
  lnRan # <<>> =>
    LET args == lnRan[1] IN
    /\ \A p \in Params : p \in DOMAIN args <=> LastAt(p) # {} \/ (p = "limit" /\ LastAt("args") # {})
    /\ \A p \in DOMAIN args \ {"paths", "overwrite"} : \A i \in LastAt(p) :
         args[p].text = lnArgv[i].text /\ args[p].as \in Schema[p]
    /\ "overwrite" \in DOMAIN args => \A i \in LastAt("overwrite") :
         args["overwrite"] = Yields(lnArgv[i].flag # "no-overwrite")
    /\ "paths" \in DOMAIN args =>
         Len(args["paths"]) = Cardinality({i \in DOMAIN lnArgv : ValueAt("paths", i)})
                              + Cardinality({i \in DOMAIN lnArgv : ValueAt("paths", i) /\ lnArgv[i] = Two})

(* Exit 2 means that nothing ran, exit 0 that the tool did; a token from    *)
(* the files of an app that had died before is not sent to what listens     *)
(* there now.                                                              *)
ExitIsTrue == /\ lnExit = 2 => lnRan = <<>>
              /\ lnExit = 0 => lnRan # <<>>
StaleKept == ~lnEnv /\ "other" \in lnTold => lnWasUp

LineSafe == LineTypeOK /\ RanAsWritten /\ ExitIsTrue /\ StaleKept

LineAtRest == lnAt = "exit"
=============================================================================
