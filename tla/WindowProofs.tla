----------------------------- MODULE WindowProofs -----------------------------
(***************************************************************************)
(* What TLAPS proves of the stores of the window, a section for each: its  *)
(* inductive invariant, the lemmas of its steps, and the theorem.          *)
(***************************************************************************)
EXTENDS MCWindow

-----------------------------------------------------------------------------
(* The folders shown (FolderView).                                         *)

Ask == [dir : Dirs, gen : Nat, read : Nat, present : BOOLEAN]
ListedEntry == [status : {"none", "loading", "ready", "error"}, has : Nat, refreshing : BOOLEAN]

FolderViewTypes ==
  /\ fvOnline \in BOOLEAN
  /\ content \in [Dirs -> Nat \ {0}]
  /\ untold \subseteq Dirs /\ gathered \subseteq Dirs /\ sure \subseteq Dirs
  /\ listed \in [Dirs -> ListedEntry] /\ listGen \in [Dirs -> Nat]
  /\ asks \subseteq Ask
  /\ startAsk = NoAsk \/ startAsk \in [dir : Dirs, read : Nat]

(* Its event is still to come, or to be acted upon.                        *)
Announced(d) == d \in untold \cup gathered
Newest(a) == a.gen = listGen[a.dir]
UpToDate(a) == a.read \in {0, content[a.dir]} \/ Announced(a.dir)

(* No LIST is of a generation to come, and the folder it is for has an      *)
(* entry.  One of this session is as new as the folder, or a change was     *)
(* announced that makes a newer one.                                       *)
AskFits(a) ==
  /\ a.gen <= listGen[a.dir]
  /\ listed[a.dir].status # "none"
  /\ a.present => fvOnline
  /\ a.present /\ Newest(a) => UpToDate(a)

(* What a session has loaded is right, or will be corrected.               *)
SureFits(d) ==
  listed[d].status = "ready" =>
    \/ listed[d].has = content[d] \/ Announced(d)
    \/ \E a \in asks : a.dir = d /\ a.present /\ Newest(a)

FolderViewInv ==
  /\ FolderViewTypes
  /\ \A a \in asks : AskFits(a)
  /\ \A d \in sure : SureFits(d)
  /\ sure # {} => fvOnline
  /\ SpinnerIsTrue

LEMMA FolderViewStarts == FolderViewInit => FolderViewInv
<1> SUFFICES ASSUME FolderViewInit PROVE FolderViewInv
  OBVIOUS
<1>1. Unread \in ListedEntry /\ Unread.refreshing = FALSE /\ Unread.status = "none"
  BY DEF Unread, ListedEntry
<1>2. FolderViewTypes
  <2>1. listed \in [Dirs -> ListedEntry]
    BY <1>1 DEF FolderViewInit
  <2>2. content \in [Dirs -> Nat \ {0}] /\ listGen \in [Dirs -> Nat]
    BY DEF FolderViewInit
  <2>3. QED
    BY <2>1, <2>2 DEF FolderViewInit, FolderViewTypes
<1>3. \A d \in Dirs : listed[d].refreshing = FALSE /\ listed[d].status = "none"
  BY <1>1 DEF FolderViewInit
<1>4. SpinnerIsTrue
  BY <1>3 DEF SpinnerIsTrue
<1>5. QED
  BY <1>2, <1>4 DEF FolderViewInit, FolderViewInv

LEMMA ChangeFolderStep ==
  ASSUME FolderViewInv, NEW d \in Dirs, ChangeFolder(d)
  PROVE  FolderViewInv'
<1> USE DEF FolderViewInv, ChangeFolder
<1>1. FolderViewTypes'
  BY DEF FolderViewTypes
<1>2. \A e \in Dirs : (Announced(e))' <=> (Announced(e) \/ e = d)
  BY DEF Announced
<1>3. \A e \in Dirs : e # d => content'[e] = content[e]
  BY DEF FolderViewTypes
<1>4. \A a \in asks : a.dir \in Dirs
  BY DEF FolderViewTypes, Ask
<1>5. \A a \in asks' : AskFits(a)'
  BY <1>2, <1>3, <1>4 DEF AskFits, Newest, UpToDate
<1>6. \A e \in sure' : SureFits(e)'
  <2> SUFFICES ASSUME NEW e \in sure PROVE SureFits(e)'
    OBVIOUS
  <2>1. SureFits(e) /\ e \in Dirs
    BY DEF FolderViewTypes
  <2>2. CASE e = d
    BY <1>2, <2>2 DEF SureFits
  <2>3. CASE e # d
    <3>1. content'[e] = content[e] /\ ((Announced(e))' <=> Announced(e))
      BY <1>2, <1>3, <2>1, <2>3
    <3>2. QED
      BY <2>1, <3>1 DEF SureFits, Newest
  <2>4. QED
    BY <2>2, <2>3
<1>7. SpinnerIsTrue'
  BY DEF SpinnerIsTrue
<1>8. QED
  BY <1>1, <1>5, <1>6, <1>7

LEMMA TellStep ==
  ASSUME FolderViewInv, NEW d \in Dirs, Tell(d)
  PROVE  FolderViewInv'
<1> USE DEF FolderViewInv, Tell
<1>1. FolderViewTypes'
  BY DEF FolderViewTypes
<1>2. \A e \in Dirs : (Announced(e))' <=> Announced(e)
  BY DEF Announced
<1>3. \A a \in asks : a.dir \in Dirs
  BY DEF FolderViewTypes, Ask
<1>4. \A a \in asks' : AskFits(a)'
  BY <1>2, <1>3 DEF AskFits, Newest, UpToDate
<1>5. \A e \in sure' : SureFits(e)'
  BY <1>2 DEF SureFits, FolderViewTypes, Newest
<1>6. SpinnerIsTrue'
  BY DEF SpinnerIsTrue
<1>7. QED
  BY <1>1, <1>4, <1>5, <1>6

LEMMA ReadsFolderStep ==
  ASSUME FolderViewInv, ReadsFolder
  PROVE  FolderViewInv'
<1> USE DEF FolderViewInv
<1>1. CASE \E a \in asks : /\ a.read = 0
                           /\ asks' = (asks \ {a}) \cup {[a EXCEPT !.read = content[a.dir]]}
                           /\ UNCHANGED startAsk
  <2>1. PICK a \in asks : /\ asks' = (asks \ {a}) \cup {[a EXCEPT !.read = content[a.dir]]}
                          /\ UNCHANGED startAsk
    BY <1>1
  <2>0. PICK b : b = [a EXCEPT !.read = content[a.dir]]
    OBVIOUS
  <2>2. a \in Ask /\ b \in Ask /\ b.dir = a.dir /\ b.gen = a.gen /\ b.present = a.present
        /\ b.read = content[a.dir] /\ b \in asks' /\ a.dir \in Dirs
    BY <2>0, <2>1 DEF FolderViewTypes, Ask
  <2>3. \A c \in asks : c # a => c \in asks'
    BY <2>1
  <2>4. \A c \in asks' : c \in asks \/ c = b
    BY <2>0, <2>1
  <2>5. UNCHANGED <<fvOnline, content, untold, gathered, listed, listGen, sure>>
    BY DEF ReadsFolder
  <2>6. FolderViewTypes'
    BY <2>1, <2>2, <2>4, <2>5 DEF FolderViewTypes
  <2>7. AskFits(b)'
    <3>1. AskFits(a)
      BY <2>1
    <3>2. QED
      BY <2>2, <2>5, <3>1 DEF AskFits, UpToDate, Newest
  <2>8. \A c \in asks : AskFits(c)'
    BY <2>5 DEF AskFits, UpToDate, Newest, Announced
  <2>9. \A e \in sure' : SureFits(e)'
    BY <2>2, <2>3, <2>5 DEF SureFits, Newest, Announced
  <2>10. SpinnerIsTrue'
    <3> SUFFICES ASSUME NEW d \in Dirs, listed'[d].refreshing \/ listed'[d].status = "loading"
                 PROVE  \E c \in asks' : c.dir = d /\ c.gen = listGen'[d]
      BY DEF SpinnerIsTrue
    <3>1. PICK c \in asks : c.dir = d /\ c.gen = listGen[d]
      BY <2>5 DEF SpinnerIsTrue
    <3>2. QED
      BY <2>2, <2>3, <2>5, <3>1
  <2>11. QED
    BY <2>4, <2>5, <2>6, <2>7, <2>8, <2>9, <2>10
<1>2. CASE /\ startAsk.dir # 0 /\ startAsk.read = 0
           /\ startAsk' = [startAsk EXCEPT !.read = content[startAsk.dir]]
           /\ UNCHANGED asks
  <2>1. UNCHANGED <<fvOnline, content, untold, gathered, listed, listGen, sure, asks>>
    BY <1>2 DEF ReadsFolder
  <2>2. startAsk' \in [dir : Dirs, read : Nat]
    BY <1>2 DEF FolderViewTypes, NoAsk
  <2>3. QED
    BY <2>1, <2>2 DEF FolderViewTypes, AskFits, SureFits, UpToDate, Newest, Announced, SpinnerIsTrue
<1>3. QED
  BY <1>1, <1>2 DEF ReadsFolder

(* A newer LIST of the folders ds, and of no other, is on its way.          *)
LEMMA Loaded ==
  ASSUME FolderViewTypes, NEW ds \in SUBSET Dirs, LoadAll(ds)
  PROVE  /\ listGen' \in [Dirs -> Nat] /\ listed' \in [Dirs -> ListedEntry] /\ asks' \subseteq Ask
         /\ \A d \in ds : /\ listGen'[d] = listGen[d] + 1
                          /\ listed'[d].status # "none"
                          /\ listed[d].status # "none" => listed'[d].status = listed[d].status
                          /\ [dir |-> d, gen |-> listGen[d] + 1, read |-> 0, present |-> TRUE] \in asks'
         /\ \A d \in Dirs \ ds : listGen'[d] = listGen[d] /\ listed'[d] = listed[d]
         /\ asks \subseteq asks'
         /\ \A a \in asks' : a \in asks \/ (a.dir \in ds /\ a.gen = listGen[a.dir] + 1 /\ a.read = 0 /\ a.present)
<1>1. listGen' = [d \in Dirs |-> IF d \in ds THEN listGen[d] + 1 ELSE listGen[d]]
  BY DEF LoadAll, Bump
<1>2. listed' \in [Dirs -> ListedEntry]
  BY DEF LoadAll, FolderViewTypes, ListedEntry
<1>3. \A d \in ds : /\ listed'[d].status # "none"
                    /\ listed[d].status # "none" => listed'[d].status = listed[d].status
  BY DEF LoadAll, FolderViewTypes, ListedEntry
<1>4. \A d \in Dirs \ ds : listed'[d] = listed[d]
  BY DEF LoadAll
<1>5. asks' = asks \cup {[dir |-> d, gen |-> listGen[d] + 1, read |-> 0, present |-> TRUE] : d \in ds}
  BY DEF LoadAll
<1>6. \A d \in Dirs : listGen[d] \in Nat
  BY DEF FolderViewTypes
<1>7. listGen' \in [Dirs -> Nat]
  BY <1>1, <1>6
<1>8. asks' \subseteq Ask
  <2>1. \A d \in ds : [dir |-> d, gen |-> listGen[d] + 1, read |-> 0, present |-> TRUE] \in Ask
    <3> TAKE d \in ds
    <3>1. listGen[d] + 1 \in Nat
      BY <1>6
    <3>2. QED
      BY <3>1 DEF Ask
  <2>2. QED
    BY <1>5, <2>1 DEF FolderViewTypes
<1>9. \A a \in asks' : a \in asks \/ (a.dir \in ds /\ a.gen = listGen[a.dir] + 1 /\ a.read = 0 /\ a.present)
  BY <1>5
<1>10. \A d \in ds : /\ listGen'[d] = listGen[d] + 1
                      /\ [dir |-> d, gen |-> listGen[d] + 1, read |-> 0, present |-> TRUE] \in asks'
  BY <1>1, <1>5
<1>11. \A d \in Dirs \ ds : listGen'[d] = listGen[d]
  BY <1>1
<1>12. asks \subseteq asks'
  BY <1>5
<1>13. QED
  BY <1>2, <1>3, <1>4, <1>7, <1>8, <1>9, <1>10, <1>11, <1>12

(* A load of folders among which are all whose announcement is dropped, so  *)
(* far as they were ever read.                                             *)
LEMMA LoadStep ==
  ASSUME FolderViewInv, NEW ds \in SUBSET Dirs, LoadAll(ds),
         UNCHANGED <<fvOnline, content, untold, startAsk, sure>>, gathered' \subseteq gathered,
         ds # {} => fvOnline,
         \A d \in gathered \ gathered' : fvOnline /\ listed[d].status # "none" => d \in ds
  PROVE  FolderViewInv'
<1> USE DEF FolderViewInv
<1>1. /\ listGen' \in [Dirs -> Nat] /\ listed' \in [Dirs -> ListedEntry] /\ asks' \subseteq Ask
      /\ \A d \in ds : /\ listGen'[d] = listGen[d] + 1
                       /\ listed'[d].status # "none"
                       /\ [dir |-> d, gen |-> listGen[d] + 1, read |-> 0, present |-> TRUE] \in asks'
      /\ \A d \in Dirs \ ds : listGen'[d] = listGen[d] /\ listed'[d] = listed[d]
      /\ asks \subseteq asks'
      /\ \A a \in asks' : a \in asks \/ (a.dir \in ds /\ a.gen = listGen[a.dir] + 1 /\ a.read = 0 /\ a.present)
  BY Loaded
<1>2. FolderViewTypes'
  BY <1>1 DEF FolderViewTypes
<1>3. \A a \in asks' : a.dir \in Dirs /\ a.gen \in Nat
  BY <1>1 DEF Ask
<1>4. \A d \in Dirs \ ds : listed[d].status # "none" /\ fvOnline /\ Announced(d) => (Announced(d))'
  BY DEF Announced
<1>5. ASSUME NEW a \in asks' PROVE AskFits(a)'
  <2>1. CASE a \in asks /\ a.dir \notin ds
    <3>1. AskFits(a) /\ listGen'[a.dir] = listGen[a.dir] /\ listed'[a.dir] = listed[a.dir]
      BY <1>1, <1>3, <2>1
    <3>2. a.present /\ Newest(a) => a.read \in {0, content[a.dir]} \/ (Announced(a.dir))'
      BY <1>3, <1>4, <2>1, <3>1 DEF AskFits, UpToDate
    <3>3. QED
      BY <3>1, <3>2 DEF AskFits, Newest, UpToDate
  <2>2. CASE a \in asks /\ a.dir \in ds
    <3>1. a.gen <= listGen[a.dir] /\ listGen'[a.dir] = listGen[a.dir] + 1 /\ listGen[a.dir] \in Nat
      BY <1>1, <1>3, <2>2 DEF AskFits, FolderViewTypes
    <3>2. a.gen < listGen'[a.dir]
      BY <1>3, <3>1
    <3>3. a.present => fvOnline'
      BY <2>2 DEF AskFits
    <3>4. a.gen <= listGen'[a.dir] /\ a.gen # listGen'[a.dir]
      BY <1>1, <1>3, <3>2
    <3>5. QED
      BY <1>1, <2>2, <3>3, <3>4 DEF AskFits, Newest
  <2>3. CASE a.dir \in ds /\ a.gen = listGen[a.dir] + 1 /\ a.read = 0 /\ a.present
    <3>1. a.gen = listGen'[a.dir] /\ listed'[a.dir].status # "none" /\ fvOnline'
      BY <1>1, <2>3
    <3>2. QED
      BY <1>3, <2>3, <3>1 DEF AskFits, Newest, UpToDate
  <2>4. QED
    BY <1>1, <2>1, <2>2, <2>3
<1>6. ASSUME NEW e \in sure' PROVE SureFits(e)'
  <2>1. e \in sure /\ e \in Dirs /\ SureFits(e) /\ fvOnline
    BY DEF FolderViewTypes
  <2>2. CASE e \in ds
    <3> DEFINE a == [dir |-> e, gen |-> listGen[e] + 1, read |-> 0, present |-> TRUE]
    <3>1. a \in asks' /\ a.dir = e /\ a.present /\ a.gen = listGen'[a.dir]
      BY <1>1, <2>2
    <3> HIDE DEF a
    <3>2. QED
      BY <3>1 DEF SureFits, Newest
  <2>3. CASE e \notin ds
    <3>1. listed'[e] = listed[e] /\ listGen'[e] = listGen[e]
      BY <1>1, <2>1, <2>3
    <3>2. listed[e].status = "ready" /\ Announced(e) => (Announced(e))'
      BY <1>4, <2>1, <2>3
    <3>3. QED
      BY <1>1, <2>1, <3>1, <3>2 DEF SureFits, Newest
  <2>4. QED
    BY <2>2, <2>3
<1>7. SpinnerIsTrue'
  <2> SUFFICES ASSUME NEW d \in Dirs, listed'[d].refreshing \/ listed'[d].status = "loading"
               PROVE  \E c \in asks' : c.dir = d /\ c.gen = listGen'[d]
    BY DEF SpinnerIsTrue
  <2>1. CASE d \in ds
    BY <1>1, <2>1
  <2>2. CASE d \notin ds
    <3>1. PICK c \in asks : c.dir = d /\ c.gen = listGen[d]
      BY <1>1, <2>2 DEF SpinnerIsTrue
    <3>2. QED
      BY <1>1, <2>2, <3>1
  <2>3. QED
    BY <2>1, <2>2
<1>8. QED
  BY <1>2, <1>5, <1>6, <1>7

LEMMA AnsweredStep ==
  ASSUME FolderViewInv, NEW a \in asks, Answered(a)
  PROVE  FolderViewInv'
<1> USE DEF FolderViewInv
<1>1. UNCHANGED <<fvOnline, content, untold, gathered, listGen, startAsk>> /\ asks' = asks \ {a}
  BY DEF Answered
<1>2. /\ a.dir \in Dirs /\ a.read \in Nat /\ a.present \in BOOLEAN
      /\ AskFits(a)
  BY DEF FolderViewTypes, Ask
<1>3. \A c \in asks' : c \in asks /\ c.dir \in Dirs
  BY <1>1 DEF FolderViewTypes, Ask
<1>4. \A d : (Announced(d))' <=> Announced(d)
  BY <1>1 DEF Announced
<1>5. CASE ~LastGen(a)
  <2>1. UNCHANGED <<listed, sure>>
    BY <1>5 DEF Answered
  <2>2. \A c \in asks : Newest(c) => c \in asks'
    BY <1>1, <1>5 DEF Newest, LastGen
  <2>3. FolderViewTypes'
    BY <1>1, <2>1 DEF FolderViewTypes
  <2>4. \A c \in asks' : AskFits(c)'
    BY <1>1, <1>3, <1>4, <2>1 DEF AskFits, Newest, UpToDate
  <2>5. \A d \in sure' : SureFits(d)'
    BY <1>1, <1>4, <2>1, <2>2 DEF SureFits, Newest
  <2>6. SpinnerIsTrue'
    <3> SUFFICES ASSUME NEW d \in Dirs, listed'[d].refreshing \/ listed'[d].status = "loading"
                 PROVE  \E c \in asks' : c.dir = d /\ c.gen = listGen'[d]
      BY DEF SpinnerIsTrue
    <3>1. PICK c \in asks : c.dir = d /\ c.gen = listGen[d]
      BY <2>1 DEF SpinnerIsTrue
    <3>2. QED
      BY <1>1, <2>2, <3>1 DEF Newest
  <2>7. QED
    BY <1>1, <2>1, <2>3, <2>4, <2>5, <2>6
<1>6. CASE LastGen(a)
  <2>1. /\ listed' \in [Dirs -> ListedEntry]
        /\ \A d \in Dirs : d # a.dir => listed'[d] = listed[d]
        /\ listed'[a.dir].status \in {"ready", "error"} /\ listed'[a.dir].refreshing = FALSE
    <3>1. CASE listed' = [listed EXCEPT ![a.dir] = [status |-> "ready", has |-> a.read, refreshing |-> FALSE]]
      BY <1>2, <3>1 DEF FolderViewTypes, ListedEntry
    <3>2. CASE listed' = [listed EXCEPT ![a.dir] = [@ EXCEPT !.status = "error", !.refreshing = FALSE]]
      BY <1>2, <3>2 DEF FolderViewTypes, ListedEntry
    <3>3. QED
      BY <1>6, <3>1, <3>2 DEF Answered
  <2>2. \/ /\ a.read # 0
           /\ listed'[a.dir].has = a.read
           /\ sure' = IF a.present THEN sure \cup {a.dir} ELSE sure \ {a.dir}
        \/ listed'[a.dir].status = "error" /\ sure' = sure
    <3>1. \/ /\ a.read # 0
             /\ listed' = [listed EXCEPT ![a.dir] = [status |-> "ready", has |-> a.read, refreshing |-> FALSE]]
             /\ sure' = IF a.present THEN sure \cup {a.dir} ELSE sure \ {a.dir}
          \/ /\ listed' = [listed EXCEPT ![a.dir] = [@ EXCEPT !.status = "error", !.refreshing = FALSE]]
             /\ sure' = sure
      BY <1>6 DEF Answered
    <3>2. CASE /\ a.read # 0
               /\ listed' = [listed EXCEPT ![a.dir] = [status |-> "ready", has |-> a.read, refreshing |-> FALSE]]
               /\ sure' = IF a.present THEN sure \cup {a.dir} ELSE sure \ {a.dir}
      <4>1. listed'[a.dir].has = a.read
        BY <1>2, <3>2 DEF FolderViewTypes
      <4>2. QED
        BY <3>2, <4>1
    <3>3. CASE /\ listed' = [listed EXCEPT ![a.dir] = [@ EXCEPT !.status = "error", !.refreshing = FALSE]]
               /\ sure' = sure
      <4>1. listed'[a.dir].status = "error"
        BY <1>2, <3>3 DEF FolderViewTypes, ListedEntry
      <4>2. QED
        BY <3>3, <4>1
    <3>4. QED
      BY <3>1, <3>2, <3>3
  <2>3. FolderViewTypes'
    BY <1>1, <1>2, <2>1, <2>2 DEF FolderViewTypes
  <2>4. \A c \in asks' : AskFits(c)'
    <3> SUFFICES ASSUME NEW c \in asks' PROVE AskFits(c)'
      OBVIOUS
    <3>1. AskFits(c) /\ listed'[c.dir].status # "none"
      BY <1>3, <2>1 DEF AskFits
    <3>2. QED
      BY <1>1, <1>4, <3>1 DEF AskFits, Newest, UpToDate
  <2>5. \A d \in sure' : SureFits(d)'
    <3> SUFFICES ASSUME NEW d \in sure', listed'[d].status = "ready" PROVE SureFits(d)'
      BY DEF SureFits
    <3>1. CASE d = a.dir
      <4>1. a.present /\ listed'[d].has = a.read /\ a.read # 0
        BY <2>2, <3>1
      <4>2. a.read = content[d] \/ Announced(d)
        BY <1>2, <1>6, <3>1, <4>1 DEF AskFits, UpToDate, Newest, LastGen
      <4>3. QED
        BY <1>1, <1>4, <4>1, <4>2 DEF SureFits
    <3>2. CASE d # a.dir
      <4>1. d \in sure /\ listed'[d] = listed[d] /\ SureFits(d)
        BY <2>1, <2>2, <2>3, <3>2 DEF FolderViewTypes
      <4>2. \A c \in asks : c.dir = d => c \in asks'
        BY <1>1, <3>2
      <4>3. QED
        BY <1>1, <1>4, <4>1, <4>2 DEF SureFits, Newest
    <3>3. QED
      BY <3>1, <3>2
  <2>6. sure' # {} => fvOnline'
    BY <1>1, <1>2, <2>2 DEF AskFits
  <2>7. SpinnerIsTrue'
    <3> SUFFICES ASSUME NEW d \in Dirs, listed'[d].refreshing \/ listed'[d].status = "loading"
                 PROVE  \E c \in asks' : c.dir = d /\ c.gen = listGen'[d]
      BY DEF SpinnerIsTrue
    <3>1. d # a.dir
      BY <2>1
    <3>2. PICK c \in asks : c.dir = d /\ c.gen = listGen[d]
      BY <2>1, <3>1 DEF SpinnerIsTrue
    <3>3. QED
      BY <1>1, <3>1, <3>2
  <2>8. QED
    BY <2>3, <2>4, <2>5, <2>6, <2>7
<1>7. QED
  BY <1>5, <1>6

LEMMA LosesServerStep ==
  ASSUME FolderViewInv, LosesServer
  PROVE  FolderViewInv'
<1> USE DEF FolderViewInv
<1>1. UNCHANGED <<content, untold, gathered, listed, listGen>> /\ sure' = {} /\ startAsk' = NoAsk
      /\ fvOnline' = FALSE /\ asks' = {[a EXCEPT !.present = FALSE] : a \in asks}
  BY DEF LosesServer
<1>2. asks \subseteq Ask
  BY DEF FolderViewTypes
<1>3. \A c \in asks' : \E a \in asks : /\ c \in Ask /\ c.dir = a.dir /\ c.gen = a.gen
                                       /\ c.present = FALSE
  BY <1>1, <1>2 DEF Ask
<1>4. \A a \in asks : \E c \in asks' : c.dir = a.dir /\ c.gen = a.gen
  <2> SUFFICES ASSUME NEW a \in asks PROVE \E c \in asks' : c.dir = a.dir /\ c.gen = a.gen
    OBVIOUS
  <2>1. PICK c : c = [a EXCEPT !.present = FALSE]
    OBVIOUS
  <2>2. c \in asks' /\ a \in Ask
    BY <1>1, <1>2, <2>1
  <2>3. c.dir = a.dir /\ c.gen = a.gen
    BY <2>1, <2>2 DEF Ask
  <2>4. QED
    BY <2>2, <2>3
<1>5. FolderViewTypes'
  BY <1>1, <1>3 DEF FolderViewTypes
<1>6. \A c \in asks' : AskFits(c)'
  <2> SUFFICES ASSUME NEW c \in asks' PROVE AskFits(c)'
    OBVIOUS
  <2>1. PICK a \in asks : c.dir = a.dir /\ c.gen = a.gen /\ c.present = FALSE
    BY <1>3
  <2>2. QED
    BY <1>1, <2>1 DEF AskFits
<1>7. SpinnerIsTrue'
  <2> SUFFICES ASSUME NEW d \in Dirs, listed'[d].refreshing \/ listed'[d].status = "loading"
               PROVE  \E c \in asks' : c.dir = d /\ c.gen = listGen'[d]
    BY DEF SpinnerIsTrue
  <2>1. PICK a \in asks : a.dir = d /\ a.gen = listGen[d]
    BY <1>1 DEF SpinnerIsTrue
  <2>2. QED
    BY <1>1, <1>4, <2>1
<1>8. QED
  BY <1>1, <1>5, <1>6, <1>7

LEMMA ComesOnlineStep ==
  ASSUME FolderViewInv, NEW d \in Dirs, ComesOnline(d)
  PROVE  FolderViewInv'
<1> USE DEF FolderViewInv
<1>1. /\ UNCHANGED <<content, untold, gathered, listed, listGen, asks, sure>>
      /\ fvOnline' = TRUE /\ startAsk' = [dir |-> d, read |-> 0]
  BY DEF ComesOnline
<1>2. QED
  BY <1>1 DEF FolderViewTypes, AskFits, SureFits, UpToDate, Newest, Announced, SpinnerIsTrue

LEMMA PutStartStep ==
  ASSUME FolderViewInv, PutStart
  PROVE  FolderViewInv'
<1> USE DEF FolderViewInv
<1> DEFINE s == startAsk.dir
<1>1. startAsk \in [dir : Dirs, read : Nat] /\ s \in Dirs /\ startAsk.read \in Nat
  BY DEF PutStart, FolderViewTypes, NoAsk
<1>2. /\ UNCHANGED <<fvOnline, content, untold, gathered, asks>> /\ startAsk' = NoAsk
      /\ sure' = sure \ {s}
      /\ listGen' = [d \in Dirs |-> IF d \in {s} THEN listGen[d] + 1 ELSE listGen[d]]
      /\ listed' = [listed EXCEPT ![s] = [status |-> "ready", has |-> startAsk.read, refreshing |-> FALSE]]
  BY DEF PutStart, Bump
<1>3. \A d \in Dirs : listGen[d] \in Nat
  BY DEF FolderViewTypes
<1>4. /\ listGen'[s] = listGen[s] + 1
      /\ listed'[s].status = "ready" /\ listed'[s].refreshing = FALSE
      /\ \A d \in Dirs : d # s => listGen'[d] = listGen[d] /\ listed'[d] = listed[d]
  BY <1>1, <1>2 DEF FolderViewTypes
<1>5. FolderViewTypes'
  <2>1. listed' \in [Dirs -> ListedEntry]
    BY <1>1, <1>2 DEF FolderViewTypes, ListedEntry
  <2>2. listGen' \in [Dirs -> Nat]
    BY <1>2, <1>3
  <2>3. QED
    BY <1>2, <2>1, <2>2 DEF FolderViewTypes
<1> HIDE DEF s
<1>6. \A c \in asks' : AskFits(c)'
  <2> SUFFICES ASSUME NEW c \in asks PROVE AskFits(c)'
    BY <1>2
  <2>1. c.dir \in Dirs /\ c.gen \in Nat /\ AskFits(c)
    BY DEF FolderViewTypes, Ask
  <2>2. CASE c.dir = s
    <3>1. c.gen <= listGen'[s] /\ c.gen # listGen'[s]
      BY <1>3, <1>4, <2>1, <2>2 DEF AskFits
    <3>2. QED
      BY <1>2, <1>4, <2>1, <2>2, <3>1 DEF AskFits, Newest
  <2>3. CASE c.dir # s
    BY <1>2, <1>4, <2>1, <2>3 DEF AskFits, Newest, UpToDate, Announced
  <2>4. QED
    BY <2>2, <2>3
<1>7. \A d \in sure' : SureFits(d)'
  <2> SUFFICES ASSUME NEW d \in sure' PROVE SureFits(d)'
    OBVIOUS
  <2>1. d \in sure /\ d # s /\ d \in Dirs /\ SureFits(d)
    BY <1>2 DEF FolderViewTypes
  <2>2. QED
    BY <1>2, <1>4, <2>1 DEF SureFits, Newest, Announced
<1>8. SpinnerIsTrue'
  <2> SUFFICES ASSUME NEW d \in Dirs, listed'[d].refreshing \/ listed'[d].status = "loading"
               PROVE  \E c \in asks' : c.dir = d /\ c.gen = listGen'[d]
    BY DEF SpinnerIsTrue
  <2>1. d # s
    BY <1>4
  <2>2. PICK c \in asks : c.dir = d /\ c.gen = listGen[d]
    BY <1>4, <2>1 DEF SpinnerIsTrue
  <2>3. QED
    BY <1>2, <1>4, <2>1, <2>2
<1>9. QED
  BY <1>2, <1>5, <1>6, <1>7, <1>8

THEOREM FolderViewInvariance == FolderViewInit /\ [][FolderViewNext]_folderViewVars => []FolderViewInv
<1>1. ASSUME FolderViewInv, [FolderViewNext]_folderViewVars PROVE FolderViewInv'
  <2>1. ASSUME NEW d \in Dirs, UserLoads(d) PROVE FolderViewInv'
    BY <1>1, <2>1, LoadStep DEF UserLoads
  <2>2. CASE SyncRemote
    <3>1. (IF fvOnline THEN gathered \cap EverRead ELSE {}) \in SUBSET Dirs
      BY <1>1 DEF FolderViewInv, FolderViewTypes
    <3>2. \A d \in gathered : fvOnline /\ listed[d].status # "none" => d \in gathered \cap EverRead
      BY <1>1 DEF EverRead, FolderViewInv, FolderViewTypes
    <3>3. QED
      BY <1>1, <2>2, <3>1, <3>2, LoadStep DEF SyncRemote
  <2>3. CASE UNCHANGED folderViewVars
    BY <1>1, <2>3 DEF folderViewVars, FolderViewInv, FolderViewTypes, AskFits, SureFits, UpToDate, Newest,
                Announced, SpinnerIsTrue
  <2>4. QED
    BY <1>1, <2>1, <2>2, <2>3, ChangeFolderStep, TellStep, ReadsFolderStep, AnsweredStep, LosesServerStep,
       ComesOnlineStep, PutStartStep DEF FolderViewNext, FolderViewProgress
<1>2. QED
  BY <1>1, FolderViewStarts, PTL

(* When nothing is under way, every folder this connection loaded is shown  *)
(* as it is, and a folder is shown as being read only while its newest LIST *)
(* is: for any number of folders, changes, loads and lost connections.      *)
THEOREM FoldersAreShown == FolderViewInit /\ [][FolderViewNext]_folderViewVars => []FolderViewSafe
<1>1. FolderViewInv => FolderViewSafe
  BY DEF FolderViewInv, FolderViewSafe, ShownAsItIs, AtRest, SureFits, Announced
<1>2. QED
  BY <1>1, FolderViewInvariance, PTL

-----------------------------------------------------------------------------
(* A send and the removal of its originals (MoveSends).                     *)

JobStates == {"none", "live", "completed", "failed", "cancelled"}

(* A list of jobs as the window had it once: it has all jobs of a batch or  *)
(* none, and a job it shows as completed is and stays so.                  *)
JobsFit(jobs) ==
  /\ jobs \in [MoveJobs -> JobStates]
  /\ \A b \in MoveBatches : \/ \A j \in FilesOf(b) : jobs[j] = "none"
                            \/ \A j \in FilesOf(b) : jobs[j] # "none"
  /\ \A j \in MoveJobs : jobs[j] = "completed" => mvMain[j] = "completed"

(* The main process lists all jobs of a batch or none; before the batch is  *)
(* accepted there are none.                                                *)
ListedFit ==
  \A b \in MoveBatches :
    /\ FilesOf(b) \subseteq mvListed \/ FilesOf(b) \cap mvListed = {}
    /\ \A j \in FilesOf(b) : j \in mvListed => mvMain[j] # "none"
    /\ mvPart[b] \in {"asking", "sheet", "quit"} => \A j \in FilesOf(b) : mvMain[j] = "none"

RunFits(b) ==
  mvRun[b].on => /\ mvDeletes[b] = 1
                 /\ mvRun[b].rest \in Seq(MoveBatches)
                 /\ JobsFit(mvRun[b].jobs)

(* A batch is registered once its part is sent, until its deletion.        *)
BatchFits(b) ==
  /\ b \in InSeq(mvRegs) => mvPart[b] = "sent" /\ mvDeletes[b] = 0
  /\ mvDeletes[b] <= 1
  /\ mvDeletes[b] > 0 => /\ mvPart[b] = "sent" /\ b \notin mvSkipped
                         /\ mvVerb = "move" /\ mvOpen = {}
                         /\ \A j \in FilesOf(b) : mvMain[j] = "completed"

(* The verb is open as long as a part has not been sent or given up.       *)
OpenFits ==
  /\ \A b \in MoveBatches : b \in mvOpen <=> mvPart[b] \in {"asking", "sheet", "accepted"}
  /\ LocalPart \in mvOpen <=> mvLocal = "asking"
  /\ mvLocal = "copied" => mvOpen = {} /\ mvVerb = "copy"
  /\ mvLocal = "moved" => mvOpen = {} /\ mvVerb = "move"

MoveInv ==
  /\ MoveTypeOK
  /\ mvRegs \in Seq(MoveBatches) /\ Once(mvRegs)
  /\ mvDeletes \in [MoveBatches -> Nat] /\ DOMAIN mvRun = MoveBatches
  /\ JobsFit(mvView)
  /\ ListedFit
  /\ \A b \in MoveBatches : RunFits(b) /\ BatchFits(b)
  /\ OpenFits

LEMMA FilesFacts ==
  /\ \A b \in MoveBatches : FilesOf(b) \subseteq MoveJobs
  /\ \A b, c : FilesOf(b) \cap FilesOf(c) # {} => b = c
  /\ \A j \in MoveJobs : j \div 10 \in MoveBatches /\ j \in FilesOf(j \div 10)
  /\ LocalPart \notin MoveBatches
BY MoveAssumption DEF FilesOf, LocalPart

LEMMA MovesStart == MoveInit => MoveInv
<1> SUFFICES ASSUME MoveInit PROVE MoveInv
  OBVIOUS
<1> USE DEF MoveInit
<1>1. InSeq(mvRegs) = {} /\ Once(mvRegs) /\ mvRegs \in Seq(MoveBatches)
  BY DEF InSeq, Once
<1>2. ToSet(mvRegs) = {} /\ IsInjective(mvRegs)
  BY DEF ToSet, IsInjective
<1>3. MoveTypeOK
  BY <1>2 DEF MoveTypeOK, Verbs
<1>4. JobsFit(mvView)
  BY FilesFacts DEF JobsFit, JobStates
<1>5. ListedFit
  BY FilesFacts DEF ListedFit
<1>6. \A b \in MoveBatches : RunFits(b)
  BY DEF RunFits, NoRun
<1>7. \A b \in MoveBatches : BatchFits(b)
  BY <1>1 DEF BatchFits
<1>8. OpenFits
  BY FilesFacts DEF OpenFits
<1>9. QED
  BY <1>1, <1>3, <1>4, <1>5, <1>6, <1>7, <1>8 DEF MoveInv

(* Deleted is a batch of a move that is whole.                              *)
LEMMA VerdictDeletes ==
  ASSUME NEW b \in MoveBatches, NEW jobs, NEW left, JobsFit(jobs), mvVerb \in Verbs,
         VerdictOn(b, jobs, left) = "delete"
  PROVE  /\ mvVerb = "move" /\ mvOpen = {} /\ b \notin mvSkipped
         /\ \A j \in FilesOf(b) : mvMain[j] = "completed"
<1>1. /\ mvOpen = {} /\ Here(b, jobs) # {} /\ ~Is(b, jobs, "live")
      /\ ~(Is(b, jobs, "failed") /\ ~Is(b, jobs, "cancelled"))
      /\ mvVerb # "copy" /\ b \notin mvSkipped /\ ~Is(b, jobs, "cancelled")
  BY DEF VerdictOn, Verdict
<1>2. \A j \in FilesOf(b) : jobs[j] \notin {"none", "live", "failed", "cancelled"}
  BY <1>1 DEF Here, Is, JobsFit
<1>3. \A j \in FilesOf(b) : jobs[j] = "completed"
  BY <1>2, FilesFacts DEF JobsFit, JobStates
<1>4. QED
  BY <1>1, <1>3, FilesFacts DEF JobsFit, Verbs

(* What a run of the loop changes: registrations go, and one batch at most  *)
(* is deleted, of those that were registered, whole and to be moved.       *)
JudgeEffect(jobs, left, run) ==
  /\ mvRegs' \in Seq(MoveBatches) /\ Once(mvRegs') /\ InSeq(mvRegs') \subseteq InSeq(mvRegs)
  /\ mvSeen' \subseteq MoveBatches
  /\ \/ mvRun' = run /\ mvDeletes' = mvDeletes
     \/ \E b \in InSeq(mvRegs), rest \in Seq(MoveBatches) :
          /\ b \notin InSeq(mvRegs')
          /\ mvRun' = [run EXCEPT ![b] = [on |-> TRUE, rest |-> rest, jobs |-> jobs, left |-> left]]
          /\ mvDeletes' = [mvDeletes EXCEPT ![b] = @ + 1]
          /\ mvVerb = "move" /\ mvOpen = {} /\ b \notin mvSkipped
          /\ \A j \in FilesOf(b) : mvMain[j] = "completed"

LEMMA JudgeFacts ==
  ASSUME mvVerb \in Verbs, mvSeen \subseteq MoveBatches, mvRegs \in Seq(MoveBatches), Once(mvRegs),
         NEW todo \in Seq(MoveBatches), NEW jobs, NEW left, NEW run, JobsFit(jobs),
         Judge(todo, jobs, left, run)
  PROVE  JudgeEffect(jobs, left, run)
<1>1. InSeq(mvRegs) = ToSet(mvRegs) /\ ToSet(mvRegs) \subseteq MoveBatches
  BY DEF InSeq, ToSet
<1>2. ASSUME NEW last, JudgeUpTo(todo, last, jobs, left)
      PROVE  /\ mvRegs' \in Seq(MoveBatches) /\ Once(mvRegs') /\ InSeq(mvRegs') \subseteq InSeq(mvRegs)
             /\ mvSeen' \subseteq MoveBatches
             /\ \A i \in 1..last : VerdictOn(todo[i], jobs, left) # "keep" => todo[i] \notin InSeq(mvRegs')
  <2>1. PICK judged, kept : /\ judged = {todo[i] : i \in 1..last} \cap ToSet(mvRegs)
                            /\ kept = {b \in judged : VerdictOn(b, jobs, left) = "keep"}
    OBVIOUS
  <2>2. /\ mvRegs' = Only(mvRegs, ToSet(mvRegs) \ (judged \ kept))
        /\ mvSeen' = (mvSeen \ judged) \union {b \in kept : SeenIn(b, jobs)}
    BY <1>2, <2>1 DEF JudgeUpTo
  <2>3. /\ mvRegs' \in Seq(MoveBatches) /\ Once(mvRegs')
        /\ InSeq(mvRegs') = InSeq(mvRegs) \cap (ToSet(mvRegs) \ (judged \ kept))
    BY <2>2, OnlyFacts
  <2>4. mvSeen' \subseteq MoveBatches
    BY <1>1, <2>1, <2>2
  <2>5. \A i \in 1..last : VerdictOn(todo[i], jobs, left) # "keep" => todo[i] \notin InSeq(mvRegs')
    BY <2>1, <2>3
  <2>6. QED
    BY <2>3, <2>4, <2>5
<1>3. CASE /\ JudgeUpTo(todo, Len(todo), jobs, left)
           /\ mvRun' = run /\ UNCHANGED mvDeletes
  BY <1>2, <1>3 DEF JudgeEffect
<1>4. ASSUME NEW i \in 1..Len(todo), todo[i] \in ToSet(mvRegs), VerdictOn(todo[i], jobs, left) = "delete",
             JudgeUpTo(todo, i, jobs, left),
             mvRun' = [run EXCEPT ![todo[i]] = [on |-> TRUE, rest |-> SubSeq(todo, i + 1, Len(todo)),
                                                jobs |-> jobs, left |-> left]],
             mvDeletes' = [mvDeletes EXCEPT ![todo[i]] = @ + 1]
      PROVE  /\ mvRegs' \in Seq(MoveBatches) /\ Once(mvRegs') /\ InSeq(mvRegs') \subseteq InSeq(mvRegs)
             /\ mvSeen' \subseteq MoveBatches
             /\ \E b \in InSeq(mvRegs), rest \in Seq(MoveBatches) :
                 /\ b \notin InSeq(mvRegs')
                 /\ mvRun' = [run EXCEPT ![b] = [on |-> TRUE, rest |-> rest, jobs |-> jobs, left |-> left]]
                 /\ mvDeletes' = [mvDeletes EXCEPT ![b] = @ + 1]
                 /\ mvVerb = "move" /\ mvOpen = {} /\ b \notin mvSkipped
                 /\ \A j \in FilesOf(b) : mvMain[j] = "completed"
  <2>1. /\ mvRegs' \in Seq(MoveBatches) /\ Once(mvRegs') /\ InSeq(mvRegs') \subseteq InSeq(mvRegs)
        /\ mvSeen' \subseteq MoveBatches
        /\ \A k \in 1..i : VerdictOn(todo[k], jobs, left) # "keep" => todo[k] \notin InSeq(mvRegs')
    BY <1>2, <1>4
  <2>2. i \in 1..i /\ Len(todo) \in Nat /\ i \in Nat
    BY <1>4
  <2>3. todo[i] \notin InSeq(mvRegs')
    BY <1>4, <2>1, <2>2
  <2>4. todo[i] \in InSeq(mvRegs) /\ todo[i] \in MoveBatches
    BY <1>1, <1>4
  <2>5. SubSeq(todo, i + 1, Len(todo)) \in Seq(MoveBatches)
    BY <2>2, SubSeqProperties
  <2>6. /\ mvVerb = "move" /\ mvOpen = {} /\ todo[i] \notin mvSkipped
        /\ \A j \in FilesOf(todo[i]) : mvMain[j] = "completed"
    BY <1>4, <2>4, VerdictDeletes
  <2>7. QED
    BY <1>4, <2>1, <2>3, <2>4, <2>5, <2>6
<1>5. ASSUME NEW i \in 1..Len(todo), todo[i] \in ToSet(mvRegs), VerdictOn(todo[i], jobs, left) = "delete",
             JudgeUpTo(todo, i, jobs, left),
             mvRun' = [run EXCEPT ![todo[i]] = [on |-> TRUE, rest |-> SubSeq(todo, i + 1, Len(todo)),
                                                jobs |-> jobs, left |-> left]],
             mvDeletes' = [mvDeletes EXCEPT ![todo[i]] = @ + 1]
      PROVE  JudgeEffect(jobs, left, run)
  BY <1>4, <1>5 DEF JudgeEffect
<1>6. QED
  BY <1>3, <1>5 DEF Judge

(* A run of runMoveCleanup keeps the invariant: also when several overlap.  *)
LEMMA JudgeKeeps ==
  ASSUME MoveInv, NEW todo \in Seq(MoveBatches), NEW jobs, NEW left, NEW run, JobsFit(jobs),
         DOMAIN run = MoveBatches, \A b \in MoveBatches : run[b] = mvRun[b] \/ ~run[b].on,
         Judge(todo, jobs, left, run),
         UNCHANGED <<mvPart, mvSkipped, mvMain, mvListed, mvVerb, mvOpen, mvLocal>>, JobsFit(mvView')
  PROVE  MoveInv'
<1>1. mvVerb \in Verbs /\ mvSeen \subseteq MoveBatches /\ mvRegs \in Seq(MoveBatches) /\ Once(mvRegs)
  BY DEF MoveInv, MoveTypeOK
<1>2. /\ mvRegs' \in Seq(MoveBatches) /\ Once(mvRegs') /\ InSeq(mvRegs') \subseteq InSeq(mvRegs)
      /\ mvSeen' \subseteq MoveBatches
      /\ \/ mvRun' = run /\ mvDeletes' = mvDeletes
         \/ \E b \in InSeq(mvRegs), rest \in Seq(MoveBatches) :
                 /\ b \notin InSeq(mvRegs')
                 /\ mvRun' = [run EXCEPT ![b] = [on |-> TRUE, rest |-> rest, jobs |-> jobs, left |-> left]]
                 /\ mvDeletes' = [mvDeletes EXCEPT ![b] = @ + 1]
                 /\ mvVerb = "move" /\ mvOpen = {} /\ b \notin mvSkipped
                 /\ \A j \in FilesOf(b) : mvMain[j] = "completed"
  <2>1. JudgeEffect(jobs, left, run)
    BY <1>1, JudgeFacts
  <2>2. QED
    BY <2>1 DEF JudgeEffect
<1> USE DEF MoveInv
<1>3. \A c \in MoveBatches : mvRun'[c] = run[c] /\ mvDeletes'[c] = mvDeletes[c] => RunFits(c)'
  <2> SUFFICES ASSUME NEW c \in MoveBatches, mvRun'[c] = run[c], mvDeletes'[c] = mvDeletes[c], run[c].on
               PROVE  RunFits(c)'
    BY DEF RunFits
  <2>1. mvRun'[c] = mvRun[c] /\ RunFits(c) /\ mvRun[c].on
    OBVIOUS
  <2>2. QED
    BY <2>1 DEF RunFits, JobsFit
<1>4. MoveTypeOK'
  <2>1. ToSet(mvRegs') = InSeq(mvRegs') /\ (Once(mvRegs') => IsInjective(mvRegs'))
    <3>1. DOMAIN mvRegs' = 1..Len(mvRegs')
      BY <1>2
    <3>2. QED
      BY <3>1 DEF ToSet, InSeq, Once, IsInjective
  <2>2. InSeq(mvRegs') \subseteq MoveBatches
    BY <1>2 DEF InSeq
  <2>3. mvView' \in [MoveJobs -> {"none", "live", "completed", "failed", "cancelled"}]
    BY DEF JobsFit, JobStates
  <2>4. QED
    BY <1>2, <2>1, <2>2, <2>3 DEF MoveTypeOK
<1>5. JobsFit(mvView)'
  BY DEF JobsFit
<1>6. ListedFit' /\ OpenFits'
  BY DEF ListedFit, OpenFits
<1>7. CASE mvRun' = run /\ mvDeletes' = mvDeletes
  <2>1. \A b \in MoveBatches : RunFits(b)'
    BY <1>3, <1>7
  <2>2. \A b \in MoveBatches : BatchFits(b)'
    BY <1>2, <1>7 DEF BatchFits
  <2>3. QED
    BY <1>2, <1>4, <1>5, <1>6, <1>7, <2>1, <2>2
<1>8. ASSUME NEW b \in InSeq(mvRegs), NEW rest \in Seq(MoveBatches),
             b \notin InSeq(mvRegs'),
             mvRun' = [run EXCEPT ![b] = [on |-> TRUE, rest |-> rest, jobs |-> jobs, left |-> left]],
             mvDeletes' = [mvDeletes EXCEPT ![b] = @ + 1],
             mvVerb = "move", mvOpen = {}, b \notin mvSkipped,
             \A j \in FilesOf(b) : mvMain[j] = "completed"
      PROVE  MoveInv'
  <2>1. b \in MoveBatches /\ BatchFits(b) /\ mvPart[b] = "sent" /\ mvDeletes[b] = 0
    <3>1. b \in MoveBatches
      BY <1>8 DEF InSeq
    <3>2. QED
      BY <1>8, <3>1 DEF BatchFits
  <2>2. mvDeletes' \in [MoveBatches -> Nat] /\ mvDeletes'[b] = 1
        /\ \A c \in MoveBatches : c # b => mvDeletes'[c] = mvDeletes[c] /\ mvRun'[c] = run[c]
    BY <1>8, <2>1
  <2>3. mvRun'[b] = [on |-> TRUE, rest |-> rest, jobs |-> jobs, left |-> left] /\ DOMAIN mvRun' = MoveBatches
    BY <1>8, <2>1
  <2>4. RunFits(b)'
    BY <1>8, <2>2, <2>3 DEF RunFits, JobsFit
  <2>5. \A c \in MoveBatches : c # b => RunFits(c)'
    BY <1>3, <2>2
  <2>6. BatchFits(b)'
    BY <1>8, <2>1, <2>2 DEF BatchFits
  <2>7. \A c \in MoveBatches : c # b => BatchFits(c)'
    BY <1>2, <2>2 DEF BatchFits
  <2>8. QED
    BY <1>2, <1>4, <1>5, <1>6, <2>2, <2>3, <2>4, <2>5, <2>6, <2>7
<1>9. QED
  BY <1>2, <1>7, <1>8

LEMMA WakeStep ==
  ASSUME MoveInv, Wake
  PROVE  MoveInv'
<1>1. mvRegs \in Seq(MoveBatches) /\ JobsFit(mvView) /\ DOMAIN mvRun = MoveBatches
  BY DEF MoveInv
<1>2. PICK view, run : view = mvView /\ run = mvRun
  OBVIOUS
<1>3. /\ Judge(mvRegs, view, view, run)
      /\ UNCHANGED <<mvPart, mvSkipped, mvMain, mvListed, mvVerb, mvOpen, mvLocal>> /\ JobsFit(mvView')
  <2>1. mvView' = mvView
    BY DEF Wake
  <2>2. QED
    BY <1>1, <1>2, <2>1 DEF Wake
<1>4. QED
  BY <1>1, <1>2, <1>3, JudgeKeeps

LEMMA OriginalsDeletedStep ==
  ASSUME MoveInv, NEW b \in MoveBatches, OriginalsDeleted(b)
  PROVE  MoveInv'
<1>1. JobsFit(mvView) /\ DOMAIN mvRun = MoveBatches /\ RunFits(b) /\ mvRun[b].on
  BY DEF MoveInv, OriginalsDeleted
<1>2. PICK todo, jobs, left, run : /\ todo = mvRun[b].rest /\ jobs = mvRun[b].jobs /\ left = mvRun[b].left
                                   /\ run = [mvRun EXCEPT ![b] = NoRun]
  OBVIOUS
<1>3. todo \in Seq(MoveBatches) /\ JobsFit(jobs)
  BY <1>1, <1>2 DEF RunFits
<1>4. DOMAIN run = MoveBatches /\ \A c \in MoveBatches : run[c] = mvRun[c] \/ ~run[c].on
  BY <1>1, <1>2 DEF NoRun
<1>5. /\ Judge(todo, jobs, left, run)
      /\ UNCHANGED <<mvPart, mvSkipped, mvMain, mvListed, mvVerb, mvOpen, mvLocal>> /\ JobsFit(mvView')
  <2>1. mvView' = mvView
    BY DEF OriginalsDeleted
  <2>2. QED
    BY <1>1, <1>2, <2>1 DEF OriginalsDeleted
<1>6. QED
  BY <1>3, <1>4, <1>5, JudgeKeeps

(* What a queue reports of a batch is all of it or nothing.                 *)
LEMMA ReportsFit ==
  ASSUME MoveInv, NEW b \in MoveBatches
  PROVE  JobsFit(Reported(b)) /\ JobsFit(Remaining(b))
<1>1. /\ mvMain \in [MoveJobs -> JobStates] /\ mvView \in [MoveJobs -> JobStates] /\ JobsFit(mvView)
      /\ FilesOf(b) \subseteq mvListed \/ FilesOf(b) \cap mvListed = {}
      /\ \A j \in FilesOf(b) : j \in mvListed => mvMain[j] # "none"
  BY DEF MoveInv, MoveTypeOK, ListedFit, JobStates
<1>2. \A c \in MoveBatches : FilesOf(c) \subseteq MoveJobs /\ (c # b => FilesOf(c) \cap FilesOf(b) = {})
  BY FilesFacts
<1>3. PICK rep : rep = Reported(b)
  OBVIOUS
<1>4. /\ rep \in [MoveJobs -> JobStates]
      /\ \A j \in MoveJobs : rep[j] = IF j \in FilesOf(b) \cap mvListed THEN mvMain[j] ELSE mvView[j]
  BY <1>1, <1>3 DEF Reported
<1>5. JobsFit(rep)
  <2>1. ASSUME NEW c \in MoveBatches
        PROVE  \/ \A j \in FilesOf(c) : rep[j] = "none"
               \/ \A j \in FilesOf(c) : rep[j] # "none"
    <3>1. CASE c = b /\ FilesOf(b) \subseteq mvListed
      BY <1>1, <1>2, <1>4, <3>1
    <3>2. CASE c # b \/ FilesOf(b) \cap mvListed = {}
      <4>1. \A j \in FilesOf(c) : rep[j] = mvView[j]
        BY <1>2, <1>4, <3>2
      <4>2. QED
        BY <1>1, <4>1 DEF JobsFit
    <3>3. QED
      BY <1>1, <3>1, <3>2
  <2>2. \A j \in MoveJobs : rep[j] = "completed" => mvMain[j] = "completed"
    BY <1>1, <1>4 DEF JobsFit
  <2>3. QED
    BY <1>4, <2>1, <2>2 DEF JobsFit
<1>6. PICK rem : rem = Remaining(b)
  OBVIOUS
<1>7. /\ rem \in [MoveJobs -> JobStates]
      /\ \A j \in MoveJobs : rem[j] = IF j \in FilesOf(b) \ mvListed THEN "none" ELSE rep[j]
  BY <1>3, <1>4, <1>6 DEF Remaining, JobStates
<1>8. JobsFit(rem)
  <2>1. ASSUME NEW c \in MoveBatches
        PROVE  \/ \A j \in FilesOf(c) : rem[j] = "none"
               \/ \A j \in FilesOf(c) : rem[j] # "none"
    <3>1. CASE c = b /\ FilesOf(b) \cap mvListed = {}
      BY <1>2, <1>7, <3>1
    <3>2. CASE c # b \/ FilesOf(b) \subseteq mvListed
      <4>1. \A j \in FilesOf(c) : rem[j] = rep[j]
        BY <1>2, <1>7, <3>2
      <4>2. QED
        BY <1>5, <4>1 DEF JobsFit
    <3>3. QED
      BY <1>1, <3>1, <3>2
  <2>2. \A j \in MoveJobs : rem[j] = "completed" => mvMain[j] = "completed"
    BY <1>5, <1>7 DEF JobsFit
  <2>3. QED
    BY <1>7, <2>1, <2>2 DEF JobsFit
<1>9. QED
  BY <1>3, <1>5, <1>6, <1>8

LEMMA UpdateStep ==
  ASSUME MoveInv, NEW b \in MoveBatches, Update(b)
  PROVE  MoveInv'
<1>1. mvRegs \in Seq(MoveBatches) /\ DOMAIN mvRun = MoveBatches
  BY DEF MoveInv
<1>2. PICK jobs, left, run : jobs = Reported(b) /\ left = Remaining(b) /\ run = mvRun
  OBVIOUS
<1>3. JobsFit(jobs) /\ JobsFit(left)
  BY <1>2, ReportsFit
<1>4. /\ Judge(mvRegs, jobs, left, run)
      /\ UNCHANGED <<mvPart, mvSkipped, mvMain, mvListed, mvVerb, mvOpen, mvLocal>> /\ JobsFit(mvView')
  <2>1. mvView' = left
    BY <1>2 DEF Update
  <2>2. QED
    BY <1>2, <1>3, <2>1 DEF Update
<1>5. QED
  BY <1>1, <1>2, <1>3, <1>4, JudgeKeeps

(* Jobs that the main process completed stay so.                            *)
LEMMA CompletedStays ==
  ASSUME MoveInv, UNCHANGED <<mvView, mvRun, mvDeletes>>,
         \A j \in MoveJobs : mvMain[j] = "completed" => mvMain'[j] = "completed"
  PROVE  JobsFit(mvView)' /\ \A b \in MoveBatches : RunFits(b)'
<1>1. JobsFit(mvView)'
  BY DEF MoveInv, JobsFit
<1>2. ASSUME NEW b \in MoveBatches, mvRun[b].on PROVE RunFits(b)'
  <2>1. RunFits(b)
    BY DEF MoveInv
  <2>2. QED
    BY <1>2, <2>1 DEF RunFits, JobsFit
<1>3. QED
  BY <1>1, <1>2 DEF RunFits

LEMMA BatchQueuedStep ==
  ASSUME MoveInv, NEW b \in MoveBatches, BatchQueued(b)
  PROVE  MoveInv'
<1> USE DEF MoveInv
<1>1. /\ mvPart[b] = "asking" /\ mvPart' = [mvPart EXCEPT ![b] = "accepted"]
      /\ mvMain' = [j \in MoveJobs |-> IF j \in FilesOf(b) THEN "live" ELSE mvMain[j]]
      /\ mvListed' = mvListed \union FilesOf(b)
      /\ mvSkipped' \in {mvSkipped, mvSkipped \union {b}}
      /\ UNCHANGED <<mvView, mvVerb, mvOpen, mvRegs, mvSeen, mvRun, mvDeletes, mvLocal>>
  BY DEF BatchQueued
<1>2. /\ \A j \in FilesOf(b) : mvMain[j] = "none"
      /\ mvPart'[b] = "accepted" /\ \A c \in MoveBatches : c # b => mvPart'[c] = mvPart[c]
  BY <1>1 DEF ListedFit, MoveTypeOK
<1>3. \A c \in MoveBatches : FilesOf(c) \subseteq MoveJobs /\ (c # b => FilesOf(c) \cap FilesOf(b) = {})
  BY FilesFacts
<1>4. \A j \in MoveJobs : mvMain[j] = "completed" => mvMain'[j] = "completed"
  BY <1>1, <1>2
<1>5. JobsFit(mvView)' /\ \A c \in MoveBatches : RunFits(c)'
  BY <1>1, <1>4, CompletedStays
<1>6. MoveTypeOK'
  <2>1. mvMain' \in [MoveJobs -> {"none", "live", "completed", "failed", "cancelled"}]
    BY <1>1 DEF MoveTypeOK
  <2>2. mvPart' \in [MoveBatches -> {"asking", "sheet", "accepted", "sent", "quit"}]
    BY <1>1 DEF MoveTypeOK
  <2>3. QED
    BY <1>1, <1>3, <2>1, <2>2 DEF MoveTypeOK
<1>7. ListedFit'
  <2> SUFFICES ASSUME NEW c \in MoveBatches
               PROVE  /\ FilesOf(c) \subseteq mvListed' \/ FilesOf(c) \cap mvListed' = {}
                      /\ \A j \in FilesOf(c) : j \in mvListed' => mvMain'[j] # "none"
                      /\ mvPart'[c] \in {"asking", "sheet", "quit"} => \A j \in FilesOf(c) : mvMain'[j] = "none"
    BY DEF ListedFit
  <2>1. CASE c = b
    BY <1>1, <1>2, <1>3, <2>1
  <2>2. CASE c # b
    <3>1. \A j \in FilesOf(c) : mvMain'[j] = mvMain[j] /\ (j \in mvListed' <=> j \in mvListed)
      BY <1>1, <1>3, <2>2
    <3>2. QED
      BY <1>2, <2>2, <3>1 DEF ListedFit
  <2>3. QED
    BY <2>1, <2>2
<1>8. \A c \in MoveBatches : BatchFits(c)'
  <2> SUFFICES ASSUME NEW c \in MoveBatches PROVE BatchFits(c)'
    OBVIOUS
  <2>1. BatchFits(c) /\ mvDeletes[c] \in Nat
    OBVIOUS
  <2>2. CASE c = b
    BY <1>1, <2>1, <2>2 DEF BatchFits
  <2>3. CASE c # b
    <3>1. \A j \in FilesOf(c) : mvMain'[j] = mvMain[j]
      BY <1>1, <1>3, <2>3
    <3>2. QED
      BY <1>1, <1>2, <2>1, <2>3, <3>1 DEF BatchFits
  <2>4. QED
    BY <2>2, <2>3
<1>9. OpenFits'
  BY <1>1, <1>2 DEF OpenFits
<1>10. QED
  BY <1>1, <1>5, <1>6, <1>7, <1>8, <1>9

(* A part of the send moves on, while its verb is open: nothing has been    *)
(* deleted, and no copy on this computer made.                             *)
LEMMA PartStep ==
  ASSUME MoveInv, NEW b \in MoveBatches, b \in mvOpen, NEW p \in {"asking", "sheet", "quit", "sent"},
         mvPart' = [mvPart EXCEPT ![b] = p],
         mvPart[b] = "accepted" <=> p = "sent",
         mvOpen' = IF p \in {"quit", "sent"} THEN mvOpen \ {b} ELSE mvOpen,
         mvRegs' = IF p = "sent" THEN Append(mvRegs, b) ELSE mvRegs,
         mvVerb' \in Verbs,
         UNCHANGED <<mvSkipped, mvMain, mvListed, mvView, mvSeen, mvRun, mvDeletes, mvLocal>>
  PROVE  MoveInv'
<1> USE DEF MoveInv
<1>1. /\ mvPart'[b] = p /\ \A c \in MoveBatches : c # b => mvPart'[c] = mvPart[c]
      /\ mvPart' \in [MoveBatches -> {"asking", "sheet", "accepted", "sent", "quit"}]
      /\ mvPart[b] \in {"asking", "sheet", "accepted"} /\ b # LocalPart
  BY FilesFacts DEF MoveTypeOK, OpenFits
<1>2. \A c \in MoveBatches : mvDeletes[c] = 0 /\ BatchFits(c)
  BY DEF BatchFits
<1>3. /\ mvRegs' \in Seq(MoveBatches) /\ Once(mvRegs')
      /\ InSeq(mvRegs') = IF p = "sent" THEN InSeq(mvRegs) \cup {b} ELSE InSeq(mvRegs)
  <2>1. CASE p = "sent"
    <3>1. b \notin InSeq(mvRegs)
      BY <1>2, <2>1 DEF BatchFits
    <3>2. mvRegs' = Append(mvRegs, b) /\ mvRegs' \in Seq(MoveBatches) /\ Len(mvRegs') = Len(mvRegs) + 1
          /\ Len(mvRegs) \in Nat /\ mvRegs'[Len(mvRegs) + 1] = b
          /\ \A i \in 1..Len(mvRegs) : mvRegs'[i] = mvRegs[i]
      BY <2>1
    <3>3. InSeq(mvRegs') = InSeq(mvRegs) \cup {b}
      BY <3>2 DEF InSeq
    <3>4. Once(mvRegs')
      BY <3>1, <3>2 DEF Once, InSeq
    <3>5. QED
      BY <2>1, <3>2, <3>3, <3>4
  <2>2. QED
    BY <2>1
<1>4. MoveTypeOK'
  <2>1. DOMAIN mvRegs' = 1..Len(mvRegs')
    BY <1>3
  <2>2. ToSet(mvRegs') = InSeq(mvRegs') /\ IsInjective(mvRegs')
    BY <1>3, <2>1 DEF ToSet, InSeq, Once, IsInjective
  <2>3. InSeq(mvRegs') \subseteq MoveBatches
    BY <1>3 DEF InSeq
  <2>4. QED
    BY <1>1, <2>2, <2>3 DEF MoveTypeOK
<1>5. JobsFit(mvView)' /\ \A c \in MoveBatches : RunFits(c)'
  BY CompletedStays
<1>6. ListedFit'
  <2>1. mvPart'[b] \in {"asking", "sheet", "quit"} => mvPart[b] \in {"asking", "sheet"}
    BY <1>1
  <2>2. QED
    BY <1>1, <2>1 DEF ListedFit
<1>7. \A c \in MoveBatches : BatchFits(c)'
  BY <1>1, <1>2, <1>3 DEF BatchFits
<1>8. OpenFits'
  <2>1. mvLocal \notin {"copied", "moved"}
    BY DEF OpenFits
  <2>2. LocalPart \in mvOpen' <=> mvLocal' = "asking"
    BY <1>1 DEF OpenFits
  <2>3. \A c \in MoveBatches : c \in mvOpen' <=> mvPart'[c] \in {"asking", "sheet", "accepted"}
    BY <1>1 DEF OpenFits
  <2>4. QED
    BY <2>1, <2>2, <2>3 DEF OpenFits
<1>9. QED
  BY <1>3, <1>4, <1>5, <1>6, <1>7, <1>8

LEMMA PartSteps ==
  ASSUME MoveInv, NEW b \in MoveBatches,
         BatchAccepted(b) \/ SheetShown(b) \/ SheetAnswered(b) \/ SendGivenUp(b)
  PROVE  MoveInv'
<1>1. mvPart[b] \in {"asking", "sheet", "accepted"} /\ b \in mvOpen /\ mvVerb \in Verbs
  BY DEF BatchAccepted, SheetShown, SheetAnswered, SendGivenUp, MoveInv, OpenFits, MoveTypeOK
<1>2. CASE BatchAccepted(b)
  BY <1>1, <1>2, PartStep DEF BatchAccepted, Release
<1>3. CASE SheetShown(b)
  BY <1>1, <1>3, PartStep DEF SheetShown
<1>4. CASE SheetAnswered(b)
  BY <1>1, <1>4, PartStep DEF SheetAnswered
<1>5. CASE SendGivenUp(b)
  BY <1>1, <1>5, PartStep DEF SendGivenUp, Release
<1>6. QED
  BY <1>2, <1>3, <1>4, <1>5

LEMMA LocalSteps ==
  ASSUME MoveInv, LocalAsked \/ LocalCopies
  PROVE  MoveInv'
<1> USE DEF MoveInv
<1>1. UNCHANGED <<mvPart, mvSkipped, mvMain, mvListed, mvView, mvRegs, mvSeen, mvRun, mvDeletes>>
  BY DEF LocalAsked, LocalCopies
<1>2. JobsFit(mvView)' /\ \A c \in MoveBatches : RunFits(c)'
  BY <1>1, CompletedStays
<1>3. ListedFit'
  BY <1>1 DEF ListedFit
<1>4. CASE LocalAsked
  <2>1. /\ mvLocal = "asking" /\ mvLocal' \in {"waiting", "quit"} /\ mvVerb' \in Verbs
        /\ mvOpen' = mvOpen \ {LocalPart} /\ LocalPart \in mvOpen
    BY <1>4 DEF LocalAsked, Release, MoveTypeOK, OpenFits
  <2>2. MoveTypeOK'
    BY <1>1, <2>1 DEF MoveTypeOK
  <2>3. \A c \in MoveBatches : mvDeletes[c] = 0
    BY <2>1 DEF BatchFits
  <2>4. \A c \in MoveBatches : BatchFits(c)'
    BY <1>1, <2>3 DEF BatchFits
  <2>5. OpenFits'
    BY <1>1, <2>1, FilesFacts DEF OpenFits
  <2>6. QED
    BY <1>1, <1>2, <1>3, <2>2, <2>4, <2>5
<1>5. CASE LocalCopies
  <2>1. /\ mvOpen = {} /\ UNCHANGED <<mvOpen, mvVerb>> /\ mvVerb \in Verbs
        /\ mvLocal' = IF mvVerb = "move" THEN "moved" ELSE "copied"
    BY <1>5 DEF LocalCopies, LocalGoes, MoveTypeOK
  <2>2. MoveTypeOK'
    BY <1>1, <2>1 DEF MoveTypeOK
  <2>3. \A c \in MoveBatches : BatchFits(c)'
    BY <1>1, <2>1 DEF BatchFits
  <2>4. OpenFits'
    BY <1>1, <2>1 DEF OpenFits, Verbs
  <2>5. QED
    BY <1>1, <1>2, <1>3, <2>2, <2>3, <2>4
<1>6. QED
  BY <1>4, <1>5

(* The main process ends, retries and forgets jobs: no job comes or goes    *)
(* in its own book, and a batch leaves its list as a whole.                *)
LEMMA MainStep ==
  ASSUME MoveInv, MainOnly,
         mvMain' \in [MoveJobs -> JobStates],
         \A j \in MoveJobs : /\ mvMain[j] = "completed" => mvMain'[j] = "completed"
                             /\ mvMain'[j] = "none" <=> mvMain[j] = "none",
         mvListed' \subseteq mvListed,
         \A b \in MoveBatches : FilesOf(b) \subseteq mvListed' \/ FilesOf(b) \cap mvListed' = {}
  PROVE  MoveInv'
<1> USE DEF MoveInv
<1>1. UNCHANGED <<mvPart, mvSkipped, mvView, mvVerb, mvOpen, mvRegs, mvSeen, mvRun, mvDeletes, mvLocal>>
  BY DEF MainOnly
<1>2. JobsFit(mvView)' /\ \A b \in MoveBatches : RunFits(b)'
  BY <1>1, CompletedStays
<1>3. \A b \in MoveBatches : FilesOf(b) \subseteq MoveJobs
  BY FilesFacts
<1>4. MoveTypeOK'
  <2>1. mvMain' \in [MoveJobs -> {"none", "live", "completed", "failed", "cancelled"}]
    BY DEF JobStates
  <2>2. mvListed' \subseteq MoveJobs
    BY DEF MoveTypeOK
  <2>3. QED
    BY <1>1, <2>1, <2>2 DEF MoveTypeOK
<1>5. ListedFit'
  BY <1>1, <1>3 DEF ListedFit
<1>6. \A b \in MoveBatches : BatchFits(b)'
  BY <1>1, <1>3 DEF BatchFits
<1>7. OpenFits'
  BY <1>1 DEF OpenFits
<1>8. QED
  BY <1>1, <1>2, <1>4, <1>5, <1>6, <1>7

LEMMA MainSteps ==
  ASSUME MoveInv, ClearCompleted \/ \E j \in MoveJobs : JobEnds(j) \/ JobRetried(j)
  PROVE  MoveInv'
<1>1. /\ mvMain \in [MoveJobs -> JobStates] /\ mvListed \subseteq MoveJobs
      /\ \A b \in MoveBatches : FilesOf(b) \subseteq mvListed \/ FilesOf(b) \cap mvListed = {}
  BY DEF MoveInv, MoveTypeOK, ListedFit, JobStates
<1>2. ASSUME NEW j \in MoveJobs, JobEnds(j) \/ JobRetried(j) PROVE MoveInv'
  <2>1. PICK s \in JobStates : s # "none" /\ mvMain' = [mvMain EXCEPT ![j] = s]
    BY <1>2 DEF JobEnds, JobRetried, JobStates
  <2>2. MainOnly /\ mvListed' = mvListed /\ mvMain[j] \in {"live", "failed"}
    BY <1>2 DEF JobEnds, JobRetried
  <2>3. mvMain' \in [MoveJobs -> JobStates]
    BY <1>1, <2>1
  <2>4. \A k \in MoveJobs : /\ mvMain[k] = "completed" => mvMain'[k] = "completed"
                            /\ mvMain'[k] = "none" <=> mvMain[k] = "none"
    BY <1>1, <2>1, <2>2
  <2>5. QED
    BY <1>1, <2>2, <2>3, <2>4, MainStep
<1>3. CASE ClearCompleted
  <2>1. MainOnly /\ mvMain' = mvMain /\ mvListed' = mvListed \ Clearable
    BY <1>3 DEF ClearCompleted
  <2>2. ASSUME NEW b \in MoveBatches
        PROVE  FilesOf(b) \subseteq mvListed' \/ FilesOf(b) \cap mvListed' = {}
    <3>1. \A j \in FilesOf(b) : j \div 10 = b
      BY DEF FilesOf
    <3>2. \A j \in FilesOf(b) :
            j \in Clearable <=> (j \in mvListed /\ \A k \in FilesOf(b) : mvMain[k] # "live")
      BY <3>1 DEF Clearable
    <3>3. CASE \A k \in FilesOf(b) : mvMain[k] # "live"
      BY <1>1, <2>1, <3>2, <3>3
    <3>4. CASE ~ \A k \in FilesOf(b) : mvMain[k] # "live"
      BY <1>1, <2>1, <3>2, <3>4
    <3>5. QED
      BY <3>3, <3>4
  <2>3. QED
    BY <1>1, <2>1, <2>2, MainStep
<1>4. QED
  BY <1>2, <1>3

(* Every step of a send preserves the invariant, so all states have it.     *)
THEOREM MoveInvariance == MoveInit /\ [][MoveNext]_moveVars => []MoveInv
<1>1. ASSUME MoveInv, [MoveNext]_moveVars PROVE MoveInv'
  <2>1. CASE Wake
    BY <1>1, <2>1, WakeStep
  <2>2. CASE LocalAsked \/ LocalCopies
    BY <1>1, <2>2, LocalSteps
  <2>3. ASSUME NEW b \in MoveBatches, BatchQueued(b) PROVE MoveInv'
    BY <1>1, <2>3, BatchQueuedStep
  <2>4. ASSUME NEW b \in MoveBatches,
               BatchAccepted(b) \/ SheetShown(b) \/ SheetAnswered(b) \/ SendGivenUp(b)
        PROVE  MoveInv'
    BY <1>1, <2>4, PartSteps
  <2>5. ASSUME NEW b \in MoveBatches, OriginalsDeleted(b) PROVE MoveInv'
    BY <1>1, <2>5, OriginalsDeletedStep
  <2>6. ASSUME NEW b \in MoveBatches, Update(b) PROVE MoveInv'
    BY <1>1, <2>6, UpdateStep
  <2>7. CASE ClearCompleted \/ \E j \in MoveJobs : JobEnds(j) \/ JobRetried(j)
    BY <1>1, <2>7, MainSteps
  <2>8. CASE UNCHANGED moveVars
    <3>1. UNCHANGED <<mvPart, mvSkipped, mvMain, mvListed, mvView, mvVerb, mvOpen, mvRegs, mvSeen,
                      mvRun, mvDeletes, mvLocal>>
      BY <2>8 DEF moveVars
    <3>2. JobsFit(mvView)' /\ \A b \in MoveBatches : RunFits(b)'
      BY <1>1, <3>1, CompletedStays
    <3>3. MoveTypeOK' /\ ListedFit' /\ OpenFits'
      BY <1>1, <3>1 DEF MoveInv, MoveTypeOK, ListedFit, OpenFits
    <3>4. \A b \in MoveBatches : BatchFits(b)'
      BY <1>1, <3>1 DEF MoveInv, BatchFits
    <3>5. QED
      BY <1>1, <3>1, <3>2, <3>3, <3>4 DEF MoveInv
  <2>9. QED
    BY <1>1, <2>1, <2>2, <2>3, <2>4, <2>5, <2>6, <2>7, <2>8 DEF MoveNext, MoveProgress
<1>2. QED
  BY <1>1, MovesStart, PTL

(* The originals of a move are deleted only when every file of their batch  *)
(* has come whole and none was left out, by a send whose parts all move,    *)
(* and never twice (runMoveCleanup and sendItems).                          *)
THEOREM MovesAreWhole == MoveInit /\ [][MoveNext]_moveVars => []MoveSafe
<1>1. ASSUME MoveInv PROVE MoveSafe
  <2> USE <1>1 DEF MoveInv
  <2>1. ASSUME NEW b \in MoveBatches, Deleting(b) PROVE mvDeletes[b] > 0
    BY <2>1 DEF Deleting, RunFits
  <2>2. MoveIsWhole
    BY <2>1 DEF MoveIsWhole, BatchFits
  <2>3. OneVerb
    BY <2>1 DEF OneVerb, BatchFits, OpenFits
  <2>4. DeletedOnce
    BY DEF DeletedOnce, BatchFits
  <2>5. QED
    BY <2>2, <2>3, <2>4 DEF MoveSafe
<1>2. QED
  BY <1>1, MoveInvariance, PTL

-----------------------------------------------------------------------------
(* Moves within a server (the second part of MoveSends).                    *)

RunStages == {"none", "next", "plain", "park", "move", "back", "drop", "ended"}
Busy == {"plain", "park", "move", "back", "drop"}
RunRecord == [at : RunStages, plan : SUBSET Names, left : SUBSET Names, name : Names \cup {0},
              replace : SUBSET Names, wrong : BOOLEAN, told : SUBSET ServerNames]
Working(r) == rmRun[r].at \notin {"none", "ended"}

(* Every file is somewhere, or has been deleted or replaced; a folder that  *)
(* is moved from holds nothing but its own files.                          *)
ServerFits ==
  /\ rmFiles \in [ServerNames -> Contents \cup {0}]
  /\ rmUp \in BOOLEAN /\ rmOverlap \in BOOLEAN /\ MovesTypeOK
  /\ \A c \in Contents : OnServer(c) \/ c \in rmDeleted \cup rmClobbered
  /\ \A r \in MoveRuns, n \in Names : FileAt(From(r, n)) \in {0, 10 * r + n}

(* The names only one run works on: its files, and those it put aside.     *)
NameFits(r) ==
  /\ rmRun[r].at \in Busy => rmRun[r].name \in Names /\ rmRun[r].name \notin rmRun[r].left
  /\ rmRun[r].at = "ended" => rmRun[r].left = {}
Untouched(r, n) == \/ n \in rmRun[r].left \/ rmRun[r].at = "none"
                   \/ rmRun[r].at = "park" /\ n = rmRun[r].name
HasAside(r, n) == rmRun[r].at \in {"move", "back", "drop"} /\ n = rmRun[r].name
AsideFits(r, n) ==
  /\ Untouched(r, n) => FileAt(Aside(r, n)) = 0
  /\ HasAside(r, n) => FileAt(Aside(r, n)) # 0
  /\ rmRun[r].at = "drop" /\ n = rmRun[r].name => FileAt(From(r, n)) = 0
ToldFits(r, n) ==
  FileAt(Aside(r, n)) # 0 /\ rmUp
    => \/ HasAside(r, n) \/ Aside(r, n) \in rmRun[r].told \/ FileAt(From(r, n)) = 0
PlanFits(r, n) ==
  ~rmRun[r].wrong /\ n \in rmRun[r].plan
    => \/ n \in rmRun[r].left \/ rmRun[r].at = "none" \/ FileAt(From(r, n)) = 0
       \/ rmRun[r].at \in Busy /\ n = rmRun[r].name
OwnFits(r) == NameFits(r) /\ \A n \in Names : AsideFits(r, n) /\ ToldFits(r, n) /\ PlanFits(r, n)

(* What a run that works alone knows of the folder it moves to.            *)
TargetFits(r) ==
  /\ \A n \in rmRun[r].left \ rmRun[r].replace : FileAt(ToName(n)) = 0
  /\ rmRun[r].at \in {"plain", "move"} \/ (rmRun[r].at = "back" /\ rmUp)
       => FileAt(ToName(rmRun[r].name)) = 0
  /\ rmRun[r].at = "drop" => FileAt(ToName(rmRun[r].name)) > 10

AloneFits ==
  ~rmOverlap => /\ \A r, s \in MoveRuns : Working(r) /\ Working(s) => r = s
                /\ \A r \in MoveRuns : Working(r) => TargetFits(r)
                /\ rmClobbered = {}
                /\ rmDeleted # {} => \E p \in ServerNames : p[1] # "from" /\ FileAt(p) > 10

MovesInv ==
  /\ ServerFits /\ AloneFits
  /\ rmRun \in [MoveRuns -> RunRecord]
  /\ \A r \in MoveRuns : OwnFits(r)

LEMMA PlaceFacts ==
  /\ \A r \in MoveRuns, n \in Names : /\ From(r, n) \in ServerNames /\ Aside(r, n) \in ServerNames
                                      /\ From(r, n)[1] = "from" /\ Aside(r, n)[1] # "from"
  /\ \A n \in Names : ToName(n) \in ServerNames /\ ToName(n)[1] # "from"
  /\ \A r, s \in MoveRuns, n, m \in Names :
       /\ From(r, n) = From(s, m) => r = s /\ n = m
       /\ Aside(r, n) = Aside(s, m) => r = s /\ n = m
       /\ From(r, n) # Aside(s, m)
  /\ \A r \in MoveRuns, n, m \in Names : From(r, n) # ToName(m) /\ Aside(r, n) # ToName(m)
  /\ \A n, m \in Names : ToName(n) = ToName(m) => n = m
BY DEF From, Aside, ToName, ServerNames

LEMMA ContentFacts ==
  /\ 0 \notin Contents /\ Contents \subseteq Nat /\ 1 \in Contents
  /\ \A r \in MoveRuns, n \in Names : 10 * r + n \in Contents /\ 10 * r + n > 10
BY RemoteMovesAssumption DEF Contents, Names

SameNames(run, r) == /\ run \in RunRecord /\ run.plan = rmRun[r].plan /\ run.left = rmRun[r].left
                     /\ run.name = rmRun[r].name /\ run.replace = rmRun[r].replace

LEMMA RunFields ==
  ASSUME rmRun \in [MoveRuns -> RunRecord], NEW r \in MoveRuns, NEW at \in RunStages
  PROVE  /\ SameNames(Run(r, at), r) /\ Run(r, at).at = at
         /\ Run(r, at).wrong = rmRun[r].wrong /\ Run(r, at).told = rmRun[r].told
<1>1. rmRun[r] \in RunRecord
  OBVIOUS
<1>2. QED
  BY <1>1 DEF Run, RunRecord, SameNames

LEMMA WrongFields ==
  ASSUME rmRun \in [MoveRuns -> RunRecord], NEW r \in MoveRuns, rmRun[r].name \in Names
  PROVE  /\ SameNames(Wrong(r, FALSE), r) /\ SameNames(Wrong(r, TRUE), r)
         /\ Wrong(r, FALSE).at = "next" /\ Wrong(r, FALSE).wrong
         /\ Wrong(r, FALSE).told = rmRun[r].told
         /\ Wrong(r, TRUE).at = "next" /\ Wrong(r, TRUE).wrong
         /\ Wrong(r, TRUE).told = rmRun[r].told \cup {Aside(r, rmRun[r].name)}
<1>1. rmRun[r] \in RunRecord /\ Aside(r, rmRun[r].name) \in ServerNames
  BY PlaceFacts
<1>2. QED
  BY <1>1 DEF Wrong, RunRecord, RunStages, SameNames

(* One rename loses nothing but what it replaces.                           *)
LEMMA RenameKeeps ==
  ASSUME ServerFits, NEW from \in ServerNames, NEW to \in ServerNames, from # to, to[1] # "from",
         Possible(from, to), Does(from, to), rmUp' \in BOOLEAN,
         UNCHANGED <<rmOverwrites, rmDeleted, rmOverlap>>
  PROVE  /\ ServerFits'
         /\ \A p \in ServerNames : rmFiles'[p] = IF p = to THEN rmFiles[from]
                                                 ELSE IF p = from THEN 0 ELSE rmFiles[p]
         /\ rmFiles[to] = 0 => /\ rmClobbered' = rmClobbered
                               /\ (\E p \in ServerNames : p[1] # "from" /\ rmFiles[p] > 10)
                                   => \E p \in ServerNames : p[1] # "from" /\ rmFiles'[p] > 10
<1>1. /\ rmFiles \in [ServerNames -> Contents \cup {0}] /\ rmFiles[from] # 0
      /\ rmFiles[to] = 0 \/ rmOverwrites
      /\ rmFiles' = [rmFiles EXCEPT ![to] = rmFiles[from], ![from] = 0]
      /\ rmClobbered' = IF rmFiles[to] = 0 THEN rmClobbered ELSE rmClobbered \cup {rmFiles[to]}
  BY DEF ServerFits, Possible, Does, FileAt
<1>2. \A p \in ServerNames : rmFiles'[p] = IF p = to THEN rmFiles[from]
                                           ELSE IF p = from THEN 0 ELSE rmFiles[p]
  BY <1>1
<1>3. rmFiles' \in [ServerNames -> Contents \cup {0}]
  BY <1>1
<1>4. MovesTypeOK'
  BY <1>1 DEF ServerFits, MovesTypeOK
<1>5. ASSUME NEW c \in Contents PROVE OnServer(c)' \/ c \in (rmDeleted \cup rmClobbered)'
  <2>1. CASE c \in rmDeleted \cup rmClobbered
    BY <1>1, <2>1
  <2>2. CASE OnServer(c)
    <3>1. PICK p \in ServerNames : rmFiles[p] = c
      BY <2>2 DEF OnServer, FileAt
    <3>2. CASE p = from
      BY <1>2, <3>1, <3>2 DEF OnServer, FileAt
    <3>3. CASE p = to
      BY <1>1, <3>1, <3>3, ContentFacts
    <3>4. CASE p # from /\ p # to
      BY <1>2, <3>1, <3>4 DEF OnServer, FileAt
    <3>5. QED
      BY <3>2, <3>3, <3>4
  <2>3. QED
    BY <2>1, <2>2 DEF ServerFits
<1>6. \A r \in MoveRuns, n \in Names : FileAt(From(r, n))' \in {0, 10 * r + n}
  <2> SUFFICES ASSUME NEW r \in MoveRuns, NEW n \in Names PROVE rmFiles'[From(r, n)] \in {0, 10 * r + n}
    BY DEF FileAt
  <2>1. From(r, n) \in ServerNames /\ From(r, n) # to /\ rmFiles[From(r, n)] \in {0, 10 * r + n}
    BY PlaceFacts DEF ServerFits, FileAt
  <2>2. QED
    BY <1>2, <2>1
<1>7. ASSUME rmFiles[to] = 0, NEW p \in ServerNames, p[1] # "from", rmFiles[p] > 10
      PROVE  \E q \in ServerNames : q[1] # "from" /\ rmFiles'[q] > 10
  <2>1. CASE p = from
    BY <1>2, <1>7, <2>1
  <2>2. CASE p # from
    <3>1. p # to
      BY <1>7
    <3>2. QED
      BY <1>2, <1>7, <2>2, <3>1
  <2>3. QED
    BY <2>1, <2>2
<1>8. rmOverlap' \in BOOLEAN
  BY DEF ServerFits
<1>9. ServerFits'
  BY <1>3, <1>4, <1>5, <1>6, <1>8 DEF ServerFits
<1>10. QED
  BY <1>1, <1>2, <1>7, <1>9

(* What a step of one run leaves of the others.                             *)
LEMMA OneRunSteps ==
  ASSUME MovesInv, NEW r \in MoveRuns, Working(r), NEW run \in RunRecord,
         rmRun' = [rmRun EXCEPT ![r] = run],
         ServerFits', rmUp' => rmUp, UNCHANGED rmOverlap,
         \A s \in MoveRuns, n \in Names :
           s # r => /\ rmFiles'[From(s, n)] = rmFiles[From(s, n)]
                    /\ rmFiles'[Aside(s, n)] = rmFiles[Aside(s, n)],
         OwnFits(r)',
         ~rmOverlap => /\ rmClobbered' = {} /\ (Working(r)' => TargetFits(r)')
                       /\ rmDeleted' # {} => \E p \in ServerNames : p[1] # "from" /\ rmFiles'[p] > 10
  PROVE  MovesInv'
<1>1. /\ rmRun \in [MoveRuns -> RunRecord] /\ rmRun' \in [MoveRuns -> RunRecord]
      /\ rmRun'[r] = run /\ \A s \in MoveRuns : s # r => rmRun'[s] = rmRun[s]
  BY DEF MovesInv
<1>2. ASSUME NEW s \in MoveRuns, s # r PROVE OwnFits(s)'
  <2>1. OwnFits(s) /\ rmRun'[s] = rmRun[s] /\ rmRun[s] \in RunRecord
    BY <1>1, <1>2 DEF MovesInv
  <2>2. \A n \in Names : rmFiles'[From(s, n)] = rmFiles[From(s, n)] /\ rmFiles'[Aside(s, n)] = rmFiles[Aside(s, n)]
    BY <1>2
  <2>3. NameFits(s)'
    BY <2>1 DEF OwnFits, NameFits
  <2>4. ASSUME NEW n \in Names PROVE AsideFits(s, n)' /\ ToldFits(s, n)' /\ PlanFits(s, n)'
    <3>1. AsideFits(s, n) /\ ToldFits(s, n) /\ PlanFits(s, n)
      BY <2>1 DEF OwnFits
    <3>2. QED
      BY <2>1, <2>2, <3>1 DEF AsideFits, ToldFits, PlanFits, Untouched, HasAside, FileAt
  <2>5. QED
    BY <2>3, <2>4 DEF OwnFits
<1>3. AloneFits'
  <2> SUFFICES ASSUME ~rmOverlap
               PROVE  /\ \A s, t \in MoveRuns : Working(s)' /\ Working(t)' => s = t
                      /\ \A s \in MoveRuns : Working(s)' => TargetFits(s)'
                      /\ rmClobbered' = {}
                      /\ rmDeleted' # {} => \E p \in ServerNames : p[1] # "from" /\ rmFiles'[p] > 10
    BY DEF AloneFits, FileAt
  <2>1. \A s \in MoveRuns : Working(s) => s = r
    BY DEF MovesInv, AloneFits
  <2>2. \A s \in MoveRuns : Working(s)' => s = r
    BY <1>1, <2>1 DEF Working
  <2>3. QED
    BY <2>2
<1>4. QED
  BY <1>1, <1>2, <1>3 DEF MovesInv

(* A command of a run, done or not, is one of its steps as long as what it  *)
(* knows of the name it works on fits again.                               *)
Commands(r, n) == {<<From(r, n), ToName(n)>>, <<ToName(n), Aside(r, n)>>, <<Aside(r, n), ToName(n)>>}

LEMMA CommandStep ==
  ASSUME MovesInv, NEW r \in MoveRuns, NEW n \in Names, n = rmRun[r].name, rmRun[r].at \in Busy,
         NEW from, NEW to, <<from, to>> \in Commands(r, n),
         NEW run \in RunRecord, rmRun' = [rmRun EXCEPT ![r] = run],
         run.left = rmRun[r].left, run.plan = rmRun[r].plan, run.replace = rmRun[r].replace,
         run.name = n, run.at \notin {"none", "ended"},
         rmRun[r].wrong => run.wrong, rmRun[r].told \subseteq run.told,
         UNCHANGED <<rmFiles, rmClobbered>> \/ (Possible(from, to) /\ Does(from, to)),
         rmUp' \in BOOLEAN, rmUp' => rmUp, PlanKept,
         AsideFits(r, n)' /\ ToldFits(r, n)' /\ PlanFits(r, n)',
         ~rmOverlap => /\ rmFiles[to] = 0 \/ UNCHANGED rmFiles
                       /\ run.at \in {"plain", "move"} \/ (run.at = "back" /\ rmUp')
                            => rmFiles'[ToName(n)] = 0
                       /\ run.at = "drop" => rmFiles'[ToName(n)] > 10
  PROVE  MovesInv'
<1>1. /\ rmRun[r] \in RunRecord /\ ServerFits /\ OwnFits(r) /\ AloneFits
      /\ rmRun'[r] = run /\ UNCHANGED <<rmOverwrites, rmDeleted, rmOverlap>> /\ rmFiles \in [ServerNames -> Contents \cup {0}]
  BY DEF MovesInv, PlanKept, ServerFits
<1>2. /\ from \in ServerNames /\ to \in ServerNames /\ from # to /\ to[1] # "from"
      /\ from \in {From(r, n), ToName(n), Aside(r, n)} /\ to \in {ToName(n), Aside(r, n)}
  BY PlaceFacts DEF Commands
<1>3. /\ ServerFits'
      /\ \A p \in ServerNames : p \notin {from, to} => rmFiles'[p] = rmFiles[p]
  <2>1. CASE UNCHANGED <<rmFiles, rmClobbered>>
    BY <1>1, <2>1 DEF ServerFits, MovesTypeOK, OnServer, FileAt
  <2>2. CASE Possible(from, to) /\ Does(from, to)
    BY <1>1, <1>2, <2>2, RenameKeeps
  <2>3. QED
    BY <2>1, <2>2
<1>4. ASSUME ~rmOverlap
      PROVE  /\ rmClobbered' = {}
             /\ rmDeleted' # {} => \E p \in ServerNames : p[1] # "from" /\ rmFiles'[p] > 10
  <2>1. rmClobbered = {} /\ (rmDeleted # {} => \E p \in ServerNames : p[1] # "from" /\ rmFiles[p] > 10)
    BY <1>1, <1>4 DEF AloneFits, FileAt
  <2>2. CASE UNCHANGED <<rmFiles, rmClobbered>>
    BY <1>1, <2>1, <2>2
  <2>3. CASE Possible(from, to) /\ Does(from, to)
    <3>1. rmFiles[from] # 0 /\ (UNCHANGED rmFiles => rmFiles[to] = 0)
      <4>1. rmFiles[from] # 0 /\ rmFiles' = [rmFiles EXCEPT ![to] = rmFiles[from], ![from] = 0]
        BY <2>3 DEF Possible, Does, FileAt
      <4>2. rmFiles'[from] = 0
        BY <1>1, <1>2, <4>1
      <4>3. QED
        BY <4>1, <4>2
    <3>2. rmFiles[to] = 0
      BY <1>4, <3>1
    <3>3. QED
      BY <1>1, <1>2, <2>1, <2>3, <3>2, RenameKeeps
  <2>4. QED
    BY <2>2, <2>3
<1>5. \A s \in MoveRuns, m \in Names :
        s # r \/ m # n => /\ rmFiles'[From(s, m)] = rmFiles[From(s, m)]
                          /\ rmFiles'[Aside(s, m)] = rmFiles[Aside(s, m)]
  BY <1>2, <1>3, PlaceFacts
<1>6. OwnFits(r)'
  <2>1. NameFits(r)'
    BY <1>1 DEF OwnFits, NameFits
  <2>2. ASSUME NEW m \in Names, m # n PROVE AsideFits(r, m)' /\ ToldFits(r, m)' /\ PlanFits(r, m)'
    <3>1. AsideFits(r, m) /\ ToldFits(r, m) /\ PlanFits(r, m)
      BY <1>1 DEF OwnFits
    <3>2. rmFiles'[From(r, m)] = rmFiles[From(r, m)] /\ rmFiles'[Aside(r, m)] = rmFiles[Aside(r, m)]
      BY <1>5, <2>2
    <3>3. AsideFits(r, m)'
      BY <1>1, <2>2, <3>1, <3>2 DEF AsideFits, Untouched, HasAside, FileAt
    <3>4. ToldFits(r, m)'
      BY <1>1, <2>2, <3>1, <3>2 DEF ToldFits, HasAside, FileAt
    <3>5. PlanFits(r, m)'
      BY <1>1, <2>2, <3>1, <3>2, Zenon DEF PlanFits, FileAt, Busy
    <3>6. QED
      BY <3>3, <3>4, <3>5
  <2>3. QED
    BY <2>1, <2>2 DEF OwnFits
<1>7. ASSUME ~rmOverlap PROVE TargetFits(r)'
  <2>1. TargetFits(r) /\ rmRun[r].name \notin rmRun[r].left /\ rmRun[r].left \subseteq Names
    BY <1>1, <1>7 DEF AloneFits, Working, Busy, OwnFits, NameFits, RunRecord
  <2>2. \A m \in Names : m # n => rmFiles'[ToName(m)] = rmFiles[ToName(m)]
    BY <1>2, <1>3, PlaceFacts
  <2>3. \A m \in run.left \ run.replace : rmFiles'[ToName(m)] = 0
    BY <2>1, <2>2 DEF TargetFits, FileAt
  <2>4. QED
    BY <1>1, <1>7, <2>3 DEF TargetFits, FileAt
<1>8. Working(r)
  BY DEF Working, Busy
<1>9. QED
  BY <1>1, <1>3, <1>4, <1>5, <1>6, <1>7, <1>8, OneRunSteps

(* A command is done and answered, or not done, or done and cut off.        *)
Ends(r, from, to, fine, failed) ==
  \/ Possible(from, to) /\ Does(from, to) /\ rmUp' = rmUp /\ rmRun' = [rmRun EXCEPT ![r] = fine]
  \/ UNCHANGED <<rmFiles, rmClobbered>> /\ (rmUp' = rmUp \/ rmUp' = FALSE) /\ rmRun' = [rmRun EXCEPT ![r] = failed]
  \/ Possible(from, to) /\ Does(from, to) /\ rmUp' = FALSE /\ rmRun' = [rmRun EXCEPT ![r] = failed]

LEMMA CommandEnds ==
  ASSUME NEW r, NEW at, NEW from, NEW to, NEW fine, NEW failed, RenameStep(r, at, from, to, fine, failed)
  PROVE  rmRun[r].at = at /\ PlanKept /\ Ends(r, from, to, fine, failed)
<1>1. rmRun[r].at = at /\ PlanKept /\ (RenameDone(r, from, to, fine) \/ Fails(r, from, to, failed))
  BY DEF RenameStep
<1>2. CASE RenameDone(r, from, to, fine)
  BY <1>1, <1>2 DEF RenameDone, Ends
<1>3. CASE Fails(r, from, to, failed)
  BY <1>1, <1>3 DEF Fails, Ends
<1>4. QED
  BY <1>1, <1>2, <1>3

(* What a rename does to the two places.                                    *)
LEMMA PlacesChange ==
  ASSUME ServerFits, NEW from \in ServerNames, NEW to \in ServerNames, from # to,
         Possible(from, to), Does(from, to)
  PROVE  /\ rmUp /\ rmFiles[from] # 0 /\ rmFiles'[to] = rmFiles[from] /\ rmFiles'[from] = 0
         /\ \A p \in ServerNames : p \notin {from, to} => rmFiles'[p] = rmFiles[p]
BY DEF ServerFits, Possible, Does, FileAt

LEMMA BusyFacts ==
  ASSUME MovesInv, NEW r \in MoveRuns, rmRun[r].at \in Busy
  PROVE  /\ rmRun \in [MoveRuns -> RunRecord] /\ ServerFits
         /\ rmRun[r].name \in Names /\ rmRun[r].name \notin rmRun[r].left
         /\ AsideFits(r, rmRun[r].name) /\ ToldFits(r, rmRun[r].name) /\ PlanFits(r, rmRun[r].name)
         /\ ~rmOverlap => TargetFits(r)
         /\ rmFiles[From(r, rmRun[r].name)] \in {0, 10 * r + rmRun[r].name}
         /\ 10 * r + rmRun[r].name > 10
BY ContentFacts DEF MovesInv, OwnFits, NameFits, AloneFits, Working, Busy, ServerFits, FileAt

LEMMA LineKept ==
  ASSUME rmUp \in BOOLEAN, rmUp' = rmUp \/ rmUp' = FALSE
  PROVE  rmUp' \in BOOLEAN /\ (rmUp' => rmUp)
<1>1. rmUp' \in BOOLEAN
  OBVIOUS
<1>2. ASSUME rmUp' PROVE rmUp
  BY <1>2
<1>3. QED
  BY <1>1, <1>2

(* rename() of a file whose name was free.                                  *)
LEMMA PlainStep ==
  ASSUME MovesInv, NEW r \in MoveRuns, NEW n, n = rmRun[r].name,
         RenameStep(r, "plain", From(r, n), ToName(n), Run(r, "next"), Wrong(r, FALSE))
  PROVE  MovesInv'
<1>1. PICK from, to : from = From(r, n) /\ to = ToName(n)
  OBVIOUS
<1>2. rmRun[r].at = "plain" /\ PlanKept /\ Ends(r, from, to, Run(r, "next"), Wrong(r, FALSE))
  BY <1>1, CommandEnds
<1>3. /\ rmRun \in [MoveRuns -> RunRecord] /\ ServerFits /\ n \in Names
      /\ AsideFits(r, n) /\ ToldFits(r, n) /\ PlanFits(r, n) /\ rmUp \in BOOLEAN
      /\ ~rmOverlap => rmFiles[to] = 0
  BY <1>1, <1>2, BusyFacts DEF Busy, TargetFits, FileAt, ServerFits
<1>4. from \in ServerNames /\ to \in ServerNames /\ from # to /\ Aside(r, n) \notin {from, to}
      /\ <<from, to>> \in Commands(r, n) /\ Aside(r, n) \in ServerNames
  BY <1>1, <1>3, PlaceFacts DEF Commands
<1>5. PICK run \in {Run(r, "next"), Wrong(r, FALSE)} :
        /\ rmRun' = [rmRun EXCEPT ![r] = run]
        /\ \/ Possible(from, to) /\ Does(from, to) /\ rmUp' = rmUp /\ run = Run(r, "next")
           \/ UNCHANGED <<rmFiles, rmClobbered>> /\ (rmUp' = rmUp \/ rmUp' = FALSE) /\ run = Wrong(r, FALSE)
           \/ Possible(from, to) /\ Does(from, to) /\ rmUp' = FALSE /\ run = Wrong(r, FALSE)
  BY <1>2 DEF Ends
<1>6. /\ run \in RunRecord /\ run.left = rmRun[r].left /\ run.plan = rmRun[r].plan
      /\ run.replace = rmRun[r].replace /\ run.name = n /\ run.at = "next"
      /\ run = Wrong(r, FALSE) => run.wrong
      /\ rmRun[r].wrong => run.wrong
      /\ run.told = rmRun[r].told /\ rmRun'[r] = run
  <2>1. "next" \in RunStages /\ rmRun[r] \in RunRecord /\ rmRun'[r] = run
    BY <1>3, <1>5 DEF RunStages
  <2>2. run = Wrong(r, FALSE) => run.wrong
    BY <1>3, WrongFields
  <2>3. CASE run = Run(r, "next")
    <3>1. /\ SameNames(run, r) /\ run.at = "next"
          /\ run.told = rmRun[r].told /\ run.wrong = rmRun[r].wrong
      BY <1>3, <2>1, <2>3, RunFields
    <3>2. QED
      BY <2>1, <2>2, <3>1 DEF SameNames
  <2>4. CASE run = Wrong(r, FALSE)
    BY <1>3, <2>1, <2>2, <2>4, WrongFields DEF SameNames
  <2>5. QED
    BY <1>5, <2>3, <2>4
<1>7. AsideFits(r, n)' /\ ToldFits(r, n)' /\ PlanFits(r, n)'
  <2>1. /\ rmFiles'[Aside(r, n)] = rmFiles[Aside(r, n)]
        /\ rmFiles[from] = 0 => rmFiles'[from] = 0
        /\ rmFiles'[from] = 0 \/ run.wrong
    BY <1>3, <1>4, <1>5, <1>6, PlacesChange
  <2>2. AsideFits(r, n)'
    BY <1>1, <1>2, <1>3, <1>6, <2>1 DEF AsideFits, Untouched, HasAside, FileAt
  <2>3. ToldFits(r, n)'
    BY <1>1, <1>2, <1>3, <1>5, <1>6, <2>1 DEF ToldFits, HasAside, FileAt
  <2>4. PlanFits(r, n)'
    BY <1>1, <1>2, <1>3, <1>5, <1>6, <2>1 DEF PlanFits, FileAt
  <2>5. QED
    BY <2>2, <2>3, <2>4
<1>8. rmRun[r].at \in Busy /\ rmUp' \in BOOLEAN /\ (rmUp' => rmUp) /\ (rmRun[r].wrong => run.wrong)
  <2>1. rmRun[r].at \in Busy
    BY <1>2 DEF Busy
  <2>2. rmRun[r].wrong => run.wrong
    BY <1>6
  <2>3. rmUp' \in BOOLEAN /\ (rmUp' => rmUp)
    <3>1. rmUp \in BOOLEAN /\ (rmUp' = rmUp \/ rmUp' = FALSE)
      BY <1>3, <1>5
    <3>2. QED
      BY <3>1, LineKept
  <2>4. QED
    BY <2>1, <2>2, <2>3
<1>9. QED
  BY <1>2, <1>3, <1>4, <1>5, <1>6, <1>7, <1>8, CommandStep

(* The first command of replaceRemote(): aside.                              *)
LEMMA ParkStep ==
  ASSUME MovesInv, NEW r \in MoveRuns, NEW n, n = rmRun[r].name,
         RenameStep(r, "park", ToName(n), Aside(r, n), Run(r, "move"), Wrong(r, FALSE))
  PROVE  MovesInv'
<1>1. PICK from, to : from = ToName(n) /\ to = Aside(r, n)
  OBVIOUS
<1>2. rmRun[r].at = "park" /\ PlanKept /\ Ends(r, from, to, Run(r, "move"), Wrong(r, FALSE))
  BY <1>1, CommandEnds
<1>3. /\ rmRun \in [MoveRuns -> RunRecord] /\ ServerFits /\ n \in Names
      /\ AsideFits(r, n) /\ ToldFits(r, n) /\ PlanFits(r, n) /\ rmUp \in BOOLEAN
      /\ rmFiles[to] = 0 /\ n \notin rmRun[r].left
  BY <1>1, <1>2, BusyFacts DEF Busy, AsideFits, Untouched, FileAt, ServerFits
<1>4. from \in ServerNames /\ to \in ServerNames /\ from # to
      /\ <<from, to>> \in Commands(r, n)
  BY <1>1, <1>3, PlaceFacts DEF Commands
<1>5. PICK run \in {Run(r, "move"), Wrong(r, FALSE)} :
        /\ rmRun' = [rmRun EXCEPT ![r] = run]
        /\ \/ Possible(from, to) /\ Does(from, to) /\ rmUp' = rmUp /\ run = Run(r, "move")
           \/ UNCHANGED <<rmFiles, rmClobbered>> /\ (rmUp' = rmUp \/ rmUp' = FALSE) /\ run = Wrong(r, FALSE)
           \/ Possible(from, to) /\ Does(from, to) /\ rmUp' = FALSE /\ run = Wrong(r, FALSE)
  BY <1>2 DEF Ends
<1>6. /\ run \in RunRecord /\ run.left = rmRun[r].left /\ run.plan = rmRun[r].plan
      /\ run.replace = rmRun[r].replace /\ run.name = n
      /\ run = Run(r, "move") => run.at = "move"
      /\ run = Wrong(r, FALSE) => run.at = "next" /\ run.wrong
      /\ rmRun[r].wrong => run.wrong
      /\ rmRun[r].told \subseteq run.told /\ rmRun'[r] = run
  <2>1. "move" \in RunStages /\ rmRun[r] \in RunRecord /\ rmRun'[r] = run
    BY <1>3, <1>5 DEF RunStages
  <2>2. CASE run = Run(r, "move")
    <3>1. SameNames(run, r) /\ run.at = "move" /\ run.told = rmRun[r].told /\ run.wrong = rmRun[r].wrong
      BY <1>3, <2>1, <2>2, RunFields
    <3>2. run = Wrong(r, FALSE) => run.at = "next" /\ run.wrong /\ run.told = rmRun[r].told
      BY <1>3, <2>1, WrongFields
    <3>3. QED
      BY <2>1, <3>1, <3>2 DEF SameNames
  <2>3. CASE run = Wrong(r, FALSE)
    <3>1. SameNames(run, r) /\ run.at = "next" /\ run.wrong /\ run.told = rmRun[r].told
      BY <1>3, <2>1, <2>3, WrongFields
    <3>2. run = Run(r, "move") => run.at = "move" /\ run.told = rmRun[r].told /\ run.wrong = rmRun[r].wrong
      BY <1>3, <2>1, RunFields
    <3>3. QED
      BY <2>1, <3>1, <3>2 DEF SameNames
  <2>4. QED
    BY <1>5, <2>2, <2>3
<1>7. AsideFits(r, n)' /\ ToldFits(r, n)' /\ PlanFits(r, n)'
  <2>1. /\ run.at = "move" => rmFiles'[to] # 0
        /\ rmUp' /\ run.at # "move" => rmFiles'[to] = 0
        /\ run.at = "move" \/ run.wrong
        /\ run.at \in {"move", "next"}
    <3>1. CASE run = Run(r, "move") /\ Possible(from, to) /\ Does(from, to)
      <4>1. rmFiles'[to] = rmFiles[from] /\ rmFiles[from] # 0
        BY <1>3, <1>4, <3>1, PlacesChange
      <4>2. QED
        BY <1>6, <3>1, <4>1
    <3>2. CASE run = Wrong(r, FALSE) /\ (UNCHANGED rmFiles \/ rmUp' = FALSE)
      BY <1>3, <1>6, <3>2
    <3>3. QED
      BY <1>5, <3>1, <3>2
  <2>2. AsideFits(r, n)'
    BY <1>1, <1>2, <1>3, <1>6, <2>1 DEF AsideFits, Untouched, HasAside, FileAt
  <2>3. ToldFits(r, n)'
    BY <1>1, <1>2, <1>3, <1>5, <1>6, <2>1 DEF ToldFits, HasAside, FileAt
  <2>4. PlanFits(r, n)'
    BY <1>1, <1>2, <1>3, <1>5, <1>6, <2>1 DEF PlanFits, FileAt, Busy
  <2>5. QED
    BY <2>2, <2>3, <2>4
<1>8. rmRun[r].at \in Busy /\ rmUp' \in BOOLEAN /\ (rmUp' => rmUp)
  <2>1. rmUp \in BOOLEAN /\ (rmUp' = rmUp \/ rmUp' = FALSE)
    BY <1>3, <1>5
  <2>2. QED
    BY <1>2, <2>1, LineKept DEF Busy
<1>9. ASSUME ~rmOverlap
      PROVE  /\ rmFiles[to] = 0 \/ UNCHANGED rmFiles
             /\ run.at \in {"plain", "move"} \/ (run.at = "back" /\ rmUp') => rmFiles'[ToName(n)] = 0
             /\ run.at = "drop" => rmFiles'[ToName(n)] > 10
  BY <1>1, <1>3, <1>4, <1>5, <1>6, <1>9, PlacesChange
<1>10. QED
  BY <1>2, <1>3, <1>4, <1>5, <1>6, <1>7, <1>8, <1>9, CommandStep

(* The second: the move itself, to the name that is free now.                *)
LEMMA MoveOverStep ==
  ASSUME MovesInv, NEW r \in MoveRuns, NEW n, n = rmRun[r].name,
         RenameStep(r, "move", From(r, n), ToName(n), Run(r, "drop"), Run(r, "back"))
  PROVE  MovesInv'
<1>1. PICK from, to : from = From(r, n) /\ to = ToName(n)
  OBVIOUS
<1>2. rmRun[r].at = "move" /\ PlanKept /\ Ends(r, from, to, Run(r, "drop"), Run(r, "back"))
  BY <1>1, CommandEnds
<1>3. /\ rmRun \in [MoveRuns -> RunRecord] /\ ServerFits /\ n \in Names
      /\ AsideFits(r, n) /\ ToldFits(r, n) /\ PlanFits(r, n) /\ rmUp \in BOOLEAN
      /\ rmFiles[Aside(r, n)] # 0 /\ rmFiles[from] \in {0, 10 * r + n} /\ 10 * r + n > 10
      /\ ~rmOverlap => rmFiles[to] = 0
  BY <1>1, <1>2, BusyFacts DEF Busy, AsideFits, HasAside, TargetFits, FileAt, ServerFits
<1>4. from \in ServerNames /\ to \in ServerNames /\ from # to
      /\ Aside(r, n) \in ServerNames /\ Aside(r, n) \notin {from, to}
      /\ <<from, to>> \in Commands(r, n)
  BY <1>1, <1>3, PlaceFacts DEF Commands
<1>5. PICK run \in {Run(r, "drop"), Run(r, "back")} :
        /\ rmRun' = [rmRun EXCEPT ![r] = run]
        /\ \/ Possible(from, to) /\ Does(from, to) /\ rmUp' = rmUp /\ run = Run(r, "drop")
           \/ UNCHANGED <<rmFiles, rmClobbered>> /\ (rmUp' = rmUp \/ rmUp' = FALSE) /\ run = Run(r, "back")
           \/ Possible(from, to) /\ Does(from, to) /\ rmUp' = FALSE /\ run = Run(r, "back")
  BY <1>2 DEF Ends
<1>6. /\ run \in RunRecord /\ run.left = rmRun[r].left /\ run.plan = rmRun[r].plan
      /\ run.replace = rmRun[r].replace /\ run.name = n
      /\ run = Run(r, "drop") => run.at = "drop"
      /\ run = Run(r, "back") => run.at = "back"
      /\ rmRun[r].wrong => run.wrong
      /\ rmRun[r].told \subseteq run.told /\ rmRun'[r] = run
  <2>1. "drop" \in RunStages /\ "back" \in RunStages /\ rmRun[r] \in RunRecord /\ rmRun'[r] = run
    BY <1>3, <1>5 DEF RunStages
  <2>2. CASE run = Run(r, "drop")
    <3>1. SameNames(run, r) /\ run.at = "drop" /\ run.told = rmRun[r].told /\ run.wrong = rmRun[r].wrong
      BY <1>3, <2>1, <2>2, RunFields
    <3>2. run = Run(r, "back") => run.at = "back" /\ run.told = rmRun[r].told /\ run.wrong = rmRun[r].wrong
      BY <1>3, <2>1, RunFields
    <3>3. QED
      BY <2>1, <3>1, <3>2 DEF SameNames
  <2>3. CASE run = Run(r, "back")
    <3>1. SameNames(run, r) /\ run.at = "back" /\ run.told = rmRun[r].told /\ run.wrong = rmRun[r].wrong
      BY <1>3, <2>1, <2>3, RunFields
    <3>2. run = Run(r, "drop") => run.at = "drop" /\ run.told = rmRun[r].told /\ run.wrong = rmRun[r].wrong
      BY <1>3, <2>1, RunFields
    <3>3. QED
      BY <2>1, <3>1, <3>2 DEF SameNames
  <2>4. QED
    BY <1>5, <2>2, <2>3
<1>7. AsideFits(r, n)' /\ ToldFits(r, n)' /\ PlanFits(r, n)'
  <2>1. /\ rmFiles'[Aside(r, n)] # 0
        /\ run.at = "drop" => rmFiles'[from] = 0
        /\ run.at \in {"drop", "back"}
    BY <1>1, <1>2, <1>3, <1>4, <1>5, <1>6, PlacesChange
  <2>2. AsideFits(r, n)'
    BY <1>1, <1>2, <1>3, <1>6, <2>1 DEF AsideFits, Untouched, HasAside, FileAt
  <2>3. ToldFits(r, n)'
    BY <1>1, <1>2, <1>3, <1>5, <1>6, <2>1 DEF ToldFits, HasAside, FileAt
  <2>4. PlanFits(r, n)'
    BY <1>1, <1>2, <1>3, <1>5, <1>6, <2>1 DEF PlanFits, FileAt, Busy
  <2>5. QED
    BY <2>2, <2>3, <2>4
<1>8. rmRun[r].at \in Busy /\ rmUp' \in BOOLEAN /\ (rmUp' => rmUp)
  <2>1. rmUp \in BOOLEAN /\ (rmUp' = rmUp \/ rmUp' = FALSE)
    BY <1>3, <1>5
  <2>2. QED
    BY <1>2, <2>1, LineKept DEF Busy
<1>9. ASSUME ~rmOverlap
      PROVE  /\ rmFiles[to] = 0 \/ UNCHANGED rmFiles
             /\ run.at \in {"plain", "move"} \/ (run.at = "back" /\ rmUp') => rmFiles'[ToName(n)] = 0
             /\ run.at = "drop" => rmFiles'[ToName(n)] > 10
  BY <1>1, <1>3, <1>4, <1>5, <1>6, <1>9, PlacesChange
<1>10. QED
  BY <1>2, <1>3, <1>4, <1>5, <1>6, <1>7, <1>8, <1>9, CommandStep

(* The third, when that failed: back to where it was.                        *)
LEMMA BackStep ==
  ASSUME MovesInv, NEW r \in MoveRuns, NEW n, n = rmRun[r].name,
         RenameStep(r, "back", Aside(r, n), ToName(n), Wrong(r, FALSE), Wrong(r, TRUE))
  PROVE  MovesInv'
<1>1. PICK from, to : from = Aside(r, n) /\ to = ToName(n)
  OBVIOUS
<1>2. rmRun[r].at = "back" /\ PlanKept /\ Ends(r, from, to, Wrong(r, FALSE), Wrong(r, TRUE))
  BY <1>1, CommandEnds
<1>3. /\ rmRun \in [MoveRuns -> RunRecord] /\ ServerFits /\ n \in Names
      /\ AsideFits(r, n) /\ ToldFits(r, n) /\ PlanFits(r, n) /\ rmUp \in BOOLEAN
      /\ ~rmOverlap /\ rmUp => rmFiles[to] = 0
  BY <1>1, <1>2, BusyFacts DEF Busy, TargetFits, FileAt, ServerFits
<1>4. from \in ServerNames /\ to \in ServerNames /\ from # to
      /\ <<from, to>> \in Commands(r, n)
  BY <1>1, <1>3, PlaceFacts DEF Commands
<1>5. PICK run \in {Wrong(r, FALSE), Wrong(r, TRUE)} :
        /\ rmRun' = [rmRun EXCEPT ![r] = run]
        /\ \/ Possible(from, to) /\ Does(from, to) /\ rmUp' = rmUp /\ run = Wrong(r, FALSE)
           \/ UNCHANGED <<rmFiles, rmClobbered>> /\ (rmUp' = rmUp \/ rmUp' = FALSE) /\ run = Wrong(r, TRUE)
           \/ Possible(from, to) /\ Does(from, to) /\ rmUp' = FALSE /\ run = Wrong(r, TRUE)
  BY <1>2 DEF Ends
<1>6. /\ run \in RunRecord /\ run.left = rmRun[r].left /\ run.plan = rmRun[r].plan
      /\ run.replace = rmRun[r].replace /\ run.name = n
      /\ run.at = "next" /\ run.wrong
      /\ run = Wrong(r, TRUE) => Aside(r, n) \in run.told
      /\ rmRun[r].wrong => run.wrong
      /\ rmRun[r].told \subseteq run.told /\ rmRun'[r] = run
  <2>1. rmRun[r] \in RunRecord /\ rmRun'[r] = run
    BY <1>3, <1>5 DEF RunStages
  <2>2. CASE run = Wrong(r, FALSE)
    <3>1. SameNames(run, r) /\ run.at = "next" /\ run.wrong /\ run.told = rmRun[r].told
      BY <1>3, <2>1, <2>2, WrongFields
    <3>2. run = Wrong(r, TRUE) => run.at = "next" /\ run.wrong /\ run.told = rmRun[r].told \cup {Aside(r, n)}
      BY <1>3, <2>1, WrongFields
    <3>3. QED
      BY <2>1, <3>1, <3>2 DEF SameNames
  <2>3. CASE run = Wrong(r, TRUE)
    <3>1. SameNames(run, r) /\ run.at = "next" /\ run.wrong /\ run.told = rmRun[r].told \cup {Aside(r, n)}
      BY <1>3, <2>1, <2>3, WrongFields
    <3>2. run = Wrong(r, FALSE) => run.at = "next" /\ run.wrong /\ run.told = rmRun[r].told
      BY <1>3, <2>1, WrongFields
    <3>3. QED
      BY <2>1, <3>1, <3>2 DEF SameNames
  <2>4. QED
    BY <1>5, <2>2, <2>3
<1>7. AsideFits(r, n)' /\ ToldFits(r, n)' /\ PlanFits(r, n)'
  <2>1. rmUp' => rmFiles'[from] = 0 \/ Aside(r, n) \in run.told
    BY <1>1, <1>2, <1>3, <1>4, <1>5, <1>6, PlacesChange
  <2>2. AsideFits(r, n)'
    BY <1>1, <1>2, <1>3, <1>6, <2>1 DEF AsideFits, Untouched, HasAside, FileAt
  <2>3. ToldFits(r, n)'
    BY <1>1, <1>2, <1>3, <1>5, <1>6, <2>1 DEF ToldFits, HasAside, FileAt
  <2>4. PlanFits(r, n)'
    BY <1>1, <1>2, <1>3, <1>5, <1>6, <2>1 DEF PlanFits, FileAt, Busy
  <2>5. QED
    BY <2>2, <2>3, <2>4
<1>8. rmRun[r].at \in Busy /\ rmUp' \in BOOLEAN /\ (rmUp' => rmUp)
  <2>1. rmUp \in BOOLEAN /\ (rmUp' = rmUp \/ rmUp' = FALSE)
    BY <1>3, <1>5
  <2>2. QED
    BY <1>2, <2>1, LineKept DEF Busy
<1>9. ASSUME ~rmOverlap
      PROVE  /\ rmFiles[to] = 0 \/ UNCHANGED rmFiles
             /\ run.at \in {"plain", "move"} \/ (run.at = "back" /\ rmUp') => rmFiles'[ToName(n)] = 0
             /\ run.at = "drop" => rmFiles'[ToName(n)] > 10
  BY <1>1, <1>3, <1>4, <1>5, <1>6, <1>9, PlacesChange
<1>10. QED
  BY <1>2, <1>3, <1>4, <1>5, <1>6, <1>7, <1>8, <1>9, CommandStep

(* The file put aside is deleted, when its successor has come.              *)
LEMMA AsideDeletedStep ==
  ASSUME MovesInv, NEW r \in MoveRuns, AsideDeleted(r)
  PROVE  MovesInv'
<1>1. PICK n, a, old : n = rmRun[r].name /\ a = Aside(r, n) /\ old = rmFiles[a]
  OBVIOUS
<1>2. PICK run \in {Run(r, "next"), Wrong(r, FALSE)} :
        /\ rmRun' = [rmRun EXCEPT ![r] = run]
        /\ \/ UNCHANGED <<rmFiles, rmDeleted>>
           \/ rmUp /\ rmFiles' = [rmFiles EXCEPT ![a] = 0] /\ rmDeleted' = rmDeleted \cup {old}
        /\ rmUp' = rmUp \/ rmUp' = FALSE
        /\ rmRun[r].at = "drop" /\ UNCHANGED <<rmOverwrites, rmClobbered, rmOverlap>>
  BY <1>1 DEF AsideDeleted, FileAt
<1>3. /\ rmRun \in [MoveRuns -> RunRecord] /\ ServerFits /\ n \in Names /\ n \notin rmRun[r].left
      /\ OwnFits(r) /\ old # 0 /\ rmFiles[From(r, n)] = 0
      /\ ~rmOverlap => TargetFits(r)
  BY <1>1, <1>2, BusyFacts DEF MovesInv, Busy, AsideFits, HasAside, FileAt
<1>4. /\ run \in RunRecord /\ run.left = rmRun[r].left /\ run.plan = rmRun[r].plan
      /\ run.replace = rmRun[r].replace /\ run.name = n /\ run.at = "next"
      /\ rmRun[r].wrong => run.wrong
      /\ run.told = rmRun[r].told /\ rmRun'[r] = run
  <2>1. "next" \in RunStages /\ rmRun[r] \in RunRecord /\ rmRun'[r] = run
    BY <1>2, <1>3 DEF RunStages
  <2>2. CASE run = Run(r, "next")
    <3>1. /\ SameNames(run, r) /\ run.at = "next"
          /\ run.told = rmRun[r].told /\ run.wrong = rmRun[r].wrong
      BY <1>3, <2>1, <2>2, RunFields
    <3>2. QED
      BY <1>1, <2>1, <3>1 DEF SameNames
  <2>3. CASE run = Wrong(r, FALSE)
    BY <1>1, <1>3, <2>1, <2>3, WrongFields DEF SameNames
  <2>4. QED
    BY <1>2, <2>2, <2>3
<1>5. rmUp \in BOOLEAN /\ rmUp' \in BOOLEAN /\ (rmUp' => rmUp)
  <2>1. rmUp \in BOOLEAN /\ (rmUp' = rmUp \/ rmUp' = FALSE)
    BY <1>2, <1>3 DEF ServerFits
  <2>2. QED
    BY <2>1, LineKept
<1>6. /\ a \in ServerNames /\ a[1] # "from"
      /\ \A s \in MoveRuns, m \in Names : /\ From(s, m) \in ServerNames /\ From(s, m) # a
                                          /\ Aside(s, m) \in ServerNames
                                          /\ s # r \/ m # n => Aside(s, m) # a
      /\ \A m \in Names : ToName(m) \in ServerNames /\ ToName(m) # a
  BY <1>1, <1>3, PlaceFacts
<1>7. /\ rmFiles \in [ServerNames -> Contents \cup {0}] /\ rmFiles' \in [ServerNames -> Contents \cup {0}]
      /\ \A p \in ServerNames : p # a => rmFiles'[p] = rmFiles[p]
      /\ rmFiles'[a] \in {0, old}
  <2>1. rmFiles \in [ServerNames -> Contents \cup {0}]
    BY <1>3 DEF ServerFits
  <2>2. QED
    BY <1>1, <1>2, <1>6, <2>1
<1>8. ServerFits'
  <2>1. old \in Contents
    BY <1>1, <1>3, <1>6, <1>7
  <2>2. MovesTypeOK'
    BY <1>2, <1>3, <2>1 DEF ServerFits, MovesTypeOK
  <2>3. ASSUME NEW c \in Contents PROVE OnServer(c)' \/ c \in (rmDeleted \cup rmClobbered)'
    <3>1. CASE c \in rmDeleted \cup rmClobbered
      BY <1>2, <3>1
    <3>2. CASE OnServer(c)
      <4>1. PICK p \in ServerNames : rmFiles[p] = c
        BY <3>2 DEF OnServer, FileAt
      <4>2. CASE p # a \/ UNCHANGED <<rmFiles, rmDeleted>>
        BY <1>7, <4>1, <4>2 DEF OnServer, FileAt
      <4>3. CASE p = a /\ rmDeleted' = rmDeleted \cup {old}
        BY <1>1, <4>1, <4>3
      <4>4. QED
        BY <1>2, <4>2, <4>3
    <3>3. QED
      BY <1>3, <3>1, <3>2 DEF ServerFits
  <2>4. \A s \in MoveRuns, m \in Names : FileAt(From(s, m))' \in {0, 10 * s + m}
    BY <1>3, <1>6, <1>7 DEF ServerFits, FileAt
  <2>5. rmOverlap' \in BOOLEAN
    BY <1>2, <1>3 DEF ServerFits
  <2>6. QED
    BY <1>5, <1>7, <2>2, <2>3, <2>4, <2>5 DEF ServerFits
<1>9. \A s \in MoveRuns, m \in Names :
        s # r => /\ rmFiles'[From(s, m)] = rmFiles[From(s, m)]
                 /\ rmFiles'[Aside(s, m)] = rmFiles[Aside(s, m)]
  BY <1>6, <1>7
<1>10. OwnFits(r)'
  <2>1. NameFits(r)'
    BY <1>3, <1>4 DEF NameFits, Busy
  <2>2. ASSUME NEW m \in Names PROVE AsideFits(r, m)' /\ ToldFits(r, m)' /\ PlanFits(r, m)'
    <3>1. /\ AsideFits(r, m) /\ ToldFits(r, m) /\ PlanFits(r, m)
          /\ rmFiles'[From(r, m)] = rmFiles[From(r, m)]
          /\ m # n => rmFiles'[Aside(r, m)] = rmFiles[Aside(r, m)]
      BY <1>3, <1>6, <1>7 DEF OwnFits
    <3>2. AsideFits(r, m)'
      BY <1>2, <1>3, <1>4, <3>1 DEF AsideFits, Untouched, HasAside, FileAt
    <3>3. ToldFits(r, m)'
      BY <1>1, <1>2, <1>3, <1>4, <1>5, <3>1 DEF ToldFits, HasAside, FileAt
    <3>4. PlanFits(r, m)'
      BY <1>1, <1>2, <1>3, <1>4, <3>1 DEF PlanFits, FileAt
    <3>5. QED
      BY <3>2, <3>3, <3>4
  <2>3. QED
    BY <2>1, <2>2 DEF OwnFits
<1>11. ASSUME ~rmOverlap
       PROVE  /\ rmClobbered' = {} /\ TargetFits(r)'
              /\ rmDeleted' # {} => \E p \in ServerNames : p[1] # "from" /\ rmFiles'[p] > 10
  <2>1. rmClobbered = {} /\ TargetFits(r) /\ rmRun[r].left \subseteq Names
    BY <1>3, <1>11 DEF MovesInv, AloneFits, RunRecord
  <2>2. \A m \in Names : rmFiles'[ToName(m)] = rmFiles[ToName(m)]
    BY <1>6, <1>7
  <2>3. rmFiles'[ToName(n)] > 10
    BY <1>1, <1>2, <1>3, <2>1, <2>2 DEF TargetFits, FileAt
  <2>4. ToName(n) \in ServerNames /\ ToName(n)[1] # "from"
    BY <1>3, PlaceFacts
  <2>5. TargetFits(r)'
    BY <1>4, <2>1, <2>2 DEF TargetFits, FileAt
  <2>6. QED
    BY <1>2, <2>1, <2>3, <2>4, <2>5
<1>12. Working(r)
  BY <1>2 DEF Working
<1>13. QED
  BY <1>2, <1>4, <1>5, <1>8, <1>9, <1>10, <1>11, <1>12, OneRunSteps

LEMMA NextMoveStep ==
  ASSUME MovesInv, NEW r \in MoveRuns, NextMove(r)
  PROVE  MovesInv'
<1>1. /\ rmRun \in [MoveRuns -> RunRecord] /\ rmRun[r] \in RunRecord /\ OwnFits(r)
      /\ rmRun[r].at = "next" /\ UNCHANGED <<rmFiles, rmUp, rmClobbered, rmOverwrites, rmDeleted, rmOverlap>>
  BY DEF MovesInv, NextMove, PlanKept
<1>2. PICK run \in RunRecord :
        /\ rmRun' = [rmRun EXCEPT ![r] = run]
        /\ run.plan = rmRun[r].plan /\ run.replace = rmRun[r].replace
        /\ run.wrong = rmRun[r].wrong /\ run.told = rmRun[r].told
        /\ \/ rmRun[r].left = {} /\ run.left = {} /\ run.at = "ended"
           \/ /\ run.name \in rmRun[r].left /\ run.left = rmRun[r].left \ {run.name}
              /\ run.at = IF run.name \in run.replace THEN "park" ELSE "plain"
  <2>1. CASE rmRun[r].left = {}
    <3>1. rmRun' = [rmRun EXCEPT ![r] = Run(r, "ended")] /\ "ended" \in RunStages
      BY <2>1 DEF NextMove, RunStages
    <3>2. /\ SameNames(Run(r, "ended"), r) /\ Run(r, "ended").at = "ended"
          /\ Run(r, "ended").wrong = rmRun[r].wrong /\ Run(r, "ended").told = rmRun[r].told
      BY <1>1, <3>1, RunFields
    <3>3. QED
      BY <2>1, <3>1, <3>2 DEF SameNames
  <2>2. CASE rmRun[r].left # {}
    <3> DEFINE first == CHOOSE n \in rmRun[r].left : \A m \in rmRun[r].left : n <= m
    <3>1. PICK n : n = first /\ rmRun' = [rmRun EXCEPT ![r] = Taking(r, n)]
      BY <2>2 DEF NextMove
    <3> HIDE DEF first
    <3>2. n \in rmRun[r].left /\ n \in Names
      <4>1. rmRun[r].left \subseteq {1, 2}
        BY <1>1 DEF RunRecord, Names
      <4>2. \E k \in rmRun[r].left : \A m \in rmRun[r].left : k <= m
        BY <2>2, <4>1
      <4>3. QED
        BY <3>1, <4>1, <4>2 DEF Names, first
    <3>3. PICK run : run = Taking(r, n)
      OBVIOUS
    <3>4. rmRun' = [rmRun EXCEPT ![r] = run]
      BY <3>1, <3>3
    <3>5. /\ run \in RunRecord /\ run.name = n /\ run.left = rmRun[r].left \ {n}
          /\ run.at = IF n \in rmRun[r].replace THEN "park" ELSE "plain"
          /\ run.plan = rmRun[r].plan /\ run.replace = rmRun[r].replace
          /\ run.wrong = rmRun[r].wrong /\ run.told = rmRun[r].told
      BY <1>1, <3>2, <3>3 DEF Taking, RunRecord, RunStages
    <3>6. QED
      BY <3>2, <3>4, <3>5
  <2>3. QED
    BY <2>1, <2>2
<1>3. rmRun'[r] = run /\ run.left \subseteq Names
  BY <1>1, <1>2 DEF RunRecord
<1>4. OwnFits(r)'
  <2>1. NameFits(r)'
    BY <1>1, <1>2, <1>3 DEF NameFits, Busy, RunRecord
  <2>2. ASSUME NEW m \in Names PROVE AsideFits(r, m)' /\ ToldFits(r, m)' /\ PlanFits(r, m)'
    <3>1. AsideFits(r, m) /\ ToldFits(r, m) /\ PlanFits(r, m)
      BY <1>1 DEF OwnFits
    <3>2. AsideFits(r, m)'
      BY <1>1, <1>2, <1>3, <3>1 DEF AsideFits, Untouched, HasAside, FileAt
    <3>3. ToldFits(r, m)'
      BY <1>1, <1>2, <1>3, <3>1 DEF ToldFits, HasAside, FileAt
    <3>4. PlanFits(r, m)'
      BY <1>1, <1>2, <1>3, <3>1 DEF PlanFits, FileAt, Busy
    <3>5. QED
      BY <3>2, <3>3, <3>4
  <2>3. QED
    BY <2>1, <2>2 DEF OwnFits
<1>5. Working(r)
  BY <1>1 DEF Working
<1>6. ASSUME ~rmOverlap
      PROVE  /\ rmClobbered' = {} /\ (Working(r)' => TargetFits(r)')
             /\ rmDeleted' # {} => \E p \in ServerNames : p[1] # "from" /\ rmFiles'[p] > 10
  <2>1. TargetFits(r) /\ rmClobbered = {}
        /\ (rmDeleted # {} => \E p \in ServerNames : p[1] # "from" /\ rmFiles[p] > 10)
    BY <1>5, <1>6 DEF MovesInv, AloneFits, FileAt
  <2>2. ASSUME Working(r)' PROVE TargetFits(r)'
    <3>1. /\ run.name \in rmRun[r].left /\ run.left = rmRun[r].left \ {run.name}
          /\ run.at = IF run.name \in run.replace THEN "park" ELSE "plain"
      BY <1>2, <1>3, <2>2 DEF Working
    <3>2. QED
      BY <1>1, <1>2, <1>3, <2>1, <3>1 DEF TargetFits, FileAt
  <2>3. QED
    BY <1>1, <2>1, <2>2
<1>7. ServerFits'
  BY <1>1 DEF MovesInv, ServerFits, MovesTypeOK, OnServer, FileAt
<1>8. QED
  BY <1>1, <1>2, <1>4, <1>5, <1>6, <1>7, OneRunSteps

LEMMA MovesPlannedStep ==
  ASSUME MovesInv, NEW r \in MoveRuns, MovesPlanned(r)
  PROVE  MovesInv'
<1>1. /\ rmRun \in [MoveRuns -> RunRecord] /\ rmRun[r] \in RunRecord /\ OwnFits(r)
      /\ rmRun[r].at = "none" /\ UNCHANGED <<rmFiles, rmOverwrites, rmUp, rmDeleted, rmClobbered>>
      /\ rmOverlap' = (rmOverlap \/ \E s \in MoveRuns : Working(s))
  BY DEF MovesInv, MovesPlanned, Working
<1>2. PICK replace, plan :
        /\ replace \subseteq Names /\ plan \subseteq Names
        /\ \A n \in plan \ replace : rmFiles[ToName(n)] = 0
        /\ rmRun' = [rmRun EXCEPT ![r] = [@ EXCEPT !.at = "next", !.replace = replace, !.plan = plan,
                                                   !.left = plan]]
  <2> DEFINE taken == {n \in Names : FileAt(ToName(n)) # 0}
  <2>1. PICK replace \in SUBSET taken :
          rmRun' = [rmRun EXCEPT ![r] = [@ EXCEPT !.at = "next", !.replace = replace,
                      !.plan = (Names \ taken) \cup replace, !.left = (Names \ taken) \cup replace]]
    BY DEF MovesPlanned
  <2>2. PICK plan : plan = (Names \ taken) \cup replace
    OBVIOUS
  <2>3. \A n \in plan \ replace : rmFiles[ToName(n)] = 0
    BY <2>2 DEF FileAt
  <2>4. replace \subseteq Names /\ plan \subseteq Names
    BY <2>2
  <2>5. QED
    BY <2>1, <2>2, <2>3, <2>4
<1>3. PICK run : run = [rmRun[r] EXCEPT !.at = "next", !.replace = replace, !.plan = plan, !.left = plan]
  OBVIOUS
<1>4. /\ run \in RunRecord /\ run.at = "next" /\ run.replace = replace /\ run.plan = plan /\ run.left = plan
      /\ rmRun' = [rmRun EXCEPT ![r] = run] /\ rmRun'[r] = run
      /\ \A s \in MoveRuns : s # r => rmRun'[s] = rmRun[s]
  BY <1>1, <1>2, <1>3 DEF RunRecord, RunStages
<1>5. ServerFits'
  <2>1. rmOverlap' \in BOOLEAN
    BY <1>1
  <2>2. QED
    BY <1>1, <2>1 DEF MovesInv, ServerFits, MovesTypeOK, OnServer, FileAt
<1>6. OwnFits(r)'
  <2>1. NameFits(r)'
    BY <1>4 DEF NameFits, Busy
  <2>2. ASSUME NEW n \in Names PROVE AsideFits(r, n)' /\ ToldFits(r, n)' /\ PlanFits(r, n)'
    <3>1. rmFiles[Aside(r, n)] = 0
      BY <1>1 DEF OwnFits, AsideFits, Untouched, FileAt
    <3>2. QED
      BY <1>1, <1>4, <3>1 DEF AsideFits, ToldFits, PlanFits, Untouched, HasAside, FileAt
  <2>3. QED
    BY <2>1, <2>2 DEF OwnFits
<1>7. ASSUME NEW s \in MoveRuns, s # r PROVE OwnFits(s)'
  <2>1. OwnFits(s) /\ rmRun'[s] = rmRun[s]
    BY <1>4, <1>7 DEF MovesInv
  <2>2. QED
    BY <1>1, <2>1 DEF OwnFits, NameFits, AsideFits, ToldFits, PlanFits, Untouched, HasAside, FileAt
<1>8. AloneFits'
  <2> SUFFICES ASSUME ~rmOverlap'
               PROVE  /\ \A s, t \in MoveRuns : Working(s)' /\ Working(t)' => s = t
                      /\ \A s \in MoveRuns : Working(s)' => TargetFits(s)'
                      /\ rmClobbered' = {}
                      /\ rmDeleted' # {} => \E p \in ServerNames : p[1] # "from" /\ FileAt(p)' > 10
    BY DEF AloneFits
  <2>1. ~rmOverlap /\ \A s \in MoveRuns : ~Working(s)
    BY <1>1
  <2>2. \A s \in MoveRuns : Working(s)' => s = r
    BY <1>4, <2>1 DEF Working
  <2>3. TargetFits(r)'
    BY <1>1, <1>2, <1>4 DEF TargetFits, FileAt
  <2>4. rmClobbered' = {} /\ (rmDeleted' # {} => \E p \in ServerNames : p[1] # "from" /\ FileAt(p)' > 10)
    BY <1>1, <2>1 DEF MovesInv, AloneFits, FileAt
  <2>5. QED
    BY <2>2, <2>3, <2>4
<1>9. QED
  BY <1>1, <1>4, <1>5, <1>6, <1>7, <1>8 DEF MovesInv

LEMMA RenamesStart == MovesInit => MovesInv
<1> SUFFICES ASSUME MovesInit PROVE MovesInv
  OBVIOUS
<1>1. /\ rmFiles = [p \in ServerNames |-> CASE p[1] = "from" -> 10 * p[2] + p[3]
                                            [] p = ToName(1) -> 1 [] OTHER -> 0]
      /\ rmUp = TRUE /\ rmDeleted = {} /\ rmClobbered = {} /\ rmOverlap = FALSE
      /\ rmRun = [r \in MoveRuns |-> [at |-> "none", plan |-> {}, left |-> {}, name |-> 0, replace |-> {},
                                      wrong |-> FALSE, told |-> {}]]
  BY DEF MovesInit
<1>2. ASSUME NEW r \in MoveRuns, NEW n \in Names
      PROVE  /\ rmFiles[From(r, n)] = 10 * r + n
             /\ rmFiles[Aside(r, n)] = 0
  <2>1. From(r, n)[1] = "from" /\ From(r, n)[2] = r /\ From(r, n)[3] = n
    BY DEF From
  <2>2. Aside(r, n)[1] # "from" /\ Aside(r, n) # ToName(1)
    BY PlaceFacts DEF Names
  <2>3. QED
    <3>1. PICK p, q : p = From(r, n) /\ q = Aside(r, n)
      OBVIOUS
    <3>2. p \in ServerNames /\ q \in ServerNames /\ p[1] = "from" /\ p # ToName(1)
      BY <2>1, <3>1, PlaceFacts DEF Names
    <3>3. rmFiles[p] = 10 * p[2] + p[3]
      <4>1. rmFiles[p] = CASE p[1] = "from" -> 10 * p[2] + p[3] [] p = ToName(1) -> 1 [] OTHER -> 0
        BY <1>1, <3>2
      <4>2. QED
        BY <3>2, <4>1
    <3>4. rmFiles[q] = 0
      BY <1>1, <2>2, <3>1, <3>2
    <3>5. QED
      BY <2>1, <3>1, <3>3, <3>4
<1>3. rmFiles[ToName(1)] = 1 /\ ToName(1) \in ServerNames /\ 1 \in Names
  <2>1. 1 \in Names
    BY DEF Names
  <2>2. ToName(1) \in ServerNames /\ ToName(1)[1] # "from"
    BY <2>1, PlaceFacts
  <2>3. QED
    BY <1>1, <2>1, <2>2
<1>4. ASSUME NEW p \in ServerNames PROVE rmFiles[p] \in Contents \cup {0}
  <2>1. CASE \E r \in MoveRuns, n \in Names : p = From(r, n)
    BY <1>2, <2>1, ContentFacts
  <2>2. CASE ~ \E r \in MoveRuns, n \in Names : p = From(r, n)
    <3>1. p[1] # "from"
      BY <2>2, PlaceFacts DEF ServerNames
    <3>2. QED
      BY <1>1, <3>1, ContentFacts
  <2>3. QED
    BY <2>1, <2>2
<1>5. ASSUME NEW c \in Contents PROVE OnServer(c)
  <2>1. CASE c = 1
    BY <1>3, <2>1 DEF OnServer, FileAt
  <2>2. CASE c # 1
    <3>1. PICK r \in MoveRuns, n \in Names : c = 10 * r + n
      BY <2>2 DEF Contents
    <3>2. QED
      BY <1>2, <3>1, PlaceFacts DEF OnServer, FileAt
  <2>3. QED
    BY <2>1, <2>2
<1>6. ServerFits
  <2>1. rmFiles \in [ServerNames -> Contents \cup {0}]
    BY <1>1, <1>4
  <2>2. QED
    BY <1>1, <1>2, <1>5, <2>1 DEF ServerFits, MovesTypeOK, FileAt
<1>7. AloneFits
  BY <1>1 DEF AloneFits, Working
<1>8. rmRun \in [MoveRuns -> RunRecord]
  BY <1>1 DEF RunRecord, RunStages
<1>9. ASSUME NEW r \in MoveRuns PROVE OwnFits(r)
  BY <1>1, <1>2 DEF OwnFits, NameFits, AsideFits, ToldFits, PlanFits, Untouched, HasAside, FileAt, Busy
<1>10. QED
  BY <1>6, <1>7, <1>8, <1>9 DEF MovesInv

(* Every command of every run preserves the invariant.                      *)
THEOREM RenamesInvariance == MovesSpec => []MovesInv
<1>1. ASSUME MovesInv, [MovesNext]_renameVars PROVE MovesInv'
  <2>1. ASSUME NEW r \in MoveRuns, MovesPlanned(r) PROVE MovesInv'
    BY <1>1, <2>1, MovesPlannedStep
  <2>2. ASSUME NEW r \in MoveRuns, NextMove(r) PROVE MovesInv'
    BY <1>1, <2>2, NextMoveStep
  <2>3. ASSUME NEW r \in MoveRuns, MoveStep(r) PROVE MovesInv'
    <3>1. PICK n : n = rmRun[r].name
      OBVIOUS
    <3>2. \/ RenameStep(r, "plain", From(r, n), ToName(n), Run(r, "next"), Wrong(r, FALSE))
          \/ RenameStep(r, "park", ToName(n), Aside(r, n), Run(r, "move"), Wrong(r, FALSE))
          \/ RenameStep(r, "move", From(r, n), ToName(n), Run(r, "drop"), Run(r, "back"))
          \/ RenameStep(r, "back", Aside(r, n), ToName(n), Wrong(r, FALSE), Wrong(r, TRUE))
      BY <2>3, <3>1 DEF MoveStep
    <3>3. QED
      BY <1>1, <3>1, <3>2, PlainStep, ParkStep, MoveOverStep, BackStep
  <2>4. ASSUME NEW r \in MoveRuns, AsideDeleted(r) PROVE MovesInv'
    BY <1>1, <2>4, AsideDeletedStep
  <2>5. CASE UNCHANGED renameVars
    <3>1. UNCHANGED <<rmFiles, rmOverwrites, rmUp, rmRun, rmDeleted, rmClobbered, rmOverlap>>
      BY <2>5 DEF renameVars
    <3>2. ServerFits' /\ AloneFits'
      BY <1>1, <3>1 DEF MovesInv, ServerFits, AloneFits, MovesTypeOK, OnServer, Working, TargetFits, FileAt
    <3>3. \A r \in MoveRuns : OwnFits(r)'
      BY <1>1, <3>1 DEF MovesInv, OwnFits, NameFits, AsideFits, ToldFits, PlanFits, Untouched, HasAside,
                        FileAt
    <3>4. QED
      BY <1>1, <3>1, <3>2, <3>3 DEF MovesInv
  <2>6. QED
    BY <1>1, <2>1, <2>2, <2>3, <2>4, <2>5 DEF MovesNext
<1>2. QED
  BY <1>1, RenamesStart, PTL DEF MovesSpec

(* Moves within a server lose no file but the one that is to be replaced,   *)
(* and that only after its successor came, whatever command fails or is cut *)
(* off; what stays aside is told of, and a run without an error moved all   *)
(* (replaceRemote and moveRemoteFiles).                                    *)
THEOREM RenamesLoseNothing == MovesSpec => []MovesSafe
<1>1. ASSUME MovesInv PROVE MovesSafe
  <2>1. ServerFits /\ AloneFits /\ \A r \in MoveRuns : OwnFits(r)
    BY <1>1 DEF MovesInv
  <2>2. MovesTypeOK /\ NoFileLost
    BY <2>1 DEF ServerFits, AloneFits, NoFileLost
  <2>3. AsideTold
    BY <2>1 DEF AsideTold, OwnFits, ToldFits, HasAside
  <2>4. MovedAll
    <3> SUFFICES ASSUME NEW r \in MoveRuns, rmRun[r].at = "ended", ~rmRun[r].wrong, NEW n \in rmRun[r].plan
                 PROVE  FileAt(From(r, n)) = 0
      BY DEF MovedAll
    <3>1. n \in Names /\ PlanFits(r, n)
      BY <1>1, <2>1 DEF MovesInv, RunRecord, OwnFits
    <3>2. n \notin rmRun[r].left
      BY <2>1 DEF OwnFits, NameFits
    <3>3. QED
      BY <3>1, <3>2 DEF PlanFits, Busy
  <2>5. QED
    BY <2>2, <2>3, <2>4 DEF MovesSafe
<1>2. QED
  BY <1>1, RenamesInvariance, PTL

-----------------------------------------------------------------------------
(* What is shown of a connection (SessionView).                            *)
ViewValues == {"disconnected", "connecting", "connected", "error"}
Message == [kind : {"status", "agent", "answer", "gone"}, value : ViewValues, call : Nat]
CallRecord == [gen : Nat, stage : {"reveal", "login", "orphan", "over"}]

(* Of the messages w, all are of K; or they are so from a status on.        *)
Clean(w, K) == \A i \in 1..Len(w) : w[i] \in K
WireSettled(w, K) == \E j \in 1..Len(w) : w[j].kind = "status" /\ \A i \in j..Len(w) : w[i] \in K

(* The last word of w is in K, or nothing there changes what is shown.      *)
Word(w, K, fine) == WireSettled(w, K) \/ (fine /\ Clean(w, K))

Not(v) == {m \in Message : m.value # v}
Quieting == {m \in Message : m.value = "disconnected" \/ m.kind = "answer"}

(* An answer to c is to come.                                               *)
Awaited(c) ==
  /\ c \in DOMAIN calls
  /\ \/ calls[c].stage # "over"
     \/ \E i \in 1..Len(wire) : wire[i].kind = "answer" /\ wire[i].call = c

ViewTypes ==
  /\ mainStatus \in {"off", "login", "on", "error"} /\ wants \in {"connect", "off"}
  /\ agentAt \in {"none", "reveal", "login", "list"}
  /\ shown \in ViewValues
  /\ generation \in Nat /\ tool \in Nat
  /\ calls \in Seq(CallRecord) /\ wire \in Seq(Message)

WireFits ==
  \A i \in 1..Len(wire) :
    /\ wire[i].kind = "answer" => wire[i].call \in DOMAIN calls
    /\ wire[i].value = "connecting" => wire[i].kind = "status"

CallsFit ==
  \A c \in DOMAIN calls : /\ calls[c].gen <= generation
                          /\ wants = "off" => calls[c].gen < generation

(* What the window says of a connection that is not there, of one that is   *)
(* not being made, of one that is there, and of one that was given up.      *)
ViewInv ==
  /\ ViewTypes /\ WireFits /\ CallsFit
  /\ mainStatus # "on" => Word(wire, Not("connected"), shown # "connected")
  /\ mainStatus # "login" =>
       Word(wire, Not("connecting"),
            shown = "connecting" => \E c \in DOMAIN calls : Awaited(c) /\ calls[c].gen = generation)
  /\ mainStatus = "on" => Word(wire, Not("disconnected"), shown # "disconnected")
  /\ wants = "off" /\ mainStatus = "off" => Word(wire, Quieting, shown = "disconnected")
  /\ tool # 0 => Awaited(tool)

LEMMA ViewStarts == ViewInit => ViewInv
<1> SUFFICES ASSUME ViewInit PROVE ViewInv
  OBVIOUS
<1>1. /\ calls \in Seq(CallRecord) /\ wire \in Seq(Message) /\ Len(wire) = 0 /\ DOMAIN calls = {}
  BY EmptySeq DEF ViewInit
<1>2. Clean(wire, Not("connected")) /\ Clean(wire, Not("connecting")) /\ Clean(wire, Quieting)
  BY <1>1 DEF Clean
<1>3. QED
  BY <1>1, <1>2 DEF ViewInit, ViewInv, ViewTypes, ViewValues, WireFits, CallsFit, Word

(* Messages t are sent behind w.                                            *)
LEMMA WordSent ==
  ASSUME NEW w \in Seq(Message), NEW t \in Seq(Message), NEW K, NEW fine,
         WireSettled(t, K) \/ (Clean(t, K) /\ Word(w, K, fine))
  PROVE  Word(w \o t, K, fine)
<1> DEFINE r == w \o t
<1>1. /\ Len(w) \in Nat /\ Len(t) \in Nat /\ Len(r) = Len(w) + Len(t)
      /\ \A i \in 1..Len(w) : r[i] = w[i]
      /\ \A i \in 1..Len(t) : r[Len(w) + i] = t[i]
      /\ \A i \in Len(w) + 1..Len(r) : i - Len(w) \in 1..Len(t) /\ r[i] = t[i - Len(w)]
  BY ConcatProperties, LenProperties
<1> HIDE DEF r
<1>2. CASE WireSettled(t, K)
  <2>1. PICK j \in 1..Len(t) : t[j].kind = "status" /\ \A i \in j..Len(t) : t[i] \in K
    BY <1>2 DEF WireSettled
  <2>2. /\ Len(w) + j \in 1..Len(r) /\ r[Len(w) + j].kind = "status"
        /\ \A i \in Len(w) + j..Len(r) : i - Len(w) \in j..Len(t) /\ r[i] = t[i - Len(w)]
    BY <1>1, <2>1
  <2>3. WireSettled(r, K)
    BY <2>1, <2>2 DEF WireSettled
  <2>4. QED
    BY <2>3 DEF Word, r
<1>3. CASE Clean(t, K) /\ WireSettled(w, K)
  <2>1. PICK j \in 1..Len(w) : w[j].kind = "status" /\ \A i \in j..Len(w) : w[i] \in K
    BY <1>3 DEF WireSettled
  <2>2. j \in 1..Len(r) /\ r[j].kind = "status"
    BY <1>1, <2>1
  <2>3. \A i \in j..Len(r) : r[i] \in K
    <3> TAKE i \in j..Len(r)
    <3>1. CASE i <= Len(w)
      BY <1>1, <2>1, <3>1
    <3>2. CASE i > Len(w)
      BY <1>1, <1>3, <2>1, <3>2 DEF Clean
    <3>3. QED
      BY <1>1, <3>1, <3>2
  <2>4. WireSettled(r, K)
    BY <2>2, <2>3 DEF WireSettled
  <2>5. QED
    BY <2>4 DEF Word, r
<1>4. CASE Clean(t, K) /\ fine /\ Clean(w, K)
  <2>1. Clean(r, K)
    <3> SUFFICES ASSUME NEW i \in 1..Len(r) PROVE r[i] \in K
      BY DEF Clean
    <3>1. CASE i <= Len(w)
      BY <1>1, <1>4, <3>1 DEF Clean
    <3>2. CASE i > Len(w)
      BY <1>1, <1>4, <3>2 DEF Clean
    <3>3. QED
      BY <1>1, <3>1, <3>2
  <2>2. QED
    BY <1>4, <2>1 DEF Word, r
<1>5. QED
  BY <1>2, <1>3, <1>4 DEF Word

(* The first message is taken.                                              *)
LEMMA WordTaken ==
  ASSUME NEW w \in Seq(Message), w # <<>>, NEW K, NEW fine, NEW now, Word(w, K, fine),
         Head(w) \in K => (Head(w).kind = "status" \/ fine => now)
  PROVE  Word(Tail(w), K, now)
<1> DEFINE r == Tail(w)
<1>1. /\ Len(w) \in Nat /\ Len(w) > 0 /\ Len(r) = Len(w) - 1 /\ Head(w) = w[1]
      /\ \A i \in 1..Len(r) : r[i] = w[i + 1]
  BY HeadTailProperties, EmptySeq
<1> HIDE DEF r
<1>2. CASE WireSettled(w, K)
  <2>1. PICK j \in 1..Len(w) : w[j].kind = "status" /\ \A i \in j..Len(w) : w[i] \in K
    BY <1>2 DEF WireSettled
  <2>2. CASE j = 1
    <3>1. Clean(r, K) /\ now
      BY <1>1, <2>1, <2>2 DEF Clean
    <3>2. QED
      BY <3>1 DEF Word, r
  <2>3. CASE j # 1
    <3>1. j - 1 \in 1..Len(r) /\ r[j - 1].kind = "status"
      BY <1>1, <2>1, <2>3
    <3>2. \A i \in j - 1..Len(r) : i + 1 \in j..Len(w) /\ r[i] = w[i + 1]
      BY <1>1, <2>1, <2>3
    <3>3. WireSettled(r, K)
      BY <2>1, <3>1, <3>2 DEF WireSettled
    <3>4. QED
      BY <3>3 DEF Word, r
  <2>4. QED
    BY <2>2, <2>3
<1>3. CASE fine /\ Clean(w, K)
  <2>1. Clean(r, K) /\ now
    BY <1>1, <1>3 DEF Clean
  <2>2. QED
    BY <2>1 DEF Word, r
<1>4. QED
  BY <1>2, <1>3 DEF Word

LEMMA MoveFacts ==
  ASSUME calls \in Seq(CallRecord), NEW cs, NEW to \in {"reveal", "login", "orphan", "over"}
  PROVE  /\ Move(cs, to) \in Seq(CallRecord) /\ DOMAIN Move(cs, to) = DOMAIN calls
         /\ \A c \in DOMAIN calls : /\ Move(cs, to)[c].gen = calls[c].gen
                                    /\ Move(cs, to)[c].stage = IF c \in cs THEN to ELSE calls[c].stage
<1>1. Len(calls) \in Nat /\ DOMAIN calls = 1..Len(calls) /\ \A c \in DOMAIN calls : calls[c] \in CallRecord
  BY LenProperties, ElementOfSeq
<1>2. \A c \in DOMAIN calls : /\ Move(cs, to)[c] = IF c \in cs THEN [calls[c] EXCEPT !.stage = to] ELSE calls[c]
                              /\ Move(cs, to)[c] \in CallRecord
  BY <1>1 DEF Move, CallRecord
<1>3. Move(cs, to) \in [1..Len(calls) -> CallRecord]
  BY <1>1, <1>2 DEF Move
<1>4. Move(cs, to) \in Seq(CallRecord)
  BY <1>1, <1>3, SeqDef
<1>5. QED
  BY <1>1, <1>2, <1>4 DEF Move, CallRecord

LEMMA AnswersFacts ==
  ASSUME calls \in Seq(CallRecord), NEW cs \in SUBSET DOMAIN calls, NEW v \in ViewValues
  PROVE  /\ AnswersTo(cs, v) \in Seq(Message)
         /\ \A i \in 1..Len(AnswersTo(cs, v)) : \E c \in cs : AnswersTo(cs, v)[i] = Answer(c, v)
         /\ \A c \in cs : \E i \in 1..Len(AnswersTo(cs, v)) : AnswersTo(cs, v)[i] = Answer(c, v)
<1> DEFINE s == [c \in DOMAIN calls |-> c]
           order == Only(s, cs)
           a == AnswersTo(cs, v)
<1>1. Len(calls) \in Nat /\ DOMAIN calls = 1..Len(calls)
  BY LenProperties
<1>2. s \in [1..Len(calls) -> Nat]
  BY <1>1
<1>3. s \in Seq(Nat) /\ Len(s) = Len(calls)
  BY <1>1, <1>2, SeqDef
<1>4. InSeq(s) = DOMAIN calls
  BY <1>1, <1>3 DEF InSeq
<1>5. order \in Seq(Nat) /\ InSeq(order) = cs
  <2> HIDE DEF s
  <2>1. order \in Seq(Nat) /\ InSeq(order) = InSeq(s) \cap cs
    BY <1>3, OnlyFacts
  <2>2. QED
    BY <1>4, <2>1
<1> HIDE DEF order
<1>6. Len(order) \in Nat /\ DOMAIN order = 1..Len(order) /\ \A i \in 1..Len(order) : order[i] \in cs /\ order[i] \in Nat
  BY <1>5, LenProperties, ElementOfSeq DEF InSeq
<1>7. a = [i \in 1..Len(order) |-> Answer(order[i], v)]
  BY <1>6 DEF AnswersTo, order
<1>8. a \in [1..Len(order) -> Message]
  BY <1>6, <1>7 DEF Answer, Message, ViewValues
<1>9. a \in Seq(Message) /\ Len(a) = Len(order)
  BY <1>6, <1>8, SeqDef
<1>10. \A c \in cs : \E i \in 1..Len(order) : order[i] = c
  BY <1>5 DEF InSeq
<1> HIDE DEF a
<1>11. QED
  BY <1>6, <1>7, <1>9, <1>10 DEF a

(* A step that only sends t, moves calls on, and may give up those before.  *)
LEMMA SentStep ==
  ASSUME ViewInv, NEW t \in Seq(Message), wire' = wire \o t, UNCHANGED shown,
         generation' \in {generation, generation + 1}, tool' \in {tool, 0},
         mainStatus' \in {"off", "login", "on", "error"}, wants' \in {"connect", "off"},
         agentAt' \in {"none", "reveal", "login", "list"},
         calls' \in Seq(CallRecord), DOMAIN calls' = DOMAIN calls,
         \A c \in DOMAIN calls :
           /\ calls'[c].gen = calls[c].gen
           /\ calls'[c].stage = "over" =>
                calls[c].stage = "over" \/ \E i \in 1..Len(t) : t[i].kind = "answer" /\ t[i].call = c,
         \A i \in 1..Len(t) : /\ t[i].kind = "answer" => t[i].call \in DOMAIN calls
                              /\ t[i].value = "connecting" => t[i].kind = "status",
         wants' = "off" => wants = "off" \/ generation' = generation + 1,
         mainStatus' # "on" => WireSettled(t, Not("connected")) \/ (mainStatus # "on" /\ Clean(t, Not("connected"))),
         mainStatus' # "login" =>
           \/ WireSettled(t, Not("connecting"))
           \/ mainStatus # "login" /\ generation' = generation /\ Clean(t, Not("connecting")),
         mainStatus' = "on" => WireSettled(t, Not("disconnected")) \/ (mainStatus = "on" /\ Clean(t, Not("disconnected"))),
         wants' = "off" /\ mainStatus' = "off" =>
           WireSettled(t, Quieting) \/ (wants = "off" /\ mainStatus = "off" /\ Clean(t, Quieting))
  PROVE  ViewInv'
<1> DEFINE r == wire \o t
<1> USE DEF ViewInv, ViewTypes
<1>1. /\ r \in Seq(Message) /\ Len(wire) \in Nat /\ Len(t) \in Nat /\ Len(r) = Len(wire) + Len(t)
      /\ \A i \in 1..Len(wire) : i \in 1..Len(r) /\ r[i] = wire[i]
      /\ \A i \in 1..Len(t) : Len(wire) + i \in 1..Len(r) /\ r[Len(wire) + i] = t[i]
      /\ \A i \in 1..Len(r) : \/ i \in 1..Len(wire) /\ r[i] = wire[i]
                              \/ i - Len(wire) \in 1..Len(t) /\ r[i] = t[i - Len(wire)]
  BY ConcatProperties, LenProperties
<1>2. ViewTypes'
  BY <1>1
<1>3. CallsFit'
  <2>1. \A c \in DOMAIN calls : calls[c] \in CallRecord
    BY LenProperties, ElementOfSeq
  <2>2. QED
    BY <2>1 DEF CallsFit, CallRecord

<1>4. WireFits'
  <2> SUFFICES ASSUME NEW i \in 1..Len(r)
               PROVE  /\ r[i].kind = "answer" => r[i].call \in DOMAIN calls
                      /\ r[i].value = "connecting" => r[i].kind = "status"
    BY DEF WireFits
  <2> HIDE DEF r
  <2>1. CASE i \in 1..Len(wire) /\ r[i] = wire[i]
    BY <2>1 DEF WireFits
  <2>2. CASE i - Len(wire) \in 1..Len(t) /\ r[i] = t[i - Len(wire)]
    BY <2>2
  <2>3. QED
    BY <1>1, <2>1, <2>2
<1>5. \A c : Awaited(c) => Awaited(c)'
  <2> SUFFICES ASSUME NEW c, Awaited(c)
               PROVE  calls'[c].stage # "over" \/ \E i \in 1..Len(r) : r[i].kind = "answer" /\ r[i].call = c
    BY DEF Awaited
  <2>1. c \in DOMAIN calls
    BY DEF Awaited
  <2> HIDE DEF r
  <2>2. CASE \E i \in 1..Len(wire) : wire[i].kind = "answer" /\ wire[i].call = c
    BY <1>1, <2>2
  <2>3. CASE calls[c].stage # "over"
    <3>1. CASE calls'[c].stage = "over"
      <4>1. PICK i \in 1..Len(t) : t[i].kind = "answer" /\ t[i].call = c
        BY <2>1, <2>3, <3>1
      <4>2. Len(wire) + i \in 1..Len(r) /\ r[Len(wire) + i] = t[i]
        BY <1>1
      <4>3. QED
        BY <4>1, <4>2
    <3>2. QED
      BY <3>1
  <2>4. QED
    BY <2>2, <2>3 DEF Awaited
<1>6. tool' # 0 => Awaited(tool)'
  <2>1. tool' # 0 => tool' = tool /\ Awaited(tool)
    OBVIOUS
  <2>2. PICK n : n = tool
    OBVIOUS
  <2>3. QED
    BY <1>5, <2>1, <2>2 DEF Awaited
<1>7. mainStatus' # "on" => Word(r, Not("connected"), shown # "connected")
  BY WordSent
<1>8. mainStatus' = "on" => Word(r, Not("disconnected"), shown # "disconnected")
  BY WordSent
<1>9. wants' = "off" /\ mainStatus' = "off" => Word(r, Quieting, shown = "disconnected")
  BY WordSent
<1>10. ASSUME mainStatus' # "login"
       PROVE  Word(r, Not("connecting"),
                   shown = "connecting" => \E c \in DOMAIN calls : Awaited(c)' /\ calls'[c].gen = generation')
  <2> DEFINE fine == shown = "connecting" => \E c \in DOMAIN calls : Awaited(c) /\ calls[c].gen = generation
             now == shown = "connecting" => \E c \in DOMAIN calls : Awaited(c)' /\ calls'[c].gen = generation'
  <2>1. CASE WireSettled(t, Not("connecting"))
    <3> HIDE DEF now
    <3>1. Word(r, Not("connecting"), now)
      BY <2>1, WordSent
    <3>2. QED
      BY <3>1 DEF now
  <2>2. CASE mainStatus # "login" /\ generation' = generation /\ Clean(t, Not("connecting"))
    <3>1. fine => now
      BY <1>5, <2>2
    <3> HIDE DEF now
    <3>2. Word(wire, Not("connecting"), fine)
      BY <2>2
    <3> HIDE DEF fine
    <3>3. Word(r, Not("connecting"), fine)
      BY <2>2, <3>2, WordSent
    <3>4. QED
      BY <3>1, <3>3 DEF Word, now
  <2>3. QED
    BY <1>10, <2>1, <2>2
<1> HIDE DEF r
<1>11. wire' = r
  BY DEF r
<1>12. QED
  BY <1>2, <1>3, <1>4, <1>6, <1>7, <1>8, <1>9, <1>10, <1>11 DEF Word, WireSettled, Clean, Not, Quieting

LEMMA OneSent ==
  ASSUME wire \in Seq(Message), NEW m \in Message
  PROVE  LET t == <<m>>
         IN  /\ t \in Seq(Message) /\ Append(wire, m) = wire \o t
             /\ Len(t) = 1 /\ t[1] = m
             /\ \A K : m \in K => Clean(t, K)
             /\ \A K : m \in K /\ m.kind = "status" => WireSettled(t, K)
<1> DEFINE t == <<m>>
<1>1. t \in Seq(Message) /\ Len(t) = 1 /\ t[1] = m
  OBVIOUS
<1>2. Append(wire, m) = wire \o t
  BY AppendIsConcat
<1> HIDE DEF t
<1>3. QED
  BY <1>1, <1>2 DEF Clean, WireSettled, t

(* A status and what follows it.                                            *)
LEMMA StatusSent ==
  ASSUME wire \in Seq(Message), NEW m \in Message, m.kind = "status", NEW s \in Seq(Message)
  PROVE  LET t == <<m>> \o s
         IN  /\ t \in Seq(Message) /\ Append(wire, m) \o s = wire \o t
             /\ \A i \in 1..Len(t) : t[i] = m \/ \E k \in 1..Len(s) : t[i] = s[k]
             /\ \A k \in 1..Len(s) : \E i \in 1..Len(t) : t[i] = s[k]
             /\ \A K : m \in K /\ Clean(s, K) => WireSettled(t, K)
<1> DEFINE o == <<m>>
           t == o \o s
<1>1. o \in Seq(Message) /\ Len(o) = 1 /\ o[1] = m /\ Append(wire, m) = wire \o o
  BY OneSent
<1>2. Append(wire, m) \o s = wire \o t
  BY <1>1, ConcatAssociative
<1> HIDE DEF o
<1>3. /\ t \in Seq(Message) /\ Len(s) \in Nat /\ Len(t) = 1 + Len(s)
      /\ \A i \in 1..1 + Len(s) : t[i] = IF i <= 1 THEN o[i] ELSE s[i - 1]
  BY <1>1, ConcatProperties, LenProperties
<1> HIDE DEF t
<1>4. t[1] = m /\ 1 \in 1..Len(t) /\ \A k \in 1..Len(s) : k + 1 \in 1..Len(t) /\ t[k + 1] = s[k]
  BY <1>1, <1>3
<1>5. \A i \in 1..Len(t) : i = 1 \/ (i - 1 \in 1..Len(s) /\ t[i] = s[i - 1])
  BY <1>3
<1>6. \A K : m \in K /\ Clean(s, K) => \A i \in 1..Len(t) : t[i] \in K
  BY <1>4, <1>5 DEF Clean
<1>7. \A K : m \in K /\ Clean(s, K) => WireSettled(t, K)
  BY <1>4, <1>6 DEF WireSettled
<1>8. QED
  BY <1>2, <1>3, <1>4, <1>5, <1>7 DEF t, o

LEMMA NothingSent ==
  ASSUME wire \in Seq(Message)
  PROVE  LET t == <<>>
         IN  t \in Seq(Message) /\ wire = wire \o t /\ Len(t) = 0 /\ \A K : Clean(t, K)
<1>1. <<>> \in Seq(Message) /\ Len(<<>>) = 0 /\ wire = wire \o <<>>
  BY EmptySeq, ConcatEmptySeq
<1>2. \A K : Clean(<<>>, K)
  BY <1>1 DEF Clean
<1>3. QED
  BY <1>1, <1>2

(* One call is answered and over.                                           *)
LEMMA CallAnswered ==
  ASSUME ViewInv, NEW c \in DOMAIN calls, NEW v \in {"connected", "error"},
         v = "connected" => mainStatus = "on",
         calls' = Move({c}, "over"), wire' = Append(wire, Answer(c, v)),
         UNCHANGED <<mainStatus, wants, agentAt, shown, generation, tool>>
  PROVE  ViewInv'
<1> USE DEF ViewInv, ViewTypes
<1>1. c \in Nat
  BY LenProperties
<1>2. Answer(c, v) \in Message /\ Answer(c, v).kind = "answer" /\ Answer(c, v).value = v /\ Answer(c, v).call = c
  BY <1>1 DEF Answer, Message, ViewValues
<1>3. PICK t : /\ t \in Seq(Message) /\ wire' = wire \o t
               /\ Len(t) = 1 /\ t[1] = Answer(c, v)
               /\ \A K : Answer(c, v) \in K => Clean(t, K)
  BY <1>2, OneSent
<1>4. /\ calls' \in Seq(CallRecord) /\ DOMAIN calls' = DOMAIN calls
      /\ \A d \in DOMAIN calls : /\ calls'[d].gen = calls[d].gen
                                 /\ calls'[d].stage = IF d \in {c} THEN "over" ELSE calls[d].stage
  BY MoveFacts
<1>5. \A d \in DOMAIN calls : calls'[d].stage = "over" =>
         calls[d].stage = "over" \/ \E i \in 1..Len(t) : t[i].kind = "answer" /\ t[i].call = d
  <2> TAKE d \in DOMAIN calls
  <2>1. 1 \in 1..Len(t) /\ t[1].kind = "answer" /\ t[1].call = c
    BY <1>2, <1>3
  <2>2. QED
    BY <1>4, <2>1
<1>6. \A i \in 1..Len(t) : /\ t[i].kind = "answer" => t[i].call \in DOMAIN calls
                           /\ t[i].value = "connecting" => t[i].kind = "status"
  BY <1>2, <1>3
<1>7. /\ Clean(t, Not("connecting")) /\ Clean(t, Not("disconnected")) /\ Clean(t, Quieting)
      /\ mainStatus # "on" => Clean(t, Not("connected"))
  BY <1>2, <1>3 DEF Not, Quieting
<1>8. QED
  BY <1>3, <1>4, <1>5, <1>6, <1>7, SentStep

(* The manager's status changes, with its event and nothing else.           *)
LEMMA StatusStep ==
  ASSUME ViewInv, NEW v \in {"connecting", "error"},
         mainStatus' = IF v = "connecting" THEN "login" ELSE "error",
         wire' = Append(wire, Status(v)), UNCHANGED <<wants, shown, generation, tool>>,
         agentAt' \in {"none", "reveal", "login", "list"},
         calls' \in Seq(CallRecord), DOMAIN calls' = DOMAIN calls,
         \A c \in DOMAIN calls : /\ calls'[c].gen = calls[c].gen
                                 /\ calls'[c].stage = "over" => calls[c].stage = "over"
  PROVE  ViewInv'
<1> USE DEF ViewInv, ViewTypes
<1>1. Status(v) \in Message /\ Status(v).kind = "status" /\ Status(v).value = v
  BY DEF Status, Message, ViewValues
<1>2. PICK t : /\ t \in Seq(Message) /\ wire' = wire \o t
               /\ Len(t) = 1 /\ t[1] = Status(v)
               /\ \A K : Status(v) \in K => WireSettled(t, K)
  BY <1>1, OneSent
<1>3. \A i \in 1..Len(t) : t[i].kind = "status"
  BY <1>1, <1>2
<1>4. WireSettled(t, Not("connected")) /\ (v = "error" => WireSettled(t, Not("connecting")))
  BY <1>1, <1>2 DEF Not
<1>5. QED
  BY <1>2, <1>3, <1>4, SentStep

(* Nothing is sent.                                                         *)
LEMMA SilentStep ==
  ASSUME ViewInv, UNCHANGED <<mainStatus, wire, shown, generation, tool>>, wants' \in {wants, "connect"},
         agentAt' \in {"none", "reveal", "login", "list"},
         calls' \in Seq(CallRecord), DOMAIN calls' = DOMAIN calls,
         \A c \in DOMAIN calls : /\ calls'[c].gen = calls[c].gen
                                 /\ calls'[c].stage = "over" => calls[c].stage = "over"
  PROVE  ViewInv'
<1> USE DEF ViewInv, ViewTypes
<1>1. PICK t : t \in Seq(Message) /\ wire' = wire \o t /\ Len(t) = 0 /\ \A K : Clean(t, K)
  BY NothingSent
<1>2. /\ Clean(t, Not("connected")) /\ Clean(t, Not("connecting")) /\ Clean(t, Not("disconnected"))
      /\ Clean(t, Quieting)
  BY <1>1
<1>3. \A i \in 1..Len(t) : FALSE
  BY <1>1
<1>4. wants' = "off" => wants = "off"
  OBVIOUS
<1>5. QED
  BY <1>1, <1>2, <1>3, <1>4, SentStep

(* The saved password has been read.                                        *)
LEMMA RevealedSteps ==
  ASSUME ViewInv, (\E c \in DOMAIN calls : Revealed(c)) \/ AgentRevealed
  PROVE  ViewInv'
<1> USE DEF ViewInv, ViewTypes
<1>1. CASE AgentRevealed
  <2>1. CASE mainStatus \in {"on", "login"}
    BY <1>1, <2>1, SilentStep DEF AgentRevealed, Asked
  <2>2. CASE mainStatus \in {"off", "error"}
    BY <1>1, <2>2, StatusStep DEF AgentRevealed, Asked
  <2>3. QED
    BY <2>1, <2>2
<1>2. ASSUME NEW c \in DOMAIN calls, Revealed(c)
      PROVE  ViewInv'
  <2> USE <1>2
  <2>1. CASE mainStatus = "on"
    <3>1. calls' = Move({c}, "over") /\ wire' = Append(wire, Answer(c, "connected"))
      BY <2>1 DEF Revealed, Asked
    <3>2. QED
      BY <2>1, <3>1, CallAnswered DEF Revealed, Asked
  <2>2. CASE mainStatus # "on"
    <3>1. calls' = Move({c}, "login")
      BY <2>2 DEF Revealed, Asked
    <3>2. /\ calls' \in Seq(CallRecord) /\ DOMAIN calls' = DOMAIN calls
          /\ \A d \in DOMAIN calls : /\ calls'[d].gen = calls[d].gen
                                     /\ calls'[d].stage = "over" => calls[d].stage = "over"
      BY <3>1, MoveFacts
    <3>3. CASE mainStatus = "login"
      BY <2>2, <3>2, <3>3, SilentStep DEF Revealed, Asked
    <3>4. CASE mainStatus # "login"
      BY <2>2, <3>2, <3>4, StatusStep DEF Revealed, Asked
    <3>5. QED
      BY <3>3, <3>4
  <2>3. QED
    BY <2>1, <2>2
<1>3. QED
  BY <1>1, <1>2

LEMMA LoginEndsStep ==
  ASSUME ViewInv, NEW ok \in BOOLEAN, LoginEnds(ok)
  PROVE  ViewInv'
<1> USE DEF ViewInv, ViewTypes
<1>1. PICK s : s = IF ok THEN "connected" ELSE "error"
  OBVIOUS
<1>2. PICK cs : cs = StandAt("login")
  OBVIOUS
<1>3. cs \in SUBSET DOMAIN calls /\ \A c \in DOMAIN calls : c \in cs <=> calls[c].stage = "login"
  BY <1>2 DEF StandAt
<1>4. PICK a : a = AnswersTo(cs, s)
  OBVIOUS
<1>5. /\ a \in Seq(Message)
      /\ \A i \in 1..Len(a) : \E c \in cs : a[i] = Answer(c, s)
      /\ \A c \in cs : \E i \in 1..Len(a) : a[i] = Answer(c, s)
  BY <1>1, <1>3, <1>4, AnswersFacts DEF ViewValues
<1>6. Status(s) \in Message /\ Status(s).kind = "status" /\ Status(s).value = s
  BY <1>1 DEF Status, Message, ViewValues
<1>0. wire' = Append(wire, Status(s)) \o a
  BY <1>1, <1>2, <1>4 DEF LoginEnds
<1>7. PICK t : /\ t \in Seq(Message) /\ wire' = wire \o t
               /\ \A i \in 1..Len(t) : t[i] = Status(s) \/ \E k \in 1..Len(a) : t[i] = a[k]
               /\ \A k \in 1..Len(a) : \E i \in 1..Len(t) : t[i] = a[k]
               /\ \A K : Status(s) \in K /\ Clean(a, K) => WireSettled(t, K)
  BY <1>0, <1>5, <1>6, StatusSent
<1>8. \A c \in cs : Answer(c, s).kind = "answer" /\ Answer(c, s).value = s /\ Answer(c, s).call = c
  BY DEF Answer
<1>9. /\ calls' \in Seq(CallRecord) /\ DOMAIN calls' = DOMAIN calls
      /\ \A c \in DOMAIN calls : /\ calls'[c].gen = calls[c].gen
                                 /\ calls'[c].stage = IF c \in cs THEN "over" ELSE calls[c].stage
  BY <1>2, MoveFacts DEF LoginEnds
<1>10. \A c \in DOMAIN calls : calls'[c].stage = "over" =>
         calls[c].stage = "over" \/ \E i \in 1..Len(t) : t[i].kind = "answer" /\ t[i].call = c
  <2> TAKE c \in DOMAIN calls
  <2>1. CASE c \in cs
    <3>1. PICK k \in 1..Len(a) : a[k] = Answer(c, s)
      BY <1>5, <2>1
    <3>2. PICK i \in 1..Len(t) : t[i] = a[k]
      BY <1>7
    <3>3. QED
      BY <1>8, <2>1, <3>1, <3>2
  <2>2. QED
    BY <1>9, <2>1
<1>11. \A i \in 1..Len(t) : /\ t[i].kind = "answer" => t[i].call \in DOMAIN calls
                            /\ t[i].value = "connecting" => t[i].kind = "status"
  <2> TAKE i \in 1..Len(t)
  <2>1. CASE t[i] = Status(s)
    BY <1>6, <2>1
  <2>2. ASSUME NEW k \in 1..Len(a), t[i] = a[k]
        PROVE  t[i].call \in DOMAIN calls /\ t[i].value # "connecting"
    BY <1>1, <1>3, <1>5, <1>8, <2>2
  <2>3. QED
    BY <1>6, <1>7, <2>1, <2>2
<1>12. /\ Clean(a, Not("connecting")) /\ Clean(a, Not("disconnected"))
       /\ ~ok => Clean(a, Not("connected"))
  <2> SUFFICES ASSUME NEW i \in 1..Len(a)
               PROVE  a[i].value = s /\ a[i] \in Message
    BY <1>1 DEF Clean, Not
  <2>1. QED
    BY <1>5, <1>8, ElementOfSeq
<1>13. /\ WireSettled(t, Not("connecting")) /\ WireSettled(t, Not("disconnected"))
       /\ ~ok => WireSettled(t, Not("connected"))
  <2>1. /\ Status(s) \in Not("connecting") /\ Status(s) \in Not("disconnected")
        /\ ~ok => Status(s) \in Not("connected")
    BY <1>1, <1>6 DEF Not
  <2>2. QED
    BY <1>7, <1>12, <2>1
<1>14. /\ mainStatus' = (IF ok THEN "on" ELSE "error") /\ agentAt' \in {"none", "reveal", "login", "list"}
       /\ UNCHANGED <<wants, shown, generation, tool>>
  BY DEF LoginEnds
<1>15. QED
  BY <1>7, <1>9, <1>10, <1>11, <1>13, <1>14, SentStep

LEMMA DisconnectedStep ==
  ASSUME ViewInv, NEW m \in Message, m.kind \in {"gone", "agent"}, m.value = "disconnected",
         Disconnected(<<m>>), UNCHANGED shown,
         \/ UNCHANGED <<wants, generation, tool>>
         \/ wants' = "off" /\ generation' = generation + 1 /\ tool' = 0
  PROVE  ViewInv'
<1> USE DEF ViewInv, ViewTypes
<1>1. Status("disconnected") \in Message /\ Status("disconnected").kind = "status"
      /\ Status("disconnected").value = "disconnected"
  BY DEF Status, Message, ViewValues
<1>2. PICK s : s = <<m>>
  OBVIOUS
<1>3. s \in Seq(Message) /\ Len(s) = 1 /\ s[1] = m /\ \A K : m \in K => Clean(s, K)
  BY <1>2, OneSent
<1>4. wire' = Append(wire, Status("disconnected")) \o s
  BY <1>2 DEF Disconnected
<1>5. PICK t : /\ t \in Seq(Message) /\ wire' = wire \o t
               /\ \A i \in 1..Len(t) : t[i] = Status("disconnected") \/ \E k \in 1..Len(s) : t[i] = s[k]
               /\ \A K : Status("disconnected") \in K /\ Clean(s, K) => WireSettled(t, K)
  BY <1>1, <1>3, <1>4, StatusSent
<1>6. \A i \in 1..Len(t) : t[i] = Status("disconnected") \/ t[i] = m
  BY <1>3, <1>5
<1>7. \A i \in 1..Len(t) : t[i].kind # "answer" /\ t[i].value # "connecting"
  BY <1>1, <1>6
<1>8. /\ m \in Not("connected") /\ m \in Not("connecting") /\ m \in Quieting
      /\ Status("disconnected") \in Not("connected") /\ Status("disconnected") \in Not("connecting")
      /\ Status("disconnected") \in Quieting
  BY <1>1 DEF Not, Quieting
<1>9. /\ WireSettled(t, Not("connected")) /\ WireSettled(t, Not("connecting")) /\ WireSettled(t, Quieting)
  BY <1>3, <1>5, <1>8
<1>10. /\ calls' \in Seq(CallRecord) /\ DOMAIN calls' = DOMAIN calls
       /\ \A c \in DOMAIN calls : /\ calls'[c].gen = calls[c].gen
                                  /\ calls'[c].stage = "over" => calls[c].stage = "over"
  <2>1. PICK cs : cs = StandAt("login")
    OBVIOUS
  <2>2. calls' = Move(cs, "orphan")
    BY <2>1 DEF Disconnected
  <2>3. QED
    BY <2>2, MoveFacts
<1>11. mainStatus' = "off" /\ agentAt' \in {"none", "reveal", "login", "list"}
  BY DEF Disconnected
<1>12. QED
  BY <1>5, <1>7, <1>9, <1>10, <1>11, SentStep

LEMMA AgentOpensStep ==
  ASSUME ViewInv, AgentOpens
  PROVE  ViewInv'
<1> USE DEF ViewInv, ViewTypes
<1>1. CASE mainStatus # "on"
  BY <1>1, SilentStep DEF AgentOpens
<1>2. CASE mainStatus = "on"
  <2>1. /\ AgentSays("connected") \in Message /\ AgentSays("connected").kind = "agent"
        /\ AgentSays("connected").value = "connected"
    BY DEF AgentSays, Message, ViewValues
  <2>2. PICK t : /\ t \in Seq(Message) /\ wire' = wire \o t
                 /\ Len(t) = 1 /\ t[1] = AgentSays("connected")
                 /\ \A K : AgentSays("connected") \in K => Clean(t, K)
    BY <1>2, <2>1, OneSent DEF AgentOpens
  <2>3. \A i \in 1..Len(t) : t[i].kind # "answer" /\ t[i].value # "connecting"
    BY <2>1, <2>2
  <2>4. Clean(t, Not("connecting")) /\ Clean(t, Not("disconnected"))
    BY <2>1, <2>2 DEF Not
  <2>5. QED
    BY <1>2, <2>2, <2>3, <2>4, SentStep DEF AgentOpens
<1>3. QED
  BY <1>1, <1>2

LEMMA GuiConnectStep ==
  ASSUME ViewInv, NEW byTool \in BOOLEAN, GuiConnect(byTool)
  PROVE  ViewInv'
<1> USE DEF ViewInv, ViewTypes
<1>0. PICK x, n : x = [gen |-> generation + 1, stage |-> "reveal"] /\ n = Len(calls) + 1
  OBVIOUS
<1>1. x \in CallRecord
  BY <1>0 DEF CallRecord
<1>2. /\ calls' \in Seq(CallRecord) /\ Len(calls) \in Nat
      /\ DOMAIN calls = 1..Len(calls) /\ DOMAIN calls' = 1..n
      /\ calls'[n] = x /\ \A c \in DOMAIN calls : calls'[c] = calls[c]
      /\ \A c \in DOMAIN calls : calls[c] \in CallRecord
  BY <1>0, <1>1, LenProperties, ElementOfSeq DEF GuiConnect
<1>3. /\ generation' = generation + 1 /\ wants' = "connect"
      /\ UNCHANGED <<mainStatus, agentAt, wire>>
      /\ shown' = IF shown = "connected" THEN shown ELSE "connecting"
      /\ tool' = IF byTool THEN n ELSE tool
  BY <1>0 DEF GuiConnect
<1>4. ViewTypes'
  BY <1>0, <1>2, <1>3 DEF ViewValues
<1>5. WireFits'
  BY <1>0, <1>2, <1>3 DEF WireFits
<1>6. CallsFit'
  <2>1. \A c \in DOMAIN calls' : calls'[c].gen <= generation'
    BY <1>0, <1>2, <1>3 DEF CallsFit, CallRecord
  <2>2. QED
    BY <1>3, <2>1 DEF CallsFit
<1>7. \A c : Awaited(c) => Awaited(c)'
  BY <1>0, <1>2, <1>3 DEF Awaited
<1>8. Awaited(n)'
  BY <1>0, <1>2 DEF Awaited
<1>9. tool' # 0 => Awaited(tool)'
  <2>1. tool' # 0 => tool' = n \/ (tool' = tool /\ Awaited(tool))
    BY <1>3
  <2>2. PICK k : k = tool
    OBVIOUS
  <2>3. QED
    BY <1>7, <1>8, <2>1, <2>2 DEF Awaited
<1>10. \E c \in DOMAIN calls' : Awaited(c)' /\ calls'[c].gen = generation'
  <2>1. n \in DOMAIN calls' /\ calls'[n].gen = generation'
    BY <1>0, <1>2, <1>3
  <2>2. QED
    BY <1>8, <2>1 DEF Awaited
<1>11. /\ mainStatus # "on" => Word(wire, Not("connected"), shown' # "connected")
       /\ mainStatus = "on" => Word(wire, Not("disconnected"), shown' # "disconnected")
       /\ mainStatus # "login" => WireSettled(wire, Not("connecting")) \/ Clean(wire, Not("connecting"))
  BY <1>3 DEF Word
<1>12. QED
  BY <1>3, <1>4, <1>5, <1>6, <1>9, <1>10, <1>11 DEF Word, WireSettled, Clean, Not, Quieting

LEMMA DeliverStep ==
  ASSUME ViewInv, Deliver
  PROVE  ViewInv'
<1> USE DEF ViewInv, ViewTypes
<1>1. PICK m, r : m = Head(wire) /\ r = Tail(wire)
  OBVIOUS
<1>2. /\ wire # <<>> /\ wire' = r /\ Taken(m)
      /\ UNCHANGED <<mainStatus, wants, calls, agentAt>>
  BY <1>1 DEF Deliver
<1>3. /\ m \in Message /\ r \in Seq(Message)
      /\ Len(wire) \in Nat /\ Len(wire) > 0 /\ Len(r) = Len(wire) - 1 /\ m = wire[1]
      /\ \A i \in 1..Len(r) : i + 1 \in 1..Len(wire) /\ r[i] = wire[i + 1]
      /\ \A i \in 1..Len(wire) : i = 1 \/ (i - 1 \in 1..Len(r) /\ wire[i] = r[i - 1])
  BY <1>1, <1>2, HeadTailProperties, EmptySeq
<1>4. \A c \in DOMAIN calls : calls[c] \in CallRecord
  BY LenProperties, ElementOfSeq
<1>5. m.kind = "answer" => m.call \in DOMAIN calls
  BY <1>3 DEF WireFits
<1>6. /\ generation' \in {generation, generation + 1} /\ tool' \in {tool, 0}
      /\ shown' \in {shown, m.value}
      /\ m.kind \in {"status", "gone"} => shown' = m.value
      /\ m.kind = "answer" =>
           /\ calls[m.call].gen = generation => shown' = m.value
           /\ calls[m.call].gen # generation => shown' = shown
           /\ tool = m.call => tool' = 0
      /\ generation' # generation => shown' = m.value
      /\ m.kind # "agent" => generation' = generation
  BY <1>2 DEF Taken, Current
<1>7. ViewTypes'
  BY <1>2, <1>3, <1>6 DEF Message
<1>8. WireFits'
  BY <1>2, <1>3 DEF WireFits
<1>9. CallsFit'
  BY <1>2, <1>4, <1>6 DEF CallsFit, CallRecord
<1>10. \A c : Awaited(c) => Awaited(c)' \/ (m.kind = "answer" /\ m.call = c)
  <2> SUFFICES ASSUME NEW c, Awaited(c), ~(m.kind = "answer" /\ m.call = c)
               PROVE  calls[c].stage # "over" \/ \E i \in 1..Len(r) : r[i].kind = "answer" /\ r[i].call = c
    BY <1>2 DEF Awaited
  <2>1. CASE calls[c].stage # "over"
    BY <2>1
  <2>2. ASSUME NEW i \in 1..Len(wire), wire[i].kind = "answer", wire[i].call = c
        PROVE  i - 1 \in 1..Len(r) /\ r[i - 1].kind = "answer" /\ r[i - 1].call = c
    BY <1>3, <2>2
  <2>3. QED
    BY <2>1, <2>2 DEF Awaited
<1>11. tool' # 0 => Awaited(tool)'
  <2>1. tool' # 0 => tool' = tool /\ Awaited(tool) /\ ~(m.kind = "answer" /\ m.call = tool)
    BY <1>6
  <2>2. PICK n : n = tool
    OBVIOUS
  <2>3. QED
    BY <1>10, <2>1, <2>2 DEF Awaited
<1>12. mainStatus # "on" => Word(r, Not("connected"), shown' # "connected")
  <2> DEFINE K == Not("connected")
             fine == shown # "connected"
             now == shown' # "connected"
  <2>1. m \in K => (m.kind = "status" \/ fine => now)
    BY <1>6 DEF Not
  <2>2. mainStatus # "on" => Word(wire, K, fine)
    OBVIOUS
  <2> HIDE DEF K, fine, now
  <2>3. mainStatus # "on" => Word(r, K, now)
    BY <1>1, <1>2, <2>1, <2>2, WordTaken
  <2>4. QED
    BY <2>3 DEF K, now
<1>13. mainStatus = "on" => Word(r, Not("disconnected"), shown' # "disconnected")
  <2> DEFINE K == Not("disconnected")
             fine == shown # "disconnected"
             now == shown' # "disconnected"
  <2>1. m \in K => (m.kind = "status" \/ fine => now)
    BY <1>6 DEF Not
  <2>2. mainStatus = "on" => Word(wire, K, fine)
    OBVIOUS
  <2> HIDE DEF K, fine, now
  <2>3. mainStatus = "on" => Word(r, K, now)
    BY <1>1, <1>2, <2>1, <2>2, WordTaken
  <2>4. QED
    BY <2>3 DEF K, now
<1>14. wants = "off" /\ mainStatus = "off" => Word(r, Quieting, shown' = "disconnected")
  <2> DEFINE fine == shown = "disconnected"
             now == shown' = "disconnected"
  <2>1. wants = "off" => (m \in Quieting => (m.kind = "status" \/ fine => now))
    BY <1>4, <1>5, <1>6 DEF Quieting, CallsFit, CallRecord
  <2>2. wants = "off" /\ mainStatus = "off" => Word(wire, Quieting, fine)
    OBVIOUS
  <2> HIDE DEF fine, now
  <2>3. wants = "off" /\ mainStatus = "off" => Word(r, Quieting, now)
    BY <1>1, <1>2, <2>1, <2>2, WordTaken
  <2>4. QED
    BY <2>3 DEF now
<1>15. mainStatus # "login" =>
         Word(r, Not("connecting"),
              shown' = "connecting" => \E c \in DOMAIN calls : Awaited(c)' /\ calls[c].gen = generation')
  <2> DEFINE K == Not("connecting")
             fine == shown = "connecting" => \E c \in DOMAIN calls : Awaited(c) /\ calls[c].gen = generation
             now == shown' = "connecting" => \E c \in DOMAIN calls : Awaited(c)' /\ calls[c].gen = generation'
  <2>1. m \in K => (m.kind = "status" \/ fine => now)
    <3> SUFFICES ASSUME m.value # "connecting", m.kind = "status" \/ fine, shown' = "connecting"
                 PROVE  \E c \in DOMAIN calls : Awaited(c)' /\ calls[c].gen = generation'
      BY DEF Not
    <3>1. shown = "connecting" /\ generation' = generation /\ m.kind # "status"
      BY <1>6
    <3>2. PICK c \in DOMAIN calls : Awaited(c) /\ calls[c].gen = generation
      BY <3>1
    <3>3. ~(m.kind = "answer" /\ m.call = c)
      BY <1>6, <3>2
    <3>4. QED
      BY <1>10, <3>1, <3>2, <3>3
  <2>2. mainStatus # "login" => Word(wire, K, fine)
    OBVIOUS
  <2> HIDE DEF K, fine, now
  <2>3. mainStatus # "login" => Word(r, K, now)
    BY <1>1, <1>2, <2>1, <2>2, WordTaken
  <2>4. QED
    BY <2>3 DEF K, now
<1>16. QED
  BY <1>2, <1>7, <1>8, <1>9, <1>11, <1>12, <1>13, <1>14, <1>15 DEF Word, WireSettled, Clean, Not, Quieting

(* Every step of the window and of the main process keeps the invariant.    *)
THEOREM ViewInvariance == ViewInit /\ [][ViewNext]_viewVars => []ViewInv
<1>1. ViewInv /\ [ViewNext]_viewVars => ViewInv'
  <2> SUFFICES ASSUME ViewInv, [ViewNext]_viewVars PROVE ViewInv'
    OBVIOUS
  <2> USE DEF ViewInv, ViewTypes
  <2>1. CASE Deliver
    BY <2>1, DeliverStep
  <2>2. CASE AgentRevealed \/ \E c \in DOMAIN calls : Revealed(c)
    BY <2>2, RevealedSteps
  <2>3. CASE AgentOpens
    BY <2>3, AgentOpensStep
  <2>4. ASSUME NEW ok \in BOOLEAN, LoginEnds(ok)
        PROVE  ViewInv'
    BY <2>4, LoginEndsStep
  <2>5. ASSUME NEW c \in DOMAIN calls, Refused(c) \/ OrphanTold(c)
        PROVE  ViewInv'
    BY <2>5, CallAnswered DEF Refused, OrphanTold
  <2>6. ASSUME NEW byTool \in BOOLEAN, GuiConnect(byTool)
        PROVE  ViewInv'
    BY <2>6, GuiConnectStep
  <2>7. CASE GuiDisconnect
    <3>1. GoneAnswer \in Message /\ GoneAnswer.kind = "gone" /\ GoneAnswer.value = "disconnected"
      BY DEF GoneAnswer, Message, ViewValues
    <3>2. QED
      BY <2>7, <3>1, DisconnectedStep DEF GuiDisconnect
  <2>8. CASE AgentDisconnect
    <3>1. /\ AgentSays("disconnected") \in Message /\ AgentSays("disconnected").kind = "agent"
          /\ AgentSays("disconnected").value = "disconnected"
      BY DEF AgentSays, Message, ViewValues
    <3>2. QED
      BY <2>8, <3>1, DisconnectedStep DEF AgentDisconnect
  <2>9. CASE ConnectionLost
    BY <2>9, StatusStep DEF ConnectionLost
  <2>10. CASE AgentConnect
    BY <2>10, SilentStep DEF AgentConnect
  <2>11. CASE UNCHANGED viewVars
    BY <2>11, SilentStep DEF viewVars
  <2>12. QED
    BY <2>1, <2>2, <2>3, <2>4, <2>5, <2>6, <2>7, <2>8, <2>9, <2>10, <2>11 DEF ViewNext, ViewProgress
<1>2. QED
  BY <1>1, ViewStarts, PTL

(* However answers, events and the agent overtake each other, a connection  *)
(* at rest is shown as connected only if it is there, as nothing that goes  *)
(* on for ever, and as left alone after it was given up (useFtpStore.ts).   *)
THEOREM ConnectionsAreShown == ViewInit /\ [][ViewNext]_viewVars => []ViewSafe
<1>1. ViewInv => ViewSafe
  <2> SUFFICES ASSUME ViewInv PROVE ViewSafe
    OBVIOUS
  <2> USE DEF ViewInv, ViewTypes
  <2>1. \A c \in DOMAIN calls : calls[c] \in CallRecord
    BY LenProperties, ElementOfSeq
  <2>2. ViewTypeOK
    BY <2>1 DEF ViewTypeOK, ViewValues, CallRecord, Awaited
  <2>3. ASSUME Quiet PROVE ~WireSettled(wire, Not("connected")) /\ ~WireSettled(wire, Not("connecting"))
                           /\ ~WireSettled(wire, Not("disconnected")) /\ ~WireSettled(wire, Quieting)
                           /\ \A c : ~Awaited(c)
    <3>1. Len(wire) = 0
      BY <2>3, EmptySeq DEF Quiet
    <3>2. QED
      BY <2>3, <3>1 DEF WireSettled, Awaited, Quiet
  <2>4. ShownIsThere /\ ThereIsShown /\ ToolFree /\ GivenUpQuietly
    BY <2>3 DEF ShownIsThere, ThereIsShown, ToolFree, GivenUpQuietly, Word, Quiet, ViewValues
  <2>5. QED
    BY <2>2, <2>4 DEF ViewSafe
<1>2. QED
  BY <1>1, ViewInvariance, PTL

-----------------------------------------------------------------------------
(* Sequences of tabs (TabLayout): where a tab stands, and what comes of a    *)
(* sequence when one is put in, taken out or swapped.                       *)

(* Where x stands in a sequence without repetitions.                        *)
TabPlace(t, x) == CHOOSE i \in DOMAIN t : t[i] = x

LEMMA TabPlaceFacts ==
  ASSUME NEW T, NEW t \in Seq(T), Once(t), NEW x \in InSeq(t)
  PROVE  /\ TabPlace(t, x) \in 1..Len(t) /\ t[TabPlace(t, x)] = x
         /\ \A i \in 1..Len(t) : t[i] = x => i = TabPlace(t, x)
<1>1. DOMAIN t = 1..Len(t)
  BY LenProperties
<1>2. \E i \in DOMAIN t : t[i] = x
  BY <1>1 DEF InSeq
<1>3. TabPlace(t, x) \in DOMAIN t /\ t[TabPlace(t, x)] = x
  BY <1>2, Zenon DEF TabPlace
<1> QED BY <1>1, <1>3 DEF Once

LEMMA WithoutFacts ==
  ASSUME NEW T, NEW t \in Seq(T), Once(t), NEW i \in 1..Len(t)
  PROVE  /\ WithoutAt(t, i) \in Seq(T) /\ Len(WithoutAt(t, i)) = Len(t) - 1
         /\ \A k \in 1..(Len(t) - 1) : WithoutAt(t, i)[k] = t[IF k < i THEN k ELSE k + 1]
         /\ Once(WithoutAt(t, i)) /\ InSeq(WithoutAt(t, i)) = InSeq(t) \ {t[i]}
<1> DEFINE w == WithoutAt(t, i)
           n == Len(t)
<1>1. n \in Nat /\ n >= 1 /\ \A k \in 1..n : t[k] \in T
  BY LenProperties, ElementOfSeq
<1>2. /\ w = [k \in 1..(n - 1) |-> w[k]]
      /\ \A k \in 1..(n - 1) : w[k] = t[IF k < i THEN k ELSE k + 1]
  BY DEF WithoutAt
<1> HIDE DEF w, n
<1>3. w \in [1..(n - 1) -> T]
  BY <1>1, <1>2
<1>4. w \in Seq(T) /\ Len(w) = n - 1
  <2>1. w \in Seq(T)
    BY <1>1, <1>3, SeqDef
  <2>2. DOMAIN w = 1..(n - 1)
    BY <1>3
  <2> QED BY <1>1, <2>1, <2>2, LenProperties
<1>5. Once(w)
  BY <1>1, <1>2, <1>4 DEF Once, n
<1>6. InSeq(w) = InSeq(t) \ {t[i]}
  <2>1. ASSUME NEW x \in InSeq(w) PROVE x \in InSeq(t) \ {t[i]}
    <3>1. PICK k \in 1..(n - 1) : x = w[k]
      BY <1>4, <2>1 DEF InSeq
    <3>2. PICK j \in 1..n : x = t[j] /\ j # i
      BY <1>1, <1>2, <3>1
    <3> QED BY <3>2 DEF InSeq, Once, n
  <2>2. ASSUME NEW x \in InSeq(t), x # t[i] PROVE x \in InSeq(w)
    <3>1. PICK j \in 1..n : x = t[j] /\ j # i
      BY <2>2 DEF InSeq, n
    <3>2. CASE j < i
      <4>1. j \in 1..(n - 1) /\ w[j] = x
        BY <1>1, <1>2, <3>1, <3>2 DEF n
      <4> QED BY <1>4, <4>1 DEF InSeq
    <3>3. CASE j > i
      <4>1. j - 1 \in 1..(n - 1) /\ w[j - 1] = x
        BY <1>1, <1>2, <3>1, <3>3 DEF n
      <4> QED BY <1>4, <4>1 DEF InSeq
    <3> QED BY <1>1, <3>1, <3>2, <3>3 DEF n
  <2> QED BY <2>1, <2>2
<1> QED BY <1>2, <1>4, <1>5, <1>6 DEF w, n

LEMMA PutFacts ==
  ASSUME NEW T, NEW t \in Seq(T), Once(t), NEW at \in 1..(Len(t) + 1), NEW u \in Seq(T), Once(u), InSeq(t) \cap InSeq(u) = {}
  PROVE  /\ PutAt(t, at, u) \in Seq(T) /\ Len(PutAt(t, at, u)) = Len(t) + Len(u)
         /\ \A k \in 1..(Len(t) + Len(u)) :
              PutAt(t, at, u)[k] = IF k < at THEN t[k] ELSE IF k < at + Len(u) THEN u[k - at + 1] ELSE t[k - Len(u)]
         /\ Once(PutAt(t, at, u)) /\ InSeq(PutAt(t, at, u)) = InSeq(t) \cup InSeq(u)
<1> DEFINE n == Len(t)
           a == SubSeq(t, 1, at - 1)
           b == SubSeq(t, at, n)
           r == PutAt(t, at, u)
<1>1. n \in Nat /\ Len(u) \in Nat
  BY LenProperties
<1>2. /\ a \in Seq(T) /\ Once(a) /\ b \in Seq(T) /\ Once(b)
      /\ InSeq(t) = InSeq(a) \cup InSeq(b) /\ InSeq(a) \cap InSeq(b) = {}
  <2> DEFINE m == at - 1
  <2>1. m \in 0..Len(t) /\ m + 1 = at
    BY <1>1
  <2> HIDE DEF m
  <2>2. /\ SubSeq(t, 1, m) \in Seq(T) /\ Once(SubSeq(t, 1, m))
        /\ SubSeq(t, m + 1, Len(t)) \in Seq(T) /\ Once(SubSeq(t, m + 1, Len(t)))
        /\ InSeq(t) = InSeq(SubSeq(t, 1, m)) \cup InSeq(SubSeq(t, m + 1, Len(t)))
        /\ InSeq(SubSeq(t, 1, m)) \cap InSeq(SubSeq(t, m + 1, Len(t))) = {}
    BY <2>1, CutFacts
  <2> QED BY <2>1, <2>2 DEF m
<1>3. /\ Len(a) = at - 1 /\ \A k \in 1..(at - 1) : a[k] = t[k]
      /\ Len(b) = n - at + 1 /\ \A k \in 1..(n - at + 1) : b[k] = t[at + k - 1]
  BY <1>1, SubSeqProperties
<1>4. r = (a \o u) \o b
  BY DEF PutAt
<1> HIDE DEF a, b, r, n
<1>5. /\ a \o u \in Seq(T) /\ Once(a \o u) /\ InSeq(a \o u) = InSeq(a) \cup InSeq(u)
      /\ Len(a \o u) = Len(a) + Len(u)
      /\ \A k \in 1..(Len(a) + Len(u)) : (a \o u)[k] = IF k <= Len(a) THEN a[k] ELSE u[k - Len(a)]
  <2>1. InSeq(a) \cap InSeq(u) = {}
    BY <1>2
  <2> QED BY <1>2, <2>1, ConcatFacts, ConcatProperties
<1> DEFINE c == a \o u
<1> HIDE DEF c
<1>6. /\ r \in Seq(T) /\ Once(r) /\ InSeq(r) = InSeq(c) \cup InSeq(b)
      /\ Len(r) = Len(c) + Len(b)
      /\ \A k \in 1..(Len(c) + Len(b)) : r[k] = IF k <= Len(c) THEN c[k] ELSE b[k - Len(c)]
  <2>1. InSeq(c) \cap InSeq(b) = {} /\ c \in Seq(T) /\ Once(c)
    BY <1>2, <1>5 DEF c
  <2>2. r = c \o b
    BY <1>4 DEF c
  <2>3. /\ c \o b \in Seq(T) /\ Once(c \o b) /\ InSeq(c \o b) = InSeq(c) \cup InSeq(b)
    BY <1>2, <2>1, ConcatFacts
  <2>4. /\ Len(c \o b) = Len(c) + Len(b)
        /\ \A k \in 1..(Len(c) + Len(b)) : (c \o b)[k] = IF k <= Len(c) THEN c[k] ELSE b[k - Len(c)]
    BY <1>2, <2>1, ConcatProperties
  <2> QED BY <2>2, <2>3, <2>4
<1>7. InSeq(r) = InSeq(t) \cup InSeq(u)
  BY <1>2, <1>5, <1>6 DEF c
<1>8. Len(c) = at - 1 + Len(u) /\ Len(r) = n + Len(u)
  BY <1>1, <1>3, <1>5, <1>6 DEF c, n
<1>9. ASSUME NEW k \in 1..(n + Len(u))
      PROVE  r[k] = IF k < at THEN t[k] ELSE IF k < at + Len(u) THEN u[k - at + 1] ELSE t[k - Len(u)]
  <2>0. at \in 1..(n + 1) /\ k \in 1..(Len(c) + Len(b))
    BY <1>1, <1>3, <1>6, <1>8 DEF n
  <2>1. CASE k < at
    <3>1. r[k] = c[k] /\ k \in 1..(Len(a) + Len(u)) /\ k <= Len(a)
      BY <1>1, <1>3, <1>6, <1>8, <2>0, <2>1
    <3>2. c[k] = a[k] /\ a[k] = t[k]
      BY <1>1, <1>3, <1>5, <2>0, <2>1, <3>1 DEF c
    <3> QED BY <2>1, <3>1, <3>2
  <2>2. CASE k >= at /\ k < at + Len(u)
    <3>1. r[k] = c[k] /\ k \in 1..(Len(a) + Len(u)) /\ ~(k <= Len(a))
      BY <1>1, <1>3, <1>6, <1>8, <2>0, <2>2
    <3>2. c[k] = u[k - Len(a)] /\ k - Len(a) = k - at + 1
      BY <1>1, <1>3, <1>5, <2>0, <3>1 DEF c
    <3> QED BY <2>0, <2>2, <3>1, <3>2
  <2>3. CASE k >= at + Len(u)
    <3>1. r[k] = b[k - Len(c)]
      BY <1>1, <1>6, <1>8, <2>0, <2>3
    <3> DEFINE j == k - Len(c)
    <3>2. j \in 1..(n - at + 1) /\ at + j - 1 = k - Len(u)
      BY <1>1, <1>8, <2>0, <2>3
    <3> HIDE DEF j
    <3>3. b[j] = t[at + j - 1]
      BY <1>3, <3>2
    <3>4. b[j] = t[k - Len(u)]
      BY <3>2, <3>3
    <3>5. r[k] = t[k - Len(u)]
      BY <3>1, <3>4 DEF j
    <3>6. ~(k < at) /\ ~(k < at + Len(u))
      BY <1>1, <2>0, <2>3
    <3> QED BY <3>5, <3>6
  <2> QED BY <1>1, <2>0, <2>1, <2>2, <2>3
<1> QED BY <1>6, <1>7, <1>8, <1>9 DEF r, n

LEMMA SwapFacts ==
  ASSUME NEW T, NEW t \in Seq(T), Once(t), NEW a \in InSeq(t), NEW b \in InSeq(t)
  PROVE  /\ SwapIn(t, a, b) \in Seq(T) /\ Len(SwapIn(t, a, b)) = Len(t)
         /\ \A k \in 1..Len(t) : SwapIn(t, a, b)[k] = IF t[k] = a THEN b ELSE IF t[k] = b THEN a ELSE t[k]
         /\ Once(SwapIn(t, a, b)) /\ InSeq(SwapIn(t, a, b)) = InSeq(t)
<1> DEFINE w == SwapIn(t, a, b)
           n == Len(t)
<1>1. n \in Nat /\ (\A k \in 1..n : t[k] \in T) /\ DOMAIN t = 1..n
  BY LenProperties, ElementOfSeq
<1>2. a \in T /\ b \in T
  BY <1>1 DEF InSeq
<1>3. /\ w = [k \in 1..n |-> w[k]]
      /\ \A k \in 1..n : w[k] = IF t[k] = a THEN b ELSE IF t[k] = b THEN a ELSE t[k]
  <2>1. w = [i \in 1..n |-> CASE t[i] = a -> b [] t[i] = b -> a [] OTHER -> t[i]]
    BY <1>1 DEF SwapIn
  <2>2. w = [k \in 1..n |-> w[k]]
    BY <2>1
  <2>3. ASSUME NEW k \in 1..n PROVE w[k] = IF t[k] = a THEN b ELSE IF t[k] = b THEN a ELSE t[k]
    <3>1. w[k] = CASE t[k] = a -> b [] t[k] = b -> a [] OTHER -> t[k]
      BY <2>1
    <3> HIDE DEF w
    <3>2. CASE a = b
      BY <3>1, <3>2
    <3>3. CASE a # b
      BY <3>1, <3>3
    <3> QED BY <3>2, <3>3
  <2> QED BY <2>2, <2>3
<1> HIDE DEF w, n
<1>4. w \in [1..n -> T]
  BY <1>1, <1>2, <1>3
<1>5. w \in Seq(T) /\ Len(w) = n
  <2>1. w \in Seq(T)
    BY <1>1, <1>4, SeqDef
  <2>2. DOMAIN w = 1..n
    BY <1>4
  <2> QED BY <1>1, <2>1, <2>2, LenProperties
<1>6. Once(w)
  BY <1>3, <1>5 DEF Once, n
<1>7. InSeq(w) = InSeq(t)
  <2>1. PICK i \in 1..n : t[i] = a
    BY DEF InSeq, n
  <2>2. PICK k \in 1..n : t[k] = b
    BY DEF InSeq, n
  <2>3. ASSUME NEW x \in InSeq(w) PROVE x \in InSeq(t)
    BY <1>3, <1>5, <2>3 DEF InSeq, n
  <2>4. ASSUME NEW x \in InSeq(t) PROVE x \in InSeq(w)
    <3>1. PICK j \in 1..n : t[j] = x
      BY DEF InSeq, n
    <3>2. \E m \in 1..n : w[m] = x
      BY <1>3, <2>1, <2>2, <3>1
    <3> QED BY <1>5, <3>2 DEF InSeq
  <2> QED BY <2>3, <2>4
<1> QED BY <1>3, <1>5, <1>6, <1>7 DEF w, n

(* Two that stand side by side and stay, stand side by side.                *)
SideBySide(t, x, y) == \E m \in 1..(Len(t) - 1) : t[m] = x /\ t[m + 1] = y

LEMMA OnlyAdjacent ==
  ASSUME NEW T, NEW t \in Seq(T), NEW S, NEW x \in S, NEW y \in S, SideBySide(t, x, y)
  PROVE  SideBySide(Only(t, S), x, y)
<1> DEFINE K == {i \in 1..Len(t) : t[i] \in S}
           N == Cardinality(K)
           r == Only(t, S)
<1>1. r = Picked(t, K) /\ Len(t) \in Nat
  BY LenProperties DEF Only
<1>0. PICK p \in 1..(Len(t) - 1) : t[p] = x /\ t[p + 1] = y
  BY DEF SideBySide
<1>2. p \in K /\ p + 1 \in K /\ K \in SUBSET (1..Len(t))
  BY <1>0, <1>1
<1> HIDE DEF K, r
<1>3. PICK at \in [1..N -> K] :
              /\ \A i \in K : \E n \in 1..N : at[n] = i
              /\ \A m, n \in 1..N : m < n => at[m] < at[n]
              /\ \A n \in 1..N : Picked(t, K)[n] = t[at[n]]
  BY <1>2, PickedFacts
<1>4. N \in Nat /\ Len(r) = N
  BY <1>1, <1>2, PickedFacts
<1> HIDE DEF N
<1>5. PICK m \in 1..N : at[m] = p
  BY <1>2, <1>3
<1>6. PICK n \in 1..N : at[n] = p + 1
  BY <1>2, <1>3
<1>7. m < n
  BY <1>3, <1>4, <1>5, <1>6
<1>8. ~(m + 1 < n)
  <2> SUFFICES ASSUME m + 1 < n PROVE FALSE
    OBVIOUS
  <2>1. m + 1 \in 1..N /\ at[m] < at[m + 1] /\ at[m + 1] < at[n]
    BY <1>3, <1>4
  <2>2. at[m + 1] \in Int
    <3>1. at[m + 1] \in K
      BY <1>3, <2>1
    <3>2. \A k \in K : k \in Int
      BY <1>1, <1>2
    <3> QED BY <3>1, <3>2
  <2> QED BY <1>5, <1>6, <2>1, <2>2
<1>9. n = m + 1 /\ m \in 1..(N - 1)
  BY <1>4, <1>7, <1>8
<1>10. r[m] = x /\ r[m + 1] = y
  BY <1>0, <1>1, <1>3, <1>4, <1>5, <1>6, <1>9
<1> QED BY <1>4, <1>9, <1>10 DEF r, SideBySide

-----------------------------------------------------------------------------
(* Layouts (TabLayout).                                                    *)
Ids == Nat \ {0}
Splits == [left : Nat, right : Nat]
Layout(t, a, sp, v) == [tabs |-> t, active |-> a, split |-> sp, srv |-> v]
Layouts == [tabs : Seq(Ids), active : Nat, split : Splits, srv : Seq(Nat)]

(* The two of a pair stand side by side.                                    *)
PairIn(t, sp) == sp # NoSplit => \E p \in 1..(Len(t) - 1) : t[p] = sp.left /\ t[p + 1] = sp.right

Good(t, a, sp, v) ==
  /\ t \in Seq(Ids) /\ a \in Nat /\ sp \in Splits /\ v \in Seq(Nat)
  /\ Once(t) /\ a \in InSeq(t) /\ (\A x \in InSeq(t) : x <= Len(v))
  /\ PairIn(t, sp)
LayoutFine(s) == s \in Layouts /\ Good(s.tabs, s.active, s.split, s.srv)

LEMMA LayoutParts ==
  ASSUME NEW t, NEW a, NEW sp, NEW v, Good(t, a, sp, v)
  PROVE  /\ LayoutFine(Layout(t, a, sp, v))
         /\ Layout(t, a, sp, v).tabs = t /\ Layout(t, a, sp, v).active = a
         /\ Layout(t, a, sp, v).split = sp /\ Layout(t, a, sp, v).srv = v
<1> DEFINE s == Layout(t, a, sp, v)
<1>0. t \in Seq(Ids) /\ a \in Nat /\ sp \in Splits /\ v \in Seq(Nat)
  BY DEF Good
<1>1. s \in Layouts
  BY <1>0 DEF Layouts, Layout
<1>2. s.tabs = t /\ s.active = a /\ s.split = sp /\ s.srv = v
  BY DEF Layout
<1> HIDE DEF s
<1>3. Good(s.tabs, s.active, s.split, s.srv)
  BY <1>2, Zenon
<1>4. LayoutFine(s)
  BY <1>1, <1>3, Zenon DEF LayoutFine
<1> QED BY <1>2, <1>4, Zenon DEF s

LEMMA LayoutIs ==
  ASSUME NEW s \in Layouts
  PROVE  /\ s = Layout(s.tabs, s.active, s.split, s.srv)
         /\ s.tabs \in Seq(Ids) /\ s.active \in Nat /\ s.split \in Splits /\ s.srv \in Seq(Nat)
BY DEF Layouts, Layout

TabsSplitActive(s, t, sp, a) == [s EXCEPT !.tabs = t, !.split = sp, !.active = a]
TabsActiveSplit(s, t, a, sp) == [s EXCEPT !.tabs = t, !.active = a, !.split = sp]
TabsSrvActive(s, t, v, a) == [s EXCEPT !.tabs = t, !.srv = v, !.active = a]
TabsSplit(s, t, sp) == [s EXCEPT !.tabs = t, !.split = sp]

LEMMA ChangedIs ==
  ASSUME NEW s \in Layouts, NEW x
  PROVE  /\ [s EXCEPT !.tabs = x] = Layout(x, s.active, s.split, s.srv)
         /\ [s EXCEPT !.active = x] = Layout(s.tabs, x, s.split, s.srv)
         /\ [s EXCEPT !.split = x] = Layout(s.tabs, s.active, x, s.srv)
<1>1. [s EXCEPT !.tabs = x] = Layout(x, s.active, s.split, s.srv)
  BY DEF Layouts, Layout
<1>2. [s EXCEPT !.active = x] = Layout(s.tabs, x, s.split, s.srv)
  BY DEF Layouts, Layout
<1>3. [s EXCEPT !.split = x] = Layout(s.tabs, s.active, x, s.srv)
  BY DEF Layouts, Layout
<1> QED BY <1>1, <1>2, <1>3, Zenon

LEMMA TabsSplitIs ==
  ASSUME NEW s \in Layouts, NEW t, NEW sp
  PROVE  TabsSplit(s, t, sp) = Layout(t, s.active, sp, s.srv)
<1> DEFINE r == [s EXCEPT !.tabs = t]
<1>1. r = Layout(t, s.active, s.split, s.srv)
  BY DEF Layouts, Layout
<1>2. TabsSplit(s, t, sp) = [r EXCEPT !.split = sp]
  BY DEF TabsSplit
<1> HIDE DEF r
<1>3. [Layout(t, s.active, s.split, s.srv) EXCEPT !.split = sp] = Layout(t, s.active, sp, s.srv)
  BY DEF Layout
<1> QED BY <1>1, <1>2, <1>3, Zenon

LEMMA TabsSplitActiveIs ==
  ASSUME NEW s \in Layouts, NEW t, NEW sp, NEW a
  PROVE  TabsSplitActive(s, t, sp, a) = Layout(t, a, sp, s.srv)
<1> DEFINE r == TabsSplit(s, t, sp)
<1>1. r = Layout(t, s.active, sp, s.srv)
  BY TabsSplitIs
<1>2. TabsSplitActive(s, t, sp, a) = [r EXCEPT !.active = a]
  BY DEF TabsSplit, TabsSplitActive
<1> HIDE DEF r
<1>3. [Layout(t, s.active, sp, s.srv) EXCEPT !.active = a] = Layout(t, a, sp, s.srv)
  BY DEF Layout
<1> QED BY <1>1, <1>2, <1>3, Zenon

LEMMA TabsActiveSplitIs ==
  ASSUME NEW s \in Layouts, NEW t, NEW a, NEW sp
  PROVE  TabsActiveSplit(s, t, a, sp) = Layout(t, a, sp, s.srv)
<1> DEFINE r == [s EXCEPT !.tabs = t]
           q == [r EXCEPT !.active = a]
<1>1. r = Layout(t, s.active, s.split, s.srv)
  BY DEF Layouts, Layout
<1>2. TabsActiveSplit(s, t, a, sp) = [q EXCEPT !.split = sp]
  BY DEF TabsActiveSplit
<1> HIDE DEF r
<1>3. [Layout(t, s.active, s.split, s.srv) EXCEPT !.active = a] = Layout(t, a, s.split, s.srv)
  BY DEF Layout
<1>4. q = Layout(t, a, s.split, s.srv)
  BY <1>1, <1>3, Zenon
<1> HIDE DEF q
<1>5. [Layout(t, a, s.split, s.srv) EXCEPT !.split = sp] = Layout(t, a, sp, s.srv)
  BY DEF Layout
<1> QED BY <1>2, <1>4, <1>5, Zenon

LEMMA TabsSrvActiveIs ==
  ASSUME NEW s \in Layouts, NEW t, NEW v, NEW a
  PROVE  TabsSrvActive(s, t, v, a) = Layout(t, a, s.split, v)
<1> DEFINE r == [s EXCEPT !.tabs = t]
           q == [r EXCEPT !.srv = v]
<1>1. r = Layout(t, s.active, s.split, s.srv)
  BY DEF Layouts, Layout
<1>2. TabsSrvActive(s, t, v, a) = [q EXCEPT !.active = a]
  BY DEF TabsSrvActive
<1> HIDE DEF r
<1>3. [Layout(t, s.active, s.split, s.srv) EXCEPT !.srv = v] = Layout(t, s.active, s.split, v)
  BY DEF Layout
<1>4. q = Layout(t, s.active, s.split, v)
  BY <1>1, <1>3, Zenon
<1> HIDE DEF q
<1>5. [Layout(t, s.active, s.split, v) EXCEPT !.active = a] = Layout(t, a, s.split, v)
  BY DEF Layout
<1> QED BY <1>2, <1>4, <1>5, Zenon

(* What LayoutFine gives.                                                   *)
LEMMA FineFacts ==
  ASSUME NEW s, LayoutFine(s)
  PROVE  /\ s \in Layouts /\ Good(s.tabs, s.active, s.split, s.srv)
         /\ s = Layout(s.tabs, s.active, s.split, s.srv)
         /\ s.tabs \in Seq(Ids) /\ s.active \in Nat /\ s.split \in Splits /\ s.srv \in Seq(Nat)
         /\ Once(s.tabs) /\ s.active \in InSeq(s.tabs) /\ (\A x \in InSeq(s.tabs) : x <= Len(s.srv) /\ x \in Ids)
         /\ Len(s.tabs) \in Nat /\ Len(s.tabs) >= 1 /\ DOMAIN s.tabs = 1..Len(s.tabs) /\ Len(s.srv) \in Nat
         /\ PairIn(s.tabs, s.split)
         /\ \A id : Has(s, id) <=> id \in InSeq(s.tabs)
<1>1. s \in Layouts /\ Good(s.tabs, s.active, s.split, s.srv)
  BY DEF LayoutFine
<1>2. s = Layout(s.tabs, s.active, s.split, s.srv)
  BY <1>1, LayoutIs
<1> DEFINE t == s.tabs
           v == s.srv
           a == s.active
           sp == s.split
<1>3. \A id : Has(s, id) <=> \E i \in 1..Len(t) : t[i] = id
  BY DEF Has, Contains
<1>4. Good(t, a, sp, v)
  BY <1>1
<1> HIDE DEF t, v, a, sp
<1>5. t \in Seq(Ids) /\ v \in Seq(Nat) /\ sp \in Splits /\ a \in Nat /\ Once(t) /\ a \in InSeq(t) /\ PairIn(t, sp)
  BY <1>4 DEF Good
<1>6. Len(t) \in Nat /\ DOMAIN t = 1..Len(t) /\ Len(v) \in Nat /\ InSeq(t) \subseteq Ids
  BY <1>5, LenProperties, InSeqFacts
<1>7. Len(t) >= 1
  BY <1>5, <1>6 DEF InSeq
<1>8. \A x \in InSeq(t) : x <= Len(v) /\ x \in Ids
  BY <1>4, <1>6 DEF Good
<1>9. \A id : Has(s, id) <=> id \in InSeq(t)
  BY <1>3 DEF InSeq
<1> QED BY <1>1, <1>2, <1>5, <1>6, <1>7, <1>8, <1>9, Zenon DEF t, v, a, sp

(* The halves of a pair.                                                    *)
LEMMA PairFacts ==
  ASSUME NEW T, NEW t \in Seq(T), Once(t), NEW sp \in Splits, PairIn(t, sp), sp # NoSplit
  PROVE  sp.left \in InSeq(t) /\ sp.right \in InSeq(t) /\ sp.left # sp.right
<1>1. Len(t) \in Nat
  BY LenProperties
<1>2. PICK p \in 1..(Len(t) - 1) : t[p] = sp.left /\ t[p + 1] = sp.right
  BY DEF PairIn
<1>3. p \in 1..Len(t) /\ p + 1 \in 1..Len(t) /\ p # p + 1
  BY <1>1
<1> QED BY <1>2, <1>3 DEF InSeq, Once

LEMMA FineSound ==
  ASSUME NEW s, LayoutFine(s)
  PROVE  LayoutSound(s) /\ s.split \in [left : Nat, right : Nat] /\ ToSet(s.tabs) \subseteq DOMAIN s.srv
<1>1. IsInjective(s.tabs)
  <2> DEFINE t == s.tabs
  <2>1. Once(t) /\ DOMAIN t = 1..Len(t)
    BY FineFacts
  <2> HIDE DEF t
  <2>2. IsInjective(t)
    BY <2>1 DEF IsInjective, Once
  <2> QED BY <2>2 DEF t
<1>2. ActiveListed(s)
  <2>1. s.tabs # <<>>
    BY FineFacts, EmptySeq
  <2> QED BY <2>1, FineFacts DEF ActiveListed
<1>3. PairTogether(s)
  <2> SUFFICES ASSUME s.split # NoSplit
               PROVE  /\ Has(s, s.split.left) /\ Has(s, s.split.right)
                      /\ Place(s, s.split.right) = Place(s, s.split.left) + 1
    BY DEF PairTogether
  <2> DEFINE t == s.tabs
             sp == s.split
  <2>1. t \in Seq(Ids) /\ Once(t) /\ sp \in Splits /\ PairIn(t, sp) /\ Len(t) \in Nat /\ sp # NoSplit
    BY FineFacts
  <2>2. Place(s, sp.left) = TabPlace(t, sp.left) /\ Place(s, sp.right) = TabPlace(t, sp.right)
    BY Zenon DEF Place, TabPlace
  <2>6. \A id : Has(s, id) <=> id \in InSeq(t)
    BY FineFacts
  <2> HIDE DEF t, sp
  <2>3. sp.left \in InSeq(t) /\ sp.right \in InSeq(t)
    BY <2>1, PairFacts
  <2>4. PICK p \in 1..(Len(t) - 1) : t[p] = sp.left /\ t[p + 1] = sp.right
    BY <2>1 DEF PairIn
  <2>7. p \in 1..Len(t) /\ p + 1 \in 1..Len(t)
    BY <2>1
  <2>5. TabPlace(t, sp.left) = p /\ TabPlace(t, sp.right) = p + 1
    BY <2>1, <2>3, <2>4, <2>7, TabPlaceFacts
  <2> QED BY <2>2, <2>3, <2>5, <2>6 DEF t, sp
<1>4. ToSet(s.tabs) \subseteq DOMAIN s.srv
  <2> DEFINE t == s.tabs
             v == s.srv
  <2>1. /\ v \in Seq(Nat) /\ Len(v) \in Nat /\ DOMAIN t = 1..Len(t)
        /\ \A x \in InSeq(t) : x <= Len(v) /\ x \in Ids
    BY FineFacts
  <2>2. ToSet(t) = InSeq(t)
    BY <2>1 DEF ToSet, InSeq
  <2> HIDE DEF t, v
  <2>3. DOMAIN v = 1..Len(v)
    BY <2>1, LenProperties
  <2>4. \A x \in InSeq(t) : x \in 1..Len(v)
    BY <2>1 DEF Ids
  <2>5. ToSet(t) \subseteq DOMAIN v
    BY <2>2, <2>3, <2>4
  <2> QED BY <2>5 DEF t, v
<1> QED BY <1>1, <1>2, <1>3, <1>4, FineFacts DEF LayoutSound, Splits

-----------------------------------------------------------------------------
(* Every operation on the tabs gives a layout of the same kind.             *)
LEMMA FineChange ==
  ASSUME NEW s, LayoutFine(s), NEW t, NEW a, NEW sp,
         t \in Seq(Ids), Once(t), InSeq(t) \subseteq InSeq(s.tabs), a \in InSeq(t), sp \in Splits, PairIn(t, sp)
  PROVE  /\ LayoutFine(Layout(t, a, sp, s.srv))
         /\ Layout(t, a, sp, s.srv).tabs = t /\ Layout(t, a, sp, s.srv).active = a
         /\ Layout(t, a, sp, s.srv).split = sp /\ Layout(t, a, sp, s.srv).srv = s.srv
<1> DEFINE v == s.srv
<1>1. v \in Seq(Nat) /\ \A x \in InSeq(s.tabs) : x <= Len(v) /\ x \in Ids
  BY FineFacts
<1> HIDE DEF v
<1>2. a \in Nat /\ \A x \in InSeq(t) : x <= Len(v)
  BY <1>1 DEF Ids
<1>3. Good(t, a, sp, v)
  BY <1>1, <1>2, Zenon DEF Good
<1> QED BY <1>3, LayoutParts DEF v

LEMMA ActivatedFine ==
  ASSUME NEW s, LayoutFine(s), NEW id \in InSeq(s.tabs)
  PROVE  /\ LayoutFine(Activated(s, id)) /\ Activated(s, id).tabs = s.tabs /\ Activated(s, id).active = id
         /\ Activated(s, id).split = s.split /\ Activated(s, id).srv = s.srv
<1>1. Activated(s, id) = Layout(s.tabs, id, s.split, s.srv)
  BY FineFacts, ChangedIs DEF Activated
<1>2. s.tabs \in Seq(Ids) /\ Once(s.tabs) /\ s.split \in Splits /\ PairIn(s.tabs, s.split)
  BY FineFacts
<1> QED BY <1>1, <1>2, FineChange

LEMMA UnsplitFine ==
  ASSUME NEW s, LayoutFine(s)
  PROVE  LayoutFine(Unsplit(s))
<1>1. Unsplit(s) = Layout(s.tabs, s.active, NoSplit, s.srv)
  BY FineFacts, ChangedIs DEF Unsplit
<1>2. s.tabs \in Seq(Ids) /\ Once(s.tabs) /\ s.active \in InSeq(s.tabs)
  BY FineFacts
<1>3. NoSplit \in Splits /\ PairIn(s.tabs, NoSplit)
  BY DEF NoSplit, Splits, PairIn
<1> QED BY <1>1, <1>2, <1>3, FineChange

LEMMA OpenedFine ==
  ASSUME NEW s, LayoutFine(s), NEW server \in Nat, NEW activate \in BOOLEAN
  PROVE  LET o == Opened(s, server, activate) IN
         /\ LayoutFine(o) /\ o.tabs = Append(s.tabs, NextId(s)) /\ o.srv = Append(s.srv, server)
         /\ o.active = (IF activate THEN NextId(s) ELSE s.active) /\ o.split = s.split
         /\ NextId(s) \in Ids /\ NextId(s) \notin InSeq(s.tabs) /\ o.srv[NextId(s)] = server
<1> DEFINE o == Opened(s, server, activate)
           n == NextId(s)
           t == s.tabs
           v == s.srv
           sp == s.split
           b == IF activate THEN n ELSE s.active
           t1 == Append(t, n)
           v1 == Append(v, server)
<1>1. /\ t \in Seq(Ids) /\ Once(t) /\ sp \in Splits /\ v \in Seq(Nat) /\ PairIn(t, sp) /\ s.active \in InSeq(t)
      /\ (\A x \in InSeq(t) : x <= Len(v) /\ x \in Ids) /\ Len(v) \in Nat /\ Len(t) \in Nat /\ s.active \in Ids
  BY FineFacts
<1>2. o = Layout(t1, b, sp, v1)
  <2>1. o = [s EXCEPT !.tabs = Append(s.tabs, n), !.srv = Append(s.srv, server),
                      !.active = IF activate \/ s.active = 0 THEN n ELSE s.active]
    BY DEF Opened
  <2>2. (IF activate \/ s.active = 0 THEN n ELSE s.active) = b
    BY <1>1 DEF Ids
  <2> HIDE DEF b, n
  <2>3. o = [s EXCEPT !.tabs = t1, !.srv = v1, !.active = b]
    BY <2>1, <2>2, Zenon
  <2>4. s \in Layouts
    BY FineFacts
  <2>5. TabsSrvActive(s, t1, v1, b) = Layout(t1, b, s.split, v1)
    BY <2>4, TabsSrvActiveIs
  <2> QED BY <2>3, <2>5, Zenon DEF TabsSrvActive
<1>3. n = Len(v) + 1
  BY DEF NextId
<1> HIDE DEF o, n, t, v, sp
<1>4. n \in Ids /\ n \notin InSeq(t)
  BY <1>1, <1>3 DEF Ids
<1>5. /\ t1 \in Seq(Ids) /\ Once(t1) /\ InSeq(t1) = InSeq(t) \cup {n}
      /\ Len(t1) = Len(t) + 1 /\ \A k \in 1..Len(t) : t1[k] = t[k]
  BY <1>1, <1>4, AppendFacts, AppendProperties
<1>6. v1 \in Seq(Nat) /\ Len(v1) = Len(v) + 1 /\ v1[n] = server
  BY <1>1, <1>3, AppendProperties
<1>7. b \in InSeq(t1) /\ b \in Nat
  BY <1>1, <1>4, <1>5 DEF Ids, t
<1> HIDE DEF b, t1, v1
<1>8. \A x \in InSeq(t1) : x <= Len(v1)
  BY <1>1, <1>3, <1>4, <1>5, <1>6 DEF Ids
<1>9. PairIn(t1, sp)
  <2> SUFFICES ASSUME sp # NoSplit PROVE \E p \in 1..(Len(t1) - 1) : t1[p] = sp.left /\ t1[p + 1] = sp.right
    BY DEF PairIn
  <2>1. PICK p \in 1..(Len(t) - 1) : t[p] = sp.left /\ t[p + 1] = sp.right
    BY <1>1 DEF PairIn
  <2>2. p \in 1..Len(t) /\ p + 1 \in 1..Len(t) /\ p \in 1..(Len(t1) - 1)
    BY <1>1, <1>5
  <2> QED BY <1>5, <2>1, <2>2
<1>10. Good(t1, b, sp, v1)
  BY <1>1, <1>5, <1>6, <1>7, <1>8, <1>9, Zenon DEF Good
<1>11. LayoutFine(o) /\ o.tabs = t1 /\ o.active = b /\ o.split = sp /\ o.srv = v1
  BY <1>2, <1>10, LayoutParts
<1> QED BY <1>4, <1>6, <1>11, Zenon DEF o, n, t, v, sp, b, t1, v1

LEMMA CycledFine ==
  ASSUME NEW s, LayoutFine(s), NEW forward \in BOOLEAN
  PROVE  LayoutFine(Cycled(s, forward))
<1> DEFINE t == s.tabs
           n == Len(t)
           i == Place(s, s.active) - 1
           k == ((IF forward THEN i + 1 ELSE i + n - 1) % n) + 1
<1>1. t \in Seq(Ids) /\ Once(t) /\ s.active \in InSeq(t) /\ n \in Nat /\ n >= 1 /\ t # <<>>
  BY FineFacts, EmptySeq
<1>2. Cycled(s, forward) = Activated(s, t[k])
  BY <1>1 DEF Cycled
<1>3. Place(s, s.active) \in 1..n
  <2>1. TabPlace(t, s.active) \in 1..n
    BY <1>1, TabPlaceFacts
  <2> QED BY <2>1, Zenon DEF Place, TabPlace
<1> HIDE DEF n
<1>4. i \in 0..(n - 1)
  BY <1>1, <1>3
<1> HIDE DEF i
<1>5. (i + 1) % n \in 0..(n - 1) /\ (i + n - 1) % n \in 0..(n - 1)
  <2>1. i + 1 \in Int /\ i + n - 1 \in Int /\ n \in Int /\ n > 0
    BY <1>1, <1>4
  <2> QED BY <1>1, <2>1
<1>6. k \in 1..n
  BY <1>1, <1>5
<1> HIDE DEF k
<1>7. t[k] \in InSeq(s.tabs)
  BY <1>6 DEF InSeq, n
<1> QED BY <1>2, <1>7, ActivatedFine

LEMMA PairWithout ==
  ASSUME NEW T, NEW t \in Seq(T), Once(t), NEW sp, PairIn(t, sp), NEW i \in 1..Len(t), t[i] # sp.left, t[i] # sp.right
  PROVE  PairIn(WithoutAt(t, i), sp)
<1> DEFINE w == WithoutAt(t, i)
<1> SUFFICES ASSUME sp # NoSplit PROVE \E p \in 1..(Len(w) - 1) : w[p] = sp.left /\ w[p + 1] = sp.right
  BY DEF PairIn
<1>1. PICK p \in 1..(Len(t) - 1) : t[p] = sp.left /\ t[p + 1] = sp.right
  BY DEF PairIn
<1>2. Len(t) \in Nat /\ i # p /\ i # p + 1
  BY <1>1, LenProperties
<1>3. Len(w) = Len(t) - 1 /\ \A k \in 1..(Len(t) - 1) : w[k] = t[IF k < i THEN k ELSE k + 1]
  BY WithoutFacts
<1> HIDE DEF w
<1>4. CASE i < p
  <2>1. p - 1 \in 1..(Len(w) - 1) /\ w[p - 1] = t[p] /\ w[p] = t[p + 1] /\ (p - 1) + 1 = p
    BY <1>1, <1>2, <1>3, <1>4
  <2> QED BY <1>1, <2>1
<1>5. CASE i > p
  <2>1. p \in 1..(Len(w) - 1) /\ w[p] = t[p] /\ w[p + 1] = t[p + 1]
    BY <1>1, <1>2, <1>3, <1>5
  <2> QED BY <1>1, <2>1
<1> QED BY <1>1, <1>2, <1>4, <1>5

LEMMA PlaceIsIn ==
  ASSUME NEW s, LayoutFine(s), NEW id \in InSeq(s.tabs)
  PROVE  /\ Place(s, id) \in 1..Len(s.tabs) /\ s.tabs[Place(s, id)] = id
         /\ \A i \in 1..Len(s.tabs) : s.tabs[i] = id => i = Place(s, id)
<1> DEFINE t == s.tabs
<1>1. t \in Seq(Ids) /\ Once(t) /\ id \in InSeq(t)
  BY FineFacts
<1>2. Place(s, id) = TabPlace(t, id)
  BY Zenon DEF Place, TabPlace
<1> HIDE DEF t
<1>3. /\ TabPlace(t, id) \in 1..Len(t) /\ t[TabPlace(t, id)] = id
      /\ \A i \in 1..Len(t) : t[i] = id => i = TabPlace(t, id)
  BY <1>1, TabPlaceFacts
<1> QED BY <1>2, <1>3, Zenon DEF t

LEMMA ClosedFine ==
  ASSUME NEW s, LayoutFine(s), NEW id
  PROVE  LET c == Closed(s, id) IN
         /\ LayoutFine(c) /\ c.srv = s.srv
         /\ (Len(s.tabs) <= 1 \/ id \notin InSeq(s.tabs)) => c = s
         /\ (Len(s.tabs) > 1 /\ id \in InSeq(s.tabs)) =>
              /\ c.tabs = WithoutAt(s.tabs, Place(s, id)) /\ InSeq(c.tabs) = InSeq(s.tabs) \ {id}
              /\ (s.active # id => c.active = s.active)
              /\ (s.active = id /\ IsHalf(s, id) => c.active = OtherHalf(s, id))
              /\ c.split = IF IsHalf(s, id) THEN NoSplit ELSE s.split
<1> DEFINE c == Closed(s, id)
           t == s.tabs
           sp == s.split
<1>1. /\ t \in Seq(Ids) /\ Once(t) /\ s.active \in InSeq(t) /\ Len(t) \in Nat /\ sp \in Splits /\ PairIn(t, sp)
      /\ (Has(s, id) <=> id \in InSeq(t)) /\ s \in Layouts
  BY FineFacts
<1>2. CASE Len(t) <= 1 \/ id \notin InSeq(t)
  <2>1. c = s
    BY <1>1, <1>2 DEF Closed
  <2> QED BY <1>1, <1>2, <2>1
<1>3. CASE Len(t) > 1 /\ id \in InSeq(t)
  <2> DEFINE i == Place(s, id)
             rest == WithoutAt(t, i)
             next == rest[IF i <= Len(rest) THEN i ELSE Len(rest)]
             act == IF s.active # id THEN s.active ELSE IF IsHalf(s, id) THEN OtherHalf(s, id) ELSE next
             split == IF IsHalf(s, id) THEN NoSplit ELSE sp
  <2>1. c = Layout(rest, act, split, s.srv)
    <3>1. ~(Len(s.tabs) <= 1 \/ ~Has(s, id))
      BY <1>1, <1>3
    <3>2. c = [s EXCEPT !.tabs = rest, !.active = act, !.split = split]
      BY <3>1, Zenon DEF Closed, PairAfter
    <3> HIDE DEF rest, act, split
    <3>3. TabsActiveSplit(s, rest, act, split) = Layout(rest, act, split, s.srv)
      BY <1>1, TabsActiveSplitIs
    <3> QED BY <3>2, <3>3, Zenon DEF TabsActiveSplit
  <2>2. i \in 1..Len(t) /\ t[i] = id
    BY <1>1, <1>3, PlaceIsIn
  <2> HIDE DEF i
  <2>3. /\ rest \in Seq(Ids) /\ Len(rest) = Len(t) - 1 /\ Once(rest) /\ InSeq(rest) = InSeq(t) \ {id}
    BY <1>1, <2>2, WithoutFacts
  <2>4. IsHalf(s, id) <=> sp # NoSplit /\ (id = sp.left \/ id = sp.right)
    BY DEF IsHalf, Halves
  <2>5. PairIn(rest, split) /\ split \in Splits
    <3>1. CASE IsHalf(s, id)
      BY <3>1 DEF PairIn, NoSplit, Splits
    <3>2. CASE ~IsHalf(s, id)
      <4>1. CASE sp = NoSplit
        BY <1>1, <3>2, <4>1 DEF PairIn
      <4>2. CASE sp # NoSplit
        <5>1. t[i] # sp.left /\ t[i] # sp.right
          BY <2>2, <2>4, <3>2, <4>2
        <5>2. PairIn(WithoutAt(t, i), sp)
          BY <1>1, <2>2, <5>1, PairWithout
        <5> QED BY <1>1, <3>2, <5>2
      <4> QED BY <4>1, <4>2
    <3> QED BY <3>1, <3>2
  <2>6. IsHalf(s, id) => OtherHalf(s, id) \in InSeq(rest)
    <3> SUFFICES ASSUME IsHalf(s, id) PROVE OtherHalf(s, id) \in InSeq(rest)
      OBVIOUS
    <3>1. sp # NoSplit
      BY <2>4
    <3>2. sp.left \in InSeq(t) /\ sp.right \in InSeq(t) /\ sp.left # sp.right
      BY <1>1, <3>1, PairFacts
    <3>3. OtherHalf(s, id) = IF id = sp.left THEN sp.right ELSE sp.left
      BY DEF OtherHalf
    <3> QED BY <2>3, <2>4, <3>2, <3>3
  <2>7. next \in InSeq(rest)
    <3> HIDE DEF rest
    <3>1. (IF i <= Len(rest) THEN i ELSE Len(rest)) \in 1..Len(rest)
      BY <1>1, <1>3, <2>2, <2>3
    <3> QED BY <3>1 DEF InSeq
  <2>8. act \in InSeq(rest)
    BY <1>1, <2>3, <2>6, <2>7
  <2>9. InSeq(rest) \subseteq InSeq(t)
    BY <2>3
  <2> HIDE DEF rest, act, split
  <2>10. LayoutFine(c) /\ c.tabs = rest /\ c.active = act /\ c.split = split /\ c.srv = s.srv
    BY <2>1, <2>3, <2>5, <2>8, <2>9, FineChange
  <2>11. c.tabs = WithoutAt(s.tabs, Place(s, id)) /\ InSeq(c.tabs) = InSeq(s.tabs) \ {id}
    BY <2>3, <2>10, Zenon DEF rest, i
  <2>12. /\ s.active # id => c.active = s.active
         /\ s.active = id /\ IsHalf(s, id) => c.active = OtherHalf(s, id)
    BY <2>10, Zenon DEF act
  <2>13. c.split = IF IsHalf(s, id) THEN NoSplit ELSE s.split
    BY <2>10, Zenon DEF split
  <2>14. ~(Len(s.tabs) <= 1 \/ id \notin InSeq(s.tabs))
    BY <1>1, <1>3
  <2> QED BY <1>3, <2>10, <2>11, <2>12, <2>13, <2>14, Zenon
<1> QED BY <1>1, <1>2, <1>3

LEMMA SwappedFine ==
  ASSUME NEW s, LayoutFine(s)
  PROVE  LET r == Swapped(s) IN
         /\ LayoutFine(r) /\ r.srv = s.srv /\ r.active = s.active /\ InSeq(r.tabs) = InSeq(s.tabs)
         /\ s.split = NoSplit => r = s
         /\ s.split # NoSplit => /\ r.tabs = SwapIn(s.tabs, s.split.left, s.split.right)
                                 /\ r.split = [left |-> s.split.right, right |-> s.split.left]
<1> DEFINE r == Swapped(s)
           t == s.tabs
           sp == s.split
<1>1. /\ t \in Seq(Ids) /\ Once(t) /\ s.active \in InSeq(t) /\ Len(t) \in Nat /\ sp \in Splits /\ PairIn(t, sp)
      /\ s \in Layouts
  BY FineFacts
<1>2. CASE sp = NoSplit
  <2>1. r = s
    BY <1>2 DEF Swapped
  <2> QED BY <1>2, <2>1
<1>3. CASE sp # NoSplit
  <2> DEFINE t1 == SwapIn(t, sp.left, sp.right)
             sp1 == [left |-> sp.right, right |-> sp.left]
  <2>1. r = TabsSplit(s, t1, sp1)
    BY <1>3, Zenon DEF Swapped, TabsSplit
  <2>2. r = Layout(t1, s.active, sp1, s.srv)
    BY <1>1, <2>1, TabsSplitIs, Zenon
  <2>3. sp.left \in InSeq(t) /\ sp.right \in InSeq(t) /\ sp.left # sp.right
    BY <1>1, <1>3, PairFacts
  <2>4. /\ t1 \in Seq(Ids) /\ Len(t1) = Len(t) /\ Once(t1) /\ InSeq(t1) = InSeq(t)
        /\ \A k \in 1..Len(t) : t1[k] = IF t[k] = sp.left THEN sp.right ELSE IF t[k] = sp.right THEN sp.left ELSE t[k]
    <3> HIDE DEF t, sp
    <3>1. t \in Seq(Ids) /\ Once(t)
      BY <1>1
    <3> DEFINE l == sp.left
               q == sp.right
    <3>2. l \in InSeq(t) /\ q \in InSeq(t)
      BY <2>3
    <3> HIDE DEF l, q
    <3>3. /\ SwapIn(t, l, q) \in Seq(Ids) /\ Len(SwapIn(t, l, q)) = Len(t) /\ Once(SwapIn(t, l, q))
          /\ InSeq(SwapIn(t, l, q)) = InSeq(t)
          /\ \A k \in 1..Len(t) : SwapIn(t, l, q)[k] = IF t[k] = l THEN q ELSE IF t[k] = q THEN l ELSE t[k]
      BY <3>1, <3>2, SwapFacts
    <3> QED BY <3>3, Zenon DEF l, q
  <2>5. sp1 \in Splits /\ sp1.left = sp.right /\ sp1.right = sp.left
    BY <1>1 DEF Splits
  <2> HIDE DEF t1, sp1
  <2>6. PairIn(t1, sp1)
    <3>1. PICK p \in 1..(Len(t) - 1) : t[p] = sp.left /\ t[p + 1] = sp.right
      BY <1>1, <1>3 DEF PairIn
    <3>2. p \in 1..Len(t) /\ p + 1 \in 1..Len(t)
      BY <1>1
    <3>3. t1[p] = sp1.left /\ t1[p + 1] = sp1.right /\ p \in 1..(Len(t1) - 1)
      BY <1>1, <2>3, <2>4, <2>5, <3>1, <3>2
    <3> QED BY <3>3 DEF PairIn
  <2>7. LayoutFine(r) /\ r.tabs = t1 /\ r.active = s.active /\ r.split = sp1 /\ r.srv = s.srv
    BY <1>1, <2>2, <2>4, <2>5, <2>6, FineChange
  <2> QED BY <1>3, <2>4, <2>7, Zenon DEF t1, sp1
<1> QED BY <1>2, <1>3, Zenon

(* The half in a pane and the other one.                                    *)
LEMMA HalvesAre ==
  ASSUME NEW s, LayoutFine(s), s.split # NoSplit, NEW half \in Panes
  PROVE  /\ HalfIn(s, half) \in InSeq(s.tabs) /\ OtherHalf(s, HalfIn(s, half)) = HalfIn(s, OtherPane(half))
         /\ HalfIn(s, OtherPane(half)) \in InSeq(s.tabs) /\ HalfIn(s, half) # HalfIn(s, OtherPane(half))
         /\ s.split = PairOf(half, HalfIn(s, half), HalfIn(s, OtherPane(half)))
         /\ \A id : IsHalf(s, id) <=> (id = HalfIn(s, half) \/ id = HalfIn(s, OtherPane(half)))
<1> DEFINE t == s.tabs
           sp == s.split
<1>1. t \in Seq(Ids) /\ Once(t) /\ sp \in Splits /\ PairIn(t, sp) /\ sp # NoSplit
  BY FineFacts
<1>2. sp.left \in InSeq(t) /\ sp.right \in InSeq(t) /\ sp.left # sp.right
  BY <1>1, PairFacts
<1>3. sp = [left |-> sp.left, right |-> sp.right]
  BY <1>1 DEF Splits
<1>4. half = "left" \/ half = "right"
  BY DEF Panes
<1> HIDE DEF t, sp
<1>5. CASE half = "left"
  <2>1. HalfIn(s, half) = sp.left /\ HalfIn(s, OtherPane(half)) = sp.right
    BY <1>5 DEF HalfIn, OtherPane, sp
  <2>2. OtherHalf(s, sp.left) = sp.right
    BY DEF OtherHalf, sp
  <2>3. PairOf(half, sp.left, sp.right) = sp
    BY <1>3, <1>5 DEF PairOf
  <2>4. \A id : IsHalf(s, id) <=> (id = sp.left \/ id = sp.right)
    BY <1>1 DEF IsHalf, Halves, sp
  <2> QED BY <1>2, <2>1, <2>2, <2>3, <2>4, Zenon DEF sp, t
<1>6. CASE half = "right"
  <2>1. HalfIn(s, half) = sp.right /\ HalfIn(s, OtherPane(half)) = sp.left
    BY <1>6 DEF HalfIn, OtherPane, sp
  <2>2. OtherHalf(s, sp.right) = sp.left
    BY <1>2 DEF OtherHalf, sp
  <2>3. PairOf(half, sp.right, sp.left) = sp
    BY <1>3, <1>6 DEF PairOf
  <2>4. \A id : IsHalf(s, id) <=> (id = sp.right \/ id = sp.left)
    BY <1>1 DEF IsHalf, Halves, sp
  <2> QED BY <1>2, <2>1, <2>2, <2>3, <2>4, Zenon DEF sp, t
<1> QED BY <1>4, <1>5, <1>6

LEMMA PairOfIs ==
  ASSUME NEW half \in Panes, NEW a \in Ids, NEW b \in Ids
  PROVE  /\ PairOf(half, a, b) \in Splits /\ PairOf(half, a, b) # NoSplit
         /\ (IF half = "left" THEN PairOf(half, a, b).left ELSE PairOf(half, a, b).right) = a
         /\ (IF half = "left" THEN PairOf(half, a, b).right ELSE PairOf(half, a, b).left) = b
<1>1. a \in Nat /\ b \in Nat /\ a # 0 /\ b # 0
  BY DEF Ids
<1>2. CASE half = "left"
  <2>1. PairOf(half, a, b) = [left |-> a, right |-> b]
    BY <1>2 DEF PairOf
  <2>2. [left |-> a, right |-> b] \in Splits /\ [left |-> a, right |-> b] # NoSplit
    <3>1. [left |-> a, right |-> b].left # NoSplit.left
      BY <1>1 DEF NoSplit
    <3> QED BY <1>1, <3>1 DEF Splits
  <2> QED BY <1>2, <2>1, <2>2
<1>3. CASE half # "left"
  <2>1. PairOf(half, a, b) = [left |-> b, right |-> a]
    BY <1>3 DEF PairOf
  <2>2. [left |-> b, right |-> a] \in Splits /\ [left |-> b, right |-> a] # NoSplit
    <3>1. [left |-> b, right |-> a].left # NoSplit.left
      BY <1>1 DEF NoSplit
    <3> QED BY <1>1, <3>1 DEF Splits
  <2> QED BY <1>3, <2>1, <2>2
<1> QED BY <1>2, <1>3

(* The tab that is dropped on the half of a shown pair takes over its place. *)
LEMMA TakesOver ==
  ASSUME NEW s, LayoutFine(s), s.split # NoSplit, NEW half \in Panes,
         NEW id \in InSeq(s.tabs), ~IsHalf(s, id)
  PROVE  LET here == HalfIn(s, half)
             r == TabsSplitActive(s, SwapIn(s.tabs, here, id), PairOf(half, id, OtherHalf(s, here)), id)
         IN  /\ LayoutFine(r) /\ r.srv = s.srv /\ r.active = id /\ r.tabs = SwapIn(s.tabs, here, id)
             /\ InSeq(r.tabs) = InSeq(s.tabs)
             /\ r.split = PairOf(half, id, HalfIn(s, OtherPane(half))) /\ r.split # NoSplit
             /\ HalfIn(r, half) = id /\ HalfIn(r, OtherPane(half)) = HalfIn(s, OtherPane(half))
<1> DEFINE t == s.tabs
           sp == s.split
           here == HalfIn(s, half)
           other == HalfIn(s, OtherPane(half))
           sp1 == PairOf(half, id, other)
           t1 == SwapIn(t, here, id)
           r == TabsSplitActive(s, t1, PairOf(half, id, OtherHalf(s, here)), id)
<1>1. /\ t \in Seq(Ids) /\ Once(t) /\ Len(t) \in Nat /\ sp \in Splits /\ PairIn(t, sp) /\ s \in Layouts
      /\ id \in Ids /\ \A x \in InSeq(t) : x \in Ids
  BY FineFacts
<1>2. /\ here \in InSeq(t) /\ other \in InSeq(t) /\ here # other /\ OtherHalf(s, here) = other
      /\ sp = PairOf(half, here, other) /\ id # here /\ id # other
  BY HalvesAre
<1>3. sp \in Splits /\ here \in Ids /\ other \in Ids
  BY <1>1, <1>2
<1>4. r = Layout(t1, id, sp1, s.srv)
  <2> HIDE DEF t1
  <2>1. TabsSplitActive(s, t1, sp1, id) = Layout(t1, id, sp1, s.srv)
    BY <1>1, TabsSplitActiveIs
  <2> QED BY <1>2, <2>1
<1>5. t \in Seq(Ids) /\ Once(t) /\ here \in InSeq(t) /\ id \in InSeq(t) /\ sp # NoSplit
  BY <1>1, <1>2
<1> HIDE DEF t, sp, here, other, r
<1>6. /\ t1 \in Seq(Ids) /\ Len(t1) = Len(t) /\ Once(t1) /\ InSeq(t1) = InSeq(t)
      /\ \A k \in 1..Len(t) : t1[k] = IF t[k] = here THEN id ELSE IF t[k] = id THEN here ELSE t[k]
  BY <1>5, SwapFacts
<1> HIDE DEF t1
<1>7. /\ sp1 \in Splits /\ sp1 # NoSplit
      /\ (IF half = "left" THEN sp1.left ELSE sp1.right) = id
      /\ (IF half = "left" THEN sp1.right ELSE sp1.left) = other
  BY <1>1, <1>3, PairOfIs
<1>8. /\ (IF half = "left" THEN sp.left ELSE sp.right) = here
      /\ (IF half = "left" THEN sp.right ELSE sp.left) = other
  BY <1>2, <1>3, PairOfIs
<1> HIDE DEF sp1
<1>9. PairIn(t1, sp1)
  <2>1. PICK p \in 1..(Len(t) - 1) : t[p] = sp.left /\ t[p + 1] = sp.right
    BY <1>1, <1>5 DEF PairIn
  <2>2. p \in 1..Len(t) /\ p + 1 \in 1..Len(t)
    BY <1>1
  <2>3. t1[p] = sp1.left /\ t1[p + 1] = sp1.right
    <3>1. CASE half = "left"
      BY <1>2, <1>6, <1>7, <1>8, <2>1, <2>2, <3>1
    <3>2. CASE half # "left"
      BY <1>2, <1>6, <1>7, <1>8, <2>1, <2>2, <3>2
    <3> QED BY <3>1, <3>2
  <2> QED BY <1>6, <2>1, <2>3 DEF PairIn
<1>10. /\ LayoutFine(r) /\ r.tabs = t1 /\ r.active = id /\ r.split = sp1 /\ r.srv = s.srv
  <2>1. InSeq(t1) \subseteq InSeq(s.tabs) /\ id \in InSeq(t1)
    BY <1>6 DEF t
  <2> QED BY <1>4, <1>6, <1>7, <1>9, <2>1, FineChange
<1>11. HalfIn(r, half) = id /\ HalfIn(r, OtherPane(half)) = other
  <2>1. HalfIn(r, half) = IF half = "left" THEN sp1.left ELSE sp1.right
    BY <1>10 DEF HalfIn
  <2>2. HalfIn(r, OtherPane(half)) = IF half = "left" THEN sp1.right ELSE sp1.left
    BY <1>10 DEF HalfIn, OtherPane
  <2> QED BY <1>7, <2>1, <2>2
<1>12. InSeq(r.tabs) = InSeq(s.tabs) /\ r.split # NoSplit
  BY <1>6, <1>7, <1>10, Zenon DEF t
<1> QED BY <1>10, <1>11, <1>12, Zenon DEF r, t1, t, here, sp1, other

LEMMA PlacedInPairFine ==
  ASSUME NEW s, LayoutFine(s), s.split # NoSplit, NEW half \in Panes, NEW id \in InSeq(s.tabs)
  PROVE  LET r == PlacedInPair(s, id, half)
         IN  /\ LayoutFine(r) /\ r.srv = s.srv /\ InSeq(r.tabs) = InSeq(s.tabs)
             /\ HalfIn(s, half) = id => r = s
             /\ HalfIn(s, half) # id =>
                  /\ r.active = id /\ r.split # NoSplit /\ HalfIn(r, half) = id
                  /\ HalfIn(r, OtherPane(half)) =
                       IF IsHalf(s, id) THEN HalfIn(s, half) ELSE HalfIn(s, OtherPane(half))
             /\ ~IsHalf(s, id) => /\ r.split = PairOf(half, id, HalfIn(s, OtherPane(half)))
                                  /\ r.tabs = SwapIn(s.tabs, HalfIn(s, half), id)
<1> DEFINE r == PlacedInPair(s, id, half)
           here == HalfIn(s, half)
           other == HalfIn(s, OtherPane(half))
<1>1. /\ here # other /\ (IsHalf(s, id) <=> (id = here \/ id = other))
  BY HalvesAre
<1>2. CASE id = here
  <2>1. r = s
    BY <1>2 DEF PlacedInPair
  <2> QED BY <1>1, <1>2, <2>1
<1>3. CASE id # here /\ IsHalf(s, id)
  <2> DEFINE w == Swapped(s)
  <2>1. r = Activated(w, id) /\ id = other
    BY <1>1, <1>3, Zenon DEF PlacedInPair
  <2>2. /\ LayoutFine(w) /\ w.srv = s.srv /\ InSeq(w.tabs) = InSeq(s.tabs)
        /\ w.split = [left |-> s.split.right, right |-> s.split.left]
    BY SwappedFine
  <2> HIDE DEF w
  <2>3. id \in InSeq(w.tabs)
    BY <2>2
  <2>4. /\ LayoutFine(r) /\ r.tabs = w.tabs /\ r.active = id /\ r.split = w.split /\ r.srv = w.srv
    BY <2>1, <2>2, <2>3, ActivatedFine
  <2>5. w.split.left = s.split.right /\ w.split.right = s.split.left
    BY <2>2
  <2>6. HalfIn(r, half) = other /\ HalfIn(r, OtherPane(half)) = here
    BY <2>4, <2>5 DEF HalfIn, OtherPane, Panes
  <2>7. r.split # NoSplit
    <3>1. s.split # NoSplit /\ s.split \in Splits
      BY FineFacts
    <3>2. r.split = [left |-> s.split.right, right |-> s.split.left]
      BY <2>2, <2>4
    <3>3. s.split.left # s.split.right
      BY FineFacts, PairFacts
    <3> QED BY <3>2, <3>3 DEF NoSplit
  <2>8. InSeq(r.tabs) = InSeq(s.tabs) /\ r.srv = s.srv
    BY <2>2, <2>4, Zenon
  <2>9. HalfIn(r, OtherPane(half)) = IF IsHalf(s, id) THEN here ELSE other
    <3> HIDE DEF r, here, other
    <3> QED BY <1>3, <2>6
  <2>10. HalfIn(r, half) = id
    BY <2>1, <2>6, Zenon
  <2>11. r.active = id /\ ~(here = id)
    BY <1>3, <2>4, Zenon
  <2> QED BY <1>3, <2>4, <2>7, <2>8, <2>9, <2>10, <2>11, Zenon
<1>4. CASE id # here /\ ~IsHalf(s, id)
  <2>1. r = TabsSplitActive(s, SwapIn(s.tabs, here, id), PairOf(half, id, OtherHalf(s, here)), id)
    BY <1>4, Zenon DEF PlacedInPair, TabsSplitActive
  <2>2. /\ LayoutFine(r) /\ r.srv = s.srv /\ r.active = id /\ r.tabs = SwapIn(s.tabs, here, id)
        /\ InSeq(r.tabs) = InSeq(s.tabs)
        /\ r.split = PairOf(half, id, other) /\ r.split # NoSplit
        /\ HalfIn(r, half) = id /\ HalfIn(r, OtherPane(half)) = other
    <3> DEFINE q == TabsSplitActive(s, SwapIn(s.tabs, here, id), PairOf(half, id, OtherHalf(s, here)), id)
    <3>1. /\ LayoutFine(q) /\ q.srv = s.srv /\ q.active = id /\ q.tabs = SwapIn(s.tabs, here, id)
          /\ InSeq(q.tabs) = InSeq(s.tabs)
          /\ q.split = PairOf(half, id, other) /\ q.split # NoSplit
          /\ HalfIn(q, half) = id /\ HalfIn(q, OtherPane(half)) = other
      BY <1>4, TakesOver
    <3>2. r = q
      BY <2>1
    <3> HIDE DEF q, r
    <3> QED BY <3>1, <3>2
  <2> QED BY <1>4, <2>2, Zenon
<1> QED BY <1>2, <1>3, <1>4

LEMMA PartnerIs ==
  ASSUME NEW s, LayoutFine(s), Len(s.tabs) >= 2, NEW id \in InSeq(s.tabs)
  PROVE  Partner(s, id) \in InSeq(s.tabs) /\ Partner(s, id) # id /\ (id # s.active => Partner(s, id) = s.active)
<1> DEFINE t == s.tabs
           i == Place(s, id)
<1>1. t \in Seq(Ids) /\ Once(t) /\ Len(t) \in Nat /\ Len(t) >= 2 /\ s.active \in InSeq(t)
  BY FineFacts
<1>2. i \in 1..Len(t) /\ t[i] = id
  BY PlaceIsIn
<1>3. CASE id # s.active
  BY <1>1, <1>3 DEF Partner
<1>4. CASE id = s.active
  <2>1. Partner(s, id) = IF i < Len(t) THEN t[i + 1] ELSE t[i - 1]
    BY <1>4 DEF Partner
  <2> HIDE DEF i, t
  <2>2. CASE i < Len(t)
    <3>1. i + 1 \in 1..Len(t) /\ Partner(s, id) = t[i + 1]
      BY <1>1, <1>2, <2>1, <2>2
    <3>2. t[i + 1] # id
      BY <1>1, <1>2, <3>1 DEF Once
    <3> QED BY <1>4, <3>1, <3>2 DEF InSeq, t
  <2>3. CASE ~(i < Len(t))
    <3>1. i - 1 \in 1..Len(t) /\ Partner(s, id) = t[i - 1]
      BY <1>1, <1>2, <2>1, <2>3
    <3>2. t[i - 1] # id
      BY <1>1, <1>2, <3>1 DEF Once
    <3> QED BY <1>4, <3>1, <3>2 DEF InSeq, t
  <2> QED BY <2>2, <2>3
<1> QED BY <1>3, <1>4

(* The tabs of r are those of s but for the place of one.                   *)
StandsAnew(s, r, id) == \E at \in 1..Len(s.tabs) : r.tabs = PutAt(WithoutAt(s.tabs, Place(s, id)), at, <<id>>)

LEMMA PlacedBesideFine ==
  ASSUME NEW s, LayoutFine(s), Len(s.tabs) >= 2, NEW half \in Panes, NEW id \in InSeq(s.tabs)
  PROVE  LET r == PlacedBeside(s, id, half)
         IN  /\ LayoutFine(r) /\ r.srv = s.srv /\ InSeq(r.tabs) = InSeq(s.tabs) /\ Len(r.tabs) = Len(s.tabs)
             /\ r.active = id /\ r.split # NoSplit
             /\ HalfIn(r, half) = id /\ HalfIn(r, OtherPane(half)) = Partner(s, id)
             /\ StandsAnew(s, r, id)
<1> DEFINE r == PlacedBeside(s, id, half)
           t == s.tabs
           partner == Partner(s, id)
           w == WithoutAt(t, Place(s, id))
           q == TabPlace(w, partner)
           at == q + (IF half = "right" THEN 1 ELSE 0)
           t1 == PutAt(w, at, <<id>>)
           sp1 == PairOf(half, id, partner)
<1>1. /\ t \in Seq(Ids) /\ Once(t) /\ Len(t) \in Nat /\ Len(t) >= 2 /\ s \in Layouts
      /\ id \in Ids /\ \A x \in InSeq(t) : x \in Ids
  BY FineFacts
<1>2. partner \in InSeq(t) /\ partner # id
  BY PartnerIs
<1>3. Place(s, id) \in 1..Len(t) /\ t[Place(s, id)] = id
  BY PlaceIsIn
<1>4. r = Layout(t1, id, sp1, s.srv)
  <2> DEFINE s1 == [s EXCEPT !.tabs = w]
             at1 == Place(s1, partner) + (IF half = "right" THEN 1 ELSE 0)
  <2>1. r = TabsSplitActive(s, PutAt(w, at1, <<id>>), sp1, id)
    BY Zenon DEF PlacedBeside, TabsSplitActive
  <2>2. at1 = at
    <3>1. s1.tabs = w
      BY <1>1 DEF Layouts
    <3> HIDE DEF s1, w, partner
    <3>2. Place(s1, partner) = TabPlace(w, partner)
      BY <3>1, Zenon DEF Place, TabPlace
    <3> QED BY <3>2
  <2> HIDE DEF at1, at
  <2>3. r = TabsSplitActive(s, t1, sp1, id)
    BY <2>1, <2>2
  <2> HIDE DEF t1, r, sp1
  <2> QED BY <1>1, <2>3, TabsSplitActiveIs
<1> HIDE DEF t, partner, r
<1>5. w \in Seq(Ids) /\ Len(w) = Len(t) - 1 /\ Once(w) /\ InSeq(w) = InSeq(t) \ {id}
  BY <1>1, <1>3, WithoutFacts
<1> HIDE DEF w
<1>6. partner \in InSeq(w) /\ id \notin InSeq(w)
  BY <1>2, <1>5
<1>7. q \in 1..Len(w) /\ w[q] = partner
  BY <1>5, <1>6, TabPlaceFacts
<1> HIDE DEF q
<1>8. at \in 1..(Len(w) + 1) /\ at \in 1..Len(t)
  BY <1>1, <1>5, <1>7
<1> DEFINE u == <<id>>
<1>9. u \in Seq(Ids) /\ Len(u) = 1 /\ u[1] = id /\ Once(u) /\ InSeq(u) = {id} /\ InSeq(w) \cap InSeq(u) = {}
  <2>1. u \in Seq(Ids) /\ Once(u) /\ InSeq(u) = {id}
    BY <1>1, SingleFacts
  <2> QED BY <1>6, <2>1
<1> HIDE DEF u
<1>10. /\ t1 \in Seq(Ids) /\ Len(t1) = Len(t) /\ Once(t1) /\ InSeq(t1) = InSeq(t)
       /\ \A k \in 1..Len(t) : t1[k] = IF k < at THEN w[k] ELSE IF k < at + 1 THEN u[k - at + 1] ELSE w[k - 1]
  <2> HIDE DEF at
  <2>1. t1 = PutAt(w, at, u)
    BY DEF u
  <2> HIDE DEF t1
  <2>2. /\ PutAt(w, at, u) \in Seq(Ids) /\ Len(PutAt(w, at, u)) = Len(w) + Len(u)
        /\ \A k \in 1..(Len(w) + Len(u)) :
              PutAt(w, at, u)[k] = IF k < at THEN w[k] ELSE IF k < at + Len(u) THEN u[k - at + 1] ELSE w[k - Len(u)]
        /\ Once(PutAt(w, at, u)) /\ InSeq(PutAt(w, at, u)) = InSeq(w) \cup InSeq(u)
    <3>1. /\ w \in Seq(Ids) /\ Once(w) /\ at \in 1..(Len(w) + 1)
          /\ u \in Seq(Ids) /\ Once(u) /\ InSeq(w) \cap InSeq(u) = {}
      BY <1>5, <1>8, <1>9
    <3> QED BY <3>1, PutFacts
  <2>3. Len(w) + Len(u) = Len(t) /\ InSeq(w) \cup InSeq(u) = InSeq(t)
    <3>1. id \in InSeq(t)
      BY DEF t
    <3> QED BY <1>1, <1>5, <1>9, <3>1
  <2> QED BY <1>9, <2>1, <2>2, <2>3
<1>11. \E k \in 1..Len(s.tabs) : t1 = PutAt(WithoutAt(s.tabs, Place(s, id)), k, <<id>>)
  <2> HIDE DEF at
  <2> QED BY <1>8, Zenon DEF t, w
<1> HIDE DEF t1
<1>12. /\ sp1 \in Splits /\ sp1 # NoSplit
       /\ (IF half = "left" THEN sp1.left ELSE sp1.right) = id
       /\ (IF half = "left" THEN sp1.right ELSE sp1.left) = partner
  BY <1>1, <1>2, PairOfIs
<1> HIDE DEF sp1
<1>13. PairIn(t1, sp1)
  <2>1. CASE half = "left"
    <3>1. at = q /\ q \in 1..(Len(t1) - 1) /\ q + 1 \in 1..Len(t)
      BY <1>1, <1>5, <1>7, <1>10, <2>1
    <3>2. t1[q] = u[1] /\ t1[q + 1] = w[q]
      BY <1>1, <1>7, <1>10, <3>1
    <3> QED BY <1>7, <1>9, <1>12, <2>1, <3>1, <3>2 DEF PairIn
  <2>2. CASE half = "right"
    <3>1. at = q + 1 /\ q \in 1..(Len(t1) - 1) /\ q \in 1..Len(t) /\ q + 1 \in 1..Len(t)
      BY <1>1, <1>5, <1>7, <1>10, <2>2
    <3>2. t1[q] = w[q] /\ t1[q + 1] = u[1]
      BY <1>1, <1>7, <1>10, <3>1
    <3> QED BY <1>7, <1>9, <1>12, <2>2, <3>1, <3>2 DEF PairIn
  <2> QED BY <2>1, <2>2 DEF Panes
<1>14. /\ LayoutFine(r) /\ r.tabs = t1 /\ r.active = id /\ r.split = sp1 /\ r.srv = s.srv
  <2>1. InSeq(t1) \subseteq InSeq(s.tabs) /\ id \in InSeq(t1)
    BY <1>10 DEF t
  <2> QED BY <1>4, <1>10, <1>12, <1>13, <2>1, FineChange
<1>15. HalfIn(r, half) = id /\ HalfIn(r, OtherPane(half)) = partner
  <2>1. HalfIn(r, half) = IF half = "left" THEN sp1.left ELSE sp1.right
    BY <1>14 DEF HalfIn
  <2>2. HalfIn(r, OtherPane(half)) = IF half = "left" THEN sp1.right ELSE sp1.left
    BY <1>14 DEF HalfIn, OtherPane
  <2> QED BY <1>12, <2>1, <2>2
<1>16. InSeq(r.tabs) = InSeq(s.tabs) /\ r.split # NoSplit /\ Len(r.tabs) = Len(s.tabs)
  BY <1>10, <1>12, <1>14, Zenon DEF t
<1>17. StandsAnew(s, r, id)
  BY <1>11, <1>14 DEF StandsAnew
<1> QED BY <1>14, <1>15, <1>16, <1>17, Zenon DEF r, partner

(* A tab put into a pane is there, with the tab beside it that the overlay   *)
(* named (dropActionFor, remainingFor).                                     *)
LEMMA PlacedFine ==
  ASSUME NEW s, LayoutFine(s), NEW half \in Panes, NEW id
  PROVE  LET r == Placed(s, id, half)
         IN  /\ LayoutFine(r) /\ r.srv = s.srv /\ InSeq(r.tabs) = InSeq(s.tabs)
             /\ (~Has(s, id) \/ DropAction(s, id, half) = "none") => r = s
             /\ (Has(s, id) /\ DropAction(s, id, half) # "none") =>
                  /\ Shown(r) /\ r.active = id /\ HalfIn(r, half) = id
                  /\ HalfIn(r, OtherPane(half)) = RemainingTab(s, id, half)
<1> DEFINE r == Placed(s, id, half)
           n == Len(s.tabs)
<1>1. n \in Nat /\ n >= 1 /\ (Has(s, id) <=> id \in InSeq(s.tabs))
  BY FineFacts
<1>2. CASE n < 2 \/ ~Has(s, id)
  <2>1. r = s
    BY <1>2 DEF Placed
  <2>2. n < 2 => DropAction(s, id, half) = "none"
    BY DEF DropAction
  <2> QED BY <1>2, <2>1, <2>2, Zenon
<1>3. CASE n >= 2 /\ Has(s, id)
  <2>1. ~(n < 2) /\ id \in InSeq(s.tabs)
    BY <1>1, <1>3
  <2>2. CASE Shown(s)
    <3>1. r = PlacedInPair(s, id, half)
      BY <1>3, <2>1, <2>2 DEF Placed
    <3>2. s.split # NoSplit
      BY <2>2 DEF Shown, IsHalf
    <3> HIDE DEF r
    <3>3. /\ LayoutFine(r) /\ r.srv = s.srv /\ InSeq(r.tabs) = InSeq(s.tabs)
          /\ HalfIn(s, half) = id => r = s
          /\ HalfIn(s, half) # id =>
                  /\ r.active = id /\ r.split # NoSplit /\ HalfIn(r, half) = id
                  /\ HalfIn(r, OtherPane(half)) =
                       IF IsHalf(s, id) THEN HalfIn(s, half) ELSE HalfIn(s, OtherPane(half))
      BY <2>1, <3>1, <3>2, PlacedInPairFine
    <3>4. DropAction(s, id, half) = IF HalfIn(s, half) = id THEN "none" ELSE IF IsHalf(s, id) THEN "swap" ELSE "replace"
      BY <2>1, <2>2, Zenon DEF DropAction
    <3>5. CASE HalfIn(s, half) = id
      <4>1. DropAction(s, id, half) = "none" /\ r = s
        BY <3>3, <3>4, <3>5
      <4> QED BY <3>3, <4>1, Zenon DEF r
    <3>6. CASE HalfIn(s, half) # id
      <4>1. DropAction(s, id, half) = IF IsHalf(s, id) THEN "swap" ELSE "replace"
        BY <3>4, <3>6
      <4>2. RemainingTab(s, id, half) = IF IsHalf(s, id) THEN HalfIn(s, half) ELSE HalfIn(s, OtherPane(half))
        BY <4>1 DEF RemainingTab
      <4>3. HalfIn(r, OtherPane(half)) = RemainingTab(s, id, half)
        BY <3>3, <3>6, <4>2
      <4>4. DropAction(s, id, half) # "none"
        BY <4>1
      <4>5. Shown(r)
        <5>1. LayoutFine(r) /\ r.split # NoSplit /\ r.active = HalfIn(r, half)
          BY <3>3, <3>6
        <5> QED BY <5>1, HalvesAre DEF Shown
      <4> QED BY <1>3, <3>3, <3>6, <4>3, <4>4, <4>5, Zenon DEF r
    <3> QED BY <3>5, <3>6
  <2>3. CASE ~Shown(s)
    <3>1. r = PlacedBeside(s, id, half)
      BY <1>3, <2>1, <2>3 DEF Placed
    <3>2. DropAction(s, id, half) = "split"
      BY <2>1, <2>3 DEF DropAction
    <3>3. RemainingTab(s, id, half) = Partner(s, id)
      BY <3>2 DEF RemainingTab
    <3> HIDE DEF r
    <3>4. /\ LayoutFine(r) /\ r.srv = s.srv /\ InSeq(r.tabs) = InSeq(s.tabs)
          /\ r.active = id /\ r.split # NoSplit
          /\ HalfIn(r, half) = id /\ HalfIn(r, OtherPane(half)) = Partner(s, id)
      <4> DEFINE q == PlacedBeside(s, id, half)
      <4>1. Len(s.tabs) >= 2
        BY <1>3
      <4>2. /\ LayoutFine(q) /\ q.srv = s.srv /\ InSeq(q.tabs) = InSeq(s.tabs)
            /\ q.active = id /\ q.split # NoSplit
            /\ HalfIn(q, half) = id /\ HalfIn(q, OtherPane(half)) = Partner(s, id)
        BY <2>1, <4>1, PlacedBesideFine
      <4> HIDE DEF q
      <4> QED BY <3>1, <4>2 DEF q
    <3>5. Shown(r)
      <4>1. r.active = HalfIn(r, half)
        BY <3>4
      <4> QED BY <3>4, <4>1, HalvesAre DEF Shown
    <3>6. DropAction(s, id, half) # "none"
      BY <3>2
    <3> QED BY <1>3, <3>3, <3>4, <3>5, <3>6, Zenon DEF r
  <2> QED BY <2>2, <2>3
<1>4. n < 2 \/ n >= 2
  BY <1>1
<1> QED BY <1>2, <1>3, <1>4, Zenon

LEMMA ToggledFine ==
  ASSUME NEW s, LayoutFine(s)
  PROVE  LayoutFine(Toggled(s))
<1>1. CASE Shown(s)
  BY <1>1, UnsplitFine DEF Toggled
<1>2. CASE ~Shown(s)
  <2>1. Toggled(s) = Placed(s, s.active, "left") /\ "left" \in Panes
    BY <1>2 DEF Toggled, Panes
  <2> QED BY <2>1, PlacedFine
<1> QED BY <1>1, <1>2

LEMMA AdoptedFine ==
  ASSUME NEW s, LayoutFine(s), NEW server \in Nat, NEW activate \in BOOLEAN
  PROVE  /\ LayoutFine(Adopted(s, server, activate))
         /\ s.srv[s.active] = server /\ activate => Adopted(s, server, activate) = s
<1> DEFINE target == Adopter(s, server)
           t == s.tabs
           mine == {i \in DOMAIN t : s.srv[t[i]] = server}
           k == CHOOSE i \in mine : \A m \in mine : i <= m
<1>1. /\ t \in Seq(Ids) /\ DOMAIN t = 1..Len(t) /\ s.active \in InSeq(t) /\ s.active \in Ids
      /\ Len(t) \in Nat /\ s \in Layouts
  BY FineFacts
<1>2. target = s.active \/ target = 0 \/ (mine # {} /\ target = t[k])
  BY Zenon DEF Adopter
<1>3. mine # {} => t[k] \in InSeq(t)
  <2> SUFFICES ASSUME mine # {} PROVE t[k] \in InSeq(t)
    OBVIOUS
  <2>1. mine \subseteq Nat /\ mine \subseteq 1..Len(t)
    BY <1>1
  <2> HIDE DEF mine
  <2>2. \E i \in mine : \A m \in mine : i <= m
    BY <2>1, LeastOf
  <2>3. k \in mine
    BY <2>2
  <2> HIDE DEF k
  <2> QED BY <2>1, <2>3 DEF InSeq
<1>4. target = 0 \/ target \in InSeq(s.tabs)
  BY <1>1, <1>2, <1>3
<1> HIDE DEF mine, k
<1>5. Adopted(s, server, activate) = IF target = 0 THEN Opened(s, server, activate)
                                     ELSE IF activate THEN Activated(s, target) ELSE s
  BY DEF Adopted
<1>6. s.srv[s.active] = server => target = s.active /\ target # 0
  BY <1>1 DEF Adopter, Ids
<1> HIDE DEF target, t
<1>7. LayoutFine(Adopted(s, server, activate))
  <2>1. CASE target = 0
    <3>1. Adopted(s, server, activate) = Opened(s, server, activate)
      BY <1>5, <2>1
    <3>2. LayoutFine(Opened(s, server, activate))
      BY OpenedFine
    <3> QED BY <3>1, <3>2
  <2>2. CASE target # 0 /\ activate
    <3>1. Adopted(s, server, activate) = Activated(s, target)
      BY <1>5, <2>2
    <3> QED BY <1>4, <2>2, <3>1, ActivatedFine
  <2>3. CASE target # 0 /\ ~activate
    BY <1>5, <2>3
  <2> QED BY <2>1, <2>2, <2>3
<1>8. s.srv[s.active] = server /\ activate => Adopted(s, server, activate) = s
  <2> SUFFICES ASSUME s.srv[s.active] = server, activate PROVE Adopted(s, server, activate) = s
    OBVIOUS
  <2>1. Adopted(s, server, activate) = Activated(s, s.active)
    BY <1>5, <1>6
  <2>2. Activated(s, s.active) = Layout(s.tabs, s.active, s.split, s.srv)
    BY <1>1, ChangedIs DEF Activated
  <2> QED BY <2>1, <2>2, FineFacts
<1> QED BY <1>7, <1>8

(* Where a pair stands after a sequence u was put before the at-th of t.    *)
LEMMA PairPut ==
  ASSUME NEW T, NEW t \in Seq(T), Once(t), NEW at \in 1..(Len(t) + 1), NEW u \in Seq(T), Once(u),
         InSeq(t) \cap InSeq(u) = {}, NEW sp,
         \/ \E m \in 1..(Len(u) - 1) : u[m] = sp.left /\ u[m + 1] = sp.right
         \/ \E q \in 1..(Len(t) - 1) : t[q] = sp.left /\ t[q + 1] = sp.right /\ at # q + 1
  PROVE  PairIn(PutAt(t, at, u), sp)
<1> DEFINE r == PutAt(t, at, u)
<1>1. /\ Len(r) = Len(t) + Len(u)
      /\ \A k \in 1..(Len(t) + Len(u)) :
            r[k] = IF k < at THEN t[k] ELSE IF k < at + Len(u) THEN u[k - at + 1] ELSE t[k - Len(u)]
  BY PutFacts
<1>2. Len(t) \in Nat /\ Len(u) \in Nat
  BY LenProperties
<1> HIDE DEF r
<1> SUFFICES \E p \in 1..(Len(r) - 1) : r[p] = sp.left /\ r[p + 1] = sp.right
  BY DEF PairIn, r
<1>3. CASE \E m \in 1..(Len(u) - 1) : u[m] = sp.left /\ u[m + 1] = sp.right
  <2>1. PICK m \in 1..(Len(u) - 1) : u[m] = sp.left /\ u[m + 1] = sp.right
    BY <1>3
  <2> DEFINE p == at + m - 1
  <2>2. /\ p \in 1..(Len(r) - 1) /\ p \in 1..(Len(t) + Len(u)) /\ p + 1 \in 1..(Len(t) + Len(u))
        /\ ~(p < at) /\ p < at + Len(u) /\ p - at + 1 = m
        /\ ~(p + 1 < at) /\ p + 1 < at + Len(u) /\ (p + 1) - at + 1 = m + 1
    BY <1>1, <1>2, <2>1
  <2> HIDE DEF p
  <2>3. r[p] = u[m] /\ r[p + 1] = u[m + 1]
    BY <1>1, <2>2
  <2> QED BY <2>1, <2>2, <2>3
<1>4. CASE \E q \in 1..(Len(t) - 1) : t[q] = sp.left /\ t[q + 1] = sp.right /\ at # q + 1
  <2>1. PICK q \in 1..(Len(t) - 1) : t[q] = sp.left /\ t[q + 1] = sp.right /\ at # q + 1
    BY <1>4
  <2>2. CASE at <= q
    <3> DEFINE p == q + Len(u)
    <3>1. /\ p \in 1..(Len(r) - 1) /\ p \in 1..(Len(t) + Len(u)) /\ p + 1 \in 1..(Len(t) + Len(u))
          /\ ~(p < at) /\ ~(p < at + Len(u)) /\ p - Len(u) = q
          /\ ~(p + 1 < at) /\ ~(p + 1 < at + Len(u)) /\ (p + 1) - Len(u) = q + 1
      BY <1>1, <1>2, <2>1, <2>2
    <3> HIDE DEF p
    <3>2. r[p] = t[q] /\ r[p + 1] = t[q + 1]
      BY <1>1, <3>1
    <3> QED BY <2>1, <3>1, <3>2
  <2>3. CASE at > q + 1
    <3>1. /\ q \in 1..(Len(r) - 1) /\ q \in 1..(Len(t) + Len(u)) /\ q + 1 \in 1..(Len(t) + Len(u))
          /\ q < at /\ q + 1 < at
      BY <1>1, <1>2, <2>1, <2>3
    <3>2. r[q] = t[q] /\ r[q + 1] = t[q + 1]
      BY <1>1, <3>1
    <3> QED BY <2>1, <3>1, <3>2
  <2> QED BY <1>2, <2>1, <2>2, <2>3
<1> QED BY <1>3, <1>4

Unit(s, id) == IF IsHalf(s, id) THEN Halves(s) ELSE {id}

(* A moved tab stands before the tab of the line, or at the end, with its    *)
(* pair (moveTab, reorderTabs).                                             *)
LEMMA MovedFine ==
  ASSUME NEW s, LayoutFine(s), NEW id, NEW beforeId
  PROVE  LET r == Moved(s, id, beforeId)
         IN  /\ LayoutFine(r) /\ InSeq(r.tabs) = InSeq(s.tabs)
             /\ r # s /\ beforeId = 0 => r.tabs[Len(r.tabs)] \in Unit(s, id)
             /\ (r # s /\ beforeId # 0 /\ ~(s.split # NoSplit /\ beforeId = s.split.right)) =>
                  Place(r, beforeId) > 1 /\ r.tabs[Place(r, beforeId) - 1] \in Unit(s, id)
<1> DEFINE r == Moved(s, id, beforeId)
           t == s.tabs
           sp == s.split
           unit == Unit(s, id)
           w == Only(t, InSeq(t) \ unit)
           u == Only(t, unit)
           at == IF beforeId = 0 THEN Len(w) + 1 ELSE TabPlace(w, beforeId) + BehindPair(s, beforeId)
           t1 == PutAt(w, at, u)
<1>1. /\ t \in Seq(Ids) /\ Once(t) /\ Len(t) \in Nat /\ sp \in Splits /\ PairIn(t, sp) /\ s \in Layouts
      /\ s.active \in InSeq(t) /\ (\A x \in InSeq(t) : x \in Ids) /\ (\A x : Has(s, x) <=> x \in InSeq(t))
  BY FineFacts
<1>2. CASE beforeId \in unit \/ ~Has(s, id) \/ (beforeId # 0 /\ ~Has(s, beforeId))
  <2>1. r = s
    BY <1>2, Zenon DEF Moved, Unit
  <2> QED BY <2>1
<1>3. CASE ~(beforeId \in unit \/ ~Has(s, id) \/ (beforeId # 0 /\ ~Has(s, beforeId)))
  <2>1. r = [s EXCEPT !.tabs = t1]
    <3> DEFINE s1 == [s EXCEPT !.tabs = w]
               at1 == IF beforeId = 0 THEN Len(w) + 1 ELSE Place(s1, beforeId) + BehindPair(s, beforeId)
    <3>1. r = [s EXCEPT !.tabs = PutAt(w, at1, u)]
      BY <1>3, Zenon DEF Moved, Unit
    <3>2. Place(s1, beforeId) = TabPlace(w, beforeId)
      <4>1. s1.tabs = w
        BY <1>1 DEF Layouts
      <4> HIDE DEF s1, w
      <4> QED BY <4>1, Zenon DEF Place, TabPlace
    <3>3. at1 = at
      BY <3>2, Zenon
    <3> QED BY <3>1, <3>3, Zenon
  <2> HIDE DEF t1
  <2>2. r = Layout(t1, s.active, sp, s.srv)
    BY <1>1, <2>1, ChangedIs, Zenon
  <2> HIDE DEF t, r
  <2>3. id \in unit /\ id \in InSeq(t) /\ beforeId \notin unit /\ (beforeId # 0 => beforeId \in InSeq(t))
    <3>1. id \in unit
      BY Zenon DEF Unit, IsHalf
    <3> QED BY <1>1, <1>3, <3>1
  <2>4. unit = {id} \/ (sp # NoSplit /\ unit = {sp.left, sp.right})
    BY Zenon DEF Unit, IsHalf, Halves
  <2> HIDE DEF unit, sp
  <2>5. /\ w \in Seq(Ids) /\ InSeq(w) = InSeq(t) \ unit /\ Once(w) /\ Len(w) \in Nat
        /\ u \in Seq(Ids) /\ InSeq(u) = InSeq(t) \cap unit /\ Once(u) /\ Len(u) \in Nat
        /\ InSeq(w) \cap InSeq(u) = {} /\ InSeq(w) \cup InSeq(u) = InSeq(t)
    <3>1. /\ Only(t, InSeq(t) \ unit) \in Seq(Ids) /\ InSeq(Only(t, InSeq(t) \ unit)) = InSeq(t) \cap (InSeq(t) \ unit)
          /\ Once(Only(t, InSeq(t) \ unit))
      BY <1>1, OnlyFacts
    <3>2. /\ Only(t, unit) \in Seq(Ids) /\ InSeq(Only(t, unit)) = InSeq(t) \cap unit /\ Once(Only(t, unit))
      BY <1>1, OnlyFacts
    <3> HIDE DEF w, u
    <3>3. /\ w \in Seq(Ids) /\ InSeq(w) = InSeq(t) \cap (InSeq(t) \ unit) /\ Once(w)
          /\ u \in Seq(Ids) /\ InSeq(u) = InSeq(t) \cap unit /\ Once(u)
      BY <3>1, <3>2, Zenon DEF w, u
    <3> QED BY <3>3, LenProperties
  <2>6. Len(u) >= 1
    <3> HIDE DEF u
    <3> QED BY <2>3, <2>5 DEF InSeq
  <2>7. beforeId # 0 => TabPlace(w, beforeId) \in 1..Len(w) /\ w[TabPlace(w, beforeId)] = beforeId
    <3> SUFFICES ASSUME beforeId # 0 PROVE TabPlace(w, beforeId) \in 1..Len(w) /\ w[TabPlace(w, beforeId)] = beforeId
      OBVIOUS
    <3> HIDE DEF w
    <3>1. beforeId \in InSeq(w)
      BY <2>3, <2>5
    <3> QED BY <2>5, <3>1, TabPlaceFacts
  <2>8. BehindPair(s, beforeId) = IF sp # NoSplit /\ beforeId = sp.right THEN 1 ELSE 0
    BY DEF BehindPair, sp
  <2>9. at \in 1..(Len(w) + 1)
    <3> HIDE DEF w
    <3> QED BY <2>5, <2>7, <2>8
  <2>10. PairIn(t1, sp)
    <3>1. CASE sp = NoSplit
      BY <3>1 DEF PairIn
    <3>2. CASE sp # NoSplit
      <4>1. PICK p \in 1..(Len(t) - 1) : t[p] = sp.left /\ t[p + 1] = sp.right
        BY <1>1, <3>2 DEF PairIn
      <4>2. sp.left \in InSeq(t) /\ sp.right \in InSeq(t) /\ sp.left # sp.right
        BY <1>1, <3>2, PairFacts
      <4>3. (sp.left \in unit /\ sp.right \in unit) \/ (sp.left \notin unit /\ sp.right \notin unit)
        <5>1. IsHalf(s, id) <=> id = sp.left \/ id = sp.right
          BY <3>2 DEF IsHalf, Halves, sp
        <5>2. unit = IF IsHalf(s, id) THEN {sp.left, sp.right} ELSE {id}
          BY DEF unit, Unit, Halves, sp
        <5> QED BY <5>1, <5>2
      <4>4. CASE sp.left \in unit /\ sp.right \in unit
        <5>2. SideBySide(u, sp.left, sp.right)
          <6>1. t \in Seq(Ids) /\ SideBySide(t, sp.left, sp.right)
            BY <1>1, <4>1 DEF SideBySide
          <6> QED BY <4>4, <6>1, OnlyAdjacent
        <5>3. \E m \in 1..(Len(u) - 1) : u[m] = sp.left /\ u[m + 1] = sp.right
          BY <5>2, Zenon DEF SideBySide
        <5> HIDE DEF w, u, at
        <5> QED BY <2>5, <2>9, <5>3, PairPut DEF t1
      <4>5. CASE sp.left \notin unit /\ sp.right \notin unit
        <5>2. PICK q \in 1..(Len(w) - 1) : w[q] = sp.left /\ w[q + 1] = sp.right
          <6> DEFINE rest == InSeq(t) \ unit
          <6>1. t \in Seq(Ids) /\ SideBySide(t, sp.left, sp.right)
            BY <1>1, <4>1 DEF SideBySide
          <6>2. sp.left \in rest /\ sp.right \in rest
            BY <4>2, <4>5
          <6> HIDE DEF rest
          <6>3. SideBySide(Only(t, rest), sp.left, sp.right)
            BY <6>1, <6>2, OnlyAdjacent
          <6>4. SideBySide(w, sp.left, sp.right)
            BY <6>3 DEF rest
          <6> HIDE DEF w
          <6> QED BY <6>4, Zenon DEF SideBySide
        <5> HIDE DEF w, u
        <5>3. q + 1 \in 1..Len(w) /\ w[q] = sp.left /\ w[q + 1] = sp.right /\ q \in 1..Len(w)
          BY <2>5, <4>1, <5>2
        <5>4. at # q + 1
          <6>1. CASE beforeId = 0
            BY <2>5, <5>3, <6>1
          <6>2. CASE beforeId # 0
            <7> DEFINE j == TabPlace(w, beforeId)
            <7>1. j \in 1..Len(w) /\ w[j] = beforeId
              BY <2>7, <6>2
            <7>2. at = j + BehindPair(s, beforeId)
              BY <6>2
            <7> HIDE DEF j, at
            <7>3. CASE beforeId = sp.right
              <8>1. j = q + 1 /\ BehindPair(s, beforeId) = 1
                BY <2>5, <2>8, <3>2, <5>3, <7>1, <7>3 DEF Once
              <8> QED BY <5>3, <7>2, <8>1
            <7>4. CASE beforeId # sp.right
              <8>1. j # q + 1 /\ BehindPair(s, beforeId) = 0
                BY <2>8, <5>3, <7>1, <7>4
              <8> QED BY <2>5, <7>1, <7>2, <8>1
            <7> QED BY <7>3, <7>4
          <6> QED BY <6>1, <6>2
        <5> HIDE DEF at
        <5>5. \E m \in 1..(Len(w) - 1) : w[m] = sp.left /\ w[m + 1] = sp.right /\ at # m + 1
          BY <5>3, <5>4
        <5> QED BY <2>5, <2>9, <5>5, PairPut DEF t1
      <4> QED BY <4>3, <4>4, <4>5
    <3> QED BY <3>1, <3>2
  <2>11. /\ t1 \in Seq(Ids) /\ Len(t1) = Len(w) + Len(u) /\ Once(t1) /\ InSeq(t1) = InSeq(t)
         /\ \A k \in 1..(Len(w) + Len(u)) :
              t1[k] = IF k < at THEN w[k] ELSE IF k < at + Len(u) THEN u[k - at + 1] ELSE w[k - Len(u)]
    <3> HIDE DEF w, u, at
    <3>1. /\ PutAt(w, at, u) \in Seq(Ids) /\ Len(PutAt(w, at, u)) = Len(w) + Len(u)
          /\ \A k \in 1..(Len(w) + Len(u)) :
              PutAt(w, at, u)[k] = IF k < at THEN w[k] ELSE IF k < at + Len(u) THEN u[k - at + 1] ELSE w[k - Len(u)]
          /\ Once(PutAt(w, at, u)) /\ InSeq(PutAt(w, at, u)) = InSeq(w) \cup InSeq(u)
      BY <2>5, <2>9, PutFacts
    <3> QED BY <2>5, <3>1 DEF t1
  <2>12. /\ LayoutFine(r) /\ r.tabs = t1 /\ r.active = s.active /\ r.split = sp /\ r.srv = s.srv
    <3>1. InSeq(t1) \subseteq InSeq(s.tabs) /\ s.active \in InSeq(t1)
      BY <1>1, <2>11 DEF t
    <3> QED BY <1>1, <2>2, <2>10, <2>11, <3>1, FineChange
  <2> HIDE DEF w, u
  <2>13. u[Len(u)] \in unit
    <3>1. u[Len(u)] \in InSeq(u)
      BY <2>5, <2>6 DEF InSeq
    <3> QED BY <2>5, <3>1
  <2>14. beforeId = 0 => r.tabs[Len(r.tabs)] \in unit
    <3> SUFFICES ASSUME beforeId = 0 PROVE t1[Len(t1)] \in unit
      BY <2>12
    <3>1. at = Len(w) + 1 /\ Len(t1) \in 1..(Len(w) + Len(u))
      BY <2>5, <2>6, <2>11
    <3> HIDE DEF at
    <3> DEFINE k == Len(t1)
    <3>2. ~(k < at) /\ k < at + Len(u) /\ k - at + 1 = Len(u)
      BY <2>5, <2>6, <2>11, <3>1
    <3> HIDE DEF k
    <3>3. t1[k] = u[Len(u)]
      BY <2>11, <3>1, <3>2 DEF k
    <3> QED BY <2>13, <3>3 DEF k
  <2>15. (beforeId # 0 /\ ~(sp # NoSplit /\ beforeId = sp.right)) =>
            Place(r, beforeId) > 1 /\ r.tabs[Place(r, beforeId) - 1] \in unit
    <3> SUFFICES ASSUME beforeId # 0, ~(sp # NoSplit /\ beforeId = sp.right)
                 PROVE  Place(r, beforeId) > 1 /\ t1[Place(r, beforeId) - 1] \in unit
      BY <2>12
    <3>1. at = TabPlace(w, beforeId) /\ at \in 1..Len(w) /\ w[at] = beforeId
      BY <2>7, <2>8
    <3> HIDE DEF at
    <3> DEFINE k == at + Len(u)
    <3>2. /\ k \in 1..(Len(w) + Len(u)) /\ ~(k < at) /\ ~(k < at + Len(u)) /\ k - Len(u) = at
          /\ k - 1 \in 1..(Len(w) + Len(u)) /\ ~(k - 1 < at) /\ k - 1 < at + Len(u) /\ (k - 1) - at + 1 = Len(u) /\ k > 1
      <4>1. Len(w) \in Nat /\ Len(u) \in Nat /\ Len(u) >= 1 /\ at \in 1..Len(w)
        BY <2>5, <2>6, <3>1
      <4> QED BY <4>1
    <3> HIDE DEF k
    <3>3. t1[k] = beforeId /\ t1[k - 1] = u[Len(u)]
      BY <2>11, <3>1, <3>2
    <3>4. k = Place(r, beforeId)
      <4>1. beforeId \in InSeq(r.tabs)
        BY <2>3, <2>11, <2>12
      <4>2. \A i \in 1..Len(r.tabs) : r.tabs[i] = beforeId => i = Place(r, beforeId)
        BY <2>12, <4>1, PlaceIsIn
      <4>3. k \in 1..Len(t1) /\ t1[k] = beforeId
        BY <2>11, <3>2, <3>3
      <4> QED BY <2>12, <4>2, <4>3
    <3> QED BY <2>13, <3>2, <3>3, <3>4
  <2>16. InSeq(r.tabs) = InSeq(s.tabs)
    BY <2>11, <2>12 DEF t
  <2> QED BY <2>12, <2>14, <2>15, <2>16, Zenon DEF r, unit, sp
<1> QED BY <1>2, <1>3

-----------------------------------------------------------------------------
(* The strip of tabs and its drags (the second part of TabLayout).           *)
DragFine(d) ==
  /\ d.id \in Nat /\ d.mode \in {"reorder", "split"} /\ d.insert \in Nat /\ d.units \in Seq(Ids) /\ d.armed \in BOOLEAN

StripInv ==
  /\ LayoutFine(tdTabs) /\ tdWrong = {}
  /\ tdHeld \in Nat /\ (tdHeld = 0 <=> tdFate = "none") /\ tdSuppress \in BOOLEAN /\ tdUnarm \in BOOLEAN /\ tdDwell \in BOOLEAN
  /\ DragFine(tdDrag) /\ (~Dragging => tdDrag = NoTabDrag)
  /\ (Dragging <=> tdFate = "drag") /\ (Dragging => tdDrag.id = tdHeld)
  /\ tdDwell => Dragging /\ tdDrag.zone \in Panes /\ ~tdDrag.armed
  /\ tdUnarm => tdSuppress /\ tdFate = "cancelled"
  /\ tdSuppress => tdUnarm \/ tdSoon
  /\ tdHeld # 0 => ~tdSoon

(* Every drop does what was shown when it was made.                         *)
LEMMA DropsHonest ==
  ASSUME NEW s, LayoutFine(s), NEW d, DragFine(d)
  PROVE  /\ LayoutFine(AfterDrop(s, d))
         /\ AsPromised(s, d, AfterDrop(s, d)) /\ MovedThere(s, d, AfterDrop(s, d))
<1> DEFINE after == AfterDrop(s, d)
<1>1. d.mode = "reorder" \/ d.mode = "split"
  BY DEF DragFine
<1>2. CASE d.mode = "reorder"
  <2>1. AsPromised(s, d, after)
    BY <1>2 DEF AsPromised
  <2>2. CASE d.insert = 0
    <3>1. after = s
      BY <1>2, <2>2 DEF AfterDrop
    <3> QED BY <2>1, <3>1 DEF MovedThere
  <2>3. CASE d.insert # 0
    <3> DEFINE b == BeforeOf(d)
    <3>1. after = Moved(s, d.id, b)
      BY <1>2, <2>3 DEF AfterDrop
    <3>2. d.insert \in Nat /\ Len(d.units) \in Nat /\ d.units \in Seq(Ids)
      BY LenProperties DEF DragFine
    <3>3. (d.insert > Len(d.units) <=> b = 0)
      <4>1. b = IF d.insert > Len(d.units) THEN 0 ELSE d.units[d.insert]
        BY DEF BeforeOf
      <4>2. ~(d.insert > Len(d.units)) => d.insert \in 1..Len(d.units)
        BY <2>3, <3>2
      <4>3. ~(d.insert > Len(d.units)) => d.units[d.insert] \in Ids
        BY <3>2, <4>2, ElementOfSeq
      <4> QED BY <4>1, <4>3 DEF Ids
    <3> HIDE DEF b, after
    <3>4. /\ LayoutFine(after) /\ InSeq(after.tabs) = InSeq(s.tabs)
          /\ after # s /\ b = 0 => after.tabs[Len(after.tabs)] \in Unit(s, d.id)
          /\ (after # s /\ b # 0 /\ ~(s.split # NoSplit /\ b = s.split.right)) =>
                  Place(after, b) > 1 /\ after.tabs[Place(after, b) - 1] \in Unit(s, d.id)
      <4> DEFINE r == Moved(s, d.id, b)
      <4>1. /\ LayoutFine(r) /\ InSeq(r.tabs) = InSeq(s.tabs)
            /\ r # s /\ b = 0 => r.tabs[Len(r.tabs)] \in Unit(s, d.id)
            /\ (r # s /\ b # 0 /\ ~(s.split # NoSplit /\ b = s.split.right)) =>
                    Place(r, b) > 1 /\ r.tabs[Place(r, b) - 1] \in Unit(s, d.id)
        BY MovedFine
      <4>2. after = r
        BY <3>1
      <4> HIDE DEF r
      <4> QED BY <4>1, <4>2
    <3>5. Unit(s, d.id) = {d.id} \cup (IF IsHalf(s, d.id) THEN Halves(s) ELSE {})
      <4>1. IsHalf(s, d.id) => d.id \in Halves(s)
        BY DEF IsHalf
      <4> QED BY <4>1 DEF Unit
    <3>6. Last(after.tabs) = after.tabs[Len(after.tabs)]
      BY DEF Last
    <3>7. MovedThere(s, d, after)
      <4>1. SUFFICES ASSUME after # s
                     PROVE  IF d.insert > Len(d.units)
                            THEN Last(after.tabs) \in Unit(s, d.id)
                            ELSE \/ Place(after, b) > 1 /\ after.tabs[Place(after, b) - 1] \in Unit(s, d.id)
                                 \/ s.split # NoSplit /\ b = s.split.right
        BY <3>5, Zenon DEF MovedThere, b
      <4> QED BY <3>3, <3>4, <3>6, <4>1
    <3> QED BY <2>1, <3>4, <3>7 DEF after
  <2> QED BY <2>2, <2>3
<1>3. CASE d.mode = "split"
  <2>1. MovedThere(s, d, after)
    BY <1>3 DEF MovedThere
  <2>2. CASE d.armed /\ d.zone \in Panes
    <3>1. after = Placed(s, d.id, d.zone)
      BY <1>3, <2>2 DEF AfterDrop
    <3> DEFINE r == Placed(s, d.id, d.zone)
    <3>2. /\ LayoutFine(r)
          /\ (~Has(s, d.id) \/ DropAction(s, d.id, d.zone) = "none") => r = s
          /\ (Has(s, d.id) /\ DropAction(s, d.id, d.zone) # "none") =>
                  /\ Shown(r) /\ r.active = d.id /\ HalfIn(r, d.zone) = d.id
                  /\ HalfIn(r, OtherPane(d.zone)) = RemainingTab(s, d.id, d.zone)
      BY <2>2, PlacedFine
    <3> HIDE DEF r
    <3>3. OverlayShown(s, d) <=> Has(s, d.id) /\ DropAction(s, d.id, d.zone) # "none"
      BY <2>2 DEF OverlayShown
    <3>4. AsPromised(s, d, r)
      BY <3>2, <3>3, Zenon DEF AsPromised
    <3> QED BY <2>1, <3>1, <3>2, <3>4 DEF r
  <2>3. CASE ~(d.armed /\ d.zone \in Panes)
    <3>1. after = s
      BY <1>3, <2>3 DEF AfterDrop
    <3>2. ~OverlayShown(s, d)
      BY <2>3 DEF OverlayShown
    <3>3. AsPromised(s, d, s)
      BY <3>2 DEF AsPromised
    <3> QED BY <2>1, <3>1, <3>3
  <2> QED BY <2>2, <2>3
<1> QED BY <1>1, <1>2, <1>3

(* Whatever of a click comes, the layout stays fine.                        *)
LEMMA ClickedFine ==
  ASSUME NEW s, LayoutFine(s), NEW swallow \in BOOLEAN, NEW fate, Clicked(swallow, fate, s)
  PROVE  /\ LayoutFine(tdTabs')
         /\ (fate = "drag" => swallow) /\ (fate = "click" => ~swallow) => tdWrong' = tdWrong
         /\ tdSuppress' \in BOOLEAN /\ (tdSuppress' => swallow)
<1>1. CASE Has(s, tdHeld) /\ tdSuppress' = FALSE /\ tdTabs' = IF swallow THEN s ELSE Activated(s, tdHeld)
  <2>1. tdHeld \in InSeq(s.tabs)
    BY <1>1, FineFacts
  <2>2. LayoutFine(Activated(s, tdHeld))
    BY <2>1, ActivatedFine
  <2>3. LayoutFine(tdTabs')
    BY <1>1, <2>2
  <2>4. \/ tdWrong' = tdWrong \union (IF fate = "drag" /\ ~swallow THEN {"leaked"} ELSE {})
                   \union (IF fate = "click" /\ swallow THEN {"eaten"} ELSE {})
        \/ tdWrong' = tdWrong
    BY DEF Clicked
  <2> QED BY <1>1, <2>3, <2>4
<1>2. CASE tdSuppress' = swallow /\ tdTabs' = s /\ UNCHANGED tdWrong
  BY <1>2
<1> QED BY <1>1, <1>2 DEF Clicked

LEMMA StripBegins ==
  ASSUME StripInit PROVE StripInv
<1> DEFINE t == [i \in 1..StripTabs |-> i]
           v == [i \in 1..StripTabs |-> i - 1]
           n == StripTabs
<1>1. n \in Nat /\ n >= 1
  BY TabDragAssumption
<1>2. t \in Seq(Ids) /\ Len(t) = n /\ v \in Seq(Nat) /\ Len(v) = n
  <2>1. t \in [1..n -> Ids] /\ v \in [1..n -> Nat]
    BY <1>1 DEF Ids
  <2>2. t \in Seq(Ids) /\ v \in Seq(Nat)
    BY <1>1, <2>1, SeqDef
  <2>3. DOMAIN t = 1..n /\ DOMAIN v = 1..n
    OBVIOUS
  <2> HIDE DEF t, v
  <2> QED BY <1>1, <2>2, <2>3, LenProperties
<1>3. \A k \in 1..n : t[k] = k
  OBVIOUS
<1> DEFINE l == [EmptyLayout EXCEPT !.tabs = t, !.active = 1, !.srv = v]
<1>4. l = Layout(t, 1, NoSplit, v)
  <2> HIDE DEF t, v
  <2> DEFINE r == [EmptyLayout EXCEPT !.tabs = t]
             q == [r EXCEPT !.active = 1]
  <2>1. r = Layout(t, 0, NoSplit, <<>>)
    BY DEF EmptyLayout, Layout
  <2>2. l = [q EXCEPT !.srv = v]
    OBVIOUS
  <2> HIDE DEF r
  <2>3. [Layout(t, 0, NoSplit, <<>>) EXCEPT !.active = 1] = Layout(t, 1, NoSplit, <<>>)
    BY DEF Layout
  <2>4. q = Layout(t, 1, NoSplit, <<>>)
    BY <2>1, <2>3, Zenon
  <2> HIDE DEF q
  <2>5. [Layout(t, 1, NoSplit, <<>>) EXCEPT !.srv = v] = Layout(t, 1, NoSplit, v)
    BY DEF Layout
  <2> QED BY <2>2, <2>4, <2>5, Zenon
<1>5. tdTabs = l
  BY DEF StripInit
<1> HIDE DEF t, v, l, n
<1>6. Good(t, 1, NoSplit, v)
  <2>1. Once(t)
    BY <1>2, <1>3 DEF Once
  <2>2. 1 \in InSeq(t) /\ \A x \in InSeq(t) : x <= Len(v)
    BY <1>1, <1>2, <1>3 DEF InSeq
  <2>3. NoSplit \in Splits /\ PairIn(t, NoSplit)
    BY DEF NoSplit, Splits, PairIn
  <2> QED BY <1>2, <2>1, <2>2, <2>3 DEF Good
<1>7. LayoutFine(tdTabs)
  BY <1>4, <1>5, <1>6, LayoutParts
<1>8. DragFine(NoTabDrag) /\ NoTabDrag.id = 0
  BY DEF NoTabDrag, DragFine
<1> QED BY <1>7, <1>8 DEF StripInit, StripInv, Dragging

LEMMA StripStep ==
  ASSUME StripInv, StripNext
  PROVE  StripInv'
<1> USE DEF StripInv
<1>1. /\ LayoutFine(tdTabs) /\ tdTabs.tabs \in Seq(Ids) /\ DOMAIN tdTabs.tabs = 1..Len(tdTabs.tabs)
      /\ \A i \in DOMAIN tdTabs.tabs : tdTabs.tabs[i] \in InSeq(tdTabs.tabs) /\ tdTabs.tabs[i] \in Ids
  <2> DEFINE t == tdTabs.tabs
  <2>1. t \in Seq(Ids) /\ DOMAIN t = 1..Len(t) /\ \A x \in InSeq(t) : x \in Ids
    BY FineFacts
  <2>2. \A i \in DOMAIN t : t[i] \in InSeq(t)
    BY <2>1 DEF InSeq
  <2> QED BY <2>1, <2>2
<1>2. NoTabDrag.id = 0 /\ DragFine(NoTabDrag) /\ NoTabDrag.zone = "none"
  BY DEF NoTabDrag, DragFine
<1>3. UnitsOf(tdTabs) \in Seq(Ids)
  <2> DEFINE t == tdTabs.tabs
             S == InSeq(t) \ {tdTabs.split.right}
  <2>1. t \in Seq(Ids)
    BY <1>1
  <2>2. UnitsOf(tdTabs) = IF tdTabs.split = NoSplit THEN t ELSE Only(t, S)
    BY DEF UnitsOf
  <2> HIDE DEF t, S
  <2>3. Only(t, S) \in Seq(Ids)
    BY <2>1, OnlyFacts
  <2> QED BY <2>1, <2>2, <2>3
<1>4. tdHeld # 0 => /\ DragFine(DragOf(tdDrag)) /\ DragOf(tdDrag).id = tdHeld
                    /\ (Dragging => DragOf(tdDrag) = tdDrag)
                    /\ (~Dragging => DragOf(tdDrag).zone = "none")
  <2> SUFFICES ASSUME tdHeld # 0
               PROVE  /\ DragFine(DragOf(tdDrag)) /\ DragOf(tdDrag).id = tdHeld
                      /\ (Dragging => DragOf(tdDrag) = tdDrag)
                      /\ (~Dragging => DragOf(tdDrag).zone = "none")
    OBVIOUS
  <2>1. CASE Dragging
    BY <2>1 DEF DragOf
  <2>2. CASE ~Dragging
    <3> DEFINE u == UnitsOf(tdTabs)
               d == [NoTabDrag EXCEPT !.id = tdHeld, !.units = u]
    <3>1. DragOf(tdDrag) = d
      BY <2>2 DEF DragOf
    <3> HIDE DEF u
    <3>2. d.id = tdHeld
      BY DEF NoTabDrag
    <3>3. d.mode = "reorder"
      BY DEF NoTabDrag
    <3>4. d.zone = "none"
      BY DEF NoTabDrag
    <3>5. d.armed = FALSE
      BY DEF NoTabDrag
    <3>6. d.insert = 0
      BY DEF NoTabDrag
    <3>7. d.units = u
      BY DEF NoTabDrag
    <3> HIDE DEF d
    <3>8. DragFine(d)
      <4>1. d.id \in Nat
        BY <3>2
      <4>2. d.mode \in {"reorder", "split"} /\ d.armed \in BOOLEAN
        BY <3>3, <3>5
      <4>3. d.insert \in Nat
        BY <3>6
      <4>4. d.units \in Seq(Ids)
        BY <1>3, <3>7 DEF u
      <4> QED BY <4>1, <4>2, <4>3, <4>4, Zenon DEF DragFine
    <3> QED BY <2>2, <3>1, <3>2, <3>4, <3>8, Zenon
  <2> QED BY <2>1, <2>2
<1> DEFINE Rest == UNCHANGED <<tdHeld, tdDrag, tdDwell, tdSuppress, tdUnarm, tdSoon, tdFate, tdWrong>>
<1>5. ASSUME Rest, LayoutFine(tdTabs') PROVE StripInv'
  BY <1>5 DEF Dragging
<1>6. CASE PressTab
  <2>1. tdHeld' \in Ids /\ UNCHANGED <<tdTabs, tdDrag, tdDwell, tdSoon, tdWrong>> /\ tdHeld = 0 /\ ~tdSoon
        /\ tdSuppress' = FALSE /\ tdUnarm' = FALSE /\ tdFate' = "click"
    BY <1>1, <1>6 DEF PressTab
  <2>2. ~Dragging /\ tdHeld' \in Nat /\ tdHeld' # 0
    BY <2>1 DEF Ids
  <2> QED BY <2>1, <2>2 DEF Dragging
<1>7. CASE DragInStrip
  <2>1. tdHeld # 0 /\ UNCHANGED <<tdTabs, tdHeld, tdSuppress, tdUnarm, tdSoon, tdWrong>> /\ tdDwell' = FALSE /\ tdFate' = "drag"
        /\ tdFate \in {"click", "drag"}
    BY <1>7 DEF DragInStrip, Listening
  <2> DEFINE d == DragOf(tdDrag)
  <2>2. PICK at \in 0..(Len(d.units) + 1) :
           tdDrag' = [d EXCEPT !.mode = "reorder", !.zone = "none", !.armed = FALSE, !.insert = at]
    BY <1>7 DEF DragInStrip
  <2>3. DragFine(d) /\ d.id = tdHeld
    BY <1>4, <2>1
  <2> HIDE DEF d
  <2>4. DragFine(tdDrag') /\ tdDrag'.id = tdHeld
    BY <2>2, <2>3 DEF DragFine
  <2> QED BY <2>1, <2>4 DEF Dragging
<1>8. CASE DragBelow
  <2>1. tdHeld # 0 /\ UNCHANGED <<tdTabs, tdHeld, tdSuppress, tdUnarm, tdSoon, tdWrong>> /\ tdFate' = "drag"
        /\ tdFate \in {"click", "drag"}
    BY <1>8 DEF DragBelow, Listening
  <2> DEFINE d == DragOf(tdDrag)
  <2>2. PICK zone \in {"left", "center", "right", "none"} :
           /\ tdDrag' = [d EXCEPT !.mode = "split", !.insert = 0, !.zone = zone, !.armed = (@ /\ zone = d.zone)]
           /\ tdDwell' = IF zone = d.zone THEN tdDwell ELSE zone \in Panes
    BY <1>8 DEF DragBelow
  <2>3. /\ DragFine(d) /\ d.id = tdHeld /\ (Dragging => d = tdDrag) /\ (~Dragging => d.zone = "none")
    BY <1>4, <2>1
  <2> HIDE DEF d
  <2>4. DragFine(tdDrag') /\ tdDrag'.id = tdHeld /\ tdDrag'.zone = zone /\ tdDrag'.armed = (d.armed /\ zone = d.zone)
    BY <2>2, <2>3 DEF DragFine
  <2>5. tdDwell' \in BOOLEAN /\ (tdDwell' => zone \in Panes /\ ~tdDrag'.armed)
    <3>1. CASE zone = d.zone
      BY <2>2, <2>3, <2>4, <3>1 DEF Dragging
    <3>2. CASE zone # d.zone
      BY <2>2, <2>4, <3>2 DEF Panes
    <3> QED BY <3>1, <3>2
  <2> QED BY <2>1, <2>4, <2>5 DEF Dragging
<1>9. CASE DwellOver
  <2>1. tdDwell /\ tdDwell' = FALSE /\ UNCHANGED <<tdTabs, tdHeld, tdSuppress, tdUnarm, tdSoon, tdFate, tdWrong>>
    BY <1>9 DEF DwellOver
  <2> DEFINE b == tdDrag.armed \/ DropAction(tdTabs, tdDrag.id, tdDrag.zone) # "none"
  <2>2. tdDrag' = [tdDrag EXCEPT !.armed = b] /\ b \in BOOLEAN
    BY <1>9 DEF DwellOver
  <2> HIDE DEF b
  <2>3. DragFine(tdDrag') /\ tdDrag'.id = tdDrag.id
    BY <2>2 DEF DragFine
  <2> QED BY <2>1, <2>3 DEF Dragging
<1>10. CASE ReleaseClick
  <2>1. /\ tdHeld # 0 /\ ~Dragging /\ ~tdUnarm /\ Clicked(tdSuppress, tdFate, tdTabs)
        /\ tdHeld' = 0 /\ tdFate' = "none" /\ UNCHANGED <<tdDrag, tdDwell, tdUnarm, tdSoon>>
    BY <1>10 DEF ReleaseClick
  <2>2. ~tdSuppress /\ tdFate # "drag"
    BY <2>1
  <2>3. LayoutFine(tdTabs') /\ tdWrong' = tdWrong /\ tdSuppress' \in BOOLEAN /\ ~tdSuppress'
    BY <2>1, <2>2, ClickedFine
  <2> QED BY <2>1, <2>3 DEF Dragging
<1>11. CASE ReleaseDrag
  <2> DEFINE after == AfterDrop(tdTabs, tdDrag)
  <2>1. /\ Dragging /\ tdSoon' = TRUE /\ tdHeld' = 0 /\ tdDrag' = NoTabDrag /\ tdDwell' = FALSE /\ tdFate' = "none"
        /\ UNCHANGED tdUnarm
    BY <1>11 DEF ReleaseDrag
  <2>2. LayoutFine(after) /\ AsPromised(tdTabs, tdDrag, after) /\ MovedThere(tdTabs, tdDrag, after)
    BY DropsHonest
  <2>3. Clicked(TRUE, "drag", after)
    BY <1>11, <2>2 DEF ReleaseDrag
  <2>4. LayoutFine(tdTabs') /\ tdWrong' = tdWrong /\ tdSuppress' \in BOOLEAN
    BY <2>2, <2>3, ClickedFine
  <2> QED BY <1>2, <2>1, <2>4 DEF Dragging
<1>12. CASE CancelDrag
  <2>1. /\ Dragging /\ tdDrag' = NoTabDrag /\ tdDwell' = FALSE /\ tdSuppress' = TRUE /\ tdUnarm' = TRUE
        /\ tdFate' = "cancelled" /\ UNCHANGED <<tdTabs, tdHeld, tdSoon, tdWrong>>
    BY <1>12 DEF CancelDrag
  <2> QED BY <1>2, <2>1 DEF Dragging
<1>13. CASE ReleaseCancelled
  <2>1. /\ tdHeld # 0 /\ tdUnarm /\ Clicked(TRUE, "drag", tdTabs)
        /\ tdUnarm' = FALSE /\ tdSoon' = TRUE /\ tdHeld' = 0 /\ tdFate' = "none" /\ UNCHANGED <<tdDrag, tdDwell>>
    BY <1>13 DEF ReleaseCancelled
  <2>2. LayoutFine(tdTabs') /\ tdWrong' = tdWrong /\ tdSuppress' \in BOOLEAN
    BY <2>1, ClickedFine
  <2> QED BY <2>1, <2>2 DEF Dragging
<1>14. CASE PointerCancelled
  <2>1. /\ tdHeld # 0 /\ tdFate \in {"click", "drag"} /\ tdHeld' = 0 /\ tdDrag' = NoTabDrag /\ tdDwell' = FALSE
        /\ tdFate' = "none" /\ UNCHANGED <<tdTabs, tdSuppress, tdUnarm, tdSoon, tdWrong>>
    BY <1>14 DEF PointerCancelled, Listening
  <2> QED BY <1>2, <2>1 DEF Dragging
<1>15. CASE SuppressionEnds
  <2>1. /\ tdSoon /\ tdSoon' = FALSE /\ tdSuppress' = FALSE /\ UNCHANGED <<tdTabs, tdHeld, tdDrag, tdDwell, tdUnarm, tdFate, tdWrong>>
    BY <1>15 DEF SuppressionEnds
  <2> QED BY <2>1 DEF Dragging
<1>16. CASE StripKey
  <2>1. /\ UNCHANGED <<tdHeld, tdDrag, tdDwell, tdSoon>> /\ ~tdSoon /\ KeyEnds
    BY <1>16 DEF StripKey
  <2>2. ~(tdSuppress /\ ~tdUnarm)
    BY <2>1
  <2>3. LayoutFine(tdTabs') /\ tdWrong' = tdWrong
    <3>1. ASSUME \E forward \in BOOLEAN : Tabs(Cycled(tdTabs, forward)) PROVE LayoutFine(tdTabs')
      BY <3>1, CycledFine DEF Tabs
    <3>2. ASSUME Tabs(Opened(tdTabs, tdTabs.srv[tdTabs.active], TRUE)) PROVE LayoutFine(tdTabs')
      <4> DEFINE v == tdTabs.srv
                 a == tdTabs.active
      <4>1. v \in Seq(Nat) /\ Len(v) \in Nat /\ a \in InSeq(tdTabs.tabs) /\ \A x \in InSeq(tdTabs.tabs) : x <= Len(v) /\ x \in Ids
        BY FineFacts
      <4> HIDE DEF v, a
      <4>2. a \in 1..Len(v)
        BY <4>1 DEF Ids
      <4>3. v[a] \in Nat
        BY <4>1, <4>2, ElementOfSeq
      <4>4. LayoutFine(Opened(tdTabs, v[a], TRUE))
        BY <4>3, OpenedFine
      <4> QED BY <3>2, <4>4 DEF Tabs, v, a
    <3>3. ASSUME \E i \in DOMAIN tdTabs.tabs : Tabs(Closed(tdTabs, tdTabs.tabs[i])) PROVE LayoutFine(tdTabs')
      BY <3>3, ClosedFine DEF Tabs
    <3>4. ASSUME Tabs(Toggled(tdTabs)) PROVE LayoutFine(tdTabs')
      BY <3>4, ToggledFine DEF Tabs
    <3>5. ASSUME \E i \in DOMAIN tdTabs.tabs : Tabs(IF tdSuppress /\ ~tdUnarm THEN tdTabs ELSE Activated(tdTabs, tdTabs.tabs[i])) PROVE LayoutFine(tdTabs')
      BY <1>1, <3>5, ActivatedFine DEF Tabs
    <3>6. tdWrong' = tdWrong
      BY <1>16, <2>2 DEF StripKey
    <3> QED BY <1>16, <3>1, <3>2, <3>3, <3>4, <3>5, <3>6 DEF StripKey
  <2> QED BY <2>1, <2>3 DEF Dragging, KeyEnds
<1>17. CASE OpenTabMenu
  BY <1>17 DEF OpenTabMenu, PointerKept, Dragging
<1>18. CASE PickFromMenu
  <2>1. Rest
    BY <1>18 DEF PickFromMenu, PointerKept
  <2>2. "right" \in Panes
    BY DEF Panes
  <2>3. LayoutFine(tdTabs')
    <3>1. LayoutFine(Unsplit(tdTabs)) /\ LayoutFine(Swapped(tdTabs)) /\ LayoutFine(Placed(tdTabs, tdMenu.id, "right"))
      BY <2>2, UnsplitFine, SwappedFine, PlacedFine
    <3> QED BY <1>18, <3>1 DEF PickFromMenu, Tabs
  <2> QED BY <1>5, <2>1, <2>3
<1>19. CASE OthersTabs
  <2>1. Rest
    BY <1>19 DEF OthersTabs, PointerKept
  <2>2. LayoutFine(tdTabs')
    <3>1. CASE \E server \in {1, 2} : Tabs(Adopted(tdTabs, server, FALSE))
      BY <3>1, AdoptedFine DEF Tabs
    <3>2. CASE \E i \in DOMAIN tdTabs.tabs : Tabs(Closed(tdTabs, tdTabs.tabs[i]))
      BY <3>2, ClosedFine DEF Tabs
    <3> QED BY <1>19, <3>1, <3>2 DEF OthersTabs
  <2> QED BY <1>5, <2>1, <2>2
<1> QED BY <1>6, <1>7, <1>8, <1>9, <1>10, <1>11, <1>12, <1>13, <1>14, <1>15, <1>16, <1>17, <1>18, <1>19 DEF StripNext

LEMMA StripKept ==
  ASSUME StripInv PROVE StripSafe
<1>1. LayoutSound(tdTabs)
  BY FineSound DEF StripInv
<1>2. DragsHonest /\ DragEnds
  BY DEF StripInv, DragsHonest, DragEnds, Dragging
<1> QED BY <1>1, <1>2 DEF StripSafe

-----------------------------------------------------------------------------
(* Undoing a drop: what was swapped, put in or appended comes out again.    *)
LEMMA SwapTwice ==
  ASSUME NEW T, NEW t \in Seq(T), Once(t), NEW a \in InSeq(t), NEW b \in InSeq(t)
  PROVE  SwapIn(SwapIn(t, a, b), b, a) = t
<1> DEFINE w == SwapIn(t, a, b)
           r == SwapIn(w, b, a)
<1>1. /\ w \in Seq(T) /\ Len(w) = Len(t) /\ Once(w) /\ InSeq(w) = InSeq(t)
      /\ \A k \in 1..Len(t) : w[k] = IF t[k] = a THEN b ELSE IF t[k] = b THEN a ELSE t[k]
  BY SwapFacts
<1> HIDE DEF w
<1>2. a \in InSeq(w) /\ b \in InSeq(w)
  BY <1>1
<1>3. /\ r \in Seq(T) /\ Len(r) = Len(w)
      /\ \A k \in 1..Len(w) : r[k] = IF w[k] = b THEN a ELSE IF w[k] = a THEN b ELSE w[k]
  BY <1>1, <1>2, SwapFacts
<1> HIDE DEF r
<1>4. \A k \in 1..Len(t) : r[k] = t[k]
  BY <1>1, <1>3
<1>5. r = t
  BY <1>1, <1>3, <1>4, SeqEqual
<1> QED BY <1>5 DEF r, w

LEMMA WithoutPut ==
  ASSUME NEW T, NEW t \in Seq(T), Once(t), NEW at \in 1..(Len(t) + 1), NEW x \in T, x \notin InSeq(t),
         NEW r, r = PutAt(t, at, <<x>>)
  PROVE  /\ r \in Seq(T) /\ Once(r) /\ Len(r) = Len(t) + 1 /\ at \in 1..Len(r) /\ r[at] = x
         /\ WithoutAt(r, at) = t
<1> DEFINE u == <<x>>
<1>1. u \in Seq(T) /\ Once(u) /\ InSeq(u) = {x} /\ Len(u) = 1 /\ u[1] = x
  BY SingleFacts
<1>2. Len(t) \in Nat /\ InSeq(t) \cap InSeq(u) = {}
  BY <1>1, LenProperties
<1>3. r = PutAt(t, at, u)
  OBVIOUS
<1> HIDE DEF u
<1>4. /\ r \in Seq(T) /\ Len(r) = Len(t) + Len(u) /\ Once(r)
      /\ \A k \in 1..(Len(t) + Len(u)) : r[k] = IF k < at THEN t[k] ELSE IF k < at + Len(u) THEN u[k - at + 1] ELSE t[k - Len(u)]
  <2>1. /\ t \in Seq(T) /\ Once(t) /\ at \in 1..(Len(t) + 1)
        /\ u \in Seq(T) /\ Once(u) /\ InSeq(t) \cap InSeq(u) = {}
    BY <1>1, <1>2
  <2>2. /\ PutAt(t, at, u) \in Seq(T) /\ Len(PutAt(t, at, u)) = Len(t) + Len(u)
        /\ \A k \in 1..(Len(t) + Len(u)) :
              PutAt(t, at, u)[k] = IF k < at THEN t[k] ELSE IF k < at + Len(u) THEN u[k - at + 1] ELSE t[k - Len(u)]
        /\ Once(PutAt(t, at, u))
    BY <2>1, PutFacts
  <2> QED BY <1>3, <2>2
<1>5. at \in 1..Len(r) /\ Len(r) = Len(t) + 1
  BY <1>1, <1>2, <1>4
<1>6. r[at] = x
  <2>1. at \in 1..(Len(t) + Len(u)) /\ ~(at < at) /\ at < at + Len(u) /\ at - at + 1 = 1
    BY <1>1, <1>2
  <2> QED BY <1>1, <1>4, <2>1
<1> DEFINE w == WithoutAt(r, at)
<1>7. /\ w \in Seq(T) /\ Len(w) = Len(r) - 1
      /\ \A k \in 1..(Len(r) - 1) : w[k] = r[IF k < at THEN k ELSE k + 1]
  BY <1>4, <1>5, WithoutFacts
<1> HIDE DEF w
<1>8. Len(w) = Len(t)
  BY <1>2, <1>5, <1>7
<1>9. \A k \in 1..Len(t) : w[k] = t[k]
  <2> SUFFICES ASSUME NEW k \in 1..Len(t) PROVE w[k] = t[k]
    OBVIOUS
  <2>0. k \in 1..(Len(r) - 1)
    BY <1>2, <1>5
  <2>1. CASE k < at
    <3>1. w[k] = r[k] /\ k \in 1..(Len(t) + Len(u))
      BY <1>1, <1>2, <1>7, <2>0, <2>1
    <3> QED BY <1>4, <2>1, <3>1
  <2>2. CASE ~(k < at)
    <3> DEFINE m == k + 1
    <3>1. w[k] = r[m]
      BY <1>7, <2>0, <2>2
    <3>2. m \in 1..(Len(t) + Len(u)) /\ ~(m < at) /\ ~(m < at + Len(u)) /\ m - Len(u) = k
      BY <1>1, <1>2, <2>2
    <3> HIDE DEF m
    <3> QED BY <1>4, <3>1, <3>2
  <2> QED BY <2>1, <2>2
<1>10. w = t
  BY <1>7, <1>8, <1>9, SeqEqual
<1> QED BY <1>4, <1>5, <1>6, <1>10 DEF w

LEMMA WithoutAppended ==
  ASSUME NEW T, NEW t \in Seq(T), Once(t), NEW x \in T, x \notin InSeq(t)
  PROVE  WithoutAt(Append(t, x), Len(t) + 1) = t
<1> DEFINE r == Append(t, x)
           n == Len(t)
<1>1. n \in Nat /\ r \in Seq(T) /\ Once(r) /\ Len(r) = n + 1 /\ \A k \in 1..n : r[k] = t[k]
  BY LenProperties, AppendFacts, AppendProperties
<1> HIDE DEF r
<1> DEFINE w == WithoutAt(r, n + 1)
<1> HIDE DEF n
<1>2. n + 1 \in 1..Len(r)
  BY <1>1
<1>3. /\ w \in Seq(T) /\ Len(w) = Len(r) - 1
      /\ \A k \in 1..(Len(r) - 1) : w[k] = r[IF k < n + 1 THEN k ELSE k + 1]
  BY <1>1, <1>2, WithoutFacts
<1> HIDE DEF w
<1>4. Len(w) = n /\ \A k \in 1..n : w[k] = t[k]
  BY <1>1, <1>3
<1>5. w = t
  BY <1>3, <1>4, SeqEqual DEF n
<1> QED BY <1>5 DEF w, r, n

(* The layout l is what the drop of an attempt made of b.                   *)
DroppedAt(b, server, half, ph, displaced, prev, l) ==
  /\ LayoutFine(b) /\ server \in Nat /\ half \in Panes /\ ph = NextId(b) /\ prev = b.active
  /\ displaced = (IF Shown(b) THEN HalfIn(b, half) ELSE 0)
  /\ l = Placed(Opened(b, server, FALSE), ph, half)

Back(b, l) == l.tabs = b.tabs /\ l.active = b.active /\ (Shown(b) => l.split = b.split)

LEMMA RevertedFine ==
  ASSUME NEW s, LayoutFine(s), NEW rev, rev.pane \in Panes
  PROVE  LayoutFine(Reverted(s, rev))
<1> DEFINE p == PutBack(s, rev)
           closed == Closed(p, rev.ph)
<1>1. LayoutFine(p)
  BY PlacedFine DEF PutBack
<1> HIDE DEF p
<1>2. LayoutFine(closed)
  BY <1>1, ClosedFine
<1>3. Reverted(s, rev) = IF Has(closed, rev.prev) THEN Activated(closed, rev.prev) ELSE closed
  BY DEF Reverted, p
<1> HIDE DEF closed
<1>4. Has(closed, rev.prev) => LayoutFine(Activated(closed, rev.prev))
  BY <1>2, FineFacts, ActivatedFine
<1> QED BY <1>2, <1>3, <1>4

(* What closing the placeholder leaves.                                     *)
LEMMA ClosedLast ==
  ASSUME NEW m, LayoutFine(m), NEW b, LayoutFine(b), NEW ph \in InSeq(m.tabs), Len(m.tabs) > 1,
         WithoutAt(m.tabs, Place(m, ph)) = b.tabs, NEW rev, rev.prev = b.active, rev.ph = ph,
         NEW s, PutBack(s, rev) = m, Shown(b) => ~IsHalf(m, ph) /\ m.split = b.split
  PROVE  Back(b, Reverted(s, rev))
<1> DEFINE closed == Closed(m, ph)
<1>1. /\ LayoutFine(closed) /\ closed.tabs = b.tabs
      /\ closed.split = IF IsHalf(m, ph) THEN NoSplit ELSE m.split
  BY ClosedFine
<1>2. Reverted(s, rev) = IF Has(closed, b.active) THEN Activated(closed, b.active) ELSE closed
  BY Zenon DEF Reverted
<1> HIDE DEF closed
<1>3. b.active \in InSeq(b.tabs)
  BY FineFacts
<1>4. b.active \in InSeq(closed.tabs) /\ (Has(closed, b.active) <=> b.active \in InSeq(closed.tabs))
  BY <1>1, <1>3, FineFacts, Zenon
<1>5. Reverted(s, rev) = Activated(closed, b.active)
  BY <1>2, <1>4
<1> DEFINE r == Activated(closed, b.active)
<1>6. r.tabs = closed.tabs /\ r.active = b.active /\ r.split = closed.split
  BY <1>1, <1>4, ActivatedFine
<1> HIDE DEF r
<1>7. Shown(b) => r.split = b.split
  BY <1>1, <1>6
<1>8. Back(b, r)
  BY <1>1, <1>6, <1>7, Zenon DEF Back
<1> QED BY <1>5, <1>8 DEF r

(* An undone drop leaves the tabs as they were, if nothing else changed them. *)
LEMMA RevertGives ==
  ASSUME NEW b, NEW rev, NEW l, DroppedAt(b, rev.server, rev.pane, rev.ph, rev.displaced, rev.prev, l)
  PROVE  Back(b, Reverted(l, rev))
<1> DEFINE server == rev.server
           half == rev.pane
           ph == rev.ph
           o == Opened(b, server, FALSE)
           t == b.tabs
           n == Len(t)
           here == HalfIn(b, half)
           other == HalfIn(b, OtherPane(half))
<1>1. /\ LayoutFine(b) /\ server \in Nat /\ half \in Panes /\ ph = NextId(b) /\ rev.prev = b.active
      /\ rev.displaced = (IF Shown(b) THEN here ELSE 0) /\ l = Placed(o, ph, half)
  BY Zenon DEF DroppedAt
<1>2. /\ t \in Seq(Ids) /\ Once(t) /\ n \in Nat /\ n >= 1 /\ b.active \in InSeq(t) /\ \A x \in InSeq(t) : x \in Ids
  BY <1>1, FineFacts
<1>3. /\ LayoutFine(o) /\ o.tabs = Append(t, ph) /\ o.active = b.active /\ o.split = b.split
      /\ ph \in Ids /\ ph \notin InSeq(t)
  BY <1>1, OpenedFine
<1> HIDE DEF o
<1>4. /\ Len(o.tabs) = n + 1 /\ InSeq(o.tabs) = InSeq(t) \cup {ph} /\ Has(o, ph) /\ Len(o.tabs) >= 2
      /\ Place(o, ph) = n + 1 /\ WithoutAt(o.tabs, Place(o, ph)) = t
  <2> HIDE DEF ph, t
  <2> DEFINE u == Append(t, ph)
  <2>1. u \in Seq(Ids) /\ InSeq(u) = InSeq(t) \cup {ph} /\ Len(u) = Len(t) + 1 /\ u[Len(t) + 1] = ph
    BY <1>2, <1>3, AppendFacts, AppendProperties
  <2>2. WithoutAt(u, Len(t) + 1) = t
    BY <1>2, <1>3, WithoutAppended
  <2> HIDE DEF u
  <2>3. o.tabs = u
    BY <1>3 DEF u
  <2>4. ph \in InSeq(o.tabs) /\ n + 1 \in 1..Len(o.tabs) /\ o.tabs[n + 1] = ph
    BY <1>2, <2>1, <2>3
  <2>5. Place(o, ph) = n + 1
    BY <1>3, <2>4, PlaceIsIn
  <2>6. Has(o, ph)
    BY <1>3, <2>4, FineFacts
  <2> QED BY <1>2, <2>1, <2>2, <2>3, <2>5, <2>6
<1>5. Shown(o) <=> Shown(b)
  BY <1>3 DEF Shown, IsHalf, Halves
<1>6. CASE Shown(b)
  <2>1. b.split # NoSplit
    BY <1>6 DEF Shown, IsHalf
  <2>2. /\ here \in InSeq(t) /\ other \in InSeq(t) /\ here # other /\ b.split = PairOf(half, here, other)
    BY <1>1, <2>1, HalvesAre
  <2>3. HalfIn(o, half) = here /\ HalfIn(o, OtherPane(half)) = other
    BY <1>3 DEF HalfIn
  <2>4. here \in Ids /\ here # 0 /\ here # ph /\ other # ph
    BY <1>2, <1>3, <2>2 DEF Ids
  <2> HIDE DEF here, other, half, t, n
  <2>5. ~IsHalf(o, ph) /\ o.split # NoSplit
    <3>1. o.split # NoSplit
      BY <1>3, <2>1
    <3>2. IsHalf(o, ph) <=> (ph = HalfIn(o, half) \/ ph = HalfIn(o, OtherPane(half)))
      BY <1>1, <1>3, <3>1, HalvesAre
    <3> QED BY <2>3, <2>4, <3>1, <3>2
  <2>6. ph \in InSeq(o.tabs)
    BY <1>4
  <2> HIDE DEF ph
  <2>7. l = PlacedInPair(o, ph, half)
    BY <1>1, <1>4, <1>5, <1>6, <1>2 DEF Placed
  <2>8. /\ LayoutFine(l) /\ InSeq(l.tabs) = InSeq(o.tabs) /\ l.active = ph /\ l.split # NoSplit
        /\ HalfIn(l, half) = ph /\ HalfIn(l, OtherPane(half)) = other
        /\ l.tabs = SwapIn(o.tabs, here, ph)
    <3> DEFINE q == PlacedInPair(o, ph, half)
    <3>1. /\ LayoutFine(q) /\ InSeq(q.tabs) = InSeq(o.tabs)
          /\ HalfIn(o, half) # ph =>
                  /\ q.active = ph /\ q.split # NoSplit /\ HalfIn(q, half) = ph
                  /\ HalfIn(q, OtherPane(half)) =
                       IF IsHalf(o, ph) THEN HalfIn(o, half) ELSE HalfIn(o, OtherPane(half))
          /\ ~IsHalf(o, ph) => q.tabs = SwapIn(o.tabs, HalfIn(o, half), ph)
      BY <1>1, <1>3, <2>5, <2>6, PlacedInPairFine
    <3> HIDE DEF q
    <3>2. l = q
      BY <2>7 DEF q
    <3> QED BY <2>3, <2>4, <2>5, <3>1, <3>2
  <2>9. here \in InSeq(l.tabs) /\ ~IsHalf(l, here) /\ IsHalf(l, ph)
    <3>1. /\ IsHalf(l, here) <=> (here = HalfIn(l, half) \/ here = HalfIn(l, OtherPane(half)))
          /\ IsHalf(l, ph) <=> (ph = HalfIn(l, half) \/ ph = HalfIn(l, OtherPane(half)))
      BY <1>1, <2>8, HalvesAre
    <3> QED BY <1>4, <2>2, <2>4, <2>8, <3>1
  <2>10. Shown(l) /\ Has(l, here) /\ Len(l.tabs) = n + 1
    <3>1. Shown(l)
      BY <2>8, <2>9 DEF Shown
    <3>2. Has(l, here)
      BY <2>8, <2>9, FineFacts
    <3>3. Len(SwapIn(o.tabs, here, ph)) = Len(o.tabs)
      <4> DEFINE w == o.tabs
      <4>1. w \in Seq(Ids) /\ Once(w) /\ here \in InSeq(w) /\ ph \in InSeq(w)
        BY <1>3, <2>6, <2>8, <2>9, FineFacts
      <4> HIDE DEF w
      <4>2. Len(SwapIn(w, here, ph)) = Len(w)
        BY <4>1, SwapFacts
      <4> QED BY <4>2 DEF w
    <3> QED BY <1>4, <2>8, <3>1, <3>2, <3>3
  <2> DEFINE m == Placed(l, here, half)
  <2>11. m = PlacedInPair(l, here, half)
    BY <1>2, <2>10 DEF Placed, n
  <2>12. /\ LayoutFine(m) /\ InSeq(m.tabs) = InSeq(l.tabs) /\ m.split = b.split /\ m.tabs = SwapIn(l.tabs, ph, here)
    <3> DEFINE q == PlacedInPair(l, here, half)
    <3>1. /\ LayoutFine(q) /\ InSeq(q.tabs) = InSeq(l.tabs)
          /\ ~IsHalf(l, here) => /\ q.split = PairOf(half, here, HalfIn(l, OtherPane(half)))
                                 /\ q.tabs = SwapIn(l.tabs, HalfIn(l, half), here)
      BY <1>1, <2>8, <2>9, PlacedInPairFine
    <3> HIDE DEF q
    <3>2. m = q
      BY <2>11 DEF q
    <3> HIDE DEF m
    <3> QED BY <2>2, <2>8, <2>9, <3>1, <3>2
  <2>13. m.tabs = o.tabs
    <3> DEFINE w == o.tabs
    <3>1. w \in Seq(Ids) /\ Once(w) /\ here \in InSeq(w) /\ ph \in InSeq(w)
      BY <1>3, <2>6, <2>8, <2>9, FineFacts
    <3> HIDE DEF w
    <3>2. SwapIn(SwapIn(w, here, ph), ph, here) = w
      BY <3>1, SwapTwice
    <3>3. l.tabs = SwapIn(w, here, ph)
      BY <2>8 DEF w
    <3> QED BY <2>12, <3>2, <3>3 DEF w
  <2>14. PutBack(l, rev) = m
    <3>1. rev.displaced = here /\ rev.ph = ph /\ rev.pane = half
      BY <1>1, <1>6 DEF ph, half
    <3> QED BY <2>4, <2>9, <3>1 DEF PutBack
  <2> HIDE DEF m
  <2>15. Place(m, ph) = Place(o, ph)
    BY <2>13 DEF Place
  <2>16. ~IsHalf(m, ph)
    <3>1. ~IsHalf(o, ph) /\ o.split = b.split
      BY <1>3, <2>5
    <3> QED BY <2>12, <3>1 DEF IsHalf, Halves
  <2>17. WithoutAt(m.tabs, Place(m, ph)) = b.tabs /\ Len(m.tabs) > 1 /\ ph \in InSeq(m.tabs)
    BY <1>2, <1>4, <2>6, <2>13, <2>15 DEF t, n
  <2> QED BY <1>1, <2>12, <2>14, <2>16, <2>17, ClosedLast DEF ph
<1>7. CASE ~Shown(b)
  <2> HIDE DEF ph, half, t, n
  <2>1. l = PlacedBeside(o, ph, half) /\ ph \in InSeq(o.tabs)
    BY <1>1, <1>4, <1>5, <1>7, <1>2 DEF Placed
  <2>2. LayoutFine(l) /\ InSeq(l.tabs) = InSeq(o.tabs) /\ Len(l.tabs) = Len(o.tabs) /\ StandsAnew(o, l, ph)
    <3> DEFINE q == PlacedBeside(o, ph, half)
    <3>1. LayoutFine(q) /\ InSeq(q.tabs) = InSeq(o.tabs) /\ Len(q.tabs) = Len(o.tabs) /\ StandsAnew(o, q, ph)
      BY <1>1, <1>3, <1>4, <2>1, PlacedBesideFine
    <3> HIDE DEF q
    <3> QED BY <2>1, <3>1 DEF q
  <2>3. PICK at \in 1..(n + 1) : l.tabs = PutAt(t, at, <<ph>>)
    BY <1>4, <2>2 DEF StandsAnew
  <2>4. at \in 1..Len(l.tabs) /\ l.tabs[at] = ph /\ WithoutAt(l.tabs, at) = t
    <3> DEFINE r == l.tabs
    <3>1. r = PutAt(t, at, <<ph>>) /\ at \in 1..(Len(t) + 1)
      BY <2>3 DEF n
    <3> HIDE DEF r
    <3>2. at \in 1..Len(r) /\ r[at] = ph /\ WithoutAt(r, at) = t
      BY <1>2, <1>3, <3>1, WithoutPut
    <3> QED BY <3>2 DEF r
  <2>5. ph \in InSeq(l.tabs)
    BY <2>1, <2>2
  <2>6. Place(l, ph) = at
    BY <2>2, <2>4, <2>5, PlaceIsIn
  <2>7. PutBack(l, rev) = l
    BY <1>1, <1>7 DEF PutBack
  <2>8. Len(l.tabs) > 1 /\ WithoutAt(l.tabs, Place(l, ph)) = b.tabs
    BY <1>2, <1>4, <2>2, <2>4, <2>6 DEF t, n
  <2> QED BY <1>1, <1>7, <2>2, <2>5, <2>7, <2>8, ClosedLast DEF ph
<1> QED BY <1>6, <1>7

-----------------------------------------------------------------------------
(* Drops that connect, and their attempts (SplitConnect).                    *)
Stages == {"waiting", "login", "loading", "done", "message", "undone"}
Attempts == [server : PaneServers, pane : Panes \union {"none"}, ph : Nat, displaced : Nat, prev : Nat,
             stage : Stages, before : Layouts, touched : BOOLEAN]

(* What the layout l has to do with the attempt r: an untouched drop is what *)
(* stands there, until it is undone.                                       *)
DropOf(r, l) == DroppedAt(r.before, r.server, r.pane, r.ph, r.displaced, r.prev, l)
AttemptFine(r, l) ==
  /\ r.pane = "none" => r.stage \in {"login", "loading", "done"}
  /\ r.pane # "none" /\ ~r.touched /\ r.stage # "undone" => DropOf(r, l)
  /\ r.stage = "undone" /\ ~r.touched => Back(r.before, l)

(* The queue holds each attempt that waits once, and one attempt logs in.   *)
Frame(ats, queue, busy) ==
  /\ ats \in Seq(Attempts)
  /\ queue \in Seq(1..Len(ats)) /\ Once(queue)
  /\ \A i \in 1..Len(queue) : ats[queue[i]].stage = "waiting"
  /\ busy \in 0..Len(ats)
  /\ \A k \in 1..Len(ats) : ats[k].stage = "login" <=> busy = k

AllFine(ats, l) == \A k \in 1..Len(ats) : AttemptFine(ats[k], l)

SplitInv ==
  /\ LayoutFine(layout) /\ Frame(attempts, waiters, connecting) /\ AllFine(attempts, layout)
  /\ NoneForgotten /\ pendings \subseteq PaneServers /\ linked \subseteq PaneServers

StageOf(r, st) == [r EXCEPT !.stage = st]
Touched(r) == [r EXCEPT !.touched = TRUE, !.before = EmptyLayout]

LEMMA EmptyIsLayout == EmptyLayout \in Layouts
<1>1. NoSplit \in Splits
  BY DEF NoSplit, Splits
<1>2. <<>> \in Seq(Ids) /\ <<>> \in Seq(Nat)
  BY EmptySeq
<1> QED BY <1>1, <1>2 DEF EmptyLayout, Layouts

LEMMA StageIs ==
  ASSUME NEW r \in Attempts, NEW st \in Stages
  PROVE  LET q == StageOf(r, st) IN
         /\ q \in Attempts /\ q.stage = st /\ q.server = r.server /\ q.pane = r.pane /\ q.ph = r.ph
         /\ q.displaced = r.displaced /\ q.prev = r.prev /\ q.before = r.before /\ q.touched = r.touched
BY DEF Attempts, StageOf

LEMMA TouchedIs ==
  ASSUME NEW r \in Attempts
  PROVE  LET q == Touched(r) IN
         q \in Attempts /\ q.stage = r.stage /\ q.pane = r.pane /\ q.touched = TRUE /\ q.server = r.server
<1>1. EmptyLayout \in Layouts
  BY EmptyIsLayout
<1> QED BY <1>1 DEF Attempts, Touched

LEMMA TouchedFine ==
  ASSUME NEW r \in Attempts, NEW l, NEW l2, AttemptFine(r, l)
  PROVE  AttemptFine(Touched(r), l2)
<1> DEFINE q == Touched(r)
<1>1. q.stage = r.stage /\ q.pane = r.pane /\ q.touched = TRUE
  BY TouchedIs
<1> HIDE DEF q
<1>2. r.pane = "none" => r.stage \in {"login", "loading", "done"}
  BY Zenon DEF AttemptFine
<1>3. AttemptFine(q, l2)
  BY <1>1, <1>2, Zenon DEF AttemptFine
<1> QED BY <1>3 DEF q

LEMMA StageFine ==
  ASSUME NEW r \in Attempts, NEW l, AttemptFine(r, l), NEW st \in Stages, st # "undone", r.stage # "undone",
         r.pane = "none" => st \in {"login", "loading", "done"}
  PROVE  AttemptFine(StageOf(r, st), l)
<1> DEFINE q == StageOf(r, st)
<1>1. /\ q.stage = st /\ q.server = r.server /\ q.pane = r.pane /\ q.ph = r.ph
      /\ q.displaced = r.displaced /\ q.prev = r.prev /\ q.before = r.before /\ q.touched = r.touched
  BY StageIs
<1> HIDE DEF q
<1>2. r.pane # "none" /\ ~r.touched => DropOf(r, l)
  BY Zenon DEF AttemptFine
<1>3. q.pane # "none" /\ ~q.touched => DropOf(q, l)
  BY <1>1, <1>2, Zenon DEF DropOf
<1>4. AttemptFine(q, l)
  BY <1>1, <1>3, Zenon DEF AttemptFine
<1> QED BY <1>4 DEF q

-----------------------------------------------------------------------------
(* One attempt goes to another stage, the others are touched, the queue is   *)
(* drained.                                                                *)
LEMMA FrameFacts ==
  ASSUME NEW ats, NEW queue, NEW busy, Frame(ats, queue, busy)
  PROVE  /\ ats \in Seq(Attempts) /\ Len(ats) \in Nat /\ DOMAIN ats = 1..Len(ats)
         /\ \A k \in 1..Len(ats) : ats[k] \in Attempts
         /\ queue \in Seq(1..Len(ats)) /\ Once(queue) /\ Len(queue) \in Nat
         /\ \A i \in 1..Len(queue) : queue[i] \in 1..Len(ats) /\ ats[queue[i]].stage = "waiting"
         /\ busy \in 0..Len(ats)
         /\ \A k \in 1..Len(ats) : ats[k].stage = "login" <=> busy = k
BY DEF Frame

LEMMA StageAll ==
  ASSUME NEW ats \in Seq(Attempts), NEW k \in 1..Len(ats), NEW st \in Stages
  PROVE  LET new == Stage(ats, k, st) IN
         /\ new \in Seq(Attempts) /\ Len(new) = Len(ats)
         /\ \A j \in 1..Len(ats) : new[j] = IF j = k THEN StageOf(ats[k], st) ELSE ats[j]
<1> DEFINE new == Stage(ats, k, st)
           n == Len(ats)
<1>1. n \in Nat /\ DOMAIN ats = 1..n /\ \A j \in 1..n : ats[j] \in Attempts
  OBVIOUS
<1>2. new = [j \in 1..n |-> IF j = k THEN StageOf(ats[k], st) ELSE ats[j]]
  BY <1>1 DEF Stage, StageOf
<1>3. StageOf(ats[k], st) \in Attempts
  BY <1>1, StageIs
<1> HIDE DEF new
<1>4. /\ new \in [1..n -> Attempts] /\ DOMAIN new = 1..n
      /\ \A j \in 1..n : new[j] = IF j = k THEN StageOf(ats[k], st) ELSE ats[j]
  BY <1>1, <1>2, <1>3
<1>5. new \in Seq(Attempts) /\ Len(new) = n
  BY <1>1, <1>4
<1> QED BY <1>4, <1>5 DEF new

LEMMA TouchAll ==
  ASSUME NEW ats \in Seq(Attempts), NEW e
  PROVE  LET new == Touch(ats, e) IN
         /\ new \in Seq(Attempts) /\ Len(new) = Len(ats)
         /\ \A j \in 1..Len(ats) : new[j] = IF j = e THEN ats[j] ELSE Touched(ats[j])
<1> DEFINE new == Touch(ats, e)
           n == Len(ats)
<1>1. n \in Nat /\ DOMAIN ats = 1..n /\ \A j \in 1..n : ats[j] \in Attempts
  OBVIOUS
<1>2. new = [j \in 1..n |-> IF j = e THEN ats[j] ELSE Touched(ats[j])]
  BY <1>1 DEF Touch, Touched
<1>3. \A j \in 1..n : Touched(ats[j]) \in Attempts
  BY <1>1, TouchedIs
<1> HIDE DEF new
<1>4. /\ new \in [1..n -> Attempts] /\ DOMAIN new = 1..n
      /\ \A j \in 1..n : new[j] = IF j = e THEN ats[j] ELSE Touched(ats[j])
  BY <1>1, <1>2, <1>3
<1>5. new \in Seq(Attempts) /\ Len(new) = n
  BY <1>1, <1>4
<1> QED BY <1>4, <1>5 DEF new

LEMMA StageFrame ==
  ASSUME NEW ats, NEW queue, NEW busy, Frame(ats, queue, busy), NEW k \in 1..Len(ats),
         ats[k].stage # "waiting", NEW st \in Stages, st \notin {"waiting", "login"}
  PROVE  Frame(Stage(ats, k, st), queue, IF busy = k THEN 0 ELSE busy)
<1> DEFINE new == Stage(ats, k, st)
           free == IF busy = k THEN 0 ELSE busy
<1>1. /\ ats \in Seq(Attempts) /\ Len(ats) \in Nat /\ (\A j \in 1..Len(ats) : ats[j] \in Attempts)
      /\ queue \in Seq(1..Len(ats)) /\ Once(queue) /\ Len(queue) \in Nat
      /\ (\A i \in 1..Len(queue) : queue[i] \in 1..Len(ats) /\ ats[queue[i]].stage = "waiting")
      /\ busy \in 0..Len(ats) /\ (\A j \in 1..Len(ats) : ats[j].stage = "login" <=> busy = j)
  BY FrameFacts
<1>2. /\ new \in Seq(Attempts) /\ Len(new) = Len(ats)
      /\ \A j \in 1..Len(ats) : new[j] = IF j = k THEN StageOf(ats[k], st) ELSE ats[j]
  BY <1>1, StageAll
<1>3. StageOf(ats[k], st).stage = st
  BY <1>1, StageIs
<1> HIDE DEF new
<1>4. \A i \in 1..Len(queue) : new[queue[i]].stage = "waiting"
  BY <1>1, <1>2
<1>5. free \in 0..Len(ats) /\ \A j \in 1..Len(ats) : new[j].stage = "login" <=> free = j
  BY <1>1, <1>2, <1>3
<1> HIDE DEF free
<1>6. Frame(new, queue, free)
  BY <1>1, <1>2, <1>4, <1>5 DEF Frame
<1> QED BY <1>6 DEF new, free

LEMMA TouchFrame ==
  ASSUME NEW ats, NEW queue, NEW busy, Frame(ats, queue, busy), NEW e
  PROVE  Frame(Touch(ats, e), queue, busy)
<1> DEFINE new == Touch(ats, e)
<1>1. /\ ats \in Seq(Attempts) /\ Len(ats) \in Nat /\ (\A j \in 1..Len(ats) : ats[j] \in Attempts)
      /\ queue \in Seq(1..Len(ats)) /\ Once(queue) /\ Len(queue) \in Nat
      /\ (\A i \in 1..Len(queue) : queue[i] \in 1..Len(ats) /\ ats[queue[i]].stage = "waiting")
      /\ busy \in 0..Len(ats) /\ (\A j \in 1..Len(ats) : ats[j].stage = "login" <=> busy = j)
  BY FrameFacts
<1>2. /\ new \in Seq(Attempts) /\ Len(new) = Len(ats)
      /\ \A j \in 1..Len(ats) : new[j] = IF j = e THEN ats[j] ELSE Touched(ats[j])
  BY <1>1, TouchAll
<1>3. \A j \in 1..Len(ats) : Touched(ats[j]).stage = ats[j].stage
  BY <1>1, TouchedIs
<1> HIDE DEF new
<1>4. \A j \in 1..Len(ats) : new[j].stage = ats[j].stage
  BY <1>2, <1>3
<1>5. Frame(new, queue, busy)
  BY <1>1, <1>2, <1>4 DEF Frame
<1> QED BY <1>5 DEF new

LEMMA TouchFine ==
  ASSUME NEW ats \in Seq(Attempts), NEW l, NEW l2, NEW e,
         \A j \in 1..Len(ats) : j # e => AttemptFine(ats[j], l),
         e \in 1..Len(ats) => AttemptFine(ats[e], l2)
  PROVE  AllFine(Touch(ats, e), l2)
<1> DEFINE new == Touch(ats, e)
<1>1. /\ new \in Seq(Attempts) /\ Len(new) = Len(ats)
      /\ \A j \in 1..Len(ats) : new[j] = IF j = e THEN ats[j] ELSE Touched(ats[j])
  BY TouchAll
<1> HIDE DEF new
<1>2. ASSUME NEW j \in 1..Len(ats) PROVE AttemptFine(new[j], l2)
  <2>1. CASE j = e
    BY <1>1, <2>1, Zenon
  <2>2. CASE j # e
    <3>1. ats[j] \in Attempts /\ AttemptFine(ats[j], l)
      BY <2>2
    <3>2. AttemptFine(Touched(ats[j]), l2)
      BY <3>1, TouchedFine
    <3> QED BY <1>1, <2>2, <3>2, Zenon
  <2> QED BY <2>1, <2>2
<1>3. AllFine(new, l2)
  BY <1>1, <1>2 DEF AllFine
<1> QED BY <1>3 DEF new

LEMMA StageAllFine ==
  ASSUME NEW ats \in Seq(Attempts), NEW l, AllFine(ats, l), NEW k \in 1..Len(ats), NEW st \in Stages,
         st # "undone", ats[k].stage # "undone",
         ats[k].pane = "none" => st \in {"login", "loading", "done"}
  PROVE  AllFine(Stage(ats, k, st), l)
<1> DEFINE new == Stage(ats, k, st)
<1>1. /\ new \in Seq(Attempts) /\ Len(new) = Len(ats)
      /\ \A j \in 1..Len(ats) : new[j] = IF j = k THEN StageOf(ats[k], st) ELSE ats[j]
  BY StageAll
<1> HIDE DEF new
<1>2. ats[k] \in Attempts /\ \A j \in 1..Len(ats) : AttemptFine(ats[j], l)
  BY DEF AllFine
<1>3. AttemptFine(StageOf(ats[k], st), l)
  BY <1>2, StageFine
<1>4. \A j \in 1..Len(ats) : AttemptFine(new[j], l)
  BY <1>1, <1>2, <1>3, Zenon
<1>5. AllFine(new, l)
  BY <1>1, <1>4 DEF AllFine
<1> QED BY <1>5 DEF new

LEMMA DrainFine ==
  ASSUME NEW ats, NEW queue, NEW busy, Frame(ats, queue, busy), NEW l, AllFine(ats, l), Drain(ats, queue, busy)
  PROVE  /\ Frame(attempts', waiters', connecting') /\ AllFine(attempts', l)
         /\ waiters' # <<>> => connecting' # 0
<1>1. /\ ats \in Seq(Attempts) /\ Len(ats) \in Nat /\ (\A j \in 1..Len(ats) : ats[j] \in Attempts)
      /\ queue \in Seq(1..Len(ats)) /\ Once(queue) /\ Len(queue) \in Nat
      /\ (\A i \in 1..Len(queue) : queue[i] \in 1..Len(ats) /\ ats[queue[i]].stage = "waiting")
      /\ busy \in 0..Len(ats) /\ (\A j \in 1..Len(ats) : ats[j].stage = "login" <=> busy = j)
  BY FrameFacts
<1>2. CASE ~(busy = 0 /\ queue # <<>>)
  <2>1. attempts' = ats /\ waiters' = queue /\ connecting' = busy
    BY <1>2 DEF Drain
  <2> QED BY <1>2, <2>1
<1>3. CASE busy = 0 /\ queue # <<>>
  <2> DEFINE h == queue[1]
             new == Stage(ats, h, "login")
             rest == Tail(queue)
  <2>0. "login" \in Stages
    BY DEF Stages
  <2>1. 1 \in 1..Len(queue) /\ Head(queue) = h /\ h \in 1..Len(ats) /\ ats[h].stage = "waiting"
    BY <1>1, <1>3
  <2>2. attempts' = new /\ waiters' = rest /\ connecting' = h
    BY <1>3, <2>1, Zenon DEF Drain
  <2>3. rest \in Seq(1..Len(ats)) /\ Len(rest) = Len(queue) - 1 /\ \A i \in 1..Len(rest) : rest[i] = queue[i + 1]
    BY <1>1, <1>3
  <2> HIDE DEF rest
  <2>4. /\ new \in Seq(Attempts) /\ Len(new) = Len(ats)
        /\ \A j \in 1..Len(ats) : new[j] = IF j = h THEN StageOf(ats[h], "login") ELSE ats[j]
    BY <1>1, <2>1, <2>0, StageAll
  <2>5. StageOf(ats[h], "login").stage = "login"
    BY <1>1, <2>1, <2>0, StageIs
  <2>6. AllFine(new, l)
    BY <1>1, <2>1, StageAllFine DEF Stages
  <2> HIDE DEF new
  <2>7. \A i, j \in 1..Len(queue) : queue[i] = queue[j] => i = j
    BY <1>1 DEF Once
  <2> HIDE DEF h
  <2>8. queue[1] = h
    BY DEF h
  <2>9. \A i \in 1..Len(rest) : rest[i] # h /\ new[rest[i]].stage = "waiting"
    <3> SUFFICES ASSUME NEW i \in 1..Len(rest) PROVE rest[i] # h /\ new[rest[i]].stage = "waiting"
      OBVIOUS
    <3>1. Len(queue) \in Nat /\ Len(rest) = Len(queue) - 1 /\ i + 1 \in 1..Len(queue) /\ 1 \in 1..Len(queue)
      BY <1>1, <2>3
    <3>2. rest[i] = queue[i + 1] /\ i + 1 # 1
      BY <2>3, <3>1
    <3>3. rest[i] # h
      BY <2>7, <2>8, <3>1, <3>2
    <3>4. rest[i] \in 1..Len(ats) /\ ats[rest[i]].stage = "waiting"
      BY <1>1, <3>1, <3>2
    <3>5. new[rest[i]] = ats[rest[i]]
      BY <2>4, <3>3, <3>4
    <3> QED BY <3>3, <3>4, <3>5
  <2>10. Once(rest)
    <3>1. ASSUME NEW i \in 1..Len(rest), NEW j \in 1..Len(rest), rest[i] = rest[j] PROVE i = j
      <4>3. Len(queue) \in Nat /\ Len(rest) = Len(queue) - 1
        BY <1>1, <2>3
      <4>4. rest[i] = queue[i + 1] /\ rest[j] = queue[j + 1]
        BY <2>3
      <4>1. i + 1 \in 1..Len(queue) /\ j + 1 \in 1..Len(queue) /\ queue[i + 1] = queue[j + 1] /\ i \in Int /\ j \in Int
        <5>1. i + 1 \in 1..Len(queue) /\ j + 1 \in 1..Len(queue) /\ i \in Int /\ j \in Int
          BY <4>3
        <5> QED BY <5>1, <4>4, <3>1
      <4>2. i + 1 = j + 1
        BY <2>7, <4>1, Zenon
      <4> QED BY <4>1, <4>2
    <3> QED BY <3>1, Zenon DEF Once
  <2>11. \A j \in 1..Len(ats) : new[j].stage = "login" <=> h = j
    BY <1>1, <1>3, <2>4, <2>5
  <2>12. Frame(new, rest, h)
    BY <1>1, <2>1, <2>3, <2>4, <2>9, <2>10, <2>11 DEF Frame
  <2>13. h # 0
    BY <1>1, <2>1
  <2> QED BY <2>2, <2>6, <2>12, <2>13
<1> QED BY <1>2, <1>3

LEMMA AppendFrame ==
  ASSUME NEW ats, NEW queue, NEW busy, Frame(ats, queue, busy), NEW r \in Attempts
  PROVE  LET new == Append(ats, r)
             n == Len(ats) + 1
         IN  /\ new \in Seq(Attempts) /\ Len(new) = n /\ new[n] = r /\ \A j \in 1..Len(ats) : new[j] = ats[j]
             /\ r.stage = "waiting" => Frame(new, Append(queue, n), busy)
             /\ r.stage = "login" /\ busy = 0 => Frame(new, queue, n)
<1> DEFINE new == Append(ats, r)
           n == Len(ats) + 1
           longer == Append(queue, n)
<1>1. /\ ats \in Seq(Attempts) /\ Len(ats) \in Nat /\ (\A j \in 1..Len(ats) : ats[j] \in Attempts)
      /\ queue \in Seq(1..Len(ats)) /\ Once(queue) /\ Len(queue) \in Nat
      /\ (\A i \in 1..Len(queue) : queue[i] \in 1..Len(ats) /\ ats[queue[i]].stage = "waiting")
      /\ busy \in 0..Len(ats) /\ (\A j \in 1..Len(ats) : ats[j].stage = "login" <=> busy = j)
  BY FrameFacts
<1>2. new \in Seq(Attempts) /\ Len(new) = n /\ new[n] = r /\ \A j \in 1..Len(ats) : new[j] = ats[j]
  BY <1>1
<1>3. queue \in Seq(1..n)
  BY <1>1
<1>4. /\ longer \in Seq(1..n) /\ Len(longer) = Len(queue) + 1 /\ longer[Len(queue) + 1] = n
      /\ \A i \in 1..Len(queue) : longer[i] = queue[i]
  BY <1>1, <1>3
<1> HIDE DEF new, longer
<1>5. ASSUME r.stage = "waiting" PROVE Frame(new, longer, busy)
  <2>1. \A i \in 1..Len(longer) : new[longer[i]].stage = "waiting"
    <3>1. ASSUME NEW i \in 1..Len(longer) PROVE new[longer[i]].stage = "waiting"
      <4>1. CASE i \in 1..Len(queue)
        BY <1>1, <1>2, <1>4, <4>1
      <4>2. CASE i = Len(queue) + 1
        BY <1>2, <1>4, <1>5, <4>2
      <4> QED BY <1>1, <1>4, <4>1, <4>2
    <3> QED BY <3>1
  <2>2. Once(longer)
    <3>1. ASSUME NEW i \in 1..Len(longer), NEW j \in 1..Len(longer), longer[i] = longer[j] PROVE i = j
      <4>1. \A q \in 1..Len(queue) : longer[q] \in 1..Len(ats)
        BY <1>1, <1>4
      <4>2. CASE i \in 1..Len(queue) /\ j \in 1..Len(queue)
        <5>1. queue[i] = queue[j]
          BY <1>4, <3>1, <4>2
        <5> QED BY <1>1, <4>2, <5>1 DEF Once
      <4>3. CASE ~(i \in 1..Len(queue) /\ j \in 1..Len(queue))
        BY <1>1, <1>4, <3>1, <4>1, <4>3
      <4> QED BY <4>2, <4>3
    <3> QED BY <3>1, Zenon DEF Once
  <2>3. \A j \in 1..n : new[j].stage = "login" <=> busy = j
    <3>1. ASSUME NEW j \in 1..n PROVE new[j].stage = "login" <=> busy = j
      <4>1. CASE j \in 1..Len(ats)
        BY <1>1, <1>2, <4>1
      <4>2. CASE j = n
        BY <1>1, <1>2, <1>5, <4>2
      <4> QED BY <1>1, <4>1, <4>2
    <3> QED BY <3>1
  <2>4. busy \in 0..n
    BY <1>1
  <2> QED BY <1>2, <1>4, <2>1, <2>2, <2>3, <2>4 DEF Frame
<1>6. ASSUME r.stage = "login", busy = 0 PROVE Frame(new, queue, n)
  <2>1. \A i \in 1..Len(queue) : new[queue[i]].stage = "waiting"
    BY <1>1, <1>2
  <2>2. \A j \in 1..n : new[j].stage = "login" <=> n = j
    <3>1. ASSUME NEW j \in 1..n PROVE new[j].stage = "login" <=> n = j
      <4>1. CASE j \in 1..Len(ats)
        BY <1>1, <1>2, <1>6, <4>1
      <4>2. CASE j = n
        BY <1>1, <1>2, <1>6, <4>2
      <4> QED BY <1>1, <4>1, <4>2
    <3> QED BY <3>1
  <2>3. n \in 0..n
    BY <1>1
  <2> QED BY <1>1, <1>2, <1>3, <2>1, <2>2, <2>3 DEF Frame
<1> QED BY <1>2, <1>5, <1>6 DEF new, longer

-----------------------------------------------------------------------------
(* The steps of SplitConnect.                                              *)
LEMMA ServerFacts ==
  ASSUME NEW server \in PaneServers
  PROVE  server \in Nat /\ 0 \in Nat
BY PaneAssumption

LEMMA DropInPaneStep ==
  ASSUME SplitInv, NEW server \in PaneServers, NEW half \in Panes, DropInPane(server, half)
  PROVE  SplitInv'
<1> DEFINE opened == Opened(layout, server, FALSE)
           ph == NextId(layout)
           displaced == IF Shown(layout) THEN HalfIn(layout, half) ELSE 0
           n == Len(attempts) + 1
           r == Attempt(server, half, ph, displaced, layout.active)
           longer == Append(attempts, r)
           l2 == Placed(opened, ph, half)
<1>1. LayoutFine(layout) /\ Frame(attempts, waiters, connecting) /\ AllFine(attempts, layout)
  BY DEF SplitInv
<1>2. layout' = l2 /\ Drain(Touch(longer, n), Append(waiters, n), connecting)
  BY Zenon DEF DropInPane
<1>3. LayoutFine(opened) /\ ph \in Ids
  BY <1>1, ServerFacts, OpenedFine
<1>4. LayoutFine(l2)
  BY <1>3, PlacedFine
<1>5. displaced \in Nat /\ layout.active \in Nat /\ ph \in Nat
  <2>1. layout.active \in Nat /\ layout.split \in Splits
    BY <1>1, FineFacts
  <2> QED BY <1>3, <2>1 DEF HalfIn, Splits, Ids
<1>6. DroppedAt(layout, server, half, ph, displaced, layout.active, l2)
  BY <1>1, ServerFacts, Zenon DEF DroppedAt
<1>7. /\ r \in Attempts /\ r.server = server /\ r.pane = half /\ r.ph = ph /\ r.displaced = displaced
      /\ r.prev = layout.active /\ r.stage = "waiting" /\ r.before = layout /\ r.touched = FALSE
  <2>1. half \in Panes \union {"none"}
    OBVIOUS
  <2> DEFINE prev == layout.active
  <2> HIDE DEF displaced, ph, prev
  <2>2. /\ Attempt(server, half, ph, displaced, prev) \in Attempts
        /\ Attempt(server, half, ph, displaced, prev).server = server
        /\ Attempt(server, half, ph, displaced, prev).pane = half
        /\ Attempt(server, half, ph, displaced, prev).ph = ph
        /\ Attempt(server, half, ph, displaced, prev).displaced = displaced
        /\ Attempt(server, half, ph, displaced, prev).prev = prev
        /\ Attempt(server, half, ph, displaced, prev).stage = "waiting"
        /\ Attempt(server, half, ph, displaced, prev).before = layout
        /\ Attempt(server, half, ph, displaced, prev).touched = FALSE
    <3>1. displaced \in Nat /\ ph \in Nat /\ prev \in Nat /\ LayoutFine(layout)
      BY <1>1, <1>5 DEF prev
    <3>2. layout \in Layouts /\ "waiting" \in Stages
      BY <1>1, FineFacts DEF Stages
    <3>3. Attempt(server, half, ph, displaced, prev) \in Attempts
      BY <2>1, <3>1, <3>2 DEF Attempts, Attempt
    <3> QED BY <3>3 DEF Attempt
  <2> QED BY <2>2 DEF prev
<1> HIDE DEF l2, r, displaced, ph
<1>8. DropOf(r, l2)
  BY <1>6, <1>7, Zenon DEF DropOf
<1>9. AttemptFine(r, l2)
  BY <1>7, <1>8 DEF AttemptFine, Panes
<1>10. /\ longer \in Seq(Attempts) /\ Len(longer) = n /\ longer[n] = r /\ (\A j \in 1..Len(attempts) : longer[j] = attempts[j])
       /\ Frame(longer, Append(waiters, n), connecting)
  BY <1>1, <1>7, AppendFrame
<1>11. Len(attempts) \in Nat
  BY <1>1, FrameFacts
<1> HIDE DEF longer
<1>12. Frame(Touch(longer, n), Append(waiters, n), connecting)
  BY <1>10, TouchFrame
<1>13. \A j \in 1..Len(longer) : j # n => AttemptFine(longer[j], layout)
  <2>1. ASSUME NEW j \in 1..Len(longer), j # n PROVE AttemptFine(longer[j], layout)
    <3>1. j \in 1..Len(attempts)
      BY <1>10, <1>11, <2>1
    <3> QED BY <1>1, <1>10, <3>1, Zenon DEF AllFine
  <2> QED BY <2>1
<1>14. AllFine(Touch(longer, n), l2)
  BY <1>9, <1>10, <1>13, TouchFine
<1>15. /\ Frame(attempts', waiters', connecting') /\ AllFine(attempts', l2)
       /\ waiters' # <<>> => connecting' # 0
  BY <1>2, <1>12, <1>14, DrainFine
<1>16. pendings' \subseteq PaneServers /\ linked' \subseteq PaneServers
  BY Zenon DEF DropInPane, SplitInv
<1> QED BY <1>2, <1>4, <1>15, <1>16 DEF SplitInv, NoneForgotten

(* The user, or an agent, changes the tabs alone.                           *)
LEMMA TabsChange ==
  ASSUME SplitInv, LayoutFine(layout'), attempts' = Touch(attempts, 0),
         UNCHANGED <<waiters, connecting, pendings, linked>>
  PROVE  SplitInv'
<1>1. Frame(attempts, waiters, connecting) /\ AllFine(attempts, layout)
  BY DEF SplitInv
<1>2. Frame(attempts', waiters, connecting)
  BY <1>1, TouchFrame
<1>3. attempts \in Seq(Attempts) /\ 0 \notin 1..Len(attempts)
  BY <1>1, FrameFacts
<1>4. AllFine(attempts', layout')
  BY <1>1, <1>3, TouchFine DEF AllFine
<1> QED BY <1>2, <1>4 DEF SplitInv, NoneForgotten

LEMMA DropLinkedStep ==
  ASSUME SplitInv, NEW server \in PaneServers, NEW half \in Panes, DropLinked(server, half)
  PROVE  SplitInv'
<1>1. LayoutFine(layout)
  BY DEF SplitInv
<1>2. LayoutFine(Opened(layout, server, FALSE))
  BY <1>1, ServerFacts, OpenedFine
<1>3. \A id : LayoutFine(Placed(layout, id, half)) /\ LayoutFine(Placed(Opened(layout, server, FALSE), id, half))
  BY <1>1, <1>2, PlacedFine
<1>4. LayoutFine(layout')
  BY <1>3, Zenon DEF DropLinked
<1>5. attempts' = Touch(attempts, 0) /\ UNCHANGED <<waiters, connecting, pendings, linked>>
  BY DEF DropLinked
<1> QED BY <1>4, <1>5, TabsChange

LEMMA TabCommandStep ==
  ASSUME SplitInv, TabCommand
  PROVE  SplitInv'
<1>1. LayoutFine(layout) /\ ToSet(layout.tabs) = InSeq(layout.tabs)
  <2>1. LayoutFine(layout)
    BY DEF SplitInv
  <2>2. DOMAIN layout.tabs = 1..Len(layout.tabs)
    BY <2>1, FineFacts
  <2> QED BY <2>1, <2>2, Zenon DEF ToSet, InSeq
<1> DEFINE A1 == {Opened(layout, 0, TRUE)}
           A2 == {Closed(layout, id) : id \in ToSet(layout.tabs)}
           A3 == {Activated(layout, id) : id \in ToSet(layout.tabs)}
           A4 == {Cycled(layout, forward) : forward \in BOOLEAN}
           A5 == {Moved(layout, id, before) : id \in ToSet(layout.tabs), before \in ToSet(layout.tabs) \union {0}}
           A6 == {Placed(layout, id, half) : id \in ToSet(layout.tabs), half \in Panes}
           A7 == {Swapped(layout), Toggled(layout), Unsplit(layout)}
           A8 == {Adopted(layout, server, FALSE) : server \in PaneServers}
<1>2. \A to \in UserLayouts : LayoutFine(to)
  <2>1. \A to \in A1 : LayoutFine(to)
    <3>1. 0 \in Nat /\ TRUE \in BOOLEAN
      OBVIOUS
    <3>2. LayoutFine(Opened(layout, 0, TRUE))
      BY <1>1, <3>1, OpenedFine
    <3> QED BY <3>2
  <2>2. \A to \in A2 : LayoutFine(to)
    BY <1>1, ClosedFine
  <2>3. \A to \in A3 : LayoutFine(to)
    BY <1>1, ActivatedFine
  <2>4. \A to \in A4 : LayoutFine(to)
    BY <1>1, CycledFine
  <2>5. \A to \in A5 : LayoutFine(to)
    BY <1>1, MovedFine
  <2>6. \A to \in A6 : LayoutFine(to)
    BY <1>1, PlacedFine
  <2>7. \A to \in A7 : LayoutFine(to)
    BY <1>1, SwappedFine, ToggledFine, UnsplitFine
  <2>8. \A to \in A8 : LayoutFine(to)
    BY <1>1, ServerFacts, AdoptedFine
  <2>9. UserLayouts = A1 \union A2 \union A3 \union A4 \union A5 \union A6 \union A7 \union A8
    BY DEF UserLayouts
  <2> HIDE DEF A1, A2, A3, A4, A5, A6, A7, A8
  <2> QED BY <2>1, <2>2, <2>3, <2>4, <2>5, <2>6, <2>7, <2>8, <2>9
<1>3. LayoutFine(layout')
  BY <1>2, Zenon DEF TabCommand
<1>4. attempts' = Touch(attempts, 0) /\ UNCHANGED <<waiters, connecting, pendings, linked>>
  BY DEF TabCommand
<1> QED BY <1>3, <1>4, TabsChange

LEMMA ToolbarStep ==
  ASSUME SplitInv, NEW server \in PaneServers, ToolbarConnect(server)
  PROVE  SplitInv'
<1> DEFINE r == [Attempt(server, "none", 0, 0, 0) EXCEPT !.stage = "login"]
           n == Len(attempts) + 1
<1>1. LayoutFine(layout) /\ Frame(attempts, waiters, connecting) /\ AllFine(attempts, layout)
  BY DEF SplitInv
<1>2. /\ connecting = 0 /\ attempts' = Append(attempts, r) /\ connecting' = n
      /\ UNCHANGED <<layout, waiters, pendings, linked>>
  BY DEF ToolbarConnect
<1>3. r = StageOf(Attempt(server, "none", 0, 0, 0), "login")
  BY Zenon DEF StageOf
<1> HIDE DEF r
<1>4. Attempt(server, "none", 0, 0, 0) \in Attempts /\ "login" \in Stages
  <2>1. layout \in Layouts /\ "waiting" \in Stages /\ "login" \in Stages
    BY <1>1, FineFacts DEF Stages
  <2> QED BY <2>1 DEF Attempts, Attempt
<1>5. r \in Attempts /\ r.stage = "login" /\ r.pane = "none"
  <2>1. Attempt(server, "none", 0, 0, 0).pane = "none"
    BY DEF Attempt
  <2> QED BY <1>3, <1>4, <2>1, StageIs
<1>6. AttemptFine(r, layout)
  BY <1>5 DEF AttemptFine
<1>7. Len(attempts) \in Nat /\ Frame(attempts', waiters, n)
  BY <1>1, <1>2, <1>5, FrameFacts, AppendFrame
<1>8. Len(attempts') = n /\ attempts'[n] = r /\ \A j \in 1..Len(attempts) : attempts'[j] = attempts[j]
  BY <1>1, <1>2, <1>5, AppendFrame
<1>9. AllFine(attempts', layout)
  <2>1. ASSUME NEW j \in 1..Len(attempts') PROVE AttemptFine(attempts'[j], layout)
    <3>1. CASE j \in 1..Len(attempts)
      BY <1>1, <1>8, <3>1, Zenon DEF AllFine
    <3>2. CASE j = n
      BY <1>6, <1>8, <3>2, Zenon
    <3> QED BY <1>7, <1>8, <2>1, <3>1, <3>2
  <2> QED BY <2>1 DEF AllFine
<1>10. n # 0
  BY <1>7
<1> QED BY <1>1, <1>2, <1>7, <1>9, <1>10 DEF SplitInv, NoneForgotten

(* The attempt that logs in is one of them, in that stage.                  *)
LEMMA SplitBusyFacts ==
  ASSUME SplitInv, NEW a \in Numbers
  PROVE  /\ attempts \in Seq(Attempts) /\ a \in 1..Len(attempts) /\ attempts[a] \in Attempts
         /\ attempts[a].server \in PaneServers /\ attempts[a].stage \in Stages
         /\ connecting = a <=> attempts[a].stage = "login"
         /\ AttemptFine(attempts[a], layout)
         /\ LayoutFine(layout) /\ Frame(attempts, waiters, connecting) /\ AllFine(attempts, layout)
<1>1. LayoutFine(layout) /\ Frame(attempts, waiters, connecting) /\ AllFine(attempts, layout)
  BY DEF SplitInv
<1>2. attempts \in Seq(Attempts) /\ DOMAIN attempts = 1..Len(attempts)
  BY <1>1, FrameFacts
<1>3. a \in 1..Len(attempts)
  BY <1>2 DEF Numbers
<1>4. attempts[a] \in Attempts /\ (attempts[a].stage = "login" <=> connecting = a)
  BY <1>1, <1>3, FrameFacts
<1>5. attempts[a].server \in PaneServers /\ attempts[a].stage \in Stages
  BY <1>4 DEF Attempts
<1>6. AttemptFine(attempts[a], layout)
  BY <1>1, <1>3 DEF AllFine
<1> QED BY <1>1, <1>2, <1>3, <1>4, <1>5, <1>6

(* The dropped server's tab is the active one.                              *)
LEMMA DroppedShows ==
  ASSUME NEW b, NEW server, NEW half, NEW ph, NEW displaced, NEW prev, NEW l,
         DroppedAt(b, server, half, ph, displaced, prev, l)
  PROVE  l.active = ph /\ l.srv[ph] = server
<1> DEFINE o == Opened(b, server, FALSE)
<1>1. LayoutFine(b) /\ server \in Nat /\ half \in Panes /\ ph = NextId(b) /\ l = Placed(o, ph, half)
  BY Zenon DEF DroppedAt
<1>2. /\ LayoutFine(o) /\ o.tabs = Append(b.tabs, ph) /\ o.active = b.active /\ o.srv[ph] = server
      /\ ph \notin InSeq(b.tabs) /\ o.split = b.split
  BY <1>1, OpenedFine
<1> HIDE DEF o
<1>3. Len(o.tabs) >= 2 /\ Has(o, ph)
  <2> DEFINE t == b.tabs
             u == Append(t, ph)
  <2>1. t \in Seq(Ids) /\ Len(t) \in Nat /\ Len(t) >= 1 /\ ph \in Ids
    BY <1>1, FineFacts, OpenedFine
  <2> HIDE DEF t
  <2>2. InSeq(u) = InSeq(t) \cup {ph} /\ Len(u) = Len(t) + 1
    BY <2>1, AppendFacts, AppendProperties
  <2> HIDE DEF u
  <2>3. o.tabs = u
    BY <1>2 DEF u, t
  <2>4. ph \in InSeq(o.tabs)
    BY <2>2, <2>3
  <2>5. Has(o, ph)
    BY <1>2, <2>4, FineFacts
  <2> QED BY <2>1, <2>2, <2>3, <2>5
<1>4. DropAction(o, ph, half) # "none"
  <2>1. CASE ~Shown(o)
    <3>1. DropAction(o, ph, half) = "split"
      BY <1>3, <2>1 DEF DropAction
    <3> QED BY <3>1
  <2>2. CASE Shown(o)
    <3>1. b.split # NoSplit
      BY <1>2, <2>2 DEF Shown, IsHalf
    <3>2. HalfIn(b, half) \in InSeq(b.tabs) /\ HalfIn(o, half) = HalfIn(b, half)
      BY <1>1, <1>2, <3>1, HalvesAre DEF HalfIn
    <3>3. HalfIn(o, half) # ph
      BY <1>2, <3>2
    <3>4. DropAction(o, ph, half) = IF IsHalf(o, ph) THEN "swap" ELSE "replace"
      BY <1>3, <2>2, <3>3 DEF DropAction
    <3> QED BY <3>4
  <2> QED BY <2>1, <2>2
<1>5. l.active = ph /\ l.srv = o.srv
  BY <1>1, <1>2, <1>3, <1>4, PlacedFine
<1> QED BY <1>2, <1>5

LEMMA LoggedInStep ==
  ASSUME SplitInv, NEW a \in Numbers, LoggedIn(a)
  PROVE  SplitInv'
<1> DEFINE r == attempts[a]
           staged == Stage(attempts, a, "loading")
           l2 == Adopted(layout, r.server, TRUE)
<1>1. /\ attempts \in Seq(Attempts) /\ a \in 1..Len(attempts) /\ r \in Attempts
      /\ r.server \in PaneServers /\ (connecting = a <=> r.stage = "login") /\ AttemptFine(r, layout)
      /\ LayoutFine(layout) /\ Frame(attempts, waiters, connecting) /\ AllFine(attempts, layout)
  BY SplitBusyFacts
<1>2. /\ connecting = a /\ layout' = l2 /\ linked' = linked \union {r.server} /\ UNCHANGED pendings
      /\ Drain(Touch(staged, a), waiters, 0)
  BY DEF LoggedIn
<1>3. r.stage = "login" /\ "loading" \in Stages
  BY <1>1, <1>2 DEF Stages
<1>4. r.server \in Nat /\ TRUE \in BOOLEAN
  BY <1>1, ServerFacts
<1>5. LayoutFine(l2) /\ (layout.srv[layout.active] = r.server => l2 = layout)
  BY <1>1, <1>4, AdoptedFine
<1>6. Frame(staged, waiters, 0)
  <2>1. Frame(staged, waiters, IF connecting = a THEN 0 ELSE connecting)
    BY <1>1, <1>3, StageFrame
  <2> QED BY <1>2, <2>1
<1>7. AllFine(staged, layout)
  BY <1>1, <1>3, StageAllFine
<1>8. staged \in Seq(Attempts) /\ Len(staged) = Len(attempts) /\ staged[a] = StageOf(r, "loading")
  BY <1>1, <1>3, StageAll
<1>9. AttemptFine(staged[a], l2)
  <2> DEFINE q == StageOf(r, "loading")
  <2>1. /\ q.stage = "loading" /\ q.server = r.server /\ q.pane = r.pane /\ q.ph = r.ph
        /\ q.displaced = r.displaced /\ q.prev = r.prev /\ q.before = r.before /\ q.touched = r.touched
    BY <1>1, <1>3, StageIs
  <2>2. ASSUME r.pane # "none", ~r.touched PROVE l2 = layout
    <3>1. DropOf(r, layout)
      BY <1>1, <1>3, <2>2 DEF AttemptFine
    <3>2. layout.active = r.ph /\ layout.srv[r.ph] = r.server
      BY <3>1, DroppedShows DEF DropOf
    <3> QED BY <1>5, <3>2
  <2>3. AttemptFine(q, layout)
    BY <1>7, <1>8, <1>1, Zenon DEF AllFine
  <2> HIDE DEF q, l2
  <2>4. q.pane # "none" /\ ~q.touched => DropOf(q, l2)
    BY <2>1, <2>2, <2>3 DEF AttemptFine
  <2>5. AttemptFine(q, l2)
    BY <2>1, <2>4 DEF AttemptFine
  <2> QED BY <1>8, <2>5 DEF q
<1>10. Frame(Touch(staged, a), waiters, 0)
  BY <1>6, TouchFrame
<1>11. \A j \in 1..Len(staged) : j # a => AttemptFine(staged[j], layout)
  BY <1>7 DEF AllFine
<1> HIDE DEF staged, l2
<1>12. AllFine(Touch(staged, a), l2)
  BY <1>8, <1>9, <1>11, TouchFine
<1>13. /\ Frame(attempts', waiters', connecting') /\ AllFine(attempts', l2)
       /\ waiters' # <<>> => connecting' # 0
  BY <1>2, <1>10, <1>12, DrainFine
<1>14. pendings' \subseteq PaneServers /\ linked' \subseteq PaneServers
  BY <1>1, <1>2 DEF SplitInv
<1> QED BY <1>2, <1>5, <1>13, <1>14 DEF SplitInv, NoneForgotten

LEMMA AttemptDoneStep ==
  ASSUME SplitInv, NEW a \in Numbers, AttemptDone(a)
  PROVE  SplitInv'
<1> DEFINE r == attempts[a]
           new == Stage(attempts, a, "done")
<1>1. /\ attempts \in Seq(Attempts) /\ a \in 1..Len(attempts) /\ (connecting = a <=> r.stage = "login")
      /\ LayoutFine(layout) /\ Frame(attempts, waiters, connecting) /\ AllFine(attempts, layout)
  BY SplitBusyFacts
<1>2. /\ r.stage = "loading" /\ attempts' = new /\ UNCHANGED <<layout, waiters, connecting, linked>>
      /\ pendings' \subseteq pendings
  BY Zenon DEF AttemptDone, At
<1>3. "done" \in Stages
  BY DEF Stages
<1>4. Frame(new, waiters, connecting)
  <2>1. Frame(new, waiters, IF connecting = a THEN 0 ELSE connecting)
    BY <1>1, <1>2, <1>3, StageFrame
  <2> QED BY <1>1, <1>2, <2>1
<1>5. AllFine(new, layout)
  BY <1>1, <1>2, <1>3, StageAllFine
<1> HIDE DEF new
<1> QED BY <1>1, <1>2, <1>4, <1>5 DEF SplitInv, NoneForgotten

(* An attempt whose login ends otherwise; the next one starts.              *)
LEMMA EndFacts ==
  ASSUME SplitInv, NEW a \in Numbers
  PROVE  /\ EndOf(a) \in Stages /\ EndOf(a) \notin {"waiting", "login", "undone"}
         /\ attempts[a].pane = "none" => EndOf(a) \in {"login", "loading", "done"}
BY DEF EndOf, Stages

LEMMA EndedFine ==
  ASSUME NEW ats, Frame(ats, waiters, 0), AllFine(ats, layout), SplitInv, layout' = layout,
         Drain(ats, waiters, 0), pendings' \subseteq pendings, linked' \subseteq linked
  PROVE  SplitInv'
<1>1. /\ Frame(attempts', waiters', connecting') /\ AllFine(attempts', layout)
      /\ waiters' # <<>> => connecting' # 0
  BY DrainFine
<1> QED BY <1>1 DEF SplitInv, NoneForgotten

LEMMA LoginFailsStep ==
  ASSUME SplitInv, NEW a \in Numbers, LoginFails(a)
  PROVE  SplitInv'
<1> DEFINE r == attempts[a]
           st == EndOf(a)
           new == Stage(attempts, a, st)
<1>1. /\ attempts \in Seq(Attempts) /\ a \in 1..Len(attempts) /\ (connecting = a <=> r.stage = "login")
      /\ LayoutFine(layout) /\ Frame(attempts, waiters, connecting) /\ AllFine(attempts, layout)
  BY SplitBusyFacts
<1>2. /\ connecting = a /\ Drain(new, waiters, 0) /\ layout' = layout
      /\ pendings' \subseteq pendings /\ linked' \subseteq linked
  BY Zenon DEF LoginFails
<1>3. /\ st \in Stages /\ st \notin {"waiting", "login", "undone"}
      /\ r.pane = "none" => st \in {"login", "loading", "done"}
  BY EndFacts
<1>4. r.stage = "login"
  BY <1>1, <1>2
<1> HIDE DEF st
<1>5. Frame(new, waiters, 0)
  <2>1. Frame(new, waiters, IF connecting = a THEN 0 ELSE connecting)
    BY <1>1, <1>3, <1>4, StageFrame
  <2> QED BY <1>2, <2>1
<1>6. AllFine(new, layout)
  BY <1>1, <1>3, <1>4, StageAllFine
<1> HIDE DEF new
<1> QED BY <1>2, <1>5, <1>6, EndedFine

LEMMA TimedOutStep ==
  ASSUME SplitInv, NEW a \in Numbers, TimedOut(a)
  PROVE  SplitInv'
<1> DEFINE r == attempts[a]
           own == Stage(attempts, a, "message")
           hit == connecting
           st == EndOf(hit)
           gone == IF hit = a THEN own ELSE Stage(own, hit, st)
<1>1. /\ attempts \in Seq(Attempts) /\ a \in 1..Len(attempts) /\ (connecting = a <=> r.stage = "login")
      /\ LayoutFine(layout) /\ Frame(attempts, waiters, connecting) /\ AllFine(attempts, layout)
  BY SplitBusyFacts
<1>2. /\ r.stage \in {"login", "loading"} /\ r.pane # "none" /\ hit # 0
      /\ Drain(gone, waiters, 0) /\ layout' = layout
      /\ pendings' \subseteq pendings /\ linked' \subseteq linked
  BY DEF TimedOut, OwnKeyLogsIn
<1>3. hit \in Numbers /\ hit \in 1..Len(attempts) /\ attempts[hit].stage = "login"
  BY <1>1, <1>2, FrameFacts DEF Numbers
<1>4. /\ st \in Stages /\ st \notin {"waiting", "login", "undone"}
      /\ attempts[hit].pane = "none" => st \in {"login", "loading", "done"}
  BY <1>3, EndFacts
<1>5. "message" \in Stages
  BY DEF Stages
<1>6. Frame(own, waiters, IF hit = a THEN 0 ELSE hit)
  BY <1>1, <1>2, <1>5, StageFrame
<1>7. AllFine(own, layout)
  BY <1>1, <1>2, <1>5, StageAllFine
<1>8. /\ own \in Seq(Attempts) /\ Len(own) = Len(attempts)
      /\ hit # a => own[hit] = attempts[hit]
  BY <1>1, <1>3, <1>5, StageAll
<1> HIDE DEF own, st
<1>9. CASE hit = a
  BY <1>2, <1>6, <1>7, <1>9, EndedFine
<1>10. CASE hit # a
  <2>1. Frame(own, waiters, hit) /\ gone = Stage(own, hit, st) /\ hit \in 1..Len(own)
    BY <1>3, <1>6, <1>8, <1>10
  <2>2. Frame(gone, waiters, IF hit = hit THEN 0 ELSE hit)
    BY <1>3, <1>4, <1>8, <1>10, <2>1, StageFrame
  <2>3. AllFine(gone, layout)
    BY <1>3, <1>4, <1>7, <1>8, <1>10, <2>1, StageAllFine
  <2> HIDE DEF gone
  <2> QED BY <1>2, <2>2, <2>3, EndedFine
<1> QED BY <1>9, <1>10

LEMMA MessageClosedStep ==
  ASSUME SplitInv, NEW a \in Numbers, MessageClosed(a)
  PROVE  SplitInv'
<1> DEFINE r == attempts[a]
           staged == Stage(attempts, a, "undone")
           l2 == Reverted(layout, r)
           q == StageOf(r, "undone")
<1>1. /\ attempts \in Seq(Attempts) /\ a \in 1..Len(attempts) /\ (connecting = a <=> r.stage = "login")
      /\ LayoutFine(layout) /\ Frame(attempts, waiters, connecting) /\ AllFine(attempts, layout)
      /\ r \in Attempts /\ AttemptFine(r, layout)
  BY SplitBusyFacts
<1>2. /\ r.stage = "message" /\ layout' = l2 /\ attempts' = Touch(staged, a)
      /\ UNCHANGED <<waiters, connecting, pendings, linked>>
  BY DEF MessageClosed, At
<1>3. "undone" \in Stages
  BY DEF Stages
<1>4. Frame(staged, waiters, connecting)
  <2>1. Frame(staged, waiters, IF connecting = a THEN 0 ELSE connecting)
    BY <1>1, <1>2, <1>3, StageFrame
  <2> QED BY <1>1, <1>2, <2>1
<1>5. /\ staged \in Seq(Attempts) /\ Len(staged) = Len(attempts)
      /\ \A j \in 1..Len(attempts) : staged[j] = IF j = a THEN q ELSE attempts[j]
  BY <1>1, <1>3, StageAll
<1>6. r.pane # "none" /\ r.pane \in Panes
  <2>1. r.pane # "none"
    BY <1>1, <1>2 DEF AttemptFine
  <2> QED BY <1>1, <2>1 DEF Attempts
<1>7. LayoutFine(l2)
  BY <1>1, <1>6, RevertedFine
<1>8. AttemptFine(q, l2)
  <2>1. /\ q.stage = "undone" /\ q.pane = r.pane /\ q.before = r.before /\ q.touched = r.touched
    BY <1>1, <1>3, StageIs
  <2>2. ASSUME ~r.touched PROVE Back(r.before, l2)
    <3>1. DropOf(r, layout)
      BY <1>1, <1>2, <1>6, <2>2 DEF AttemptFine
    <3> QED BY <3>1, RevertGives DEF DropOf
  <2> HIDE DEF q, l2
  <2> QED BY <1>6, <2>1, <2>2 DEF AttemptFine
<1> HIDE DEF staged, l2, q
<1>9. Frame(attempts', waiters, connecting)
  BY <1>2, <1>4, TouchFrame
<1>10. \A j \in 1..Len(staged) : j # a => AttemptFine(staged[j], layout)
  BY <1>1, <1>5, Zenon DEF AllFine
<1>11. staged[a] = q
  BY <1>1, <1>5
<1>12. AllFine(attempts', l2)
  BY <1>2, <1>5, <1>8, <1>10, <1>11, TouchFine
<1> QED BY <1>2, <1>7, <1>9, <1>12 DEF SplitInv, NoneForgotten

LEMMA FirstTab == LayoutFine(Opened(EmptyLayout, 0, TRUE))
<1> DEFINE s == Opened(EmptyLayout, 0, TRUE)
           t == <<1>>
           v == <<0>>
<1>1. s = Layout(t, 1, NoSplit, v)
  <2>1. EmptyLayout \in Layouts /\ EmptyLayout = Layout(<<>>, 0, NoSplit, <<>>)
    BY EmptyIsLayout DEF EmptyLayout, Layout
  <2>2. EmptyLayout.tabs = <<>> /\ EmptyLayout.srv = <<>> /\ EmptyLayout.split = NoSplit
    BY DEF EmptyLayout
  <2>3. NextId(EmptyLayout) = 1
    BY <2>2 DEF NextId
  <2>4. Append(<<>>, 1) = t /\ Append(<<>>, 0) = v
    OBVIOUS
  <2>5. s = TabsSrvActive(EmptyLayout, t, v, 1)
    BY <2>2, <2>3, <2>4 DEF Opened, TabsSrvActive
  <2> HIDE DEF t, v
  <2> QED BY <2>1, <2>2, <2>5, TabsSrvActiveIs
<1>2. t \in Seq(Ids) /\ v \in Seq(Nat) /\ Len(t) = 1 /\ Len(v) = 1 /\ t[1] = 1
  BY DEF Ids
<1>3. NoSplit \in Splits /\ PairIn(t, NoSplit)
  BY DEF NoSplit, Splits, PairIn
<1> HIDE DEF t, v
<1>4. Once(t) /\ InSeq(t) = {1}
  BY <1>2 DEF Once, InSeq
<1>5. Good(t, 1, NoSplit, v)
  BY <1>2, <1>3, <1>4 DEF Good
<1>6. LayoutFine(Layout(t, 1, NoSplit, v))
  BY <1>5, LayoutParts
<1> HIDE DEF s
<1>7. LayoutFine(s)
  BY <1>1, <1>6, Zenon
<1> QED BY <1>7, Zenon DEF s

LEMMA SplitBegins ==
  ASSUME SplitInit PROVE SplitInv
<1>1. LayoutFine(layout)
  BY FirstTab DEF SplitInit
<1>2. attempts = <<>> /\ waiters = <<>> /\ connecting = 0 /\ pendings = {} /\ linked = {}
  BY DEF SplitInit
<1>3. attempts \in Seq(Attempts) /\ Len(attempts) = 0 /\ waiters \in Seq(1..Len(attempts)) /\ Len(waiters) = 0
  BY <1>2
<1>4. Once(waiters)
  BY <1>3 DEF Once
<1>5. Frame(attempts, waiters, connecting)
  BY <1>2, <1>3, <1>4 DEF Frame
<1>6. AllFine(attempts, layout)
  BY <1>3 DEF AllFine
<1> QED BY <1>1, <1>2, <1>5, <1>6 DEF SplitInv, NoneForgotten

LEMMA SplitStep ==
  ASSUME SplitInv, [SplitNext]_splitVars PROVE SplitInv'
<1>1. ASSUME NEW a \in Numbers, LoggedIn(a) \/ LoginFails(a) \/ AttemptDone(a) \/ TimedOut(a) \/ MessageClosed(a)
      PROVE  SplitInv'
  BY <1>1, LoggedInStep, LoginFailsStep, AttemptDoneStep, TimedOutStep, MessageClosedStep
<1>2. ASSUME NEW server \in PaneServers, ToolbarConnect(server) PROVE SplitInv'
  BY <1>2, ToolbarStep
<1>3. ASSUME NEW server \in PaneServers, NEW half \in Panes, DropInPane(server, half) \/ DropLinked(server, half)
      PROVE  SplitInv'
  BY <1>3, DropInPaneStep, DropLinkedStep
<1>4. CASE TabCommand
  BY <1>4, TabCommandStep
<1>5. CASE UNCHANGED splitVars
  BY <1>5 DEF splitVars, SplitInv, Frame, AllFine, NoneForgotten
<1> QED BY <1>1, <1>2, <1>3, <1>4, <1>5, Zenon DEF SplitNext, SplitProgress

LEMMA SplitKept ==
  ASSUME SplitInv PROVE SplitSafe
<1>1. LayoutFine(layout) /\ Frame(attempts, waiters, connecting) /\ AllFine(attempts, layout)
  BY DEF SplitInv
<1>2. /\ attempts \in Seq(Attempts) /\ Len(attempts) \in Nat /\ DOMAIN attempts = 1..Len(attempts)
      /\ (\A k \in 1..Len(attempts) : attempts[k] \in Attempts)
      /\ waiters \in Seq(1..Len(attempts))
      /\ connecting \in 0..Len(attempts) /\ \A k \in 1..Len(attempts) : attempts[k].stage = "login" <=> connecting = k
  BY <1>1, FrameFacts
<1>3. SplitTypeOK
  <2>1. layout.split \in [left : Nat, right : Nat] /\ ToSet(layout.tabs) \subseteq DOMAIN layout.srv
    BY <1>1, FineSound
  <2>2. Numbers = 1..Len(attempts)
    BY <1>2 DEF Numbers
  <2>3. ToSet(waiters) \subseteq Numbers
    BY <1>2, <2>2 DEF ToSet
  <2>4. connecting \in Numbers \union {0}
    BY <1>2, <2>2
  <2>5. \A a \in Numbers : attempts[a].stage \in {"waiting", "login", "loading", "done", "message", "undone"}
    BY <1>2, <2>2 DEF Attempts, Stages
  <2> QED BY <2>1, <2>3, <2>4, <2>5 DEF SplitTypeOK, SplitInv
<1>4. LayoutSound(layout)
  BY <1>1, FineSound
<1>5. OneLogin
  BY <1>2 DEF OneLogin, At, Numbers
<1>6. ASSUME NEW a \in Numbers PROVE Restored(a)
  <2>1. AttemptFine(attempts[a], layout)
    BY <1>1, <1>2 DEF AllFine, Numbers
  <2> QED BY <2>1, Zenon DEF AttemptFine, Restored, At, Back
<1> QED BY <1>3, <1>4, <1>5, <1>6 DEF SplitSafe, SplitInv

-----------------------------------------------------------------------------
(* What the window cuts from the side panes (SidePanes).                    *)
Pane == [width : Int, collapsed : BOOLEAN]
PaneFits(s, p) == p \in Pane /\ p.width >= PaneMin(s) /\ p.width <= PaneMax(s)

LEMMA SideNumbers ==
  /\ \A s \in Sides : PaneMin(s) \in Nat /\ PaneMax(s) \in Nat /\ 0 < PaneMin(s) /\ PaneMin(s) < PaneMax(s)
                      /\ PaneDef(s) \in Nat /\ PaneMin(s) <= PaneDef(s) /\ PaneDef(s) <= PaneMax(s)
                      /\ OtherSide(s) \in Sides /\ OtherSide(s) # s /\ OtherSide(OtherSide(s)) = s
  /\ CenterMin \in Nat /\ "left" \in Sides /\ "right" \in Sides
  /\ OtherSide("left") = "right" /\ OtherSide("right") = "left"
BY DEF Sides, PaneMin, PaneMax, PaneDef, OtherSide, CenterMin

LEMMA LeastMost ==
  ASSUME NEW a \in Int, NEW b \in Int
  PROVE  /\ Least(a, b) \in Int /\ Least(a, b) <= a /\ Least(a, b) <= b /\ Least(a, b) \in {a, b}
         /\ Most(a, b) \in Int /\ Most(a, b) >= a /\ Most(a, b) >= b /\ Most(a, b) \in {a, b}
BY DEF Least, Most

LEMMA ClampedFits ==
  ASSUME NEW s \in Sides, NEW w \in Int, NEW max \in Int, max <= PaneMax(s)
  PROVE  /\ ClampPaneWidth(s, w, max) \in Int
         /\ ClampPaneWidth(s, w, max) >= PaneMin(s) /\ ClampPaneWidth(s, w, max) <= PaneMax(s)
         /\ ClampPaneWidth(s, w, max) <= Most(PaneMin(s), max)
         /\ (w >= PaneMin(s) /\ w <= max => ClampPaneWidth(s, w, max) = w)
BY SideNumbers DEF ClampPaneWidth, Least, Most

(* A part of the excess in proportion to what one pane can give is not more *)
(* than the excess.                                                        *)
LEMMA PartOfExcess ==
  ASSUME NEW e \in Nat, NEW a \in Nat, NEW b \in Nat, a + b > 0
  PROVE  Rounded(e * a, a + b) \in Nat /\ Rounded(e * a, a + b) <= e
<1> DEFINE t == a + b
           x == 2 * (e * a) + t
           y == 2 * t
<1>1. t \in Nat /\ t >= a /\ t > 0 /\ y \in Nat /\ y > 0 /\ x \in Nat
  <2>1. e * a \in Nat
    OBVIOUS
  <2> QED BY <2>1
<1>2. e * a <= e * t
  <2>1. e * t = e * a + e * b
    OBVIOUS
  <2>2. e * a \in Nat /\ e * b \in Nat
    OBVIOUS
  <2> QED BY <2>1, <2>2
<1>3. x <= e * y + t
  <2>1. e * y = 2 * (e * t)
    OBVIOUS
  <2>2. e * t \in Nat /\ e * a \in Nat
    BY <1>1
  <2> QED BY <1>1, <1>2, <2>1, <2>2
<1>4. x < (e + 1) * y
  <2>1. (e + 1) * y = e * y + y
    BY <1>1
  <2>2. e * y \in Nat
    BY <1>1
  <2> HIDE DEF x
  <2> QED BY <1>1, <1>3, <2>1, <2>2
<1> HIDE DEF x, y
<1> DEFINE q == x \div y
<1>5. q \in Int /\ x = y * q + (x % y) /\ 0 <= x % y /\ x % y < y /\ q \in Nat
  BY <1>1
<1> HIDE DEF q
<1>6. q <= e
  <2>1. SUFFICES ASSUME q >= e + 1 PROVE FALSE
    BY <1>5
  <2>2. y * q >= y * (e + 1)
    <3>1. PICK d \in Nat : q = (e + 1) + d
      <4>1. q - (e + 1) \in Nat
        BY <1>5, <2>1
      <4> QED BY <4>1, <1>5
    <3>2. y * q = y * (e + 1) + y * d
      BY <1>1, <3>1
    <3>3. y * d \in Nat /\ y * (e + 1) \in Nat
      BY <1>1
    <3> QED BY <3>2, <3>3
  <2>3. y * (e + 1) = (e + 1) * y /\ y * q \in Int /\ (e + 1) * y \in Int
    BY <1>1, <1>5
  <2> QED BY <1>1, <1>4, <1>5, <2>2, <2>3
<1>7. Rounded(e * a, a + b) = q
  BY DEF Rounded, q, x, y
<1> QED BY <1>5, <1>6, <1>7

(* What is cut from each pane: all of the excess, or all that they can give. *)
CutsFit(e, a, b, x, y) ==
  /\ x \in Int /\ y \in Int /\ 0 <= x /\ x <= a /\ 0 <= y /\ y <= b
  /\ x + y = e \/ (x = a /\ y = b)

LEMMA CutsByShare ==
  ASSUME NEW e \in Int, e > 0, NEW a \in Nat, NEW b \in Nat, NEW part \in Nat, part <= e
  PROVE  LET cut == Least(a, part)
             y == Least(b, e - cut)
             x == Least(a, e - y)
         IN  CutsFit(e, a, b, x, y)
BY DEF CutsFit, Least

LEMMA CutsInTurn ==
  ASSUME NEW e \in Int, e > 0, NEW a \in Nat, NEW b \in Nat
  PROVE  LET x == Least(a, e)
             y == Least(b, e - x)
         IN  CutsFit(e, a, b, x, y) /\ (e <= a \/ b = 0 => y = 0)
BY DEF CutsFit, Least

Priorities == Sides \union {"none"}

(* Each pane is drawn as wide as it is, or less, but not below its least     *)
(* width; the middle keeps its width or both panes are cut to the least.     *)
Fits(row, panes, f) ==
  /\ \A s \in Sides : /\ f[s] \in Int /\ f[s] >= Drawn(panes[s]) - Slack(s, panes[s]) /\ f[s] <= Drawn(panes[s])
  /\ row # 0 => \/ f["left"] + f["right"] <= row - CenterMin
                 \/ \A s \in Sides : f[s] = Drawn(panes[s]) - Slack(s, panes[s])
FirstKept(row, panes, s, f) ==
  (\/ row = 0 \/ Slack(s, panes[s]) = 0
   \/ Drawn(panes["left"]) + Drawn(panes["right"]) - (row - CenterMin) <= Slack(OtherSide(s), panes[OtherSide(s)]))
    => f[s] = Drawn(panes[s])

LEMMA DrawnFacts ==
  ASSUME NEW s \in Sides, NEW p, PaneFits(s, p)
  PROVE  /\ Drawn(p) \in Nat /\ Slack(s, p) \in Nat
         /\ (p.collapsed => Drawn(p) = 0 /\ Slack(s, p) = 0)
         /\ (~p.collapsed => Drawn(p) = p.width /\ Slack(s, p) = p.width - PaneMin(s) /\ Drawn(p) - Slack(s, p) = PaneMin(s))
         /\ Drawn(p) - Slack(s, p) <= PaneMin(s) /\ Drawn(p) <= PaneMax(s)
<1>1. p.width \in Int /\ p.collapsed \in BOOLEAN /\ p.width >= PaneMin(s) /\ p.width <= PaneMax(s)
  BY DEF PaneFits, Pane
<1>2. PaneMin(s) \in Nat /\ PaneMax(s) \in Nat
  BY SideNumbers
<1>3. CASE p.collapsed
  <2>1. Drawn(p) = 0 /\ Slack(s, p) = 0
    BY <1>3 DEF Drawn, Slack
  <2> QED BY <1>2, <1>3, <2>1
<1>4. CASE ~p.collapsed
  <2>1. Drawn(p) = p.width /\ Slack(s, p) = Most(0, p.width - PaneMin(s))
    BY <1>4 DEF Drawn, Slack
  <2>2. Slack(s, p) = p.width - PaneMin(s)
    BY <1>1, <1>2, <2>1 DEF Most
  <2> QED BY <1>1, <1>2, <1>4, <2>1, <2>2
<1> QED BY <1>3, <1>4

LEMMA FitFits ==
  ASSUME NEW row \in Nat, NEW panes, \A s \in Sides : PaneFits(s, panes[s]), NEW priority \in Priorities
  PROVE  LET f == FitPaneWidths(row, panes, priority)
         IN  Fits(row, panes, f) /\ (priority \in Sides => FirstKept(row, panes, priority, f))
<1> DEFINE f == FitPaneWidths(row, panes, priority)
           e == Drawn(panes.left) + Drawn(panes.right) - (row - CenterMin)
           sl == Slack("left", panes.left)
           sr == Slack("right", panes.right)
           slack == [s \in Sides |-> Slack(s, panes[s])]
           dl == Drawn(panes.left)
           dr == Drawn(panes.right)
           share == IF sl + sr = 0 THEN 0 ELSE Least(sl, Rounded(e * sl, sl + sr))
<1>1. dl \in Nat /\ dr \in Nat /\ sl \in Nat /\ sr \in Nat /\ e \in Int /\ e = dl + dr - (row - CenterMin)
  BY SideNumbers, DrawnFacts
<1>2. \A s \in Sides : s = "left" \/ s = "right"
  BY DEF Sides
<1>3. slack.left = sl /\ slack.right = sr /\ slack["left"] = sl /\ slack["right"] = sr
  BY SideNumbers
<1>4. /\ Drawn(panes["left"]) = dl /\ Drawn(panes["right"]) = dr
      /\ Slack("left", panes["left"]) = sl /\ Slack("right", panes["right"]) = sr
  OBVIOUS
<1>5. CASE row = 0 \/ e <= 0
  <2>1. f = [s \in Sides |-> Drawn(panes[s])]
    BY <1>5 DEF FitPaneWidths
  <2>2. f["left"] = dl /\ f["right"] = dr
    BY <2>1, SideNumbers
  <2> HIDE DEF f, e, dl, dr, sl, sr
  <2>3. Fits(row, panes, f)
    BY <1>1, <1>2, <1>4, <1>5, <2>2, SideNumbers DEF Fits
  <2>4. priority \in Sides => FirstKept(row, panes, priority, f)
    BY <1>2, <1>4, <2>2 DEF FirstKept
  <2> QED BY <2>3, <2>4 DEF f
<1> DEFINE Cut(x, y) == f["left"] = dl - x /\ f["right"] = dr - y /\ CutsFit(e, sl, sr, x, y)
<1>6. ASSUME NEW x, NEW y, Cut(x, y) PROVE Fits(row, panes, f)
  <2> HIDE DEF f, e, dl, dr, sl, sr
  <2>1. /\ f["left"] = dl - x /\ f["right"] = dr - y /\ x \in Int /\ y \in Int /\ 0 <= x /\ x <= sl /\ 0 <= y /\ y <= sr
        /\ x + y = e \/ (x = sl /\ y = sr)
    BY <1>6 DEF CutsFit
  <2> HIDE DEF Cut
  <2>2. /\ f["left"] \in Int /\ f["left"] >= dl - sl /\ f["left"] <= dl
        /\ f["right"] \in Int /\ f["right"] >= dr - sr /\ f["right"] <= dr
    BY <1>1, <2>1
  <2>3. f["left"] + f["right"] <= row - CenterMin \/ (f["left"] = dl - sl /\ f["right"] = dr - sr)
    BY <1>1, <2>1, SideNumbers
  <2> QED BY <1>2, <1>4, <2>2, <2>3 DEF Fits
<1>7. CASE ~(row = 0 \/ e <= 0) /\ priority = "none"
  <2> DEFINE part == IF sl + sr = 0 THEN 0 ELSE Rounded(e * sl, sl + sr)
             y == Least(sr, e - Least(sl, part))
             x == Least(sl, e - y)
  <2>1. share = Least(sl, part)
    <3>1. Least(sl, 0) = 0
      BY <1>1 DEF Least
    <3> QED BY <3>1
  <2>2. f["left"] = dl - Least(sl, e - Least(sr, e - share)) /\ f["right"] = dr - Least(sr, e - share)
    BY <1>7, SideNumbers DEF FitPaneWidths, Sides, OtherSide
  <2> HIDE DEF share, f, e, dl, dr, sl, sr
  <2>3. e \in Nat /\ e > 0
    BY <1>1, <1>7
  <2>4. part \in Nat /\ part <= e
    <3>1. ASSUME sl + sr # 0 PROVE Rounded(e * sl, sl + sr) \in Nat /\ Rounded(e * sl, sl + sr) <= e
      <4>1. sl \in Nat /\ sr \in Nat /\ e \in Nat /\ sl + sr > 0
        BY <1>1, <2>3, <3>1
      <4> QED BY <4>1, PartOfExcess, Zenon
    <3> QED BY <2>3, <3>1
  <2> HIDE DEF part
  <2>5. CutsFit(e, sl, sr, x, y)
    BY <1>1, <2>3, <2>4, CutsByShare
  <2>6. Cut(x, y)
    BY <2>1, <2>2, <2>5
  <2>7. Fits(row, panes, f)
    BY <1>6, <2>6
  <2>8. priority \notin Sides
    BY <1>7 DEF Sides
  <2> QED BY <2>7, <2>8 DEF f
<1>8. CASE ~(row = 0 \/ e <= 0) /\ priority = "left"
  <2> DEFINE y == Least(sr, e)
             x == Least(sl, e - y)
  <2>1. f["left"] = dl - x /\ f["right"] = dr - y
    BY <1>8, SideNumbers DEF FitPaneWidths, Sides, OtherSide
  <2> HIDE DEF f, e, dl, dr, sl, sr
  <2>2. CutsFit(e, sr, sl, y, x) /\ (e <= sr \/ sl = 0 => x = 0)
    <3>1. e > 0
      BY <1>1, <1>8
    <3> QED BY <1>1, <3>1, CutsInTurn
  <2> HIDE DEF x, y
  <2>3. CutsFit(e, sl, sr, x, y)
    BY <1>1, <2>2 DEF CutsFit
  <2>4. Fits(row, panes, f)
    BY <1>6, <2>1, <2>3
  <2>5. FirstKept(row, panes, priority, f)
    BY <1>1, <1>4, <1>8, <2>1, <2>2, SideNumbers DEF FirstKept
  <2> QED BY <2>4, <2>5 DEF f
<1>9. CASE ~(row = 0 \/ e <= 0) /\ priority = "right"
  <2> DEFINE x == Least(sl, e)
             y == Least(sr, e - x)
  <2>1. f["left"] = dl - x /\ f["right"] = dr - y
    BY <1>9, SideNumbers DEF FitPaneWidths, Sides, OtherSide
  <2> HIDE DEF f, e, dl, dr, sl, sr
  <2>2. CutsFit(e, sl, sr, x, y) /\ (e <= sl \/ sr = 0 => y = 0)
    <3>1. e > 0
      BY <1>1, <1>9
    <3> QED BY <1>1, <3>1, CutsInTurn
  <2> HIDE DEF x, y
  <2>4. Fits(row, panes, f)
    BY <1>6, <2>1, <2>2
  <2>5. FirstKept(row, panes, priority, f)
    BY <1>1, <1>4, <1>9, <2>1, <2>2, SideNumbers DEF FirstKept
  <2> QED BY <2>4, <2>5 DEF f
<1> QED BY <1>5, <1>7, <1>8, <1>9 DEF Priorities, Sides

-----------------------------------------------------------------------------
(* The invariant: what is remembered is within its limits; a drag that goes  *)
(* on has a width within them; a calm one began with what is drawn, and its  *)
(* width leaves the middle its own.                                        *)
PanesFine == spPane \in [Sides -> Pane] /\ \A s \in Sides : PaneFits(s, spPane[s])

LiveFits(s, live) ==
  /\ live \in Pane
  /\ IF live.collapsed THEN live.width = 0 ELSE PaneMin(s) <= live.width /\ live.width <= PaneMax(s)

Room(s, row, other) == Most(PaneMin(s), row - CenterMin - other)

Drags == [side : Sides \union {"none"}, rendered : Pane, stored : Pane, other : Int, collapsed : BOOLEAN,
          moved : BOOLEAN, live : Pane]
DragFits ==
  /\ spDrag \in Drags
  /\ spDrag # NoSideDrag =>
       /\ spDrag.side \in Sides /\ PaneFits(spDrag.side, spDrag.stored)
       /\ spDrag.moved => LiveFits(spDrag.side, spDrag.live)

CalmFits ==
  (spDrag # NoSideDrag /\ spCalm) =>
    /\ spDrag.other = Fitted[OtherSide(spDrag.side)] /\ spDrag.stored = spPane[spDrag.side]
    /\ spDrag.moved /\ spRow # 0 => spDrag.live.width <= Room(spDrag.side, spRow, spDrag.other)

SidesInv ==
  /\ PanesFine /\ spPriority \in Priorities /\ spRow \in Nat /\ spCalm \in BOOLEAN
  /\ DragFits /\ CalmFits
  /\ StaysAsLeft /\ (spLeftAt # NotLeft => spLeftAt.side \in Sides)
  /\ spFocus \in Sides \union {"list", "handle"} /\ FocusSeen

LEMMA FittedFits ==
  ASSUME SidesInv
  PROVE  /\ \A s \in Sides : /\ Fitted[s] \in Int
                             /\ (spPane[s].collapsed => Fitted[s] = 0)
                             /\ (~spPane[s].collapsed => PaneMin(s) <= Fitted[s] /\ Fitted[s] <= PaneMax(s))
         /\ Fits(spRow, spPane, Fitted)
         /\ spRow # 0 => \/ Fitted["left"] + Fitted["right"] <= spRow - CenterMin
                         \/ \A s \in Sides : Fitted[s] <= PaneMin(s)
<1>1. /\ spRow \in Nat /\ (\A s \in Sides : PaneFits(s, spPane[s])) /\ spPriority \in Priorities
  BY DEF SidesInv, PanesFine
<1>2. Fits(spRow, spPane, Fitted)
  BY <1>1, FitFits DEF Fitted
<1> DEFINE f == Fitted
<1> HIDE DEF f
<1>3. Fits(spRow, spPane, f)
  BY <1>2 DEF f
<1>4. \A s \in Sides : /\ Drawn(spPane[s]) \in Nat /\ Slack(s, spPane[s]) \in Nat
                        /\ (spPane[s].collapsed => Drawn(spPane[s]) = 0 /\ Slack(s, spPane[s]) = 0)
                        /\ (~spPane[s].collapsed => Drawn(spPane[s]) - Slack(s, spPane[s]) = PaneMin(s))
                        /\ Drawn(spPane[s]) - Slack(s, spPane[s]) <= PaneMin(s) /\ Drawn(spPane[s]) <= PaneMax(s)
  BY <1>1, DrawnFacts
<1>5. \A s \in Sides : /\ f[s] \in Int
                        /\ (spPane[s].collapsed => f[s] = 0)
                        /\ (~spPane[s].collapsed => PaneMin(s) <= f[s] /\ f[s] <= PaneMax(s))
  BY <1>3, <1>4, SideNumbers DEF Fits
<1>6. spRow # 0 => \/ f["left"] + f["right"] <= spRow - CenterMin
                  \/ \A s \in Sides : f[s] <= PaneMin(s)
  BY <1>3, <1>4 DEF Fits
<1> QED BY <1>2, <1>5, <1>6 DEF f

LEMMA SidesKept ==
  ASSUME SidesInv PROVE SidesSafe
<1> DEFINE f == Fitted
<1>1. /\ \A s \in Sides : /\ f[s] \in Int
                           /\ (spPane[s].collapsed => f[s] = 0)
                           /\ (~spPane[s].collapsed => PaneMin(s) <= f[s] /\ f[s] <= PaneMax(s))
      /\ spRow # 0 => \/ f["left"] + f["right"] <= spRow - CenterMin
                      \/ \A s \in Sides : f[s] <= PaneMin(s)
  BY FittedFits
<1> HIDE DEF f
<1>2. \A s \in Sides : /\ (Live(s) => WidthOf(s) = spDrag.live.width /\ Collapsed(s) = spDrag.live.collapsed)
                        /\ (~Live(s) => WidthOf(s) = f[s] /\ Collapsed(s) = spPane[s].collapsed)
  BY DEF WidthOf, Collapsed, f
<1>3. ASSUME NEW s \in Sides, Live(s) PROVE spDrag # NoSideDrag /\ spDrag.side = s /\ LiveFits(s, spDrag.live)
  <2>1. spDrag.side = s /\ spDrag.moved
    BY <1>3 DEF Live
  <2>2. spDrag # NoSideDrag
    BY <2>1 DEF NoSideDrag, Sides
  <2> QED BY <2>1, <2>2 DEF SidesInv, DragFits
<1>4. WithinLimits
  <2>1. ASSUME NEW s \in Sides
        PROVE  /\ spPane[s].width \in PaneMin(s)..PaneMax(s)
               /\ IF Collapsed(s) THEN WidthOf(s) = 0 ELSE WidthOf(s) \in PaneMin(s)..PaneMax(s)
    <3>1. spPane[s].width \in PaneMin(s)..PaneMax(s)
      BY SideNumbers DEF SidesInv, PanesFine, PaneFits, Pane
    <3>2. CASE Live(s)
      <4>1. LiveFits(s, spDrag.live)
        BY <1>3, <3>2
      <4> QED BY <1>2, <3>1, <3>2, <4>1, SideNumbers DEF LiveFits, Pane
    <3>3. CASE ~Live(s)
      BY <1>1, <1>2, <3>1, <3>3, SideNumbers
    <3> QED BY <3>2, <3>3
  <2> QED BY <2>1 DEF WithinLimits
<1>5. MiddleKept
  <2> SUFFICES ASSUME spRow # 0, spDrag = NoSideDrag \/ spCalm
               PROVE  \/ WidthOf("left") + WidthOf("right") <= spRow - CenterMin
                      \/ \A s \in Sides : WidthOf(s) <= PaneMin(s) \/ Live(OtherSide(s))
    BY DEF MiddleKept
  <2>1. CASE \A s \in Sides : ~Live(s)
    BY <1>1, <1>2, <2>1, SideNumbers
  <2>2. ASSUME NEW s \in Sides, Live(s)
        PROVE  \/ WidthOf("left") + WidthOf("right") <= spRow - CenterMin
               \/ \A t \in Sides : WidthOf(t) <= PaneMin(t) \/ Live(OtherSide(t))
    <3> DEFINE o == OtherSide(s)
               w == spDrag.live.width
    <3>1. o \in Sides /\ o # s /\ OtherSide(o) = s /\ ~Live(o) /\ \A t \in Sides : t = s \/ t = o
      <4>1. o \in Sides /\ o # s /\ OtherSide(o) = s /\ \A t \in Sides : t = s \/ t = o
        BY SideNumbers DEF Sides, OtherSide
      <4>2. ~Live(o)
        BY <2>2, <4>1 DEF Live
      <4> QED BY <4>1, <4>2
    <3>2. WidthOf(s) = w /\ WidthOf(o) = f[o] /\ f[o] \in Int /\ w \in Int
      <4>1. LiveFits(s, spDrag.live)
        BY <1>3, <2>2
      <4>2. w \in Int
        BY <4>1 DEF LiveFits, Pane
      <4> QED BY <1>1, <1>2, <2>2, <3>1, <4>2
    <3>3. w <= Room(s, spRow, f[o])
      <4>1. spDrag # NoSideDrag /\ spDrag.side = s /\ spDrag.moved
        BY <1>3, <2>2 DEF Live
      <4> QED BY <4>1 DEF SidesInv, CalmFits, f
    <3>4. w <= PaneMin(s) \/ w <= spRow - CenterMin - f[o]
      BY <3>2, <3>3, SideNumbers DEF Room, Most
    <3>5. WidthOf("left") + WidthOf("right") = WidthOf(s) + WidthOf(o)
      <4>1. CASE s = "left"
        BY <4>1, SideNumbers
      <4>2. CASE s = "right"
        BY <3>2, <4>2, SideNumbers
      <4> QED BY <4>1, <4>2 DEF Sides
    <3>6. spRow \in Nat
      BY DEF SidesInv
    <3>7. CASE w <= spRow - CenterMin - f[o]
      BY <3>2, <3>5, <3>6, <3>7, SideNumbers
    <3>8. CASE w <= PaneMin(s)
      BY <2>2, <3>1, <3>2, <3>8
    <3> QED BY <3>4, <3>7, <3>8
  <2> QED BY <2>1, <2>2
<1>6. StaysAsLeft /\ FocusSeen
  BY DEF SidesInv
<1> QED BY <1>4, <1>5, <1>6 DEF SidesSafe

-----------------------------------------------------------------------------
(* The steps of SidePanes.                                                 *)
LEMMA FocusOutSeen ==
  ASSUME NEW at \in Sides \union {"list", "handle"}, FocusOut(at)
  PROVE  spFocus' \in Sides \union {"list", "handle"} /\ FocusSeen'
<1>1. spFocus' = IF at \in Sides /\ Collapsed(at)' THEN "list" ELSE at
  BY DEF FocusOut
<1>2. CASE at \in Sides /\ Collapsed(at)'
  BY <1>1, <1>2 DEF FocusSeen, Sides
<1>3. CASE ~(at \in Sides /\ Collapsed(at)')
  <2>1. spFocus' = at
    BY <1>1, <1>3
  <2>2. at \in Sides => ~Collapsed(spFocus)'
    BY <1>3, <2>1 DEF Collapsed, Live
  <2> QED BY <2>1, <2>2 DEF FocusSeen
<1> QED BY <1>2, <1>3

LEMMA DragMaxFits ==
  ASSUME NEW s \in Sides, NEW row \in Nat, NEW other \in Int
  PROVE  /\ DragMax(s, row, other) \in Int /\ DragMax(s, row, other) <= PaneMax(s)
         /\ row # 0 => Most(PaneMin(s), DragMax(s, row, other)) <= Room(s, row, other)
BY SideNumbers DEF DragMax, Room, Least, Most

LEMMA ResolveFits ==
  ASSUME NEW s \in Sides, NEW raw \in Int, NEW was \in BOOLEAN, NEW max \in Int, max <= PaneMax(s)
  PROVE  LET r == ResolveDrag(s, raw, was, max)
         IN  LiveFits(s, r) /\ r.width <= Most(PaneMin(s), max) /\ r.collapsed \in BOOLEAN
<1> DEFINE closed == IF was THEN raw < PaneMin(s) ELSE raw <= CollapseAt(s)
           w == ClampPaneWidth(s, raw, max)
           r == ResolveDrag(s, raw, was, max)
<1>1. r = [collapsed |-> closed, width |-> IF closed THEN 0 ELSE w]
  BY DEF ResolveDrag
<1>2. closed \in BOOLEAN
  <2>1. (raw < PaneMin(s)) \in BOOLEAN /\ (raw <= CollapseAt(s)) \in BOOLEAN
    OBVIOUS
  <2> QED BY <2>1, Zenon
<1>3. w \in Int /\ w >= PaneMin(s) /\ w <= PaneMax(s) /\ w <= Most(PaneMin(s), max)
  BY ClampedFits
<1>4. 0 <= Most(PaneMin(s), max)
  BY SideNumbers DEF Most
<1> HIDE DEF r, w, closed
<1>5. r.collapsed = closed /\ r.width = IF closed THEN 0 ELSE w
  BY <1>1
<1>8. r \in Pane
  BY <1>1, <1>2, <1>3 DEF Pane
<1>6. CASE closed
  <2>1. r.collapsed = TRUE /\ r.width = 0
    BY <1>2, <1>5, <1>6
  <2>2. LiveFits(s, r)
    BY <1>8, <2>1, Zenon DEF LiveFits
  <2>3. r.width <= Most(PaneMin(s), max)
    BY <1>4, <2>1
  <2> QED BY <2>1, <2>2, <2>3 DEF r
<1>7. CASE ~closed
  <2>1. r.collapsed = FALSE /\ r.width = w
    BY <1>2, <1>5, <1>7
  <2>2. LiveFits(s, r)
    BY <1>3, <1>8, <2>1 DEF LiveFits
  <2>3. r.width <= Most(PaneMin(s), max)
    BY <1>3, <2>1
  <2> QED BY <2>1, <2>2, <2>3 DEF r
<1> QED BY <1>2, <1>6, <1>7

(* A pane of the store is replaced.                                         *)
LEMMA CommitFits ==
  ASSUME PanesFine, NEW s \in Sides, NEW half, PaneFits(s, half), CommitPane(s, half)
  PROVE  /\ PanesFine' /\ spPriority' \in Priorities /\ spPriority' = s
         /\ spPane'[s] = half /\ spPane'[OtherSide(s)] = spPane[OtherSide(s)]
<1>1. spPane' = [spPane EXCEPT ![s] = half] /\ spPriority' = s /\ half \in Pane
  BY DEF CommitPane, PaneFits
<1>2. /\ spPane' \in [Sides -> Pane] /\ spPane'[s] = half
      /\ \A t \in Sides : t # s => spPane'[t] = spPane[t]
  BY <1>1 DEF PanesFine
<1>3. \A t \in Sides : PaneFits(t, spPane'[t])
  <2>1. ASSUME NEW t \in Sides PROVE PaneFits(t, spPane'[t])
    <3>1. CASE t = s
      BY <1>2, <3>1
    <3>2. CASE t # s
      BY <1>2, <3>2 DEF PanesFine
    <3> QED BY <3>1, <3>2
  <2> QED BY <2>1
<1> QED BY <1>1, <1>2, <1>3, SideNumbers DEF PanesFine, Priorities

LEMMA GrabStep ==
  ASSUME SidesInv, NEW s \in Sides, GrabHandle(s)
  PROVE  SidesInv'
<1> DEFINE rendered == [width |-> Fitted[s], collapsed |-> spPane[s].collapsed]
           stored == spPane[s]
           other == Fitted[OtherSide(s)]
           closed == spPane[s].collapsed
<1>1. /\ spDrag' = [NoSideDrag EXCEPT !.side = s, !.rendered = rendered, !.stored = stored, !.other = other, !.collapsed = closed]
      /\ spFocus' = "handle" /\ spCalm' = TRUE /\ UNCHANGED <<spPane, spPriority, spRow>> /\ spLeftAt' = NotLeft
  BY DEF GrabHandle, SideActs
<1>2. Fitted[s] \in Int /\ other \in Int /\ OtherSide(s) \in Sides
  BY FittedFits, SideNumbers
<1>3. PaneFits(s, stored) /\ closed \in BOOLEAN
  BY DEF SidesInv, PanesFine, PaneFits, Pane
<1>4. rendered \in Pane /\ stored \in Pane
  BY <1>2, <1>3 DEF Pane, PaneFits
<1> HIDE DEF rendered, stored, other, closed
<1>5. /\ spDrag'.side = s /\ spDrag'.rendered = rendered /\ spDrag'.stored = stored /\ spDrag'.other = other
      /\ spDrag'.collapsed = closed /\ spDrag'.moved = FALSE
  BY <1>1 DEF NoSideDrag
<1>6. Fitted' = Fitted
  BY <1>1 DEF Fitted
<1>7. DragFits'
  <2>1. NoSideDrag \in Drags
    BY DEF NoSideDrag, Drags, Pane
  <2>2. spDrag' \in Drags
    BY <1>1, <1>2, <1>3, <1>4, <2>1 DEF Drags
  <2> QED BY <1>3, <1>5, <2>2 DEF DragFits
<1>8. CalmFits'
  BY <1>1, <1>5, <1>6 DEF CalmFits, other, stored
<1>9. PanesFine'
  BY <1>1 DEF SidesInv, PanesFine
<1>10. StaysAsLeft' /\ FocusSeen'
  BY <1>1 DEF StaysAsLeft, FocusSeen, Sides
<1> QED BY <1>1, <1>7, <1>8, <1>9, <1>10 DEF SidesInv

LEMMA MoveHandleStep ==
  ASSUME SidesInv, MoveHandle
  PROVE  SidesInv'
<1> DEFINE s == spDrag.side
           max == DragMax(s, spRow, spDrag.other)
<1>1. PICK d \in PointerMoves \union {-m : m \in PointerMoves} :
        LET next == ResolveDrag(s, Drawn(spDrag.rendered) + d, spDrag.collapsed, max) IN
        spDrag' = [spDrag EXCEPT !.live = next, !.collapsed = next.collapsed, !.moved = TRUE]
  BY DEF MoveHandle
<1> DEFINE next == ResolveDrag(s, Drawn(spDrag.rendered) + d, spDrag.collapsed, max)
<1>2. /\ spDrag # NoSideDrag /\ UNCHANGED <<spPane, spPriority, spRow, spCalm, spLeftAt>> /\ FocusOut(spFocus)
  BY DEF MoveHandle
<1>3. /\ s \in Sides /\ PaneFits(s, spDrag.stored) /\ spDrag.collapsed \in BOOLEAN
      /\ Drawn(spDrag.rendered) \in Int /\ spDrag.other \in Int /\ spRow \in Nat
  <2>1. s \in Sides /\ PaneFits(s, spDrag.stored) /\ spDrag.collapsed \in BOOLEAN /\ spDrag.rendered \in Pane
        /\ spDrag.other \in Int /\ spRow \in Nat
    BY <1>2 DEF SidesInv, DragFits, Drags
  <2>2. Drawn(spDrag.rendered) \in Int
    BY <2>1 DEF Drawn, Pane
  <2> QED BY <2>1, <2>2
<1>4. d \in Int
  BY SidePanesAssumption
<1>5. max \in Int /\ max <= PaneMax(s) /\ (spRow # 0 => Most(PaneMin(s), max) <= Room(s, spRow, spDrag.other))
  BY <1>3, DragMaxFits
<1>6. LiveFits(s, next) /\ next.width <= Most(PaneMin(s), max) /\ next.collapsed \in BOOLEAN
  <2>1. Drawn(spDrag.rendered) + d \in Int
    BY <1>3, <1>4
  <2> HIDE DEF s, max
  <2> QED BY <1>3, <1>5, <2>1, ResolveFits
<1> HIDE DEF max, next
<1>7. /\ spDrag'.side = s /\ spDrag'.stored = spDrag.stored /\ spDrag'.rendered = spDrag.rendered
      /\ spDrag'.other = spDrag.other /\ spDrag'.collapsed = next.collapsed /\ spDrag'.moved = TRUE
      /\ spDrag'.live = next /\ spDrag' \in Drags
  <2>1. spDrag \in Drags /\ next \in Pane /\ next.collapsed \in BOOLEAN
    BY <1>6 DEF SidesInv, DragFits, LiveFits
  <2>2. spDrag' = [spDrag EXCEPT !.live = next, !.collapsed = next.collapsed, !.moved = TRUE]
    BY <1>1 DEF next
  <2> QED BY <2>1, <2>2 DEF Drags
<1>8. Fitted' = Fitted
  BY <1>2 DEF Fitted
<1>9. DragFits'
  BY <1>3, <1>6, <1>7 DEF DragFits
<1>10. spRow # 0 => next.width <= Room(s, spRow, spDrag.other)
  <2>1. next.width \in Int /\ Most(PaneMin(s), max) \in Int /\ Room(s, spRow, spDrag.other) \in Int
    BY <1>3, <1>5, <1>6, SideNumbers DEF LiveFits, Pane, Room, Most
  <2> QED BY <1>5, <1>6, <2>1
<1>11. CalmFits'
  BY <1>2, <1>7, <1>8, <1>10 DEF SidesInv, CalmFits
<1>12. PanesFine' /\ StaysAsLeft'
  BY <1>2, <1>8 DEF SidesInv, PanesFine, StaysAsLeft
<1>13. spFocus' \in Sides \union {"list", "handle"} /\ FocusSeen'
  BY <1>2, FocusOutSeen DEF SidesInv
<1> QED BY <1>2, <1>9, <1>11, <1>12, <1>13 DEF SidesInv

(* No drag is left.                                                        *)
LEMMA NoDragFits ==
  ASSUME spDrag' = NoSideDrag
  PROVE  DragFits' /\ CalmFits'
<1>1. NoSideDrag \in Drags
  BY DEF NoSideDrag, Drags, Pane
<1> QED BY <1>1 DEF DragFits, CalmFits

LEMMA EscapeStep ==
  ASSUME SidesInv, EscapeDrag
  PROVE  SidesInv'
<1>1. spDrag' = NoSideDrag /\ UNCHANGED <<spPane, spPriority, spRow, spCalm, spLeftAt>> /\ FocusOut(spFocus)
  BY DEF EscapeDrag
<1>2. DragFits' /\ CalmFits'
  BY <1>1, NoDragFits
<1>3. Fitted' = Fitted
  BY <1>1 DEF Fitted
<1>4. PanesFine' /\ StaysAsLeft'
  BY <1>1, <1>3 DEF SidesInv, PanesFine, StaysAsLeft
<1>5. spFocus' \in Sides \union {"list", "handle"} /\ FocusSeen'
  BY <1>1, FocusOutSeen DEF SidesInv
<1> QED BY <1>1, <1>2, <1>4, <1>5 DEF SidesInv

(* What is let go of: as wide as it was drawn.                              *)
LEMMA SettledFits ==
  ASSUME SidesInv, spDrag # NoSideDrag, spDrag.moved
  PROVE  LET s == spDrag.side
             p == [SettledPane EXCEPT !.width = ClampPaneWidth(s, @, PaneMax(s))]
         IN  PaneFits(s, p) /\ p.collapsed = spDrag.live.collapsed /\ Drawn(p) = spDrag.live.width
<1> DEFINE s == spDrag.side
           w == spDrag.live.width
           q == SettledPane
           p == [q EXCEPT !.width = ClampPaneWidth(s, @, PaneMax(s))]
<1>1. s \in Sides /\ PaneFits(s, spDrag.stored) /\ LiveFits(s, spDrag.live) /\ spDrag.live \in Pane /\ spDrag.stored \in Pane
  BY DEF SidesInv, DragFits, LiveFits, PaneFits
<1>2. PaneMin(s) \in Nat /\ PaneMax(s) \in Nat /\ w \in Int
  BY <1>1, SideNumbers DEF Pane
<1>3. CASE spDrag.live.collapsed
  <2>1. q = [spDrag.stored EXCEPT !.collapsed = TRUE]
    BY <1>3 DEF SettledPane
  <2>2. q \in Pane /\ q.width = spDrag.stored.width /\ q.collapsed = TRUE
    BY <1>1, <2>1 DEF Pane
  <2> HIDE DEF q, s
  <2>3. q.width >= PaneMin(s) /\ q.width <= PaneMax(s)
    BY <1>1, <2>2 DEF PaneFits
  <2>4. ClampPaneWidth(s, q.width, PaneMax(s)) = q.width
    BY <1>1, <1>2, <2>2, <2>3, ClampedFits DEF Pane
  <2>5. p = q
    BY <2>2, <2>4 DEF Pane
  <2> HIDE DEF p
  <2>6. PaneFits(s, p) /\ p.collapsed = TRUE
    BY <2>2, <2>3, <2>5 DEF PaneFits
  <2>7. Drawn(p) = 0 /\ w = 0
    BY <1>1, <1>3, <2>6 DEF Drawn, LiveFits
  <2>8. spDrag.live.collapsed = TRUE
    BY <1>1, <1>3 DEF Pane
  <2> QED BY <2>6, <2>7, <2>8, Zenon DEF p, q, s
<1>4. CASE ~spDrag.live.collapsed
  <2>1. q = [width |-> w, collapsed |-> FALSE]
    BY <1>4 DEF SettledPane
  <2> HIDE DEF w
  <2>2. q \in Pane /\ q.width = w /\ q.collapsed = FALSE
    BY <1>2, <2>1 DEF Pane
  <2> HIDE DEF q, s
  <2>3. q.width >= PaneMin(s) /\ q.width <= PaneMax(s)
    BY <1>1, <1>4, <2>2 DEF LiveFits, w
  <2>4. ClampPaneWidth(s, q.width, PaneMax(s)) = q.width
    BY <1>1, <1>2, <2>2, <2>3, ClampedFits DEF Pane
  <2>5. p = q
    BY <2>2, <2>4 DEF Pane
  <2> HIDE DEF p
  <2>6. PaneFits(s, p) /\ p.collapsed = FALSE
    BY <2>2, <2>3, <2>5 DEF PaneFits
  <2>7. Drawn(p) = w
    BY <2>2, <2>5 DEF Drawn
  <2>8. spDrag.live.collapsed = FALSE
    BY <1>1, <1>4 DEF Pane
  <2> QED BY <2>6, <2>7, <2>8, Zenon DEF p, q, s, w
<1> QED BY <1>3, <1>4

LEMMA LetGoStep ==
  ASSUME SidesInv, LetGo
  PROVE  SidesInv'
<1> DEFINE s == spDrag.side
           o == OtherSide(s)
           w == spDrag.live.width
           p == [SettledPane EXCEPT !.width = ClampPaneWidth(s, @, PaneMax(s))]
           f == Fitted
<1>1. /\ spDrag # NoSideDrag /\ spDrag' = NoSideDrag /\ UNCHANGED <<spRow, spCalm>> /\ FocusOut(spFocus)
      /\ (spDrag.moved => CommitPane(s, p)) /\ (~spDrag.moved => UNCHANGED <<spPane, spPriority>>)
      /\ spLeftAt' = IF spDrag.moved /\ spCalm THEN [side |-> s, width |-> w] ELSE NotLeft
  BY DEF LetGo
<1>2. DragFits' /\ CalmFits'
  BY <1>1, NoDragFits
<1>3. spFocus' \in Sides \union {"list", "handle"} /\ FocusSeen'
  BY <1>1, FocusOutSeen DEF SidesInv
<1>4. s \in Sides /\ PanesFine /\ spRow \in Nat /\ spCalm \in BOOLEAN /\ o \in Sides /\ o # s /\ spPriority \in Priorities
  BY <1>1, SideNumbers DEF SidesInv, DragFits
<1>5. CASE ~spDrag.moved
  <2>1. PanesFine' /\ spPriority' \in Priorities /\ spLeftAt' = NotLeft
    BY <1>1, <1>4, <1>5 DEF PanesFine
  <2>2. StaysAsLeft'
    BY <2>1 DEF StaysAsLeft
  <2> QED BY <1>1, <1>2, <1>3, <1>4, <2>1, <2>2 DEF SidesInv
<1>6. CASE spDrag.moved
  <2>1. PaneFits(s, p) /\ Drawn(p) = w
    BY <1>1, <1>6, SettledFits
  <2> HIDE DEF p
  <2>2. PanesFine' /\ spPriority' \in Priorities /\ spPriority' = s /\ spPane'[s] = p /\ spPane'[o] = spPane[o]
    BY <1>1, <1>4, <1>6, <2>1, CommitFits
  <2>3. CASE ~spCalm
    <3>1. spLeftAt' = NotLeft
      BY <1>1, <2>3
    <3>2. StaysAsLeft'
      BY <3>1 DEF StaysAsLeft
    <3> QED BY <1>1, <1>2, <1>3, <1>4, <2>2, <3>1, <3>2 DEF SidesInv
  <2>4. CASE spCalm
    <3>1. spLeftAt' = [side |-> s, width |-> w]
      BY <1>1, <1>6, <2>4
    <3>2. spDrag.other = f[o] /\ (spRow # 0 => w <= Room(s, spRow, f[o]))
      BY <1>1, <1>6, <2>4 DEF SidesInv, CalmFits
    <3>3. f[o] \in Int /\ f[o] >= Drawn(spPane[o]) - Slack(o, spPane[o])
      BY <1>4, FittedFits DEF Fits
    <3>4. /\ Drawn(spPane[o]) \in Nat /\ Slack(o, spPane[o]) \in Nat
          /\ Drawn(p) \in Nat /\ Slack(s, p) \in Nat /\ w \in Nat
          /\ (p.collapsed => Slack(s, p) = 0) /\ (~p.collapsed => Slack(s, p) = w - PaneMin(s))
      <4>1. PaneFits(o, spPane[o])
        BY <1>4 DEF PanesFine
      <4>2. Drawn(spPane[o]) \in Nat /\ Slack(o, spPane[o]) \in Nat
        BY <1>4, <4>1, DrawnFacts
      <4>3. /\ Drawn(p) \in Nat /\ Slack(s, p) \in Nat /\ (p.collapsed => Slack(s, p) = 0)
            /\ (~p.collapsed => Drawn(p) = p.width /\ Slack(s, p) = p.width - PaneMin(s))
        BY <1>4, <2>1, DrawnFacts
      <4> QED BY <2>1, <4>2, <4>3
    <3> HIDE DEF s, o, w
    <3> DEFINE g == FitPaneWidths(spRow, spPane', s)
               total == Drawn(spPane'["left"]) + Drawn(spPane'["right"]) - (spRow - CenterMin)
    <3>5. FirstKept(spRow, spPane', s, g)
      <4>1. \A t \in Sides : PaneFits(t, spPane'[t])
        BY <2>2 DEF PanesFine
      <4>2. s \in Priorities
        BY <1>4 DEF Priorities
      <4> QED BY <1>4, <4>1, <4>2, FitFits
    <3>6. total = w + Drawn(spPane[o]) - (spRow - CenterMin)
      <4>1. CASE s = "left"
        <5>1. o = "right"
          BY <4>1, SideNumbers DEF o
        <5> QED BY <2>1, <2>2, <4>1, <5>1
      <4>2. CASE s = "right"
        <5>1. o = "left"
          BY <4>2, SideNumbers DEF o
        <5>2. Drawn(spPane'["left"]) = Drawn(spPane[o]) /\ Drawn(spPane'["right"]) = w
          BY <2>1, <2>2, <4>2, <5>1
        <5> QED BY <1>4, <3>4, <5>2, SideNumbers
      <4> QED BY <1>4, <4>1, <4>2 DEF Sides
    <3>7. spRow = 0 \/ Slack(s, p) = 0 \/ total <= Slack(o, spPane[o])
      <4>1. SUFFICES ASSUME spRow # 0, Slack(s, p) # 0 PROVE total <= Slack(o, spPane[o])
        OBVIOUS
      <4>2. w > PaneMin(s)
        BY <1>4, <3>4, <4>1, SideNumbers
      <4>3. w <= spRow - CenterMin - f[o]
        BY <1>4, <3>2, <3>3, <3>4, <4>1, <4>2, SideNumbers DEF Room, Most
      <4> HIDE DEF total, f
      <4> QED BY <1>4, <3>3, <3>4, <3>6, <4>3, SideNumbers
    <3> HIDE DEF total
    <3>8. g[s] = w
      <4>1. g[s] = Drawn(spPane'[s])
        BY <2>2, <3>5, <3>7 DEF FirstKept, total, o
      <4> QED BY <2>1, <2>2, <4>1
    <3>9. Fitted' = g
      BY <1>1, <2>2 DEF Fitted
    <3>10. StaysAsLeft' /\ (spLeftAt' # NotLeft => spLeftAt'.side \in Sides)
      BY <1>4, <3>1, <3>8, <3>9 DEF StaysAsLeft
    <3> QED BY <1>1, <1>2, <1>3, <1>4, <2>2, <3>10 DEF SidesInv
  <2> QED BY <2>3, <2>4
<1> QED BY <1>5, <1>6

(* A pane is replaced by a key, a shortcut or a double click: nothing that   *)
(* is compared with what was drawn before goes on.                         *)
LEMMA CommittedFine ==
  ASSUME SidesInv, NEW s \in Sides, NEW half, PaneFits(s, half), CommitPane(s, half), spCalm' = FALSE,
         spLeftAt' = NotLeft, UNCHANGED <<spRow, spDrag>>, NEW at \in Sides \union {"list", "handle"}, FocusOut(at)
  PROVE  SidesInv'
<1>1. PanesFine' /\ spPriority' \in Priorities
  BY CommitFits DEF SidesInv
<1>2. DragFits' /\ CalmFits'
  BY DEF SidesInv, DragFits, CalmFits
<1>3. spFocus' \in Sides \union {"list", "handle"} /\ FocusSeen'
  BY FocusOutSeen
<1>4. StaysAsLeft'
  BY DEF StaysAsLeft
<1> QED BY <1>1, <1>2, <1>3, <1>4 DEF SidesInv

LEMMA KeyStep ==
  ASSUME SidesInv, NEW s \in Sides, PaneKey(s)
  PROVE  SidesInv'
<1> DEFINE base == IF spPane[s].collapsed THEN spPane[s] ELSE [width |-> Fitted[s], collapsed |-> FALSE]
           max == DragMax(s, spRow, Fitted[OtherSide(s)])
<1>1. PICK key \in {"grow", "shrink", "min", "max"} :
        CommitPane(s, [ApplyPaneKey(s, base, key, max) EXCEPT !.width = ClampPaneWidth(s, @, PaneMax(s))])
  BY DEF PaneKey
<1> DEFINE q == ApplyPaneKey(s, base, key, max)
           p == [q EXCEPT !.width = ClampPaneWidth(s, @, PaneMax(s))]
<1>2. spCalm' = FALSE /\ spLeftAt' = NotLeft /\ UNCHANGED <<spRow, spDrag>> /\ FocusOut("handle")
  BY DEF PaneKey, SideActs
<1>3. base \in Pane
  BY FittedFits DEF SidesInv, PanesFine, PaneFits, Pane
<1>4. max \in Int /\ max <= PaneMax(s) /\ PaneMin(s) \in Nat /\ PaneMax(s) \in Nat
  <2>1. Fitted[OtherSide(s)] \in Int /\ spRow \in Nat
    BY FittedFits, SideNumbers DEF SidesInv
  <2> QED BY <2>1, DragMaxFits, SideNumbers
<1> HIDE DEF base, max
<1>5. q \in Pane
  <2>1. CASE key = "min"
    BY <1>4, <2>1 DEF ApplyPaneKey, Pane
  <2>2. CASE key = "max"
    <3>1. ClampPaneWidth(s, PaneMax(s), max) \in Int
      BY <1>4, ClampedFits
    <3> QED BY <2>2, <3>1 DEF ApplyPaneKey, Pane
  <2>3. CASE key \in {"grow", "shrink"} /\ base.collapsed
    BY <1>3, <2>3 DEF ApplyPaneKey, Pane
  <2>4. CASE key \in {"grow", "shrink"} /\ ~base.collapsed
    <3> DEFINE step == IF key = "grow" THEN 64 ELSE -64
               wide == ClampPaneWidth(s, base.width + step, max)
    <3>1. base.width + step \in Int
      BY <1>3 DEF Pane
    <3>2. wide \in Int
      BY <1>4, <3>1, ClampedFits
    <3> HIDE DEF wide
    <3>3. q = [base EXCEPT !.width = wide]
      BY <2>4 DEF ApplyPaneKey, wide
    <3> QED BY <1>3, <3>2, <3>3 DEF Pane
  <2> QED BY <2>1, <2>2, <2>3, <2>4
<1> HIDE DEF q
<1>6. PaneFits(s, p)
  <2> DEFINE wide == ClampPaneWidth(s, q.width, PaneMax(s))
  <2>1. wide \in Int /\ wide >= PaneMin(s) /\ wide <= PaneMax(s)
    BY <1>4, <1>5, ClampedFits DEF Pane
  <2> HIDE DEF wide
  <2>2. p = [q EXCEPT !.width = wide]
    BY DEF wide
  <2>3. p \in Pane /\ p.width = wide
    BY <1>5, <2>1, <2>2 DEF Pane
  <2> HIDE DEF p
  <2> QED BY <2>1, <2>3 DEF PaneFits
<1>7. CommitPane(s, p)
  BY <1>1 DEF q
<1> HIDE DEF p
<1> QED BY <1>2, <1>6, <1>7, CommittedFine

LEMMA ToggleStep ==
  ASSUME SidesInv, NEW s \in Sides, TogglePane(s)
  PROVE  SidesInv'
<1> DEFINE p == [spPane[s] EXCEPT !.collapsed = ~@]
<1>1. CommitPane(s, p) /\ spCalm' = FALSE /\ spLeftAt' = NotLeft /\ UNCHANGED <<spRow, spDrag>> /\ FocusOut(spFocus)
  BY DEF TogglePane, SideActs
<1>2. PaneFits(s, p)
  BY DEF SidesInv, PanesFine, PaneFits, Pane
<1>3. spFocus \in Sides \union {"list", "handle"}
  BY DEF SidesInv
<1> HIDE DEF p
<1> QED BY <1>1, <1>2, <1>3, CommittedFine

LEMMA ResetStep ==
  ASSUME SidesInv, NEW s \in Sides, ResetPane(s)
  PROVE  SidesInv'
<1> DEFINE p == [width |-> PaneDef(s), collapsed |-> FALSE]
<1>1. CommitPane(s, p) /\ spCalm' = FALSE /\ spLeftAt' = NotLeft /\ UNCHANGED <<spRow, spDrag>> /\ FocusOut("handle")
  BY DEF ResetPane, SideActs
<1>2. PaneFits(s, p)
  BY SideNumbers DEF PaneFits, Pane
<1> HIDE DEF p
<1> QED BY <1>1, <1>2, CommittedFine

LEMMA ResizedStep ==
  ASSUME SidesInv, RowResized
  PROVE  SidesInv'
<1>1. /\ spRow' \in RowWidths /\ spCalm' = FALSE /\ spLeftAt' = NotLeft
      /\ UNCHANGED <<spPane, spPriority, spDrag, spFocus>>
  BY DEF RowResized, SideActs
<1>2. spRow' \in Nat
  BY <1>1, SidePanesAssumption
<1>3. DragFits' /\ CalmFits' /\ PanesFine' /\ StaysAsLeft'
  BY <1>1 DEF SidesInv, DragFits, CalmFits, PanesFine, StaysAsLeft
<1>4. FocusSeen'
  BY <1>1 DEF SidesInv, FocusSeen, Collapsed, Live
<1> QED BY <1>1, <1>2, <1>3, <1>4 DEF SidesInv

LEMMA FocusStep ==
  ASSUME SidesInv, FocusMoves
  PROVE  SidesInv'
<1>1. /\ spFocus' \in {"list"} \union {s \in Sides : ~Collapsed(s)} /\ spLeftAt' = NotLeft
      /\ UNCHANGED <<spPane, spPriority, spRow, spDrag, spCalm>>
  BY DEF FocusMoves, SideActs
<1>2. Fitted' = Fitted
  BY <1>1 DEF Fitted
<1>3. DragFits' /\ CalmFits' /\ PanesFine' /\ StaysAsLeft'
  BY <1>1, <1>2 DEF SidesInv, DragFits, CalmFits, PanesFine, StaysAsLeft
<1>4. FocusSeen'
  BY <1>1 DEF FocusSeen, Collapsed, Live, Sides
<1> QED BY <1>1, <1>3, <1>4 DEF SidesInv

LEMMA SidesBegin ==
  ASSUME SidesInit PROVE SidesInv
<1>1. PICK raw \in RawWidths, closed \in BOOLEAN :
        spPane = [left |-> SanitizePane("left", raw, closed), right |-> SanitizePane("right", PaneDef("right"), FALSE)]
  BY DEF SidesInit
<1>2. /\ spPriority = "none" /\ spRow = 0 /\ spDrag = NoSideDrag /\ spFocus = "list" /\ spCalm = FALSE /\ spLeftAt = NotLeft
  BY DEF SidesInit
<1>3. ASSUME NEW s \in Sides, NEW w \in Int, NEW c \in BOOLEAN PROVE PaneFits(s, SanitizePane(s, w, c))
  <2> DEFINE wide == ClampPaneWidth(s, w, PaneMax(s))
  <2>1. wide \in Int /\ wide >= PaneMin(s) /\ wide <= PaneMax(s)
    BY ClampedFits, SideNumbers
  <2> HIDE DEF wide
  <2>2. SanitizePane(s, w, c) = [width |-> wide, collapsed |-> c]
    BY DEF SanitizePane, wide
  <2> QED BY <2>1, <2>2 DEF PaneFits, Pane
<1> DEFINE l == SanitizePane("left", raw, closed)
           r == SanitizePane("right", PaneDef("right"), FALSE)
<1>4. PaneFits("left", l) /\ PaneFits("right", r)
  <2>1. raw \in Int /\ PaneDef("right") \in Int /\ FALSE \in BOOLEAN
    BY SideNumbers, SidePanesAssumption
  <2>2. "left" \in Sides /\ "right" \in Sides
    BY SideNumbers
  <2> QED BY <1>3, <2>1, <2>2, Zenon
<1> HIDE DEF l, r
<1>5. spPane = [left |-> l, right |-> r]
  BY <1>1 DEF l, r
<1>6. spPane["left"] = l /\ spPane["right"] = r /\ spPane \in [Sides -> Pane]
  BY <1>4, <1>5 DEF Sides, PaneFits
<1>7. PanesFine
  BY <1>4, <1>6 DEF PanesFine, Sides
<1>8. DragFits /\ CalmFits
  <2>1. NoSideDrag \in Drags
    BY DEF NoSideDrag, Drags, Pane
  <2> QED BY <1>2, <2>1 DEF DragFits, CalmFits
<1>9. StaysAsLeft /\ FocusSeen
  BY <1>2 DEF StaysAsLeft, FocusSeen, Sides
<1> QED BY <1>2, <1>7, <1>8, <1>9 DEF SidesInv, Priorities

LEMMA SidesStep ==
  ASSUME SidesInv, [SidesNext]_sideVars PROVE SidesInv'
<1>1. CASE MoveHandle \/ LetGo \/ EscapeDrag \/ RowResized \/ FocusMoves
  BY <1>1, MoveHandleStep, LetGoStep, EscapeStep, ResizedStep, FocusStep
<1>2. ASSUME NEW s \in Sides, GrabHandle(s) \/ PaneKey(s) \/ TogglePane(s) \/ ResetPane(s) PROVE SidesInv'
  BY <1>2, GrabStep, KeyStep, ToggleStep, ResetStep
<1>3. CASE UNCHANGED sideVars
  <2>1. UNCHANGED <<spPane, spPriority, spRow, spDrag, spFocus, spCalm, spLeftAt>>
    BY <1>3 DEF sideVars
  <2>2. Fitted' = Fitted
    BY <2>1 DEF Fitted
  <2>3. DragFits' /\ CalmFits' /\ PanesFine' /\ StaysAsLeft'
    BY <2>1, <2>2 DEF SidesInv, DragFits, CalmFits, PanesFine, StaysAsLeft
  <2>4. FocusSeen'
    BY <2>1 DEF SidesInv, FocusSeen, Collapsed, Live
  <2> QED BY <2>1, <2>3, <2>4 DEF SidesInv
<1> QED BY <1>1, <1>2, <1>3, Zenon DEF SidesNext

-----------------------------------------------------------------------------
(* The whole layout: the three invariants, and the run of all stores.       *)

(* However logins end and drops are undone, the tabs stay a good layout, one *)
(* attempt logs in at a time, and a drop nobody touched since can still be   *)
(* taken back (useSplitConnect.ts).                                        *)
THEOREM SplitInvariance == SplitInit /\ [][SplitNext]_splitVars => []SplitInv
<1>1. SplitInit => SplitInv
  BY SplitBegins
<1>2. SplitInv /\ [SplitNext]_splitVars => SplitInv'
  BY SplitStep
<1> QED BY <1>1, <1>2, PTL

(* The strip of tabs through any drag, key, menu or tab of another window:   *)
(* a drag is of a tab that is held, and the tabs stay a good layout.        *)
THEOREM StripInvariance == StripSpec => []StripInv
<1>1. StripInit => StripInv
  BY StripBegins
<1>2. StripInv /\ [StripNext]_stripVars => StripInv'
  <2>1. CASE StripNext
    BY <2>1, StripStep
  <2>2. CASE UNCHANGED stripVars
    <3>1. /\ UNCHANGED <<tdTabs, tdHeld, tdDrag, tdDwell, tdSuppress, tdUnarm>>
          /\ UNCHANGED <<tdSoon, tdFate, tdWrong>>
      BY <2>2 DEF stripVars
    <3>2. DragFine(tdDrag)' = DragFine(tdDrag) /\ Dragging' = Dragging
      BY <3>1 DEF DragFine, Dragging
    <3> QED BY <3>1, <3>2 DEF StripInv
  <2> QED BY <2>1, <2>2
<1> QED BY <1>1, <1>2, PTL DEF StripSpec

(* The side panes stay within their bounds, fit the row of any width, and   *)
(* come back as the user left them.                                        *)
THEOREM SidesInvariance == SidesSpec => []SidesInv
<1>1. SidesInit => SidesInv
  BY SidesBegin
<1>2. SidesInv /\ [SidesNext]_sideVars => SidesInv'
  BY SidesStep
<1> QED BY <1>1, <1>2, PTL DEF SidesSpec

(* Whichever store runs, the tabs, the split and the panes are what the user *)
(* made of them: the stores share no state, so each of them keeps its part  *)
(* alone.                                                                  *)
THEOREM LayoutIsKept == Spec => []LayoutKept
<1>1. Init => SplitInit /\ StripInit /\ SidesInit
  BY Zenon DEF Init
<1>2. [Next]_vars => [SplitNext]_splitVars
  BY Zenon DEF Next, vars, OthersStill, Still
<1>3. [Next]_vars => [StripNext]_stripVars
  BY Zenon DEF Next, vars, OthersStill, Still
<1>4. [Next]_vars => [SidesNext]_sideVars
  BY Zenon DEF Next, vars, OthersStill, Still
<1>5. Spec => SplitInit /\ [][SplitNext]_splitVars /\ StripSpec /\ SidesSpec
  BY <1>1, <1>2, <1>3, <1>4, PTL DEF Spec, StripSpec, SidesSpec
<1>6. SplitInv /\ StripInv /\ SidesInv => LayoutKept
  BY SplitKept, StripKept, SidesKept DEF LayoutKept
<1> QED BY <1>5, <1>6, SplitInvariance, StripInvariance, SidesInvariance, PTL

(* Whichever store runs, a send as a move deletes only what was copied and  *)
(* moves on the server lose nothing, folders and connections are shown as   *)
(* they are.                                                               *)
THEOREM SendsAndViewsAreSafe == Spec => [](SendSafe /\ FolderViewSafe /\ ViewSafe)
<1>1. Init => MoveInit /\ MovesInit /\ FolderViewInit /\ ViewInit
  BY Zenon DEF Init
<1>2. [Next]_vars => [MoveNext]_moveVars
  BY Zenon DEF Next, vars, OthersStill, Still
<1>3. [Next]_vars => [MovesNext]_renameVars
  BY Zenon DEF Next, vars, OthersStill, Still
<1>4. [Next]_vars => [FolderViewNext]_folderViewVars
  BY Zenon DEF Next, vars, OthersStill, Still
<1>5. [Next]_vars => [ViewNext]_viewVars
  BY Zenon DEF Next, vars, OthersStill, Still
<1>6. Spec => /\ MoveInit /\ [][MoveNext]_moveVars /\ MovesSpec
              /\ FolderViewInit /\ [][FolderViewNext]_folderViewVars
              /\ ViewInit /\ [][ViewNext]_viewVars
  BY <1>1, <1>2, <1>3, <1>4, <1>5, PTL DEF Spec, MovesSpec
<1>7. MoveSafe /\ MovesSafe => SendSafe
  BY DEF SendSafe
<1> QED BY <1>6, <1>7, MovesAreWhole, RenamesLoseNothing, FoldersAreShown, ConnectionsAreShown, PTL
=============================================================================
