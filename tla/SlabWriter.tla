------------------------------ MODULE SlabWriter ------------------------------
(***************************************************************************)
(* The receiving end of one range of a download (SegmentWriter in          *)
(* src/main/ftp/segmentWriter.ts).  The data socket reads into slabs of a  *)
(* pool shared with other downloads; full slabs, and what has come after   *)
(* PARTIAL_SLAB_MS, go to a Writable that writes them at their place of    *)
(* the file.  A slab returns to the pool when the socket and every write   *)
(* have let go of it; too many slabs on their way pause the socket.        *)
(*                                                                         *)
(* A byte is its offset in what the server sends from the start of the     *)
(* range.  A slab in the pool may be filled by somebody else.              *)
(***************************************************************************)
EXTENDS Integers, Sequences, FiniteSets, Filtering

CONSTANTS
  SlabSize,     \* DOWNLOAD_SLAB
  SlabCount,    \* DOWNLOAD_SLABS
  RangeLength,  \* range.end - range.start
  Sendings      \* how many bytes the server may send

ASSUME SlabAssumption ==
  /\ SlabSize \in Nat \ {0} /\ SlabCount \in Nat \ {0, 1} /\ RangeLength \in Nat \ {0}
  /\ Sendings \subseteq Nat /\ IsFiniteSet(Sendings)

Slabs == 1..(SlabCount + 1)
NoSlab == 0
Foreign == -1           \* a byte of another download, or of the old file

VARIABLES
  sends, received,
  rangeFinal, rangeLength,
  socketAt,             \* "open", "ended" or "closed"
  slab, fill, sent,     \* of createSocket()
  partialTimer,
  refs,                 \* slabRefs, 0 in the pool
  bytesIn,              \* the memory of each slab
  pieces,               \* submitted, behind the write in progress
  writev,               \* the pieces of the write in progress
  room,                 \* of that write: length - written when it started
  slabsQueued, paused,
  written,
  inFile,               \* what is at each offset of the range
  writerEnd,            \* "none", "ended" by the pipeline, "done", "overflow" or "error"
  writerStopped, fdClosed

slabVars == <<sends, received, rangeFinal, rangeLength, socketAt, slab, fill, sent,
              partialTimer, refs, bytesIn, pieces, writev, room, slabsQueued, paused,
              written, inFile, writerEnd, writerStopped, fdClosed>>
rangeVars == <<sends, rangeFinal, rangeLength>>
fileVars == <<written, inFile, fdClosed>>

Ending == writerStopped \/ writerEnd # "none"
Destroyed == writerEnd \notin {"none", "ended"}

Piece(s, from, to) == [slab |-> s, from |-> from, to |-> to]
Lengths(ps) == [i \in DOMAIN ps |-> ps[i].to - ps[i].from]
Total(ps) == SumOf(Lengths(ps))
PiecesIn(ps, s) == Cardinality({i \in DOMAIN ps : ps[i].slab = s})
Without(r, ps) == [s \in Slabs |-> r[s] - PiecesIn(ps, s)]

(* releaseSlab(): the references are now r.  A slab without any is in the  *)
(* pool, where another download fills it at once; m is the memory, q the   *)
(* slabs the socket has dropped.                                           *)
Settle(r, m, q) ==
  LET back == {s \in Slabs : refs[s] > 0 /\ r[s] = 0} IN
  /\ refs' = r
  /\ bytesIn' = [s \in Slabs |-> IF s \in back THEN [i \in 1..SlabSize |-> Foreign] ELSE m[s]]
  /\ slabsQueued' = q - Cardinality(back)
  /\ paused' = (paused /\ (back = {} \/ q - Cardinality(back) >= SlabCount - 1))

(* submitPiece(): a reference of its own, and write(), which starts when   *)
(* no other write runs.                                                    *)
PieceRef(r, s) == [r EXCEPT ![s] = @ + 1]

Write(p) ==
  IF writev = <<>>
  THEN writev' = <<p>> /\ room' = rangeLength - written /\ UNCHANGED pieces
  ELSE pieces' = Append(pieces, p) /\ UNCHANGED <<writev, room>>

-----------------------------------------------------------------------------
(* n bytes arrive in the slab of the socket, or in a new one.  A writer    *)
(* that has ended drops them; a full slab is submitted and let go of.      *)
Receive(n) ==
  /\ socketAt = "open" /\ ~paused /\ received + n <= sends /\ fill + n <= SlabSize
  /\ \E s \in Slabs :
       /\ IF slab # NoSlab THEN s = slab
          ELSE refs[s] = 0 /\ \A t \in 1..(s - 1) : refs[t] # 0
       /\ LET held == [refs EXCEPT ![s] = IF slab = NoSlab THEN 1 ELSE @]
              got == [bytesIn EXCEPT ![s] = [i \in 1..SlabSize |->
                        IF i \in (fill + 1)..(fill + n) THEN received + i - fill - 1 ELSE @[i]]]
          IN \/ /\ Ending
                /\ slab' = s /\ refs' = held /\ bytesIn' = got
                /\ UNCHANGED <<fill, sent, partialTimer, pieces, writev, room, slabsQueued, paused>>
             \/ /\ ~Ending /\ fill + n < SlabSize
                /\ slab' = s /\ refs' = held /\ bytesIn' = got
                /\ fill' = fill + n /\ partialTimer' = TRUE
                /\ UNCHANGED <<sent, pieces, writev, room, slabsQueued, paused>>
             \/ /\ ~Ending /\ fill + n = SlabSize
                /\ Write(Piece(s, sent, SlabSize))
                /\ slab' = NoSlab /\ fill' = 0 /\ sent' = 0 /\ partialTimer' = FALSE
                /\ refs' = [PieceRef(held, s) EXCEPT ![s] = @ - 1]
                /\ bytesIn' = got
                /\ slabsQueued' = slabsQueued + 1
                /\ paused' = (slabsQueued + 1 >= SlabCount - 1)
  /\ received' = received + n
  /\ UNCHANGED <<rangeVars, socketAt, fileVars, writerEnd, writerStopped>>

(* flushPartial(): the socket keeps the rest of the slab.                  *)
FlushPartial ==
  /\ partialTimer
  /\ partialTimer' = FALSE /\ sent' = fill
  /\ IF Ending \/ fill = sent THEN UNCHANGED <<refs, pieces, writev, room>>
     ELSE refs' = PieceRef(refs, slab) /\ Write(Piece(slab, sent, fill))
  /\ UNCHANGED <<rangeVars, received, socketAt, slab, fill, bytesIn, slabsQueued, paused,
                 fileVars, writerEnd, writerStopped>>

(* letGo() of the slab, the references being r without those of ps.        *)
LetGo(r, ps) ==
  /\ slab' = NoSlab /\ fill' = 0 /\ sent' = 0 /\ partialTimer' = FALSE
  /\ IF slab = NoSlab THEN Settle(Without(r, ps), bytesIn, slabsQueued)
     ELSE Settle([Without(r, ps) EXCEPT ![slab] = @ - 1], bytesIn, slabsQueued + 1)

(* 'end': everything has been read; the pipeline ends the writer.          *)
SocketEnds ==
  /\ socketAt = "open" /\ ~paused /\ received = sends
  /\ socketAt' = "ended"
  /\ writerEnd' = IF writerEnd = "none" THEN "ended" ELSE writerEnd
  /\ IF Ending \/ fill = sent
     THEN LetGo(refs, <<>>) /\ UNCHANGED <<pieces, writev, room>>
     ELSE LetGo(PieceRef(refs, slab), <<>>) /\ Write(Piece(slab, sent, fill))
  /\ UNCHANGED <<rangeVars, received, fileVars, writerStopped>>

(* The socket is closed: by the error of the writer, a cancel, or the      *)
(* network.  basic-ftp destroys the writer, and may have taken the         *)
(* listeners first: then the slab is lost to the pool.                     *)
SocketCloses(heard) ==
  /\ socketAt = "open"
  /\ socketAt' = "closed"
  /\ writerEnd' = IF writerEnd = "none" THEN "error" ELSE writerEnd
  /\ pieces' = <<>>
  /\ IF heard THEN LetGo(refs, pieces)
     ELSE Settle(Without(refs, pieces), bytesIn, slabsQueued)
          /\ UNCHANGED <<slab, fill, sent, partialTimer>>
  /\ UNCHANGED <<rangeVars, received, writev, room, fileVars, writerStopped>>

-----------------------------------------------------------------------------
(* The end of _writev(): what is beyond the range was left out.            *)
Covers(ps, i, k) == PartSums(Lengths(ps))[i - 1] <= k /\ k < PartSums(Lengths(ps))[i]

ByteAt(ps, k) ==
  LET at == CHOOSE i \in DOMAIN ps : Covers(ps, i, k)
  IN  bytesIn[ps[at].slab][ps[at].from + 1 + k - PartSums(Lengths(ps))[at - 1]]

Cut(total) ==
  IF total < room \/ (rangeFinal /\ total = room) THEN "none"
  ELSE IF rangeFinal THEN "overflow" ELSE "done"

(* Behind it the pieces that came meanwhile are written together, unless   *)
(* the writer was stopped or destroyed.                                    *)
Proceeds(end) ==
  LET over == end # "none" \/ writerStopped \/ Destroyed IN
  /\ Settle(Without(refs, IF over THEN writev \o pieces ELSE writev), bytesIn, slabsQueued)
  /\ writev' = IF over THEN <<>> ELSE pieces
  /\ room' = rangeLength - written'
  /\ pieces' = <<>>
  /\ writerEnd' = IF end # "none" /\ ~Destroyed THEN end ELSE writerEnd

WriteDone(ok) ==
  /\ writev # <<>>
  /\ LET total == Total(writev)
         n == IF total < room THEN total ELSE room
     IN IF ok
        THEN /\ inFile' = [o \in DOMAIN inFile |->
                             IF o \in written..(written + n - 1) THEN ByteAt(writev, o - written)
                             ELSE inFile[o]]
             /\ written' = written + n
             /\ Proceeds(Cut(total))
        ELSE UNCHANGED <<inFile, written>> /\ Proceeds("error")
  /\ UNCHANGED <<rangeVars, received, socketAt, slab, fill, sent, partialTimer,
                 writerStopped, fdClosed>>

(* splitAt(), behind everything the writer has been given.                 *)
SplitAt(end) ==
  /\ rangeFinal /\ ~Ending
  /\ end > written + Total(writev \o pieces) /\ end < rangeLength
  /\ rangeFinal' = FALSE /\ rangeLength' = end
  /\ UNCHANGED <<sends, received, socketAt, slab, fill, sent, partialTimer, refs, bytesIn,
                 pieces, writev, room, slabsQueued, paused, fileVars, writerEnd, writerStopped>>

(* stop(), when the download has ended; then the caller closes the file    *)
(* once no write is in progress.                                           *)
WritesOver == writev = <<>>

Stop ==
  /\ ~writerStopped
  /\ \/ socketAt = "closed" \/ Destroyed
     \/ writerEnd = "ended" /\ writev = <<>>
  /\ writerStopped' = TRUE /\ partialTimer' = FALSE
  /\ UNCHANGED <<rangeVars, received, socketAt, slab, fill, sent, refs, bytesIn, pieces,
                 writev, room, slabsQueued, paused, fileVars, writerEnd>>

CloseFile ==
  /\ writerStopped /\ ~fdClosed /\ WritesOver
  /\ fdClosed' = TRUE
  /\ UNCHANGED <<rangeVars, received, socketAt, slab, fill, sent, partialTimer, refs,
                 bytesIn, pieces, writev, room, slabsQueued, paused, written, inFile,
                 writerEnd, writerStopped>>

-----------------------------------------------------------------------------
SlabInit ==
  /\ sends \in Sendings /\ received = 0
  /\ rangeFinal \in BOOLEAN /\ rangeLength = RangeLength
  /\ socketAt = "open" /\ slab = NoSlab /\ fill = 0 /\ sent = 0 /\ partialTimer = FALSE
  /\ refs = [s \in Slabs |-> 0]
  /\ bytesIn = [s \in Slabs |-> [i \in 1..SlabSize |-> Foreign]]
  /\ pieces = <<>> /\ writev = <<>> /\ room = 0 /\ slabsQueued = 0 /\ paused = FALSE
  /\ written = 0 /\ inFile = [o \in 0..RangeLength |-> Foreign]
  /\ writerEnd = "none" /\ writerStopped = FALSE /\ fdClosed = FALSE

SlabProgress ==
  \/ \E n \in 1..SlabSize : Receive(n)
  \/ FlushPartial \/ SocketEnds \/ Stop \/ CloseFile
  \/ Destroyed /\ \E heard \in BOOLEAN : SocketCloses(heard)
  \/ \E ok \in BOOLEAN : WriteDone(ok)

SlabNext ==
  \/ SlabProgress
  \/ \E heard \in BOOLEAN : SocketCloses(heard)
  \/ \E end \in 1..RangeLength : SplitAt(end)

SlabSpec == SlabInit /\ [][SlabNext]_slabVars /\ WF_slabVars(SlabProgress)

-----------------------------------------------------------------------------
SlabTypeOK ==
  /\ received \in 0..sends /\ rangeLength \in 1..RangeLength
  /\ slab \in Slabs \cup {NoSlab} /\ 0 <= sent /\ sent <= fill /\ fill <= SlabSize
  /\ \A s \in Slabs : refs[s] \in Nat
  /\ slabsQueued \in 0..SlabCount
  /\ writerEnd \in {"none", "ended", "done", "overflow", "error"}

(* A slab has a reference of the socket while that reads into it and one   *)
(* of every piece still to be written, so no other download gets it; the   *)
(* download holds no more than its share.                                  *)
SlabsCounted ==
  /\ Without(Without(refs, writev), pieces) = [s \in Slabs |-> IF s = slab THEN 1 ELSE 0]
  /\ Cardinality({s \in Slabs : refs[s] > 0}) <= SlabCount
  /\ slabsQueued = Cardinality({s \in Slabs : refs[s] > 0 /\ s # slab})

(* The file holds the server's bytes at their places, nothing beyond the   *)
(* range, and nothing once it is closed.                                   *)
FileRight ==
  /\ \A o \in DOMAIN inFile : inFile[o] = IF o < written THEN o ELSE Foreign
  /\ written <= rangeLength
  /\ fdClosed => writev = <<>>

(* A range that is done is full, a stream that ended well has all it was   *)
(* sent.                                                                   *)
EndsFull ==
  /\ writerEnd = "done" => written = rangeLength /\ ~rangeFinal
  /\ writerEnd = "ended" /\ writev = <<>> /\ socketAt = "ended" => written = received

SlabSafe == SlabTypeOK /\ SlabsCounted /\ FileRight /\ EndsFull

(* A paused socket goes on, and the file is closed.                        *)
SlabSettles == <>fdClosed
=============================================================================
