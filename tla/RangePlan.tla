------------------------------ MODULE RangePlan ------------------------------
(***************************************************************************)
(* The ranges of one split download, byte by byte: planSegments()          *)
(* (src/main/transfer/segmentedDownload.ts), the split of what is left of  *)
(* a slow LAN stream (probeStream() in TransferQueue.ts), and the sum of   *)
(* written bytes that says whether the file is complete.  TransferQueue    *)
(* takes for granted that the ranges cover the file; this module does not. *)
(*                                                                         *)
(* The server sends, from the start of a range, all the rest of the file:  *)
(* a range that is not the last one is cut off when it is full.            *)
(***************************************************************************)
EXTENDS Integers, Sequences, FiniteSets, SequencesExt

CONSTANTS
  FileSizes,
  SegmentMin, SegmentSize,   \* SEGMENT_MIN, SEGMENT_SIZE
  MaxLimit,                  \* largest limit of the pool
  MaxBreaks                  \* bound: failures of ranges

ASSUME RangeAssumption ==
  /\ FileSizes \subseteq Nat /\ SegmentMin \in Nat /\ SegmentSize \in Nat \ {0}
  /\ MaxLimit \in Nat /\ MaxBreaks \in Nat

VARIABLES
  fileSize,    \* the answer of SIZE, which nobody changes
  ranges,      \* every range so far; done: settled, got: written, held: in the writer's buffer
  whole,       \* state.probing: one stream that may be split
  sumWritten,  \* state.written
  openRanges,  \* state.remaining
  onDisk,      \* offsets of the file that hold what the server has there
  overflowed,  \* the writer of the final range met more than its length
  rangeBreaks

rangePlanVars == <<fileSize, ranges, whole, sumWritten, openRanges, onDisk, overflowed, rangeBreaks>>

Smaller(a, b) == IF a <= b THEN a ELSE b
CeilDiv(a, b) == (a + b - 1) \div b

(* Where range i (from 0) of n starts: the loop adds base to each and one   *)
(* byte more to the first extra ones.                                      *)
RangeStart(size, n, i) == i * (size \div n) + Smaller(i, size % n)

RangeCount(size, limit) == Smaller(limit, CeilDiv(size, SegmentSize))

(* planSegments(); no ranges: as one stream.                               *)
PlanSegments(size, limit, minSize) ==
  IF limit < 2 \/ size < minSize \/ RangeCount(size, limit) < 2 THEN <<>>
  ELSE LET n == RangeCount(size, limit) IN
       [i \in 1..n |-> [start |-> RangeStart(size, n, i - 1), end |-> RangeStart(size, n, i),
                        final |-> i = n]]

Fresh(r) == [start |-> r.start, end |-> r.end, final |-> r.final, got |-> 0, held |-> 0,
             done |-> FALSE]
Length(r) == r.end - r.start
Offsets(r) == r.start..(r.end - 1)

-----------------------------------------------------------------------------
(* startSegmented(): on a LAN one range for all of the file.               *)
StartSplit(limit, lan) ==
  LET plan == PlanSegments(fileSize, limit, SegmentMin)
      chosen == IF lan THEN <<[start |-> 0, end |-> fileSize, final |-> TRUE]>> ELSE plan
  IN
  /\ ranges = <<>> /\ plan # <<>>
  /\ ranges' = [i \in DOMAIN chosen |-> Fresh(chosen[i])]
  /\ openRanges' = Len(chosen)
  /\ whole' = lan
  /\ UNCHANGED <<fileSize, sumWritten, onDisk, overflowed, rangeBreaks>>

Arrive(i) ==
  LET r == ranges[i] IN
  /\ ~r.done /\ r.got < Length(r)
  /\ \E n \in 1..2 : /\ r.start + r.got + r.held + n <= fileSize
                     /\ ranges' = [ranges EXCEPT ![i].held = @ + n]
  /\ UNCHANGED <<fileSize, whole, sumWritten, openRanges, onDisk, overflowed, rangeBreaks>>

(* _writev(): no more than there is room for; too much is an error in the   *)
(* final range and the business of the next one in the others.             *)
WriteOut(i) ==
  LET r == ranges[i]
      take == Smaller(r.held, Length(r) - r.got)
  IN
  /\ ~r.done /\ r.held > 0
  /\ ranges' = [ranges EXCEPT ![i].got = @ + take, ![i].held = 0]
  /\ onDisk' = onDisk \cup (r.start + r.got)..(r.start + r.got + take - 1)
  /\ overflowed' = (overflowed \/ (r.final /\ r.held > take))
  /\ UNCHANGED <<fileSize, whole, sumWritten, openRanges, rangeBreaks>>

(* probeStream(): the range keeps what has come and its part of the rest.   *)
(* Fault: the shortened range still is the final one.                       *)
StillFinal(r) == r.final
NoLongerFinal(r) == FALSE

SplitRest(limit) ==
  LET r == ranges[1]
      pos == r.start + r.got + r.held
      rest == PlanSegments(fileSize - pos, limit, 0)
  IN
  /\ whole /\ ~r.done /\ r.got > 0
  /\ whole' = FALSE
  /\ IF Len(rest) < 2 THEN UNCHANGED <<ranges, openRanges>>
     ELSE /\ ranges' = <<[r EXCEPT !.end = pos + rest[1].end, !.final = NoLongerFinal(r)]>> \o
                       [k \in 1..Len(rest) - 1 |->
                          Fresh([start |-> pos + rest[k + 1].start, end |-> pos + rest[k + 1].end,
                                 final |-> rest[k + 1].final])]
          /\ openRanges' = openRanges + Len(rest) - 1
  /\ UNCHANGED <<fileSize, sumWritten, onDisk, overflowed, rangeBreaks>>

(* settleSegment(): received in full.                                      *)
RangeReceived(i) ==
  /\ ~ranges[i].done /\ ranges[i].got = Length(ranges[i])
  /\ ranges' = [ranges EXCEPT ![i].done = TRUE]
  /\ sumWritten' = sumWritten + ranges[i].got
  /\ openRanges' = openRanges - 1
  /\ UNCHANGED <<fileSize, whole, onDisk, overflowed, rangeBreaks>>

(* The connection breaks; the retry begins with a new writer, at the start  *)
(* of the range as it is now.                                              *)
RangeBreaks(i) ==
  /\ ~ranges[i].done /\ rangeBreaks < MaxBreaks
  /\ rangeBreaks' = rangeBreaks + 1
  /\ ranges' = [ranges EXCEPT ![i].got = 0, ![i].held = 0]
  /\ UNCHANGED <<fileSize, whole, sumWritten, openRanges, onDisk, overflowed>>

RangePlanInit ==
  /\ fileSize \in FileSizes
  /\ ranges = <<>> /\ whole = FALSE /\ sumWritten = 0 /\ openRanges = 0
  /\ onDisk = {} /\ overflowed = FALSE /\ rangeBreaks = 0

RangePlanNext ==
  \/ \E limit \in 0..MaxLimit : (\E lan \in BOOLEAN : StartSplit(limit, lan)) \/ SplitRest(limit)
  \/ \E i \in DOMAIN ranges : Arrive(i) \/ WriteOut(i) \/ RangeReceived(i) \/ RangeBreaks(i)

RangePlanSpec == RangePlanInit /\ [][RangePlanNext]_rangePlanVars

-----------------------------------------------------------------------------
(* The ranges follow each other from 0 to the size, none is empty, and the  *)
(* one that ends the file is the final one, whatever was split when.       *)
RangesTile ==
  ranges # <<>> =>
    /\ ranges[1].start = 0 /\ ranges[Len(ranges)].end = fileSize
    /\ \A i \in DOMAIN ranges :
         /\ ranges[i].start < ranges[i].end
         /\ ranges[i].final = (i = Len(ranges))
         /\ i > 1 => ranges[i].start = ranges[i - 1].end

(* The sum the queue compares with the size counts each byte once; when no  *)
(* range is left it is the size and every byte of the file is in place.    *)
SumIsTrue ==
  /\ openRanges = Cardinality({i \in DOMAIN ranges : ~ranges[i].done})
  /\ \A i \in DOMAIN ranges : ranges[i].done => Offsets(ranges[i]) \subseteq onDisk
  /\ ranges # <<>> /\ openRanges = 0 => sumWritten = fileSize /\ onDisk = 0..(fileSize - 1)

(* A server that honours REST is never taken for one that does not.        *)
NoFalseOverflow == ~overflowed

(* A split download is complete, byte by byte, exactly when it says so.    *)
RangePlanSafe == RangesTile /\ SumIsTrue /\ NoFalseOverflow
=============================================================================
