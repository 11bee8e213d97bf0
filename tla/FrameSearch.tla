----------------------------- MODULE FrameSearch -----------------------------
(***************************************************************************)
(* stream_find_frame of lpx-shared/src/stream.c: the frame of a stream that*)
(* is nearest to a time offset, as the loop over index.csv that the server *)
(* runs for every frame_time of a request.                                 *)
(*                                                                         *)
(* The code subtracts in 64 bits, unsigned, and takes the absolute value   *)
(* with labs, whose argument is a long: 64 bits on a PC, 32 bits on the    *)
(* Raspberry Pi.  QuadSize and LongSize are the numbers of values of the   *)
(* two types.  Frames are counted from 0, as in C.                         *)
(***************************************************************************)
EXTENDS Integers, Sequences

CONSTANTS QuadSize,     (* 2^64                                            *)
          LongSize,     (* 2^64 or 2^32                                    *)
          Indices,      (* the indexes to search                           *)
          Offsets       (* the offsets to look for, unsigned               *)

Row == [start : Nat, end : Nat]

(* A frame is requested when or after the one before it has been received. *)
Ordered(rows) ==
  \A k \in 1 .. Len(rows) :
     /\ rows[k].start <= rows[k].end
     /\ \A l \in k + 1 .. Len(rows) : rows[k].end <= rows[l].start

StoredIndex == {rows \in Seq(Row) : rows # <<>> /\ Ordered(rows)}

ASSUME ConstantsAssumption ==
  /\ LongSize \in Nat \ {0} /\ LongSize % 2 = 0
  /\ QuadSize \in Nat \ {0} /\ LongSize <= QuadSize
  /\ Indices \subseteq StoredIndex
  /\ Offsets \subseteq 0 .. QuadSize - 1

VARIABLES index, timeOffset, i, pc, result

vars == <<index, timeOffset, i, pc, result>>

NotFound == -1

TypeOK ==
  /\ index \in StoredIndex
  /\ timeOffset \in 0 .. QuadSize - 1
  /\ i \in 0 .. Len(index) - 1
  /\ pc \in {"loop", "done"}
  /\ result \in -1 .. Len(index) - 1

Init ==
  /\ index \in Indices
  /\ timeOffset \in Offsets
  /\ i = 0
  /\ pc = "loop"
  /\ result = NotFound

StreamBase == index[1].start

(* frameOffset; mutant: the time itself. *)
FrameTime(k) == index[k + 1].start
FrameOffset(k) == index[k + 1].start - StreamBase

(* labs of a difference that is converted to a long; that of LONG_MIN is
   LONG_MIN. *)
Labs(x) ==
  LET y == x % LongSize IN
    CASE 2 * y < LongSize -> y
      [] 2 * y = LongSize -> -y
      [] OTHER -> LongSize - y

NextIsFarther(k) ==
  Labs(FrameOffset(k + 1) - timeOffset) > Labs(FrameOffset(k) - timeOffset)

Return(k) ==
  /\ result' = k
  /\ pc' = "done"
  /\ UNCHANGED <<index, timeOffset, i>>

CompareWithNext ==
  /\ pc = "loop"
  /\ i < Len(index) - 1
  /\ \/ /\ NextIsFarther(i)
        /\ Return(i)
     \/ /\ ~NextIsFarther(i)
        /\ i' = i + 1
        /\ UNCHANGED <<index, timeOffset, pc, result>>

(* The offset is before the end of the stream; mutant: before its last frame. *)
BeforeLastStart == (StreamBase + timeOffset) % QuadSize < index[Len(index)].start
BeforeEnd == (StreamBase + timeOffset) % QuadSize < index[Len(index)].end

(* The number of the last frame; mutant: off by one. *)
LastFrameOffByOne == Len(index)
LastFrame == Len(index) - 1

AfterLoop ==
  /\ pc = "loop"
  /\ i = Len(index) - 1
  /\ Return(IF BeforeEnd THEN LastFrame ELSE NotFound)

Returned == pc = "done" /\ UNCHANGED vars

Next == CompareWithNext \/ AfterLoop \/ Returned

Spec == Init /\ [][Next]_vars
-----------------------------------------------------------------------------
(* Properties *)

(* The distance the search is about, as a number *)
Abs(x) == IF x < 0 THEN -x ELSE x
Distance(k) == Abs(FrameTime(k) - StreamBase - timeOffset)

(***************************************************************************)
(* No difference of the search leaves the range of a long, and no sum that *)
(* of a 64-bit number: the stream and the offset are shorter than 2^31     *)
(* microseconds where a long has 32 bits.                                  *)
(***************************************************************************)
Fits ==
  /\ \A k \in 0 .. Len(index) - 1 : 2 * Distance(k) < LongSize
  /\ StreamBase + timeOffset < QuadSize

(***************************************************************************)
(* stream.h:31 calls stream_find_frame the "search of the index of the     *)
(* frame nearest to the given time offset": no other frame starts nearer   *)
(* to it, although the loop stops at the first frame whose successor is    *)
(* farther, and skips equal ones.                                          *)
(***************************************************************************)
NearestFound ==
  pc = "done" /\ result # NotFound =>
    \A k \in 0 .. Len(index) - 1 : Distance(result) <= Distance(k)

(***************************************************************************)
(* What the search does promise: where the numbers fit, the nearest frame, *)
(* and none exactly for an offset behind the end of the stream.            *)
(***************************************************************************)
SearchRight ==
  pc = "done" /\ Fits =>
    /\ NearestFound
    /\ result = NotFound <=> StreamBase + timeOffset >= index[Len(index)].end
=============================================================================
