-------------------------------- MODULE Server --------------------------------
(***************************************************************************)
(* lpx-server/src/main.c: downloads and deletions of stored streams.       *)
(*                                                                         *)
(* libmicrohttpd (external) runs all connections in one thread: a request  *)
(* handler, or the production of one piece of a download, is a step that   *)
(* nothing interrupts, but the pieces of several downloads and other       *)
(* requests come in any order.  All downloads share the variable `spos'    *)
(* of stream_reader_callback.                                              *)
(*                                                                         *)
(* A download is measured in units: one for the count of frames, and       *)
(* FrameUnits for each frame with its header.  Module ByteStream looks     *)
(* inside of them.  Frames are counted from 0, as in C.                    *)
(***************************************************************************)
EXTENDS StreamStorage, FiniteSetsExt

CONSTANTS Conns,       (* the connections                                  *)
          Stored,      (* Stored[t]: the index of train t at the start     *)
          Times,       (* values of the parameter stream_time              *)
          Arguments,   (* values of the other parameters of a GET          *)
          FrameUnits,
          ReadSizes,   (* units a piece of a download has room for         *)
          SsizeSize    (* the number of values of ssize_t                  *)

Argument ==
  [times : Seq(Int),       (* frame_time, in the order of the URL          *)
   offset : Nat,           (* offset, 0 when there is none                 *)
   malformed : BOOLEAN]    (* one of them is no number, or offset negative *)

ASSUME ConstantsAssumption ==
  /\ TrainIds \subseteq Nat
  /\ Stored \in [TrainIds -> Seq(Row) \ {<<>>}]
  /\ Times \subseteq Nat
  /\ Arguments \subseteq Argument
  /\ FrameUnits \in Nat \ {0}
  /\ ReadSizes \subseteq Nat \ {0}
  /\ SsizeSize \in Nat \ {0}

VARIABLES
  conns,       (* the download of each connection                          *)
  spos,
  aborted,     (* the assertion on spos has failed                         *)
  (* history *)
  deleted,     (* the trains a DELETE was answered Ok for                  *)
  overlapped   (* two downloads have been open at the same time            *)

vars == <<storageVars, conns, spos, aborted, deleted, overlapped>>

NONE == -1
NoArgument == [times |-> <<>>, offset |-> 0, malformed |-> FALSE]

Download ==
  [state : {"none", "open", "complete"},
   train : TrainIds \cup {NONE},
   argument : Arguments \cup {NoArgument},
   frames : Seq(Nat),      (* the files of the archive                     *)
   pos : Nat,              (* units sent                                   *)
   got : Seq(Nat)]         (* history: the files that were opened          *)

(* No download, or one that has failed or been broken off *)
NoDownload == [state |-> "none", train |-> NONE, argument |-> NoArgument,
               frames |-> <<>>, pos |-> 0, got |-> <<>>]

TypeOK ==
  /\ StorageTypeOK
  /\ conns \in [Conns -> Download]
  /\ spos \in Nat
  /\ aborted \in BOOLEAN
  /\ deleted \subseteq TrainIds
  /\ overlapped \in BOOLEAN

Init ==
  /\ dirs = TrainIds
  /\ files = [t \in TrainIds |-> 0 .. Len(Stored[t]) - 1]
  /\ indexed = TrainIds
  /\ index = Stored
  /\ conns = [c \in Conns |-> NoDownload]
  /\ spos = 0
  /\ aborted = FALSE
  /\ deleted = {}
  /\ overlapped = FALSE
-----------------------------------------------------------------------------
(* Finding a stream: storage_find_stream *)

(* stream_find_frame_abs says yes by returning the time, as a ssize_t, and
   no by -1, which the time itself may become. *)
SomeFrame(rows, time) ==
  /\ \E k \in 1 .. Len(rows) : rows[k].start <= time /\ time <= rows[k].end
  /\ time % SsizeSize # SsizeSize - 1

(* The streams found, depending on the indexes that can be read: the last
   one that covers the time, in the order of readdir *)
Found(time, readable) == {t \in readable : SomeFrame(index[t], time)}
-----------------------------------------------------------------------------
(* Choosing the frames: open_stream_offset and open_stream_frames *)

Abs(x) == IF x < 0 THEN -x ELSE x

(***************************************************************************)
(* stream_find_frame, see module FrameSearch.  Numbers are small enough    *)
(* here for a long; a negative frame_time wraps around to an offset for    *)
(* which the code computes the same as for the negative number.            *)
(***************************************************************************)
FindFrame(rows, timeOffset) ==
  LET distance(k) == Abs(rows[k + 1].start - rows[1].start - timeOffset)
      stops == {k \in 0 .. Len(rows) - 2 : distance(k + 1) > distance(k)}
  IN  IF stops # {} THEN Min(stops)
      ELSE IF rows[1].start + timeOffset < rows[Len(rows)].end
        THEN Len(rows) - 1 ELSE -1

(* frame_times, sorted as unsigned numbers; mutant: as they come *)
UnsignedLess(a, b) == IF (a >= 0) = (b >= 0) THEN a < b ELSE a >= 0
UnsortedTimes(times) == times
SortedTimes(times) ==
  LET places == 1 .. Len(times)
      order == CHOOSE p \in Bijection(places, places) :
                 \A i, j \in places :
                   i < j => ~UnsignedLess(times[p[j]], times[p[i]])
  IN  [j \in places |-> times[order[j]]]

(* The frames found up to the first time behind the stream; mutant: all *)
WithoutBreak(found) == found
UntilBehind(found) ==
  LET behind == {j \in 1 .. Len(found) : found[j] = -1}
  IN  IF behind = {} THEN found ELSE SubSeq(found, 1, Min(behind) - 1)

FramesAt(rows, times) ==
  UntilBehind([j \in 1 .. Len(times) |-> FindFrame(rows, times[j])])

FramesFrom(rows, offset) ==
  [j \in 1 .. (IF offset < Len(rows) THEN Len(rows) - offset ELSE 0)
     |-> offset + j - 1]

FramesFor(rows, arg) ==
  IF arg.times # <<>> THEN FramesAt(rows, SortedTimes(arg.times))
                      ELSE FramesFrom(rows, arg.offset)
-----------------------------------------------------------------------------
(* GET /stream *)

OpenDownload(c, t, arg) ==
  /\ conns' = [conns EXCEPT ![c] =
                 [state |-> "open", train |-> t, argument |-> arg,
                  frames |-> FramesFor(index[t], arg), pos |-> 0,
                  got |-> <<>>]]
  /\ overlapped' = (overlapped \/ \E o \in Conns : conns[o].state = "open")

(***************************************************************************)
(* Any index may be unreadable at the time of storage_find_stream, which   *)
(* skips it, and again when the stream is opened, which is an error, as it *)
(* is when the streams cannot be listed.                                   *)
(* open_stream_offset ends without a return statement; the result is that  *)
(* of storage_open_stream in all builds of gcc, from -O0 to -O3.           *)
(***************************************************************************)
Get(c) ==
  /\ ~aborted
  /\ conns[c].state # "open"
  /\ \E time \in Times, arg \in Arguments, readable \in SUBSET indexed :
       LET found == Found(time, readable) IN
         \/ /\ found = {}                                  (* 404 *)
            /\ UNCHANGED <<conns, overlapped>>
         \/ /\ found # {} /\ arg.malformed                (* 400 *)
            /\ UNCHANGED <<conns, overlapped>>
         \/ /\ UNCHANGED <<conns, overlapped>>                (* 500 *)
         \/ /\ ~arg.malformed                             (* 200 *)
            /\ \E t \in found : OpenDownload(c, t, arg)
  /\ UNCHANGED <<storageVars, spos, aborted, deleted>>
-----------------------------------------------------------------------------
(* stream_reader_callback and stream_close_callback *)

Total(d) == 1 + FrameUnits * Len(d.frames)

(* The places in the archive whose file is opened by the next n units *)
OpenedBy(d, n) ==
  {k \in 1 .. Len(d.frames) : 2 + (k - 1) * FrameUnits \in d.pos + 1 .. d.pos + n}

(* spos at the start of a piece; mutant: it is never set back. *)
StartKept(pos) == spos
Start(pos) == IF pos = 0 THEN 0 ELSE spos

(* A download whose next file cannot be had ends with an error; mutant: as
   if the archive were at its end. *)
MissingFileEnds(d) == [d EXCEPT !.state = "complete"]
MissingFile(d) == NoDownload

ReadPiece(c) ==
  LET d == conns[c] IN
  /\ ~aborted
  /\ d.state = "open"
  /\ d.pos = 0 \/ d.pos = spos
  /\ \E max \in ReadSizes :
       LET n == Min({max, Total(d) - d.pos})
           opened == OpenedBy(d, n)
       IN \/ /\ n = 0
             /\ conns' = [conns EXCEPT ![c].state = "complete"]
             /\ spos' = Start(d.pos)
          \/ /\ n > 0
             /\ \A k \in opened : d.frames[k] \in files[d.train]
             /\ conns' = [conns EXCEPT ![c].pos = d.pos + n,
                            ![c].got = @ \o [j \in 1 .. Cardinality(opened) |->
                                               d.frames[Len(@) + j]]]
             /\ spos' = Start(d.pos) + n
          \/ /\ opened # {}
             /\ conns' = [conns EXCEPT ![c] = MissingFile(d)]
             /\ spos' = Start(d.pos)
  /\ UNCHANGED <<storageVars, aborted, deleted, overlapped>>

AssertionFails(c) ==
  /\ ~aborted
  /\ conns[c].state = "open"
  /\ ~(conns[c].pos = 0 \/ conns[c].pos = spos)
  /\ aborted' = TRUE
  /\ UNCHANGED <<storageVars, conns, spos, deleted, overlapped>>

(* The client goes away. *)
Disconnect(c) ==
  /\ ~aborted
  /\ conns[c].state = "open"
  /\ conns' = [conns EXCEPT ![c] = NoDownload]
  /\ UNCHANGED <<storageVars, spos, aborted, deleted, overlapped>>
-----------------------------------------------------------------------------
(* DELETE /stream, for which the server's thread does nothing else: the
   files are unlinked in the order of readdir until one cannot be. *)

INDEX_CSV == -1
FileNames(t) == files[t] \cup (IF t \in indexed THEN {INDEX_CSV} ELSE {})

(* The names unlinked when all goes well; mutant: the frames only. *)
FramesOnly(t) == files[t]
Unlinked(t) == FileNames(t)

DeleteStream(t, left, res) ==
  /\ files' = [files EXCEPT ![t] = @ \cap left]
  /\ indexed' = IF INDEX_CSV \in left THEN indexed ELSE indexed \ {t}
  /\ index' = [index EXCEPT ![t] = IF INDEX_CSV \in left THEN @ ELSE <<>>]
  /\ \/ left \cap Unlinked(t) # {} /\ res = LPX_IO /\ UNCHANGED dirs
     \/ left \cap Unlinked(t) = {} /\ res = LPX_SUCCESS /\ UNCHANGED dirs
     \/ left = {} /\ res = LPX_SUCCESS /\ dirs' = dirs \ {t}

Delete ==
  /\ ~aborted
  /\ \E time \in Times, readable \in SUBSET indexed :
       \E t \in Found(time, readable), res \in {LPX_SUCCESS, LPX_IO} :
         /\ \E kept \in SUBSET Unlinked(t) :
              DeleteStream(t, kept \cup (FileNames(t) \ Unlinked(t)), res)
         /\ deleted' = IF res = LPX_SUCCESS THEN deleted \cup {t} ELSE deleted
  /\ UNCHANGED <<conns, spos, aborted, overlapped>>

Aborted == aborted /\ UNCHANGED vars

Next ==
  \/ \E c \in Conns : Get(c) \/ ReadPiece(c) \/ AssertionFails(c) \/ Disconnect(c)
  \/ Delete
  \/ Aborted

Spec == Init /\ [][Next]_vars
-----------------------------------------------------------------------------
(* Properties *)

(***************************************************************************)
(* A download that ends as complete has sent every frame it was opened     *)
(* for, also when the stream is deleted, wholly or in part, between two of *)
(* its pieces: a truncated archive always ends with an error.              *)
(***************************************************************************)
CompleteIsWhole ==
  \A c \in Conns : conns[c].state = "complete" => conns[c].got = conns[c].frames

(***************************************************************************)
(* The archive for given frame times has, in order of time, a nearest      *)
(* frame for every time within the stream and none for the others, in      *)
(* whatever order they are given (open_stream_frames stops at the first    *)
(* time behind the stream).  Negative times are left out.                  *)
(***************************************************************************)
Nearest(rows, k, time) ==
  \A l \in 0 .. Len(rows) - 1 :
    Abs(rows[k + 1].start - rows[1].start - time)
      <= Abs(rows[l + 1].start - rows[1].start - time)

FramesAreThoseAskedFor ==
  \A c \in Conns :
    LET d == conns[c]
        rows == Stored[d.train]
        times == d.argument.times
        within == {j \in 1 .. Len(times) :
                     rows[1].start + times[j] < rows[Len(rows)].end}
    IN  d.state # "none" /\ times # <<>> /\ (\A j \in 1 .. Len(times) : times[j] >= 0)
          => /\ Len(d.frames) = Cardinality(within)
             /\ \A j \in within : \E p \in 1 .. Len(d.frames) :
                  Nearest(rows, d.frames[p], times[j])
             /\ \A p \in 2 .. Len(d.frames) : d.frames[p - 1] <= d.frames[p]

(***************************************************************************)
(* A stream whose deletion was answered Ok is never served again: no       *)
(* download of it is opened afterwards.                                    *)
(***************************************************************************)
DeletedNotServed ==
  [][\A c \in Conns :
       conns'[c].state = "open" /\ conns[c].state # "open"
         => conns'[c].train \notin deleted]_vars

(***************************************************************************)
(* As long as downloads follow one another, be they completed, failed or   *)
(* broken off, the assertion of stream_reader_callback holds.              *)
(***************************************************************************)
AbortNeedsOverlap == aborted => overlapped

(***************************************************************************)
(* main.c:44 asserts that a piece starts at 0 or where the last one ended. *)
(***************************************************************************)
AssertionHolds == ~aborted
=============================================================================
