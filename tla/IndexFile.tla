------------------------------- MODULE IndexFile -------------------------------
(***************************************************************************)
(* The index of one stream as a file (lpx-shared/src/stream_storage.c):    *)
(* lpx-control prints rows into the buffer of a FILE, which reaches the    *)
(* disk in pieces, and lpx-server reads the file in pieces at any time,    *)
(* without a lock, line by line.  A request of the server reads the index  *)
(* two or three times: to find the stream, to search frames in it, and to  *)
(* open it.  The other modules take an index as something that is there or *)
(* not.                                                                    *)
(*                                                                         *)
(* A row is measured in units: one for the start and its comma, one for    *)
(* each digit of the end, and one for the line feed.  All times have the   *)
(* same number of digits, as those of this millennium in microseconds      *)
(* have.  The request thread of the server deletes nothing meanwhile.      *)
(***************************************************************************)
EXTENDS Integers, Sequences

CONSTANTS Rows,       (* the rows lpx-control has for the stream  *)
          EndDigits,  (* digits of a time                         *)
          Times       (* values of the parameter stream_time      *)

(* The smallest number with n more digits than 1 *)
TenTo[n \in 0 .. EndDigits] == IF n = 0 THEN 1 ELSE 10 * TenTo[n - 1]

RowTimes == [start : Nat, end : Nat]
Digits == TenTo[EndDigits - 1] .. TenTo[EndDigits] - 1

ASSUME ConstantsAssumption ==
  /\ EndDigits \in Nat \ {0}
  /\ Rows \in Seq([start : Digits, end : Digits])
  /\ Times \subseteq Digits

RowUnits == EndDigits + 2
Purposes == {"find", "search", "open", "open_frames"}

VARIABLES
  (* the writer *)
  wPc,
  printed,     (* the rows that have been printed                          *)
  onDisk,      (* the units in the file                                    *)
  (* the reader *)
  rPc,
  purpose,     (* what the index is being read for                         *)
  time,        (* stream_time of the request                               *)
  fetched,     (* units of the file that are in the buffer                 *)
  parsed,      (* units that fgets has returned                            *)
  rows,        (* `frames' of storage_read_stream_idx                      *)
  answer,      (* the status of the last response, 0 before                *)
  (* history *)
  writeFailed, (* a write to the file has failed                           *)
  readFailed,  (* an access of this request to the file has failed         *)
  closedFirst, (* the file was closed when this request began              *)
  foundRow     (* the row by which this request has found the stream       *)

writerVars == <<wPc, printed, onDisk, writeFailed>>
readerVars == <<rPc, purpose, time, fetched, parsed, rows, answer,
                readFailed, closedFirst, foundRow>>
vars == <<writerVars, readerVars>>

TypeOK ==
  /\ wPc \in {"before", "printing", "closing", "closed", "dead"}
  /\ printed \in 0 .. Len(Rows)
  /\ onDisk \in 0 .. printed * RowUnits
  /\ rPc \in {"idle", "fopen", "fgets"}
  /\ purpose \in Purposes
  /\ time \in Nat
  /\ fetched \in 0 .. onDisk
  /\ parsed \in 0 .. fetched
  /\ rows \in Seq(RowTimes)
  /\ answer \in {0, 200, 404, 500}
  /\ writeFailed \in BOOLEAN
  /\ readFailed \in BOOLEAN
  /\ closedFirst \in BOOLEAN
  /\ foundRow \in 0 .. Len(Rows)

Init ==
  /\ wPc = "before"
  /\ printed = 0
  /\ onDisk = 0
  /\ rPc = "idle"
  /\ purpose = "find"
  /\ time = 0
  /\ fetched = 0
  /\ parsed = 0
  /\ rows = <<>>
  /\ answer = 0
  /\ writeFailed = FALSE
  /\ readFailed = FALSE
  /\ closedFirst = FALSE
  /\ foundRow = 0
-----------------------------------------------------------------------------
(* The writer: storage_store_stream_idx *)

Create ==
  /\ wPc = "before"
  /\ wPc' = "printing"
  /\ UNCHANGED <<printed, onDisk, writeFailed, readerVars>>

(* fprintf puts a row into the buffer and may write some of it out. *)
PrintRow ==
  /\ wPc = "printing"
  /\ printed < Len(Rows)
  /\ printed' = printed + 1
  /\ onDisk' \in onDisk .. printed' * RowUnits
  /\ UNCHANGED <<wPc, writeFailed, readerVars>>

(* What an fprintf that fails leaves; mutant: the file is emptied. *)
EmptiedOnError == {0}
KeptOnError == onDisk .. printed' * RowUnits

(* The first fprintf that fails is the last. *)
PrintFails ==
  /\ wPc = "printing"
  /\ printed < Len(Rows)
  /\ printed' = printed + 1
  /\ onDisk' \in KeptOnError
  /\ wPc' = "closing"
  /\ writeFailed' = TRUE
  /\ UNCHANGED readerVars

PrintedAll ==
  /\ wPc = "printing"
  /\ printed = Len(Rows)
  /\ wPc' = "closing"
  /\ UNCHANGED <<printed, onDisk, writeFailed, readerVars>>

(* What fclose leaves on the disk; mutant: fclose is missing. *)
ClosedUnflushed == onDisk
Closed == printed * RowUnits

(* fclose writes the rest; that it cannot is not noticed. *)
Close ==
  /\ wPc = "closing"
  /\ wPc' = "closed"
  /\ \/ onDisk' = Closed /\ UNCHANGED writeFailed
     \/ onDisk' \in onDisk .. printed * RowUnits /\ writeFailed' = TRUE
  /\ UNCHANGED <<printed, readerVars>>

(* In several writes, if need be. *)
Flush ==
  /\ wPc \in {"printing", "closing"}
  /\ onDisk < printed * RowUnits
  /\ onDisk' = onDisk + 1
  /\ UNCHANGED <<wPc, printed, writeFailed, readerVars>>

(* The buffer dies with the process. *)
Die ==
  /\ wPc \in {"printing", "closing"}
  /\ wPc' = "dead"
  /\ UNCHANGED <<printed, onDisk, writeFailed, readerVars>>
-----------------------------------------------------------------------------
(* The reader: storage_read_stream_idx *)

BeginReading(for) ==
  /\ rPc' = "fopen"
  /\ purpose' = for
  /\ fetched' = 0
  /\ parsed' = 0
  /\ rows' = <<>>
  /\ UNCHANGED answer

Answer(status) ==
  /\ rPc' = "idle"
  /\ answer' = status
  /\ UNCHANGED <<purpose, fetched, parsed, rows>>

(* handle_stream: storage_find_stream comes first. *)
Request ==
  /\ rPc = "idle"
  /\ BeginReading("find")
  /\ time' \in Times
  /\ readFailed' = FALSE
  /\ closedFirst' = (wPc = "closed" /\ ~writeFailed)
  /\ foundRow' = 0
  /\ UNCHANGED writerVars

requestVars == <<time, closedFirst>>

(* storage_find_stream skips what it cannot read; for the others it is an
   error. *)
NotRead == Answer(IF purpose = "find" THEN 404 ELSE 500) /\ UNCHANGED foundRow

OpenIndex ==
  /\ rPc = "fopen"
  /\ IF wPc = "before"
       THEN NotRead
       ELSE /\ rPc' = "fgets"
            /\ UNCHANGED <<purpose, fetched, parsed, rows, answer, foundRow>>
  /\ UNCHANGED <<requestVars, readFailed, writerVars>>

(* LPX_IO from fopen or ferror *)
AccessFails ==
  /\ rPc \in {"fopen", "fgets"}
  /\ readFailed' = TRUE
  /\ NotRead
  /\ UNCHANGED <<requestVars, writerVars>>

LineInBuffer == fetched - parsed >= RowUnits
InsideLine == parsed % RowUnits # 0

(* The row that begins at `parsed' *)
ThisRow == Rows[parsed \div RowUnits + 1]

Cut(t, n) == IF n >= RowUnits - 1 THEN t ELSE t \div TenTo[RowUnits - 1 - n]

(* What sscanf makes of the first n units of a row: two numbers, the second
   of which may be cut; mutant: FRAME_FORMAT puts the end first ... *)
RowFromEndFirst(n) == [start |-> Cut(ThisRow.start, n), end |-> ThisRow.end]
RowFrom(n) == [start |-> ThisRow.start, end |-> Cut(ThisRow.end, n)]

(* ... or only one, an error. *)
TwoNumbers(n) == n >= 2

ParseLine ==
  /\ rPc = "fgets"
  /\ LineInBuffer
  /\ ~InsideLine
  /\ rows' = Append(rows, RowFrom(RowUnits))
  /\ parsed' = parsed + RowUnits
  /\ UNCHANGED <<rPc, purpose, fetched, answer, readFailed, foundRow,
                 requestVars, writerVars>>

Fetch ==
  /\ rPc = "fgets"
  /\ ~LineInBuffer
  /\ ~InsideLine
  /\ fetched' \in fetched + 1 .. onDisk
  /\ UNCHANGED <<rPc, purpose, parsed, rows, answer, readFailed, foundRow,
                 requestVars, writerVars>>

(* At the end of the file fgets returns what there is of a line ... *)
ParseCutLine ==
  /\ rPc = "fgets"
  /\ ~LineInBuffer
  /\ ~InsideLine
  /\ parsed < fetched
  /\ fetched = onDisk
  /\ IF TwoNumbers(fetched - parsed)
       THEN /\ rows' = Append(rows, RowFrom(fetched - parsed))
            /\ parsed' = fetched
            /\ UNCHANGED <<rPc, purpose, fetched, answer, foundRow>>
       ELSE NotRead
  /\ UNCHANGED <<readFailed, requestVars, writerVars>>

(***************************************************************************)
(* ... and the next time the rest of it, if that has come meanwhile: one   *)
(* number, or none.  (Since glibc 2.28 the end of a file, once seen, is    *)
(* final, see EndOfIndex.)                                                 *)
(***************************************************************************)
ParseRestOfLine ==
  /\ rPc = "fgets"
  /\ InsideLine
  /\ fetched < onDisk
  /\ NotRead
  /\ UNCHANGED <<readFailed, requestVars, writerVars>>

Covers(row) == row.start <= time /\ time <= row.end

(***************************************************************************)
(* The request goes on with the rows, which stream_find_frame searches     *)
(* (module FrameSearch) when frames are asked for by their times.          *)
(***************************************************************************)
UseIndex ==
  \/ /\ purpose = "find"
     /\ \/ /\ \A k \in 1 .. Len(rows) : ~Covers(rows[k])
           /\ Answer(404)
           /\ UNCHANGED foundRow
        \/ /\ \E k \in 1 .. Len(rows) : Covers(rows[k]) /\ foundRow' = k
           /\ BeginReading("search") \/ BeginReading("open")
  \/ /\ purpose = "search"
     /\ BeginReading("open_frames")
     /\ UNCHANGED foundRow
  \/ /\ purpose \in {"open", "open_frames"}
     /\ Answer(200)
     /\ UNCHANGED foundRow

AtEnd == InsideLine \/ (parsed = fetched /\ fetched = onDisk)

EndOfIndex ==
  /\ rPc = "fgets"
  /\ AtEnd
  /\ UseIndex
  /\ UNCHANGED <<readFailed, requestVars, writerVars>>
-----------------------------------------------------------------------------
Writer ==
  \/ Create
  \/ PrintRow
  \/ PrintFails
  \/ PrintedAll
  \/ Flush
  \/ Close
  \/ Die

Reader ==
  \/ OpenIndex
  \/ AccessFails
  \/ ParseLine
  \/ Fetch
  \/ ParseCutLine
  \/ ParseRestOfLine
  \/ EndOfIndex

Next == Writer \/ Reader \/ Request

Spec == Init /\ [][Next]_vars
-----------------------------------------------------------------------------
(* Properties *)

(***************************************************************************)
(* However the pieces that are written and those that are read meet, and   *)
(* whatever is lost with a writer that dies, storage_read_stream_idx       *)
(* gathers rows of the stream from the first on, none twice or mixed with  *)
(* another, and only the last can be cut; a cut one holds no time at all,  *)
(* so that no stream is found by it.                                       *)
(***************************************************************************)
OnlyLastRowCut ==
  /\ Len(rows) <= Len(Rows)
  /\ \A k \in 1 .. Len(rows) :
       \/ rows[k] = Rows[k]
       \/ k = Len(rows) /\ rows[k].start = Rows[k].start
            /\ rows[k].end < rows[k].start

(***************************************************************************)
(* Once a request has found the stream by one of its rows, every later     *)
(* read of the same request that succeeds gives this row again, also when  *)
(* the index is still being written: the archive holds the frame it was    *)
(* found by, and stream_find_frame, which looks at the first row of        *)
(* whatever it is given, is never given an empty index.                    *)
(***************************************************************************)
FoundRowStays ==
  rPc = "fgets" /\ purpose # "find" /\ AtEnd =>
    foundRow <= Len(rows) /\ rows[foundRow] = Rows[foundRow]

(***************************************************************************)
(* A request that begins when lpx-control has closed the index, without an *)
(* error of a write, gets the whole stream: without an error of its own it *)
(* finds it by each of its rows and opens all its frames.                  *)
(***************************************************************************)
ClosedIndexServed ==
  rPc = "idle" /\ closedFirst /\ ~readFailed =>
    /\ answer = 200 => rows = Rows
    /\ answer = 404 => \A k \in 1 .. Len(Rows) : ~Covers(Rows[k])
    /\ answer # 500
=============================================================================
