----------------------------- MODULE ByteStream ------------------------------
(***************************************************************************)
(* The byte stream of lpx-shared/src/stream.c: stream_open, stream_read    *)
(* with its read_part, and stream_close, which libmicrohttpd calls for a   *)
(* download.  stream_read is a loop of read_part calls; each of them is a  *)
(* step here, because a file it opens may have been deleted meanwhile.     *)
(*                                                                         *)
(* Frames are files 1 .. NumFiles.  A byte is <<what, file, position>>, so *)
(* that the model can tell where each byte of the archive comes from.      *)
(*                                                                         *)
(* Undefined behaviour: writing behind the caller's buffer ends the        *)
(* process.  read_part frees raw_buf and leaves the pointer; the second    *)
(* free of it may be noticed, and end the process, or not.                 *)
(***************************************************************************)
EXTENDS Integers, Sequences

CONSTANTS NumFiles,     (* files_size                                      *)
          NameSize,     (* NameSize[f] = strlen(file_name) + 1             *)
          BmpSize,      (* the size of a frame converted to BMP            *)
          BufferSizes   (* the sizes of the buffers stream_read is given   *)

Files == 1 .. NumFiles

ASSUME ConstantsAssumption ==
  /\ NumFiles \in Nat
  /\ NameSize \in [Files -> Nat \ {0}]
  /\ BmpSize \in Nat \ {0}
  /\ BufferSizes \subseteq Nat \ {0}

(* The bytes of the archive; two sizes are sizeof(uint32_t), sizeof(uint64_t). *)
Bytes(what, f, n) == [i \in 1 .. n |-> <<what, f, i>>]
Count == Bytes("count", 0, 4)
Header(f) == Bytes("name", f, NameSize[f]) \o Bytes("size", f, 8)
Bmp(f) == Bytes("bmp", f, BmpSize)

ContentOf[f \in 0 .. NumFiles] ==
  IF f = 0 THEN Count ELSE ContentOf[f - 1] \o Header(f) \o Bmp(f)

VARIABLES headerRead, nextFile,
          file,     (* a file is open: the one before nextFile            *)
          raw,      (* raw_buf: NULL, allocated, or freed and not NULL    *)
          bmpPos,   (* how much of its BMP has been copied                *)
          pc,
          max,      (* the argument of the running stream_read ...        *)
          buf,      (* ... and what it has written so far                 *)
          fault,
          delivered, last, status   (* as in Archive *)

streamVars == <<headerRead, nextFile, file, raw, bmpPos>>
archiveVars == <<delivered, last, status>>
vars == <<streamVars, pc, max, buf, fault, archiveVars>>

Byte == {"count", "name", "size", "bmp"} \X (0 .. NumFiles) \X Nat

TypeOK ==
  /\ headerRead \in BOOLEAN
  /\ nextFile \in 0 .. NumFiles
  /\ file \in BOOLEAN
  /\ raw \in {"null", "live", "freed"}
  /\ bmpPos \in 0 .. BmpSize
  /\ pc \in {"idle", "read"}
  /\ max \in BufferSizes \cup {0}
  /\ buf \in Seq(Byte) /\ Len(buf) <= max
  /\ fault \in {"none", "overrun", "double_free"}
  /\ delivered \in Nat
  /\ last \in Seq(Byte)
  /\ status \in {"open", "eof", "error", "closed", "crashed"}

(* stream_open *)
Init ==
  /\ headerRead = FALSE
  /\ nextFile = 0
  /\ file = FALSE
  /\ raw = "null"
  /\ bmpPos = 0
  /\ pc = "idle"
  /\ max = 0
  /\ buf = <<>>
  /\ fault = "none"
  /\ delivered = 0
  /\ last = <<>>
  /\ status = "open"

Crash(cause) ==
  /\ fault' = cause
  /\ status' = "crashed"
  /\ UNCHANGED <<delivered, last>>

(* stream_read hands its buffer to the caller. *)
Return(bytes) ==
  /\ delivered' = delivered + Len(bytes)
  /\ last' = bytes
  /\ pc' = "idle"
  /\ UNCHANGED status

(* The loop of stream_read goes on until the buffer is full. *)
Continue(bytes) ==
  /\ UNCHANGED fault
  /\ IF Len(bytes) = max THEN Return(bytes)
                         ELSE UNCHANGED <<pc, archiveVars>>

StreamRead ==
  /\ status = "open"
  /\ pc = "idle"
  /\ max' \in BufferSizes
  /\ buf' = <<>>
  /\ pc' = "read"
  /\ UNCHANGED <<streamVars, fault, archiveVars>>
-----------------------------------------------------------------------------
(* read_part *)

Reading == status = "open" /\ pc = "read"

(* What read_part writes before it knows whether there is a next file. *)
CountDue == IF headerRead THEN <<>> ELSE Count

(***************************************************************************)
(* The count, and name and size of a file, are written without a look at   *)
(* the space that is left.                                                 *)
(***************************************************************************)
PartOverruns ==
  /\ Reading
  /\ \E bytes \in {CountDue} \cup
                  (IF ~file /\ nextFile < NumFiles
                     THEN {CountDue \o Header(nextFile + 1)} ELSE {}) :
       Len(buf \o bytes) > max
  /\ Crash("overrun")
  /\ UNCHANGED <<streamVars, pc, max, buf>>

(* No further file: the end, unless this call has something to return. *)
PartAtEnd ==
  /\ Reading
  /\ ~file
  /\ nextFile = NumFiles
  /\ headerRead' = TRUE
  /\ LET bytes == buf \o CountDue IN
       /\ Len(bytes) <= max
       /\ \/ /\ bytes = <<>>
             /\ status' = "eof"
             /\ pc' = "idle"
             /\ UNCHANGED <<delivered, last>>
          \/ /\ bytes # <<>>
             /\ Return(bytes)
  /\ UNCHANGED <<nextFile, file, raw, bmpPos, max, buf, fault>>

(***************************************************************************)
(* The next file cannot be opened; or it can, and its size, its content or *)
(* its conversion cannot be had, which leaves it open.  raw12_to_bmp lacks *)
(* its return statement, so it may report a failure at any time.           *)
(***************************************************************************)
PartFails ==
  /\ Reading
  /\ ~file
  /\ nextFile < NumFiles
  /\ Len(buf \o CountDue) <= max
  /\ headerRead' = TRUE
  /\ nextFile' = nextFile + 1
  /\ \/ UNCHANGED <<file, raw>>
     \/ /\ Len(buf \o CountDue) + NameSize[nextFile'] <= max
        /\ file' = TRUE
        /\ raw' \in {raw, "live"}
  /\ pc' = "idle"
  /\ status' = "error"
  /\ UNCHANGED <<bmpPos, max, buf, fault, delivered, last>>

(* Whether the file is closed after n bytes were copied to a space of
   `size'; mutants: always, although the BMP may not be finished, or never. *)
FileDoneAlways(n, size) == TRUE
FileDoneNever(n, size) == FALSE
FileDone(n, size) == n < size

(* to_cpy; mutant: the rest of the BMP, whatever the space. *)
CopySizeUnbounded(size, left) == left
CopySize(size, left) == IF size < left THEN size ELSE left

(***************************************************************************)
(* A file is open, or the next one is opened; as much of its BMP as fits   *)
(* is copied.  A file whose BMP ends with the buffer stays open.           *)
(***************************************************************************)
PartCopies ==
  /\ Reading
  /\ file \/ nextFile < NumFiles
  /\ LET f     == IF file THEN nextFile ELSE nextFile + 1
         head  == buf \o CountDue \o (IF file THEN <<>> ELSE Header(f))
         size  == max - Len(head)
         pos   == IF file THEN bmpPos ELSE 0
         n     == CopySize(size, BmpSize - pos)
         bytes == head \o SubSeq(Bmp(f), pos + 1, pos + n)
     IN /\ size >= 0
        /\ headerRead' = TRUE
        /\ nextFile' = f
        /\ bmpPos' = pos + n
        /\ buf' = bytes
        /\ \/ /\ ~FileDone(n, size)
              /\ file' = TRUE
              /\ raw' = "freed"
              /\ Continue(bytes)
           \/ /\ FileDone(n, size)
              /\ file' = FALSE
              /\ raw' = "null"
              /\ Continue(bytes)
           \/ /\ FileDone(n, size)
              /\ Crash("double_free")
              /\ UNCHANGED <<file, raw, pc>>
  /\ UNCHANGED max
-----------------------------------------------------------------------------
(* stream_close, when the download is over or the client has gone *)
StreamClose ==
  /\ status \in {"open", "eof", "error"}
  /\ pc = "idle"
  /\ \/ /\ status' = "closed"
        /\ UNCHANGED <<fault, delivered, last>>
     \/ /\ raw = "freed"
        /\ Crash("double_free")
  /\ file' = FALSE
  /\ raw' = "null"
  /\ UNCHANGED <<headerRead, nextFile, bmpPos, pc, max, buf>>

Over == status \in {"closed", "crashed"} /\ UNCHANGED vars

ReadStep ==
  \/ StreamRead
  \/ PartOverruns
  \/ PartAtEnd
  \/ PartFails
  \/ PartCopies

Next == ReadStep \/ StreamClose \/ Over

Spec == Init /\ [][Next]_vars

(* libmicrohttpd goes on reading as long as the client takes the bytes. *)
FairSpec == Spec /\ WF_vars(ReadStep)
-----------------------------------------------------------------------------
(* Properties *)

(***************************************************************************)
(* stream_read gives the reader the bytes of the archive in order, without *)
(* a gap, and EOF only behind the last one, for every sequence of buffer   *)
(* sizes and wherever a buffer ends (read_part keeps its place in the      *)
(* count, the headers and the frames).                                     *)
(***************************************************************************)
A == INSTANCE Archive WITH Content <- ContentOf[NumFiles]
ImplementsArchive == A!Spec

(***************************************************************************)
(* A reader that goes on reading gets to the end or to an error: the loop  *)
(* of stream_read never spins without writing a byte or closing a file.    *)
(***************************************************************************)
ReadingEnds == status = "open" ~> status # "open"
=============================================================================
