---------------------------- MODULE StreamStorage ----------------------------
(***************************************************************************)
(* The stream storage of lpx-shared/src/stream_storage.c: one directory    *)
(* per train below base_dir, one file per frame in it, and the file        *)
(* index.csv with one row per frame.  The directory tree is the only state *)
(* lpx-control (the writer) and lpx-server (the reader) share; each C      *)
(* function that changes it is an action operator here, which the modules  *)
(* of the two programs use as one of their conjuncts.                      *)
(*                                                                         *)
(* Any call into the file system may fail, so every operation has a        *)
(* failing outcome and `res' is the code the C function returns.           *)
(***************************************************************************)
EXTENDS Integers, Sequences

CONSTANTS TrainIds  (* the directory names that can occur *)

VARIABLES dirs,     (* the train directories that exist                     *)
          files,    (* files[t]: the frame numbers stored in directory t    *)
          indexed,  (* the directories that hold an index.csv               *)
          index     (* index[t]: the rows a reader of t's index.csv obtains *)

storageVars == <<dirs, files, indexed, index>>

(* lpxstd.h and stream_storage.h *)
LPX_SUCCESS    == 0
LPX_IO         == 1
STRG_EXISTS    == 3
STRG_NOT_FOUND == 4
StorageCodes == {LPX_SUCCESS, LPX_IO, STRG_EXISTS, STRG_NOT_FOUND}

(***************************************************************************)
(* A row of index.csv.  `frame' is a history variable: the number of the   *)
(* file the row was made for, which the file itself does not record.       *)
(***************************************************************************)
Row == [start : Nat, end : Nat, frame : Nat]

StorageTypeOK ==
  /\ dirs \subseteq TrainIds
  /\ files \in [TrainIds -> SUBSET Nat]
  /\ indexed \subseteq TrainIds
  /\ index \in [TrainIds -> Seq(Row)]

StorageInit ==
  /\ dirs = {}
  /\ files = [t \in TrainIds |-> {}]
  /\ indexed = {}
  /\ index = [t \in TrainIds |-> <<>>]

(* Mutant: mkdir -p, no complaint about a directory that is there. *)
StoragePrepareAnyway(t, res) ==
  \/ /\ res = LPX_IO
     /\ UNCHANGED storageVars
  \/ /\ res = LPX_SUCCESS
     /\ dirs' = dirs \cup {t}
     /\ UNCHANGED <<files, indexed, index>>

StoragePrepare(t, res) ==
  \/ /\ t \in dirs
     /\ res = STRG_EXISTS
     /\ UNCHANGED storageVars
  \/ /\ t \notin dirs
     /\ res = LPX_IO
     /\ UNCHANGED storageVars
  \/ /\ t \notin dirs
     /\ res = LPX_SUCCESS
     /\ dirs' = dirs \cup {t}
     /\ UNCHANGED <<files, indexed, index>>

(***************************************************************************)
(* A short fwrite is not an error: its result, a size_t, never equals -1.  *)
(***************************************************************************)
StorageStoreFrame(t, k, res) ==
  \/ /\ t \notin dirs
     /\ res = STRG_NOT_FOUND
     /\ UNCHANGED storageVars
  \/ /\ t \in dirs
     /\ res = LPX_IO
     /\ UNCHANGED storageVars
  \/ /\ t \in dirs
     /\ res = LPX_SUCCESS
     /\ files' = [files EXCEPT ![t] = @ \cup {k}]
     /\ UNCHANGED <<dirs, indexed, index>>

(***************************************************************************)
(* storage_store_stream_idx up to the fopen, which truncates.              *)
(***************************************************************************)
StorageOpenIndex(t, res) ==
  \/ /\ t \notin dirs
     /\ res = STRG_NOT_FOUND
     /\ UNCHANGED storageVars
  \/ /\ t \in dirs
     /\ res = LPX_IO
     /\ UNCHANGED storageVars
  \/ /\ t \in dirs
     /\ res = LPX_SUCCESS
     /\ indexed' = indexed \cup {t}
     /\ index' = [index EXCEPT ![t] = <<>>]
     /\ UNCHANGED <<dirs, files>>

(***************************************************************************)
(* The loop of storage_store_stream_idx and its fclose.  When an fprintf   *)
(* fails the loop is left with the rows written so far, and the function   *)
(* still returns LPX_SUCCESS.  If the directory or the file has gone since *)
(* the fopen, the rows go to an unlinked inode.                            *)
(***************************************************************************)
StorageWriteIndex(t, rows) ==
  \E k \in 0 .. Len(rows) :
     /\ index' = [index EXCEPT ![t] = IF t \in indexed
                                      THEN SubSeq(rows, 1, k) ELSE @]
     /\ UNCHANGED <<dirs, files, indexed>>
=============================================================================
