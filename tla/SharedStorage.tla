---------------------------- MODULE SharedStorage ----------------------------
(***************************************************************************)
(* lpx-control and lpx-server on one storage directory.  The capture       *)
(* process of Capture runs next to the one request thread of the server,   *)
(* of which this module models the requests that change the storage:       *)
(* DELETE /streams (storage_clear) and DELETE /stream                      *)
(* (storage_delete_stream).  The two processes share nothing but the       *)
(* directory tree and use no lock, so the capture may take any of its      *)
(* steps between two system calls of the server.                           *)
(***************************************************************************)
EXTENDS Capture

CONSTANT MaxRequests  (* bound: DELETE requests that are accepted *)

ASSUME MaxRequestsAssumption == MaxRequests \in Nat

VARIABLES svPc,
          requested, (* the directories the request is for                     *)
          targets,   (* those that are still to be deleted                     *)
          deleting,  (* the directory storage_delete_stream is at              *)
          doomed,    (* names listed in it and not yet unlinked                *)
          answer,    (* what the last finished request was answered            *)
          requests,  (* how many requests have been accepted                   *)
          leftover   (* history: the files that were there when the request    *)
                     (* was accepted and have not been unlinked since          *)

serverVars == <<svPc, requested, targets, deleting, doomed, answer, requests,
                leftover>>
allVars == <<vars, serverVars>>

(* File names in a train directory: frame numbers, and this for index.csv. *)
INDEX_CSV == -1
FileNames(t) == files[t] \cup (IF t \in indexed THEN {INDEX_CSV} ELSE {})

SharedTypeOK ==
  /\ TypeOK
  /\ svPc \in {"idle", "list", "unlink", "rmdir"}
  /\ requested \subseteq TrainIds
  /\ targets \subseteq requested
  /\ deleting \in TrainIds
  /\ doomed \subseteq Nat \cup {INDEX_CSV}
  /\ answer \in {"none", "ok", "error"}
  /\ requests \in 0 .. MaxRequests
  /\ leftover \subseteq TrainIds \X (Nat \cup {INDEX_CSV})

SharedInit ==
  /\ Init
  /\ svPc = "idle"
  /\ requested = {}
  /\ targets = {}
  /\ deleting = 0
  /\ doomed = {}
  /\ answer = "none"
  /\ requests = 0
  /\ leftover = {}
-----------------------------------------------------------------------------
(* The server *)

Accept(ts) ==
  /\ svPc = "idle"
  /\ requests < MaxRequests
  /\ requests' = requests + 1
  /\ requested' = ts
  /\ targets' = ts
  /\ leftover' = UNION {{t} \X FileNames(t) : t \in ts}
  /\ answer' = "none"
  /\ svPc' = "list"
  /\ UNCHANGED <<deleting, doomed, storageVars>>

Finish(result) ==
  /\ answer' = result
  /\ svPc' = "idle"

(* storage_clear lists the base directory, indexed or not. *)
ClearRequest == Accept(dirs)

(* handle_stream deletes the stream storage_find_stream has found, which has
   at least one row. *)
DeleteRequest ==
  \E t \in dirs \cap indexed : index[t] # <<>> /\ Accept({t})

(* The names of a listing; mutant: the index is kept for last and forgotten. *)
ListingFramesOnly(t) == files[t]
Listing(t) == FileNames(t)

(***************************************************************************)
(* storage_delete_stream lists the directory once; files stored later are  *)
(* not in the listing.                                                     *)
(***************************************************************************)
ListDirectory ==
  /\ svPc = "list"
  /\ \E t \in targets :
       \/ /\ t \in dirs
          /\ targets' = targets \ {t}
          /\ deleting' = t
          /\ doomed' = Listing(t)
          /\ svPc' = "unlink"
          /\ UNCHANGED answer
       \/ /\ Finish("error")
          /\ UNCHANGED <<targets, deleting, doomed>>
  /\ UNCHANGED <<requested, requests, leftover, storageVars>>

(* The first failing unlink ends the request. *)
Unlink ==
  /\ svPc = "unlink"
  /\ \E f \in doomed :
       \/ /\ doomed' = doomed \ {f}
          /\ leftover' = leftover \ {<<deleting, f>>}
          /\ files' = [files EXCEPT ![deleting] = @ \ {f}]
          /\ IF f = INDEX_CSV
               THEN /\ indexed' = indexed \ {deleting}
                    /\ index' = [index EXCEPT ![deleting] = <<>>]
               ELSE UNCHANGED <<indexed, index>>
          /\ UNCHANGED <<svPc, answer>>
       \/ /\ Finish("error")
          /\ UNCHANGED <<doomed, leftover, files, indexed, index>>
  /\ UNCHANGED <<requested, targets, deleting, requests, dirs>>

UnlinkedAll ==
  /\ svPc = "unlink"
  /\ doomed = {}
  /\ svPc' = "rmdir"
  /\ UNCHANGED <<requested, targets, deleting, doomed, answer, requests,
                 leftover, storageVars>>

(* Where a failed rmdir leads; mutant: it is tried again until it succeeds. *)
AfterFailedRmdirRetry == "rmdir"
AfterFailedRmdir == "list"

(***************************************************************************)
(* rmdir fails on a directory that is not empty, and may fail otherwise;   *)
(* its result is ignored.                                                  *)
(***************************************************************************)
RemoveDirectory ==
  /\ svPc = "rmdir"
  /\ \/ /\ FileNames(deleting) = {}
        /\ dirs' = dirs \ {deleting}
        /\ svPc' = "list"
     \/ /\ svPc' = AfterFailedRmdir
        /\ UNCHANGED dirs
  /\ UNCHANGED <<requested, targets, deleting, doomed, answer, requests,
                 leftover, files, indexed, index>>

AnswerOk ==
  /\ svPc = "list"
  /\ targets = {}
  /\ Finish("ok")
  /\ UNCHANGED <<requested, targets, deleting, doomed, requests, leftover,
                 storageVars>>

ServerStep ==
  \/ ListDirectory
  \/ Unlink
  \/ UnlinkedAll
  \/ RemoveDirectory
  \/ AnswerOk

Server == ClearRequest \/ DeleteRequest \/ ServerStep

(* What the capture process shares with nobody. *)
captureOnlyVars == <<session, userData, now, fault, mainVars, cbVars>>

SharedNext ==
  \/ Next /\ UNCHANGED serverVars
  \/ Server /\ UNCHANGED captureOnlyVars

SharedSpec == SharedInit /\ [][SharedNext]_allVars
FairSharedSpec ==
  SharedSpec /\ WF_allVars(ServerStep /\ UNCHANGED captureOnlyVars)
-----------------------------------------------------------------------------
(* Properties *)

(***************************************************************************)
(* A request that is answered "Ok" has unlinked every file that was on     *)
(* disk when it was accepted, whatever the capture stored meanwhile        *)
(* (storage_clear and storage_delete_stream).                              *)
(***************************************************************************)
OkMeansUnlinked == svPc = "idle" /\ answer = "ok" => leftover = {}

(***************************************************************************)
(* Every request is answered, even if the capture keeps adding files to    *)
(* the directory that is being deleted.                                    *)
(***************************************************************************)
RequestAnswered == svPc # "idle" ~> svPc = "idle"
=============================================================================
