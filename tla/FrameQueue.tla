------------------------------ MODULE FrameQueue ------------------------------
(***************************************************************************)
(* The list of frames of one capture session as module Capture takes it to *)
(* be: the callback thread appends a frame in one step, and the main       *)
(* thread, once it has set `stopping', reads the size in one step and      *)
(* copies the list in another.  At most one append meets the two reads;    *)
(* while it is in progress, the frame may be counted before it is found,   *)
(* found before it is counted, or found half-made.                         *)
(***************************************************************************)
EXTENDS Integers

VARIABLES length,     (* how many frames have been appended                 *)
          appending,  (* a frame has passed the test of `stopping' and has  *)
                      (* not been appended                                  *)
          pc,         (* the main thread                                    *)
          count,      (* the size that was read                             *)
          copied      (* how many frames were found                         *)

vars == <<length, appending, pc, count, copied>>

InProgress == IF appending THEN 1 ELSE 0
WithNext == length .. length + InProgress

Init ==
  /\ length = 0
  /\ appending = FALSE
  /\ pc = "running"
  /\ count = 0
  /\ copied = 0

BeginAppend ==
  /\ pc = "running"
  /\ ~appending
  /\ appending' = TRUE
  /\ UNCHANGED <<length, pc, count, copied>>

(* The frame is appended, or could not be stored. *)
EndAppend ==
  /\ appending
  /\ appending' = FALSE
  /\ length' \in WithNext
  /\ UNCHANGED <<pc, count, copied>>

Stop ==
  /\ pc = "running"
  /\ pc' = "size"
  /\ UNCHANGED <<length, appending, count, copied>>

ReadSize ==
  /\ pc = "size"
  /\ count' \in WithNext
  /\ pc' = IF count' = 0 THEN "copied" ELSE "copy"
  /\ UNCHANGED <<length, appending, copied>>

(* The array has room for as many as were counted. *)
Copy ==
  /\ pc = "copy"
  /\ copied' \in WithNext
  /\ copied' <= count
  /\ pc' = "copied"
  /\ UNCHANGED <<length, appending, count>>

Fault ==
  /\ pc = "copy"
  /\ appending \/ length > count
  /\ pc' = "fault"
  /\ UNCHANGED <<length, appending, count, copied>>

Next == BeginAppend \/ EndAppend \/ Stop \/ ReadSize \/ Copy \/ Fault

Spec == Init /\ [][Next]_vars
=============================================================================
