----------------------------- MODULE CameraDriver -----------------------------
(***************************************************************************)
(* raspiraw_init and raspiraw_close of lpx-control/src/raspiraw.c: what is *)
(* acquired from MMAL, what is released when a call fails half-way, and    *)
(* what is released at the end.  Any call to MMAL or I2C may fail.         *)
(*                                                                         *)
(* The two structures come from malloc, and not all of their fields are    *)
(* set: a field that was never set holds NULL or a wild pointer, and the   *)
(* use of a wild pointer, or the disabling of NULL, ends the process.      *)
(* cfg->capture is 1, so the branch that displays frames is never taken    *)
(* and the two connections of it are never set.                            *)
(***************************************************************************)
EXTENDS Integers, Sequences

CONSTANT NumBuffers  (* buffer_num_recommended *)

ASSUME ConstantsAssumption == NumBuffers \in Nat \ {0}

Components == {"rawcam", "isp", "render"}
InOrder == <<"rawcam", "isp", "render">>
Connections == {"isp_render", "rawcam_isp"}
Fields == Components \cup Connections \cup {"pool", "regs"}

InitSteps == {"probe", "configure", "create", "parameters", "enable", "commit",
              "zero_copy", "pool", "port", "send"}
Labels == {"port_disable", "pool_destroy", "component_disable",
           "component_destroy"}
Ends == {"failed", "closed", "abandoned", "crashed"}

VARIABLES
  pc,
  done,         (* how many components, or buffers, the step is through with *)
  closing,      (* the labels are run by raspiraw_close                      *)
  field,        (* what the pointers hold                                    *)
  held,         (* what MMAL has given and not taken back                    *)
  enabled,      (* the enabled components                                    *)
  portEnabled,
  zeroed        (* history: malloc has returned zeroes                       *)

vars == <<pc, done, closing, field, held, enabled, portEnabled, zeroed>>
mmalVars == <<field, held, enabled, portEnabled>>

TypeOK ==
  /\ pc \in InitSteps \cup {"running"} \cup Labels \cup Ends
  /\ done \in 0 .. NumBuffers \cup 0 .. Len(InOrder)
  /\ pc = "send" => done < NumBuffers
  /\ closing \in BOOLEAN
  /\ field \in [Fields -> {"null", "wild", "valid"}]
  /\ held \subseteq Components \cup {"pool"}
  /\ enabled \subseteq Components
  /\ portEnabled \in BOOLEAN
  /\ zeroed \in BOOLEAN

Init ==
  /\ pc = "probe"
  /\ done = 0
  /\ closing = FALSE
  /\ field \in [Fields -> {"null", "wild"}]
  /\ held = {}
  /\ enabled = {}
  /\ portEnabled = FALSE
  /\ zeroed = (\A f \in Fields : field[f] = "null")

GoTo(next) == pc' = next /\ done' = 0
-----------------------------------------------------------------------------
(* raspiraw_init, when all goes well *)

(* The sensor answers, and the mode has an encoding.  cfg->regs is read
   although nothing has set it. *)
Prepare ==
  /\ \/ /\ pc = "probe"
        /\ GoTo("configure")
     \/ /\ pc = "configure"
        /\ GoTo(IF field["regs"] = "wild" THEN "crashed" ELSE "create")
  /\ UNCHANGED <<closing, mmalVars, zeroed>>

NextComponent == InOrder[done + 1]
Advance(next) == IF done + 1 = Len(InOrder) THEN GoTo(next)
                 ELSE done' = done + 1 /\ UNCHANGED pc

CreateComponent ==
  /\ pc = "create"
  /\ field' = [field EXCEPT ![NextComponent] = "valid"]
  /\ held' = held \cup {NextComponent}
  /\ Advance("parameters")
  /\ UNCHANGED <<closing, enabled, portEnabled, zeroed>>

(* The parameters of the port: receiver, timing, camera number *)
SetParameters ==
  /\ pc = "parameters"
  /\ GoTo("enable")
  /\ UNCHANGED <<closing, mmalVars, zeroed>>

EnableComponent ==
  /\ pc = "enable"
  /\ enabled' = enabled \cup {NextComponent}
  /\ Advance("commit")
  /\ UNCHANGED <<closing, field, held, portEnabled, zeroed>>

CommitFormat ==
  /\ \/ pc = "commit" /\ GoTo("zero_copy")
     \/ pc = "zero_copy" /\ GoTo("pool")
  /\ UNCHANGED <<closing, mmalVars, zeroed>>

CreatePool ==
  /\ pc = "pool"
  /\ field' = [field EXCEPT !["pool"] = "valid"]
  /\ held' = held \cup {"pool"}
  /\ GoTo("port")
  /\ UNCHANGED <<closing, enabled, portEnabled, zeroed>>

EnablePort ==
  /\ pc = "port"
  /\ portEnabled' = TRUE
  /\ GoTo("send")
  /\ UNCHANGED <<closing, field, held, enabled, zeroed>>

(* Whether n buffers are all; mutant: one more than the pool has. *)
AllSentLate(n) == n > NumBuffers
AllSent(n) == n = NumBuffers

SendBuffer ==
  /\ pc = "send"
  /\ IF AllSent(done + 1) THEN GoTo("running")
     ELSE done' = done + 1 /\ UNCHANGED pc
  /\ UNCHANGED <<closing, mmalVars, zeroed>>
-----------------------------------------------------------------------------
(* Failures *)

(* Where a failing step of raspiraw_init goes.  Mutants: the label after
   the right one, and the label before it. *)
OnFailureSkipping(step) ==
  CASE step \in {"probe", "configure"}            -> "failed"
    [] step = "create" /\ done = 0                -> "failed"
    [] step \in {"create", "parameters", "enable"} -> "component_destroy"
    [] step \in {"commit", "zero_copy", "pool"}   -> "component_disable"
    [] OTHER                                      -> "pool_destroy"

OnFailureEarly(step) ==
  CASE step \in {"probe", "configure"}            -> "failed"
    [] step = "create" /\ done = 0                -> "failed"
    [] step = "port"                              -> "pool_destroy"
    [] step = "send"                              -> "port_disable"
    [] OTHER                                      -> "component_disable"

OnFailureReturning(step) ==
  CASE step \in {"probe", "configure", "create"}  -> "failed"
    [] step \in {"parameters", "enable"}          -> "component_destroy"
    [] step \in {"commit", "zero_copy", "pool"}   -> "component_disable"
    [] step = "port"                              -> "pool_destroy"
    [] OTHER                                      -> "port_disable"

OnFailure(step) ==
  CASE step \in {"probe", "configure"}            -> "failed"
    [] step = "create" /\ done = 0                -> "failed"
    [] step \in {"create", "parameters", "enable"} -> "component_destroy"
    [] step \in {"commit", "zero_copy", "pool"}   -> "component_disable"
    [] step = "port"                              -> "pool_destroy"
    [] step = "send"                              -> "port_disable"

(* A pool that cannot be had is NULL; the other pointers stay as they are. *)
StepFails ==
  /\ pc \in InitSteps
  /\ GoTo(OnFailure(pc))
  /\ field' = [field EXCEPT !["pool"] = IF pc = "pool" THEN "null" ELSE @]
  /\ UNCHANGED <<closing, held, enabled, portEnabled, zeroed>>
-----------------------------------------------------------------------------
(* raspiraw_close, and the labels it shares with raspiraw_init *)

RaspirawClose ==
  /\ pc = "running"
  /\ closing' = TRUE
  /\ GoTo("port_disable")
  /\ UNCHANGED <<mmalVars, zeroed>>

(* Both functions return at once when the port cannot be disabled. *)
PortDisable ==
  /\ pc = "port_disable"
  /\ \/ portEnabled' = FALSE /\ GoTo("pool_destroy")
     \/ UNCHANGED portEnabled /\ GoTo("abandoned")
  /\ UNCHANGED <<closing, field, held, enabled, zeroed>>

(* The pointers are tested for NULL and used. *)
PoolDestroy ==
  /\ pc = "pool_destroy"
  /\ IF \E f \in Connections \cup {"pool"} : field[f] = "wild"
       THEN GoTo("crashed") /\ UNCHANGED held
       ELSE GoTo("component_disable") /\ held' = held \ {"pool"}
  /\ UNCHANGED <<closing, field, enabled, portEnabled, zeroed>>

(* Without a test; a component that cannot be disabled stays as it is. *)
ComponentDisable ==
  /\ pc = "component_disable"
  /\ IF \E c \in Components : field[c] # "valid"
       THEN GoTo("crashed") /\ UNCHANGED enabled
       ELSE GoTo("component_destroy") /\ enabled' \in SUBSET enabled
  /\ UNCHANGED <<closing, field, held, portEnabled, zeroed>>

(* Destroying a component disables it. *)
ComponentDestroy ==
  /\ pc = "component_destroy"
  /\ IF \E c \in Components : field[c] = "wild"
       THEN GoTo("crashed") /\ UNCHANGED <<held, enabled>>
       ELSE /\ GoTo(IF closing THEN "closed" ELSE "failed")
            /\ held' = held \ Components
            /\ enabled' = {}
  /\ UNCHANGED <<closing, field, portEnabled, zeroed>>

Ended == pc \in Ends /\ UNCHANGED vars

Next ==
  \/ Prepare
  \/ CreateComponent
  \/ SetParameters
  \/ EnableComponent
  \/ CommitFormat
  \/ CreatePool
  \/ EnablePort
  \/ SendBuffer
  \/ StepFails
  \/ RaspirawClose
  \/ PortDisable
  \/ PoolDestroy
  \/ ComponentDisable
  \/ ComponentDestroy
  \/ Ended

Spec == Init /\ [][Next]_vars
-----------------------------------------------------------------------------
(* Properties *)

(***************************************************************************)
(* However far raspiraw_init got before a call failed, and at the end of   *)
(* raspiraw_close, everything taken from MMAL has been given back, unless  *)
(* the port could not be disabled ("abandoned").                           *)
(***************************************************************************)
EverythingReleased ==
  pc \in {"failed", "closed"} => held = {} /\ enabled = {} /\ ~portEnabled

(***************************************************************************)
(* While the port is enabled, so that its callback may be called, the pool *)
(* of its buffers and all components exist: nothing is taken away from     *)
(* under it, neither at the end nor after a failure.                       *)
(***************************************************************************)
PortKeepsItsPool ==
  portEnabled => held = Components \cup {"pool"} /\ enabled = Components

(***************************************************************************)
(* Memory that was never set is the only thing that can end the process:   *)
(* with zeroes from malloc, no failure leads to the use of a pointer to    *)
(* nothing.                                                                *)
(***************************************************************************)
ZeroesAreSafe == zeroed => pc # "crashed"
=============================================================================
