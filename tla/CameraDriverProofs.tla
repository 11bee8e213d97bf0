-------------------------- MODULE CameraDriverProofs --------------------------
(***************************************************************************)
(* Proofs about CameraDriver: its types, and that raspiraw_init and        *)
(* raspiraw_close give back what they took, for every number of buffers.   *)
(* The invariant says, for every place in the code, what is held there.    *)
(***************************************************************************)
EXTENDS CameraDriver, TLAPS

(* The components created, or enabled, before the step gets to component n. *)
Upto(n) == {InOrder[i] : i \in 1 .. n}

WithPort == {"send", "running", "port_disable", "abandoned"}

DoneInv ==
  /\ pc \in {"create", "enable"} => done \in 0 .. 2
  /\ pc \notin {"create", "enable", "send"} => done = 0

HeldInv ==
  /\ pc \in {"probe", "configure", "failed", "closed"} => held = {}
  /\ pc = "create" => held = Upto(done)
  /\ pc \in {"parameters", "enable", "commit", "zero_copy", "pool",
             "component_disable"} => held = Components
  /\ pc \in {"port", "pool_destroy"} \cup WithPort =>
       held = Components \cup {"pool"}
  /\ pc = "component_destroy" => held \subseteq Components

EnabledInv ==
  /\ pc \in {"probe", "configure", "create", "parameters", "failed",
             "closed"} => enabled = {}
  /\ pc = "enable" => enabled = Upto(done)
  /\ pc \in {"commit", "zero_copy", "pool", "port"} \cup WithPort =>
       enabled = Components

PortInv == portEnabled => pc \in WithPort

(* What is created is valid, and zeroes are not wild. *)
FieldInv ==
  /\ pc = "create" => \A c \in Upto(done) : field[c] = "valid"
  /\ pc \in {"parameters", "enable", "commit", "zero_copy", "pool", "port",
             "pool_destroy", "component_disable"} \cup WithPort =>
       \A c \in Components : field[c] = "valid"
  /\ zeroed => \A f \in Fields : field[f] # "wild"

PlaceInv == HeldInv /\ EnabledInv /\ PortInv /\ FieldInv /\ ZeroesAreSafe
DriverInv == TypeOK /\ DoneInv /\ PlaceInv
-----------------------------------------------------------------------------
(* The components in order *)

LEMMA UptoFacts ==
  /\ Len(InOrder) = 3
  /\ Upto(0) = {}
  /\ Upto(3) = Components
  /\ \A n \in 0 .. 2 : /\ InOrder[n + 1] \in Components
                       /\ Upto(n + 1) = Upto(n) \cup {InOrder[n + 1]}
<1>1. Len(InOrder) = 3
  BY DEF InOrder
<1>2. Upto(0) = {}
  BY DEF Upto
<1>3. InOrder[1] = "rawcam" /\ InOrder[2] = "isp" /\ InOrder[3] = "render"
  BY DEF InOrder
<1>4. Upto(3) = Components
  <2>1. 1 .. 3 = {1, 2, 3}
    OBVIOUS
  <2>2. QED
    BY <1>3, <2>1 DEF Upto, Components
<1>5. ASSUME NEW n \in 0 .. 2
      PROVE  /\ InOrder[n + 1] \in Components
             /\ Upto(n + 1) = Upto(n) \cup {InOrder[n + 1]}
  <2>1. InOrder[n + 1] \in Components
    <3>1. n = 0 \/ n = 1 \/ n = 2
      OBVIOUS
    <3>2. QED
      BY <1>3, <3>1 DEF Components
  <2>2. 1 .. (n + 1) = (1 .. n) \cup {n + 1}
    OBVIOUS
  <2>3. QED
    BY <2>1, <2>2 DEF Upto
<1>6. QED
  BY <1>1, <1>2, <1>4, <1>5
-----------------------------------------------------------------------------
(* Types *)

TypeInv == TypeOK /\ DoneInv

LEMMA TypeInit == Init => TypeInv
<1> SUFFICES ASSUME Init PROVE TypeInv
  OBVIOUS
<1>1. zeroed \in BOOLEAN
  <2>1. zeroed = (\A f \in Fields : field[f] = "null")
    BY DEF Init
  <2>2. (\A f \in Fields : field[f] = "null") \in BOOLEAN
    OBVIOUS
  <2>3. QED
    BY ONLY <2>1, <2>2
<1>2. field \in [Fields -> {"null", "wild", "valid"}]
  BY DEF Init
<1>3. done \in 0 .. NumBuffers \cup 0 .. Len(InOrder)
  BY ConstantsAssumption DEF Init
<1>4. QED
  BY <1>1, <1>2, <1>3 DEF Init, TypeInv, TypeOK, DoneInv, InitSteps

(* Where a failing step goes. *)
LEMMA FailureGoesToLabel ==
  ASSUME NEW step \in InitSteps
  PROVE  OnFailure(step) \in Labels \cup {"failed"}
  BY DEF OnFailure, InitSteps, Labels

(* The loops over the three components, entered at `done'. *)
LEMMA LoopFacts ==
  ASSUME TypeInv, pc \in {"create", "enable"}
  PROVE  /\ NextComponent \in Components
         /\ Upto(done + 1) = Upto(done) \cup {NextComponent}
         /\ done \in 0 .. 2
         /\ done + 1 = Len(InOrder) => Upto(done + 1) = Components
<1>1. done \in 0 .. 2
  BY DEF TypeInv, DoneInv
<1>2. Len(InOrder) = 3 /\ Upto(3) = Components
  BY UptoFacts
<1>3. /\ NextComponent \in Components
      /\ Upto(done + 1) = Upto(done) \cup {NextComponent}
  BY <1>1, UptoFacts DEF NextComponent
<1>4. QED
  BY <1>1, <1>2, <1>3

LEMMA AdvanceType ==
  ASSUME TypeInv, pc \in {"create", "enable"}, NEW next, Advance(next)
  PROVE  \/ /\ pc' = next /\ done' = 0
            /\ Upto(done + 1) = Components
         \/ /\ pc' = pc /\ done' = done + 1 /\ done' \in 0 .. 2
<1>1. done \in 0 .. 2 /\ Len(InOrder) = 3
  BY LoopFacts, UptoFacts
<1>2. CASE done + 1 = Len(InOrder)
  BY <1>2, LoopFacts DEF Advance, GoTo
<1>3. CASE done + 1 # Len(InOrder)
  BY <1>1, <1>3 DEF Advance
<1>4. QED
  BY <1>2, <1>3

LEMMA TypeNext == TypeInv /\ [Next]_vars => TypeInv'
<1> SUFFICES ASSUME TypeInv, [Next]_vars PROVE TypeInv'
  OBVIOUS
<1> USE ConstantsAssumption DEF TypeInv, DoneInv
<1>0. /\ 0 \in 0 .. NumBuffers \cup 0 .. Len(InOrder)
      /\ 0 .. 2 \subseteq 0 .. Len(InOrder)
      /\ 0 < NumBuffers
  BY UptoFacts
<1>1. CASE Prepare
  BY <1>0, <1>1 DEF Prepare, TypeOK, GoTo, mmalVars, InitSteps, Ends
<1>2. CASE CreateComponent
  <2>1. pc = "create" /\ NextComponent \in Components
    BY <1>2, LoopFacts DEF CreateComponent
  <2>2. /\ field' \in [Fields -> {"null", "wild", "valid"}]
        /\ held' \subseteq Components \cup {"pool"}
    BY <1>2, <2>1 DEF CreateComponent, TypeOK
  <2>3. /\ pc' \in {"create", "parameters"}
        /\ done' \in 0 .. 2
        /\ pc' = "parameters" => done' = 0
    BY <1>2, <2>1, AdvanceType DEF CreateComponent
  <2>4. QED
    BY <1>0, <1>2, <2>2, <2>3 DEF CreateComponent, TypeOK, InitSteps
<1>3. CASE SetParameters
  BY <1>0, <1>3 DEF SetParameters, TypeOK, GoTo, mmalVars, InitSteps
<1>4. CASE EnableComponent
  <2>1. pc = "enable" /\ NextComponent \in Components
    BY <1>4, LoopFacts DEF EnableComponent
  <2>2. /\ pc' \in {"enable", "commit"}
        /\ done' \in 0 .. 2
        /\ pc' = "commit" => done' = 0
    BY <1>4, <2>1, AdvanceType DEF EnableComponent
  <2>3. QED
    BY <1>0, <1>4, <2>1, <2>2 DEF EnableComponent, TypeOK, InitSteps
<1>5. CASE CommitFormat
  BY <1>0, <1>5 DEF CommitFormat, TypeOK, GoTo, mmalVars, InitSteps
<1>6. CASE CreatePool
  BY <1>0, <1>6 DEF CreatePool, TypeOK, GoTo, InitSteps, Fields
<1>7. CASE EnablePort
  BY <1>0, <1>7 DEF EnablePort, TypeOK, GoTo, InitSteps
<1>8. CASE SendBuffer
  BY <1>0, <1>8 DEF SendBuffer, TypeOK, AllSent, GoTo, mmalVars, InitSteps
<1>9. CASE StepFails
  BY <1>0, <1>9, FailureGoesToLabel
  DEF StepFails, TypeOK, GoTo, InitSteps, Labels, Ends
<1>10. CASE RaspirawClose
  BY <1>0, <1>10 DEF RaspirawClose, TypeOK, GoTo, mmalVars, Labels
<1>11. CASE PortDisable
  BY <1>0, <1>11 DEF PortDisable, TypeOK, GoTo, Labels, Ends
<1>12. CASE PoolDestroy
  BY <1>0, <1>12 DEF PoolDestroy, TypeOK, GoTo, Labels, Ends
<1>13. CASE ComponentDisable
  BY <1>0, <1>13 DEF ComponentDisable, TypeOK, GoTo, Labels, Ends
<1>14. CASE ComponentDestroy
  BY <1>0, <1>14 DEF ComponentDestroy, TypeOK, GoTo, Labels, Ends
<1>15. CASE Ended \/ UNCHANGED vars
  BY <1>15 DEF Ended, TypeOK, vars
<1>16. QED
  BY <1>1, <1>2, <1>3, <1>4, <1>5, <1>6, <1>7, <1>8, <1>9, <1>10, <1>11,
     <1>12, <1>13, <1>14, <1>15
  DEF Next

(***************************************************************************)
(* The variables of raspiraw_init and raspiraw_close keep their types; in  *)
(* particular the loop that sends the buffers stays below their number.    *)
(***************************************************************************)
THEOREM TypeCorrect == Spec => []TypeOK
<1>1. TypeInv => TypeOK
  BY DEF TypeInv
<1>2. QED
  BY <1>1, TypeInit, TypeNext, PTL DEF Spec
-----------------------------------------------------------------------------
(* What is held at each place *)

LEMMA PlaceInit == Init => PlaceInv
<1> SUFFICES ASSUME Init PROVE PlaceInv
  OBVIOUS
<1>1. HeldInv /\ EnabledInv /\ PortInv /\ ZeroesAreSafe
  BY DEF Init, HeldInv, EnabledInv, PortInv, ZeroesAreSafe, WithPort
<1>2. zeroed => \A f \in Fields : field[f] # "wild"
  BY DEF Init
<1>3. FieldInv
  BY <1>2 DEF Init, FieldInv, WithPort
<1>4. QED
  BY <1>1, <1>3 DEF PlaceInv

LEMMA PlaceNext == TypeInv /\ PlaceInv /\ [Next]_vars => PlaceInv'
<1> SUFFICES ASSUME TypeInv, PlaceInv, [Next]_vars PROVE PlaceInv'
  OBVIOUS
<1> USE DEF PlaceInv, WithPort
<1>a. Upto(0) = {}
  BY UptoFacts
<1>b. /\ "regs" \in Fields /\ "pool" \in Fields
      /\ "pool" \notin Components /\ Components \subseteq Fields
      /\ Connections \subseteq Fields
  BY DEF Fields, Components, Connections
<1>1. CASE Prepare
  <2>1. HeldInv' /\ EnabledInv' /\ PortInv'
    BY <1>1, <1>a
    DEF Prepare, GoTo, mmalVars, HeldInv, EnabledInv, PortInv
  <2>2. FieldInv' /\ ZeroesAreSafe'
    BY <1>1, <1>a, <1>b
    DEF Prepare, GoTo, mmalVars, FieldInv, ZeroesAreSafe
  <2>3. QED
    BY <2>1, <2>2
<1>2. CASE CreateComponent
  <2>1. pc = "create" /\ NextComponent \in Components
    BY <1>2, LoopFacts DEF CreateComponent
  <2>2. /\ Upto(done + 1) = Upto(done) \cup {NextComponent}
        /\ \/ pc' = "parameters" /\ Upto(done + 1) = Components
           \/ pc' = "create" /\ done' = done + 1
    BY <1>2, <2>1, LoopFacts, AdvanceType DEF CreateComponent
  <2>3. HeldInv' /\ EnabledInv' /\ PortInv' /\ ZeroesAreSafe'
    BY <1>2, <2>1, <2>2
    DEF CreateComponent, HeldInv, EnabledInv, PortInv, ZeroesAreSafe, Upto
  <2>4. /\ \A f \in Fields :
             field'[f] = IF f = NextComponent THEN "valid" ELSE field[f]
        /\ \A c \in Upto(done + 1) : field'[c] = "valid"
    <3>1. \A f \in Fields :
            field'[f] = IF f = NextComponent THEN "valid" ELSE field[f]
      BY <1>2 DEF CreateComponent, TypeInv, TypeOK
    <3>2. Upto(done + 1) \subseteq Components
      BY <2>1, LoopFacts, UptoFacts DEF Upto, InOrder, Components
    <3>3. QED
      BY <3>1, <3>2, <2>1, <2>2, <1>b DEF FieldInv
  <2>5. FieldInv'
    BY <1>2, <2>1, <2>2, <2>4 DEF FieldInv, CreateComponent, Upto
  <2>6. QED
    BY <2>3, <2>5
<1>3. CASE SetParameters
  BY <1>3, <1>a
  DEF SetParameters, GoTo, mmalVars, HeldInv, EnabledInv, PortInv, FieldInv,
      ZeroesAreSafe
<1>4. CASE EnableComponent
  <2>1. pc = "enable"
    BY <1>4 DEF EnableComponent
  <2>2. /\ Upto(done + 1) = Upto(done) \cup {NextComponent}
        /\ \/ pc' = "commit" /\ Upto(done + 1) = Components
           \/ pc' = "enable" /\ done' = done + 1
    BY <1>4, <2>1, LoopFacts, AdvanceType DEF EnableComponent
  <2>3. HeldInv' /\ PortInv' /\ FieldInv' /\ ZeroesAreSafe'
    BY <1>4, <2>1, <2>2
    DEF EnableComponent, HeldInv, PortInv, FieldInv, ZeroesAreSafe
  <2>4. EnabledInv'
    BY <1>4, <2>1, <2>2 DEF EnableComponent, EnabledInv, Upto
  <2>5. QED
    BY <2>3, <2>4
<1>5. CASE CommitFormat
  BY <1>5
  DEF CommitFormat, GoTo, mmalVars, HeldInv, EnabledInv, PortInv, FieldInv,
      ZeroesAreSafe
<1>6. CASE CreatePool
  <2>1. HeldInv' /\ EnabledInv' /\ PortInv' /\ ZeroesAreSafe'
    BY <1>6
    DEF CreatePool, GoTo, HeldInv, EnabledInv, PortInv, ZeroesAreSafe
  <2>2. \A f \in Fields :
          field'[f] = IF f = "pool" THEN "valid" ELSE field[f]
    BY <1>6 DEF CreatePool, TypeInv, TypeOK
  <2>3. FieldInv'
    BY <1>6, <1>b, <2>2 DEF CreatePool, GoTo, FieldInv
  <2>4. QED
    BY <2>1, <2>3
<1>7. CASE EnablePort
  BY <1>7
  DEF EnablePort, GoTo, HeldInv, EnabledInv, PortInv, FieldInv, ZeroesAreSafe
<1>8. CASE SendBuffer
  BY <1>8
  DEF SendBuffer, GoTo, mmalVars, HeldInv, EnabledInv, PortInv, FieldInv,
      ZeroesAreSafe
<1>9. CASE StepFails
  <2>1. pc \in InitSteps /\ pc' = OnFailure(pc)
    BY <1>9 DEF StepFails, GoTo
  <2>2. /\ pc \in {"probe", "configure"} => pc' = "failed"
        /\ pc = "create" => \/ done = 0 /\ pc' = "failed"
                            \/ pc' = "component_destroy"
        /\ pc \in {"parameters", "enable"} => pc' = "component_destroy"
        /\ pc \in {"commit", "zero_copy", "pool"} =>
             pc' = "component_disable"
        /\ pc = "port" => pc' = "pool_destroy"
        /\ pc = "send" => pc' = "port_disable"
    BY <2>1 DEF OnFailure, InitSteps
  <2>3. pc = "create" => Upto(done) \subseteq Components
    BY LoopFacts, UptoFacts DEF Upto, InOrder, Components
  <2>4. HeldInv' /\ EnabledInv' /\ PortInv' /\ ZeroesAreSafe'
    BY <1>9, <1>a, <2>1, <2>2, <2>3
    DEF StepFails, InitSteps, HeldInv, EnabledInv, PortInv, ZeroesAreSafe
  <2>5. \A f \in Fields :
          \/ field'[f] = field[f]
          \/ f = "pool" /\ field'[f] = "null"
    BY <1>9 DEF StepFails, TypeInv, TypeOK
  <2>6. FieldInv'
    BY <1>9, <1>b, <2>1, <2>2, <2>5 DEF StepFails, InitSteps, FieldInv
  <2>7. QED
    BY <2>4, <2>6
<1>10. CASE RaspirawClose
  BY <1>10
  DEF RaspirawClose, GoTo, mmalVars, HeldInv, EnabledInv, PortInv, FieldInv,
      ZeroesAreSafe
<1>11. CASE PortDisable
  BY <1>11
  DEF PortDisable, GoTo, HeldInv, EnabledInv, PortInv, FieldInv,
      ZeroesAreSafe
<1>12. CASE PoolDestroy
  <2>1. pc = "pool_destroy" /\ pc' \in {"crashed", "component_disable"}
    BY <1>12 DEF PoolDestroy, GoTo
  <2>2. HeldInv' /\ EnabledInv' /\ PortInv' /\ FieldInv'
    BY <1>12, <1>b, <2>1
    DEF PoolDestroy, GoTo, HeldInv, EnabledInv, PortInv, FieldInv
  <2>3. ZeroesAreSafe'
    BY <1>12, <1>b DEF PoolDestroy, GoTo, FieldInv, ZeroesAreSafe
  <2>4. QED
    BY <2>2, <2>3
<1>13. CASE ComponentDisable
  <2>1. pc = "component_disable" /\ pc' = "component_destroy"
    BY <1>13 DEF ComponentDisable, GoTo, FieldInv
  <2>2. QED
    BY <1>13, <2>1
    DEF ComponentDisable, GoTo, HeldInv, EnabledInv, PortInv, FieldInv,
        ZeroesAreSafe
<1>14. CASE ComponentDestroy
  <2>1. /\ pc = "component_destroy"
        /\ \/ pc' = "crashed"
           \/ pc' \in {"closed", "failed"} /\ held' = {} /\ enabled' = {}
    BY <1>14 DEF ComponentDestroy, GoTo, HeldInv
  <2>2. HeldInv' /\ EnabledInv' /\ PortInv' /\ FieldInv'
    BY <1>14, <2>1
    DEF ComponentDestroy, GoTo, HeldInv, EnabledInv, PortInv, FieldInv
  <2>3. ZeroesAreSafe'
    BY <1>14, <1>b DEF ComponentDestroy, GoTo, FieldInv, ZeroesAreSafe
  <2>4. QED
    BY <2>2, <2>3
<1>15. CASE Ended \/ UNCHANGED vars
  BY <1>15
  DEF Ended, vars, HeldInv, EnabledInv, PortInv, FieldInv, ZeroesAreSafe,
      Upto
<1>16. QED
  BY <1>1, <1>2, <1>3, <1>4, <1>5, <1>6, <1>7, <1>8, <1>9, <1>10, <1>11,
     <1>12, <1>13, <1>14, <1>15
  DEF Next

LEMMA Places == Spec => [](TypeInv /\ PlaceInv)
  BY TypeInit, TypeNext, PlaceInit, PlaceNext, PTL DEF Spec

(***************************************************************************)
(* raspiraw_init, wherever it fails, and raspiraw_close give everything    *)
(* back to MMAL.                                                           *)
(***************************************************************************)
THEOREM ReleaseComplete == Spec => []EverythingReleased
<1>1. PlaceInv => EverythingReleased
  BY DEF PlaceInv, HeldInv, EnabledInv, PortInv, WithPort, EverythingReleased
<1>2. QED
  BY <1>1, Places, PTL

(***************************************************************************)
(* Nothing the enabled port works with is taken away: the labels of        *)
(* raspiraw_init and raspiraw_close are in the right order.                *)
(***************************************************************************)
THEOREM PortSupplied == Spec => []PortKeepsItsPool
<1>1. PlaceInv => PortKeepsItsPool
  BY DEF PlaceInv, HeldInv, EnabledInv, PortInv, WithPort, PortKeepsItsPool
<1>2. QED
  BY <1>1, Places, PTL

(***************************************************************************)
(* Where malloc returns zeroes, no failure of raspiraw_init and no         *)
(* raspiraw_close uses a pointer to nothing.                               *)
(***************************************************************************)
THEOREM ZeroesSuffice == Spec => []ZeroesAreSafe
<1>1. PlaceInv => ZeroesAreSafe
  BY DEF PlaceInv
<1>2. QED
  BY <1>1, Places, PTL
=============================================================================
