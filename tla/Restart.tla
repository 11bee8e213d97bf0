------------------------------- MODULE Restart --------------------------------
(***************************************************************************)
(* lpx-control that may die at any step and be started again, on a machine *)
(* whose clock may be set back, as that of a Raspberry Pi is, which has no *)
(* battery for it.  main and camera_init set up everything but the storage *)
(* afresh; nothing in the program looks at what an earlier run has left in *)
(* the storage, except storage_prepare.  Nor does it look at the sensor,   *)
(* which goes on streaming when the process dies.                          *)
(*                                                                         *)
(* The process dies alone, by a signal, an assertion or a fault: what it   *)
(* has passed to the kernel is kept.  (Nothing is ever synced, so that a   *)
(* power failure may lose any of it; that is not modelled.)                *)
(***************************************************************************)
EXTENDS Capture

CONSTANTS MaxRestarts,   (* bound: how often the program is started again *)
          MaxSetBacks    (* bound: how often the clock is set back        *)

ASSUME RestartBoundsAssumption ==
  /\ MaxRestarts \in Nat
  /\ MaxSetBacks \in Nat

VARIABLES restarts,
          setBacks,
          sensorOn,   (* the sensor is streaming                            *)
          (* history *)
          leftBehind, (* the directories there were at the last restart     *)
          failed      (* a run has ended otherwise than by the end of main, *)
                      (* or an access to the sensor over I2C has failed     *)

sensorVars == <<sensorOn, failed>>
faultVars == <<restarts, setBacks, leftBehind>>
restartVars == <<vars, sensorVars, faultVars>>

RestartTypeOK ==
  /\ TypeOK
  /\ restarts \in 0 .. MaxRestarts
  /\ setBacks \in 0 .. MaxSetBacks
  /\ sensorOn \in BOOLEAN
  /\ leftBehind \subseteq TrainIds
  /\ failed \in BOOLEAN

RestartInit ==
  /\ Init
  /\ restarts = 0
  /\ setBacks = 0
  /\ sensorOn = FALSE
  /\ leftBehind = {}
  /\ failed = FALSE
-----------------------------------------------------------------------------
(* The sensor *)

(***************************************************************************)
(* start_camera_streaming, and when it fails, before the first register is *)
(* written, stop_camera_streaming; a register that cannot be written is    *)
(* not a failure.                                                          *)
(***************************************************************************)
SensorStart ==
  \/ /\ userData' # NULL
     /\ sensorOn' = TRUE
     /\ UNCHANGED failed
  \/ /\ sensorOn' \in IF userData' = NULL THEN {sensorOn, FALSE} ELSE BOOLEAN
     /\ failed' = TRUE

(* What stop_camera_streaming leaves; mutant: it writes no register. *)
SensorStoppedNot == sensorOn
SensorStopped == FALSE

SensorStop ==
  \/ /\ sensorOn' = SensorStopped
     /\ UNCHANGED failed
  \/ /\ sensorOn' = sensorOn
     /\ failed' = TRUE

CaptureStep ==
  /\ Next
  /\ \/ pc = "start_sensor" /\ pc' = "poll" /\ SensorStart
     \/ pc = "raspiraw_stop" /\ pc' # pc /\ SensorStop
     \/ pc \in {"start_sensor", "raspiraw_stop"} /\ pc' = pc /\ UNCHANGED sensorVars
     \/ pc \notin {"start_sensor", "raspiraw_stop"} /\ UNCHANGED sensorVars
  /\ UNCHANGED faultVars

(***************************************************************************)
(* A buffer comes before the first raspiraw_start of this run.  Nothing    *)
(* has set cfg->user_data, which malloc left as it was, and the handler is *)
(* called with it unless it happens to be NULL.                            *)
(***************************************************************************)
StrayBuffer ==
  /\ Running
  /\ sensorOn
  /\ captureSession = NULL
  /\ pc # "start_sensor"
  /\ fault' = "wild_session"
  /\ UNCHANGED <<storageVars, session, userData, now, mainVars, cbVars,
                 sensorVars, faultVars>>
-----------------------------------------------------------------------------
(* Deaths, restarts and the clock *)

(***************************************************************************)
(* What the storage may hold of a write that is cut off: a frame file,     *)
(* complete or not, and the rows that have left the buffer of the index.   *)
(* (A row of which only a part has left it is left to module IndexFile.    *)
(* When both threads are writing, the frame may have been stored before.)  *)
(***************************************************************************)
FilesCutOff ==
  IF Running /\ cbPc = "store" /\ Live(cbSession)
    THEN {files, [files EXCEPT ![session[cbSession].train] =
                    @ \cup {session[cbSession].frameIndex}]}
    ELSE {files}

IndexCutOff ==
  IF Running /\ pc = "index_write"
    THEN {[index EXCEPT ![session[cs].train] = SubSeq(rows, 1, k)] :
            k \in 0 .. Len(rows)}
    ELSE {index}

(* main and camera_init up to the loop *)
FreshProcess ==
  /\ session' = [s \in Sessions |-> UnusedSession]
  /\ userData' = NULL
  /\ fault' = "none"
  /\ pc' = "poll"
  /\ cs' = NULL
  /\ captureSession' = NULL
  /\ trainId' = NULL
  /\ freedIds' = {}
  /\ framesCnt' = 0
  /\ rows' = <<>>
  /\ quitting' = FALSE
  /\ allocated' = 0
  /\ cbPc' = "idle"
  /\ cbSession' = NULL

DieAndRestart ==
  /\ restarts < MaxRestarts
  /\ restarts' = restarts + 1
  /\ \/ files' \in FilesCutOff /\ UNCHANGED index
     \/ index' \in IndexCutOff /\ UNCHANGED files
  /\ leftBehind' = dirs
  /\ FreshProcess
  /\ failed' = (failed \/ fault # "none" \/ pc # "exited")
  /\ UNCHANGED <<dirs, indexed, now, setBacks, sensorOn>>

SetClockBack ==
  /\ setBacks < MaxSetBacks
  /\ setBacks' = setBacks + 1
  /\ now' \in 0 .. now - 1
  /\ UNCHANGED <<storageVars, session, userData, fault, mainVars, cbVars,
                 sensorVars, restarts, leftBehind>>

RestartNext ==
  \/ CaptureStep
  \/ StrayBuffer
  \/ DieAndRestart
  \/ SetClockBack

RestartSpec == RestartInit /\ [][RestartNext]_restartVars
-----------------------------------------------------------------------------
(* Properties *)

(***************************************************************************)
(* What an earlier run has left is never touched again, not even when the  *)
(* clock repeats the name of its directory: a stream that was cut off      *)
(* stays unpublished, and none gets frames of two runs (storage_prepare    *)
(* is the only place that looks).                                          *)
(***************************************************************************)
LeftBehindUntouched ==
  [][\A t \in leftBehind :
       /\ t \in dirs'
       /\ files'[t] = files[t]
       /\ index'[t] = index[t]
       /\ t \in indexed' => t \in indexed]_restartVars

(***************************************************************************)
(* As long as every run ends with the end of main and the I2C bus works,   *)
(* the sensor is off when the next run begins, and no buffer meets the     *)
(* pointer that raspiraw_init leaves unset, however the sessions were      *)
(* started, superseded and stopped (camera_stop_stream relies on a pointer *)
(* that it never clears).                                                  *)
(***************************************************************************)
StrayBufferNeedsFailure == fault = "wild_session" => failed

(***************************************************************************)
(* Deaths and restarts, and the clock as far as the promise depends on it, *)
(* leave the promise of lpx-control as it is.                              *)
(***************************************************************************)
KeptPromise == INSTANCE Recorder WITH setBack <- setBacks > 0
RestartsKeepPromise == KeptPromise!Spec
=============================================================================
