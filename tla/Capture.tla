------------------------------- MODULE Capture -------------------------------
(***************************************************************************)
(* lpx-control: the main loop (lpx-control/src/main.c), the capture        *)
(* sessions (camera.c) and the part of raspiraw.c through which the MMAL   *)
(* callback thread reaches them.                                           *)
(*                                                                         *)
(* Two threads run.  The main thread takes train events from the pipe and  *)
(* starts and stops capture sessions.  The callback thread is given frame  *)
(* buffers by MMAL at any time and hands them to camera_handle_frame with  *)
(* the session found in cfg->user_data.  A step below is what one thread   *)
(* does between two points where the other thread or the file system can   *)
(* see or change what it uses.                                             *)
(*                                                                         *)
(* An access through freed memory is undefined.  The field `stopping' of a *)
(* freed session reads as any Boolean (the memory is intact or reused);    *)
(* any further use of a freed session is a fault, after which the process  *)
(* takes no step, or a wait for a mutex that nobody will release: main is  *)
(* then `blocked' while the callback thread goes on, or the callback       *)
(* thread stays at `check' while main does.                                *)
(*                                                                         *)
(* The clock is taken in one step.  That current_time may mix two readings *)
(* is shown by module CameraThreads; no such time gets into a row here.    *)
(***************************************************************************)
EXTENDS StreamStorage, FiniteSets

CONSTANTS MaxSessions, (* bound: train-in events that are handled        *)
          MaxFrames,   (* bound: buffers handed to one session           *)
          MaxClock     (* bound: the value at which the clock stops      *)

ASSUME BoundsAssumption ==
  /\ MaxSessions \in Nat
  /\ MaxFrames \in Nat
  /\ MaxClock \in Nat

(* Train ids are clock readings. *)
ASSUME TrainIdsAssumption == TrainIds = 0 .. MaxClock

NULL == -1
Sessions == 1 .. MaxSessions
SessionPtr == Sessions \cup {NULL}

(* A session that was never set can be met only after a restart, see there. *)
Faults == {"use_after_free", "null_session", "double_free", "overrun",
           "wild_free", "wild_frame", "wild_session"}

VARIABLES
  (* shared by the two threads *)
  session,        (* the CaptureSession objects, by order of allocation     *)
  userData,       (* cfg->user_data of raspiraw: the session, unprotected   *)
  now,            (* gettimeofday                                           *)
  fault,          (* "none", or the undefined behaviour that was hit        *)
  (* main thread *)
  pc,
  cs,             (* the session camera_start_stream or _stop_stream is at  *)
  captureSession, (* camera->capture_session                                *)
  trainId,        (* main's train_id: the session whose string it points to *)
  freedIds,       (* the sessions whose train_id string has been freed      *)
  framesCnt,      (* frames_cnt of camera_write_frame_index                 *)
  rows,           (* frame_array of camera_write_frame_index                *)
  quitting,       (* a key was pressed and main left its loop               *)
  allocated,      (* how many sessions have been allocated                  *)
  (* callback thread *)
  cbPc,
  cbSession       (* the argument `cs' of camera_handle_frame               *)

mainVars == <<pc, cs, captureSession, trainId, freedIds, framesCnt, rows,
              quitting, allocated>>
cbVars == <<cbPc, cbSession>>
vars == <<storageVars, session, userData, now, fault, mainVars, cbVars>>

MainPc == {"poll", "start_raspiraw", "start_sensor", "set_stopping",
           "raspiraw_stop", "index_size", "index_copy", "index_open",
           "index_write", "free_frames", "free_session", "stopped",
           "blocked", "exited"}
CallbackPc == {"idle", "reread", "check", "store", "append"}

Session == [state      : {"unused", "live", "freed"},
            train      : TrainIds,
            stopping   : BOOLEAN,
            frameIndex : Nat,        (* number of the next frame            *)
            reqTime    : Nat,        (* frame_req_time                      *)
            frames     : Seq(Row),   (* kept as history after it is freed   *)
            listLive   : BOOLEAN]    (* lst_free has not been called        *)

UnusedSession == [state |-> "unused", train |-> 0, stopping |-> FALSE,
                  frameIndex |-> 0, reqTime |-> 0, frames |-> <<>>,
                  listLive |-> FALSE]

TypeOK ==
  /\ StorageTypeOK
  /\ session \in [Sessions -> Session]
  /\ userData \in SessionPtr
  /\ now \in 0 .. MaxClock
  /\ fault \in Faults \cup {"none"}
  /\ pc \in MainPc
  /\ cs \in SessionPtr
  /\ captureSession \in SessionPtr
  /\ trainId \in SessionPtr
  /\ freedIds \subseteq Sessions
  /\ framesCnt \in Nat
  /\ rows \in Seq(Row)
  /\ quitting \in BOOLEAN
  /\ allocated \in 0 .. MaxSessions
  /\ cbPc \in CallbackPc
  /\ cbSession \in SessionPtr

Init ==
  /\ StorageInit
  /\ session = [s \in Sessions |-> UnusedSession]
  /\ userData = NULL
  /\ now = 0
  /\ fault = "none"
  /\ pc = "poll"
  /\ cs = NULL
  /\ captureSession = NULL
  /\ trainId = NULL
  /\ freedIds = {}
  /\ framesCnt = 0
  /\ rows = <<>>
  /\ quitting = FALSE
  /\ allocated = 0
  /\ cbPc = "idle"
  /\ cbSession = NULL

Running == fault = "none" /\ pc # "exited"
Live(s) == session[s].state = "live"

(* What a read of cs->stopping may return. *)
StoppingRead(s) == IF Live(s) THEN {session[s].stopping} ELSE BOOLEAN

(* The time of the first request of a session; mutant: left as memset to 0. *)
FirstRequestTimeUnset == 0
FirstRequestTime == now

(* The session camera_start_stream allocates for a train arriving now. *)
NewSession == [state |-> "live", train |-> now, stopping |-> FALSE,
               frameIndex |-> 0, reqTime |-> FirstRequestTime,
               frames |-> <<>>, listLive |-> TRUE]
-----------------------------------------------------------------------------
(* The main thread *)

(***************************************************************************)
(* A train-in event: main names the train after the clock and calls        *)
(* camera_start_stream, which allocates a session and prepares its         *)
(* directory.  The session keeps the caller's string (camera.c:117), so    *)
(* when the directory or the mutex cannot be had, the error path frees the *)
(* string main still points to.                                            *)
(***************************************************************************)
HandleTrainIn ==
  /\ Running
  /\ pc = "poll"
  /\ allocated < MaxSessions
  /\ allocated' = allocated + 1
  /\ trainId' = allocated'
  /\ \E res \in StorageCodes, mutexOk \in BOOLEAN :
       /\ StoragePrepare(now, res)
       /\ \/ /\ res = LPX_SUCCESS
             /\ mutexOk
             /\ session' = [session EXCEPT ![allocated'] = NewSession]
             /\ cs' = allocated'
             /\ pc' = "start_raspiraw"
             /\ UNCHANGED freedIds
          \/ /\ res # LPX_SUCCESS \/ ~mutexOk
             /\ session' = [session EXCEPT ![allocated'].state = "freed"]
             /\ freedIds' = freedIds \cup {allocated'}
             /\ UNCHANGED <<cs, pc>>
  /\ UNCHANGED <<userData, now, fault, captureSession, framesCnt, rows,
                 quitting, cbVars>>

(* raspiraw_start publishes the session to the callback thread ... *)
RaspirawSetUserData ==
  /\ Running
  /\ pc = "start_raspiraw"
  /\ userData' = cs
  /\ pc' = "start_sensor"
  /\ UNCHANGED <<storageVars, session, now, fault, cs, captureSession,
                 trainId, freedIds, framesCnt, rows, quitting, allocated,
                 cbVars>>

(* The session a stop will find; mutant: the first one is kept. *)
StoredSessionFirst == IF captureSession = NULL THEN cs ELSE captureSession
StoredSession == cs

(***************************************************************************)
(* ... and switches the sensor on; if that fails it withdraws the session  *)
(* again.  camera_start_stream stores the session in either case, and so   *)
(* forgets the one that was there.                                         *)
(***************************************************************************)
RaspirawStartSensor ==
  /\ Running
  /\ pc = "start_sensor"
  /\ userData' \in {userData, NULL}
  /\ captureSession' = StoredSession
  /\ pc' = "poll"
  /\ UNCHANGED <<storageVars, session, now, fault, cs, trainId, freedIds,
                 framesCnt, rows, quitting, allocated, cbVars>>

(***************************************************************************)
(* camera_stop_stream up to its unlocked test of cs->stopping.  The        *)
(* pointer capture_session is never cleared, so after the first stop it    *)
(* points to a freed session, whose mutex may never be had.  `done' is     *)
(* where a stop that has nothing to do continues.                          *)
(***************************************************************************)
CameraStopStream(done) ==
  \/ /\ captureSession = NULL
     /\ pc' = done
     /\ UNCHANGED <<cs, fault>>
  \/ /\ captureSession # NULL
     /\ TRUE \in StoppingRead(captureSession)
     /\ pc' = done
     /\ UNCHANGED <<cs, fault>>
  \/ /\ captureSession # NULL
     /\ FALSE \in StoppingRead(captureSession)
     /\ cs' = captureSession
     /\ \/ Live(captureSession) /\ pc' = "set_stopping" /\ UNCHANGED fault
        \/ ~Live(captureSession) /\ pc' = "blocked" /\ UNCHANGED fault
        \/ ~Live(captureSession) /\ fault' = "use_after_free" /\ UNCHANGED pc

(* A train-leave event; camera_streaming only tests the pointer. *)
HandleTrainLeave ==
  /\ Running
  /\ pc = "poll"
  /\ captureSession # NULL
  /\ CameraStopStream("stopped")
  /\ UNCHANGED <<storageVars, session, userData, now, captureSession,
                 trainId, freedIds, framesCnt, rows, quitting, allocated,
                 cbVars>>

(* A key: main leaves its loop, stops the sensor and closes the camera.  An
   event with a failed status would do the same; train_sensor.c sends none. *)
HandleKey ==
  /\ Running
  /\ pc = "poll"
  /\ quitting' = TRUE
  /\ CameraStopStream("stopped")
  /\ UNCHANGED <<storageVars, session, userData, now, captureSession,
                 trainId, freedIds, framesCnt, rows, allocated, cbVars>>

SetStopping ==
  /\ Running
  /\ pc = "set_stopping"
  /\ session' = [session EXCEPT ![cs].stopping = TRUE]
  /\ pc' = "raspiraw_stop"
  /\ UNCHANGED <<storageVars, userData, now, fault, cs, captureSession,
                 trainId, freedIds, framesCnt, rows, quitting, allocated,
                 cbVars>>

RaspirawStop ==
  /\ Running
  /\ pc = "raspiraw_stop"
  /\ userData' = NULL
  /\ pc' = "index_size"
  /\ UNCHANGED <<storageVars, session, now, fault, cs, captureSession,
                 trainId, freedIds, framesCnt, rows, quitting, allocated,
                 cbVars>>

(* lst_size; mutant: the size before the last append. *)
FramesSizeOffByOne == Len(session[cs].frames) - 1
FramesSize == Len(session[cs].frames)

(* How many frames are found, and have room in frame_array. *)
Found == IF framesCnt < Len(session[cs].frames)
           THEN framesCnt ELSE Len(session[cs].frames)

(* lst_append is at work for the session that is being stopped. *)
AppendInProgress == cbPc = "append" /\ cbSession = cs

(***************************************************************************)
(* camera_write_frame_index reads the list without a lock: first its size, *)
(* for which it allocates frame_array.  An append in progress may be       *)
(* counted before its frame can be found ...                               *)
(***************************************************************************)
IndexReadSize ==
  /\ Running
  /\ pc = "index_size"
  /\ \/ framesCnt' = FramesSize
     \/ AppendInProgress /\ framesCnt' = FramesSize + 1
  /\ pc' = IF framesCnt' = 0 THEN "free_frames" ELSE "index_copy"
  /\ UNCHANGED <<storageVars, session, userData, now, fault, cs,
                 captureSession, trainId, freedIds, rows, quitting,
                 allocated, cbVars>>

(***************************************************************************)
(* ... then its items, all of them.  Writing more than frame_array holds   *)
(* goes into the rounding of the allocation or corrupts the heap, and an   *)
(* item that is half-made may lead anywhere.  What is not found stays NULL *)
(* in frame_array.  Module CameraThreads has the accesses to the list.     *)
(***************************************************************************)
IndexCopyFrames ==
  /\ Running
  /\ pc = "index_copy"
  /\ \/ /\ rows' = SubSeq(session[cs].frames, 1, Found)
        /\ pc' = "index_open"
        /\ UNCHANGED fault
     \/ /\ Len(session[cs].frames) > framesCnt
        /\ fault' = "overrun"
        /\ UNCHANGED <<rows, pc>>
     \/ /\ Len(session[cs].frames) < framesCnt
        /\ fault' = "wild_frame"
        /\ UNCHANGED <<rows, pc>>
  /\ UNCHANGED <<storageVars, session, userData, now, cs, captureSession,
                 trainId, freedIds, framesCnt, quitting, allocated, cbVars>>

(***************************************************************************)
(* storage_store_stream_idx; when the directory is missing it frees the    *)
(* pointer idx_path before assigning it.  A failure is reported through    *)
(* the error callback and the frames are dropped all the same.             *)
(***************************************************************************)
IndexOpen ==
  /\ Running
  /\ pc = "index_open"
  /\ \E res \in StorageCodes :
       /\ StorageOpenIndex(session[cs].train, res)
       /\ \/ /\ res = LPX_SUCCESS
             /\ pc' = "index_write"
             /\ UNCHANGED fault
          \/ /\ res # LPX_SUCCESS
             /\ pc' = "free_frames"
             /\ UNCHANGED fault
          \/ /\ res = STRG_NOT_FOUND
             /\ fault' = "wild_free"
             /\ UNCHANGED pc
  /\ UNCHANGED <<session, userData, now, cs, captureSession, trainId,
                 freedIds, framesCnt, rows, quitting, allocated, cbVars>>

(* A frame that was counted but not found is dereferenced all the same. *)
IndexWrite ==
  /\ Running
  /\ pc = "index_write"
  /\ StorageWriteIndex(session[cs].train, rows)
  /\ \/ pc' = "free_frames" /\ UNCHANGED fault
     \/ Len(rows) < framesCnt /\ fault' = "wild_frame" /\ UNCHANGED pc
  /\ UNCHANGED <<session, userData, now, cs, captureSession, trainId,
                 freedIds, framesCnt, rows, quitting, allocated, cbVars>>

(* free_array and lst_free *)
FreeFrames ==
  /\ Running
  /\ pc = "free_frames"
  /\ session' = [session EXCEPT ![cs].listLive = FALSE]
  /\ pc' = "free_session"
  /\ UNCHANGED <<storageVars, userData, now, fault, cs, captureSession,
                 trainId, freedIds, framesCnt, rows, quitting, allocated,
                 cbVars>>

FreeSession ==
  /\ Running
  /\ pc = "free_session"
  /\ session' = [session EXCEPT ![cs].state = "freed"]
  /\ pc' = "stopped"
  /\ UNCHANGED <<storageVars, userData, now, fault, cs, captureSession,
                 trainId, freedIds, framesCnt, rows, quitting, allocated,
                 cbVars>>

(* Back in the main loop: free(train_id), which the error path of
   camera_start_stream may have freed before. *)
FreeTrainId ==
  /\ Running
  /\ pc = "stopped"
  /\ ~quitting
  /\ \/ /\ trainId # NULL
        /\ trainId \in freedIds
        /\ fault' = "double_free"
        /\ UNCHANGED <<pc, trainId, freedIds>>
     \/ /\ trainId = NULL \/ trainId \notin freedIds
        /\ freedIds' = freedIds \cup ({trainId} \ {NULL})
        /\ trainId' = NULL
        /\ pc' = "poll"
        /\ UNCHANGED fault
  /\ UNCHANGED <<storageVars, session, userData, now, cs, captureSession,
                 framesCnt, rows, quitting, allocated, cbVars>>

(* raspiraw_close, free(camera), storage_close and the end of main. *)
Exit ==
  /\ Running
  /\ pc = "stopped"
  /\ quitting
  /\ pc' = "exited"
  /\ UNCHANGED <<storageVars, session, userData, now, fault, cs,
                 captureSession, trainId, freedIds, framesCnt, rows,
                 quitting, allocated, cbVars>>
-----------------------------------------------------------------------------
(* The callback thread *)

(* MMAL returns a buffer and `callback' finds cfg->user_data set. *)
BufferReturned ==
  /\ Running
  /\ cbPc = "idle"
  /\ userData # NULL
  /\ session[userData].frameIndex < MaxFrames
  /\ cbPc' = "reread"
  /\ UNCHANGED <<storageVars, session, userData, now, fault, mainVars,
                 cbSession>>

(* It reads cfg->user_data once more for the argument of the handler. *)
EnterHandler ==
  /\ Running
  /\ cbPc = "reread"
  /\ cbSession' = userData
  /\ \/ userData # NULL /\ cbPc' = "check" /\ UNCHANGED fault
     \/ userData = NULL /\ fault' = "null_session" /\ UNCHANGED cbPc
  /\ UNCHANGED <<storageVars, session, userData, now, mainVars>>

(* camera_handle_frame: `stopping' is read under the mutex ... *)
CheckStopping ==
  /\ Running
  /\ cbPc = "check"
  /\ \E stopping \in StoppingRead(cbSession) :
       cbPc' = IF stopping THEN "idle" ELSE "store"
  /\ UNCHANGED <<storageVars, session, userData, now, fault, mainVars,
                 cbSession>>

(* A use of the session, or of its list, after main has freed it. *)
HandlerFault ==
  /\ Running
  /\ \/ cbPc \in {"check", "store"} /\ ~Live(cbSession)
     \/ cbPc = "append" /\ ~session[cbSession].listLive
  /\ fault' = "use_after_free"
  /\ UNCHANGED <<storageVars, session, userData, now, mainVars, cbVars>>

(* Only a stored frame gets a row; mutant: the return is missing. *)
AfterStoreAlwaysAppends(res) == "append"
AfterStore(res) == IF res = LPX_SUCCESS THEN "append" ELSE "idle"

(* ... and acted upon after the mutex is released.  The frame number is
   consumed whether or not the frame can be stored. *)
StoreFrame ==
  /\ Running
  /\ cbPc = "store"
  /\ Live(cbSession)
  /\ session' = [session EXCEPT ![cbSession].frameIndex = @ + 1]
  /\ \E res \in StorageCodes :
       /\ StorageStoreFrame(session[cbSession].train,
                            session[cbSession].frameIndex, res)
       /\ cbPc' = AfterStore(res)
  /\ UNCHANGED <<userData, now, fault, mainVars, cbSession>>

(* When the next frame is requested; mutant: frame_req_time is not moved. *)
NextRequestTimeKept == session[cbSession].reqTime
NextRequestTime == now

(* The row of the frame just stored. *)
NewRow(s) == [start |-> session[s].reqTime,
              end   |-> now,
              frame |-> session[s].frameIndex - 1]

AppendFrame ==
  /\ Running
  /\ cbPc = "append"
  /\ session[cbSession].listLive
  /\ session' = [session EXCEPT
                   ![cbSession].frames = Append(@, NewRow(cbSession)),
                   ![cbSession].reqTime = NextRequestTime]
  /\ cbPc' = "idle"
  /\ UNCHANGED <<storageVars, userData, now, fault, mainVars, cbSession>>
-----------------------------------------------------------------------------
Tick ==
  /\ Running
  /\ now < MaxClock
  /\ now' = now + 1
  /\ UNCHANGED <<storageVars, session, userData, fault, mainVars, cbVars>>

MainStep ==
  \/ RaspirawSetUserData
  \/ RaspirawStartSensor
  \/ SetStopping
  \/ RaspirawStop
  \/ IndexReadSize
  \/ IndexCopyFrames
  \/ IndexOpen
  \/ IndexWrite
  \/ FreeFrames
  \/ FreeSession
  \/ FreeTrainId
  \/ Exit

CallbackStep ==
  \/ EnterHandler
  \/ CheckStopping
  \/ HandlerFault
  \/ StoreFrame
  \/ AppendFrame

(* The process is gone, or waits for ever. *)
Terminated == (~Running \/ pc = "blocked") /\ UNCHANGED vars

Next ==
  \/ HandleTrainIn
  \/ HandleTrainLeave
  \/ HandleKey
  \/ MainStep
  \/ BufferReturned
  \/ CallbackStep
  \/ Tick
  \/ Terminated

Spec == Init /\ [][Next]_vars
-----------------------------------------------------------------------------
(* Properties *)

(***************************************************************************)
(* The rows of a published index follow each other without a gap: each     *)
(* frame was requested when the one before it had been received, also when *)
(* frames in between could not be stored (camera_handle_frame and          *)
(* camera_write_frame_index).  stream_find_frame relies on the order.      *)
(***************************************************************************)
Contiguous(q) ==
  /\ \A i \in 1 .. Len(q) : q[i].start <= q[i].end
  /\ \A i \in 1 .. Len(q) - 1 : q[i + 1].start = q[i].end

PublishedRowsContiguous == \A t \in TrainIds : Contiguous(index[t])

(***************************************************************************)
(* Stopping loses at most one frame: of the frames stored for a session,   *)
(* all but the one the callback thread is busy with are counted for the    *)
(* index, also when there are so few that no index is written.             *)
(***************************************************************************)
AtMostOneFrameLost ==
  pc \in {"index_copy", "index_open", "index_write", "free_frames"}
    => Cardinality(files[session[cs].train]) <= framesCnt + 1

(***************************************************************************)
(* No two sessions that may still store frames share a directory, even     *)
(* when trains follow each other within one clock reading                  *)
(* (storage_prepare's access check).                                       *)
(***************************************************************************)
OneWriterPerDirectory ==
  \A s1, s2 \in Sessions :
     Live(s1) /\ Live(s2) /\ session[s1].train = session[s2].train
       => s1 = s2

(***************************************************************************)
(* The name of the train, by which a session finds its directory, is       *)
(* main's own string (camera.c:117 keeps the pointer and not the copy).    *)
(* main frees it after a departure and camera_start_stream on its error    *)
(* path, but never while a session that may still store frames has it:     *)
(* not when arrivals replace a running session or fail, nor when a         *)
(* departure finds nothing to stop.                                        *)
(***************************************************************************)
NameOutlivesSession == \A s \in Sessions : Live(s) => s \notin freedIds

(***************************************************************************)
(* What users of the storage see of the two threads is the recorder of     *)
(* module Recorder.  Whatever was started, failed, superseded or stopped   *)
(* in between: every published row was made for a frame that is on disk,   *)
(* no frame has two rows, rows are in capture order, no two streams        *)
(* overlap in time (storage_find_stream identifies a stream by a point in  *)
(* time), a stream is published in one step, and neither a later session   *)
(* nor a late frame of the same one touches it after that.                 *)
(***************************************************************************)
Promise == INSTANCE Recorder WITH setBack <- FALSE
ImplementsRecorder == Promise!Spec

(***************************************************************************)
(* main.c:88 polls the standard input "for a correct termination of the    *)
(* program on any key".  This states it: no fault after the key press.     *)
(***************************************************************************)
CorrectTermination == quitting => fault = "none"
=============================================================================
