---------------------------- MODULE CaptureProofs ----------------------------
(***************************************************************************)
(* Theorems of Capture, and of the two modules that extend it:             *)
(* SharedStorage, in which the server deletes under the hands of           *)
(* lpx-control, and Restart, in which lpx-control dies and is started      *)
(* again.  They hold for every number of sessions, of frames and of clock  *)
(* readings, of requests, of restarts and of times the clock is set back.  *)
(*                                                                         *)
(*   Types of Capture, rows without gaps, one writer in a directory        *)
(*   SharedStorage: types, rows, what an OK to a deletion means            *)
(*   Restart: types, what is left behind, the sensor                       *)
(*   Capture implements Recorder                                           *)
(*   A stop loses at most one frame; the name of a session is kept         *)
(*   Restart implements Recorder                                           *)
(*                                                                         *)
(* The typing of the variables is not inductive alone: a session is        *)
(* reached through pointers, and the row of a frame takes its number from  *)
(* the counter that StoreFrame has incremented.  PointersValid says which  *)
(* pointers are defined where, and TypeInv is inductive.                   *)
(***************************************************************************)
EXTENDS Restart, SharedStorage, FiniteSetTheorems, SequenceTheorems, TLAPS

Allocated == 1 .. allocated
StopPc == MainPc \ {"poll", "stopped", "blocked", "exited"}

PointersValid ==
  /\ pc \in StopPc => cs \in Allocated
  /\ userData # NULL => userData \in Allocated
  /\ captureSession # NULL => captureSession \in Allocated
  /\ cbPc \in {"check", "store", "append"} => cbSession \in Allocated
  /\ cbPc = "append" => session[cbSession].frameIndex > 0

TypeInv == TypeOK /\ PointersValid
-----------------------------------------------------------------------------
(* What the operations of the storage do to its variables. *)

LEMMA StorageUnchanged ==
  ASSUME StorageTypeOK, UNCHANGED storageVars
  PROVE  StorageTypeOK'
BY DEF StorageTypeOK, storageVars

LEMMA PrepareTyped ==
  ASSUME StorageTypeOK, NEW t \in TrainIds, NEW res, StoragePrepare(t, res)
  PROVE  StorageTypeOK'
BY DEF StorageTypeOK, StoragePrepare, storageVars

LEMMA StoreFrameTyped ==
  ASSUME StorageTypeOK, NEW t \in TrainIds, NEW k \in Nat, NEW res,
         StorageStoreFrame(t, k, res)
  PROVE  StorageTypeOK'
BY DEF StorageTypeOK, StorageStoreFrame, storageVars

LEMMA OpenIndexTyped ==
  ASSUME StorageTypeOK, NEW t \in TrainIds, NEW res, StorageOpenIndex(t, res)
  PROVE  StorageTypeOK'
<1>1. <<>> \in Seq(Row)
  OBVIOUS
<1> QED
  BY <1>1 DEF StorageTypeOK, StorageOpenIndex, storageVars

LEMMA PrefixTyped ==
  ASSUME NEW S, NEW q \in Seq(S), NEW k \in 0 .. Len(q)
  PROVE  /\ SubSeq(q, 1, k) \in Seq(S)
         /\ Len(SubSeq(q, 1, k)) = k
         /\ \A i \in 1 .. k : SubSeq(q, 1, k)[i] = q[i]
<1>1. \A i \in 1 .. k : q[i] \in S
  OBVIOUS
<1> QED
  BY <1>1, SubSeqProperties

LEMMA FoundIsPrefix ==
  ASSUME session[cs].frames \in Seq(Row), framesCnt \in Nat
  PROVE  Found \in 0 .. Len(session[cs].frames)
BY DEF Found

LEMMA WriteIndexTyped ==
  ASSUME StorageTypeOK, NEW t \in TrainIds, NEW q \in Seq(Row),
         StorageWriteIndex(t, q)
  PROVE  StorageTypeOK'
<1>1. PICK k \in 0 .. Len(q) :
        /\ index' = [index EXCEPT ![t] = IF t \in indexed
                                         THEN SubSeq(q, 1, k) ELSE @]
        /\ UNCHANGED <<dirs, files, indexed>>
  BY DEF StorageWriteIndex
<1>2. SubSeq(q, 1, k) \in Seq(Row)
  BY PrefixTyped
<1> QED
  BY <1>1, <1>2 DEF StorageTypeOK
-----------------------------------------------------------------------------
(* What the steps do to a session. *)

Counted(s, n) == [s EXCEPT !.frameIndex = n]
Extended(s, q, n) == [s EXCEPT !.frames = q, !.reqTime = n]

LEMMA FieldsTyped ==
  ASSUME NEW s \in Session
  PROVE  /\ [s EXCEPT !.stopping = TRUE] \in Session
         /\ [s EXCEPT !.listLive = FALSE] \in Session
         /\ [s EXCEPT !.state = "freed"] \in Session
BY DEF Session

LEMMA CountedTyped ==
  ASSUME NEW s \in Session, NEW n \in Nat
  PROVE  /\ Counted(s, n) \in Session
         /\ Counted(s, n).frameIndex = n
         /\ Counted(s, n).frames = s.frames
         /\ Counted(s, n).reqTime = s.reqTime
BY DEF Counted, Session

LEMMA ExtendedTyped ==
  ASSUME NEW s \in Session, NEW q \in Seq(Row), NEW n \in Nat
  PROVE  /\ Extended(s, q, n) \in Session
         /\ Extended(s, q, n).frames = q
         /\ Extended(s, q, n).reqTime = n
         /\ Extended(s, q, n).frameIndex = s.frameIndex
BY DEF Extended, Session

LEMMA NewSessionTyped ==
  ASSUME now \in 0 .. MaxClock
  PROVE  NewSession \in Session
<1>1. now \in Nat /\ now \in TrainIds
  BY TrainIdsAssumption, BoundsAssumption
<1>2. <<>> \in Seq(Row)
  OBVIOUS
<1> QED
  BY <1>1, <1>2 DEF NewSession, FirstRequestTime, Session
-----------------------------------------------------------------------------
(* Every step keeps TypeInv; the steps are those of Next. *)

LEMMA TypeInvStep == TypeInv /\ [Next]_vars => TypeInv'
<1> SUFFICES ASSUME TypeInv, [Next]_vars PROVE TypeInv'
  OBVIOUS
<1> USE BoundsAssumption
        DEF TypeInv, TypeOK, PointersValid, Allocated, StopPc, MainPc,
            CallbackPc, Sessions, SessionPtr, NULL, Faults, mainVars, cbVars
<1>1. CASE HandleTrainIn
  <2>1. StorageTypeOK'
    BY <1>1, PrepareTyped, TrainIdsAssumption DEF HandleTrainIn
  <2>2. /\ allocated' = allocated + 1
        /\ allocated' \in Sessions
    BY <1>1 DEF HandleTrainIn
  <2>3. [session[allocated'] EXCEPT !.state = "freed"] \in Session
    BY <2>2, FieldsTyped
  <2>4. session' \in [Sessions -> Session]
    BY <1>1, <2>2, <2>3, NewSessionTyped DEF HandleTrainIn
  <2>5. \A s \in Allocated : session'[s] = session[s]
    BY <1>1, <2>2 DEF HandleTrainIn
  <2>6. pc' \in {"poll", "start_raspiraw"} /\ (pc' # "poll" => cs' = allocated')
    BY <1>1 DEF HandleTrainIn
  <2>7. cs' \in SessionPtr /\ trainId' \in SessionPtr /\ freedIds' \subseteq Sessions
    BY <1>1, <2>2 DEF HandleTrainIn
  <2>8. UNCHANGED <<userData, now, fault, captureSession, framesCnt, rows,
                    quitting, cbPc, cbSession>>
    BY <1>1 DEF HandleTrainIn
  <2>9. TypeOK'
    BY <2>1, <2>2, <2>4, <2>6, <2>7, <2>8
  <2> QED
    BY <2>2, <2>5, <2>6, <2>8, <2>9
<1>2. CASE RaspirawSetUserData
  <2>1. StorageTypeOK'
    BY <1>2, StorageUnchanged DEF RaspirawSetUserData
  <2> QED
    BY <1>2, <2>1 DEF RaspirawSetUserData
<1>3. CASE RaspirawStartSensor
  <2>1. StorageTypeOK'
    BY <1>3, StorageUnchanged DEF RaspirawStartSensor
  <2> QED
    BY <1>3, <2>1 DEF RaspirawStartSensor, StoredSession
<1>4. CASE HandleTrainLeave
  <2>1. StorageTypeOK'
    BY <1>4, StorageUnchanged DEF HandleTrainLeave
  <2>2. /\ pc' \in {"poll", "stopped", "blocked", "set_stopping"}
        /\ cs' \in {cs, captureSession}
        /\ pc' = "set_stopping" => cs' = captureSession /\ captureSession # NULL
        /\ fault' \in {fault, "use_after_free"}
    BY <1>4 DEF HandleTrainLeave, CameraStopStream
  <2> QED
    BY <1>4, <2>1, <2>2 DEF HandleTrainLeave
<1>5. CASE HandleKey
  <2>1. StorageTypeOK'
    BY <1>5, StorageUnchanged DEF HandleKey
  <2>2. /\ pc' \in {"poll", "stopped", "blocked", "set_stopping"}
        /\ cs' \in {cs, captureSession}
        /\ pc' = "set_stopping" => cs' = captureSession /\ captureSession # NULL
        /\ fault' \in {fault, "use_after_free"}
    BY <1>5 DEF HandleKey, CameraStopStream
  <2> QED
    BY <1>5, <2>1, <2>2 DEF HandleKey
<1>6. CASE SetStopping
  <2>1. StorageTypeOK'
    BY <1>6, StorageUnchanged DEF SetStopping
  <2>2. session' \in [Sessions -> Session]
    BY <1>6, FieldsTyped DEF SetStopping
  <2> QED
    BY <1>6, <2>1, <2>2 DEF SetStopping
<1>7. CASE RaspirawStop
  <2>1. StorageTypeOK'
    BY <1>7, StorageUnchanged DEF RaspirawStop
  <2> QED
    BY <1>7, <2>1 DEF RaspirawStop
<1>8. CASE IndexReadSize
  <2>1. StorageTypeOK'
    BY <1>8, StorageUnchanged DEF IndexReadSize
  <2>2. framesCnt' \in Nat
    BY <1>8 DEF IndexReadSize, FramesSize, Session
  <2> QED
    BY <1>8, <2>1, <2>2 DEF IndexReadSize
<1>9. CASE IndexCopyFrames
  <2>1. StorageTypeOK'
    BY <1>9, StorageUnchanged DEF IndexCopyFrames
  <2>2. session[cs].frames \in Seq(Row)
    BY <1>9 DEF IndexCopyFrames, Session
  <2>3. SubSeq(session[cs].frames, 1, Found) \in Seq(Row)
    BY <2>2, FoundIsPrefix, PrefixTyped
  <2>4. /\ rows' \in Seq(Row)
        /\ pc' \in {"index_copy", "index_open"}
        /\ fault' \in Faults \cup {"none"}
    BY <1>9, <2>3 DEF IndexCopyFrames
  <2>5. pc = "index_copy" /\ UNCHANGED <<session, userData, now, cs,
          captureSession, trainId, freedIds, framesCnt, quitting, allocated,
          cbPc, cbSession>>
    BY <1>9 DEF IndexCopyFrames
  <2> QED
    BY <2>1, <2>4, <2>5
<1>10. CASE IndexOpen
  <2>0. session[cs].train \in TrainIds
    BY <1>10 DEF IndexOpen, Session
  <2>1. StorageTypeOK'
    BY <1>10, <2>0, OpenIndexTyped DEF IndexOpen
  <2> QED
    BY <1>10, <2>1 DEF IndexOpen
<1>11. CASE IndexWrite
  <2>0. session[cs].train \in TrainIds
    BY <1>11 DEF IndexWrite, Session
  <2>1. StorageTypeOK'
    BY <1>11, <2>0, WriteIndexTyped DEF IndexWrite
  <2> QED
    BY <1>11, <2>1 DEF IndexWrite
<1>12. CASE FreeFrames
  <2>1. StorageTypeOK'
    BY <1>12, StorageUnchanged DEF FreeFrames
  <2>2. session' \in [Sessions -> Session]
    BY <1>12, FieldsTyped DEF FreeFrames
  <2> QED
    BY <1>12, <2>1, <2>2 DEF FreeFrames
<1>13. CASE FreeSession
  <2>1. StorageTypeOK'
    BY <1>13, StorageUnchanged DEF FreeSession
  <2>2. session' \in [Sessions -> Session]
    BY <1>13, FieldsTyped DEF FreeSession
  <2> QED
    BY <1>13, <2>1, <2>2 DEF FreeSession
<1>14. CASE FreeTrainId
  <2>1. StorageTypeOK'
    BY <1>14, StorageUnchanged DEF FreeTrainId
  <2>2. /\ pc' \in {"stopped", "poll"}
        /\ trainId' \in SessionPtr
        /\ freedIds' \subseteq Sessions
        /\ fault' \in {fault, "double_free"}
    BY <1>14 DEF FreeTrainId
  <2> QED
    BY <1>14, <2>1, <2>2 DEF FreeTrainId
<1>15. CASE Exit
  <2>1. StorageTypeOK'
    BY <1>15, StorageUnchanged DEF Exit
  <2> QED
    BY <1>15, <2>1 DEF Exit
<1>16. CASE BufferReturned
  <2>1. StorageTypeOK'
    BY <1>16, StorageUnchanged DEF BufferReturned
  <2> QED
    BY <1>16, <2>1 DEF BufferReturned
<1>17. CASE EnterHandler
  <2>1. StorageTypeOK'
    BY <1>17, StorageUnchanged DEF EnterHandler
  <2> QED
    BY <1>17, <2>1 DEF EnterHandler
<1>18. CASE CheckStopping
  <2>1. StorageTypeOK'
    BY <1>18, StorageUnchanged DEF CheckStopping
  <2> QED
    BY <1>18, <2>1 DEF CheckStopping
<1>19. CASE HandlerFault
  <2>1. StorageTypeOK'
    BY <1>19, StorageUnchanged DEF HandlerFault
  <2> QED
    BY <1>19, <2>1 DEF HandlerFault
<1>20. CASE StoreFrame
  <2>1. /\ cbSession \in Sessions
        /\ session[cbSession] \in Session
        /\ session[cbSession].train \in TrainIds
        /\ session[cbSession].frameIndex \in Nat
    BY <1>20 DEF StoreFrame, Session
  <2>2. StorageTypeOK'
    BY <1>20, <2>1, StoreFrameTyped DEF StoreFrame
  <2> DEFINE k == session[cbSession].frameIndex + 1
             next == Counted(session[cbSession], k)
  <2>3. session' = [session EXCEPT ![cbSession] = next]
    BY <1>20 DEF StoreFrame, Counted
  <2>a. k \in Nat /\ k > 0
    BY <2>1
  <2> HIDE DEF k
  <2>4. next \in Session /\ next.frames = session[cbSession].frames
        /\ next.frameIndex > 0
    BY <2>1, <2>a, CountedTyped
  <2> HIDE DEF next
  <2>5. session' \in [Sessions -> Session]
    BY <2>3, <2>4
  <2>6. \A s \in Sessions : session'[s].frames = session[s].frames
    BY <2>1, <2>3, <2>4
  <2>7. session'[cbSession].frameIndex > 0
    BY <2>1, <2>3, <2>4
  <2>8. cbPc' \in {"append", "idle"}
    BY <1>20 DEF StoreFrame, AfterStore
  <2>9. UNCHANGED <<userData, now, fault, mainVars, cbSession>>
    BY <1>20 DEF StoreFrame
  <2>10. TypeOK'
    BY <2>2, <2>5, <2>8, <2>9
  <2> QED
    BY <1>20, <2>6, <2>7, <2>8, <2>9, <2>10 DEF StoreFrame
<1>21. CASE AppendFrame
  <2>1. StorageTypeOK'
    BY <1>21, StorageUnchanged DEF AppendFrame
  <2>b. cbSession \in Sessions /\ session[cbSession] \in Session
    BY <1>21 DEF AppendFrame
  <2>n. now \in Nat
    OBVIOUS
  <2>2. /\ cbSession \in Sessions
        /\ session[cbSession] \in Session
        /\ session[cbSession].frames \in Seq(Row)
        /\ now \in Nat
    BY <2>b, <2>n DEF Session
  <2>c. session[cbSession].reqTime \in Nat /\ session[cbSession].frameIndex \in Nat
    BY <2>2 DEF Session
  <2>d. session[cbSession].frameIndex > 0
    BY <1>21 DEF AppendFrame
  <2>a. /\ session[cbSession].reqTime \in Nat
        /\ session[cbSession].frameIndex - 1 \in Nat
    BY <2>c, <2>d
  <2>3. NewRow(cbSession) \in Row
    BY <2>2, <2>a DEF NewRow, Row
  <2> DEFINE q == Append(session[cbSession].frames, NewRow(cbSession))
             next == Extended(session[cbSession], q, now)
  <2>4. q \in Seq(Row) /\ Len(q) = Len(session[cbSession].frames) + 1
    BY <2>2, <2>3, AppendProperties
  <2>5. session' = [session EXCEPT ![cbSession] = next]
    BY <1>21 DEF AppendFrame, NextRequestTime, Extended
  <2> HIDE DEF q
  <2>6. next \in Session /\ next.frames = q
    BY <2>2, <2>4, ExtendedTyped, ZenonT(40)
  <2> HIDE DEF next
  <2>7. session' \in [Sessions -> Session]
    BY <2>5, <2>6
  <2>9. cbPc' = "idle" /\ UNCHANGED <<userData, now, fault, mainVars, cbSession>>
    BY <1>21 DEF AppendFrame
  <2>10. TypeOK'
    BY <2>1, <2>7, <2>9
  <2> QED
    BY <2>9, <2>10
<1>22. CASE Tick
  <2>1. StorageTypeOK'
    BY <1>22, StorageUnchanged DEF Tick
  <2> QED
    BY <1>22, <2>1 DEF Tick
<1>23. CASE UNCHANGED vars
  BY <1>23, StorageUnchanged DEF vars
<1> QED
  BY <1>1, <1>2, <1>3, <1>4, <1>5, <1>6, <1>7, <1>8, <1>9, <1>10, <1>11, <1>12, <1>13, <1>14, <1>15, <1>16, <1>17, <1>18, <1>19, <1>20, <1>21, <1>22, <1>23
     DEF Next, MainStep, CallbackStep, Terminated

LEMMA TypeInvInit == Init => TypeInv
<1>1. UnusedSession \in Session
  <2>1. <<>> \in Seq(Row) /\ 0 \in TrainIds
    BY TrainIdsAssumption, BoundsAssumption
  <2> QED
    BY <2>1 DEF UnusedSession, Session
<1>2. StorageInit => StorageTypeOK
  <2>1. <<>> \in Seq(Row)
    OBVIOUS
  <2> QED
    BY <2>1 DEF StorageInit, StorageTypeOK
<1>3. <<>> \in Seq(Row)
  OBVIOUS
<1>4. Init => TypeOK
  <2> SUFFICES ASSUME Init PROVE TypeOK
    OBVIOUS
  <2>1. StorageTypeOK
    BY <1>2 DEF Init
  <2>2. session \in [Sessions -> Session]
    BY <1>1 DEF Init
  <2>3. rows \in Seq(Row)
    BY <1>3 DEF Init
  <2>4. /\ now \in 0 .. MaxClock
        /\ framesCnt \in Nat
        /\ allocated \in 0 .. MaxSessions
    BY BoundsAssumption DEF Init
  <2>5. /\ userData \in SessionPtr
        /\ cs \in SessionPtr
        /\ captureSession \in SessionPtr
        /\ trainId \in SessionPtr
        /\ cbSession \in SessionPtr
        /\ freedIds \subseteq Sessions
    BY DEF Init, SessionPtr
  <2>6. /\ pc \in MainPc
        /\ cbPc \in CallbackPc
        /\ fault \in Faults \cup {"none"}
        /\ quitting \in BOOLEAN
    BY DEF Init, MainPc, CallbackPc
  <2> QED
    BY <2>1, <2>2, <2>3, <2>4, <2>5, <2>6 DEF TypeOK
<1>5. Init => PointersValid
  BY DEF Init, PointersValid, StopPc, NULL
<1> QED
  BY <1>4, <1>5 DEF TypeInv

LEMMA TypeInvariant == Spec => []TypeInv
BY TypeInvInit, TypeInvStep, PTL DEF Spec

(***************************************************************************)
(* Every variable of the capture process keeps its type: no interleaving   *)
(* of the two threads makes a step use a session that was never allocated  *)
(* or a frame number that was never given.                                 *)
(***************************************************************************)
THEOREM TypeCorrect == Spec => []TypeOK
BY TypeInvariant, PTL DEF TypeInv
-----------------------------------------------------------------------------
(***************************************************************************)
(* Contiguity.  A published index is a prefix of frame_array, which is a   *)
(* prefix of the list of a session.  The list is contiguous because the    *)
(* last row ends where the next frame is requested.  That a row does not   *)
(* end before its start needs a clock that is not set back; `timed' says   *)
(* that this is so.                                                        *)
(***************************************************************************)
Joined(timed, q) ==
  /\ timed => \A i \in 1 .. Len(q) : q[i].start <= q[i].end
  /\ \A i \in 1 .. Len(q) - 1 : q[i + 1].start = q[i].end

LastRowEndsAt(q, time) == q # <<>> => q[Len(q)].end = time

RowsInv(timed) ==
  /\ \A s \in Sessions : /\ Joined(timed, session[s].frames)
                         /\ LastRowEndsAt(session[s].frames, session[s].reqTime)
                         /\ timed => session[s].reqTime <= now
  /\ Joined(timed, rows)
  /\ \A t \in TrainIds : Joined(timed, index[t])

LEMMA JoinedEmpty == \A timed \in BOOLEAN : Joined(timed, <<>>)
BY DEF Joined

LEMMA JoinedPrefix ==
  ASSUME NEW timed \in BOOLEAN, NEW q \in Seq(Row), NEW k \in 0 .. Len(q),
         Joined(timed, q)
  PROVE  Joined(timed, SubSeq(q, 1, k))
<1> DEFINE p == SubSeq(q, 1, k)
<1>1. Len(p) = k /\ \A i \in 1 .. k : p[i] = q[i]
  BY PrefixTyped
<1> HIDE DEF p
<1> QED
  BY <1>1 DEF Joined

LEMMA JoinedAppend ==
  ASSUME NEW timed \in BOOLEAN, NEW q \in Seq(Row), NEW row \in Row,
         Joined(timed, q), LastRowEndsAt(q, row.start),
         timed => row.start <= row.end
  PROVE  Joined(timed, Append(q, row)) /\ LastRowEndsAt(Append(q, row), row.end)
<1> DEFINE p == Append(q, row)
<1>1. /\ Len(p) = Len(q) + 1
      /\ p[Len(q) + 1] = row
      /\ \A i \in 1 .. Len(q) : p[i] = q[i]
  BY AppendProperties
<1>2. Len(q) \in Nat
  OBVIOUS
<1>3. q = <<>> <=> Len(q) = 0
  BY EmptySeq
<1> HIDE DEF p
<1>4. timed => \A i \in 1 .. Len(p) : p[i].start <= p[i].end
  BY <1>1, <1>2 DEF Joined
<1>5. \A i \in 1 .. Len(p) - 1 : p[i + 1].start = p[i].end
  <2> TAKE i \in 1 .. Len(p) - 1
  <2>1. CASE i = Len(q)
    BY <2>1, <1>1, <1>2, <1>3 DEF LastRowEndsAt
  <2>2. CASE i # Len(q)
    BY <2>2, <1>1, <1>2 DEF Joined
  <2> QED
    BY <2>1, <2>2
<1> QED
  BY <1>1, <1>2, <1>4, <1>5 DEF Joined, LastRowEndsAt

LEMMA RowsKept ==
  ASSUME NEW timed \in BOOLEAN, TypeOK, RowsInv(timed),
         now' \in Nat, now' >= now,
         UNCHANGED <<rows, index>>,
         \A s \in Sessions : /\ session'[s].frames = session[s].frames
                             /\ session'[s].reqTime = session[s].reqTime
  PROVE  RowsInv(timed)'
<1>1. \A s \in Sessions : session[s].reqTime \in Nat
  BY DEF TypeOK, Session
<1>2. now \in Nat
  BY BoundsAssumption DEF TypeOK
<1>3. timed => \A s \in Sessions : session'[s].reqTime <= now'
  <2> SUFFICES ASSUME timed, NEW s \in Sessions
               PROVE  session'[s].reqTime <= now'
    OBVIOUS
  <2>1. session[s].reqTime <= now /\ session'[s].reqTime = session[s].reqTime
    BY DEF RowsInv
  <2> QED
    BY <1>1, <1>2, <2>1
<1> QED
  BY <1>3 DEF RowsInv

LEMMA RowsInvStep ==
  ASSUME NEW timed \in BOOLEAN, TypeInv, RowsInv(timed), [Next]_vars
  PROVE  RowsInv(timed)'
<1>1. /\ TypeOK
      /\ now \in Nat
      /\ session \in [Sessions -> Session]
      /\ pc \in StopPc => cs \in Sessions
      /\ cbPc \in {"check", "store", "append"} => cbSession \in Sessions
  BY BoundsAssumption
     DEF TypeInv, TypeOK, PointersValid, Allocated, Sessions
<1>2. TypeInv'
  BY TypeInvStep
<1>3. CASE HandleTrainIn
  <2>1. /\ allocated' \in Sessions
        /\ \/ session' = [session EXCEPT ![allocated'] = NewSession]
           \/ session' = [session EXCEPT ![allocated'] =
                            [@ EXCEPT !.state = "freed"]]
        /\ UNCHANGED <<now, rows>>
    BY <1>1, <1>3, BoundsAssumption DEF HandleTrainIn, TypeOK, Sessions
  <2>2. UNCHANGED index
    BY <1>3 DEF HandleTrainIn, StoragePrepare, storageVars
  <2>3. CASE session' = [session EXCEPT ![allocated'] = NewSession]
    <3>1. NewSession.frames = <<>> /\ NewSession.reqTime = now
      BY DEF NewSession, FirstRequestTime
    <3>2. /\ session'[allocated'] = NewSession
          /\ \A s \in Sessions \ {allocated'} : session'[s] = session[s]
      BY <1>1, <2>1, <2>3
    <3>3. \A s \in Sessions :
            /\ Joined(timed, session'[s].frames)
            /\ LastRowEndsAt(session'[s].frames, session'[s].reqTime)
            /\ timed => session'[s].reqTime <= now
      BY <1>1, <3>1, <3>2, JoinedEmpty DEF RowsInv, LastRowEndsAt
    <3> QED
      BY <2>1, <2>2, <3>3 DEF RowsInv
  <2>4. CASE session' = [session EXCEPT ![allocated'] =
                           [@ EXCEPT !.state = "freed"]]
    <3>1. \A s \in Sessions : /\ session'[s].frames = session[s].frames
                              /\ session'[s].reqTime = session[s].reqTime
      BY <1>1, <2>1, <2>4 DEF Session
    <3> QED
      BY <1>1, <2>1, <2>2, <3>1, RowsKept
  <2> QED
    BY <2>1, <2>3, <2>4
<1>4. CASE SetStopping
  <2>1. \A s \in Sessions : /\ session'[s].frames = session[s].frames
                            /\ session'[s].reqTime = session[s].reqTime
    BY <1>1, <1>4 DEF SetStopping, Session, StopPc, MainPc
  <2> QED
    BY <1>1, <1>4, <2>1, RowsKept DEF SetStopping, storageVars
<1>5. CASE FreeFrames
  <2>1. \A s \in Sessions : /\ session'[s].frames = session[s].frames
                            /\ session'[s].reqTime = session[s].reqTime
    BY <1>1, <1>5 DEF FreeFrames, Session, StopPc, MainPc
  <2> QED
    BY <1>1, <1>5, <2>1, RowsKept DEF FreeFrames, storageVars
<1>6. CASE FreeSession
  <2>1. \A s \in Sessions : /\ session'[s].frames = session[s].frames
                            /\ session'[s].reqTime = session[s].reqTime
    BY <1>1, <1>6 DEF FreeSession, Session, StopPc, MainPc
  <2> QED
    BY <1>1, <1>6, <2>1, RowsKept DEF FreeSession, storageVars
<1>7. CASE StoreFrame
  <2>1. \A s \in Sessions : /\ session'[s].frames = session[s].frames
                            /\ session'[s].reqTime = session[s].reqTime
    BY <1>1, <1>7 DEF StoreFrame, Session
  <2>2. UNCHANGED <<now, rows, index>>
    BY <1>7 DEF StoreFrame, StorageStoreFrame, storageVars, mainVars
  <2> QED
    BY <1>1, <2>1, <2>2, RowsKept
<1>8. CASE AppendFrame
  <2> DEFINE q == session[cbSession].frames
             row == NewRow(cbSession)
  <2>1. /\ cbSession \in Sessions
        /\ session[cbSession] \in Session
        /\ session[cbSession].frameIndex \in Nat
        /\ session[cbSession].reqTime \in Nat
        /\ q \in Seq(Row)
    BY <1>1, <1>8 DEF AppendFrame, Session
  <2>2. session[cbSession].frameIndex - 1 \in Nat
    BY <1>8, <2>1 DEF AppendFrame, TypeInv, PointersValid
  <2>3. /\ row \in Row
        /\ row.start = session[cbSession].reqTime
        /\ row.end = now
    BY <1>1, <2>1, <2>2 DEF NewRow, Row
  <2>4. /\ Joined(timed, q)
        /\ LastRowEndsAt(q, row.start)
        /\ timed => row.start <= row.end
    BY <2>1, <2>3 DEF RowsInv
  <2>5. session' = [session EXCEPT ![cbSession] =
                      Extended(session[cbSession], Append(q, row), now)]
    BY <1>8 DEF AppendFrame, NextRequestTime, Extended
  <2> HIDE DEF row
  <2>6. Append(q, row) \in Seq(Row)
    BY <2>1, <2>3
  <2> DEFINE next == Extended(session[cbSession], Append(q, row), now)
  <2>10. next.frames = Append(q, row) /\ next.reqTime = now
    <3>1. now \in Nat /\ session[cbSession] \in Session
      BY <1>1, <2>1
    <3> HIDE DEF q
    <3> QED
      BY <3>1, <2>6, ExtendedTyped, ZenonT(40)
  <2> HIDE DEF next
  <2>7. /\ session'[cbSession] = next
        /\ \A s \in Sessions \ {cbSession} : session'[s] = session[s]
    BY <1>1, <2>1, <2>5 DEF next
  <2>8. Joined(timed, Append(q, row)) /\ LastRowEndsAt(Append(q, row), now)
    BY <2>1, <2>3, <2>4, JoinedAppend
  <2>9. UNCHANGED <<now, rows, index>>
    BY <1>8 DEF AppendFrame, storageVars, mainVars
  <2>11. \A s \in Sessions :
           /\ Joined(timed, session'[s].frames)
           /\ LastRowEndsAt(session'[s].frames, session'[s].reqTime)
           /\ timed => session'[s].reqTime <= now
    <3> TAKE s \in Sessions
    <3>1. CASE s = cbSession
      BY <1>1, <3>1, <2>7, <2>8, <2>10
    <3>2. CASE s # cbSession
      BY <3>2, <2>7 DEF RowsInv
    <3> QED
      BY <3>1, <3>2
  <2> QED
    BY <2>9, <2>11 DEF RowsInv
<1>9. CASE IndexCopyFrames
  <2>1. /\ cs \in Sessions
        /\ session[cs].frames \in Seq(Row)
        /\ framesCnt \in Nat
    BY <1>1, <1>9 DEF IndexCopyFrames, TypeInv, TypeOK, PointersValid,
                       StopPc, MainPc, Session
  <2>2. Joined(timed, SubSeq(session[cs].frames, 1, Found))
    BY <2>1, FoundIsPrefix, JoinedPrefix DEF RowsInv
  <2> QED
    BY <1>9, <2>2 DEF IndexCopyFrames, storageVars, RowsInv
<1>10. CASE IndexOpen
  <2>1. UNCHANGED <<session, now, rows>>
    BY <1>10 DEF IndexOpen
  <2>2. \A t \in TrainIds : index'[t] \in {index[t], <<>>}
    BY <1>1, <1>10 DEF IndexOpen, StorageOpenIndex, storageVars, TypeOK,
                       StorageTypeOK
  <2> QED
    BY <2>1, <2>2, JoinedEmpty DEF RowsInv
<1>11. CASE IndexWrite
  <2>1. UNCHANGED <<session, now, rows>>
    BY <1>11 DEF IndexWrite
  <2>2. PICK k \in 0 .. Len(rows) :
          \A t \in TrainIds : index'[t] \in {index[t], SubSeq(rows, 1, k)}
    BY <1>1, <1>11 DEF IndexWrite, StorageWriteIndex, TypeOK, StorageTypeOK
  <2>3. Joined(timed, SubSeq(rows, 1, k))
    BY <1>1, JoinedPrefix DEF RowsInv, TypeOK
  <2> QED
    BY <2>1, <2>2, <2>3 DEF RowsInv
<1>12. CASE Tick
  BY <1>1, <1>12, RowsKept DEF Tick, mainVars, storageVars
<1>13. CASE RaspirawSetUserData
  BY <1>1, <1>13, RowsKept DEF RaspirawSetUserData, mainVars, storageVars
<1>14. CASE RaspirawStartSensor
  BY <1>1, <1>14, RowsKept DEF RaspirawStartSensor, mainVars, storageVars
<1>15. CASE HandleTrainLeave
  BY <1>1, <1>15, RowsKept DEF HandleTrainLeave, mainVars, storageVars
<1>16. CASE HandleKey
  BY <1>1, <1>16, RowsKept DEF HandleKey, mainVars, storageVars
<1>17. CASE RaspirawStop
  BY <1>1, <1>17, RowsKept DEF RaspirawStop, mainVars, storageVars
<1>18. CASE IndexReadSize
  BY <1>1, <1>18, RowsKept DEF IndexReadSize, mainVars, storageVars
<1>19. CASE FreeTrainId
  BY <1>1, <1>19, RowsKept DEF FreeTrainId, mainVars, storageVars
<1>20. CASE Exit
  BY <1>1, <1>20, RowsKept DEF Exit, mainVars, storageVars
<1>21. CASE BufferReturned
  BY <1>1, <1>21, RowsKept DEF BufferReturned, mainVars, storageVars
<1>22. CASE EnterHandler
  BY <1>1, <1>22, RowsKept DEF EnterHandler, mainVars, storageVars
<1>23. CASE CheckStopping
  BY <1>1, <1>23, RowsKept DEF CheckStopping, mainVars, storageVars
<1>24. CASE HandlerFault
  BY <1>1, <1>24, RowsKept DEF HandlerFault, mainVars, storageVars
<1>25. CASE UNCHANGED vars
  BY <1>1, <1>25, RowsKept DEF vars, mainVars, storageVars
<1> QED
  BY <1>3, <1>4, <1>5, <1>6, <1>7, <1>8, <1>9, <1>10, <1>11, <1>12, <1>13, <1>14, <1>15, <1>16, <1>17, <1>18, <1>19, <1>20, <1>21, <1>22, <1>23, <1>24, <1>25
     DEF Next, MainStep, CallbackStep, Terminated

LEMMA RowsInvInit ==
  ASSUME NEW timed \in BOOLEAN, Init
  PROVE  RowsInv(timed)
BY JoinedEmpty DEF Init, StorageInit, RowsInv, UnusedSession, LastRowEndsAt

LEMMA RowsContiguous == RowsInv(TRUE) => PublishedRowsContiguous
BY DEF RowsInv, Joined, PublishedRowsContiguous, Contiguous

(***************************************************************************)
(* However the two threads interleave and whatever the storage refuses to  *)
(* store, the rows of every published index follow each other without a    *)
(* gap or an overlap.                                                      *)
(***************************************************************************)
THEOREM PublishedContiguous == Spec => []PublishedRowsContiguous
<1>1. Init => TypeInv /\ RowsInv(TRUE)
  BY TypeInvInit, RowsInvInit
<1>2. (TypeInv /\ RowsInv(TRUE)) /\ [Next]_vars => (TypeInv /\ RowsInv(TRUE))'
  BY TypeInvStep, RowsInvStep
<1> QED
  BY <1>1, <1>2, RowsContiguous, PTL DEF Spec
-----------------------------------------------------------------------------
(***************************************************************************)
(* One writer.  The property alone is not inductive.  What makes it so is  *)
(* that the directory of every live session exists, because                *)
(* storage_prepare refuses a directory that does, and lpx-control never    *)
(* removes one.                                                            *)
(***************************************************************************)
LiveHasDirectory ==
  \A s \in Sessions : Live(s) => session[s].train \in dirs

WriterInv == LiveHasDirectory /\ OneWriterPerDirectory

(* A step after which each live session was live before, in its directory,
   keeps the invariant. *)
NoNewWriter ==
  /\ dirs \subseteq dirs'
  /\ \A s \in Sessions :
       session'[s].state = "live" => /\ session[s].state = "live"
                                     /\ session'[s].train = session[s].train

LEMMA NoNewWriterKeeps == WriterInv /\ NoNewWriter => WriterInv'
BY DEF WriterInv, LiveHasDirectory, OneWriterPerDirectory, NoNewWriter, Live

(* Only a train-in event makes a session live, and it makes one. *)
LEMMA TrainInKeeps == TypeInv /\ WriterInv /\ HandleTrainIn => WriterInv'
<1> SUFFICES ASSUME TypeInv, WriterInv, HandleTrainIn PROVE WriterInv'
  OBVIOUS
<1>1. /\ session \in [Sessions -> Session]
      /\ allocated' \in Sessions
  BY BoundsAssumption DEF TypeInv, TypeOK, HandleTrainIn, Sessions
<1>2. PICK res \in StorageCodes, mutexOk \in BOOLEAN :
        /\ StoragePrepare(now, res)
        /\ \/ /\ res = LPX_SUCCESS
              /\ session' = [session EXCEPT ![allocated'] = NewSession]
           \/ session' = [session EXCEPT ![allocated'].state = "freed"]
  BY DEF HandleTrainIn
<1>3. CASE /\ res = LPX_SUCCESS
           /\ session' = [session EXCEPT ![allocated'] = NewSession]
  <2>1. now \notin dirs /\ dirs' = dirs \cup {now}
    BY <1>2, <1>3
       DEF StoragePrepare, LPX_SUCCESS, LPX_IO, STRG_EXISTS
  <2>2. NewSession.train = now
    BY DEF NewSession
  <2>3. /\ session'[allocated'] = NewSession
        /\ \A s \in Sessions \ {allocated'} : session'[s] = session[s]
    BY <1>1, <1>3
  <2>4. \A s \in Sessions \ {allocated'} :
          session'[s].state = "live" => session'[s].train \in dirs
    BY <2>3 DEF WriterInv, LiveHasDirectory, Live
  <2> HIDE DEF NewSession
  <2>5. LiveHasDirectory'
    BY <2>1, <2>2, <2>3, <2>4 DEF LiveHasDirectory, Live
  <2>6. ASSUME NEW s1 \in Sessions, NEW s2 \in Sessions,
               session'[s1].state = "live", session'[s2].state = "live",
               session'[s1].train = session'[s2].train
        PROVE  s1 = s2
    <3>1. CASE s1 # allocated' /\ s2 # allocated'
      BY <2>3, <2>6, <3>1 DEF WriterInv, OneWriterPerDirectory, Live
    <3>2. CASE s1 = allocated' /\ s2 # allocated'
      BY <2>1, <2>2, <2>3, <2>4, <2>6, <3>2
    <3>3. CASE s1 # allocated' /\ s2 = allocated'
      BY <2>1, <2>2, <2>3, <2>4, <2>6, <3>3
    <3>4. QED
      BY <3>1, <3>2, <3>3
  <2>7. OneWriterPerDirectory'
    BY <2>6 DEF OneWriterPerDirectory, Live
  <2>8. QED
    BY <2>5, <2>7 DEF WriterInv
<1>4. CASE session' = [session EXCEPT ![allocated'].state = "freed"]
  <2>1. dirs \subseteq dirs'
    BY <1>2 DEF StoragePrepare, storageVars
  <2>2. session'[allocated'].state = "freed"
    BY <1>1, <1>4 DEF Session
  <2>3. \A s \in Sessions \ {allocated'} : session'[s] = session[s]
    BY <1>1, <1>4
  <2>4. NoNewWriter
    BY <2>1, <2>2, <2>3 DEF NoNewWriter
  <2>5. QED
    BY <2>4, NoNewWriterKeeps
<1>5. QED
  BY <1>2, <1>3, <1>4

(* All that the other steps do to the session they are about *)
LEMMA SessionFields ==
  ASSUME TypeInv, [Next]_vars, ~HandleTrainIn, NEW s \in Sessions
  PROVE  /\ session'[s].train = session[s].train
         /\ \/ session'[s].state = session[s].state
            \/ FreeSession /\ s = cs /\ session'[s].state = "freed"
         /\ \/ session'[s].stopping = session[s].stopping
            \/ SetStopping /\ s = cs
<1>1. session \in [Sessions -> Session] /\ session[s] \in Session
  BY DEF TypeInv, TypeOK
<1>2. CASE UNCHANGED session
  BY <1>2
<1>3. CASE SetStopping
  <2>1. CASE s = cs
    <3>1. session'[s] = [session[s] EXCEPT !.stopping = TRUE]
      BY <1>1, <1>3, <2>1 DEF SetStopping
    <3> QED
      BY <1>1, <1>3, <2>1, <3>1 DEF Session
  <2>2. CASE s # cs
    BY <1>1, <1>3, <2>2 DEF SetStopping
  <2> QED
    BY <2>1, <2>2
<1>4. CASE FreeFrames
  <2>1. session'[s] \in {session[s], [session[s] EXCEPT !.listLive = FALSE]}
    BY <1>1, <1>4 DEF FreeFrames
  <2> QED
    BY <1>1, <2>1 DEF Session
<1>5. CASE FreeSession
  <2>1. CASE s = cs
    <3>1. session'[s] = [session[s] EXCEPT !.state = "freed"]
      BY <1>1, <1>5, <2>1 DEF FreeSession
    <3> QED
      BY <1>1, <1>5, <2>1, <3>1 DEF Session
  <2>2. CASE s # cs
    BY <1>1, <1>5, <2>2 DEF FreeSession
  <2> QED
    BY <2>1, <2>2
<1>6. CASE StoreFrame
  <2>1. session' = [session EXCEPT ![cbSession] =
                      Counted(session[cbSession], session[cbSession].frameIndex + 1)]
    BY <1>6 DEF StoreFrame, Counted
  <2>2. CASE s = cbSession
    <3>1. session'[s] = Counted(session[s], session[s].frameIndex + 1)
      BY <1>1, <2>1, <2>2
    <3> QED
      BY <1>1, <3>1 DEF Counted, Session
  <2>3. CASE s # cbSession
    BY <1>1, <2>1, <2>3
  <2> QED
    BY <2>2, <2>3
<1>7. CASE AppendFrame
  <2>1. session' = [session EXCEPT ![cbSession] =
                      Extended(session[cbSession],
                               Append(session[cbSession].frames, NewRow(cbSession)),
                               NextRequestTime)]
    BY <1>7 DEF AppendFrame, Extended
  <2>2. CASE s = cbSession
    <3>1. session'[s] = Extended(session[s], Append(session[s].frames, NewRow(s)),
                                 NextRequestTime)
      BY <1>1, <2>1, <2>2
    <3> QED
      BY <1>1, <3>1 DEF Extended, Session
  <2>3. CASE s # cbSession
    BY <1>1, <2>1, <2>3
  <2> QED
    BY <2>2, <2>3
<1>8. CASE ~(SetStopping \/ FreeFrames \/ FreeSession \/ StoreFrame \/ AppendFrame)
  <2>1. UNCHANGED session
    BY <1>8
    DEF Next, MainStep, CallbackStep, HandleTrainLeave, HandleKey,
        RaspirawSetUserData, RaspirawStartSensor, RaspirawStop, IndexReadSize,
        IndexCopyFrames, IndexOpen, IndexWrite, FreeTrainId, Exit,
        BufferReturned, EnterHandler, CheckStopping, HandlerFault, Tick,
        Terminated, vars
  <2> QED
    BY <2>1
<1> QED
  BY <1>3, <1>4, <1>5, <1>6, <1>7, <1>8

LEMMA WriterInvStep == TypeInv /\ WriterInv /\ [Next]_vars => WriterInv'
<1> SUFFICES ASSUME TypeInv, WriterInv, [Next]_vars PROVE WriterInv'
  OBVIOUS
<1>1. CASE HandleTrainIn
  BY <1>1, TrainInKeeps
<1>2. CASE ~HandleTrainIn
  <2>1. dirs \subseteq dirs'
    BY <1>2
    DEF Next, MainStep, CallbackStep, HandleTrainLeave, HandleKey,
        RaspirawSetUserData, RaspirawStartSensor, SetStopping, RaspirawStop,
        IndexReadSize, IndexCopyFrames, IndexOpen, StorageOpenIndex,
        IndexWrite, StorageWriteIndex, FreeFrames, FreeSession, FreeTrainId,
        Exit, BufferReturned, EnterHandler, CheckStopping, HandlerFault,
        StoreFrame, StorageStoreFrame, AppendFrame, Tick, Terminated, vars,
        storageVars
  <2>2. \A s \in Sessions :
          session'[s].state = "live" => /\ session[s].state = "live"
                                        /\ session'[s].train = session[s].train
    BY <1>2, SessionFields
  <2> QED
    BY <2>1, <2>2, NoNewWriterKeeps DEF NoNewWriter
<1> QED
  BY <1>1, <1>2

LEMMA WriterInvInit == Init => WriterInv
BY DEF Init, WriterInv, LiveHasDirectory, OneWriterPerDirectory, Live,
       UnusedSession

(***************************************************************************)
(* No two sessions that may still store frames share a directory, however  *)
(* many trains come within one reading of the clock, and however sessions  *)
(* are superseded, fail to start or are stopped late.                      *)
(***************************************************************************)
THEOREM OneWriter == Spec => []OneWriterPerDirectory
<1>1. Init => TypeInv /\ WriterInv
  BY TypeInvInit, WriterInvInit
<1>2. (TypeInv /\ WriterInv) /\ [Next]_vars => (TypeInv /\ WriterInv)'
  BY TypeInvStep, WriterInvStep
<1>3. WriterInv => OneWriterPerDirectory
  BY DEF WriterInv
<1>4. QED
  BY <1>1, <1>2, <1>3, PTL DEF Spec
-----------------------------------------------------------------------------
(***************************************************************************)
(* SharedStorage: what a deletion that was answered Ok has done, and what  *)
(* is left of the promises of lpx-control while the server deletes.        *)
(***************************************************************************)

ServerTypes ==
  /\ svPc \in {"idle", "list", "unlink", "rmdir"}
  /\ requested \subseteq TrainIds
  /\ targets \subseteq requested
  /\ deleting \in TrainIds
  /\ doomed \subseteq Nat \cup {INDEX_CSV}
  /\ answer \in {"none", "ok", "error"}
  /\ requests \in 0 .. MaxRequests
  /\ leftover \subseteq TrainIds \X (Nat \cup {INDEX_CSV})

(* What has not been unlinked is there, because only the server unlinks. *)
LeftoverStored == \A p \in leftover : p[2] \in FileNames(p[1])

(* While the server is at work it is listed, or its directory is still to
   be. *)
LeftoverPlanned ==
  svPc # "idle" =>
    \A p \in leftover : \/ p[1] \in targets
                        \/ svPc = "unlink" /\ p[1] = deleting /\ p[2] \in doomed

UnlinkedInv == LeftoverStored /\ LeftoverPlanned /\ OkMeansUnlinked

SharedInv == TypeInv /\ RowsInv(TRUE) /\ ServerTypes /\ UnlinkedInv
-----------------------------------------------------------------------------
(* The capture process *)

(* It removes no file. *)
LEMMA CaptureKeepsFiles ==
  ASSUME TypeInv, [Next]_vars, NEW t \in TrainIds
  PROVE  FileNames(t) \subseteq FileNames(t)'
<1>1. CASE UNCHANGED storageVars
  BY <1>1 DEF FileNames, storageVars
<1>2. CASE HandleTrainIn
  <2>1. UNCHANGED <<files, indexed>>
    BY <1>2 DEF HandleTrainIn, StoragePrepare, storageVars
  <2> QED
    BY <2>1 DEF FileNames
<1>3. CASE StoreFrame
  <2>1. PICK u, k, res : StorageStoreFrame(u, k, res)
    BY <1>3 DEF StoreFrame
  <2>2. files \in [TrainIds -> SUBSET Nat]
    BY DEF TypeInv, TypeOK, StorageTypeOK
  <2>3. files[t] \subseteq files'[t] /\ indexed' = indexed
    BY <2>1, <2>2 DEF StorageStoreFrame, storageVars
  <2> QED
    BY <2>3 DEF FileNames
<1>4. CASE IndexOpen
  <2>1. PICK u, res : StorageOpenIndex(u, res)
    BY <1>4 DEF IndexOpen
  <2>2. files' = files /\ indexed \subseteq indexed'
    BY <2>1 DEF StorageOpenIndex, storageVars
  <2> QED
    BY <2>2 DEF FileNames
<1>5. CASE IndexWrite
  <2>1. UNCHANGED <<files, indexed>>
    BY <1>5 DEF IndexWrite, StorageWriteIndex
  <2> QED
    BY <2>1 DEF FileNames
<1>6. ASSUME Next, ~HandleTrainIn, ~StoreFrame, ~IndexOpen, ~IndexWrite
      PROVE  UNCHANGED storageVars
  <2>1. CASE HandleTrainLeave \/ HandleKey
    BY <2>1 DEF HandleTrainLeave, HandleKey
  <2>2. CASE MainStep
    BY <2>2, <1>6
       DEF MainStep, RaspirawSetUserData, RaspirawStartSensor, SetStopping,
           RaspirawStop, IndexReadSize, IndexCopyFrames, FreeFrames,
           FreeSession, FreeTrainId, Exit
  <2>3. CASE BufferReturned \/ CallbackStep
    BY <2>3, <1>6
       DEF BufferReturned, CallbackStep, EnterHandler, CheckStopping,
           HandlerFault, AppendFrame
  <2>4. CASE Tick \/ Terminated
    BY <2>4 DEF Tick, Terminated, vars
  <2> QED
    BY <1>6, <2>1, <2>2, <2>3, <2>4 DEF Next
<1> QED
  BY <1>1, <1>2, <1>3, <1>4, <1>5, <1>6 DEF vars

LEMMA CaptureStepKeeps ==
  ASSUME SharedInv, [Next]_vars, UNCHANGED serverVars
  PROVE  SharedInv'
<1>1. TypeInv' /\ RowsInv(TRUE)'
  BY TypeInvStep, RowsInvStep DEF SharedInv
<1>2. ServerTypes'
  BY DEF SharedInv, ServerTypes, serverVars
<1>3. LeftoverStored'
  <2>1. \A t \in TrainIds : FileNames(t) \subseteq FileNames(t)'
    BY CaptureKeepsFiles DEF SharedInv
  <2>2. \A p \in leftover : p[1] \in TrainIds
    BY DEF SharedInv, ServerTypes
  <2> QED
    BY <2>1, <2>2 DEF SharedInv, UnlinkedInv, LeftoverStored, serverVars
<1>4. LeftoverPlanned' /\ OkMeansUnlinked'
  BY DEF SharedInv, UnlinkedInv, LeftoverPlanned, OkMeansUnlinked, serverVars
<1> QED
  BY <1>1, <1>2, <1>3, <1>4 DEF SharedInv, UnlinkedInv
-----------------------------------------------------------------------------
(* The server *)

(* What a step of the server must leave right in the storage, so that what
   is known of the capture stays true *)
StorageStep ==
  /\ dirs' \subseteq dirs
  /\ files' \in [TrainIds -> SUBSET Nat]
  /\ indexed' \subseteq indexed
  /\ index' \in [TrainIds -> Seq(Row)]
  /\ \A t \in TrainIds : index'[t] = index[t] \/ index'[t] = <<>>

LEMMA StorageStepKeeps ==
  ASSUME SharedInv, StorageStep, UNCHANGED captureOnlyVars
  PROVE  TypeInv' /\ RowsInv(TRUE)'
<1> USE DEF captureOnlyVars, mainVars, cbVars
<1>1. TypeOK'
  BY DEF SharedInv, TypeInv, TypeOK, StorageTypeOK, StorageStep
<1>2. PointersValid'
  BY DEF SharedInv, TypeInv, PointersValid, Allocated
<1>3. \A t \in TrainIds : Joined(TRUE, index'[t])
  BY JoinedEmpty DEF SharedInv, RowsInv, StorageStep
<1>4. RowsInv(TRUE)'
  BY <1>3 DEF SharedInv, RowsInv
<1> QED
  BY <1>1, <1>2, <1>4 DEF TypeInv

LEMMA UnchangedStorage ==
  ASSUME SharedInv, UNCHANGED storageVars
  PROVE  StorageStep /\ \A t : FileNames(t)' = FileNames(t)
BY DEF SharedInv, TypeInv, TypeOK, StorageTypeOK, StorageStep, storageVars,
       FileNames

LEMMA NamesTyped ==
  ASSUME SharedInv, NEW t \in TrainIds
  PROVE  FileNames(t) \subseteq Nat \cup {INDEX_CSV}
BY DEF SharedInv, TypeInv, TypeOK, StorageTypeOK, FileNames

LEMMA AcceptKeeps ==
  ASSUME SharedInv, NEW ts \in SUBSET TrainIds, Accept(ts)
  PROVE  StorageStep /\ ServerTypes' /\ UnlinkedInv'
<1>1. StorageStep /\ \A t : FileNames(t)' = FileNames(t)
  BY UnchangedStorage DEF Accept
<1>2. \A p \in leftover' : \E t \in ts : p \in {t} \X FileNames(t)
  BY DEF Accept
<1>3. \A p \in leftover' : p[1] \in ts /\ p[2] \in FileNames(p[1])
  BY <1>2
<1>4. leftover' \subseteq TrainIds \X (Nat \cup {INDEX_CSV})
  BY <1>2, NamesTyped
<1>5. ServerTypes'
  BY <1>4, MaxRequestsAssumption DEF SharedInv, ServerTypes, Accept
<1>6. UnlinkedInv'
  BY <1>1, <1>3
     DEF UnlinkedInv, LeftoverStored, LeftoverPlanned, OkMeansUnlinked, Accept
<1> QED
  BY <1>1, <1>5, <1>6

LEMMA ListKeeps ==
  ASSUME SharedInv, ListDirectory
  PROVE  StorageStep /\ ServerTypes' /\ UnlinkedInv'
<1>1. StorageStep /\ \A t : FileNames(t)' = FileNames(t)
  BY UnchangedStorage DEF ListDirectory
<1>2. LeftoverStored'
  BY <1>1 DEF SharedInv, UnlinkedInv, LeftoverStored, ListDirectory
<1>3. PICK t \in targets :
        \/ /\ targets' = targets \ {t}
           /\ deleting' = t
           /\ doomed' = Listing(t)
           /\ svPc' = "unlink"
           /\ UNCHANGED answer
        \/ /\ Finish("error")
           /\ UNCHANGED <<targets, deleting, doomed>>
  BY DEF ListDirectory
<1>4. t \in TrainIds /\ Listing(t) = FileNames(t)
  BY DEF SharedInv, ServerTypes, Listing
<1>5. ServerTypes'
  BY <1>3, <1>4, NamesTyped DEF SharedInv, ServerTypes, ListDirectory, Finish
<1>6. LeftoverPlanned' /\ OkMeansUnlinked'
  BY <1>3, <1>4
     DEF SharedInv, UnlinkedInv, LeftoverStored, LeftoverPlanned,
         OkMeansUnlinked, ListDirectory, Finish
<1> QED
  BY <1>1, <1>2, <1>5, <1>6 DEF UnlinkedInv

LEMMA UnlinkKeeps ==
  ASSUME SharedInv, Unlink
  PROVE  StorageStep /\ ServerTypes' /\ UnlinkedInv'
<1>1. PICK f \in doomed :
        \/ /\ doomed' = doomed \ {f}
           /\ leftover' = leftover \ {<<deleting, f>>}
           /\ files' = [files EXCEPT ![deleting] = @ \ {f}]
           /\ IF f = INDEX_CSV
                THEN /\ indexed' = indexed \ {deleting}
                     /\ index' = [index EXCEPT ![deleting] = <<>>]
                ELSE UNCHANGED <<indexed, index>>
           /\ UNCHANGED <<svPc, answer>>
        \/ /\ Finish("error")
           /\ UNCHANGED <<doomed, leftover, files, indexed, index>>
  BY DEF Unlink
<1>2. CASE Finish("error") /\ UNCHANGED <<doomed, leftover, files, indexed, index>>
  <2>1. UNCHANGED storageVars
    BY <1>2 DEF Unlink, storageVars
  <2>2. StorageStep /\ \A t : FileNames(t)' = FileNames(t)
    BY <2>1, UnchangedStorage
  <2>3. ServerTypes'
    BY <1>2 DEF SharedInv, ServerTypes, Unlink, Finish
  <2>4. UnlinkedInv'
    BY <1>2, <2>2
       DEF SharedInv, UnlinkedInv, LeftoverStored, LeftoverPlanned,
           OkMeansUnlinked, Finish
  <2> QED
    BY <2>2, <2>3, <2>4
<1>3. CASE /\ doomed' = doomed \ {f}
           /\ leftover' = leftover \ {<<deleting, f>>}
           /\ files' = [files EXCEPT ![deleting] = @ \ {f}]
           /\ IF f = INDEX_CSV
                THEN /\ indexed' = indexed \ {deleting}
                     /\ index' = [index EXCEPT ![deleting] = <<>>]
                ELSE UNCHANGED <<indexed, index>>
           /\ UNCHANGED <<svPc, answer>>
  <2>1. /\ files \in [TrainIds -> SUBSET Nat]
        /\ index \in [TrainIds -> Seq(Row)]
        /\ deleting \in TrainIds
    BY DEF SharedInv, TypeInv, TypeOK, StorageTypeOK, ServerTypes
  <2>2. <<>> \in Seq(Row)
    OBVIOUS
  <2>3. StorageStep
    BY <1>3, <2>1, <2>2 DEF Unlink, StorageStep
  <2>4. ServerTypes'
    BY <1>3 DEF SharedInv, ServerTypes, Unlink
  <2>5. ASSUME NEW t \in TrainIds, NEW n \in FileNames(t), <<t, n>> # <<deleting, f>>
        PROVE  n \in FileNames(t)'
    <3>1. CASE t = deleting
      BY <1>3, <2>1, <2>5, <3>1 DEF FileNames
    <3>2. CASE t # deleting
      BY <1>3, <2>1, <2>5, <3>2 DEF FileNames
    <3> QED
      BY <3>1, <3>2
  <2>6. \A p \in leftover : p = <<p[1], p[2]>> /\ p[1] \in TrainIds
    BY DEF SharedInv, ServerTypes
  <2>7. LeftoverStored'
    BY <1>3, <2>5, <2>6 DEF SharedInv, UnlinkedInv, LeftoverStored
  <2>8. LeftoverPlanned' /\ OkMeansUnlinked'
    BY <1>3, <2>6
       DEF SharedInv, UnlinkedInv, LeftoverPlanned, OkMeansUnlinked, Unlink
  <2> QED
    BY <2>3, <2>4, <2>7, <2>8 DEF UnlinkedInv
<1> QED
  BY <1>1, <1>2, <1>3

LEMMA OtherStepsKeep ==
  ASSUME SharedInv, UnlinkedAll \/ RemoveDirectory \/ AnswerOk
  PROVE  StorageStep /\ ServerTypes' /\ UnlinkedInv'
<1>1. /\ UNCHANGED <<files, indexed, index, requested, targets, deleting,
                     doomed, requests, leftover>>
      /\ dirs' \subseteq dirs
  BY DEF UnlinkedAll, RemoveDirectory, AnswerOk, storageVars
<1>2. StorageStep
  BY <1>1 DEF SharedInv, TypeInv, TypeOK, StorageTypeOK, StorageStep
<1>3. LeftoverStored'
  BY <1>1 DEF SharedInv, UnlinkedInv, LeftoverStored, FileNames
<1>4. /\ svPc' \in {"idle", "list", "rmdir"}
      /\ svPc' = "idle" => answer' = "ok" /\ targets = {} /\ svPc = "list"
      /\ svPc' # "idle" => answer' = answer
      /\ svPc = "unlink" => doomed = {}
      /\ svPc # "idle"
      /\ answer' \in {answer, "ok"}
  BY DEF UnlinkedAll, RemoveDirectory, AnswerOk, Finish, AfterFailedRmdir
<1>5. ServerTypes'
  BY <1>1, <1>4 DEF SharedInv, ServerTypes
<1>6. LeftoverPlanned' /\ OkMeansUnlinked'
  BY <1>1, <1>4 DEF SharedInv, UnlinkedInv, LeftoverPlanned, OkMeansUnlinked
<1> QED
  BY <1>2, <1>3, <1>5, <1>6 DEF UnlinkedInv

LEMMA ServerKeeps ==
  ASSUME SharedInv, Server, UNCHANGED captureOnlyVars
  PROVE  SharedInv'
<1>1. dirs \subseteq TrainIds
  BY DEF SharedInv, TypeInv, TypeOK, StorageTypeOK
<1>2. StorageStep /\ ServerTypes' /\ UnlinkedInv'
  <2>1. CASE ClearRequest
    BY <1>1, <2>1, AcceptKeeps DEF ClearRequest
  <2>2. CASE DeleteRequest
    <3>1. PICK t \in dirs \cap indexed : Accept({t})
      BY <2>2 DEF DeleteRequest
    <3>2. {t} \in SUBSET TrainIds
      BY <1>1, <3>1
    <3> QED
      BY <3>1, <3>2, AcceptKeeps
  <2>3. CASE ServerStep
    BY <2>3, ListKeeps, UnlinkKeeps, OtherStepsKeep DEF ServerStep
  <2> QED
    BY <2>1, <2>2, <2>3 DEF Server
<1> QED
  BY <1>2, StorageStepKeeps DEF SharedInv
-----------------------------------------------------------------------------
LEMMA SharedInvInit == SharedInit => SharedInv
<1> SUFFICES ASSUME SharedInit PROVE SharedInv
  OBVIOUS
<1>1. TypeInv /\ RowsInv(TRUE)
  BY TypeInvInit, RowsInvInit DEF SharedInit
<1>2. ServerTypes
  BY TrainIdsAssumption, BoundsAssumption, MaxRequestsAssumption
     DEF SharedInit, ServerTypes
<1>3. UnlinkedInv
  BY DEF SharedInit, UnlinkedInv, LeftoverStored, LeftoverPlanned,
         OkMeansUnlinked
<1> QED
  BY <1>1, <1>2, <1>3 DEF SharedInv

LEMMA SharedInvStep == SharedInv /\ [SharedNext]_allVars => SharedInv'
<1> SUFFICES ASSUME SharedInv, [SharedNext]_allVars PROVE SharedInv'
  OBVIOUS
<1>1. CASE Next /\ UNCHANGED serverVars
  BY <1>1, CaptureStepKeeps
<1>2. CASE Server /\ UNCHANGED captureOnlyVars
  BY <1>2, ServerKeeps
<1>3. CASE UNCHANGED allVars
  <2>1. UNCHANGED vars /\ UNCHANGED serverVars
    BY <1>3 DEF allVars
  <2> QED
    BY <2>1, CaptureStepKeeps
<1> QED
  BY <1>1, <1>2, <1>3 DEF SharedNext

LEMMA SharedInvariant == SharedSpec => []SharedInv
BY SharedInvInit, SharedInvStep, PTL DEF SharedSpec

(***************************************************************************)
(* The variables of both programs keep their types, also when the server   *)
(* removes files and directories while the capture is at work in them.     *)
(***************************************************************************)
THEOREM SharedTypeCorrect == SharedSpec => []SharedTypeOK
<1>1. SharedInv => SharedTypeOK
  BY DEF SharedInv, TypeInv, ServerTypes, SharedTypeOK
<1> QED
  BY <1>1, SharedInvariant, PTL

(***************************************************************************)
(* A deletion that is answered Ok has unlinked every file that was there   *)
(* when it was accepted, however the frames and the index the capture      *)
(* stores meanwhile fall between its system calls.                         *)
(***************************************************************************)
THEOREM OkUnlinked == SharedSpec => []OkMeansUnlinked
<1>1. SharedInv => OkMeansUnlinked
  BY DEF SharedInv, UnlinkedInv
<1> QED
  BY <1>1, SharedInvariant, PTL

(***************************************************************************)
(* Deletions leave no index half: its rows follow each other without a gap *)
(* also when it is unlinked while it is being written.                     *)
(***************************************************************************)
THEOREM ContiguousWithDeletions == SharedSpec => []PublishedRowsContiguous
<1>1. SharedInv => PublishedRowsContiguous
  BY RowsContiguous DEF SharedInv
<1> QED
  BY <1>1, SharedInvariant, PTL
-----------------------------------------------------------------------------
(***************************************************************************)
(* Restart                                                                 *)
(*                                                                         *)
(* What an earlier run has left cannot be touched because a session gets a *)
(* directory that did not exist, and the two threads write to directories  *)
(* of live sessions only.  A stray buffer needs a sensor that streams when *)
(* main has not stored a session, and main leaves its loop only when it    *)
(* has stopped the last one.                                               *)
(***************************************************************************)

Starting == {"start_raspiraw", "start_sensor"}

(* The main thread works at a session that has not been freed. *)
StopLive == pc \in StopPc => Live(cs)

(* No session has a directory that an earlier run has left. *)
BehindInv ==
  /\ leftBehind \subseteq dirs
  /\ \A s \in Sessions : Live(s) => session[s].train \notin leftBehind

(* As long as nothing has failed, the sensor streams for capture_session,
   which is the next that will be stopped. *)
SensorInv ==
  /\ pc \in Starting => ~session[cs].stopping
  /\ sensorOn /\ ~failed =>
       /\ captureSession # NULL
       /\ pc \in {"poll"} \cup Starting =>
            Live(captureSession) /\ ~session[captureSession].stopping
       /\ pc \in {"poll", "set_stopping", "raspiraw_stop"} \cup Starting
  /\ fault = "wild_session" => failed

RestartInv ==
  TypeInv /\ RestartTypeOK /\ StopLive /\ BehindInv /\ SensorInv
-----------------------------------------------------------------------------
(* The steps of Capture *)

LEMMA CaptureNext ==
  ASSUME CaptureStep
  PROVE  Next /\ [Next]_vars /\ UNCHANGED faultVars
BY DEF CaptureStep

(* A train-in event makes a session live that was in use nowhere. *)
LEMMA TrainIn ==
  ASSUME TypeInv, HandleTrainIn
  PROVE  /\ allocated' \in Sessions /\ allocated' \notin Allocated
         /\ \A s \in Sessions \ {allocated'} : session'[s] = session[s]
         /\ \/ /\ session'[allocated'] = NewSession
               /\ pc' = "start_raspiraw" /\ cs' = allocated'
               /\ now \notin dirs /\ dirs' = dirs \cup {now}
               /\ UNCHANGED <<files, indexed, index>>
            \/ /\ session'[allocated'].state = "freed"
               /\ UNCHANGED <<pc, cs>>
               /\ dirs \subseteq dirs'
               /\ UNCHANGED <<files, indexed, index>>
<1>1. /\ session \in [Sessions -> Session]
      /\ allocated' \in Sessions /\ allocated' \notin Allocated
  BY BoundsAssumption
     DEF TypeInv, TypeOK, HandleTrainIn, Sessions, Allocated
<1>2. PICK res \in StorageCodes, mutexOk \in BOOLEAN :
        /\ StoragePrepare(now, res)
        /\ \/ /\ res = LPX_SUCCESS
              /\ session' = [session EXCEPT ![allocated'] = NewSession]
              /\ pc' = "start_raspiraw" /\ cs' = allocated'
           \/ /\ session' = [session EXCEPT ![allocated'].state = "freed"]
              /\ UNCHANGED <<pc, cs>>
  BY DEF HandleTrainIn
<1>3. dirs \subseteq dirs' /\ UNCHANGED <<files, indexed, index>>
  BY <1>2 DEF StoragePrepare, storageVars
<1>4. CASE /\ res = LPX_SUCCESS
           /\ session' = [session EXCEPT ![allocated'] = NewSession]
           /\ pc' = "start_raspiraw" /\ cs' = allocated'
  <2>1. now \notin dirs /\ dirs' = dirs \cup {now}
    BY <1>2, <1>4
       DEF StoragePrepare, LPX_SUCCESS, LPX_IO, STRG_EXISTS
  <2>2. session'[allocated'] = NewSession
    BY <1>1, <1>4
  <2>3. \A s \in Sessions \ {allocated'} : session'[s] = session[s]
    BY <1>1, <1>4
  <2> QED
    BY <1>1, <1>3, <1>4, <2>1, <2>2, <2>3
<1>5. CASE /\ session' = [session EXCEPT ![allocated'].state = "freed"]
           /\ UNCHANGED <<pc, cs>>
  <2>1. session'[allocated'].state = "freed"
    BY <1>1, <1>5 DEF Session
  <2>2. \A s \in Sessions \ {allocated'} : session'[s] = session[s]
    BY <1>1, <1>5
  <2> QED
    BY <1>1, <1>3, <1>5, <2>1, <2>2
<1> QED
  BY <1>2, <1>4, <1>5

LEMMA NewSessionIs ==
  NewSession.state = "live" /\ NewSession.train = now /\ ~NewSession.stopping
BY DEF NewSession

(* From one place to the next *)
LEMMA StopPlaces ==
  ASSUME TypeInv, [Next]_vars, ~HandleTrainIn, ~FreeSession, pc' \in StopPc
  PROVE  \/ pc \in StopPc /\ cs' = cs
         \/ /\ pc = "poll" /\ pc' = "set_stopping"
            /\ cs' = captureSession /\ captureSession # NULL
            /\ Live(captureSession)
<1>1. CASE HandleTrainLeave \/ HandleKey
  BY <1>1 DEF HandleTrainLeave, HandleKey, CameraStopStream, StopPc
<1>2. CASE MainStep
  BY <1>2
  DEF MainStep, RaspirawSetUserData, RaspirawStartSensor, SetStopping,
      RaspirawStop, IndexReadSize, IndexCopyFrames, IndexOpen, IndexWrite,
      FreeFrames, FreeTrainId, Exit, StopPc, MainPc
<1>3. CASE BufferReturned \/ CallbackStep \/ Tick \/ UNCHANGED vars
  <2>1. UNCHANGED <<pc, cs>>
    BY <1>3
    DEF CallbackStep, BufferReturned, EnterHandler, CheckStopping,
        HandlerFault, StoreFrame, AppendFrame, Tick, mainVars, vars
  <2> QED
    BY <2>1
<1> QED
  BY <1>1, <1>2, <1>3 DEF Next, Terminated

LEMMA StopLiveStep ==
  ASSUME TypeInv, StopLive, [Next]_vars
  PROVE  StopLive'
<1> SUFFICES ASSUME pc' \in StopPc
             PROVE  session'[cs'].state = "live"
  BY DEF StopLive, Live
<1>1. CASE HandleTrainIn
  <2>1. pc = "poll"
    BY <1>1 DEF HandleTrainIn
  <2>2. pc' # "poll"
    BY DEF StopPc
  <2>3. cs' = allocated' /\ session'[allocated'] = NewSession
    BY <1>1, <2>1, <2>2, TrainIn
  <2> QED
    BY <2>3, NewSessionIs
<1>2. CASE FreeSession
  BY <1>2 DEF FreeSession, StopPc
<1>3. CASE ~HandleTrainIn /\ ~FreeSession
  <2>1. Live(cs')
    BY <1>3, StopPlaces DEF StopLive
  <2>2. cs' \in Sessions
    <3>1. TypeInv'
      BY TypeInvStep
    <3> QED
      BY <3>1, BoundsAssumption
         DEF TypeInv, TypeOK, PointersValid, Allocated, Sessions
  <2> QED
    BY <1>3, <2>1, <2>2, SessionFields DEF Live
<1> QED
  BY <1>1, <1>2, <1>3
-----------------------------------------------------------------------------
(* What is left behind *)

(* A step of a run changes the directories of its live sessions only. *)
LEMMA WritesToLive ==
  ASSUME TypeInv, StopLive, [Next]_vars
  PROVE  /\ dirs \subseteq dirs'
         /\ \A t \in dirs :
              (\A s \in Sessions : Live(s) => session[s].train # t) =>
                /\ files'[t] = files[t]
                /\ index'[t] = index[t]
                /\ t \in indexed' => t \in indexed
<1>1. /\ files \in [TrainIds -> SUBSET Nat] /\ index \in [TrainIds -> Seq(Row)]
      /\ dirs \subseteq TrainIds
  BY DEF TypeInv, TypeOK, StorageTypeOK
<1>2. CASE HandleTrainIn
  BY <1>2, TrainIn
<1>3. CASE StoreFrame
  <2>1. Live(cbSession) /\ cbSession \in Sessions
    BY <1>3, BoundsAssumption
       DEF StoreFrame, TypeInv, PointersValid, TypeOK, Allocated, Sessions
  <2>2. PICK res \in StorageCodes :
          StorageStoreFrame(session[cbSession].train,
                            session[cbSession].frameIndex, res)
    BY <1>3 DEF StoreFrame
  <2>3. /\ UNCHANGED <<dirs, indexed, index>>
        /\ \A t \in TrainIds \ {session[cbSession].train} : files'[t] = files[t]
    BY <1>1, <2>2 DEF StorageStoreFrame, storageVars
  <2> QED
    BY <1>1, <2>1, <2>3
<1>4. CASE IndexOpen
  <2>1. Live(cs) /\ cs \in Sessions
    BY <1>4, BoundsAssumption
       DEF IndexOpen, TypeInv, PointersValid, TypeOK, Allocated, Sessions,
           StopLive, StopPc, MainPc
  <2>2. PICK res \in StorageCodes : StorageOpenIndex(session[cs].train, res)
    BY <1>4 DEF IndexOpen
  <2>3. /\ UNCHANGED <<dirs, files>>
        /\ indexed' \subseteq indexed \cup {session[cs].train}
        /\ \A t \in TrainIds \ {session[cs].train} : index'[t] = index[t]
    BY <1>1, <2>2 DEF StorageOpenIndex, storageVars
  <2> QED
    BY <1>1, <2>1, <2>3
<1>5. CASE IndexWrite
  <2>1. Live(cs) /\ cs \in Sessions
    BY <1>5, BoundsAssumption
       DEF IndexWrite, TypeInv, PointersValid, TypeOK, Allocated, Sessions,
           StopLive, StopPc, MainPc
  <2>2. /\ UNCHANGED <<dirs, files, indexed>>
        /\ \A t \in TrainIds \ {session[cs].train} : index'[t] = index[t]
    BY <1>1, <1>5 DEF IndexWrite, StorageWriteIndex
  <2> QED
    BY <1>1, <2>1, <2>2
<1>6. CASE ~(HandleTrainIn \/ StoreFrame \/ IndexOpen \/ IndexWrite)
  <2>1. UNCHANGED storageVars
    BY <1>6
    DEF Next, MainStep, CallbackStep, HandleTrainLeave, HandleKey,
        RaspirawSetUserData, RaspirawStartSensor, SetStopping, RaspirawStop,
        IndexReadSize, IndexCopyFrames, FreeFrames, FreeSession, FreeTrainId,
        Exit, BufferReturned, EnterHandler, CheckStopping, HandlerFault,
        AppendFrame, Tick, Terminated, vars
  <2> QED
    BY <2>1 DEF storageVars
<1> QED
  BY <1>2, <1>3, <1>4, <1>5, <1>6

LEMMA BehindCapture ==
  ASSUME TypeInv, StopLive, BehindInv, CaptureStep
  PROVE  BehindInv'
<1>1. [Next]_vars /\ leftBehind' = leftBehind
  BY CaptureNext DEF faultVars
<1>2. dirs \subseteq dirs'
  BY <1>1, WritesToLive
<1>3. ASSUME NEW s \in Sessions, session'[s].state = "live"
      PROVE  session'[s].train \notin leftBehind
  <2>1. CASE HandleTrainIn
    <3>1. CASE s = allocated'
      <4>1. session'[s] = NewSession /\ now \notin dirs
        BY <1>3, <2>1, <3>1, TrainIn
      <4> QED
        BY <4>1, NewSessionIs DEF BehindInv
    <3>2. CASE s # allocated'
      <4>1. session'[s] = session[s]
        BY <2>1, <3>2, TrainIn
      <4> QED
        BY <1>3, <4>1 DEF BehindInv, Live
    <3> QED
      BY <3>1, <3>2
  <2>2. CASE ~HandleTrainIn
    BY <1>1, <1>3, <2>2, SessionFields DEF BehindInv, Live
  <2> QED
    BY <2>1, <2>2
<1> QED
  BY <1>1, <1>2, <1>3 DEF BehindInv, Live

LEMMA FreshSessions ==
  ASSUME FreshProcess
  PROVE  \A s \in Sessions : session'[s] = UnusedSession /\ ~session'[s].stopping
                             /\ session'[s].state # "live"
BY DEF FreshProcess, UnusedSession

LEMMA BehindStep ==
  ASSUME TypeInv, StopLive, BehindInv, [RestartNext]_restartVars
  PROVE  BehindInv'
<1>1. CASE CaptureStep
  BY <1>1, BehindCapture
<1>2. CASE DieAndRestart
  <2>1. FreshProcess /\ leftBehind' = dirs /\ dirs' = dirs
    BY <1>2 DEF DieAndRestart
  <2> QED
    BY <2>1, FreshSessions DEF BehindInv, Live
<1>3. CASE StrayBuffer \/ SetClockBack \/ UNCHANGED restartVars
  <2>1. UNCHANGED <<dirs, session, leftBehind>>
    BY <1>3
       DEF StrayBuffer, SetClockBack, restartVars, vars, storageVars, faultVars
  <2> QED
    BY <2>1 DEF BehindInv, Live
<1> QED
  BY <1>1, <1>2, <1>3 DEF RestartNext

(* What a death leaves of a write concerns the directory of a live session
   as well. *)
LEMMA CutOffIsLive ==
  ASSUME TypeInv, StopLive, BehindInv, DieAndRestart, NEW t \in leftBehind
  PROVE  files'[t] = files[t] /\ index'[t] = index[t]
<1>1. /\ files \in [TrainIds -> SUBSET Nat] /\ index \in [TrainIds -> Seq(Row)]
      /\ t \in TrainIds
  BY DEF TypeInv, TypeOK, StorageTypeOK, BehindInv
<1>2. ASSUME files' \in FilesCutOff
      PROVE  files'[t] = files[t]
  <2>1. CASE cbPc = "store" /\ Live(cbSession)
    <3>1. cbSession \in Sessions
      BY <2>1, BoundsAssumption
         DEF TypeInv, PointersValid, TypeOK, Allocated, Sessions
    <3>2. session[cbSession].train # t
      BY <2>1, <3>1 DEF BehindInv
    <3> QED
      BY <1>1, <1>2, <3>2 DEF FilesCutOff
  <2>2. CASE ~(cbPc = "store" /\ Live(cbSession))
    BY <1>2, <2>2 DEF FilesCutOff
  <2> QED
    BY <2>1, <2>2
<1>3. ASSUME index' \in IndexCutOff
      PROVE  index'[t] = index[t]
  <2>1. CASE pc = "index_write"
    <3>1. Live(cs) /\ cs \in Sessions
      BY <2>1, BoundsAssumption
         DEF TypeInv, PointersValid, TypeOK, Allocated, Sessions, StopLive,
             StopPc, MainPc
    <3>2. session[cs].train # t
      BY <3>1 DEF BehindInv
    <3> QED
      BY <1>1, <1>3, <3>2 DEF IndexCutOff
  <2>2. CASE pc # "index_write"
    BY <1>3, <2>2 DEF IndexCutOff
  <2> QED
    BY <2>1, <2>2
<1> QED
  BY <1>2, <1>3 DEF DieAndRestart

LEMMA Untouched ==
  ASSUME TypeInv, StopLive, BehindInv, [RestartNext]_restartVars,
         NEW t \in leftBehind
  PROVE  /\ t \in dirs'
         /\ files'[t] = files[t]
         /\ index'[t] = index[t]
         /\ t \in indexed' => t \in indexed
<1>1. t \in dirs /\ \A s \in Sessions : Live(s) => session[s].train # t
  BY DEF BehindInv
<1>2. CASE CaptureStep
  <2>1. [Next]_vars
    BY <1>2, CaptureNext
  <2> QED
    BY <1>1, <2>1, WritesToLive
<1>3. CASE DieAndRestart
  <2>1. UNCHANGED <<dirs, indexed>>
    BY <1>3 DEF DieAndRestart
  <2> QED
    BY <1>1, <1>3, <2>1, CutOffIsLive
<1>4. CASE StrayBuffer \/ SetClockBack \/ UNCHANGED restartVars
  <2>1. UNCHANGED storageVars
    BY <1>4 DEF StrayBuffer, SetClockBack, restartVars, vars
  <2> QED
    BY <1>1, <2>1 DEF storageVars
<1> QED
  BY <1>2, <1>3, <1>4 DEF RestartNext
-----------------------------------------------------------------------------
(* Types *)

LEMMA CutOffTyped ==
  ASSUME TypeInv, DieAndRestart
  PROVE  StorageTypeOK'
<1>1. StorageTypeOK /\ session \in [Sessions -> Session] /\ rows \in Seq(Row)
  BY DEF TypeInv, TypeOK
<1>2. ASSUME files' \in FilesCutOff
      PROVE  files' \in [TrainIds -> SUBSET Nat]
  <2>1. CASE cbPc = "store"
    <3>1. cbSession \in Sessions
      BY <2>1, BoundsAssumption
         DEF TypeInv, PointersValid, TypeOK, Allocated, Sessions
    <3>2. session[cbSession] \in Session
      BY <1>1, <3>1
    <3>3. session[cbSession].frameIndex \in Nat /\ session[cbSession].train \in TrainIds
      BY <3>2 DEF Session
    <3> QED
      BY <1>1, <1>2, <3>3 DEF FilesCutOff, StorageTypeOK
  <2>2. CASE cbPc # "store"
    BY <1>1, <1>2, <2>2 DEF FilesCutOff, StorageTypeOK
  <2> QED
    BY <2>1, <2>2
<1>3. ASSUME index' \in IndexCutOff
      PROVE  index' \in [TrainIds -> Seq(Row)]
  <2>1. CASE Running /\ pc = "index_write"
    <3>1. PICK k \in 0 .. Len(rows) :
            index' = [index EXCEPT ![session[cs].train] = SubSeq(rows, 1, k)]
      BY <1>3, <2>1 DEF IndexCutOff
    <3>2. SubSeq(rows, 1, k) \in Seq(Row)
      BY <1>1, PrefixTyped
    <3> QED
      BY <1>1, <3>1, <3>2 DEF StorageTypeOK
  <2>2. CASE ~(Running /\ pc = "index_write")
    BY <1>1, <1>3, <2>2 DEF IndexCutOff, StorageTypeOK
  <2> QED
    BY <2>1, <2>2
<1>4. \/ files' \in FilesCutOff /\ index' = index
      \/ index' \in IndexCutOff /\ files' = files
  BY DEF DieAndRestart
<1>5. UNCHANGED <<dirs, indexed>>
  BY DEF DieAndRestart
<1> QED
  BY <1>1, <1>2, <1>3, <1>4, <1>5 DEF StorageTypeOK

LEMMA UnusedTyped == UnusedSession \in Session
<1>1. <<>> \in Seq(Row) /\ 0 \in TrainIds
  BY TrainIdsAssumption, BoundsAssumption
<1> QED
  BY <1>1 DEF UnusedSession, Session

LEMMA FreshTyped ==
  ASSUME TypeInv, FreshProcess, StorageTypeOK', now' = now
  PROVE  TypeInv'
<1>1. session' \in [Sessions -> Session]
  BY UnusedTyped DEF FreshProcess
<1>2. <<>> \in Seq(Row)
  OBVIOUS
<1>3. NULL \in SessionPtr /\ 0 \in Nat /\ 0 \in 0 .. MaxSessions
  BY BoundsAssumption DEF SessionPtr
<1>4. /\ pc' = "poll" /\ cbPc' = "idle" /\ fault' = "none" /\ quitting' = FALSE
      /\ userData' = NULL /\ cs' = NULL /\ captureSession' = NULL
      /\ trainId' = NULL /\ cbSession' = NULL /\ freedIds' = {}
      /\ framesCnt' = 0 /\ rows' = <<>> /\ allocated' = 0
  BY DEF FreshProcess
<1>5. TypeOK'
  BY <1>1, <1>2, <1>3, <1>4 DEF TypeInv, TypeOK, MainPc, CallbackPc
<1>6. PointersValid'
  BY <1>4 DEF PointersValid, StopPc
<1> QED
  BY <1>5, <1>6 DEF TypeInv

LEMMA TypeStep ==
  ASSUME TypeInv, RestartTypeOK, [RestartNext]_restartVars, BehindInv
  PROVE  TypeInv' /\ RestartTypeOK'
<1> USE RestartBoundsAssumption, BoundsAssumption
<1>1. CASE CaptureStep
  <2>1. TypeInv' /\ TypeOK'
    BY <1>1, CaptureNext, TypeInvStep DEF TypeInv
  <2>2. sensorOn' \in BOOLEAN /\ failed' \in BOOLEAN
    BY <1>1 DEF CaptureStep, SensorStart, SensorStop, SensorStopped, sensorVars,
                RestartTypeOK
  <2> QED
    BY <1>1, <2>1, <2>2, CaptureNext DEF faultVars, RestartTypeOK
<1>2. CASE StrayBuffer
  <2>1. /\ UNCHANGED <<storageVars, session, userData, now, mainVars, cbVars>>
        /\ fault' \in Faults
    BY <1>2 DEF StrayBuffer, Faults
  <2>2. StorageTypeOK'
    BY <2>1, StorageUnchanged DEF TypeInv, TypeOK
  <2>3. TypeOK' /\ PointersValid'
    BY <2>1, <2>2 DEF TypeInv, TypeOK, PointersValid, Allocated, mainVars, cbVars
  <2>4. UNCHANGED <<sensorVars, faultVars>>
    BY <1>2 DEF StrayBuffer
  <2> QED
    BY <2>3, <2>4 DEF TypeInv, RestartTypeOK, sensorVars, faultVars
<1>3. CASE DieAndRestart
  <2>1. TypeInv'
    BY <1>3, CutOffTyped, FreshTyped DEF DieAndRestart
  <2>2. restarts' \in 0 .. MaxRestarts /\ failed' \in BOOLEAN
    BY <1>3 DEF DieAndRestart, RestartTypeOK
  <2>3. leftBehind' \subseteq TrainIds
    BY <1>3 DEF DieAndRestart, TypeInv, TypeOK, StorageTypeOK
  <2> QED
    BY <1>3, <2>1, <2>2, <2>3 DEF DieAndRestart, TypeInv, RestartTypeOK
<1>4. CASE SetClockBack
  <2>1. /\ UNCHANGED <<storageVars, session, userData, fault, mainVars, cbVars>>
        /\ now' \in 0 .. MaxClock
    BY <1>4 DEF SetClockBack, TypeInv, TypeOK
  <2>2. StorageTypeOK'
    BY <2>1, StorageUnchanged DEF TypeInv, TypeOK
  <2>3. TypeOK'
    BY <2>1, <2>2 DEF TypeInv, TypeOK, mainVars, cbVars
  <2>4. PointersValid'
    BY <2>1 DEF TypeInv, PointersValid, Allocated, mainVars, cbVars
  <2>5. setBacks' \in 0 .. MaxSetBacks
    BY <1>4 DEF SetClockBack, RestartTypeOK
  <2> QED
    BY <1>4, <2>3, <2>4, <2>5
       DEF SetClockBack, TypeInv, RestartTypeOK, sensorVars
<1>5. CASE UNCHANGED restartVars
  <2>1. TypeInv'
    BY <1>5, TypeInvStep DEF restartVars
  <2> QED
    BY <1>5, <2>1 DEF restartVars, RestartTypeOK, TypeInv, sensorVars, faultVars
<1> QED
  BY <1>1, <1>2, <1>3, <1>4, <1>5 DEF RestartNext
-----------------------------------------------------------------------------
(* The sensor *)

LEMMA SensorCapture ==
  ASSUME TypeInv, StopLive, SensorInv, CaptureStep
  PROVE  SensorInv'
<1>1. [Next]_vars /\ Next
  BY CaptureNext
<1>2. TypeInv' /\ StopLive'
  BY <1>1, TypeInvStep, StopLiveStep
<1>3. CASE HandleTrainIn
  <2>1. /\ pc = "poll" /\ UNCHANGED <<captureSession, fault>> /\ fault = "none"
    BY <1>3 DEF HandleTrainIn, Running
  <2>2. UNCHANGED sensorVars
    BY <2>1 DEF CaptureStep
  <2>3. captureSession # NULL =>
          session'[captureSession] = session[captureSession]
    BY <1>3, TrainIn, BoundsAssumption
       DEF TypeInv, PointersValid, Allocated, TypeOK, Sessions
  <2>4. \/ pc' = "start_raspiraw" /\ session'[cs'] = NewSession
        \/ pc' = "poll"
    BY <1>3, <2>1, TrainIn
  <2>5. pc' \in Starting => ~session'[cs'].stopping
    BY <2>4, NewSessionIs DEF Starting
  <2> QED
    BY <2>1, <2>2, <2>3, <2>4, <2>5 DEF SensorInv, sensorVars, Live, Starting
<1>4. CASE RaspirawSetUserData
  <2>1. /\ pc = "start_raspiraw" /\ pc' = "start_sensor"
        /\ UNCHANGED <<session, cs, captureSession, fault>>
    BY <1>4 DEF RaspirawSetUserData
  <2>2. UNCHANGED sensorVars
    BY <2>1 DEF CaptureStep
  <2> QED
    BY <2>1, <2>2 DEF SensorInv, sensorVars, Live, Starting
<1>5. CASE RaspirawStartSensor
  <2>1. /\ pc = "start_sensor" /\ pc' = "poll" /\ captureSession' = cs
        /\ UNCHANGED <<session, cs, fault>> /\ fault = "none"
    BY <1>5 DEF RaspirawStartSensor, StoredSession, Running
  <2>2. Live(cs) /\ cs # NULL /\ ~session[cs].stopping
    BY <2>1, BoundsAssumption
       DEF StopLive, StopPc, MainPc, TypeInv, PointersValid, Allocated, TypeOK,
           NULL, SensorInv, Starting
  <2> QED
    BY <2>1, <2>2 DEF SensorInv, Live, Starting
<1>6. CASE HandleTrainLeave \/ HandleKey
  <2>1. /\ pc = "poll" /\ UNCHANGED <<session, captureSession>>
        /\ CameraStopStream("stopped")
    BY <1>6 DEF HandleTrainLeave, HandleKey
  <2>2. UNCHANGED sensorVars
    BY <2>1 DEF CaptureStep
  <2>3. pc' \in {"poll", "stopped", "blocked", "set_stopping"}
    BY <2>1 DEF CameraStopStream
  <2>4. sensorOn /\ ~failed => pc' = "set_stopping"
    BY <2>1 DEF CameraStopStream, SensorInv, StoppingRead
  <2>5. fault' # "wild_session" \/ fault' = fault
    BY <2>1 DEF CameraStopStream
  <2> QED
    BY <2>1, <2>2, <2>3, <2>4, <2>5 DEF SensorInv, sensorVars, Starting
<1>7. CASE SetStopping
  <2>1. /\ pc = "set_stopping" /\ pc' = "raspiraw_stop"
        /\ UNCHANGED <<captureSession, fault>>
    BY <1>7 DEF SetStopping
  <2>2. UNCHANGED sensorVars
    BY <2>1 DEF CaptureStep
  <2> QED
    BY <2>1, <2>2 DEF SensorInv, sensorVars, Starting
<1>8. CASE RaspirawStop
  <2>1. /\ pc = "raspiraw_stop" /\ pc' = "index_size"
        /\ UNCHANGED <<captureSession, fault>> /\ fault = "none"
    BY <1>8 DEF RaspirawStop, Running
  <2>2. SensorStop
    BY <2>1 DEF CaptureStep
  <2>3. ~(sensorOn' /\ ~failed')
    BY <2>2 DEF SensorStop, SensorStopped
  <2> QED
    BY <2>1, <2>3 DEF SensorInv, Starting
<1>9. CASE \/ IndexReadSize \/ IndexCopyFrames \/ IndexOpen \/ IndexWrite
           \/ FreeFrames \/ FreeSession \/ FreeTrainId \/ Exit
  <2>1. /\ pc \notin {"poll", "set_stopping", "raspiraw_stop"} \cup Starting
        /\ pc' \notin Starting
        /\ fault' # "wild_session"
    BY <1>9
    DEF IndexReadSize, IndexCopyFrames, IndexOpen, IndexWrite, FreeFrames,
        FreeSession, FreeTrainId, Exit, Running, Starting
  <2>2. UNCHANGED sensorVars
    BY <2>1 DEF CaptureStep, Starting
  <2> QED
    BY <2>1, <2>2 DEF SensorInv, sensorVars
<1>10. CASE BufferReturned \/ CallbackStep \/ Tick \/ Terminated
  <2>1. /\ UNCHANGED <<pc, cs, captureSession>>
        /\ fault' = fault \/ fault' # "wild_session"
    BY <1>10
    DEF CallbackStep, BufferReturned, EnterHandler, CheckStopping,
        HandlerFault, StoreFrame, AppendFrame, Tick, Terminated, mainVars, vars
  <2>2. UNCHANGED sensorVars
    BY <2>1 DEF CaptureStep
  <2>3. ~HandleTrainIn /\ ~FreeSession /\ ~SetStopping
    <3>1. UNCHANGED <<allocated, pc>>
      BY <1>10
      DEF CallbackStep, BufferReturned, EnterHandler, CheckStopping,
          HandlerFault, StoreFrame, AppendFrame, Tick, Terminated, mainVars, vars
    <3>2. allocated + 1 # allocated
      BY DEF TypeInv, TypeOK
    <3> QED
      BY <3>1, <3>2 DEF HandleTrainIn, FreeSession, SetStopping
  <2>4. \A s \in Sessions : /\ session'[s].state = session[s].state
                            /\ session'[s].stopping = session[s].stopping
    BY <1>1, <2>3, SessionFields
  <2>5. /\ captureSession # NULL => captureSession \in Sessions
        /\ pc \in Starting => cs \in Sessions
    BY BoundsAssumption
       DEF TypeInv, PointersValid, Allocated, TypeOK, Sessions, Starting, StopPc,
           MainPc
  <2> QED
    BY <2>1, <2>2, <2>4, <2>5 DEF SensorInv, sensorVars, Live
<1> QED
  BY <1>1, <1>3, <1>4, <1>5, <1>6, <1>7, <1>8, <1>9, <1>10 DEF Next, MainStep

LEMMA SensorStep ==
  ASSUME TypeInv, StopLive, SensorInv, [RestartNext]_restartVars
  PROVE  SensorInv'
<1>1. CASE CaptureStep
  BY <1>1, SensorCapture
<1>2. CASE StrayBuffer
  <2>1. /\ sensorOn /\ captureSession = NULL
        /\ UNCHANGED <<session, mainVars, sensorVars>>
    BY <1>2 DEF StrayBuffer
  <2>2. failed
    BY <2>1 DEF SensorInv
  <2> QED
    BY <2>1, <2>2 DEF SensorInv, mainVars, sensorVars
<1>3. CASE DieAndRestart
  <2>1. /\ pc' = "poll" /\ fault' = "none" /\ sensorOn' = sensorOn
        /\ failed' = (failed \/ fault # "none" \/ pc # "exited")
    BY <1>3 DEF DieAndRestart, FreshProcess
  <2>2. ~(sensorOn' /\ ~failed')
    BY <2>1 DEF SensorInv, Starting
  <2> QED
    BY <2>1, <2>2 DEF SensorInv, Starting
<1>4. CASE SetClockBack \/ UNCHANGED restartVars
  <2>1. UNCHANGED <<session, fault, mainVars, sensorVars>>
    BY <1>4 DEF SetClockBack, restartVars, vars
  <2> QED
    BY <2>1 DEF SensorInv, mainVars, sensorVars, Live
<1> QED
  BY <1>1, <1>2, <1>3, <1>4 DEF RestartNext
-----------------------------------------------------------------------------
LEMMA RestartInvInit == RestartInit => RestartInv
<1> SUFFICES ASSUME RestartInit PROVE RestartInv
  OBVIOUS
<1>1. TypeInv
  BY TypeInvInit DEF RestartInit
<1>2. RestartTypeOK
  <2>1. TypeOK
    BY <1>1 DEF TypeInv
  <2>2. 0 \in 0 .. MaxRestarts /\ 0 \in 0 .. MaxSetBacks
    BY RestartBoundsAssumption
  <2> QED
    BY <2>1, <2>2 DEF RestartInit, RestartTypeOK
<1>3. pc = "poll" /\ fault = "none" /\ ~sensorOn /\ leftBehind = {}
  BY DEF RestartInit, Init
<1>4. StopLive
  BY <1>3 DEF StopLive, StopPc
<1>5. BehindInv
  BY <1>3 DEF BehindInv
<1>6. SensorInv
  BY <1>3 DEF SensorInv, Starting
<1> QED
  BY <1>1, <1>2, <1>4, <1>5, <1>6 DEF RestartInv

LEMMA RestartInvStep == RestartInv /\ [RestartNext]_restartVars => RestartInv'
<1> SUFFICES ASSUME RestartInv, [RestartNext]_restartVars PROVE RestartInv'
  OBVIOUS
<1>1. TypeInv' /\ RestartTypeOK'
  BY TypeStep DEF RestartInv
<1>2. BehindInv'
  BY BehindStep DEF RestartInv
<1>3. SensorInv'
  BY SensorStep DEF RestartInv
<1>4. StopLive'
  <2>1. CASE CaptureStep
    BY <2>1, CaptureNext, StopLiveStep DEF RestartInv
  <2>2. CASE DieAndRestart
    BY <2>2 DEF DieAndRestart, FreshProcess, StopLive, StopPc
  <2>3. CASE StrayBuffer \/ SetClockBack \/ UNCHANGED restartVars
    <3>1. UNCHANGED <<pc, cs, session>>
      BY <2>3 DEF StrayBuffer, SetClockBack, restartVars, vars, mainVars
    <3> QED
      BY <3>1 DEF RestartInv, StopLive, Live
  <2> QED
    BY <2>1, <2>2, <2>3 DEF RestartNext
<1> QED
  BY <1>1, <1>2, <1>3, <1>4 DEF RestartInv

LEMMA RestartInvariant == RestartSpec => []RestartInv
BY RestartInvInit, RestartInvStep, PTL DEF RestartSpec

(***************************************************************************)
(* A restart gives every variable a value it may have at the start, and no *)
(* interleaving of runs, deaths and clocks takes one out of its type.      *)
(***************************************************************************)
THEOREM RestartTypeCorrect == RestartSpec => []RestartTypeOK
<1>1. RestartInv => RestartTypeOK
  BY DEF RestartInv
<1> QED
  BY <1>1, RestartInvariant, PTL

(***************************************************************************)
(* What a run has left in the storage, complete or cut off, is never       *)
(* touched by a later one, wherever the clock has been set back to.        *)
(***************************************************************************)
THEOREM Undisturbed == RestartSpec => LeftBehindUntouched
<1>1. RestartInv /\ [RestartNext]_restartVars
        => [\A t \in leftBehind :
              /\ t \in dirs'
              /\ files'[t] = files[t]
              /\ index'[t] = index[t]
              /\ t \in indexed' => t \in indexed]_restartVars
  BY Untouched DEF RestartInv
<1> QED
  BY <1>1, RestartInvariant, PTL DEF RestartSpec, LeftBehindUntouched

(***************************************************************************)
(* No buffer meets the pointer that raspiraw_init leaves unset, unless a   *)
(* run was cut off or the I2C bus has failed: main leaves its loop only    *)
(* when it has switched off what camera_start_stream switched on.          *)
(***************************************************************************)
THEOREM NoStrayBuffer == RestartSpec => []StrayBufferNeedsFailure
<1>1. RestartInv => StrayBufferNeedsFailure
  BY DEF RestartInv, SensorInv, StrayBufferNeedsFailure
<1> QED
  BY <1>1, RestartInvariant, PTL
-----------------------------------------------------------------------------
(***************************************************************************)
(* Capture implements Recorder.                                            *)
(*                                                                         *)
(* A step of Capture that changes a frame file or an index has to be       *)
(* allowed by Recorder, which knows nothing of sessions.  What is said     *)
(* here relates the two: what the frame number and the list of a session   *)
(* have to do with its directory, which of the sessions may still be       *)
(* published, and where its rows lie in time.  Of the latter only what     *)
(* holds after the clock has been set back is said when `timed' is FALSE.  *)
(***************************************************************************)

Stopping == {"set_stopping", "raspiraw_stop", "index_size", "index_copy",
             "index_open", "index_write", "free_frames", "free_session"}
Writing == {"index_open", "index_write"}
Freeing == {"free_frames", "free_session"}

(* Most of what is said of times holds while the clock is not set back. *)
Within(timed, q, first, last) ==
  timed => \A i \in 1 .. Len(q) : first <= q[i].start /\ q[i].end <= last

(* Nothing is in a directory that does not exist. *)
FreshDirs == \A t \in TrainIds \ dirs : files[t] = {} /\ index[t] = <<>>

(* The next frame of a session is a new one in its directory, and its list
   describes what is there. *)
SessionRight(timed, s) ==
  /\ \A k \in files[session[s].train] : k < session[s].frameIndex
  /\ Promise!Describes(session[s].frames, files[session[s].train])
  /\ Within(timed, session[s].frames, session[s].train, now)
  /\ timed => session[s].train <= session[s].reqTime

SessionsInv(timed) == \A s \in Sessions : Live(s) => SessionRight(timed, s)

(* The frame that has been stored and waits for its row *)
StoredLast(s) ==
  /\ session[s].frameIndex - 1 \in files[session[s].train]
  /\ \A i \in 1 .. Len(session[s].frames) :
       session[s].frames[i].frame < session[s].frameIndex - 1

AppendInv == cbPc = "append" /\ Live(cbSession) => StoredLast(cbSession)

(* The main thread works at a session that nobody else frees. *)
MainInv(timed) ==
  /\ pc \in Starting \cup Stopping => Live(cs)
  /\ pc \in Stopping => cs = captureSession
  /\ pc \in Writing => /\ Promise!Describes(rows, files[session[cs].train])
                       /\ Within(timed, rows, session[cs].train, now)

(* The sessions that are, or may become, capture_session *)
Active(s) ==
  Live(s) /\ (s = captureSession \/ (s = cs /\ pc \in Starting))

(* A live session has not been published, and all that has been published
   lies before those that still can be. *)
Unpublished ==
  \A s \in Sessions :
    Live(s) /\ index[session[s].train] # <<>> /\ fault = "none" =>
      s = cs /\ pc \in Freeing

PublishedBefore(timed) ==
  \A s \in Sessions :
    Active(s) /\ index[session[s].train] = <<>> =>
      \A u \in TrainIds : Within(timed, index[u], 0, session[s].train)

PublishedPast(timed) == \A u \in TrainIds : Within(timed, index[u], 0, now)

PublishedInv(timed) ==
  Unpublished /\ PublishedBefore(timed) /\ PublishedPast(timed)

RecorderInv(timed) ==
  /\ FreshDirs /\ SessionsInv(timed) /\ AppendInv
  /\ MainInv(timed) /\ PublishedInv(timed)

AllInv(timed) == TypeInv /\ RowsInv(timed) /\ WriterInv /\ RecorderInv(timed)
-----------------------------------------------------------------------------
(* Rows, and times *)

LEMMA Typed ==
  ASSUME TypeInv
  PROVE  /\ now \in Nat
         /\ session \in [Sessions -> Session]
         /\ index \in [TrainIds -> Seq(Row)]
         /\ files \in [TrainIds -> SUBSET Nat]
         /\ rows \in Seq(Row)
         /\ pc \in StopPc => cs \in Sessions
         /\ cbPc \in {"check", "store", "append"} => cbSession \in Sessions
         /\ captureSession # NULL => captureSession \in Sessions
BY BoundsAssumption
   DEF TypeInv, TypeOK, StorageTypeOK, PointersValid, Allocated, Sessions

LEMMA TrainsAreTimes == TrainIds \subseteq Nat
BY TrainIdsAssumption, BoundsAssumption

LEMMA SessionTyped ==
  ASSUME session \in [Sessions -> Session], NEW s \in Sessions
  PROVE  /\ session[s] \in Session
         /\ session[s].train \in TrainIds
         /\ session[s].train \in Nat
         /\ session[s].frameIndex \in Nat
         /\ session[s].reqTime \in Nat
         /\ session[s].frames \in Seq(Row)
<1>1. session[s] \in Session
  OBVIOUS
<1> QED
  BY <1>1, TrainsAreTimes DEF Session

LEMMA RowTyped ==
  ASSUME NEW q \in Seq(Row), NEW i \in 1 .. Len(q)
  PROVE  q[i].start \in Nat /\ q[i].end \in Nat /\ q[i].frame \in Nat
<1>1. q[i] \in Row
  OBVIOUS
<1> QED
  BY <1>1 DEF Row

LEMMA WithinLonger ==
  ASSUME NEW timed \in BOOLEAN, NEW q \in Seq(Row), NEW first,
         NEW last \in Nat, NEW later \in Nat,
         last <= later, Within(timed, q, first, last)
  PROVE  Within(timed, q, first, later)
<1> SUFFICES ASSUME timed, NEW i \in 1 .. Len(q)
             PROVE  first <= q[i].start /\ q[i].end <= later
  BY DEF Within
<1>1. q[i].end \in Nat
  BY RowTyped
<1>2. first <= q[i].start /\ q[i].end <= last
  BY DEF Within
<1> QED
  BY <1>1, <1>2

LEMMA WithinPrefix ==
  ASSUME NEW timed \in BOOLEAN, NEW q \in Seq(Row), NEW k \in 0 .. Len(q),
         NEW first, NEW last,
         Within(timed, q, first, last)
  PROVE  Within(timed, SubSeq(q, 1, k), first, last)
<1> DEFINE p == SubSeq(q, 1, k)
<1>1. Len(p) = k /\ \A i \in 1 .. k : p[i] = q[i]
  BY PrefixTyped
<1> HIDE DEF p
<1>2. Within(timed, p, first, last)
  BY <1>1 DEF Within
<1> QED
  BY <1>2 DEF p

LEMMA DescribesPrefix ==
  ASSUME NEW q \in Seq(Row), NEW k \in 0 .. Len(q), NEW stored,
         Promise!Describes(q, stored)
  PROVE  Promise!Describes(SubSeq(q, 1, k), stored)
<1> DEFINE p == SubSeq(q, 1, k)
<1>1. Len(p) = k /\ \A i \in 1 .. k : p[i] = q[i]
  BY PrefixTyped
<1> HIDE DEF p
<1>2. Promise!Describes(p, stored)
  BY <1>1 DEF Promise!Describes
<1> QED
  BY <1>2 DEF p

LEMMA DescribesMore ==
  ASSUME NEW q, NEW stored, NEW more, stored \subseteq more,
         Promise!Describes(q, stored)
  PROVE  Promise!Describes(q, more)
BY DEF Promise!Describes

LEMMA Appended ==
  ASSUME NEW q \in Seq(Row), NEW row \in Row
  PROVE  LET p == Append(q, row)
         IN  /\ Len(p) = Len(q) + 1
             /\ \A i \in 1 .. Len(q) : p[i] = q[i]
             /\ p[Len(q) + 1] = row
BY AppendProperties

LEMMA DescribesAppend ==
  ASSUME NEW q \in Seq(Row), NEW row \in Row, NEW stored,
         Promise!Describes(q, stored), row.frame \in stored,
         \A i \in 1 .. Len(q) : q[i].frame < row.frame
  PROVE  Promise!Describes(Append(q, row), stored)
<1> DEFINE p == Append(q, row)
<1>1. /\ Len(p) = Len(q) + 1
      /\ \A i \in 1 .. Len(q) : p[i] = q[i]
      /\ p[Len(q) + 1] = row
  BY Appended
<1>2. Len(q) \in Nat
  OBVIOUS
<1> HIDE DEF p
<1>3. \A i \in 1 .. Len(p) : p[i].frame \in stored
  BY <1>1, <1>2 DEF Promise!Describes
<1>4. ASSUME NEW i \in 1 .. Len(p) - 1
      PROVE  p[i].frame < p[i + 1].frame
  <2>1. CASE i = Len(q)
    BY <2>1, <1>1, <1>2
  <2>2. CASE i # Len(q)
    BY <2>2, <1>1, <1>2 DEF Promise!Describes
  <2> QED
    BY <2>1, <2>2
<1>5. Promise!Describes(p, stored)
  BY <1>3, <1>4 DEF Promise!Describes
<1> QED
  BY <1>5 DEF p

LEMMA WithinAppend ==
  ASSUME NEW timed \in BOOLEAN, NEW q \in Seq(Row), NEW row \in Row,
         NEW first, NEW last,
         Within(timed, q, first, last), timed => first <= row.start /\ row.end <= last
  PROVE  Within(timed, Append(q, row), first, last)
<1> DEFINE p == Append(q, row)
<1>1. /\ Len(p) = Len(q) + 1
      /\ \A i \in 1 .. Len(q) : p[i] = q[i]
      /\ p[Len(q) + 1] = row
  BY Appended
<1>2. Len(q) \in Nat
  OBVIOUS
<1> HIDE DEF p
<1>3. Within(timed, p, first, last)
  BY <1>1, <1>2 DEF Within
<1> QED
  BY <1>3 DEF p

(* Rows that lie before others do not overlap with them. *)
LEMMA BeforeIsApart ==
  ASSUME NEW p \in Seq(Row), NEW q \in Seq(Row), p # <<>>, q # <<>>,
         NEW time \in Nat, NEW first, NEW last,
         Within(TRUE, p, time, last), Within(TRUE, q, first, time)
  PROVE  ~Promise!Overlap(p, q)
<1>1. 1 \in 1 .. Len(p) /\ Len(q) \in 1 .. Len(q)
  BY EmptySeq
<1>2. p[1].start \in Nat /\ q[Len(q)].end \in Nat
  BY <1>1, RowTyped
<1>3. time <= p[1].start /\ q[Len(q)].end <= time
  BY <1>1 DEF Within
<1> QED
  BY <1>2, <1>3 DEF Promise!Overlap
-----------------------------------------------------------------------------
(* Steps that concern neither the frame numbers nor the rows of a session. *)

SameSession(s) ==
  /\ session'[s].train = session[s].train
  /\ session'[s].frameIndex = session[s].frameIndex
  /\ session'[s].frames = session[s].frames
  /\ session'[s].reqTime = session[s].reqTime

(* Sessions may end, none begins. *)
SessionsMayEnd ==
  \A s \in Sessions : session'[s].state = "live" => Live(s) /\ SameSession(s)

SessionsStay ==
  \A s \in Sessions : Live(s) => session'[s].state = "live"

(* The main thread goes on at its session, or begins to stop one. *)
MainGoesOn ==
  /\ pc' \in Starting => pc \in Starting /\ cs' = cs
  /\ pc' \in Stopping => \/ pc \in Stopping /\ cs' = cs
                         \/ cs' = captureSession /\ Live(cs') /\ cs' \in Sessions
  /\ pc' \in Starting \cup Stopping => SessionsStay
  /\ pc' \in Writing => pc' = pc
  /\ pc \in Freeing => \/ pc' \in Freeing /\ cs' = cs
                       \/ session'[cs].state # "live"

QuietStep ==
  /\ UNCHANGED <<dirs, files, index, rows, captureSession>>
  /\ now' \in Nat
  /\ now <= now'
  /\ SessionsMayEnd
  /\ cbPc' = "append" => cbPc = "append" /\ cbSession' = cbSession
  /\ fault' = "none" => fault = "none"
  /\ MainGoesOn

LEMMA QuietKeeps ==
  ASSUME NEW timed \in BOOLEAN, TypeInv, RecorderInv(timed), QuietStep
  PROVE  RecorderInv(timed)'
<1> USE DEF QuietStep
<1>1. FreshDirs'
  BY DEF RecorderInv, FreshDirs
<1>2. SessionsInv(timed)'
  <2> SUFFICES ASSUME NEW s \in Sessions, session'[s].state = "live"
               PROVE  SessionRight(timed, s)'
    BY DEF SessionsInv, Live
  <2>1. Live(s) /\ SameSession(s)
    BY DEF SessionsMayEnd
  <2>2. SessionRight(timed, s)
    BY <2>1 DEF RecorderInv, SessionsInv
  <2>3. session[s].frames \in Seq(Row) /\ now \in Nat
    BY Typed, SessionTyped
  <2>4. Within(timed, session[s].frames, session[s].train, now')
    BY <2>2, <2>3, WithinLonger DEF SessionRight
  <2> QED
    BY <2>1, <2>2, <2>4 DEF SessionRight, SameSession
<1>3. AppendInv'
  <2> SUFFICES ASSUME cbPc' = "append", session'[cbSession'].state = "live"
               PROVE  StoredLast(cbSession)'
    BY DEF AppendInv, Live
  <2>1. cbPc = "append" /\ cbSession' = cbSession /\ cbSession \in Sessions
    BY Typed
  <2>2. Live(cbSession) /\ SameSession(cbSession)
    BY <2>1 DEF SessionsMayEnd
  <2>3. StoredLast(cbSession)
    BY <2>1, <2>2 DEF RecorderInv, AppendInv
  <2> QED
    BY <2>1, <2>2, <2>3 DEF StoredLast, SameSession
<1>4. MainInv(timed)'
  <2>1. pc' \in Starting \cup Stopping => session'[cs'].state = "live"
    <3> SUFFICES ASSUME pc' \in Starting \cup Stopping
                 PROVE  session'[cs'].state = "live"
      OBVIOUS
    <3>1. Live(cs') /\ cs' \in Sessions
      BY Typed DEF MainGoesOn, RecorderInv, MainInv, Starting, Stopping,
                   StopPc, MainPc
    <3> QED
      BY <3>1 DEF MainGoesOn, SessionsStay
  <2>2. pc' \in Stopping => cs' = captureSession'
    BY DEF MainGoesOn, RecorderInv, MainInv
  <2>3. ASSUME pc' \in Writing
        PROVE  /\ Promise!Describes(rows', files'[session'[cs'].train])
               /\ Within(timed, rows', session'[cs'].train, now')
    <3>1. pc' = pc /\ pc \in Writing /\ pc' \in Stopping /\ pc \in Stopping
      BY <2>3 DEF MainGoesOn, Writing, Stopping
    <3>2. cs' = cs /\ cs \in Sessions
      BY <2>2, <3>1, Typed DEF RecorderInv, MainInv, StopPc, MainPc, Stopping
    <3>3. SameSession(cs)
      BY <2>1, <3>1, <3>2 DEF SessionsMayEnd
    <3>4. now \in Nat /\ rows \in Seq(Row)
      BY Typed
    <3>5. /\ Promise!Describes(rows, files[session[cs].train])
          /\ Within(timed, rows, session[cs].train, now)
      BY <3>1 DEF RecorderInv, MainInv
    <3>6. Within(timed, rows, session[cs].train, now')
      BY <3>4, <3>5, WithinLonger
    <3> QED
      BY <3>2, <3>3, <3>5, <3>6 DEF SameSession
  <2> QED
    BY <2>1, <2>2, <2>3 DEF MainInv, Live
<1>5. Unpublished'
  <2> SUFFICES ASSUME NEW s \in Sessions, session'[s].state = "live",
                      index'[session'[s].train] # <<>>, fault' = "none"
               PROVE  s = cs' /\ pc' \in Freeing
    BY DEF Unpublished, Live
  <2>1. Live(s) /\ SameSession(s)
    BY DEF SessionsMayEnd
  <2>2. s = cs /\ pc \in Freeing
    BY <2>1 DEF SameSession, RecorderInv, PublishedInv, Unpublished
  <2> QED
    BY <2>2 DEF MainGoesOn
<1>6. PublishedBefore(timed)'
  <2> SUFFICES ASSUME NEW s \in Sessions, Active(s)',
                      index'[session'[s].train] = <<>>
               PROVE  \A u \in TrainIds :
                        Within(timed, index'[u], 0, session'[s].train)
    BY DEF PublishedBefore
  <2>1. Live(s) /\ SameSession(s)
    BY DEF SessionsMayEnd, Active, Live
  <2>2. Active(s)
    BY <2>1 DEF Active, MainGoesOn
  <2> QED
    BY <2>1, <2>2 DEF SameSession, RecorderInv, PublishedInv, PublishedBefore
<1>7. PublishedPast(timed)'
  <2> SUFFICES ASSUME NEW u \in TrainIds
               PROVE  Within(timed, index[u], 0, now')
    BY DEF PublishedPast
  <2>1. index[u] \in Seq(Row) /\ now \in Nat
    BY Typed
  <2>2. Within(timed, index[u], 0, now)
    BY DEF RecorderInv, PublishedInv, PublishedPast
  <2> QED
    BY <2>1, <2>2, WithinLonger
<1> QED
  BY <1>1, <1>2, <1>3, <1>4, <1>5, <1>6, <1>7 DEF RecorderInv, PublishedInv

(* What the quiet steps do to the sessions *)
LEMMA FieldSteps ==
  ASSUME session \in [Sessions -> Session], NEW w \in Sessions,
         \/ session' = [session EXCEPT ![w].stopping = TRUE]
         \/ session' = [session EXCEPT ![w].listLive = FALSE]
         \/ session' = [session EXCEPT ![w].state = "freed"]
  PROVE  /\ SessionsMayEnd
         /\ \A s \in Sessions \ {w} : session'[s] = session[s]
         /\ session'[w].state \in {session[w].state, "freed"}
<1>1. session[w] \in Session
  OBVIOUS
<1>2. \A s \in Sessions \ {w} : session'[s] = session[s]
  OBVIOUS
<1>3. session'[w] \in {[session[w] EXCEPT !.stopping = TRUE],
                       [session[w] EXCEPT !.listLive = FALSE],
                       [session[w] EXCEPT !.state = "freed"]}
  BY Zenon
<1>4. /\ SameSession(w)
      /\ session'[w].state \in {session[w].state, "freed"}
  BY <1>1, <1>3 DEF Session, SameSession
<1> QED
  BY <1>2, <1>4 DEF SessionsMayEnd, SameSession, Live

LEMMA NothingHappens ==
  ASSUME UNCHANGED session
  PROVE  SessionsMayEnd /\ SessionsStay
BY DEF SessionsMayEnd, SessionsStay, SameSession, Live

LEMMA QuietSteps ==
  ASSUME NEW timed \in BOOLEAN, TypeInv, RecorderInv(timed),
         \/ RaspirawSetUserData \/ HandleTrainLeave \/ HandleKey
         \/ SetStopping \/ RaspirawStop \/ IndexReadSize \/ FreeFrames
         \/ FreeSession \/ FreeTrainId \/ Exit \/ BufferReturned
         \/ EnterHandler \/ CheckStopping \/ HandlerFault \/ Tick
         \/ UNCHANGED vars
  PROVE  QuietStep
<1> USE DEF QuietStep, MainGoesOn, Starting, Stopping, Writing, Freeing
<1>a. /\ now \in Nat
      /\ session \in [Sessions -> Session]
      /\ pc \in StopPc => cs \in Sessions
      /\ captureSession # NULL => captureSession \in Sessions
  BY Typed
<1>1. CASE RaspirawSetUserData
  BY <1>1, <1>a, NothingHappens DEF RaspirawSetUserData, mainVars, cbVars, storageVars
<1>2. CASE HandleTrainLeave \/ HandleKey
  <2>1. /\ pc = "poll"
        /\ \/ pc' \in {"poll", "stopped", "blocked"}
           \/ /\ pc' = "set_stopping"
              /\ cs' = captureSession
              /\ Live(cs')
              /\ cs' \in Sessions
        /\ fault' = "none" => fault = "none"
    BY <1>2, <1>a DEF HandleTrainLeave, HandleKey, CameraStopStream, Live
  <2>2. UNCHANGED <<storageVars, session, rows, captureSession, now, cbVars>>
    BY <1>2 DEF HandleTrainLeave, HandleKey
  <2>3. SessionsMayEnd /\ SessionsStay
    BY <2>2, NothingHappens
  <2> QED
    BY <2>1, <2>2, <2>3, <1>a DEF storageVars, cbVars
<1>3. CASE SetStopping
  <2>1. cs \in Sessions /\ session' = [session EXCEPT ![cs].stopping = TRUE]
    BY <1>3, <1>a DEF SetStopping, StopPc, MainPc
  <2>2. session[cs] \in Session
    BY <2>1, <1>a
  <2>3. session'[cs].state = session[cs].state
    BY <2>1, <2>2, <1>a DEF Session
  <2>4. SessionsMayEnd /\ SessionsStay
    BY <2>1, <2>3, <1>a, FieldSteps DEF SessionsStay, Live
  <2> QED
    BY <1>3, <2>4, <1>a DEF SetStopping, storageVars, cbVars
<1>4. CASE RaspirawStop
  BY <1>4, <1>a, NothingHappens DEF RaspirawStop, cbVars, storageVars
<1>5. CASE IndexReadSize
  BY <1>5, <1>a, NothingHappens DEF IndexReadSize, cbVars, storageVars
<1>6. CASE FreeFrames
  <2>1. cs \in Sessions /\ session' = [session EXCEPT ![cs].listLive = FALSE]
    BY <1>6, <1>a DEF FreeFrames, StopPc, MainPc
  <2>2. session[cs] \in Session
    BY <2>1, <1>a
  <2>3. session'[cs].state = session[cs].state
    BY <2>1, <2>2, <1>a DEF Session
  <2>4. SessionsMayEnd /\ SessionsStay
    BY <2>1, <2>3, <1>a, FieldSteps DEF SessionsStay, Live
  <2> QED
    BY <1>6, <2>4, <1>a DEF FreeFrames, storageVars, cbVars
<1>7. CASE FreeSession
  <2>1. cs \in Sessions /\ session' = [session EXCEPT ![cs].state = "freed"]
    BY <1>7, <1>a DEF FreeSession, StopPc, MainPc
  <2>2. session[cs] \in Session
    BY <2>1, <1>a
  <2>3. session'[cs].state = "freed"
    BY <2>1, <2>2, <1>a DEF Session
  <2>4. SessionsMayEnd
    BY <2>1, <1>a, FieldSteps
  <2> QED
    BY <1>7, <2>3, <2>4, <1>a DEF FreeSession, storageVars, cbVars
<1>8. CASE FreeTrainId
  <2>1. UNCHANGED <<storageVars, session, rows, captureSession, now, cbVars>>
    BY <1>8 DEF FreeTrainId
  <2>2. /\ pc = "stopped"
        /\ pc' \in {"poll", "stopped"}
        /\ fault' = "none" => fault = "none"
    BY <1>8 DEF FreeTrainId
  <2> QED
    BY <2>1, <2>2, <1>a, NothingHappens DEF storageVars, cbVars
<1>9. CASE Exit
  BY <1>9, <1>a, NothingHappens DEF Exit, cbVars, storageVars
<1>10. CASE BufferReturned
  BY <1>10, <1>a, NothingHappens DEF BufferReturned, mainVars, storageVars
<1>11. CASE EnterHandler
  BY <1>11, <1>a, NothingHappens DEF EnterHandler, mainVars, storageVars
<1>12. CASE CheckStopping
  BY <1>12, <1>a, NothingHappens DEF CheckStopping, mainVars, storageVars
<1>13. CASE HandlerFault
  BY <1>13, <1>a, NothingHappens DEF HandlerFault, mainVars, cbVars, storageVars
<1>14. CASE Tick
  <2>1. now' \in Nat /\ now <= now'
    BY <1>14, <1>a DEF Tick
  <2> QED
    BY <1>14, <2>1, NothingHappens DEF Tick, mainVars, cbVars, storageVars
<1>15. CASE UNCHANGED vars
  BY <1>15, <1>a, NothingHappens DEF vars, mainVars, cbVars, storageVars
<1> QED
  BY <1>1, <1>2, <1>3, <1>4, <1>5, <1>6, <1>7, <1>8, <1>9, <1>10, <1>11,
     <1>12, <1>13, <1>14, <1>15
-----------------------------------------------------------------------------
(* The other steps, one by one *)

(* What a step of the main thread keeps that leaves the storage and the
   sessions alone *)
LEMMA StorageAndSessionsKept ==
  ASSUME NEW timed \in BOOLEAN, TypeInv, RecorderInv(timed),
         UNCHANGED <<dirs, files, index, session, now, cbPc, cbSession>>
  PROVE  /\ FreshDirs' /\ SessionsInv(timed)' /\ AppendInv'
         /\ PublishedPast(timed)'
BY DEF RecorderInv, FreshDirs, SessionsInv, SessionRight, AppendInv,
       StoredLast, PublishedInv, PublishedPast, Live

LEMMA StartSensorKeeps ==
  ASSUME NEW timed \in BOOLEAN, TypeInv, RecorderInv(timed), RaspirawStartSensor
  PROVE  RecorderInv(timed)'
<1>1. /\ pc = "start_sensor" /\ pc' = "poll"
      /\ captureSession' = cs
      /\ fault = "none" /\ fault' = fault
      /\ UNCHANGED <<dirs, files, index, session, now, cbPc, cbSession>>
  BY DEF RaspirawStartSensor, StoredSession, Running, storageVars, cbVars
<1>2. FreshDirs' /\ SessionsInv(timed)' /\ AppendInv' /\ PublishedPast(timed)'
  BY <1>1, StorageAndSessionsKept
<1>3. MainInv(timed)'
  BY <1>1 DEF MainInv, Starting, Stopping, Writing
<1>4. Unpublished'
  BY <1>1 DEF Unpublished, RecorderInv, PublishedInv, Freeing, Live
<1>5. PublishedBefore(timed)'
  <2> SUFFICES ASSUME NEW s \in Sessions, Active(s)', index[session[s].train] = <<>>
               PROVE  \A u \in TrainIds :
                        Within(timed, index[u], 0, session[s].train)
    BY <1>1 DEF PublishedBefore
  <2>1. Active(s)
    BY <1>1 DEF Active, Live, Starting
  <2> QED
    BY <2>1 DEF RecorderInv, PublishedInv, PublishedBefore
<1> QED
  BY <1>2, <1>3, <1>4, <1>5 DEF RecorderInv, PublishedInv

LEMMA CopyKeeps ==
  ASSUME NEW timed \in BOOLEAN, TypeInv, RecorderInv(timed), IndexCopyFrames
  PROVE  RecorderInv(timed)'
<1>1. /\ pc = "index_copy"
      /\ fault = "none"
      /\ UNCHANGED <<dirs, files, index, session, now, cbPc, cbSession, cs,
                     captureSession>>
  BY DEF IndexCopyFrames, Running, storageVars, cbVars
<1>2. FreshDirs' /\ SessionsInv(timed)' /\ AppendInv' /\ PublishedPast(timed)'
  BY <1>1, StorageAndSessionsKept
<1>3. Live(cs) /\ cs = captureSession /\ cs \in Sessions
  BY <1>1, Typed DEF RecorderInv, MainInv, Stopping, StopPc, MainPc
<1>4. pc' \in Writing => rows' = SubSeq(session[cs].frames, 1, Found)
  BY <1>1 DEF IndexCopyFrames, Writing
<1>5. /\ Promise!Describes(session[cs].frames, files[session[cs].train])
      /\ Within(timed, session[cs].frames, session[cs].train, now)
  BY <1>3 DEF RecorderInv, SessionsInv, SessionRight
<1>6. /\ session[cs].frames \in Seq(Row)
      /\ framesCnt \in Nat
  BY <1>3, Typed, SessionTyped DEF TypeInv, TypeOK
<1>7. Found \in 0 .. Len(session[cs].frames)
  BY <1>6, FoundIsPrefix
<1>8. MainInv(timed)'
  BY <1>1, <1>3, <1>4, <1>5, <1>6, <1>7, DescribesPrefix, WithinPrefix
     DEF MainInv, Live
<1>9. pc' \in {"index_copy", "index_open"}
  BY <1>1 DEF IndexCopyFrames
<1>10. Unpublished'
  BY <1>1 DEF Unpublished, RecorderInv, PublishedInv, Freeing, Live
<1>11. PublishedBefore(timed)'
  BY <1>1, <1>9 DEF PublishedBefore, Active, RecorderInv, PublishedInv, Live,
                     Starting
<1> QED
  BY <1>2, <1>8, <1>10, <1>11 DEF RecorderInv, PublishedInv

(* The stream that is being written has not been published. *)
LEMMA IndexIsEmpty ==
  ASSUME NEW timed \in BOOLEAN, TypeInv, RecorderInv(timed), Running, pc \in Writing
  PROVE  /\ cs \in Sessions
         /\ Live(cs)
         /\ cs = captureSession
         /\ session[cs].train \in TrainIds
         /\ index[session[cs].train] = <<>>
<1>1. /\ fault = "none"
      /\ pc \in Stopping
      /\ pc \in StopPc
      /\ pc \notin Freeing
  BY DEF Running, Writing, Stopping, StopPc, MainPc, Freeing
<1>2. cs \in Sessions /\ Live(cs) /\ cs = captureSession
  BY <1>1, Typed DEF RecorderInv, MainInv
<1> QED
  BY <1>1, <1>2, Typed, SessionTyped DEF RecorderInv, PublishedInv, Unpublished

LEMMA OpenLeavesIndex ==
  ASSUME NEW timed \in BOOLEAN, TypeInv, RecorderInv(timed), IndexOpen
  PROVE  UNCHANGED <<dirs, files, index>>
<1>1. Running /\ pc \in Writing
  BY DEF IndexOpen, Writing
<1>2. index[session[cs].train] = <<>> /\ session[cs].train \in TrainIds
  BY <1>1, IndexIsEmpty
<1>3. /\ UNCHANGED <<dirs, files>>
      /\ index' \in {index, [index EXCEPT ![session[cs].train] = <<>>]}
  BY DEF IndexOpen, StorageOpenIndex, storageVars
<1> QED
  BY <1>2, <1>3, Typed

LEMMA OpenKeeps ==
  ASSUME NEW timed \in BOOLEAN, TypeInv, RecorderInv(timed), IndexOpen
  PROVE  RecorderInv(timed)'
<1>1. /\ pc = "index_open"
      /\ fault = "none"
      /\ pc' \in {"index_write", "free_frames", "index_open"}
      /\ UNCHANGED <<session, now, cbPc, cbSession, cs, rows, captureSession>>
  BY DEF IndexOpen, Running, cbVars
<1>2. UNCHANGED <<dirs, files, index>>
  BY OpenLeavesIndex
<1>3. FreshDirs' /\ SessionsInv(timed)' /\ AppendInv' /\ PublishedPast(timed)'
  BY <1>1, <1>2, StorageAndSessionsKept
<1>4. MainInv(timed)'
  BY <1>1, <1>2 DEF MainInv, RecorderInv, Live, Stopping, Starting, Writing
<1>5. Unpublished'
  BY <1>1, <1>2 DEF Unpublished, RecorderInv, PublishedInv, Freeing, Live
<1>6. PublishedBefore(timed)'
  BY <1>1, <1>2 DEF PublishedBefore, Active, RecorderInv, PublishedInv, Live,
                     Starting
<1> QED
  BY <1>3, <1>4, <1>5, <1>6 DEF RecorderInv, PublishedInv

(* The rows of an index that the main thread may publish *)
Publishable(timed, q) ==
  /\ Joined(timed, q)
  /\ Promise!Describes(q, files[session[cs].train])
  /\ Within(timed, q, session[cs].train, now)

(* Any number of the rows may get to the disk. *)
LEMMA Prefixes ==
  ASSUME NEW timed \in BOOLEAN, TypeInv, RowsInv(timed), RecorderInv(timed),
         pc \in Writing, NEW k \in 0 .. Len(rows)
  PROVE  /\ SubSeq(rows, 1, k) \in Seq(Row)
         /\ Publishable(timed, SubSeq(rows, 1, k))
<1> DEFINE stored == files[session[cs].train]
           t == session[cs].train
           p == SubSeq(rows, 1, k)
<1>1. /\ rows \in Seq(Row)
      /\ Joined(timed, rows)
      /\ Promise!Describes(rows, stored)
      /\ Within(timed, rows, t, now)
  BY Typed DEF RowsInv, RecorderInv, MainInv
<1>2. p \in Seq(Row)
  BY <1>1, PrefixTyped
<1> HIDE DEF stored, t
<1>3. Joined(timed, p) /\ Promise!Describes(p, stored) /\ Within(timed, p, t, now)
  BY <1>1, JoinedPrefix, DescribesPrefix, WithinPrefix
<1> QED
  BY <1>2, <1>3 DEF Publishable, stored, t

(* What is published, if anything is *)
LEMMA Written ==
  ASSUME NEW timed \in BOOLEAN, TypeInv, RowsInv(timed), RecorderInv(timed),
         IndexWrite
  PROVE  \E q \in Seq(Row) :
           /\ index' = [index EXCEPT ![session[cs].train] = q]
           /\ Publishable(timed, q)
<1> DEFINE t == session[cs].train
<1>1. Running /\ pc \in Writing
  BY DEF IndexWrite, Writing
<1>2. index[t] = <<>> /\ t \in TrainIds
  BY <1>1, IndexIsEmpty
<1>3. PICK k \in 0 .. Len(rows) :
        index' = [index EXCEPT ![t] = IF t \in indexed
                                      THEN SubSeq(rows, 1, k) ELSE @]
  BY DEF IndexWrite, StorageWriteIndex
<1>4. CASE t \in indexed
  <2>1. index' = [index EXCEPT ![t] = SubSeq(rows, 1, k)]
    BY <1>3, <1>4
  <2> QED
    BY <1>1, <2>1, Prefixes
<1>5. CASE t \notin indexed
  <2>1. index' = [index EXCEPT ![t] = index[t]]
    BY <1>3, <1>5
  <2>2. index' = [index EXCEPT ![t] = <<>>]
    BY <1>2, <2>1
  <2>3. <<>> \in Seq(Row) /\ Len(<<>>) = 0
    OBVIOUS
  <2>4. Publishable(timed, <<>>)
    BY <2>3, JoinedEmpty DEF Publishable, Promise!Describes, Within
  <2> QED
    BY <2>2, <2>3, <2>4
<1> QED
  BY <1>4, <1>5

LEMMA WriteKeeps ==
  ASSUME NEW timed \in BOOLEAN, TypeInv, RowsInv(timed), WriterInv,
         RecorderInv(timed), IndexWrite
  PROVE  RecorderInv(timed)'
<1> DEFINE t == session[cs].train
<1>1. Running /\ pc \in Writing
  BY DEF IndexWrite, Writing
<1>2. /\ cs \in Sessions
      /\ Live(cs)
      /\ cs = captureSession
      /\ t \in TrainIds
      /\ index[t] = <<>>
  BY <1>1, IndexIsEmpty
<1>3. /\ pc = "index_write"
      /\ fault = "none"
      /\ \/ pc' = "free_frames" /\ fault' = fault
         \/ pc' = pc /\ fault' = "wild_frame"
      /\ UNCHANGED <<dirs, files, session, now, cbPc, cbSession, cs, rows,
                     captureSession>>
  BY DEF IndexWrite, StorageWriteIndex, Running, cbVars
<1>4. PICK q \in Seq(Row) :
        /\ index' = [index EXCEPT ![t] = q]
        /\ Within(timed, q, t, now)
  BY Written DEF Publishable
<1>5. index'[t] = q /\ \A u \in TrainIds \ {t} : index'[u] = index[u]
  BY <1>2, <1>4, Typed
<1>6. SessionsInv(timed)' /\ AppendInv'
  BY <1>3 DEF RecorderInv, SessionsInv, SessionRight, AppendInv, StoredLast, Live
<1>7. FreshDirs'
  <2>1. t \in dirs
    BY <1>2 DEF WriterInv, LiveHasDirectory
  <2> QED
    BY <1>3, <1>5, <2>1 DEF RecorderInv, FreshDirs
<1>8. MainInv(timed)'
  BY <1>3 DEF MainInv, RecorderInv, Live, Stopping, Starting, Writing
<1>9. PublishedPast(timed)'
  <2>0. t \in Nat
    BY <1>2, TrainsAreTimes
  <2>1. 0 <= t
    BY <2>0
  <2>2. \A i \in 1 .. Len(q) : (timed => t <= q[i].start) /\ q[i].start \in Nat
    BY <1>4, RowTyped DEF Within
  <2>3. Within(timed, q, 0, now)
    BY <1>4, <2>2 DEF Within
  <2> QED
    BY <1>3, <1>5, <2>3 DEF RecorderInv, PublishedInv, PublishedPast
<1>10. Unpublished'
  <2> SUFFICES ASSUME NEW s \in Sessions, Live(s),
                      index'[session[s].train] # <<>>, fault' = "none"
               PROVE  s = cs /\ pc' \in Freeing
    BY <1>3 DEF Unpublished, Live
  <2>1. session[s].train \in TrainIds
    BY Typed, SessionTyped
  <2>2. CASE session[s].train = t
    BY <1>2, <1>3, <2>2 DEF WriterInv, OneWriterPerDirectory, Freeing
  <2>3. CASE session[s].train # t
    <3>1. index[session[s].train] # <<>>
      BY <1>5, <2>1, <2>3
    <3> QED
      BY <1>3, <3>1 DEF RecorderInv, PublishedInv, Unpublished, Freeing
  <2> QED
    BY <2>2, <2>3
<1>11. PublishedBefore(timed)'
  <2> SUFFICES ASSUME NEW s \in Sessions, Active(s)',
                      index'[session[s].train] = <<>>, NEW u \in TrainIds
               PROVE  Within(timed, index'[u], 0, session[s].train)
    BY <1>3 DEF PublishedBefore
  <2>1. s = cs /\ Active(s)
    BY <1>2, <1>3 DEF Active, Starting, Live
  <2>2. q = <<>>
    BY <1>5, <2>1
  <2>3. index'[u] = index[u]
    BY <1>2, <1>5, <2>2
  <2> QED
    BY <1>2, <2>1, <2>3 DEF RecorderInv, PublishedInv, PublishedBefore
<1> QED
  BY <1>6, <1>7, <1>8, <1>9, <1>10, <1>11 DEF RecorderInv, PublishedInv

LEMMA StoreChanges ==
  ASSUME TypeInv, StoreFrame
  PROVE  LET t == session[cbSession].train
             n == session[cbSession].frameIndex
         IN  /\ cbSession \in Sessions
             /\ Live(cbSession)
             /\ t \in dirs \/ files' = files
             /\ t \in TrainIds
             /\ n \in Nat
             /\ session'[cbSession].frameIndex = n + 1
             /\ session'[cbSession].train = t
             /\ session'[cbSession].state = session[cbSession].state
             /\ session'[cbSession].frames = session[cbSession].frames
             /\ session'[cbSession].reqTime = session[cbSession].reqTime
             /\ \A s \in Sessions \ {cbSession} : session'[s] = session[s]
             /\ \/ files' = [files EXCEPT ![t] = @ \cup {n}]
                \/ files' = files /\ cbPc' # "append"
             /\ UNCHANGED <<dirs, index, now, fault, mainVars, cbSession>>
<1> DEFINE t == session[cbSession].train
           n == session[cbSession].frameIndex
<1>1. cbSession \in Sessions /\ session \in [Sessions -> Session]
  BY Typed DEF StoreFrame
<1>2. t \in TrainIds /\ n \in Nat /\ session[cbSession] \in Session
  BY <1>1, SessionTyped
<1>3. session' = [session EXCEPT ![cbSession] = Counted(session[cbSession], n + 1)]
  BY DEF StoreFrame, Counted
<1>4. LET c == Counted(session[cbSession], n + 1)
      IN  /\ c.frameIndex = n + 1
          /\ c.train = t
          /\ c.state = session[cbSession].state
          /\ c.frames = session[cbSession].frames
          /\ c.reqTime = session[cbSession].reqTime
  BY <1>2 DEF Counted, Session
<1>5. /\ session'[cbSession] = Counted(session[cbSession], n + 1)
      /\ \A s \in Sessions \ {cbSession} : session'[s] = session[s]
  BY <1>1, <1>3
<1>6. /\ \/ files' = [files EXCEPT ![t] = @ \cup {n}] /\ t \in dirs
         \/ files' = files /\ cbPc' # "append"
      /\ UNCHANGED <<dirs, index>>
  BY DEF StoreFrame, StorageStoreFrame, storageVars, AfterStore, LPX_SUCCESS,
         LPX_IO, STRG_NOT_FOUND
<1>7. UNCHANGED <<now, fault, mainVars, cbSession>> /\ Live(cbSession)
  BY DEF StoreFrame
<1> QED
  BY <1>1, <1>2, <1>4, <1>5, <1>6, <1>7

LEMMA StoreKeeps ==
  ASSUME NEW timed \in BOOLEAN, TypeInv, WriterInv, RecorderInv(timed), StoreFrame
  PROVE  RecorderInv(timed)'
<1> DEFINE w == cbSession
           t == session[w].train
           n == session[w].frameIndex
<1>1. /\ w \in Sessions
      /\ Live(w)
      /\ t \in TrainIds
      /\ n \in Nat
      /\ session'[w].frameIndex = n + 1
      /\ session'[w].train = t
      /\ session'[w].state = session[w].state
      /\ session'[w].frames = session[w].frames
      /\ session'[w].reqTime = session[w].reqTime
      /\ \A s \in Sessions \ {w} : session'[s] = session[s]
      /\ \/ files' = [files EXCEPT ![t] = @ \cup {n}]
         \/ files' = files /\ cbPc' # "append"
      /\ UNCHANGED <<dirs, index, now, fault, mainVars, cbSession>>
  BY StoreChanges
<1>2. /\ \A u \in TrainIds : files[u] \subseteq files'[u]
      /\ \A u \in TrainIds \ {t} : files'[u] = files[u]
      /\ files'[t] \subseteq files[t] \cup {n}
      /\ cbPc' = "append" => n \in files'[t]
  BY <1>1, Typed
<1>3. \A s \in Sessions : /\ session'[s].train = session[s].train
                          /\ session'[s].state = session[s].state
                          /\ session'[s].frames = session[s].frames
                          /\ session'[s].reqTime = session[s].reqTime
                          /\ session[s].train \in TrainIds
  BY <1>1, Typed, SessionTyped
<1>4. t \in dirs
  BY <1>1 DEF WriterInv, LiveHasDirectory
<1>5. FreshDirs'
  BY <1>1, <1>2, <1>4 DEF RecorderInv, FreshDirs
<1>6. SessionRight(timed, w)
  BY <1>1 DEF RecorderInv, SessionsInv
<1>7. SessionsInv(timed)'
  <2> SUFFICES ASSUME NEW s \in Sessions, Live(s)
               PROVE  SessionRight(timed, s)'
    BY <1>3 DEF SessionsInv, Live
  <2>1. SessionRight(timed, s)
    BY DEF RecorderInv, SessionsInv
  <2>2. \A k \in files'[session[s].train] : k < session'[s].frameIndex
    <3>1. CASE s = w
      <4>1. \A k \in files[t] : k \in Nat /\ k < n
        BY <1>1, <1>6, Typed DEF SessionRight
      <4> QED
        BY <1>1, <1>2, <3>1, <4>1
    <3>2. CASE s # w
      <4>1. session[s].train # t
        BY <1>1, <3>2 DEF WriterInv, OneWriterPerDirectory
      <4> QED
        BY <1>1, <1>2, <1>3, <2>1, <3>2, <4>1 DEF SessionRight
    <3> QED
      BY <3>1, <3>2
  <2>3. Promise!Describes(session[s].frames, files'[session[s].train])
    BY <1>2, <1>3, <2>1, DescribesMore DEF SessionRight
  <2> QED
    BY <1>1, <1>3, <2>1, <2>2, <2>3 DEF SessionRight
<1>8. AppendInv'
  <2> SUFFICES ASSUME cbPc' = "append"
               PROVE  StoredLast(w)'
    BY <1>1 DEF AppendInv
  <2>1. session'[w].frameIndex - 1 = n
    BY <1>1
  <2>2. \A i \in 1 .. Len(session[w].frames) :
          session[w].frames[i].frame \in files[t]
    BY <1>6 DEF SessionRight, Promise!Describes
  <2>3. \A k \in files[t] : k < n
    BY <1>6 DEF SessionRight
  <2> QED
    BY <1>1, <1>2, <2>1, <2>2, <2>3 DEF StoredLast
<1>9. MainInv(timed)'
  <2>1. UNCHANGED <<pc, cs, captureSession, rows, now>>
    BY <1>1 DEF mainVars
  <2>2. pc \in Starting \cup Stopping => cs \in Sessions
    BY Typed DEF Starting, Stopping, StopPc, MainPc
  <2>3. pc \in Writing => pc \in Starting \cup Stopping
    BY DEF Writing, Stopping
  <2>4. ASSUME pc \in Writing
        PROVE  Promise!Describes(rows, files'[session[cs].train])
    <3>1. cs \in Sessions
      BY <2>2, <2>3, <2>4
    <3>2. files[session[cs].train] \subseteq files'[session[cs].train]
      BY <1>2, <1>3, <3>1
    <3> QED
      BY <2>4, <3>2, DescribesMore DEF RecorderInv, MainInv
  <2> QED
    BY <1>3, <2>1, <2>2, <2>3, <2>4 DEF RecorderInv, MainInv, Live
<1>10. PublishedInv(timed)'
  <2>1. UNCHANGED <<pc, cs, captureSession, index, fault, now>>
    BY <1>1 DEF mainVars
  <2>2. \A s \in Sessions : Active(s)' <=> Active(s)
    BY <1>3, <2>1 DEF Active, Live
  <2>3. PublishedPast(timed)'
    BY <2>1 DEF RecorderInv, PublishedInv, PublishedPast
  <2>4. Unpublished'
    BY <1>3, <2>1 DEF RecorderInv, PublishedInv, Unpublished, Live
  <2>5. PublishedBefore(timed)'
    BY <1>3, <2>1, <2>2 DEF RecorderInv, PublishedInv, PublishedBefore
  <2> QED
    BY <2>3, <2>4, <2>5 DEF PublishedInv
<1> QED
  BY <1>5, <1>7, <1>8, <1>9, <1>10 DEF RecorderInv

LEMMA AppendChanges ==
  ASSUME TypeInv, AppendFrame
  PROVE  /\ cbPc = "append"
         /\ cbPc' = "idle"
         /\ cbSession \in Sessions
         /\ NewRow(cbSession) \in Row
         /\ session'[cbSession].frames = Append(session[cbSession].frames, NewRow(cbSession))
         /\ session'[cbSession].reqTime = now
         /\ session'[cbSession].frameIndex = session[cbSession].frameIndex
         /\ session'[cbSession].train = session[cbSession].train
         /\ session'[cbSession].state = session[cbSession].state
         /\ \A s \in Sessions \ {cbSession} : session'[s] = session[s]
         /\ UNCHANGED <<dirs, files, index, now, fault, mainVars, cbSession>>
<1> DEFINE w == cbSession
           q == Append(session[w].frames, NewRow(w))
<1>1. /\ w \in Sessions
      /\ session \in [Sessions -> Session]
      /\ now \in Nat
      /\ session[w].frameIndex > 0
  BY Typed DEF AppendFrame, TypeInv, PointersValid
<1>2. /\ session[w] \in Session
      /\ session[w].frames \in Seq(Row)
      /\ session[w].reqTime \in Nat
      /\ session[w].frameIndex \in Nat
  BY <1>1, SessionTyped
<1>3. session[w].frameIndex - 1 \in Nat
  BY <1>1, <1>2
<1>4. NewRow(w) \in Row
  BY <1>1, <1>2, <1>3 DEF NewRow, Row
<1>5. session' = [session EXCEPT ![w] = Extended(session[w], q, now)]
  BY DEF AppendFrame, NextRequestTime, Extended
<1>6. q \in Seq(Row)
  BY <1>2, <1>4
<1> HIDE DEF q
<1>7. LET e == Extended(session[w], q, now)
      IN  /\ e.frames = q
          /\ e.reqTime = now
          /\ e.frameIndex = session[w].frameIndex
          /\ e.train = session[w].train
          /\ e.state = session[w].state
  BY <1>1, <1>2, <1>6 DEF Extended, Session
<1>8. /\ session'[w] = Extended(session[w], q, now)
      /\ \A s \in Sessions \ {w} : session'[s] = session[s]
  BY <1>1, <1>5
<1>9. /\ cbPc = "append"
      /\ cbPc' = "idle"
      /\ UNCHANGED <<dirs, files, index, now, fault, mainVars, cbSession>>
  BY DEF AppendFrame, storageVars
<1> QED
  BY <1>1, <1>4, <1>7, <1>8, <1>9 DEF q

LEMMA AppendKeeps ==
  ASSUME NEW timed \in BOOLEAN, TypeInv, RowsInv(timed), RecorderInv(timed), AppendFrame
  PROVE  RecorderInv(timed)'
<1> DEFINE w == cbSession
           row == NewRow(w)
<1>1. /\ cbPc = "append"
      /\ cbPc' = "idle"
      /\ w \in Sessions
      /\ row \in Row
      /\ session'[w].frames = Append(session[w].frames, row)
      /\ session'[w].reqTime = now
      /\ session'[w].frameIndex = session[w].frameIndex
      /\ session'[w].train = session[w].train
      /\ session'[w].state = session[w].state
      /\ \A s \in Sessions \ {w} : session'[s] = session[s]
      /\ UNCHANGED <<dirs, files, index, now, fault, mainVars, cbSession>>
  BY AppendChanges
<1>2. \A s \in Sessions : /\ session'[s].train = session[s].train
                          /\ session'[s].state = session[s].state
  BY <1>1
<1>3. row.start = session[w].reqTime /\ row.end = now
        /\ row.frame = session[w].frameIndex - 1
  BY DEF NewRow
<1> HIDE DEF row
<1>4. SessionsInv(timed)'
  <2> SUFFICES ASSUME NEW s \in Sessions, Live(s)
               PROVE  SessionRight(timed, s)'
    BY <1>2 DEF SessionsInv, Live
  <2>1. SessionRight(timed, s)
    BY DEF RecorderInv, SessionsInv
  <2>2. CASE s # w
    BY <1>1, <2>1, <2>2 DEF SessionRight
  <2>3. CASE s = w
    <3>1. /\ session[w].frames \in Seq(Row)
          /\ session[w].train \in Nat
          /\ session[w].reqTime \in Nat
          /\ now \in Nat
      BY <1>1, Typed, SessionTyped
    <3>2. timed => session[w].train <= session[w].reqTime /\ session[w].reqTime <= now
      BY <1>1, <2>1, <2>3 DEF SessionRight, RowsInv
    <3>3. StoredLast(w)
      BY <1>1, <2>3 DEF RecorderInv, AppendInv
    <3>4. Promise!Describes(Append(session[w].frames, row), files[session[w].train])
      BY <1>1, <1>3, <2>1, <2>3, <3>1, <3>3, DescribesAppend
         DEF SessionRight, StoredLast
    <3>5. Within(timed, Append(session[w].frames, row), session[w].train, now)
      BY <1>1, <1>3, <2>1, <2>3, <3>1, <3>2, WithinAppend DEF SessionRight
    <3>6. timed => session[w].train <= now
      BY <3>1, <3>2
    <3> QED
      BY <1>1, <2>1, <2>3, <3>4, <3>5, <3>6 DEF SessionRight
  <2> QED
    BY <2>2, <2>3
<1>5. UNCHANGED <<dirs, files, index, now, fault, pc, cs, captureSession, rows>>
  BY <1>1 DEF mainVars
<1>6. FreshDirs' /\ AppendInv' /\ PublishedPast(timed)'
  BY <1>1, <1>5 DEF RecorderInv, FreshDirs, AppendInv, PublishedInv, PublishedPast
<1>7. MainInv(timed)'
  <2>1. pc \in Starting \cup Stopping => cs \in Sessions
    BY Typed DEF Starting, Stopping, StopPc, MainPc
  <2>2. pc \in Writing => pc \in Starting \cup Stopping
    BY DEF Writing, Stopping
  <2> QED
    BY <1>2, <1>5, <2>1, <2>2 DEF RecorderInv, MainInv, Live
<1>8. Unpublished'
  BY <1>2, <1>5 DEF RecorderInv, PublishedInv, Unpublished, Live
<1>9. PublishedBefore(timed)'
  <2>1. \A s \in Sessions : Active(s)' <=> Active(s)
    BY <1>2, <1>5 DEF Active, Live
  <2> QED
    BY <1>2, <1>5, <2>1 DEF RecorderInv, PublishedInv, PublishedBefore
<1> QED
  BY <1>4, <1>6, <1>7, <1>8, <1>9 DEF RecorderInv, PublishedInv

(* A new session finds nothing in its directory, and all that is published
   behind it. *)
LEMMA BeginKeeps ==
  ASSUME NEW timed \in BOOLEAN, TypeInv, RecorderInv(timed), HandleTrainIn
  PROVE  RecorderInv(timed)'
<1> DEFINE w == allocated'
<1>1. /\ w \in Sessions
      /\ w = allocated + 1
      /\ allocated \in Nat
      /\ session \in [Sessions -> Session]
      /\ now \in TrainIds
      /\ now \in Nat
  BY BoundsAssumption, TrainIdsAssumption, Typed
     DEF HandleTrainIn, TypeInv, TypeOK, Sessions
<1>2. /\ pc = "poll"
      /\ UNCHANGED <<files, index, now, fault, captureSession, rows, cbVars>>
      /\ dirs \subseteq dirs'
  BY DEF HandleTrainIn, StoragePrepare, storageVars
<1>3. \/ /\ session' = [session EXCEPT ![w] = NewSession]
         /\ cs' = w
         /\ pc' = "start_raspiraw"
         /\ now \notin dirs
         /\ dirs' = dirs \cup {now}
      \/ /\ session' = [session EXCEPT ![w].state = "freed"]
         /\ cs' = cs
         /\ pc' = pc
  BY DEF HandleTrainIn, StoragePrepare, LPX_SUCCESS, LPX_IO, STRG_EXISTS
<1>4. /\ session'[w].state = "live" =>
           /\ session'[w] = NewSession
           /\ now \notin dirs
           /\ cs' = w /\ pc' = "start_raspiraw"
      /\ \A s \in Sessions \ {w} : session'[s] = session[s]
  <2>1. CASE /\ session' = [session EXCEPT ![w] = NewSession]
             /\ cs' = w
             /\ pc' = "start_raspiraw"
             /\ now \notin dirs
    <3> HIDE DEF NewSession
    <3> QED
      BY <1>1, <2>1
  <2>2. CASE session' = [session EXCEPT ![w].state = "freed"]
    <3>1. session'[w].state = "freed"
      BY <1>1, <2>2 DEF Session
    <3>2. \A s \in Sessions \ {w} : session'[s] = session[s]
      BY <1>1, <2>2
    <3> QED
      BY <3>1, <3>2
  <2> QED
    BY <1>3, <2>1, <2>2
<1>5. \/ pc' = "poll"
      \/ pc' = "start_raspiraw" /\ cs' = w /\ session'[w] = NewSession
  BY <1>1, <1>2, <1>3
<1>6. /\ NewSession.train = now
      /\ NewSession.state = "live"
      /\ NewSession.frames = <<>>
      /\ NewSession.reqTime = now
  BY DEF NewSession, FirstRequestTime
<1> HIDE DEF NewSession, w
<1>7. FreshDirs'
  BY <1>2 DEF RecorderInv, FreshDirs
<1>8. now \notin dirs => files[now] = {} /\ index[now] = <<>>
  BY <1>1 DEF RecorderInv, FreshDirs
<1>9. captureSession # w /\ (cbPc = "append" => cbSession # w /\ cbSession \in Sessions)
  <2>1. /\ captureSession # NULL => captureSession \in 1 .. allocated
        /\ cbPc = "append" => cbSession \in 1 .. allocated
    BY DEF TypeInv, PointersValid, Allocated
  <2>2. w \notin 1 .. allocated /\ w # NULL
    BY <1>1 DEF NULL
  <2>3. cbPc = "append" => cbSession \in Sessions
    BY Typed
  <2> QED
    BY <2>1, <2>2, <2>3
<1>10. SessionsInv(timed)'
  <2> SUFFICES ASSUME NEW s \in Sessions, session'[s].state = "live"
               PROVE  SessionRight(timed, s)'
    BY DEF SessionsInv, Live
  <2>1. CASE s # w
    BY <1>2, <1>4, <2>1 DEF RecorderInv, SessionsInv, SessionRight, Live
  <2>2. CASE s = w
    <3>1. session'[s] = NewSession /\ files[now] = {}
      BY <1>4, <1>8, <2>2
    <3>2. Promise!Describes(<<>>, {}) /\ Within(timed, <<>>, now, now)
      <4>1. Len(<<>>) = 0
        OBVIOUS
      <4> QED
        BY <4>1 DEF Promise!Describes, Within
    <3>3. now <= now
      BY <1>1
    <3> QED
      BY <1>2, <1>6, <3>1, <3>2, <3>3 DEF SessionRight
  <2> QED
    BY <2>1, <2>2
<1>11. AppendInv'
  BY <1>2, <1>4, <1>9 DEF RecorderInv, AppendInv, StoredLast, Live, cbVars
<1>12. MainInv(timed)'
  BY <1>5, <1>6 DEF MainInv, Starting, Stopping, Writing, Live
<1>13. PublishedPast(timed)'
  BY <1>2 DEF RecorderInv, PublishedInv, PublishedPast
<1>14. Unpublished'
  <2> SUFFICES ASSUME NEW s \in Sessions, session'[s].state = "live",
                      index[session'[s].train] # <<>>, fault = "none"
               PROVE  FALSE
    BY <1>2 DEF Unpublished, Live
  <2>1. CASE s # w
    BY <1>2, <1>4, <2>1 DEF RecorderInv, PublishedInv, Unpublished, Freeing, Live
  <2>2. CASE s = w
    BY <1>4, <1>6, <1>8, <2>2
  <2> QED
    BY <2>1, <2>2
<1>15. PublishedBefore(timed)'
  <2> SUFFICES ASSUME NEW s \in Sessions, Active(s)',
                      index[session'[s].train] = <<>>
               PROVE  \A u \in TrainIds :
                        Within(timed, index[u], 0, session'[s].train)
    BY <1>2 DEF PublishedBefore
  <2>1. CASE s # w
    <3>1. Live(s) /\ s = captureSession
      BY <1>2, <1>4, <1>5, <2>1 DEF Active, Live, Starting
    <3> QED
      BY <1>4, <2>1, <3>1
         DEF RecorderInv, PublishedInv, PublishedBefore, Active
  <2>2. CASE s = w
    <3>1. session'[s].train = now
      BY <1>4, <1>6, <2>2 DEF Active, Live
    <3> QED
      BY <3>1 DEF RecorderInv, PublishedInv, PublishedPast
  <2> QED
    BY <2>1, <2>2
<1> QED
  BY <1>7, <1>10, <1>11, <1>12, <1>13, <1>14, <1>15 DEF RecorderInv, PublishedInv
-----------------------------------------------------------------------------
LEMMA RecorderInvStep ==
  ASSUME NEW timed \in BOOLEAN, TypeInv, RowsInv(timed), WriterInv,
         RecorderInv(timed), [Next]_vars
  PROVE  RecorderInv(timed)'
<1>1. CASE HandleTrainIn
  BY <1>1, BeginKeeps
<1>2. CASE RaspirawStartSensor
  BY <1>2, StartSensorKeeps
<1>3. CASE IndexCopyFrames
  BY <1>3, CopyKeeps
<1>4. CASE IndexOpen
  BY <1>4, OpenKeeps
<1>5. CASE IndexWrite
  BY <1>5, WriteKeeps
<1>6. CASE StoreFrame
  BY <1>6, StoreKeeps
<1>7. CASE AppendFrame
  BY <1>7, AppendKeeps
<1>8. CASE \/ RaspirawSetUserData \/ HandleTrainLeave \/ HandleKey
           \/ SetStopping \/ RaspirawStop \/ IndexReadSize \/ FreeFrames
           \/ FreeSession \/ FreeTrainId \/ Exit \/ BufferReturned
           \/ EnterHandler \/ CheckStopping \/ HandlerFault \/ Tick
           \/ UNCHANGED vars
  BY <1>8, QuietSteps, QuietKeeps
<1> QED
  BY <1>1, <1>2, <1>3, <1>4, <1>5, <1>6, <1>7, <1>8
     DEF Next, MainStep, CallbackStep, Terminated

LEMMA RecorderInvInit ==
  ASSUME NEW timed \in BOOLEAN, Init
  PROVE  RecorderInv(timed)
<1>1. /\ dirs = {}
      /\ files = [t \in TrainIds |-> {}]
      /\ index = [t \in TrainIds |-> <<>>]
      /\ pc = "poll"
      /\ cbPc = "idle"
  BY DEF Init, StorageInit
<1>2. \A s \in Sessions : ~Live(s)
  BY DEF Init, UnusedSession, Live
<1>3. Len(<<>>) = 0
  OBVIOUS
<1>4. PublishedPast(timed)
  BY <1>1, <1>3 DEF PublishedPast, Within
<1> QED
  BY <1>1, <1>2, <1>4
     DEF RecorderInv, FreshDirs, SessionsInv, AppendInv, MainInv, Starting,
         Stopping, Writing, PublishedInv, Unpublished, PublishedBefore, Active
-----------------------------------------------------------------------------
(* What the steps are for the recorder *)

LEMMA BeginAllowed ==
  ASSUME HandleTrainIn, TypeInv
  PROVE  Promise!Begin \/ UNCHANGED <<dirs, files, index>>
<1>1. now \in TrainIds
  BY TrainIdsAssumption DEF TypeInv, TypeOK
<1> QED
  BY <1>1 DEF HandleTrainIn, StoragePrepare, storageVars, Promise!Begin

LEMMA StoreAllowed ==
  ASSUME NEW timed \in BOOLEAN, TypeInv, RecorderInv(timed), StoreFrame
  PROVE  Promise!Store \/ UNCHANGED <<dirs, files, index>>
<1> DEFINE t == session[cbSession].train
           n == session[cbSession].frameIndex
<1>1. /\ cbSession \in Sessions
      /\ Live(cbSession)
      /\ t \in dirs \/ files' = files
      /\ t \in TrainIds
      /\ \/ files' = [files EXCEPT ![t] = @ \cup {n}]
         \/ files' = files
      /\ UNCHANGED <<dirs, index>>
  BY StoreChanges
<1>2. \A k \in files[t] : k < n
  BY <1>1 DEF RecorderInv, SessionsInv, SessionRight
<1> HIDE DEF t, n
<1>3. CASE files' = [files EXCEPT ![t] = @ \cup {n}] /\ t \in dirs
  <2>1. n \in files'[t]
    BY <1>1, <1>3, Typed
  <2> QED
    BY <1>1, <1>2, <1>3, <2>1 DEF Promise!Store
<1> QED
  BY <1>1, <1>3

(* Publish of Recorder, with what it says of times *)
Publishes(timed) ==
  /\ \E t \in dirs :
       /\ index[t] = <<>>
       /\ index'[t] # <<>>
       /\ Promise!NoGap(index'[t])
       /\ Promise!Describes(index'[t], files[t])
       /\ timed =>
            /\ Promise!Forward(index'[t])
            /\ \A u \in dirs : index[u] # <<>> =>
                               ~Promise!Overlap(index'[t], index[u])
       /\ index' = [index EXCEPT ![t] = index'[t]]
  /\ UNCHANGED <<dirs, files>>

LEMMA PublishAllowed ==
  ASSUME NEW timed \in BOOLEAN, TypeInv, WriterInv, RecorderInv(timed),
         Running, pc \in Writing, UNCHANGED <<dirs, files>>,
         NEW q \in Seq(Row), Publishable(timed, q),
         index' = [index EXCEPT ![session[cs].train] = q]
  PROVE  Publishes(timed) \/ UNCHANGED <<dirs, files, index>>
<1> DEFINE t == session[cs].train
<1>1. /\ cs \in Sessions
      /\ Live(cs)
      /\ cs = captureSession
      /\ t \in TrainIds
      /\ index[t] = <<>>
  BY IndexIsEmpty
<1>2. t \in dirs /\ t \in Nat
  BY <1>1, TrainsAreTimes DEF WriterInv, LiveHasDirectory
<1>3. index'[t] = q /\ index \in [TrainIds -> Seq(Row)]
  BY <1>1, Typed
<1>4. \A u \in TrainIds : Within(timed, index[u], 0, t)
  BY <1>1 DEF RecorderInv, PublishedInv, PublishedBefore, Active
<1>5. CASE q = <<>>
  BY <1>1, <1>3, <1>5
<1>6. CASE q # <<>>
  <2>1. Promise!NoGap(q) /\ (timed => Promise!Forward(q))
    BY DEF Publishable, Joined, Promise!NoGap, Promise!Forward
  <2>2. ASSUME timed, NEW u \in dirs, index[u] # <<>>
        PROVE  ~Promise!Overlap(q, index[u])
    <3>1. u \in TrainIds
      BY DEF TypeInv, TypeOK, StorageTypeOK
    <3>2. index[u] \in Seq(Row) /\ Within(TRUE, index[u], 0, t)
      BY <1>3, <1>4, <2>2, <3>1 DEF Within
    <3>3. Within(TRUE, q, t, now)
      BY <2>2 DEF Publishable, Within
    <3> HIDE DEF t
    <3> QED
      BY <1>2, <1>6, <2>2, <3>2, <3>3, BeforeIsApart
  <2>3. Promise!Describes(q, files[t])
    BY DEF Publishable
  <2> HIDE DEF t
  <2>4. index' = [index EXCEPT ![t] = index'[t]]
    BY <1>3 DEF t
  <2>5. Publishes(timed)
    BY <1>1, <1>2, <1>3, <1>6, <2>1, <2>2, <2>3, <2>4 DEF Publishes
  <2> QED
    BY <2>5
<1> QED
  BY <1>5, <1>6

(* A step of a run is one of Recorder, or does not concern it. *)
Allowed(timed) ==
  \/ Promise!Begin
  \/ Promise!Store
  \/ Publishes(timed)
  \/ UNCHANGED <<dirs, files, index>>

LEMMA StepAllowed ==
  ASSUME NEW timed \in BOOLEAN, TypeInv, RowsInv(timed), WriterInv,
         RecorderInv(timed), [Next]_vars
  PROVE  Allowed(timed)
<1>1. CASE HandleTrainIn
  BY <1>1, BeginAllowed DEF Allowed
<1>2. CASE StoreFrame
  BY <1>2, StoreAllowed DEF Allowed
<1>3. CASE IndexWrite
  <2>1. Running /\ pc \in Writing /\ UNCHANGED <<dirs, files>>
    BY <1>3 DEF IndexWrite, Writing, StorageWriteIndex
  <2> QED
    BY <1>3, <2>1, Written, PublishAllowed DEF Allowed
<1>4. CASE IndexOpen
  BY <1>4, OpenLeavesIndex DEF Allowed
<1>5. CASE RaspirawStartSensor \/ IndexCopyFrames \/ AppendFrame
  BY <1>5 DEF RaspirawStartSensor, IndexCopyFrames, AppendFrame, storageVars,
              Allowed
<1>6. CASE \/ RaspirawSetUserData \/ HandleTrainLeave \/ HandleKey
           \/ SetStopping \/ RaspirawStop \/ IndexReadSize \/ FreeFrames
           \/ FreeSession \/ FreeTrainId \/ Exit \/ BufferReturned
           \/ EnterHandler \/ CheckStopping \/ HandlerFault \/ Tick
           \/ UNCHANGED vars
  BY <1>6, QuietSteps DEF QuietStep, Allowed
<1> QED
  BY <1>1, <1>2, <1>3, <1>4, <1>5, <1>6
     DEF Next, MainStep, CallbackStep, Terminated

LEMMA AllowedByRecorder ==
  ASSUME Allowed(TRUE)
  PROVE  [Promise!Next]_<<dirs, files, index, FALSE>>
<1>1. Publishes(TRUE) => Promise!Publish
  BY DEF Publishes, Promise!Publish
<1> QED
  BY <1>1 DEF Allowed, Promise!Next

LEMMA InitAllowed == Init => Promise!Init
BY DEF Init, StorageInit, Promise!Init

(***************************************************************************)
(* Whatever the two threads, the trains, the clock and the file system do, *)
(* lpx-control keeps the promise of module Recorder.                       *)
(***************************************************************************)
THEOREM PromiseKept == Spec => ImplementsRecorder
<1>1. Init => AllInv(TRUE)
  BY TypeInvInit, RowsInvInit, WriterInvInit, RecorderInvInit DEF AllInv
<1>2. AllInv(TRUE) /\ [Next]_vars => AllInv(TRUE)'
  BY TypeInvStep, RowsInvStep, WriterInvStep, RecorderInvStep DEF AllInv
<1>3. AllInv(TRUE) /\ [Next]_vars => [Promise!Next]_<<dirs, files, index, FALSE>>
  BY StepAllowed, AllowedByRecorder DEF AllInv
<1> QED
  BY <1>1, <1>2, <1>3, InitAllowed, PTL
     DEF Spec, ImplementsRecorder, Promise!Spec
-----------------------------------------------------------------------------
(***************************************************************************)
(* Frames that are lost.  Each frame on disk is in the list of its         *)
(* session, except the one that has been stored and not been appended.     *)
(* Once `stopping' is set, at most one more frame is stored, the one whose *)
(* test of `stopping' came before; it may be the one that is being stored  *)
(* or the one that is waiting for its row, but the callback thread is in   *)
(* one place only.                                                         *)
(***************************************************************************)
CountingPc == {"index_copy", "index_open", "index_write", "free_frames"}
StoppedPc == {"raspiraw_stop", "index_size", "free_session"} \cup CountingPc

Stored(s) == Cardinality(files[session[s].train])

(* The frame of s the callback thread is about to append, or to store *)
Waiting(s) == IF cbPc = "append" /\ cbSession = s THEN 1 ELSE 0
Handling(s) == IF cbPc = "store" /\ cbSession = s THEN 1 ELSE 0

FilesFinite == \A t \in TrainIds : IsFiniteSet(files[t])

ListComplete ==
  \A s \in Sessions :
    Live(s) => Stored(s) <= Len(session[s].frames) + Waiting(s)

StoppingSet == pc \in StoppedPc => session[cs].stopping

CountComplete ==
  pc \in CountingPc => Stored(cs) + Handling(cs) <= framesCnt + 1

LossInv == FilesFinite /\ ListComplete /\ StoppingSet /\ CountComplete

LEMMA Counts ==
  ASSUME TypeInv, FilesFinite
  PROVE  /\ \A s \in Sessions : Stored(s) \in Nat
         /\ \A s \in Sessions : Len(session[s].frames) \in Nat
         /\ \A s : Waiting(s) \in 0 .. 1 /\ Handling(s) \in 0 .. 1
         /\ \A s : Waiting(s) + Handling(s) <= 1
         /\ framesCnt \in Nat
<1>1. ASSUME NEW s \in Sessions
      PROVE  Stored(s) \in Nat /\ Len(session[s].frames) \in Nat
  <2>1. session[s].train \in TrainIds /\ session[s].frames \in Seq(Row)
    BY Typed, SessionTyped
  <2> QED
    BY <2>1, FS_CardinalityType DEF FilesFinite, Stored
<1>2. framesCnt \in Nat
  BY DEF TypeInv, TypeOK
<1>3. \A s : /\ Waiting(s) \in 0 .. 1 /\ Handling(s) \in 0 .. 1
             /\ Waiting(s) + Handling(s) <= 1
  BY DEF Waiting, Handling
<1> QED
  BY <1>1, <1>2, <1>3
-----------------------------------------------------------------------------
(* Steps that neither store a frame nor append one *)

StoppingKept == \A s \in Sessions : session[s].stopping => session'[s].stopping

CallbackGoesOn ==
  /\ cbPc' = "append" <=> cbPc = "append"
  /\ cbPc \in {"store", "append"} => cbSession' = cbSession
  /\ cbPc' = "store" => \/ cbPc = "store"
                        \/ /\ cbSession' = cbSession
                           /\ FALSE \in StoppingRead(cbSession)

StopGoesOn ==
  /\ pc' \in StoppedPc => \/ pc \in StoppedPc /\ cs' = cs
                          \/ session'[cs'].stopping
  /\ pc' \in CountingPc =>
       /\ cs' = cs
       /\ \/ pc \in CountingPc /\ framesCnt' = framesCnt
          \/ pc = "index_size" /\ framesCnt' >= Len(session[cs].frames)

NoFrameStep ==
  /\ UNCHANGED files
  /\ SessionsMayEnd
  /\ StoppingKept
  /\ CallbackGoesOn
  /\ StopGoesOn
  /\ pc' \in StoppedPc => SessionsStay

LEMMA NoFrameKeeps ==
  ASSUME TypeInv, TypeInv', RecorderInv(TRUE), RecorderInv(TRUE)', LossInv,
         NoFrameStep
  PROVE  LossInv'
<1> USE DEF NoFrameStep
<1>1. FilesFinite'
  BY DEF LossInv, FilesFinite
<1>2. \A s \in Sessions :
        session'[s].state = "live" => /\ Live(s)
                                      /\ Stored(s)' = Stored(s)
                                      /\ session'[s].frames = session[s].frames
  BY DEF SessionsMayEnd, SameSession, Stored
<1>3. \A s : Waiting(s)' = Waiting(s)
  BY DEF CallbackGoesOn, Waiting
<1>4. ListComplete'
  BY <1>2, <1>3 DEF LossInv, ListComplete, Live
<1>5. StoppingSet'
  BY Typed DEF LossInv, StoppingSet, StopGoesOn, StoppingKept, StoppedPc,
               CountingPc, StopPc, MainPc
<1>6. CountComplete'
  <2> SUFFICES ASSUME pc' \in CountingPc
               PROVE  Stored(cs)' + Handling(cs)' <= framesCnt' + 1
    BY DEF CountComplete
  <2>1. /\ cs' = cs
        /\ pc \in StoppedPc /\ pc' \in StoppedPc
        /\ pc \in StopPc
        /\ pc \in Stopping
    BY DEF StopGoesOn, StoppedPc, CountingPc, StopPc, MainPc, Stopping
  <2>2. cs \in Sessions /\ Live(cs)
    BY <2>1, Typed DEF RecorderInv, MainInv
  <2>3. session'[cs].state = "live"
    BY <2>1, <2>2 DEF SessionsStay
  <2>4. Stored(cs)' = Stored(cs)
    BY <1>2, <2>1, <2>2, <2>3 DEF Stored
  <2>5. session[cs].stopping
    BY <2>1 DEF LossInv, StoppingSet
  <2>6. cbPc' = "store" /\ cbSession' = cs => cbPc = "store" /\ cbSession = cs
    <3>1. StoppingRead(cs) = {session[cs].stopping}
      BY <2>2 DEF StoppingRead
    <3>2. FALSE \notin StoppingRead(cs)
      BY <2>5, <3>1
    <3> QED
      BY <3>2 DEF CallbackGoesOn
  <2>7. Handling(cs)' = IF cbPc' = "store" /\ cbSession' = cs THEN 1 ELSE 0
    BY <2>1 DEF Handling
  <2>8. /\ Handling(cs)' \in 0 .. 1
        /\ Handling(cs)' <= Handling(cs)
    BY <2>6, <2>7 DEF Handling
  <2>9. /\ Stored(cs) \in Nat
        /\ Len(session[cs].frames) \in Nat
        /\ Waiting(cs) \in 0 .. 1
        /\ Handling(cs) \in 0 .. 1
        /\ Waiting(cs) + Handling(cs) <= 1
        /\ framesCnt \in Nat
    BY <2>2, Counts DEF LossInv
  <2>10. framesCnt' \in Nat
    BY DEF TypeInv, TypeOK
  <2>11. CASE pc \in CountingPc /\ framesCnt' = framesCnt
    <3>1. Stored(cs) + Handling(cs) <= framesCnt + 1
      BY <2>11 DEF LossInv, CountComplete
    <3> QED
      BY <2>4, <2>8, <2>9, <2>11, <3>1
  <2>12. CASE framesCnt' >= Len(session[cs].frames)
    <3>1. Stored(cs) <= Len(session[cs].frames) + Waiting(cs)
      BY <2>2 DEF LossInv, ListComplete
    <3>2. Stored(cs) + Handling(cs) <= Len(session[cs].frames) + 1
      BY <2>9, <3>1
    <3> QED
      BY <2>4, <2>8, <2>9, <2>10, <2>12, <3>2
  <2> QED
    BY <2>11, <2>12 DEF StopGoesOn
<1> QED
  BY <1>1, <1>4, <1>5, <1>6 DEF LossInv

LEMMA SameSessionsKeep ==
  ASSUME UNCHANGED session
  PROVE  SessionsMayEnd /\ SessionsStay /\ StoppingKept
BY NothingHappens DEF StoppingKept

LEMMA FieldsKeepStopping ==
  ASSUME session \in [Sessions -> Session], NEW w \in Sessions,
         \/ session' = [session EXCEPT ![w].stopping = TRUE]
         \/ session' = [session EXCEPT ![w].listLive = FALSE]
         \/ session' = [session EXCEPT ![w].state = "freed"]
  PROVE  StoppingKept
<1>1. session[w] \in Session
  OBVIOUS
<1>2. \A s \in Sessions \ {w} : session'[s] = session[s]
  OBVIOUS
<1>3. session'[w] \in {[session[w] EXCEPT !.stopping = TRUE],
                       [session[w] EXCEPT !.listLive = FALSE],
                       [session[w] EXCEPT !.state = "freed"]}
  BY Zenon
<1>4. session'[w].stopping \in {TRUE, session[w].stopping}
  BY <1>1, <1>3 DEF Session
<1> QED
  BY <1>2, <1>4 DEF StoppingKept

(* The steps of the main thread that change a field of a session *)
LEMMA FieldStepsLoseNone ==
  ASSUME TypeInv, RecorderInv(TRUE), LossInv, SetStopping \/ FreeFrames \/ FreeSession
  PROVE  NoFrameStep
<1> USE DEF NoFrameStep, CallbackGoesOn, StopGoesOn, StoppedPc, CountingPc
<1>1. session \in [Sessions -> Session] /\ cs \in Sessions
  BY Typed DEF SetStopping, FreeFrames, FreeSession, StopPc, MainPc
<1>2. session[cs] \in Session
  BY <1>1
<1>3. /\ UNCHANGED <<storageVars, cbVars, cs>>
      /\ SessionsMayEnd
  BY QuietSteps DEF QuietStep, SetStopping, FreeFrames, FreeSession
<1>4. StoppingKept
  BY <1>1, FieldsKeepStopping DEF SetStopping, FreeFrames, FreeSession
<1>5. SetStopping \/ FreeFrames => SessionsStay
  <2> SUFFICES ASSUME SetStopping \/ FreeFrames PROVE SessionsStay
    OBVIOUS
  <2>1. \/ session' = [session EXCEPT ![cs].stopping = TRUE]
        \/ session' = [session EXCEPT ![cs].listLive = FALSE]
    BY DEF SetStopping, FreeFrames
  <2>2. /\ \A s \in Sessions \ {cs} : session'[s] = session[s]
        /\ session'[cs] \in {[session[cs] EXCEPT !.stopping = TRUE],
                             [session[cs] EXCEPT !.listLive = FALSE]}
    BY <1>1, <2>1, Zenon
  <2>3. session'[cs].state = session[cs].state
    BY <1>2, <2>2 DEF Session
  <2> QED
    BY <2>2, <2>3 DEF SessionsStay, Live
<1>6. SetStopping => session'[cs].stopping
  BY <1>1, <1>2 DEF SetStopping, Session
<1>7. /\ SetStopping => pc = "set_stopping" /\ pc' = "raspiraw_stop"
      /\ FreeFrames => pc = "free_frames" /\ pc' = "free_session"
      /\ FreeSession => pc = "free_session" /\ pc' = "stopped"
  BY DEF SetStopping, FreeFrames, FreeSession
<1>8. UNCHANGED <<files, cbPc, cbSession>>
  BY <1>3 DEF storageVars, cbVars
<1>9. CASE SetStopping
  BY <1>3, <1>4, <1>5, <1>6, <1>7, <1>8, <1>9
<1>10. CASE FreeFrames
  BY <1>3, <1>4, <1>5, <1>7, <1>8, <1>10
<1>11. CASE FreeSession
  BY <1>3, <1>4, <1>7, <1>8, <1>11
<1> QED
  BY <1>9, <1>10, <1>11

LEMMA OtherStepsLoseNone ==
  ASSUME TypeInv, LossInv,
         \/ RaspirawSetUserData \/ RaspirawStartSensor \/ HandleTrainLeave
         \/ HandleKey \/ RaspirawStop \/ IndexReadSize \/ IndexCopyFrames
         \/ IndexOpen \/ IndexWrite \/ FreeTrainId \/ Exit
         \/ BufferReturned \/ EnterHandler \/ CheckStopping \/ HandlerFault
         \/ Tick \/ UNCHANGED vars
  PROVE  NoFrameStep
<1> USE DEF NoFrameStep, CallbackGoesOn, StopGoesOn, StoppedPc, CountingPc
<1>1. UNCHANGED <<session, files>>
  BY DEF RaspirawSetUserData, RaspirawStartSensor, HandleTrainLeave, HandleKey,
         RaspirawStop, IndexReadSize, IndexCopyFrames, IndexOpen,
         StorageOpenIndex, IndexWrite, StorageWriteIndex, FreeTrainId, Exit,
         BufferReturned, EnterHandler, CheckStopping, HandlerFault, Tick, vars,
         storageVars
<1>2. SessionsMayEnd /\ SessionsStay /\ StoppingKept
  BY <1>1, SameSessionsKeep
<1>3. CASE \/ BufferReturned \/ EnterHandler \/ CheckStopping \/ HandlerFault
           \/ Tick \/ UNCHANGED vars
  <2>1. UNCHANGED <<pc, cs, framesCnt>>
    BY <1>3 DEF BufferReturned, EnterHandler, CheckStopping, HandlerFault,
                Tick, vars, mainVars
  <2>2. CallbackGoesOn
    <3>1. CASE BufferReturned \/ EnterHandler \/ HandlerFault \/ Tick \/ UNCHANGED vars
      BY <3>1 DEF BufferReturned, EnterHandler, HandlerFault, Tick, vars, cbVars
    <3>2. CASE CheckStopping
      <4>1. StoppingRead(cbSession) \subseteq BOOLEAN
        BY <3>2, Typed, SessionTyped DEF CheckStopping, StoppingRead, Session
      <4>2. PICK stopping \in StoppingRead(cbSession) :
              cbPc' = IF stopping THEN "idle" ELSE "store"
        BY <3>2 DEF CheckStopping
      <4>3. cbPc' = "store" => stopping = FALSE
        BY <4>1, <4>2
      <4>4. cbPc' \in {"idle", "store"} /\ cbPc = "check" /\ cbSession' = cbSession
        BY <3>2 DEF CheckStopping
      <4> QED
        BY <4>2, <4>3, <4>4
    <3> QED
      BY <1>3, <3>1, <3>2
  <2> QED
    BY <1>1, <1>2, <2>1, <2>2
<1>4. CASE \/ RaspirawSetUserData \/ RaspirawStartSensor \/ HandleTrainLeave
           \/ HandleKey \/ RaspirawStop \/ IndexReadSize \/ IndexCopyFrames
           \/ IndexOpen \/ IndexWrite \/ FreeTrainId \/ Exit
  <2>1. UNCHANGED <<cbPc, cbSession>>
    BY <1>4 DEF RaspirawSetUserData, RaspirawStartSensor, HandleTrainLeave,
                HandleKey, RaspirawStop, IndexReadSize, IndexCopyFrames,
                IndexOpen, IndexWrite, FreeTrainId, Exit, cbVars
  <2>2. StopGoesOn
    <3>1. CASE RaspirawSetUserData \/ RaspirawStartSensor \/ FreeTrainId \/ Exit
      BY <3>1 DEF RaspirawSetUserData, RaspirawStartSensor, FreeTrainId, Exit
    <3>2. CASE HandleTrainLeave \/ HandleKey
      <4>1. pc' \in {"poll", "stopped", "blocked", "set_stopping"}
        BY <3>2 DEF HandleTrainLeave, HandleKey, CameraStopStream
      <4> QED
        BY <4>1
    <3>3. CASE RaspirawStop \/ IndexCopyFrames \/ IndexOpen \/ IndexWrite
      BY <3>3 DEF RaspirawStop, IndexCopyFrames, IndexOpen, IndexWrite
    <3>4. CASE IndexReadSize
      <4>1. session[cs].frames \in Seq(Row)
        BY <3>4, Typed, SessionTyped DEF IndexReadSize, StopPc, MainPc
      <4>2. framesCnt' \in {FramesSize, FramesSize + 1} /\ cs' = cs /\ pc = "index_size"
        BY <3>4 DEF IndexReadSize
      <4>3. framesCnt' >= Len(session[cs].frames)
        BY <4>1, <4>2 DEF FramesSize
      <4> QED
        BY <4>2, <4>3
    <3> QED
      BY <1>4, <3>1, <3>2, <3>3, <3>4
  <2> QED
    BY <1>1, <1>2, <2>1, <2>2
<1> QED
  BY <1>3, <1>4
-----------------------------------------------------------------------------
(* The three steps that concern the frames of a session *)

LEMMA BeginLosesNone ==
  ASSUME TypeInv, TypeInv', RecorderInv(TRUE), RecorderInv(TRUE)', LossInv,
         HandleTrainIn
  PROVE  LossInv'
<1> DEFINE w == allocated'
<1>1. /\ w \in Sessions
      /\ w \notin Allocated
      /\ session \in [Sessions -> Session]
      /\ now \in TrainIds
  BY BoundsAssumption, TrainIdsAssumption, Typed
     DEF HandleTrainIn, TypeInv, TypeOK, Sessions, Allocated
<1>2. /\ pc' \notin StoppedPc
      /\ UNCHANGED <<files, cbPc, cbSession>>
  BY DEF HandleTrainIn, StoragePrepare, storageVars, cbVars, StoppedPc, CountingPc
<1>3. /\ \A s \in Sessions \ {w} : session'[s] = session[s]
      /\ \/ session'[w].state = "freed"
         \/ session'[w] = NewSession /\ now \notin dirs
  <2>1. \/ /\ session' = [session EXCEPT ![w] = NewSession]
           /\ now \notin dirs
        \/ session' = [session EXCEPT ![w].state = "freed"]
    BY DEF HandleTrainIn, StoragePrepare, LPX_SUCCESS, LPX_IO, STRG_EXISTS
  <2>2. CASE session' = [session EXCEPT ![w] = NewSession] /\ now \notin dirs
    <3> HIDE DEF NewSession
    <3> QED
      BY <1>1, <2>2
  <2>3. CASE session' = [session EXCEPT ![w].state = "freed"]
    <3>1. session'[w].state = "freed"
      BY <1>1, <2>3 DEF Session
    <3>2. \A s \in Sessions \ {w} : session'[s] = session[s]
      BY <1>1, <2>3
    <3> QED
      BY <3>1, <3>2
  <2> QED
    BY <2>1, <2>2, <2>3
<1>4. NewSession.train = now /\ NewSession.frames = <<>>
  BY DEF NewSession
<1>5. now \notin dirs => files[now] = {}
  BY <1>1 DEF RecorderInv, FreshDirs
<1> HIDE DEF w, NewSession
<1>6. ListComplete'
  <2> SUFFICES ASSUME NEW s \in Sessions, session'[s].state = "live"
               PROVE  Stored(s)' <= Len(session'[s].frames) + Waiting(s)'
    BY DEF ListComplete, Live
  <2>1. Waiting(s)' = Waiting(s) /\ Waiting(s) \in 0 .. 1
    BY <1>2 DEF Waiting
  <2>2. CASE s # w
    BY <1>2, <1>3, <2>1, <2>2 DEF LossInv, ListComplete, Live, Stored
  <2>3. CASE s = w
    <3>1. session'[s] = NewSession /\ files'[now] = {}
      BY <1>2, <1>3, <1>5, <2>3
    <3>2. Stored(s)' = Cardinality({})
      BY <1>4, <3>1 DEF Stored
    <3>3. Len(session'[s].frames) = 0
      BY <1>4, <3>1
    <3>4. Stored(s)' = 0
      BY <3>2, FS_EmptySet
    <3> QED
      BY <2>1, <3>3, <3>4
  <2> QED
    BY <2>2, <2>3
<1> QED
  BY <1>2, <1>6
     DEF LossInv, FilesFinite, StoppingSet, CountComplete, StoppedPc

LEMMA StoreLosesNone ==
  ASSUME TypeInv, WriterInv, RecorderInv(TRUE), LossInv, StoreFrame
  PROVE  LossInv'
<1> DEFINE w == cbSession
           t == session[w].train
           n == session[w].frameIndex
<1>1. /\ w \in Sessions
      /\ Live(w)
      /\ t \in TrainIds
      /\ session'[w].train = t
      /\ session'[w].state = session[w].state
      /\ session'[w].frames = session[w].frames
      /\ \A s \in Sessions \ {w} : session'[s] = session[s]
      /\ \/ files' = [files EXCEPT ![t] = @ \cup {n}]
         \/ files' = files /\ cbPc' # "append"
      /\ UNCHANGED <<mainVars, cbSession>>
  BY StoreChanges
<1>2. cbPc = "store" /\ cbPc' \in {"append", "idle"}
  BY DEF StoreFrame, AfterStore
<1>3. /\ \A u \in TrainIds \ {t} : files'[u] = files[u]
      /\ \/ files'[t] = files[t] \cup {n} /\ cbPc' = "append"
         \/ files'[t] = files[t] /\ cbPc' = "idle"
         \/ files'[t] = files[t] \cup {n} /\ cbPc' = "idle"
  BY <1>1, <1>2, Typed
<1>4. cbPc' = "idle" => files' = files
  BY DEF StoreFrame, StorageStoreFrame, AfterStore, storageVars, LPX_SUCCESS,
         LPX_IO, STRG_NOT_FOUND
<1>5. IsFiniteSet(files[t]) /\ Cardinality(files[t]) \in Nat
  BY <1>1, FS_CardinalityType DEF LossInv, FilesFinite
<1>6. /\ IsFiniteSet(files'[t])
      /\ Cardinality(files'[t]) \in Nat
      /\ cbPc' = "idle" => Cardinality(files'[t]) = Cardinality(files[t])
      /\ Cardinality(files'[t]) <= Cardinality(files[t]) + 1
  <2>1. /\ IsFiniteSet(files[t] \cup {n})
        /\ Cardinality(files[t] \cup {n}) \in {Cardinality(files[t]), Cardinality(files[t]) + 1}
    BY <1>5, FS_AddElement
  <2>2. CASE files'[t] = files[t] \cup {n} /\ cbPc' = "append"
    BY <1>5, <2>1, <2>2
  <2>3. CASE cbPc' = "idle"
    <3>1. files'[t] = files[t]
      BY <1>4, <2>3
    <3> QED
      BY <1>5, <2>3, <3>1
  <2> QED
    BY <1>3, <2>2, <2>3
<1>7. FilesFinite'
  BY <1>3, <1>6 DEF LossInv, FilesFinite
<1>8. ASSUME NEW s \in Sessions, Live(s)
      PROVE  /\ s # w => Stored(s)' = Stored(s)
             /\ s = w => /\ Stored(s) \in Nat /\ Stored(s)' \in Nat
                         /\ cbPc' = "idle" => Stored(s)' = Stored(s)
                         /\ Stored(s)' <= Stored(s) + 1
  <2>1. CASE s = w
    BY <1>1, <1>5, <1>6, <2>1 DEF Stored
  <2>2. CASE s # w
    <3>1. session[s].train # t
      BY <1>1, <1>8, <2>2 DEF WriterInv, OneWriterPerDirectory
    <3>2. session[s].train \in TrainIds
      BY Typed, SessionTyped
    <3> QED
      BY <1>1, <1>3, <2>2, <3>1, <3>2 DEF Stored
  <2> QED
    BY <2>1, <2>2
<1>9. ListComplete'
  <2> SUFFICES ASSUME NEW s \in Sessions, Live(s)
               PROVE  Stored(s)' <= Len(session[s].frames) + Waiting(s)'
    BY <1>1 DEF ListComplete, Live
  <2>1. Stored(s) <= Len(session[s].frames) + Waiting(s)
    BY DEF LossInv, ListComplete
  <2>2. Len(session[s].frames) \in Nat /\ Stored(s) \in Nat
    BY Counts DEF LossInv
  <2>3. CASE s # w
    BY <1>1, <1>8, <2>1, <2>3 DEF Waiting
  <2>4. CASE s = w
    <3>1. Waiting(s) = 0 /\ Waiting(s)' = IF cbPc' = "append" THEN 1 ELSE 0
      BY <1>1, <1>2, <2>4 DEF Waiting
    <3>2. /\ Stored(s)' \in Nat
          /\ cbPc' = "idle" => Stored(s)' = Stored(s)
          /\ Stored(s)' <= Stored(s) + 1
      BY <1>8, <2>4
    <3>3. CASE cbPc' = "idle"
      BY <2>1, <2>2, <3>1, <3>2, <3>3
    <3>4. CASE cbPc' = "append"
      BY <2>1, <2>2, <3>1, <3>2, <3>4
    <3> QED
      BY <1>2, <3>3, <3>4
  <2> QED
    BY <2>3, <2>4
<1>10. UNCHANGED <<pc, cs, framesCnt>>
  BY <1>1 DEF mainVars
<1>11. StoppingSet'
  <2>1. session'[w].stopping = session[w].stopping
    <3>1. session[w] \in Session /\ n \in Nat
      BY <1>1, Typed, SessionTyped
    <3>2. session'[w] = Counted(session[w], n + 1)
      BY <1>1, Typed DEF StoreFrame, Counted
    <3> QED
      BY <3>1, <3>2 DEF Counted, Session
  <2>2. pc \in StoppedPc => cs \in Sessions
    BY Typed DEF StoppedPc, CountingPc, StopPc, MainPc
  <2> QED
    BY <1>1, <1>10, <2>1, <2>2 DEF LossInv, StoppingSet
<1>12. CountComplete'
  <2> SUFFICES ASSUME pc \in CountingPc
               PROVE  Stored(cs)' + Handling(cs)' <= framesCnt + 1
    BY <1>10 DEF CountComplete, Handling
  <2>1. cs \in Sessions /\ Live(cs)
    BY Typed DEF CountingPc, StopPc, MainPc, Stopping, RecorderInv, MainInv
  <2>2. Stored(cs) + Handling(cs) <= framesCnt + 1
    BY DEF LossInv, CountComplete
  <2>3. Stored(cs) \in Nat /\ framesCnt \in Nat
    BY <2>1, Counts DEF LossInv
  <2>4. Handling(cs)' = 0 /\ Handling(cs) = IF cs = w THEN 1 ELSE 0
    BY <1>1, <1>2 DEF Handling
  <2>5. Stored(cs)' \in Nat /\ Stored(cs)' <= Stored(cs) + Handling(cs)
    <3>0. \A s \in Sessions : s = cs => Stored(cs)' = Stored(s)'
      BY <1>10 DEF Stored
    <3>1. CASE cs = w
      BY <1>8, <2>1, <2>4, <3>0, <3>1
    <3>2. CASE cs # w
      <4>1. Stored(cs)' = Stored(cs)
        BY <1>8, <2>1, <3>0, <3>2
      <4> QED
        BY <2>3, <2>4, <3>2, <4>1
    <3> QED
      BY <3>1, <3>2
  <2> QED
    BY <2>2, <2>3, <2>4, <2>5
<1> QED
  BY <1>7, <1>9, <1>11, <1>12 DEF LossInv

LEMMA AppendLosesNone ==
  ASSUME TypeInv, RecorderInv(TRUE), LossInv, AppendFrame
  PROVE  LossInv'
<1> DEFINE w == cbSession
<1>1. /\ cbPc = "append"
      /\ cbPc' = "idle"
      /\ w \in Sessions
      /\ NewRow(w) \in Row
      /\ session'[w].frames = Append(session[w].frames, NewRow(w))
      /\ session'[w].train = session[w].train
      /\ session'[w].state = session[w].state
      /\ \A s \in Sessions \ {w} : session'[s] = session[s]
      /\ UNCHANGED <<files, mainVars, cbSession>>
  BY AppendChanges
<1>2. \A s \in Sessions : /\ session'[s].train = session[s].train
                          /\ session'[s].state = session[s].state
                          /\ Stored(s)' = Stored(s)
  BY <1>1 DEF Stored
<1>3. FilesFinite'
  BY <1>1 DEF LossInv, FilesFinite
<1>4. ListComplete'
  <2> SUFFICES ASSUME NEW s \in Sessions, Live(s)
               PROVE  Stored(s) <= Len(session'[s].frames) + Waiting(s)'
    BY <1>2 DEF ListComplete, Live
  <2>1. Stored(s) <= Len(session[s].frames) + Waiting(s)
    BY DEF LossInv, ListComplete
  <2>2. CASE s # w
    BY <1>1, <2>1, <2>2 DEF Waiting
  <2>3. CASE s = w
    <3>1. Len(session'[s].frames) = Len(session[s].frames) + 1
      <4>1. session[w].frames \in Seq(Row)
        BY <1>1, Typed, SessionTyped
      <4> QED
        BY <1>1, <2>3, <4>1, AppendProperties
    <3>2. Waiting(s)' = 0 /\ Waiting(s) = 1
      BY <1>1, <2>3 DEF Waiting
    <3>3. Len(session[s].frames) \in Nat /\ Stored(s) \in Nat
      BY Counts DEF LossInv
    <3> QED
      BY <2>1, <3>1, <3>2, <3>3
  <2> QED
    BY <2>2, <2>3
<1>5. UNCHANGED <<pc, cs, framesCnt>>
  BY <1>1 DEF mainVars
<1>6. pc \in StoppedPc => cs \in Sessions
  BY Typed DEF StoppedPc, CountingPc, StopPc, MainPc
<1>7. StoppingSet'
  <2>1. session'[w].stopping = session[w].stopping
    <3> DEFINE q == Append(session[w].frames, NewRow(w))
    <3>1. session[w] \in Session /\ session[w].frames \in Seq(Row)
      BY <1>1, Typed, SessionTyped
    <3>2. session'[w] = Extended(session[w], q, now)
      BY <1>1, Typed DEF AppendFrame, NextRequestTime, Extended
    <3>3. q \in Seq(Row)
      BY <1>1, <3>1
    <3> HIDE DEF q
    <3> QED
      BY <3>1, <3>2, <3>3 DEF Extended, Session
  <2> QED
    BY <1>1, <1>5, <1>6, <2>1 DEF LossInv, StoppingSet
<1>8. CountComplete'
  <2> SUFFICES ASSUME pc \in CountingPc
               PROVE  Stored(cs)' + Handling(cs)' <= framesCnt + 1
    BY <1>5 DEF CountComplete, Handling
  <2>1. Handling(cs)' = 0 /\ Handling(cs) = 0
    BY <1>1 DEF Handling
  <2>2. Stored(cs)' = Stored(cs)
    BY <1>1, <1>2, <1>5, <1>6 DEF Stored, StoppedPc
  <2> QED
    BY <2>1, <2>2 DEF LossInv, CountComplete
<1> QED
  BY <1>3, <1>4, <1>7, <1>8 DEF LossInv
-----------------------------------------------------------------------------
LEMMA LossInvStep ==
  AllInv(TRUE) /\ AllInv(TRUE)' /\ LossInv /\ [Next]_vars => LossInv'
<1> SUFFICES ASSUME AllInv(TRUE), AllInv(TRUE)', LossInv, [Next]_vars PROVE LossInv'
  OBVIOUS
<1>1. TypeInv /\ TypeInv' /\ RecorderInv(TRUE) /\ RecorderInv(TRUE)' /\ WriterInv
  BY DEF AllInv
<1>2. CASE HandleTrainIn
  BY <1>1, <1>2, BeginLosesNone
<1>3. CASE StoreFrame
  BY <1>1, <1>3, StoreLosesNone
<1>4. CASE AppendFrame
  BY <1>1, <1>4, AppendLosesNone
<1>5. CASE SetStopping \/ FreeFrames \/ FreeSession
  BY <1>1, <1>5, FieldStepsLoseNone, NoFrameKeeps
<1>6. CASE \/ RaspirawSetUserData \/ RaspirawStartSensor \/ HandleTrainLeave
           \/ HandleKey \/ RaspirawStop \/ IndexReadSize \/ IndexCopyFrames
           \/ IndexOpen \/ IndexWrite \/ FreeTrainId \/ Exit
           \/ BufferReturned \/ EnterHandler \/ CheckStopping \/ HandlerFault
           \/ Tick \/ UNCHANGED vars
  BY <1>1, <1>6, OtherStepsLoseNone, NoFrameKeeps
<1> QED
  BY <1>2, <1>3, <1>4, <1>5, <1>6
     DEF Next, MainStep, CallbackStep, Terminated

LEMMA LossInvInit == Init => LossInv
<1> SUFFICES ASSUME Init PROVE LossInv
  OBVIOUS
<1>1. /\ files = [t \in TrainIds |-> {}]
      /\ pc = "poll"
      /\ \A s \in Sessions : ~Live(s)
  BY DEF Init, StorageInit, UnusedSession, Live
<1> QED
  BY <1>1, FS_EmptySet
     DEF LossInv, FilesFinite, ListComplete, StoppingSet, CountComplete,
         StoppedPc, CountingPc

LEMMA CountingLosesOne ==
  TypeInv /\ RecorderInv(TRUE) /\ LossInv => AtMostOneFrameLost
<1> SUFFICES ASSUME TypeInv, RecorderInv(TRUE), LossInv, pc \in CountingPc
             PROVE  Stored(cs) <= framesCnt + 1
  BY DEF AtMostOneFrameLost, CountingPc, Stored
<1>1. cs \in Sessions
  BY Typed DEF CountingPc, StopPc, MainPc
<1>2. Stored(cs) + Handling(cs) <= framesCnt + 1
  BY DEF LossInv, CountComplete
<1>3. Stored(cs) \in Nat /\ framesCnt \in Nat /\ Handling(cs) \in 0 .. 1
  BY <1>1, Counts DEF LossInv
<1> QED
  BY <1>2, <1>3

(***************************************************************************)
(* Of the frames on disk when a stop counts them for the index, at most    *)
(* one is not counted, however the callback thread and the stop meet.      *)
(***************************************************************************)
THEOREM OneFrameLost == Spec => []AtMostOneFrameLost
<1>1. Init => AllInv(TRUE) /\ LossInv
  BY TypeInvInit, RowsInvInit, WriterInvInit, RecorderInvInit, LossInvInit
     DEF AllInv
<1>2. (AllInv(TRUE) /\ LossInv) /\ [Next]_vars => (AllInv(TRUE) /\ LossInv)'
  BY TypeInvStep, RowsInvStep, WriterInvStep, RecorderInvStep, LossInvStep
     DEF AllInv
<1>3. AllInv(TRUE) /\ LossInv => AtMostOneFrameLost
  BY CountingLosesOne DEF AllInv
<1> QED
  BY <1>1, <1>2, <1>3, PTL DEF Spec
-----------------------------------------------------------------------------
(***************************************************************************)
(* The name of a session.  main frees the string it points to when a stop  *)
(* is over, so that it matters which session that string belongs to: one   *)
(* that has just been freed, or one that has never been live.              *)
(***************************************************************************)
FreedInv == freedIds \subseteq Allocated /\ NameOutlivesSession

(* The string main points to is that of the session it will stop next. *)
NameInv ==
  trainId # NULL /\ trainId \notin freedIds =>
    trainId = IF pc \in Starting THEN cs ELSE captureSession

StopOverInv == pc = "stopped" => captureSession = NULL \/ ~Live(captureSession)

(* A stop that has begun is at work until its session is freed. *)
StopsInv ==
  \A s \in Sessions :
    Live(s) /\ session[s].stopping => pc \in Stopping /\ cs = s

StringsInv == FreedInv /\ NameInv /\ StopOverInv /\ StopsInv

(* Only this is said of a step that is not about strings. *)
LEMMA StringsKept ==
  ASSUME TypeInv, StringsInv,
         UNCHANGED <<trainId, freedIds, captureSession, cs, allocated>>,
         \A s \in Sessions : Live(s)' => Live(s) /\ session[s].stopping
                                                      = session'[s].stopping,
         pc \in Starting <=> pc' \in Starting,
         pc \in Stopping => pc' \in Stopping,
         pc' = "stopped" => pc = "stopped"
  PROVE  StringsInv'
<1>0. captureSession # NULL => captureSession \in Sessions
  BY Typed
<1>1. FreedInv'
  BY DEF StringsInv, FreedInv, NameOutlivesSession, Allocated
<1>2. NameInv'
  BY DEF StringsInv, NameInv
<1>3. StopOverInv'
  BY <1>0 DEF StringsInv, StopOverInv
<1>4. StopsInv'
  BY DEF StringsInv, StopsInv, Live
<1> QED
  BY <1>1, <1>2, <1>3, <1>4 DEF StringsInv

LEMMA StringsInvStep ==
  ASSUME TypeInv, RecorderInv(TRUE), StringsInv, [Next]_vars
  PROVE  StringsInv'
<1>0. /\ session \in [Sessions -> Session]
      /\ captureSession # NULL => captureSession \in Sessions
      /\ cs # NULL => cs \in Sessions
      /\ trainId # NULL => trainId \in Sessions
  BY DEF TypeInv, TypeOK, SessionPtr
<1>m. /\ pc \in Starting \cup Stopping => Live(cs)
      /\ pc \in Stopping => cs = captureSession
  BY DEF RecorderInv, MainInv
<1>1. CASE HandleTrainIn
  <2>1. /\ pc = "poll" /\ captureSession' = captureSession
        /\ allocated' = allocated + 1 /\ trainId' = allocated'
    BY <1>1 DEF HandleTrainIn
  <2>2. /\ allocated' \in Sessions /\ allocated' \notin Allocated
        /\ \A s \in Sessions \ {allocated'} : session'[s] = session[s]
    BY <1>1, TrainIn
  <2>3. \/ /\ session'[allocated'] = NewSession
           /\ pc' = "start_raspiraw" /\ cs' = allocated' /\ freedIds' = freedIds
        \/ /\ session'[allocated'].state = "freed"
           /\ UNCHANGED <<pc, cs>> /\ freedIds' = freedIds \cup {allocated'}
    BY <1>0, <1>1, <2>2 DEF HandleTrainIn, Session
  <2>4. Allocated \cup {allocated'} \subseteq Allocated'
    BY <2>1 DEF TypeInv, TypeOK, Allocated
  <2>5. FreedInv'
    BY <2>2, <2>3, <2>4 DEF StringsInv, FreedInv, NameOutlivesSession, Live
  <2>6. NameInv'
    BY <2>1, <2>3 DEF NameInv, Starting
  <2>7. StopOverInv'
    BY <2>1, <2>3 DEF StopOverInv
  <2>8. StopsInv'
    BY <2>1, <2>2, <2>3, NewSessionIs
       DEF StringsInv, StopsInv, Live, Stopping
  <2> QED
    BY <2>5, <2>6, <2>7, <2>8 DEF StringsInv
<1>2. CASE RaspirawStartSensor
  <2>1. /\ pc = "start_sensor" /\ pc' = "poll" /\ captureSession' = cs
        /\ UNCHANGED <<session, cs, trainId, freedIds, allocated>>
    BY <1>2 DEF RaspirawStartSensor, StoredSession
  <2> QED
    BY <2>1 DEF StringsInv, FreedInv, NameOutlivesSession, NameInv,
                StopOverInv, StopsInv, Live, Starting, Stopping, Allocated
<1>3. CASE HandleTrainLeave \/ HandleKey
  <2>1. /\ pc = "poll" /\ CameraStopStream("stopped")
        /\ UNCHANGED <<session, captureSession, trainId, freedIds, allocated>>
    BY <1>3 DEF HandleTrainLeave, HandleKey
  <2>2. pc' \in {"poll", "stopped", "blocked", "set_stopping"}
    BY <2>1 DEF CameraStopStream
  <2>3. captureSession # NULL /\ Live(captureSession)
          => FALSE = session[captureSession].stopping
    BY <1>0, <2>1 DEF StringsInv, StopsInv, Stopping, Session
  <2>4. StopOverInv'
    BY <2>1, <2>3 DEF StopOverInv, CameraStopStream, StoppingRead, Live
  <2>5. StopsInv'
    BY <2>1 DEF StringsInv, StopsInv, Live, Stopping
  <2>6. NameInv'
    BY <2>1, <2>2 DEF StringsInv, NameInv, Starting
  <2>7. FreedInv'
    BY <2>1 DEF StringsInv, FreedInv, NameOutlivesSession, Live, Allocated
  <2> QED
    BY <2>4, <2>5, <2>6, <2>7 DEF StringsInv
<1>4. CASE SetStopping
  <2>1. /\ pc = "set_stopping" /\ pc' = "raspiraw_stop"
        /\ session' = [session EXCEPT ![cs].stopping = TRUE]
        /\ UNCHANGED <<captureSession, cs, trainId, freedIds, allocated>>
    BY <1>4 DEF SetStopping
  <2>2. \A s \in Sessions : /\ Live(s)' => Live(s)
                            /\ s # cs => session'[s] = session[s]
    BY <1>0, <2>1 DEF Session, Live
  <2>3. FreedInv'
    BY <2>1, <2>2 DEF StringsInv, FreedInv, NameOutlivesSession, Allocated
  <2>4. NameInv' /\ StopOverInv'
    BY <2>1 DEF StringsInv, NameInv, StopOverInv, Starting
  <2>5. StopsInv'
    BY <2>1, <2>2 DEF StringsInv, StopsInv, Live, Stopping
  <2> QED
    BY <2>3, <2>4, <2>5 DEF StringsInv
<1>5. CASE FreeSession
  <2>1. /\ pc = "free_session" /\ pc' = "stopped"
        /\ session' = [session EXCEPT ![cs].state = "freed"]
        /\ UNCHANGED <<captureSession, cs, trainId, freedIds, allocated>>
    BY <1>5 DEF FreeSession
  <2>2. cs = captureSession
    BY <1>m, <2>1 DEF Stopping
  <2>3. \A s \in Sessions : /\ Live(s)' => s # cs
                            /\ s # cs => session'[s] = session[s]
    BY <1>0, <2>1 DEF Session, Live
  <2>4. FreedInv'
    BY <2>1, <2>3 DEF StringsInv, FreedInv, NameOutlivesSession, Live, Allocated
  <2>5. NameInv'
    BY <2>1 DEF StringsInv, NameInv, Starting
  <2>6. StopOverInv'
    BY <1>0, <2>1, <2>2, <2>3 DEF StopOverInv
  <2>7. StopsInv'
    BY <2>1, <2>3 DEF StringsInv, StopsInv, Live
  <2> QED
    BY <2>4, <2>5, <2>6, <2>7 DEF StringsInv
<1>6. CASE FreeTrainId
  <2>1. pc = "stopped" /\ UNCHANGED <<session, captureSession, cs, allocated>>
    BY <1>6 DEF FreeTrainId
  <2>2. \/ UNCHANGED <<pc, trainId, freedIds>>
        \/ /\ trainId = NULL \/ trainId \notin freedIds
           /\ freedIds' = freedIds \cup ({trainId} \ {NULL})
           /\ trainId' = NULL /\ pc' = "poll"
    BY <1>6 DEF FreeTrainId
  <2>3. CASE UNCHANGED <<pc, trainId, freedIds>>
    BY <2>1, <2>3, StringsKept DEF Live
  <2>4. CASE /\ trainId = NULL \/ trainId \notin freedIds
             /\ freedIds' = freedIds \cup ({trainId} \ {NULL})
             /\ trainId' = NULL /\ pc' = "poll"
    <3>1. trainId # NULL => trainId = captureSession /\ ~Live(trainId)
      BY <2>1, <2>4 DEF StringsInv, NameInv, StopOverInv, Starting
    <3>2. trainId # NULL => trainId \in Allocated
      BY <1>0, <2>1, <3>1 DEF TypeInv, PointersValid
    <3>3. FreedInv'
      BY <2>1, <2>4, <3>1, <3>2
         DEF StringsInv, FreedInv, NameOutlivesSession, Live, Allocated
    <3>4. NameInv' /\ StopOverInv'
      BY <2>4 DEF NameInv, StopOverInv
    <3>5. StopsInv'
      BY <2>1, <2>4 DEF StringsInv, StopsInv, Live, Stopping
    <3> QED
      BY <3>3, <3>4, <3>5 DEF StringsInv
  <2> QED
    BY <2>2, <2>3, <2>4
<1>7. CASE \/ RaspirawSetUserData \/ RaspirawStop \/ IndexReadSize
           \/ IndexCopyFrames \/ IndexOpen \/ IndexWrite \/ FreeFrames \/ Exit
  <2>1. UNCHANGED <<trainId, freedIds, captureSession, cs, allocated>>
    BY <1>7 DEF RaspirawSetUserData, RaspirawStop, IndexReadSize,
                IndexCopyFrames, IndexOpen, IndexWrite, FreeFrames, Exit
  <2>2. \A s \in Sessions : /\ session'[s].state = session[s].state
                            /\ session'[s].stopping = session[s].stopping
    <3>1. CASE FreeFrames
      BY <1>0, <3>1 DEF FreeFrames, Session
    <3>2. CASE ~FreeFrames
      BY <1>7, <3>2 DEF RaspirawSetUserData, RaspirawStop, IndexReadSize,
                        IndexCopyFrames, IndexOpen, IndexWrite, Exit
    <3> QED
      BY <3>1, <3>2
  <2>3. /\ pc \in Starting <=> pc' \in Starting
        /\ pc \in Stopping => pc' \in Stopping
        /\ pc' = "stopped" => pc = "stopped"
    BY <1>7 DEF RaspirawSetUserData, RaspirawStop, IndexReadSize,
                IndexCopyFrames, IndexOpen, IndexWrite, FreeFrames, Exit,
                Starting, Stopping
  <2> QED
    BY <2>1, <2>2, <2>3, StringsKept DEF Live
<1>8. CASE BufferReturned \/ CallbackStep \/ Tick \/ UNCHANGED vars
  <2>1. UNCHANGED mainVars
    BY <1>8 DEF CallbackStep, BufferReturned, EnterHandler, CheckStopping,
                HandlerFault, StoreFrame, AppendFrame, Tick, vars
  <2>2. ~HandleTrainIn /\ ~FreeSession /\ ~SetStopping
    BY <2>1 DEF HandleTrainIn, FreeSession, SetStopping, mainVars,
                TypeInv, TypeOK
  <2>3. \A s \in Sessions : /\ session'[s].state = session[s].state
                            /\ session'[s].stopping = session[s].stopping
    BY <2>2, SessionFields
  <2> QED
    BY <2>1, <2>3, StringsKept DEF Live, mainVars
<1> QED
  BY <1>1, <1>2, <1>3, <1>4, <1>5, <1>6, <1>7, <1>8
     DEF Next, MainStep, Terminated

LEMMA StringsInvInit == Init => StringsInv
BY DEF Init, StringsInv, FreedInv, NameOutlivesSession, NameInv, StopOverInv,
       StopsInv, Live, UnusedSession, Allocated

(***************************************************************************)
(* The name of a session that may still store frames is never freed: a     *)
(* departure frees the string of the session it has just stopped, or of    *)
(* one that never started, whatever arrivals have come in between.         *)
(***************************************************************************)
THEOREM NamesKept == Spec => []NameOutlivesSession
<1>1. Init => AllInv(TRUE) /\ StringsInv
  BY TypeInvInit, RowsInvInit, WriterInvInit, RecorderInvInit, StringsInvInit
     DEF AllInv
<1>2. (AllInv(TRUE) /\ StringsInv) /\ [Next]_vars
        => (AllInv(TRUE) /\ StringsInv)'
  BY TypeInvStep, RowsInvStep, WriterInvStep, RecorderInvStep, StringsInvStep
     DEF AllInv
<1>3. StringsInv => NameOutlivesSession
  BY DEF StringsInv, FreedInv
<1> QED
  BY <1>1, <1>2, <1>3, PTL DEF Spec
-----------------------------------------------------------------------------
(***************************************************************************)
(* Restart.  A death leaves no session, so that of the invariant only what *)
(* is said of the storage is at stake, and the write it cuts off leaves    *)
(* what a whole one may leave: fewer rows, or the frame.  After the clock  *)
(* has been set back, only what is not said of times is left.              *)
(***************************************************************************)
KeptInv ==
  /\ RestartInv
  /\ WriterInv
  /\ \A timed \in BOOLEAN :
       (timed => setBacks = 0) => RowsInv(timed) /\ RecorderInv(timed)

LEMMA StrayIsQuiet ==
  ASSUME TypeInv, StrayBuffer \/ UNCHANGED restartVars
  PROVE  QuietStep /\ UNCHANGED <<session, rows, index, now, dirs>>
<1>1. /\ UNCHANGED <<storageVars, session, now, mainVars, cbVars>>
      /\ fault' = "none" => fault = "none"
  BY DEF StrayBuffer, restartVars, vars
<1>2. now \in Nat
  BY Typed
<1> QED
  BY <1>1, <1>2
     DEF QuietStep, storageVars, mainVars, cbVars, SessionsMayEnd, SameSession,
         Live, MainGoesOn, SessionsStay, Starting, Stopping, Writing, Freeing

(* What a death may change of the storage *)
CutOff(timed) ==
  \/ UNCHANGED <<files, index>>
  \/ /\ cbPc = "store"
     /\ Live(cbSession)
     /\ cbSession \in Sessions
     /\ files' = [files EXCEPT ![session[cbSession].train] =
                    @ \cup {session[cbSession].frameIndex}]
     /\ UNCHANGED index
  \/ /\ Running
     /\ pc \in Writing
     /\ \E q \in Seq(Row) :
          /\ Publishable(timed, q)
          /\ index' = [index EXCEPT ![session[cs].train] = q]
     /\ UNCHANGED files

LEMMA DeathCutsOff ==
  ASSUME NEW timed \in BOOLEAN, TypeInv, RowsInv(timed), RecorderInv(timed),
         DieAndRestart
  PROVE  CutOff(timed)
<1>1. CASE files' \in FilesCutOff /\ UNCHANGED index
  <2>1. CASE cbPc = "store" /\ Live(cbSession)
    <3>1. cbSession \in Sessions
      BY <2>1, BoundsAssumption
         DEF TypeInv, PointersValid, TypeOK, Allocated, Sessions
    <3> QED
      BY <1>1, <2>1, <3>1 DEF FilesCutOff, CutOff
  <2>2. CASE ~(cbPc = "store" /\ Live(cbSession))
    BY <1>1, <2>2 DEF FilesCutOff, CutOff
  <2> QED
    BY <2>1, <2>2
<1>2. CASE index' \in IndexCutOff /\ UNCHANGED files
  <2>1. CASE Running /\ pc = "index_write"
    <3>1. pc \in Writing
      BY <2>1 DEF Writing
    <3>2. PICK k \in 0 .. Len(rows) :
            index' = [index EXCEPT ![session[cs].train] = SubSeq(rows, 1, k)]
      BY <1>2, <2>1 DEF IndexCutOff
    <3>3. SubSeq(rows, 1, k) \in Seq(Row) /\ Publishable(timed, SubSeq(rows, 1, k))
      BY <3>1, Prefixes
    <3> QED
      BY <1>2, <2>1, <3>1, <3>2, <3>3 DEF CutOff
  <2>2. CASE ~(Running /\ pc = "index_write")
    BY <1>2, <2>2 DEF IndexCutOff, CutOff
  <2> QED
    BY <2>1, <2>2
<1> QED
  BY <1>1, <1>2 DEF DieAndRestart

(* Rows that are joined and lie in the past, in directories that exist, are
   all that is in the storage afterwards. *)
LEMMA DeathKeepsStorage ==
  ASSUME NEW timed \in BOOLEAN, TypeInv, RowsInv(timed), WriterInv,
         RecorderInv(timed), DieAndRestart
  PROVE  /\ \A u \in TrainIds : Joined(timed, index'[u])
         /\ FreshDirs'
         /\ PublishedPast(timed)'
<1>1. /\ CutOff(timed)
      /\ UNCHANGED <<dirs, now>>
  BY DeathCutsOff DEF DieAndRestart
<1>2. /\ \A u \in TrainIds : Joined(timed, index[u])
      /\ FreshDirs
      /\ PublishedPast(timed)
  BY DEF RowsInv, RecorderInv, PublishedInv
<1>3. index \in [TrainIds -> Seq(Row)] /\ files \in [TrainIds -> SUBSET Nat]
  BY Typed
<1>4. CASE UNCHANGED <<files, index>>
  BY <1>1, <1>2, <1>4 DEF FreshDirs, PublishedPast
<1>5. CASE /\ Live(cbSession)
           /\ cbSession \in Sessions
           /\ files' = [files EXCEPT ![session[cbSession].train] =
                          @ \cup {session[cbSession].frameIndex}]
           /\ UNCHANGED index
  <2>1. session[cbSession].train \in dirs
    BY <1>5 DEF WriterInv, LiveHasDirectory
  <2>2. \A u \in TrainIds \ dirs : files'[u] = files[u]
    BY <1>3, <1>5, <2>1
  <2> QED
    BY <1>1, <1>2, <1>5, <2>2 DEF FreshDirs, PublishedPast
<1>6. ASSUME Running, pc \in Writing, UNCHANGED files,
             NEW q \in Seq(Row), Publishable(timed, q),
             index' = [index EXCEPT ![session[cs].train] = q]
      PROVE  /\ \A u \in TrainIds : Joined(timed, index'[u])
             /\ FreshDirs'
             /\ PublishedPast(timed)'
  <2> DEFINE t == session[cs].train
  <2>1. cs \in Sessions /\ Live(cs) /\ t \in TrainIds
    BY <1>6, IndexIsEmpty
  <2>2. t \in dirs /\ t \in Nat
    BY <2>1, TrainsAreTimes DEF WriterInv, LiveHasDirectory
  <2>3. \A u \in TrainIds : index'[u] = IF u = t THEN q ELSE index[u]
    BY <1>3, <1>6
  <2>4. Joined(timed, q) /\ Within(timed, q, t, now)
    BY <1>6 DEF Publishable
  <2> HIDE DEF t
  <2>5. Within(timed, q, 0, now)
    <3>1. \A i \in 1 .. Len(q) : q[i].start \in Nat
      BY <1>6, RowTyped
    <3> QED
      BY <2>2, <2>4, <3>1 DEF Within
  <2>6. \A u \in TrainIds : Joined(timed, index'[u])
    BY <1>2, <2>3, <2>4
  <2>7. FreshDirs'
    BY <1>1, <1>2, <1>6, <2>2, <2>3 DEF FreshDirs
  <2>8. PublishedPast(timed)'
    BY <1>1, <1>2, <2>3, <2>5 DEF PublishedPast
  <2> QED
    BY <2>6, <2>7, <2>8
<1> QED
  BY <1>1, <1>4, <1>5, <1>6 DEF CutOff

LEMMA DeathKeeps ==
  ASSUME NEW timed \in BOOLEAN, TypeInv, RowsInv(timed), WriterInv,
         RecorderInv(timed), DieAndRestart
  PROVE  WriterInv' /\ RowsInv(timed)' /\ RecorderInv(timed)'
<1>1. /\ \A s \in Sessions : session'[s] = UnusedSession
      /\ \A s \in Sessions : session'[s].state # "live"
      /\ pc' = "poll" /\ cbPc' = "idle" /\ rows' = <<>>
      /\ now' = now /\ now \in Nat
  BY FreshSessions, Typed DEF DieAndRestart, FreshProcess
<1>2. WriterInv'
  BY <1>1 DEF WriterInv, LiveHasDirectory, OneWriterPerDirectory, Live
<1>3. /\ \A u \in TrainIds : Joined(timed, index'[u])
      /\ FreshDirs'
      /\ PublishedPast(timed)'
  BY DeathKeepsStorage
<1>4. RowsInv(timed)'
  <2>1. \A s \in Sessions : session'[s].frames = <<>> /\ session'[s].reqTime = 0
    BY <1>1 DEF UnusedSession
  <2>2. Joined(timed, <<>>)
    BY JoinedEmpty
  <2> QED
    BY <1>1, <1>3, <2>1, <2>2 DEF RowsInv, LastRowEndsAt
<1>5. RecorderInv(timed)'
  BY <1>1, <1>3
     DEF RecorderInv, SessionsInv, AppendInv, MainInv, Starting, Stopping,
         Writing, PublishedInv, Unpublished, PublishedBefore, Active, Live
<1> QED
  BY <1>2, <1>4, <1>5

LEMMA SetBackKeeps ==
  ASSUME TypeInv, RowsInv(FALSE), WriterInv, RecorderInv(FALSE), SetClockBack
  PROVE  WriterInv' /\ RowsInv(FALSE)' /\ RecorderInv(FALSE)'
<1>1. UNCHANGED <<dirs, files, index, session, rows, pc, cs, captureSession,
                  cbPc, cbSession, fault>>
  BY DEF SetClockBack, storageVars, mainVars, cbVars
<1>2. WriterInv'
  BY <1>1 DEF WriterInv, LiveHasDirectory, OneWriterPerDirectory, Live
<1>3. RowsInv(FALSE)'
  BY <1>1 DEF RowsInv, Joined, LastRowEndsAt
<1>4. FreshDirs' /\ AppendInv'
  BY <1>1 DEF RecorderInv, FreshDirs, AppendInv, StoredLast, Live
<1>5. SessionsInv(FALSE)'
  BY <1>1 DEF RecorderInv, SessionsInv, SessionRight, Within, Live
<1>6. MainInv(FALSE)'
  BY <1>1 DEF RecorderInv, MainInv, Within, Live
<1>7. PublishedInv(FALSE)'
  BY <1>1
     DEF RecorderInv, PublishedInv, Unpublished, PublishedBefore, PublishedPast,
         Within, Live
<1> QED
  BY <1>2, <1>3, <1>4, <1>5, <1>6, <1>7 DEF RecorderInv

LEMMA RestartKeeps ==
  ASSUME NEW timed \in BOOLEAN, TypeInv, RowsInv(timed), WriterInv,
         RecorderInv(timed), [RestartNext]_restartVars,
         SetClockBack => ~timed
  PROVE  WriterInv' /\ RowsInv(timed)' /\ RecorderInv(timed)'
<1>1. CASE CaptureStep
  BY <1>1, CaptureNext, RowsInvStep, WriterInvStep, RecorderInvStep
<1>2. CASE StrayBuffer \/ UNCHANGED restartVars
  <2>1. QuietStep /\ UNCHANGED <<session, rows, index, now, dirs>>
    BY <1>2, StrayIsQuiet
  <2>2. RowsInv(timed)' /\ WriterInv'
    BY <2>1 DEF RowsInv, WriterInv, LiveHasDirectory, OneWriterPerDirectory, Live
  <2> QED
    BY <2>1, <2>2, QuietKeeps
<1>3. CASE DieAndRestart
  BY <1>3, DeathKeeps
<1>4. CASE SetClockBack
  <2>1. timed = FALSE
    BY <1>4
  <2> QED
    BY <1>4, <2>1, SetBackKeeps
<1> QED
  BY <1>1, <1>2, <1>3, <1>4 DEF RestartNext

LEMMA KeptInvStep == KeptInv /\ [RestartNext]_restartVars => KeptInv'
<1> SUFFICES ASSUME KeptInv, [RestartNext]_restartVars PROVE KeptInv'
  OBVIOUS
<1>1. RestartInv' /\ TypeInv
  BY RestartInvStep DEF KeptInv, RestartInv
<1>2. setBacks \in Nat /\ (setBacks' = 0 => setBacks = 0 /\ ~SetClockBack)
  <2>1. setBacks \in Nat
    BY RestartBoundsAssumption DEF KeptInv, RestartInv, RestartTypeOK
  <2>2. SetClockBack \/ setBacks' = setBacks
    BY DEF RestartNext, CaptureStep, StrayBuffer, DieAndRestart, restartVars,
           faultVars
  <2>3. SetClockBack => setBacks' = setBacks + 1
    BY DEF SetClockBack
  <2> QED
    BY <2>1, <2>2, <2>3
<1>3. ASSUME NEW timed \in BOOLEAN, timed => setBacks' = 0
      PROVE  WriterInv' /\ RowsInv(timed)' /\ RecorderInv(timed)'
  <2>1. RowsInv(timed) /\ RecorderInv(timed) /\ WriterInv
    BY <1>2, <1>3 DEF KeptInv
  <2>2. SetClockBack => ~timed
    BY <1>2, <1>3
  <2> QED
    BY <1>1, <2>1, <2>2, RestartKeeps
<1>4. WriterInv'
  BY <1>3
<1> QED
  BY <1>1, <1>3, <1>4 DEF KeptInv

LEMMA KeptInvInit == RestartInit => KeptInv
<1> SUFFICES ASSUME RestartInit PROVE KeptInv
  OBVIOUS
<1>1. Init
  BY DEF RestartInit
<1>2. ASSUME NEW timed \in BOOLEAN
      PROVE  RowsInv(timed) /\ RecorderInv(timed)
  BY <1>1, RowsInvInit, RecorderInvInit
<1> QED
  BY <1>1, <1>2, RestartInvInit, WriterInvInit DEF KeptInv
-----------------------------------------------------------------------------
(* What a death is for the recorder *)

LEMMA DeathAllowed ==
  ASSUME NEW timed \in BOOLEAN, TypeInv, RowsInv(timed), WriterInv,
         RecorderInv(timed), DieAndRestart
  PROVE  Allowed(timed)
<1>1. CutOff(timed) /\ UNCHANGED dirs
  BY DeathCutsOff DEF DieAndRestart
<1>2. CASE UNCHANGED <<files, index>>
  BY <1>1, <1>2 DEF Allowed
<1>3. CASE /\ Live(cbSession)
           /\ cbSession \in Sessions
           /\ files' = [files EXCEPT ![session[cbSession].train] =
                          @ \cup {session[cbSession].frameIndex}]
           /\ UNCHANGED index
  <2> DEFINE t == session[cbSession].train
             n == session[cbSession].frameIndex
  <2>1. t \in dirs /\ t \in TrainIds
    <3>1. t \in dirs
      BY <1>3 DEF WriterInv, LiveHasDirectory
    <3>2. dirs \subseteq TrainIds
      BY DEF TypeInv, TypeOK, StorageTypeOK
    <3> QED
      BY <3>1, <3>2
  <2>2. \A k \in files[t] : k < n
    BY <1>3 DEF RecorderInv, SessionsInv, SessionRight
  <2>3. n \in files'[t] /\ files' = [files EXCEPT ![t] = @ \cup {n}]
    BY <1>3, <2>1, Typed
  <2> HIDE DEF t, n
  <2>4. Promise!Store
    BY <1>1, <1>3, <2>1, <2>2, <2>3 DEF Promise!Store
  <2> QED
    BY <2>4 DEF Allowed
<1>4. ASSUME Running, pc \in Writing, UNCHANGED files,
             NEW q \in Seq(Row), Publishable(timed, q),
             index' = [index EXCEPT ![session[cs].train] = q]
      PROVE  Allowed(timed)
  BY <1>1, <1>4, PublishAllowed DEF Allowed
<1> QED
  BY <1>1, <1>2, <1>3, <1>4 DEF CutOff

LEMMA AllowedAfterRestarts ==
  ASSUME NEW timed \in BOOLEAN, Allowed(timed), UNCHANGED setBacks,
         timed <=> ~(setBacks > 0)
  PROVE  [KeptPromise!Next]_<<dirs, files, index, setBacks > 0>>
<1>1. (setBacks > 0)' = (setBacks > 0)
  OBVIOUS
<1>2. Promise!Begin => KeptPromise!Begin
  BY <1>1 DEF Promise!Begin, KeptPromise!Begin
<1>3. Promise!Store => KeptPromise!Store
  BY <1>1 DEF Promise!Store, KeptPromise!Store
<1>4. ASSUME Publishes(timed) PROVE KeptPromise!Publish
  BY <1>1, <1>4
     DEF Publishes, KeptPromise!Publish, Promise!NoGap, KeptPromise!NoGap,
         Promise!Describes, KeptPromise!Describes, Promise!Forward,
         KeptPromise!Forward, Promise!Overlap, KeptPromise!Overlap
<1> QED
  BY <1>1, <1>2, <1>3, <1>4 DEF Allowed, KeptPromise!Next

LEMMA RestartAllowed ==
  ASSUME KeptInv, [RestartNext]_restartVars
  PROVE  [KeptPromise!Next]_<<dirs, files, index, setBacks > 0>>
<1> DEFINE timed == setBacks = 0
<1>1. setBacks \in Nat /\ timed \in BOOLEAN
  BY RestartBoundsAssumption DEF KeptInv, RestartInv, RestartTypeOK
<1>2. timed <=> ~(setBacks > 0)
  BY <1>1
<1>3. /\ TypeInv /\ WriterInv
      /\ RowsInv(timed) /\ RecorderInv(timed)
  BY <1>1 DEF KeptInv, RestartInv
<1> HIDE DEF timed
<1>4. CASE SetClockBack
  <2>1. UNCHANGED <<dirs, files, index>>
    BY <1>4 DEF SetClockBack, storageVars
  <2>2. (setBacks > 0)' = TRUE
    BY <1>1, <1>4 DEF SetClockBack
  <2> QED
    BY <2>1, <2>2 DEF KeptPromise!SetClockBack, KeptPromise!Next
<1>5. CASE CaptureStep
  <2>1. [Next]_vars /\ UNCHANGED setBacks
    BY <1>5, CaptureNext DEF faultVars
  <2>2. Allowed(timed)
    BY <1>1, <1>3, <2>1, StepAllowed
  <2> QED
    BY <1>1, <1>2, <2>1, <2>2, AllowedAfterRestarts
<1>6. CASE DieAndRestart
  <2>1. UNCHANGED setBacks
    BY <1>6 DEF DieAndRestart
  <2>2. Allowed(timed)
    BY <1>1, <1>3, <1>6, DeathAllowed
  <2> QED
    BY <1>1, <1>2, <2>1, <2>2, AllowedAfterRestarts
<1>7. CASE StrayBuffer \/ UNCHANGED restartVars
  <2>1. UNCHANGED <<dirs, files, index, setBacks>>
    BY <1>7 DEF StrayBuffer, restartVars, vars, storageVars, faultVars
  <2> QED
    BY <2>1
<1> QED
  BY <1>4, <1>5, <1>6, <1>7 DEF RestartNext

LEMMA RestartInitAllowed == RestartInit => KeptPromise!Init
BY DEF RestartInit, Init, StorageInit, KeptPromise!Init

(***************************************************************************)
(* However often lpx-control dies, wherever a death cuts off a write, and  *)
(* however the clock is set back, what users of the storage see is the     *)
(* recorder of module Recorder: of its promise only what is said of times  *)
(* depends on the clock.                                                   *)
(***************************************************************************)
THEOREM RestartsPromiseKept == RestartSpec => RestartsKeepPromise
<1>1. KeptInv /\ [RestartNext]_restartVars
        => [KeptPromise!Next]_<<dirs, files, index, setBacks > 0>>
  BY RestartAllowed
<1> QED
  BY <1>1, KeptInvInit, KeptInvStep, RestartInitAllowed, PTL
     DEF RestartSpec, RestartsKeepPromise, KeptPromise!Spec
=============================================================================
