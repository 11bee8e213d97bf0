-------------------------- MODULE TrainSensorProofs --------------------------
(***************************************************************************)
(* Theorems of TrainSensor, for every debounce time, every capacity of the *)
(* pipes, and every number of edges, of clock readings and of times the    *)
(* clock is set back.                                                      *)
(*                                                                         *)
(* That the sensor thread is not left asleep depends on what it knew when  *)
(* it read the pin and the clock.  SensorInv says it at each of its steps: *)
(* a value that is no longer that of the pin has a wake-up behind it, and  *)
(* what is dropped comes too early to be a quiet change.                   *)
(***************************************************************************)
EXTENDS TrainSensor, SequenceTheorems, TLAPS

(* Until the next event is sent, last_event is the time of the last one. *)
TimesInv ==
  /\ changedAt <= clock
  /\ pc # "send" => sentAt = lastEvent

(* A change since the pin was read has left a wake-up. *)
ValueInv ==
  pc \in {"debounce", "send"} /\ value # Code(present) => WakeUpComes

(* The byte of stop() is in the pipe until the thread is to see the flag. *)
StopInv ==
  /\ mainPc \notin {"loop", "lock"} => ~running
  /\ mainPc \in {"unlock", "join"} =>
       interruptPipe > 0 \/ pc \in {"check", "ended"}

(* The handler is registered by the first step of the sensor thread. *)
StartInv ==
  /\ pc = "start" <=> isrPc = "unregistered"
  /\ pc = "start" => changedAt = 0

SensorInv ==
  StartInv /\ TimesInv /\ ValueInv /\ QuietChangeNotMissed /\ StopInv
-----------------------------------------------------------------------------
(* Types *)

LEMMA CodeTyped == \A p \in BOOLEAN : Code(p) \in TrainCodes
BY DEF Code, TrainCodes, TS_INT_TRAIN_IN, TS_INT_TRAIN_LEAVE

LEMMA TypeInit == Init => TypeOK
<1> SUFFICES ASSUME Init PROVE TypeOK
  OBVIOUS
<1>1. <<>> \in Seq(TrainCodes) /\ Len(<<>>) = 0
  OBVIOUS
<1>2. TS_INT_TRAIN_LEAVE \in TrainCodes
  BY DEF TrainCodes
<1>3. /\ 0 \in 0 .. MaxEdges
      /\ 0 \in 0 .. PipeCapacity
      /\ 0 <= PipeCapacity
      /\ 0 \in Nat
      /\ DebounceTime \in Nat
      /\ 0 \in 0 .. MaxSetBacks
  BY ConstantsAssumption
<1> QED
  BY <1>1, <1>2, <1>3 DEF Init, TypeOK

LEMMA TypeStep == TypeOK /\ [Next]_vars => TypeOK'
<1> SUFFICES ASSUME TypeOK, [Next]_vars PROVE TypeOK'
  OBVIOUS
<1> USE ConstantsAssumption DEF TypeOK, worldVars, isrVars, sensorVars
<1>1. CASE PinChanges
  <2>1. changedAt' \in Nat
    BY <1>1 DEF PinChanges
  <2>2. edge' \in BOOLEAN
    BY <1>1, Zenon DEF PinChanges
  <2>3. present' \in BOOLEAN
    BY <1>1, Zenon DEF PinChanges
  <2>4. edges' \in 0 .. MaxEdges
    BY <1>1 DEF PinChanges
  <2>5. UNCHANGED <<clock, setBacks, isrPc, interruptPipe, running, mutexHeld,
                    eventsPipe, sensorVars, mainPc>>
    BY <1>1 DEF PinChanges
  <2> QED
    BY <2>1, <2>2, <2>3, <2>4, <2>5, ZenonT(30)
<1>2. CASE Tick \/ SetClockBack
  <2>1. CASE Tick
    BY <2>1 DEF Tick
  <2>2. CASE SetClockBack
    BY <2>2 DEF SetClockBack
  <2> QED
    BY <1>2, <2>1, <2>2
<1>3. CASE InterruptThread
  <2>1. CASE NoticeEdge
    BY <2>1 DEF NoticeEdge
  <2>2. CASE HandleInterrupt
    BY <2>2 DEF HandleInterrupt
  <2> QED
    BY <1>3, <2>1, <2>2 DEF InterruptThread
<1>4. CASE Register \/ ReadInterrupt
  BY <1>4, SMTT(30) DEF Register, ReadInterrupt
<1>5. CASE IsRunning
  BY <1>5 DEF IsRunning
<1>6. CASE ReadPin
  BY <1>6, CodeTyped DEF ReadPin
<1>7. CASE Debounce
  BY <1>7 DEF Debounce, IgnoredKeepsLastEvent
<1>8. CASE SendEvent
  <2>1. /\ eventsPipe' \in Seq(TrainCodes)
        /\ Len(eventsPipe') = Len(eventsPipe) + 1
        /\ Len(eventsPipe) < PipeCapacity
    BY <1>8, AppendProperties DEF SendEvent
  <2>2. Len(eventsPipe') <= PipeCapacity
    BY <2>1
  <2> QED
    BY <1>8, <2>1, <2>2 DEF SendEvent
<1>9. CASE ReadEvent
  <2>1. eventsPipe \in Seq(TrainCodes) /\ eventsPipe # <<>> /\ eventsPipe' = Tail(eventsPipe)
    BY <1>9 DEF ReadEvent
  <2>2. eventsPipe' \in Seq(TrainCodes) /\ Len(eventsPipe') = Len(eventsPipe) - 1
    BY <2>1, HeadTailProperties
  <2>3. Len(eventsPipe') <= PipeCapacity
    BY <2>1, <2>2
  <2> QED
    BY <1>9, <2>2, <2>3 DEF ReadEvent
<1>10. CASE KeyPressed \/ CloseSensor
  <2>1. CASE StopWake
    BY <2>1 DEF StopWake, WakeBytes
  <2>2. CASE KeyPressed \/ StopLock \/ StopUnlock \/ Join
    BY <2>2, ZenonT(30) DEF KeyPressed, StopLock, StopUnlock, Join
  <2> QED
    BY <1>10, <2>1, <2>2 DEF CloseSensor
<1>11. CASE UNCHANGED vars
  BY <1>11 DEF vars
<1> QED
  BY <1>1, <1>2, <1>3, <1>4, <1>5, <1>6, <1>7, <1>8, <1>9, <1>10, <1>11
     DEF Next, SensorThread, Closed

(***************************************************************************)
(* No step of the three threads takes a variable out of its type: neither  *)
(* pipe ever holds more than its capacity, and only the two codes that the *)
(* main loop knows are sent.                                               *)
(***************************************************************************)
THEOREM TypeCorrect == Spec => []TypeOK
BY TypeInit, TypeStep, PTL DEF Spec
-----------------------------------------------------------------------------
(* The steps *)

LEMMA InvInit == Init => SensorInv
<1> SUFFICES ASSUME Init PROVE SensorInv
  OBVIOUS
<1>1. ~Quiet
  BY ConstantsAssumption DEF Init, Quiet
<1> QED
  BY <1>1, ConstantsAssumption
     DEF Init, SensorInv, StartInv, TimesInv, ValueInv, QuietChangeNotMissed, StopInv

LEMMA TimesStep == TypeOK /\ TimesInv /\ [Next]_vars => TimesInv'
<1> SUFFICES ASSUME TypeOK, TimesInv, [Next]_vars PROVE TimesInv'
  OBVIOUS
<1> USE DEF TimesInv, worldVars, isrVars, sensorVars
<1>1. changedAt \in Nat /\ clock \in Nat /\ lastEvent \in Nat
  BY DEF TypeOK
<1>2. CASE PinChanges
  BY <1>1, <1>2 DEF PinChanges
<1>3. CASE Tick \/ SetClockBack
  BY <1>1, <1>3 DEF Tick, SetClockBack
<1>4. CASE Debounce
  BY <1>1, <1>4 DEF Debounce, IgnoredKeepsLastEvent
<1>5. CASE SendEvent
  BY <1>1, <1>5 DEF SendEvent
<1>6. CASE \/ InterruptThread \/ Register \/ ReadInterrupt \/ IsRunning
           \/ ReadPin \/ ReadEvent \/ KeyPressed \/ CloseSensor
           \/ UNCHANGED vars
  <2>1. /\ UNCHANGED <<changedAt, clock, lastEvent, sentAt>>
        /\ pc' # "send" => pc # "send"
    BY <1>6
       DEF InterruptThread, NoticeEdge, HandleInterrupt, Register,
           ReadInterrupt, IsRunning, ReadPin, ReadEvent, KeyPressed, CloseSensor, StopLock,
           StopWake, StopUnlock, Join, vars
  <2> QED
    BY <2>1
<1> QED
  BY <1>2, <1>3, <1>4, <1>5, <1>6 DEF Next, SensorThread, Closed

LEMMA StartStep == StartInv /\ [Next]_vars => StartInv'
<1> SUFFICES ASSUME StartInv, [Next]_vars PROVE StartInv'
  OBVIOUS
<1> USE DEF StartInv, worldVars, isrVars, sensorVars
<1>1. CASE SensorThread
  BY <1>1 DEF SensorThread, Register, ReadInterrupt, IsRunning, ReadPin,
              Debounce, SendEvent
<1>2. CASE PinChanges \/ SetClockBack \/ InterruptThread
  BY <1>2 DEF PinChanges, SetClockBack, InterruptThread, NoticeEdge,
              HandleInterrupt
<1>3. CASE Tick \/ ReadEvent \/ KeyPressed \/ CloseSensor \/ UNCHANGED vars
  BY <1>3 DEF Tick, ReadEvent, KeyPressed, CloseSensor, StopLock, StopWake,
              StopUnlock, Join, vars
<1> QED
  BY <1>1, <1>2, <1>3 DEF Next, Closed

(* A wake-up is gone only when the sensor thread takes it from the pipe. *)
LEMMA WakeUpKept ==
  ASSUME TypeOK, StartInv, [Next]_vars, ~ReadInterrupt, WakeUpComes
  PROVE  WakeUpComes'
<1> USE DEF WakeUpComes, worldVars, isrVars
<1>1. interruptPipe \in Nat
  BY ConstantsAssumption DEF TypeOK
<1>2. CASE PinChanges
  BY <1>2 DEF PinChanges
<1>3. CASE InterruptThread
  BY <1>1, <1>3 DEF InterruptThread, NoticeEdge, HandleInterrupt
<1>4. CASE StopWake
  BY <1>1, <1>4 DEF StopWake, WakeBytes
<1>5. CASE \/ Tick \/ SetClockBack \/ Register \/ IsRunning \/ ReadPin \/ Debounce \/ SendEvent
           \/ ReadEvent \/ KeyPressed \/ StopLock \/ StopUnlock \/ Join
           \/ UNCHANGED vars
  BY <1>5
     DEF Tick, SetClockBack, Register, IsRunning, ReadPin, Debounce, SendEvent, ReadEvent, KeyPressed,
         StopLock, StopUnlock, Join, StartInv, vars
<1> QED
  BY <1>2, <1>3, <1>4, <1>5 DEF Next, SensorThread, CloseSensor, Closed

LEMMA ValueStep ==
  TypeOK /\ StartInv /\ ValueInv /\ [Next]_vars => ValueInv'
<1> SUFFICES ASSUME TypeOK, StartInv, ValueInv, [Next]_vars,
                    pc' \in {"debounce", "send"}, value' # Code(present)'
             PROVE  WakeUpComes'
  BY DEF ValueInv
<1> USE DEF worldVars, isrVars, sensorVars
<1>1. CASE PinChanges
  BY <1>1 DEF PinChanges, WakeUpComes, StartInv
<1>2. CASE ReadPin
  BY <1>2 DEF ReadPin, Code
<1>3. CASE ~PinChanges /\ ~ReadPin
  <2>1. /\ ~ReadInterrupt
        /\ pc \in {"debounce", "send"}
        /\ UNCHANGED <<value, present>>
    BY <1>3
       DEF Next, Tick, SetClockBack, Register, InterruptThread, NoticeEdge, HandleInterrupt,
           SensorThread, ReadInterrupt, IsRunning, Debounce, SendEvent,
           ReadEvent, KeyPressed, CloseSensor, StopLock, StopWake, StopUnlock,
           Join, Closed, vars
  <2>2. value # Code(present)
    BY <2>1 DEF Code
  <2> QED
    BY <2>1, <2>2, WakeUpKept DEF ValueInv
<1> QED
  BY <1>1, <1>2, <1>3

LEMMA NotMissedStep ==
  ASSUME TypeOK, StartInv, TimesInv, ValueInv, QuietChangeNotMissed,
         [Next]_vars
  PROVE  QuietChangeNotMissed'
<1> SUFFICES ASSUME running', pc' = "poll", Quiet',
                    sent' # Code(present)'
             PROVE  WakeUpComes'
  BY DEF QuietChangeNotMissed
<1> USE DEF worldVars, isrVars, sensorVars
<1>1. /\ changedAt \in Nat /\ clock \in Nat /\ lastEvent \in Nat
      /\ sentAt \in Nat /\ DebounceTime \in Nat \ {0}
  BY ConstantsAssumption DEF TypeOK
<1>2. CASE PinChanges
  BY <1>2 DEF PinChanges, WakeUpComes, StartInv
<1>3. CASE Debounce
  <2>1. /\ Elapsed < DebounceTime
        /\ sentAt = lastEvent
        /\ UNCHANGED <<changedAt, sentAt>>
        /\ changedAt <= clock
    BY <1>3 DEF Debounce, TimesInv
  <2>2. CASE clock >= lastEvent
    BY <1>1, <2>1, <2>2 DEF Elapsed, Quiet
  <2>3. CASE clock < lastEvent
    BY <1>1, <2>1, <2>3 DEF Quiet
  <2> QED
    BY <1>1, <2>2, <2>3
<1>4. CASE SendEvent
  <2>1. /\ pc = "send" /\ sent' = value /\ present' = present
        /\ ~ReadInterrupt
    BY <1>4 DEF SendEvent, ReadInterrupt
  <2>2. value # Code(present)
    BY <2>1 DEF Code
  <2> QED
    BY <2>1, <2>2, WakeUpKept DEF ValueInv
<1>5. CASE Register \/ SetClockBack
  <2>1. changedAt' = 0 /\ sentAt' = sentAt
    BY <1>5 DEF Register, SetClockBack, StartInv
  <2> QED
    BY <1>1, <2>1 DEF Quiet
<1>6. CASE /\ ~PinChanges /\ ~Debounce /\ ~SendEvent
           /\ ~Register /\ ~SetClockBack
  <2>1. /\ ~ReadInterrupt
        /\ pc = "poll"
        /\ running
        /\ UNCHANGED <<sent, sentAt, present, changedAt>>
    BY <1>6
       DEF Next, Tick, InterruptThread, NoticeEdge, HandleInterrupt,
           SensorThread, ReadInterrupt, IsRunning, ReadPin, ReadEvent,
           KeyPressed, CloseSensor, StopLock, StopWake, StopUnlock, Join,
           Closed, vars
  <2>2. Quiet /\ sent # Code(present)
    BY <2>1 DEF Quiet, Code
  <2> QED
    BY <2>1, <2>2, WakeUpKept DEF QuietChangeNotMissed
<1> QED
  BY <1>2, <1>3, <1>4, <1>5, <1>6

LEMMA StopStep == TypeOK /\ StopInv /\ [Next]_vars => StopInv'
<1> SUFFICES ASSUME TypeOK, StopInv, [Next]_vars PROVE StopInv'
  OBVIOUS
<1> USE DEF StopInv, worldVars, isrVars, sensorVars
<1>1. interruptPipe \in Nat
  BY ConstantsAssumption DEF TypeOK
<1>2. CASE InterruptThread
  BY <1>1, <1>2 DEF InterruptThread, NoticeEdge, HandleInterrupt
<1>3. CASE ReadInterrupt
  BY <1>3 DEF ReadInterrupt
<1>4. CASE IsRunning
  BY <1>4 DEF IsRunning
<1>5. CASE StopWake
  BY <1>1, <1>5 DEF StopWake, WakeBytes
<1>6. CASE StopLock \/ StopUnlock \/ Join \/ KeyPressed
  BY <1>6 DEF StopLock, StopUnlock, Join, KeyPressed
<1>7. CASE \/ PinChanges \/ Tick \/ SetClockBack \/ Register \/ ReadPin \/ Debounce \/ SendEvent
           \/ ReadEvent \/ UNCHANGED vars
  <2>1. /\ UNCHANGED <<running, mainPc, interruptPipe>>
        /\ pc \in {"check", "ended"} => pc' = pc
    BY <1>7
       DEF PinChanges, Tick, SetClockBack, Register, ReadPin, Debounce,
           SendEvent, ReadEvent, vars
  <2> QED
    BY <2>1
<1> QED
  BY <1>2, <1>3, <1>4, <1>5, <1>6, <1>7
     DEF Next, SensorThread, CloseSensor, Closed

LEMMA SensorInvariant == Spec => [](TypeOK /\ SensorInv)
<1>1. TypeOK /\ SensorInv /\ [Next]_vars => (TypeOK /\ SensorInv)'
  BY TypeStep, StartStep, TimesStep, ValueStep, NotMissedStep, StopStep DEF SensorInv
<1> QED
  BY <1>1, TypeInit, InvInit, PTL DEF Spec
-----------------------------------------------------------------------------
(***************************************************************************)
(* The sensor thread never sleeps on a change that came a debounce time    *)
(* after the last event and has not been reported.                         *)
(***************************************************************************)
THEOREM NotMissed == Spec => []QuietChangeNotMissed
<1>1. SensorInv => QuietChangeNotMissed
  BY DEF SensorInv
<1> QED
  BY <1>1, SensorInvariant, PTL

(***************************************************************************)
(* stop() never leaves the sensor thread asleep, whatever was in the pipe. *)
(***************************************************************************)
THEOREM StopSeen == Spec => []StopNotMissed
<1>1. SensorInv => StopNotMissed
  BY DEF SensorInv, StopInv, StopNotMissed
<1> QED
  BY <1>1, SensorInvariant, PTL
=============================================================================
