----------------------------- MODULE TrainSensor -----------------------------
(***************************************************************************)
(* The train sensor of lpx-control (lpx-control/src/train_sensor.c) between*)
(* the input pin and the pipe to the main loop.                            *)
(*                                                                         *)
(* The interrupt thread of wiringPi (external) writes a byte for every     *)
(* edge it notices into interrupt_pipe.  The sensor thread takes the       *)
(* bytes, reads the pin, drops what comes less than 100 ms after the last  *)
(* event, and sends the rest to the main loop through events_pipe.  To     *)
(* close, main clears `running' and writes a byte itself, with             *)
(* running_mutex held, and joins the thread.  A write to a full pipe       *)
(* blocks.                                                                 *)
(*                                                                         *)
(* It is the sensor thread that registers the interrupt handler, some time *)
(* after train_sensor_init has returned: an edge that comes before is      *)
(* lost.  The clock may be set back.                                       *)
(***************************************************************************)
EXTENDS Integers, Sequences

CONSTANTS DebounceTime,  (* 100000 microseconds, in ticks of the clock   *)
          MksSize,       (* 2^64: tv2mks returns a uint64_t              *)
          PipeCapacity,  (* how many writes either pipe takes            *)
          MaxEdges,      (* bound: changes of the pin                    *)
          MaxClock,      (* bound: the value at which the clock stops    *)
          MaxSetBacks    (* bound: how often the clock is set back       *)

ASSUME ConstantsAssumption ==
  /\ DebounceTime \in Nat \ {0}
  /\ PipeCapacity \in Nat \ {0}
  /\ MaxEdges \in Nat
  /\ MaxClock \in Nat
  /\ MaxSetBacks \in Nat
  /\ MksSize \in Nat /\ MksSize > MaxClock + DebounceTime

TS_INT_TRAIN_LEAVE == 0
TS_INT_TRAIN_IN == 1
TrainCodes == {TS_INT_TRAIN_LEAVE, TS_INT_TRAIN_IN}

VARIABLES
  (* the world and wiringPi *)
  present,       (* the pin is low: a train is passing                     *)
  edges,         (* how often it has changed                               *)
  clock,
  setBacks,      (* how often the clock has been set back                  *)
  edge,          (* an edge the interrupt thread has not noticed yet       *)
  isrPc,
  (* shared *)
  interruptPipe, (* how many bytes are in interrupt_pipe                   *)
  running,
  mutexHeld,     (* main holds running_mutex                               *)
  eventsPipe,    (* the events main has not read yet                       *)
  (* sensor thread *)
  pc,
  value,
  lastEvent,     (* last_event                                             *)
  (* main thread *)
  mainPc,
  (* history *)
  changedAt,     (* when the pin changed last with the handler registered  *)
                 (* and the clock not set back since, or 0                 *)
  sent,          (* the last event sent ...                                *)
  sentAt         (* ... and when                                           *)

worldVars == <<present, edges, clock, setBacks, changedAt>>
isrVars == <<edge, isrPc>>
sensorVars == <<pc, value, lastEvent, sent, sentAt>>
vars == <<worldVars, isrVars, interruptPipe, running, mutexHeld, eventsPipe,
          sensorVars, mainPc>>

TypeOK ==
  /\ present \in BOOLEAN
  /\ edges \in 0 .. MaxEdges
  /\ clock \in Nat
  /\ setBacks \in 0 .. MaxSetBacks
  /\ edge \in BOOLEAN
  /\ isrPc \in {"unregistered", "wait", "write"}
  /\ interruptPipe \in 0 .. PipeCapacity
  /\ running \in BOOLEAN
  /\ mutexHeld \in BOOLEAN
  /\ eventsPipe \in Seq(TrainCodes) /\ Len(eventsPipe) <= PipeCapacity
  /\ pc \in {"start", "poll", "check", "read", "debounce", "send", "ended"}
  /\ value \in TrainCodes
  /\ lastEvent \in Nat
  /\ mainPc \in {"loop", "lock", "wake", "unlock", "join", "closed"}
  /\ changedAt \in Nat
  /\ sent \in TrainCodes
  /\ sentAt \in Nat

(* The clock starts long after the epoch, which last_event is set to. *)
Init ==
  /\ present \in BOOLEAN
  /\ edges = 0
  /\ clock = DebounceTime
  /\ setBacks = 0
  /\ edge = FALSE
  /\ isrPc = "unregistered"
  /\ interruptPipe = 0
  /\ running = TRUE
  /\ mutexHeld = FALSE
  /\ eventsPipe = <<>>
  /\ pc = "start"
  /\ value = TS_INT_TRAIN_LEAVE
  /\ lastEvent = 0
  /\ mainPc = "loop"
  /\ changedAt = 0
  /\ sent = TS_INT_TRAIN_LEAVE
  /\ sentAt = 0
-----------------------------------------------------------------------------
(* The world *)

PinChanges ==
  /\ edges < MaxEdges
  /\ edges' = edges + 1
  /\ present' = ~present
  /\ IF isrPc = "unregistered"
       THEN UNCHANGED <<changedAt, edge>>
       ELSE changedAt' = clock /\ edge' = TRUE
  /\ UNCHANGED <<clock, setBacks, isrPc, interruptPipe, running, mutexHeld, eventsPipe,
                 sensorVars, mainPc>>

Tick ==
  /\ clock < MaxClock
  /\ clock' = clock + 1
  /\ UNCHANGED <<present, edges, setBacks, changedAt, isrVars, interruptPipe,
                 running, mutexHeld, eventsPipe, sensorVars, mainPc>>

SetClockBack ==
  /\ setBacks < MaxSetBacks
  /\ setBacks' = setBacks + 1
  /\ clock' \in 0 .. clock - 1
  /\ changedAt' = 0
  /\ UNCHANGED <<present, edges, isrVars, interruptPipe, running, mutexHeld,
                 eventsPipe, sensorVars, mainPc>>

(* Edges that come before the interrupt thread has noticed one are one. *)
NoticeEdge ==
  /\ isrPc = "wait"
  /\ edge
  /\ edge' = FALSE
  /\ isrPc' = "write"
  /\ UNCHANGED <<worldVars, interruptPipe, running, mutexHeld, eventsPipe,
                 sensorVars, mainPc>>

HandleInterrupt ==
  /\ isrPc = "write"
  /\ interruptPipe < PipeCapacity
  /\ interruptPipe' = interruptPipe + 1
  /\ isrPc' = "wait"
  /\ UNCHANGED <<worldVars, edge, running, mutexHeld, eventsPipe, sensorVars,
                 mainPc>>
-----------------------------------------------------------------------------
(* The sensor thread: handle_device *)

(* wiringPiISR *)
Register ==
  /\ pc = "start"
  /\ isrPc' = "wait"
  /\ pc' = "poll"
  /\ UNCHANGED <<worldVars, edge, interruptPipe, running, mutexHeld,
                 eventsPipe, value, lastEvent, sent, sentAt, mainPc>>

ReadInterrupt ==
  /\ pc = "poll"
  /\ interruptPipe > 0
  /\ interruptPipe' = interruptPipe - 1
  /\ pc' = "check"
  /\ UNCHANGED <<worldVars, isrVars, running, mutexHeld, eventsPipe, value,
                 lastEvent, sent, sentAt, mainPc>>

IsRunning ==
  /\ pc = "check"
  /\ ~mutexHeld
  /\ pc' = IF running THEN "read" ELSE "ended"
  /\ UNCHANGED <<worldVars, isrVars, interruptPipe, running, mutexHeld,
                 eventsPipe, value, lastEvent, sent, sentAt, mainPc>>

(* The event for the pin; mutant: only an arrival is given a code. *)
CodeOfArrival(p) == IF p THEN TS_INT_TRAIN_IN ELSE -1
Code(p) == IF p THEN TS_INT_TRAIN_IN ELSE TS_INT_TRAIN_LEAVE

ReadPin ==
  /\ pc = "read"
  /\ value' = Code(present)
  /\ pc' = "debounce"
  /\ UNCHANGED <<worldVars, isrVars, interruptPipe, running, mutexHeld,
                 eventsPipe, lastEvent, sent, sentAt, mainPc>>

(* last_event after an event that is ignored; mutant: it counts as well. *)
IgnoredMovesLastEvent == clock
IgnoredKeepsLastEvent == lastEvent

(* The difference of two uint64_t: below zero it starts from the top. *)
Elapsed == IF clock >= lastEvent THEN clock - lastEvent
                                 ELSE MksSize - (lastEvent - clock)

Debounce ==
  /\ pc = "debounce"
  /\ \/ /\ Elapsed < DebounceTime
        /\ lastEvent' = IgnoredKeepsLastEvent
        /\ pc' = "poll"
     \/ /\ Elapsed >= DebounceTime
        /\ lastEvent' = clock
        /\ pc' = "send"
  /\ UNCHANGED <<worldVars, isrVars, interruptPipe, running, mutexHeld,
                 eventsPipe, value, sent, sentAt, mainPc>>

(* train_sensor_cb of main.c *)
SendEvent ==
  /\ pc = "send"
  /\ Len(eventsPipe) < PipeCapacity
  /\ eventsPipe' = Append(eventsPipe, value)
  /\ sent' = value
  /\ sentAt' = lastEvent
  /\ pc' = "poll"
  /\ UNCHANGED <<worldVars, isrVars, interruptPipe, running, mutexHeld, value,
                 lastEvent, mainPc>>
-----------------------------------------------------------------------------
(* The main thread *)

ReadEvent ==
  /\ mainPc = "loop"
  /\ eventsPipe # <<>>
  /\ eventsPipe' = Tail(eventsPipe)
  /\ UNCHANGED <<worldVars, isrVars, interruptPipe, running, mutexHeld,
                 sensorVars, mainPc>>

(* A key: main leaves its loop and calls train_sensor_close. *)
KeyPressed ==
  /\ mainPc = "loop"
  /\ mainPc' = "lock"
  /\ UNCHANGED <<worldVars, isrVars, interruptPipe, running, mutexHeld,
                 eventsPipe, sensorVars>>

StopLock ==
  /\ mainPc = "lock"
  /\ mutexHeld' = TRUE
  /\ running' = FALSE
  /\ mainPc' = "wake"
  /\ UNCHANGED <<worldVars, isrVars, interruptPipe, eventsPipe, sensorVars>>

(* The byte stop() writes; mutant: it only clears the flag. *)
WakeBytesNone == 0
WakeBytes == 1

StopWake ==
  /\ mainPc = "wake"
  /\ interruptPipe + WakeBytes <= PipeCapacity
  /\ interruptPipe' = interruptPipe + WakeBytes
  /\ mainPc' = "unlock"
  /\ UNCHANGED <<worldVars, isrVars, running, mutexHeld, eventsPipe,
                 sensorVars>>

StopUnlock ==
  /\ mainPc = "unlock"
  /\ mutexHeld' = FALSE
  /\ mainPc' = "join"
  /\ UNCHANGED <<worldVars, isrVars, interruptPipe, running, eventsPipe,
                 sensorVars>>

Join ==
  /\ mainPc = "join"
  /\ pc = "ended"
  /\ mainPc' = "closed"
  /\ UNCHANGED <<worldVars, isrVars, interruptPipe, running, mutexHeld,
                 eventsPipe, sensorVars>>
-----------------------------------------------------------------------------
InterruptThread == NoticeEdge \/ HandleInterrupt
SensorThread ==
  \/ Register
  \/ ReadInterrupt
  \/ IsRunning
  \/ ReadPin
  \/ Debounce
  \/ SendEvent
CloseSensor == StopLock \/ StopWake \/ StopUnlock \/ Join

Closed == mainPc = "closed" /\ UNCHANGED vars

Next ==
  \/ PinChanges
  \/ Tick
  \/ SetClockBack
  \/ InterruptThread
  \/ SensorThread
  \/ ReadEvent
  \/ KeyPressed
  \/ CloseSensor
  \/ Closed

(***************************************************************************)
(* Threads run and main comes back to its poll; trains and keys need not   *)
(* come.                                                                   *)
(***************************************************************************)
Fairness ==
  /\ WF_vars(InterruptThread)
  /\ WF_vars(SensorThread)
  /\ WF_vars(ReadEvent)
  /\ WF_vars(CloseSensor)

Spec == Init /\ [][Next]_vars
FairSpec == Spec /\ Fairness
-----------------------------------------------------------------------------
(* Properties *)

(***************************************************************************)
(* A change of the pin at least 100 ms after the last event is reported,   *)
(* however edges, stale bytes in the pipe and the sensor thread interleave,*)
(* unless an event is sent that makes it a change within 100 ms, or the    *)
(* clock is set back before the sensor thread has taken the time.  Of a    *)
(* change while the last event is in the future nothing is said: it is     *)
(* reported at once, or dropped when the thread comes so late that the     *)
(* clock has reached that time again.                                      *)
(***************************************************************************)
Quiet == changedAt - sentAt >= DebounceTime

QuietChangeReported ==
  Quiet /\ running ~> ~Quiet \/ ~running \/ sent = Code(present)

(***************************************************************************)
(* The sensor thread never goes to sleep on such a change: as long as it   *)
(* has not been reported, an edge, the interrupt thread or a byte in the   *)
(* pipe will wake it.  One byte may stand for several changes, stale ones  *)
(* may come before it, and what is dropped within 100 ms is dropped for    *)
(* good (handle_device reads the pin after the byte, and last_event moves  *)
(* only with an event).                                                    *)
(***************************************************************************)
WakeUpComes == edge \/ isrPc = "write" \/ interruptPipe > 0

QuietChangeNotMissed ==
  running /\ pc = "poll" /\ Quiet /\ sent # Code(present) => WakeUpComes

(***************************************************************************)
(* train_sensor_close returns: the sensor thread always gets to see the    *)
(* flag, and neither thread waits for the mutex or a pipe for ever (as     *)
(* long as fewer edges come than the pipes take).                          *)
(***************************************************************************)
CloseReturns == mainPc = "lock" ~> mainPc = "closed"

(***************************************************************************)
(* When stop() has written its byte, the sensor thread is not left asleep: *)
(* it may take the byte before the mutex is released, or another one that  *)
(* was there, but then it does not come back to poll.                      *)
(***************************************************************************)
StopNotMissed ==
  mainPc \in {"unlock", "join"} /\ pc = "poll" => interruptPipe > 0
=============================================================================
