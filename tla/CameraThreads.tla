---------------------------- MODULE CameraThreads -----------------------------
(***************************************************************************)
(* What the two threads of lpx-control/src/camera.c share without a lock,  *)
(* one access to memory at a time: the list of frames of a session         *)
(* (lpx-shared/src/list.c), to which the callback thread appends while the *)
(* main thread measures, copies and frees it, and the static buffer of     *)
(* current_time, which both fill.  Module Capture takes either in one      *)
(* step.                                                                   *)
(*                                                                         *)
(* What one thread has written becomes visible to the other in any order,  *)
(* as on the processors of a Raspberry Pi, but not later than when it      *)
(* releases the mutex.  Before that, memory just allocated reads as        *)
(* garbage, and a variable that both write as what was there before.  Of   *)
(* two stores to one variable, the one that is visible later stays.        *)
(***************************************************************************)
EXTENDS Integers, Sequences, FiniteSets

CONSTANTS MaxFrames,   (* bound: frames that are appended                    *)
          MaxStarts,   (* bound: other sessions started meanwhile            *)
          MaxClock,    (* bound: the value at which the clock stops          *)
          SecondSize   (* what tv_usec counts to, a million in the program   *)

ASSUME ConstantsAssumption ==
  /\ MaxFrames \in Nat
  /\ MaxStarts \in Nat
  /\ MaxClock \in Nat
  /\ SecondSize \in Nat \ {0}

Items == 1 .. MaxFrames
NULL == 0
GARBAGE == -1
Threads == {"main", "callback"}

VARIABLES
  (* the list; item i is the one that was appended as the i-th *)
  appended,  (* how many items have been appended                            *)
  hidden,    (* the writes of the last lst_append main cannot see yet        *)
  stopping,
  cbPc,
  mainPc,
  framesCnt, (* frames_cnt of camera_write_frame_index                       *)
  item,      (* `item' of lst_to_array                                       *)
  array,     (* frame_array as far as it has been filled                     *)
  settled,   (* history: how many items main could see when it had set       *)
             (* `stopping'                                                   *)
  (* current_time *)
  clock,
  curTime,   (* the static variable cur_time, as each thread sees it         *)
  unseen,    (* the words of it whose last store the other cannot see yet    *)
  timePc,    (* where in current_time each thread is                         *)
  reading,   (* what gettimeofday has read for it                            *)
  result,    (* what it has copied out of cur_time                           *)
  held,      (* history: the readings of its calls whose stores the other    *)
             (* may not have seen                                            *)
  mixed,     (* history: the readings the other thread held when its last    *)
             (* call began, and of the calls that began during it            *)
  starts     (* how many sessions main has started meanwhile                 *)

listVars == <<appended, hidden, stopping, cbPc>>
copyVars == <<mainPc, framesCnt, item, array, settled>>
timeVars == <<curTime, unseen, timePc, reading, result, held, mixed, starts>>
vars == <<listVars, copyVars, clock, timeVars>>

(* The writes of lst_append: of the new item, of the pointer to it, and of
   the size.  Its field `last' is read by nobody else. *)
Writes == {"zero", "data", "link", "size"}
Words == {"sec", "usec"}
Time == [sec : Nat, usec : 0 .. SecondSize - 1]

TypeOK ==
  /\ appended \in 0 .. MaxFrames
  /\ hidden \subseteq Writes
  /\ stopping \in BOOLEAN
  /\ cbPc \in {"idle", "store", "time", "append"}
  /\ mainPc \in {"running", "size", "first", "copy", "copied", "fault"}
  /\ framesCnt \in 0 .. MaxFrames
  /\ item \in Items \cup {NULL}
  /\ array \in Seq(Items \cup {GARBAGE})
  /\ settled \in 0 .. MaxFrames
  /\ clock \in 0 .. MaxClock
  /\ curTime \in [Threads -> Time]
  /\ unseen \in [Threads -> SUBSET Words]
  /\ timePc \in [Threads -> {"out", "sec", "usec", "copy_sec", "copy_usec"}]
  /\ reading \in [Threads -> 0 .. MaxClock]
  /\ result \in [Threads -> Time]
  /\ held \in [Threads -> SUBSET (0 .. MaxClock)]
  /\ mixed \in [Threads -> SUBSET (0 .. MaxClock)]
  /\ starts \in 0 .. MaxStarts

Zero == [sec |-> 0, usec |-> 0]

Init ==
  /\ appended = 0
  /\ hidden = {}
  /\ stopping = FALSE
  /\ cbPc = "idle"
  /\ mainPc = "running"
  /\ framesCnt = 0
  /\ item = NULL
  /\ array = <<>>
  /\ settled = 0
  /\ clock = 0
  /\ curTime = [th \in Threads |-> Zero]
  /\ unseen = [th \in Threads |-> {}]
  /\ timePc = [th \in Threads |-> "out"]
  /\ reading = [th \in Threads |-> 0]
  /\ result = [th \in Threads |-> Zero]
  /\ held = [th \in Threads |-> {}]
  /\ mixed = [th \in Threads |-> {}]
  /\ starts = 0

Running == mainPc # "fault"

(* The items main can see *)
Settled == IF hidden = {} THEN appended ELSE appended - 1
-----------------------------------------------------------------------------
(* current_time *)

Other(th) == IF th = "main" THEN "callback" ELSE "main"
InCall(th) == timePc[th] # "out"

(* tv_sec and tv_usec; mutants: time instead of gettimeofday, a tv_usec that
   counts on. *)
UsecNone(t) == 0
UsecAll(t) == t
Sec(t) == t \div SecondSize
Usec(t) == t % SecondSize

(* The thread is in a call, or the other has not seen all of the last one. *)
Holds(th) == InCall(th) \/ unseen[th] # {}

(* gettimeofday reads the clock ... *)
ReadClock(th) ==
  /\ ~InCall(th)
  /\ timePc' = [timePc EXCEPT ![th] = "sec"]
  /\ reading' = [reading EXCEPT ![th] = clock]
  /\ held' = [held EXCEPT ![th] = {clock} \cup (IF Holds(th) THEN @ ELSE {})]
  /\ mixed' = [mixed EXCEPT
                 ![th] = IF Holds(Other(th)) THEN held[Other(th)] ELSE {},
                 ![Other(th)] = IF InCall(Other(th)) THEN @ \cup {clock} ELSE @]
  /\ UNCHANGED <<curTime, unseen, result>>

(* ... and stores two words, which are then copied out one by one. *)
StoreSec(th) ==
  /\ timePc[th] = "sec"
  /\ curTime' = [curTime EXCEPT ![th].sec = Sec(reading[th])]
  /\ unseen' = [unseen EXCEPT ![th] = @ \cup {"sec"}]
  /\ timePc' = [timePc EXCEPT ![th] = "usec"]
  /\ UNCHANGED <<reading, result, held, mixed>>

StoreUsec(th) ==
  /\ timePc[th] = "usec"
  /\ curTime' = [curTime EXCEPT ![th].usec = Usec(reading[th])]
  /\ unseen' = [unseen EXCEPT ![th] = @ \cup {"usec"}]
  /\ timePc' = [timePc EXCEPT ![th] = "copy_sec"]
  /\ UNCHANGED <<reading, result, held, mixed>>

CopySec(th) ==
  /\ timePc[th] = "copy_sec"
  /\ result' = [result EXCEPT ![th].sec = curTime[th].sec]
  /\ timePc' = [timePc EXCEPT ![th] = "copy_usec"]
  /\ UNCHANGED <<curTime, unseen, reading, held, mixed>>

CopyUsec(th) ==
  /\ timePc[th] = "copy_usec"
  /\ result' = [result EXCEPT ![th].usec = curTime[th].usec]
  /\ timePc' = [timePc EXCEPT ![th] = "out"]
  /\ UNCHANGED <<curTime, unseen, reading, held, mixed>>

(* A store becomes visible to the other thread, unless that thread has a
   store of its own under way, which will be the later one. *)
PropagateTime ==
  /\ Running
  /\ \E th \in Threads : \E w \in unseen[th] :
       /\ unseen' = [unseen EXCEPT ![th] = @ \ {w}]
       /\ curTime' = IF w \in unseen[Other(th)] THEN curTime
                      ELSE [curTime EXCEPT ![Other(th)][w] = curTime[th][w]]
  /\ UNCHANGED <<listVars, copyVars, clock, timePc, reading, result, held, mixed,
                 starts>>
-----------------------------------------------------------------------------
(* The callback thread: camera_handle_frame *)

(* The answer to `stopping', which is read under the mutex; mutant: it is
   not read. *)
AdmittedAlways == TRUE
Admitted == ~stopping

(* The mutex is released only when all earlier writes can be seen. *)
CheckStopping ==
  /\ Running
  /\ cbPc = "idle"
  /\ hidden = {} /\ unseen["callback"] = {}
  /\ appended < MaxFrames
  /\ Admitted
  /\ cbPc' = "store"
  /\ UNCHANGED <<appended, hidden, stopping, copyVars, clock, timeVars>>

StoreFails ==
  /\ Running
  /\ cbPc = "store"
  /\ cbPc' = "idle"
  /\ UNCHANGED <<appended, hidden, stopping, copyVars, clock, timeVars>>

FrameTime ==
  /\ Running
  /\ \/ cbPc = "store" /\ ReadClock("callback") /\ cbPc' = "time"
     \/ cbPc = "time" /\ cbPc' = cbPc
          /\ (StoreSec("callback") \/ StoreUsec("callback") \/ CopySec("callback"))
     \/ cbPc = "time" /\ CopyUsec("callback") /\ cbPc' = "append"
  /\ UNCHANGED <<appended, hidden, stopping, copyVars, clock, starts>>

LstAppend ==
  /\ Running
  /\ cbPc = "append"
  /\ appended' = appended + 1
  /\ hidden' = Writes
  /\ cbPc' = "idle"
  /\ UNCHANGED <<stopping, copyVars, clock, timeVars>>

Propagate ==
  /\ Running
  /\ \E w \in hidden : hidden' = hidden \ {w}
  /\ UNCHANGED <<appended, stopping, cbPc, copyVars, clock, timeVars>>
-----------------------------------------------------------------------------
(* The list as main sees it *)

Sees(i, w) == i < appended \/ w \notin hidden

(* The item `next' of item i is set to; mutant: lst_append does not move
   `last'. *)
SuccessorOfFirst(i) == appended
Successor(i) == i + 1

Size == IF Sees(appended, "size") THEN appended ELSE appended - 1
First == IF appended > 0 /\ Sees(1, "link") THEN 1 ELSE NULL
NextItem(i) == IF i < appended /\ Sees(Successor(i), "link") THEN Successor(i)
            ELSE IF Sees(i, "zero") THEN NULL ELSE GARBAGE
Data(i) == IF Sees(i, "data") THEN i ELSE GARBAGE
-----------------------------------------------------------------------------
(* The main thread *)

(* camera_start_stream for another train, of which only the call of
   current_time concerns the session of this module *)
StartOther ==
  /\ Running
  /\ mainPc \in {"running", "copied"}
  /\ \/ starts < MaxStarts /\ ReadClock("main") /\ starts' = starts + 1
     \/ UNCHANGED starts
          /\ (StoreSec("main") \/ StoreUsec("main") \/ CopySec("main") \/ CopyUsec("main"))
  /\ UNCHANGED <<listVars, copyVars, clock>>

(* camera_stop_stream: `stopping' is set under the mutex. *)
SetStopping ==
  /\ mainPc = "running"
  /\ ~InCall("main") /\ unseen["main"] = {}
  /\ stopping' = TRUE
  /\ settled' = Settled
  /\ mainPc' = "size"
  /\ UNCHANGED <<appended, hidden, cbPc, framesCnt, item, array, clock, timeVars>>

(* lst_size; without frames nothing is copied. *)
ReadSize ==
  /\ mainPc = "size"
  /\ framesCnt' = Size
  /\ mainPc' = IF framesCnt' = 0 THEN "copied" ELSE "first"
  /\ UNCHANGED <<listVars, item, array, settled, clock, timeVars>>

(* lst_to_array goes to the item `next', which may be the end of the list
   or a pointer that leads anywhere. *)
GoToItem(next) ==
  \/ next = NULL /\ mainPc' = "copied" /\ item' = NULL
  \/ next = GARBAGE /\ mainPc' = "fault" /\ UNCHANGED item
  \/ next \in Items /\ mainPc' = "copy" /\ item' = next

ReadFirst ==
  /\ mainPc = "first"
  /\ GoToItem(First)
  /\ UNCHANGED <<listVars, framesCnt, array, settled, clock, timeVars>>

(* It does not know how much room the array has. *)
CopyItem ==
  /\ mainPc = "copy"
  /\ \/ /\ Len(array) < framesCnt
        /\ array' = Append(array, Data(item))
        /\ GoToItem(NextItem(item))
     \/ /\ Len(array) = framesCnt
        /\ mainPc' = "fault"
        /\ UNCHANGED <<array, item>>
  /\ UNCHANGED <<listVars, framesCnt, settled, clock, timeVars>>
-----------------------------------------------------------------------------
Tick ==
  /\ Running
  /\ clock < MaxClock
  /\ clock' = clock + 1
  /\ UNCHANGED <<listVars, copyVars, timeVars>>

Next ==
  \/ CheckStopping
  \/ StoreFails
  \/ FrameTime
  \/ LstAppend
  \/ Propagate
  \/ PropagateTime
  \/ StartOther
  \/ SetStopping
  \/ ReadSize
  \/ ReadFirst
  \/ CopyItem
  \/ Tick

Spec == Init /\ [][Next]_vars
-----------------------------------------------------------------------------
(* Properties *)

(***************************************************************************)
(* The list is the queue module Capture takes it for, although its parts   *)
(* are written and read one by one.                                        *)
(***************************************************************************)
Queue == INSTANCE FrameQueue WITH
  length <- Settled,
  appending <- cbPc # "idle" \/ hidden # {},
  pc <- IF mainPc = "first" THEN "copy" ELSE mainPc,
  count <- framesCnt,
  copied <- IF mainPc = "copied" THEN Len(array) ELSE 0

ImplementsFrameQueue == Queue!Spec

(***************************************************************************)
(* Every frame that main could see when it had set `stopping' is counted   *)
(* and copied, in its place and whole; the mutex, taken for a frame before *)
(* it is handled, is all that orders the appends of earlier ones before    *)
(* the reads of camera_write_frame_index.                                  *)
(***************************************************************************)
SettledFramesCopied ==
  mainPc = "copied" =>
    /\ framesCnt >= settled
    /\ Len(array) >= settled
    /\ \A i \in 1 .. settled : array[i] = i

(***************************************************************************)
(* The two threads can go wrong over one frame only: what is miscounted,   *)
(* missing, half-made or behind the end of frame_array is the frame that   *)
(* was being handled when `stopping' was set.                              *)
(***************************************************************************)
OneFrameAtRisk ==
  /\ mainPc = "fault" => appended = settled + 1
  /\ mainPc = "copied" =>
       /\ framesCnt <= settled + 1
       /\ \A i \in 1 .. Len(array) : array[i] # i => i = settled + 1

(***************************************************************************)
(* A time from current_time was read by the call it comes from, by a call  *)
(* of the other thread that overlapped it, or by an earlier one of the     *)
(* other thread of which not every store had reached this one, unless a    *)
(* second began between these readings: then its seconds may be of one of  *)
(* them and its microseconds of another.  So a call is left alone by all   *)
(* that the other thread had read when it last released the mutex.         *)
(***************************************************************************)
TimeWasRead ==
  \A th \in Threads :
    LET readings == {reading[th]} \cup mixed[th]
        time == result[th].sec * SecondSize + result[th].usec
    IN  ~InCall(th) /\ (\A r, s \in readings : Sec(r) = Sec(s))
          => time \in readings
=============================================================================
