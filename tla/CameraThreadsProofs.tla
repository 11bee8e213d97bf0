-------------------------- MODULE CameraThreadsProofs --------------------------
(***************************************************************************)
(* Theorems of CameraThreads, for every number of frames, of sessions and  *)
(* of clock readings, and every length of a second.                        *)
(*                                                                         *)
(* Once `stopping' is set, one frame at most can still be appended; all    *)
(* the others have been appended and are seen by the main thread, which is *)
(* what the release of the mutex for a later frame, or the test of         *)
(* `stopping' itself, has brought about.  Everything the main thread reads *)
(* of the items up to `settled' is therefore as it should be.              *)
(*                                                                         *)
(* The static buffer of current_time is dealt with apart from the list:    *)
(* HeldOf says which readings a store may come from that the other thread  *)
(* has yet to see, TimeOf which ones the two words may come from while a   *)
(* thread is using them.                                                   *)
(***************************************************************************)
EXTENDS CameraThreads, SequenceTheorems, TLAPS

ListTypeOK ==
  /\ appended \in 0 .. MaxFrames
  /\ hidden \subseteq Writes
  /\ stopping \in BOOLEAN
  /\ cbPc \in {"idle", "store", "time", "append"}
  /\ mainPc \in {"running", "size", "first", "copy", "copied", "fault"}
  /\ framesCnt \in 0 .. MaxFrames
  /\ item \in Items \cup {NULL}
  /\ array \in Seq(Items \cup {GARBAGE})
  /\ settled \in 0 .. MaxFrames

Appending == cbPc # "idle" \/ hidden # {}

(* The callback thread does one thing at a time. *)
AppendInv ==
  /\ hidden # {} => appended > 0 /\ cbPc = "idle"
  /\ cbPc # "idle" => appended < MaxFrames

(* The one frame at risk *)
StopInv ==
  /\ stopping <=> mainPc # "running"
  /\ mainPc # "running" =>
       /\ settled <= Settled
       /\ Settled <= settled + 1
       /\ Appending => Settled = settled

CountInv ==
  mainPc \notin {"running", "size"} =>
    /\ settled <= framesCnt
    /\ framesCnt <= settled + 1
    /\ framesCnt = settled + 1 => appended = settled + 1

(* What is copied is right, up to that frame. *)
CopyInv ==
  /\ mainPc \in {"running", "size", "first"} => array = <<>>
  /\ mainPc \in {"first", "copy"} => framesCnt # 0
  /\ mainPc = "copy" => item = Len(array) + 1 /\ item <= appended
  /\ mainPc = "copied" => Len(array) >= settled
  /\ mainPc = "fault" => appended = settled + 1
  /\ Len(array) <= settled + 1
  /\ \A i \in 1 .. Len(array) :
       array[i] = i \/ (array[i] = GARBAGE /\ i = settled + 1)

ListInv == ListTypeOK /\ AppendInv /\ StopInv /\ CountInv /\ CopyInv
-----------------------------------------------------------------------------
LEMMA ListInvInit == Init => ListInv
<1> SUFFICES ASSUME Init PROVE ListInv
  OBVIOUS
<1>1. <<>> \in Seq(Items \cup {GARBAGE}) /\ Len(<<>>) = 0
  OBVIOUS
<1>2. ListTypeOK
  <2>1. array \in Seq(Items \cup {GARBAGE})
    BY <1>1 DEF Init
  <2>2. 0 \in 0 .. MaxFrames
    BY ConstantsAssumption
  <2> QED
    BY <2>1, <2>2 DEF Init, ListTypeOK
<1>3. AppendInv /\ CountInv
  BY DEF Init, AppendInv, CountInv
<1>4. StopInv
  BY DEF Init, StopInv
<1>5. CopyInv
  BY <1>1 DEF Init, CopyInv
<1> QED
  BY <1>2, <1>3, <1>4, <1>5 DEF ListInv

(* What the items are for the main thread once `stopping' is set *)
LEMMA Reading ==
  ASSUME ListInv, mainPc # "running"
  PROVE  /\ appended \in Nat /\ settled \in Nat
         /\ settled <= appended /\ appended <= settled + 1
         /\ appended = settled => hidden = {}
         /\ \A i \in Nat : i < appended => \A w : Sees(i, w)
         /\ \A w : hidden = {} => Sees(appended, w)
         /\ Settled \in Nat
BY DEF ListInv, ListTypeOK, AppendInv, StopInv, Settled, Appending, Sees

LEMMA FirstIs ==
  ASSUME ListInv, mainPc # "running"
  PROVE  \/ First = 1 /\ appended >= 1
         \/ First = NULL /\ settled = 0
BY Reading DEF First, NULL

LEMMA DataIs ==
  ASSUME ListInv, mainPc # "running", NEW i \in 1 .. appended
  PROVE  \/ Data(i) = i
         \/ Data(i) = GARBAGE /\ i = settled + 1
<1>1. CASE i < appended
  BY <1>1, Reading DEF Data
<1>2. CASE i = appended
  BY <1>2, Reading DEF Data
<1>3. appended \in Nat
  BY Reading
<1> QED
  BY <1>1, <1>2, <1>3

LEMMA NextIs ==
  ASSUME ListInv, mainPc # "running", NEW i \in 1 .. appended
  PROVE  \/ NextItem(i) = i + 1 /\ i < appended
         \/ /\ NextItem(i) = NULL
            /\ i >= settled
            /\ i = Settled \/ (i = Settled + 1 /\ hidden # {})
         \/ /\ NextItem(i) = GARBAGE
            /\ i = appended
            /\ hidden # {}
            /\ appended = settled + 1
<1>1. /\ appended \in Nat /\ settled \in Nat /\ i \in Nat
      /\ settled <= appended /\ appended <= settled + 1
      /\ appended = settled => hidden = {}
      /\ Settled = IF hidden = {} THEN appended ELSE appended - 1
  BY Reading DEF Settled
<1>2. CASE i < appended
  <2>1. Sees(i, "zero")
    BY <1>2, Reading
  <2>2. CASE Sees(Successor(i), "link")
    BY <1>2, <2>2 DEF NextItem, Successor
  <2>3. CASE ~Sees(Successor(i), "link")
    <3>1. NextItem(i) = NULL
      BY <2>1, <2>3 DEF NextItem
    <3>2. ~(i + 1 < appended) /\ "link" \in hidden
      BY <2>3 DEF Sees, Successor
    <3>3. i + 1 = appended
      BY <1>1, <1>2, <3>2
    <3> QED
      BY <1>1, <3>1, <3>2, <3>3
  <2> QED
    BY <2>2, <2>3
<1>3. CASE i = appended
  <2>1. NextItem(i) = IF Sees(i, "zero") THEN NULL ELSE GARBAGE
    BY <1>1, <1>3 DEF NextItem
  <2>2. hidden = {} => Sees(i, "zero")
    BY <1>3, Reading
  <2>3. CASE hidden = {}
    BY <1>1, <1>3, <2>1, <2>2, <2>3
  <2>4. CASE hidden # {}
    BY <1>1, <1>3, <2>1, <2>4
  <2> QED
    BY <2>3, <2>4
<1> QED
  BY <1>1, <1>2, <1>3

LEMMA SizeIs ==
  ASSUME ListInv, mainPc # "running"
  PROVE  /\ Size \in 0 .. MaxFrames
         /\ settled <= Size
         /\ Size <= settled + 1
         /\ Size = settled + 1 => appended = settled + 1
         /\ Size = Settled \/ (Size = Settled + 1 /\ hidden # {})
<1>1. /\ appended \in Nat /\ settled \in Nat
      /\ settled <= appended /\ appended <= settled + 1
      /\ appended = settled => hidden = {}
      /\ appended <= MaxFrames
      /\ Settled = IF hidden = {} THEN appended ELSE appended - 1
      /\ hidden # {} => appended > 0
  BY Reading DEF Settled, ListInv, ListTypeOK, AppendInv
<1>2. hidden = {} => Size = appended
  BY Reading DEF Size
<1>3. Size \in {appended, appended - 1}
  BY DEF Size
<1>4. CASE hidden = {}
  BY <1>1, <1>2, <1>4, ConstantsAssumption
<1>5. CASE hidden # {}
  BY <1>1, <1>3, <1>5, ConstantsAssumption
<1> QED
  BY <1>4, <1>5
-----------------------------------------------------------------------------
(* What the steps do to the list, and to what is read of it *)

(* The callback thread *)
LEMMA CallbackKeeps ==
  ASSUME ListInv, \/ CheckStopping \/ StoreFails \/ FrameTime \/ LstAppend
                  \/ Propagate
  PROVE  ListInv'
<1>1. UNCHANGED <<stopping, copyVars>> /\ mainPc # "fault"
  BY DEF CheckStopping, StoreFails, FrameTime, LstAppend, Propagate, Running
<1>2. UNCHANGED <<stopping, mainPc, framesCnt, item, array, settled>>
  BY <1>1 DEF copyVars
<1>3. /\ appended \in Nat /\ settled \in Nat /\ framesCnt \in Nat
      /\ appended <= MaxFrames
      /\ hidden \subseteq Writes
      /\ stopping <=> mainPc # "running"
  BY DEF ListInv, ListTypeOK, StopInv
<1>4. CASE CheckStopping
  <2>1. /\ mainPc = "running" /\ hidden = {} /\ appended < MaxFrames
        /\ cbPc' = "store"
        /\ UNCHANGED <<appended, hidden>>
    BY <1>3, <1>4 DEF CheckStopping, Admitted
  <2> QED
    BY <1>2, <1>3, <2>1
       DEF ListInv, ListTypeOK, AppendInv, StopInv, CountInv, CopyInv, Settled,
           Appending
<1>5. CASE StoreFails \/ FrameTime
  <2>1. /\ cbPc # "idle" /\ cbPc' \in {"idle", "time", "append"}
        /\ UNCHANGED <<appended, hidden>>
    BY <1>5 DEF StoreFails, FrameTime
  <2> QED
    BY <1>2, <1>3, <2>1
       DEF ListInv, ListTypeOK, AppendInv, StopInv, CountInv, CopyInv, Settled,
           Appending
<1>6. CASE LstAppend
  <2>1. /\ cbPc = "append" /\ cbPc' = "idle"
        /\ appended' = appended + 1
        /\ hidden' = Writes
    BY <1>6 DEF LstAppend
  <2>2. hidden = {} /\ appended < MaxFrames /\ Appending
    BY <2>1 DEF ListInv, AppendInv, Appending
  <2>3. Writes # {}
    BY DEF Writes
  <2>4. Settled' = Settled /\ Settled = appended
    BY <1>3, <2>1, <2>2, <2>3 DEF Settled
  <2>5. ListTypeOK'
    BY <1>2, <1>3, <2>1, <2>2, ConstantsAssumption DEF ListInv, ListTypeOK
  <2>6. AppendInv'
    BY <1>3, <2>1 DEF AppendInv
  <2>7. mainPc # "running" => appended = settled
    BY <2>2, <2>4 DEF ListInv, StopInv
  <2>8. StopInv'
    BY <1>2, <1>3, <2>4, <2>7 DEF ListInv, StopInv
  <2>9. CountInv'
    BY <1>2, <1>3, <2>1, <2>7 DEF ListInv, CountInv
  <2>10. CopyInv'
    BY <1>1, <1>2, <1>3, <2>1 DEF ListInv, CopyInv
  <2> QED
    BY <2>5, <2>6, <2>8, <2>9, <2>10 DEF ListInv
<1>7. CASE Propagate
  <2>1. /\ hidden # {} /\ hidden' \subseteq hidden
        /\ UNCHANGED <<appended, cbPc>>
    BY <1>7 DEF Propagate
  <2>2. cbPc = "idle" /\ appended > 0 /\ Appending
    BY <2>1 DEF ListInv, AppendInv, Appending
  <2>3. /\ Settled = appended - 1
        /\ Settled' = IF hidden' = {} THEN appended ELSE appended - 1
        /\ Appending' <=> hidden' # {}
    BY <2>1, <2>2 DEF Settled, Appending
  <2>4. ListTypeOK' /\ AppendInv'
    BY <1>2, <1>3, <2>1, <2>2 DEF ListInv, ListTypeOK, AppendInv
  <2>5. StopInv'
    BY <1>2, <1>3, <2>2, <2>3 DEF ListInv, StopInv
  <2>6. CountInv' /\ CopyInv'
    BY <1>2, <1>3, <2>1 DEF ListInv, CountInv, CopyInv
  <2> QED
    BY <2>4, <2>5, <2>6 DEF ListInv
<1> QED
  BY <1>4, <1>5, <1>6, <1>7

(* The main thread copies an item and goes to the next. *)
LEMMA CopyItemKeeps ==
  ASSUME ListInv, CopyItem
  PROVE  ListInv'
<1>1. /\ mainPc = "copy"
      /\ UNCHANGED <<appended, hidden, stopping, cbPc, framesCnt, settled>>
  BY DEF CopyItem, listVars
<1>2. /\ appended \in Nat /\ settled \in Nat /\ framesCnt \in Nat
      /\ settled <= appended /\ appended <= settled + 1
      /\ appended <= MaxFrames
      /\ settled <= framesCnt
  BY <1>1, Reading DEF ListInv, ListTypeOK, CountInv
<1>3. /\ array \in Seq(Items \cup {GARBAGE})
      /\ Len(array) \in Nat
      /\ item = Len(array) + 1
      /\ item \in 1 .. appended
      /\ \A i \in 1 .. Len(array) :
           array[i] = i \/ (array[i] = GARBAGE /\ i = settled + 1)
  BY <1>1 DEF ListInv, ListTypeOK, CopyInv, Items, NULL
<1>4. Settled' = Settled /\ (Appending' <=> Appending)
  BY <1>1 DEF Settled, Appending
<1>5. mainPc' \in {"copied", "fault", "copy"}
  BY <1>1 DEF CopyItem, GoToItem
<1>6. AppendInv' /\ StopInv' /\ CountInv'
  BY <1>1, <1>4, <1>5 DEF ListInv, AppendInv, StopInv, CountInv
<1>7. CASE Len(array) = framesCnt /\ mainPc' = "fault" /\ UNCHANGED <<array, item>>
  <2>1. appended = settled + 1
    BY <1>2, <1>3, <1>7
  <2>2. ListTypeOK' /\ CopyInv'
    BY <1>1, <1>2, <1>3, <1>7, <2>1 DEF ListInv, ListTypeOK, CopyInv
  <2> QED
    BY <1>6, <2>2 DEF ListInv
<1>8. CASE Len(array) < framesCnt /\ array' = Append(array, Data(item))
            /\ GoToItem(NextItem(item))
  <2>1. Data(item) = item \/ (Data(item) = GARBAGE /\ item = settled + 1)
    BY <1>1, <1>3, DataIs
  <2>2. Data(item) \in Items \cup {GARBAGE}
    BY <1>2, <1>3, <2>1, ConstantsAssumption DEF Items
  <2> DEFINE x == Data(item)
  <2> HIDE DEF x
  <2>3. /\ array' \in Seq(Items \cup {GARBAGE})
        /\ Len(array') = Len(array) + 1
        /\ \A i \in 1 .. Len(array) : array'[i] = array[i]
        /\ array'[Len(array) + 1] = x
    BY <1>3, <1>8, <2>2, AppendProperties DEF x
  <2>4. \A i \in 1 .. Len(array') :
          array'[i] = i \/ (array'[i] = GARBAGE /\ i = settled + 1)
    <3> SUFFICES ASSUME NEW i \in 1 .. Len(array')
                 PROVE  array'[i] = i \/ (array'[i] = GARBAGE /\ i = settled + 1)
      OBVIOUS
    <3>1. CASE i = Len(array) + 1
      BY <1>3, <2>1, <2>3, <3>1 DEF x
    <3>2. CASE i # Len(array) + 1
      BY <1>3, <2>3, <3>2
    <3> QED
      BY <3>1, <3>2
  <2>5. Len(array') <= settled + 1
    BY <1>2, <1>3, <2>3
  <2>6. \/ NextItem(item) = item + 1 /\ item < appended
        \/ NextItem(item) = NULL /\ item >= settled
        \/ NextItem(item) = GARBAGE /\ appended = settled + 1
    BY <1>1, <1>3, NextIs
  <2>7. CASE NextItem(item) = item + 1 /\ item < appended
    <3>1. item + 1 \in Items
      BY <1>2, <1>3, <2>7, ConstantsAssumption DEF Items
    <3>2. mainPc' = "copy" /\ item' = item + 1
      BY <1>3, <1>8, <2>7, <3>1 DEF GoToItem, NULL, GARBAGE
    <3>3. ListTypeOK'
      BY <1>1, <2>3, <3>1, <3>2 DEF ListInv, ListTypeOK
    <3>4. CopyInv'
      BY <1>1, <1>2, <1>3, <2>3, <2>4, <2>5, <2>7, <3>2 DEF ListInv, CopyInv
    <3> QED
      BY <1>6, <3>3, <3>4 DEF ListInv
  <2>8. CASE NextItem(item) = NULL /\ item >= settled
    <3>1. mainPc' = "copied" /\ item' = NULL
      BY <1>8, <2>8 DEF GoToItem, NULL, GARBAGE, Items
    <3>2. ListTypeOK'
      BY <1>1, <2>3, <3>1 DEF ListInv, ListTypeOK
    <3>3. CopyInv'
      BY <1>1, <1>2, <1>3, <2>3, <2>4, <2>5, <2>8, <3>1 DEF ListInv, CopyInv
    <3> QED
      BY <1>6, <3>2, <3>3 DEF ListInv
  <2>9. CASE NextItem(item) = GARBAGE /\ appended = settled + 1
    <3>1. mainPc' = "fault" /\ item' = item
      BY <1>8, <2>9 DEF GoToItem, NULL, GARBAGE, Items
    <3>2. ListTypeOK'
      BY <1>1, <2>3, <3>1 DEF ListInv, ListTypeOK
    <3>3. CopyInv'
      BY <1>1, <1>2, <2>4, <2>5, <2>9, <3>1 DEF ListInv, CopyInv
    <3> QED
      BY <1>6, <3>2, <3>3 DEF ListInv
  <2> QED
    BY <2>6, <2>7, <2>8, <2>9
<1> QED
  BY <1>7, <1>8 DEF CopyItem

(* The main thread up to the copying *)
LEMMA StopKeeps ==
  ASSUME ListInv, SetStopping \/ ReadSize \/ ReadFirst
  PROVE  ListInv'
<1>1. UNCHANGED <<appended, hidden, cbPc, array>>
  BY DEF SetStopping, ReadSize, ReadFirst, listVars
<1>2. /\ array = <<>> /\ Len(array) = 0
      /\ appended \in Nat /\ appended <= MaxFrames /\ settled \in Nat
  BY DEF SetStopping, ReadSize, ReadFirst, ListInv, ListTypeOK, CopyInv
<1>3. Settled' = Settled /\ (Appending' <=> Appending)
  BY <1>1 DEF Settled, Appending
<1>4. AppendInv'
  BY <1>1 DEF ListInv, AppendInv
<1>5. CASE SetStopping
  <2>1. /\ mainPc = "running" /\ mainPc' = "size"
        /\ stopping' = TRUE
        /\ settled' = Settled
        /\ UNCHANGED <<framesCnt, item>>
    BY <1>5 DEF SetStopping
  <2>2. Settled \in 0 .. MaxFrames /\ Settled \in Nat
    BY <1>2, ConstantsAssumption DEF Settled, ListInv, AppendInv
  <2>3. ListTypeOK'
    BY <1>1, <2>1, <2>2 DEF ListInv, ListTypeOK
  <2>4. StopInv'
    BY <1>3, <2>1, <2>2 DEF StopInv
  <2>5. CountInv' /\ CopyInv'
    BY <1>1, <1>2, <2>1, <2>2 DEF CountInv, CopyInv
  <2> QED
    BY <1>4, <2>3, <2>4, <2>5 DEF ListInv
<1>6. CASE ReadSize
  <2>1. /\ mainPc = "size"
        /\ framesCnt' = Size
        /\ \/ framesCnt' = 0 /\ mainPc' = "copied"
           \/ framesCnt' # 0 /\ mainPc' = "first"
        /\ UNCHANGED <<stopping, item, settled>>
    BY <1>6 DEF ReadSize, listVars
  <2>2. /\ Size \in 0 .. MaxFrames
        /\ settled <= Size
        /\ Size <= settled + 1
        /\ Size = settled + 1 => appended = settled + 1
    BY <2>1, SizeIs
  <2>3. ListTypeOK'
    BY <1>1, <2>1, <2>2 DEF ListInv, ListTypeOK
  <2>4. StopInv'
    BY <1>3, <2>1 DEF ListInv, StopInv
  <2>5. CountInv'
    BY <1>1, <2>1, <2>2 DEF CountInv
  <2>6. CopyInv'
    BY <1>1, <1>2, <2>1, <2>2 DEF CopyInv
  <2> QED
    BY <1>4, <2>3, <2>4, <2>5, <2>6 DEF ListInv
<1>7. CASE ReadFirst
  <2>1. /\ mainPc = "first"
        /\ GoToItem(First)
        /\ UNCHANGED <<stopping, framesCnt, settled>>
    BY <1>7 DEF ReadFirst, listVars
  <2>2. \/ First = 1 /\ appended >= 1
        \/ First = NULL /\ settled = 0
    BY <2>1, FirstIs
  <2>3. 1 \in Items \/ First = NULL
    BY <1>2, <2>2, ConstantsAssumption DEF Items
  <2>4. \/ mainPc' = "copy" /\ item' = 1 /\ appended >= 1 /\ 1 \in Items
        \/ mainPc' = "copied" /\ item' = NULL /\ settled = 0
    BY <2>1, <2>2, <2>3 DEF GoToItem, NULL, GARBAGE, Items
  <2>5. ListTypeOK'
    BY <1>1, <2>1, <2>4 DEF ListInv, ListTypeOK
  <2>6. StopInv' /\ CountInv'
    BY <1>1, <1>3, <2>1, <2>4 DEF ListInv, StopInv, CountInv
  <2>7. CopyInv'
    BY <1>1, <1>2, <2>1, <2>4 DEF ListInv, CopyInv
  <2> QED
    BY <1>4, <2>5, <2>6, <2>7 DEF ListInv
<1> QED
  BY <1>5, <1>6, <1>7

LEMMA ListInvStep == ListInv /\ [Next]_vars => ListInv'
<1> SUFFICES ASSUME ListInv, [Next]_vars PROVE ListInv'
  OBVIOUS
<1>1. CASE CheckStopping \/ StoreFails \/ FrameTime \/ LstAppend \/ Propagate
  BY <1>1, CallbackKeeps
<1>2. CASE SetStopping \/ ReadSize \/ ReadFirst
  BY <1>2, StopKeeps
<1>3. CASE CopyItem
  BY <1>3, CopyItemKeeps
<1>4. CASE StartOther \/ PropagateTime \/ Tick \/ UNCHANGED vars
  <2>1. UNCHANGED <<listVars, copyVars>>
    BY <1>4 DEF StartOther, PropagateTime, Tick, vars
  <2> QED
    BY <2>1
       DEF listVars, copyVars, ListInv, ListTypeOK, AppendInv, StopInv,
           CountInv, CopyInv, Settled, Appending
<1> QED
  BY <1>1, <1>2, <1>3, <1>4 DEF Next

LEMMA ListInvariant == Spec => []ListInv
BY ListInvInit, ListInvStep, PTL DEF Spec
-----------------------------------------------------------------------------
(* The types of the times *)

LEMMA SecondsTyped ==
  ASSUME NEW t \in Nat
  PROVE  Sec(t) \in Nat /\ Usec(t) \in 0 .. SecondSize - 1
BY ConstantsAssumption DEF Sec, Usec

TimePc == {"out", "sec", "usec", "copy_sec", "copy_usec"}

TimeTypeOK ==
  /\ clock \in 0 .. MaxClock
  /\ curTime \in [Threads -> Time]
  /\ unseen \in [Threads -> SUBSET Words]
  /\ timePc \in [Threads -> TimePc]
  /\ reading \in [Threads -> 0 .. MaxClock]
  /\ result \in [Threads -> Time]
  /\ held \in [Threads -> SUBSET (0 .. MaxClock)]
  /\ mixed \in [Threads -> SUBSET (0 .. MaxClock)]
  /\ starts \in 0 .. MaxStarts

TimeStep(th) ==
  ReadClock(th) \/ StoreSec(th) \/ StoreUsec(th) \/ CopySec(th) \/ CopyUsec(th)

LEMMA Others ==
  ASSUME NEW th \in Threads
  PROVE  /\ Other(th) \in Threads
         /\ Other(th) # th
         /\ Other(Other(th)) = th
         /\ Threads = {th, Other(th)}
BY DEF Threads, Other

(* A record of type Time of which one field is set *)
LEMMA TimeParts ==
  ASSUME NEW t \in Time
  PROVE  /\ \A n \in Nat : /\ [t EXCEPT !.sec = n] \in Time
                           /\ [t EXCEPT !.sec = n].sec = n
                           /\ [t EXCEPT !.sec = n].usec = t.usec
         /\ \A n \in 0 .. SecondSize - 1 :
               /\ [t EXCEPT !.usec = n] \in Time
               /\ [t EXCEPT !.usec = n].usec = n
               /\ [t EXCEPT !.usec = n].sec = t.sec
         /\ t.sec \in Nat /\ t.usec \in 0 .. SecondSize - 1
BY DEF Time
LEMMA TimeStepTyped ==
  ASSUME TimeTypeOK, NEW th \in Threads, TimeStep(th), clock' = clock,
         starts' \in 0 .. MaxStarts
  PROVE  TimeTypeOK'
<1>1. /\ curTime[th] \in Time /\ reading[th] \in Nat /\ result[th] \in Time
      /\ Other(th) \in Threads
      /\ clock \in 0 .. MaxClock
  BY ConstantsAssumption, Others DEF TimeTypeOK
<1>2. timePc' \in [Threads -> TimePc]
  BY DEF TimeTypeOK, TimeStep, ReadClock, StoreSec, StoreUsec, CopySec, CopyUsec,
         TimePc
<1>3. reading' \in [Threads -> 0 .. MaxClock]
  BY <1>1 DEF TimeTypeOK, TimeStep, ReadClock, StoreSec, StoreUsec, CopySec, CopyUsec
<1>4. /\ held' \in [Threads -> SUBSET (0 .. MaxClock)]
      /\ mixed' \in [Threads -> SUBSET (0 .. MaxClock)]
  <2>1. CASE ReadClock(th)
    <3>1. {clock} \cup (IF Holds(th) THEN held[th] ELSE {}) \in SUBSET (0 .. MaxClock)
      BY <1>1 DEF TimeTypeOK
    <3>2. (IF InCall(Other(th)) THEN mixed[Other(th)] \cup {clock}
             ELSE mixed[Other(th)]) \in SUBSET (0 .. MaxClock)
      BY <1>1 DEF TimeTypeOK
    <3>3. (IF Holds(Other(th)) THEN held[Other(th)] ELSE {}) \in SUBSET (0 .. MaxClock)
      BY <1>1 DEF TimeTypeOK
    <3> QED
      BY <1>1, <2>1, <3>1, <3>2, <3>3 DEF TimeTypeOK, ReadClock
  <2>2. CASE ~ReadClock(th)
    BY <2>2 DEF TimeTypeOK, TimeStep, StoreSec, StoreUsec, CopySec, CopyUsec
  <2> QED
    BY <2>1, <2>2
<1>5. /\ curTime' \in [Threads -> Time]
      /\ unseen' \in [Threads -> SUBSET Words]
  <2>1. CASE StoreSec(th)
    <3>1. [curTime[th] EXCEPT !.sec = Sec(reading[th])] \in Time
      BY <1>1, SecondsTyped, TimeParts
    <3>2. curTime' = [curTime EXCEPT
                        ![th] = [curTime[th] EXCEPT !.sec = Sec(reading[th])]]
      BY <2>1 DEF StoreSec
    <3> QED
      BY <2>1, <3>1, <3>2 DEF TimeTypeOK, StoreSec, Words
  <2>2. CASE StoreUsec(th)
    <3>1. [curTime[th] EXCEPT !.usec = Usec(reading[th])] \in Time
      BY <1>1, SecondsTyped, TimeParts
    <3>2. curTime' = [curTime EXCEPT
                        ![th] = [curTime[th] EXCEPT !.usec = Usec(reading[th])]]
      BY <2>2 DEF StoreUsec
    <3> QED
      BY <2>2, <3>1, <3>2 DEF TimeTypeOK, StoreUsec, Words
  <2>3. CASE ReadClock(th) \/ CopySec(th) \/ CopyUsec(th)
    BY <2>3 DEF TimeTypeOK, ReadClock, CopySec, CopyUsec
  <2> QED
    BY <2>1, <2>2, <2>3 DEF TimeStep
<1>6. result' \in [Threads -> Time]
  <2>1. CASE CopySec(th)
    <3>1. [result[th] EXCEPT !.sec = curTime[th].sec] \in Time
      BY <1>1, TimeParts
    <3>2. result' = [result EXCEPT ![th] = [result[th] EXCEPT !.sec = curTime[th].sec]]
      BY <2>1 DEF CopySec
    <3> QED
      BY <3>1, <3>2 DEF TimeTypeOK
  <2>2. CASE CopyUsec(th)
    <3>1. [result[th] EXCEPT !.usec = curTime[th].usec] \in Time
      BY <1>1, TimeParts
    <3>2. result' = [result EXCEPT ![th] = [result[th] EXCEPT !.usec = curTime[th].usec]]
      BY <2>2 DEF CopyUsec
    <3> QED
      BY <3>1, <3>2 DEF TimeTypeOK
  <2>3. CASE ReadClock(th) \/ StoreSec(th) \/ StoreUsec(th)
    BY <2>3 DEF TimeTypeOK, ReadClock, StoreSec, StoreUsec
  <2> QED
    BY <2>1, <2>2, <2>3 DEF TimeStep
<1> QED
  BY <1>1, <1>2, <1>3, <1>4, <1>5, <1>6 DEF TimeTypeOK

(* What PropagateTime does to either thread's view *)
SeesStore(th, w) ==
  /\ w \in unseen[th]
  /\ unseen' = [unseen EXCEPT ![th] = @ \ {w}]
  /\ curTime' = IF w \in unseen[Other(th)] THEN curTime
                ELSE [curTime EXCEPT ![Other(th)][w] = curTime[th][w]]

LEMMA SeesStoreParts ==
  ASSUME TimeTypeOK, NEW th \in Threads, NEW w \in Words, SeesStore(th, w)
  PROVE  /\ curTime' \in [Threads -> Time]
         /\ unseen' \in [Threads -> SUBSET Words]
         /\ unseen'[th] = unseen[th] \ {w}
         /\ unseen'[Other(th)] = unseen[Other(th)]
         /\ curTime'[th] = curTime[th]
         /\ \/ curTime'[Other(th)].sec = curTime[Other(th)].sec
            \/ /\ "sec" \in unseen[th] /\ "sec" \notin unseen[Other(th)]
               /\ curTime'[Other(th)].sec = curTime[th].sec
         /\ \/ curTime'[Other(th)].usec = curTime[Other(th)].usec
            \/ /\ "usec" \in unseen[th] /\ "usec" \notin unseen[Other(th)]
               /\ curTime'[Other(th)].usec = curTime[th].usec
<1> DEFINE o == Other(th)
<1>1. o \in Threads /\ o # th
  BY Others
<1>2. /\ curTime \in [Threads -> Time] /\ unseen \in [Threads -> SUBSET Words]
      /\ curTime[th] \in Time /\ curTime[o] \in Time
  BY <1>1 DEF TimeTypeOK
<1>3. /\ unseen' \in [Threads -> SUBSET Words]
      /\ unseen'[th] = unseen[th] \ {w} /\ unseen'[o] = unseen[o]
  BY <1>1, <1>2 DEF SeesStore
<1>4. CASE w \in unseen[o]
  BY <1>2, <1>3, <1>4 DEF SeesStore
<1>5. CASE w = "sec" /\ w \notin unseen[o]
  <2>1. curTime' = [curTime EXCEPT ![o] = [curTime[o] EXCEPT !.sec = curTime[th].sec]]
    BY <1>5 DEF SeesStore
  <2>2. /\ [curTime[o] EXCEPT !.sec = curTime[th].sec] \in Time
        /\ [curTime[o] EXCEPT !.sec = curTime[th].sec].sec = curTime[th].sec
        /\ [curTime[o] EXCEPT !.sec = curTime[th].sec].usec = curTime[o].usec
    BY <1>2, TimeParts
  <2>3. "sec" \in unseen[th]
    BY <1>5 DEF SeesStore
  <2> HIDE DEF o
  <2>4. /\ curTime' \in [Threads -> Time] /\ curTime'[th] = curTime[th]
        /\ curTime'[o].sec = curTime[th].sec /\ curTime'[o].usec = curTime[o].usec
    BY <1>1, <1>2, <2>1, <2>2
  <2> QED
    BY <1>3, <1>5, <2>3, <2>4 DEF o
<1>6. CASE w = "usec" /\ w \notin unseen[o]
  <2>1. curTime' = [curTime EXCEPT ![o] = [curTime[o] EXCEPT !.usec = curTime[th].usec]]
    BY <1>6 DEF SeesStore
  <2>2. /\ [curTime[o] EXCEPT !.usec = curTime[th].usec] \in Time
        /\ [curTime[o] EXCEPT !.usec = curTime[th].usec].usec = curTime[th].usec
        /\ [curTime[o] EXCEPT !.usec = curTime[th].usec].sec = curTime[o].sec
    BY <1>2, TimeParts
  <2>3. "usec" \in unseen[th]
    BY <1>6 DEF SeesStore
  <2> HIDE DEF o
  <2>4. /\ curTime' \in [Threads -> Time] /\ curTime'[th] = curTime[th]
        /\ curTime'[o].usec = curTime[th].usec /\ curTime'[o].sec = curTime[o].sec
    BY <1>1, <1>2, <2>1, <2>2
  <2> QED
    BY <1>3, <1>6, <2>3, <2>4 DEF o
<1> QED
  BY <1>4, <1>5, <1>6 DEF Words

LEMMA PropagateIsStore ==
  ASSUME TimeTypeOK, PropagateTime
  PROVE  /\ \E th \in Threads, w \in Words : SeesStore(th, w)
         /\ UNCHANGED <<clock, timePc, reading, result, held, mixed, starts>>
<1>1. PICK th \in Threads : \E w \in unseen[th] : SeesStore(th, w)
  BY DEF PropagateTime, SeesStore
<1>2. unseen[th] \subseteq Words
  BY DEF TimeTypeOK
<1> QED
  BY <1>1, <1>2 DEF PropagateTime

LEMMA TimeTypeStep == TimeTypeOK /\ [Next]_vars => TimeTypeOK'
<1> SUFFICES ASSUME TimeTypeOK, [Next]_vars PROVE TimeTypeOK'
  OBVIOUS
<1>1. CASE StartOther
  <2>1. TimeStep("main") /\ clock' = clock
    BY <1>1 DEF StartOther, TimeStep
  <2>2. starts' \in 0 .. MaxStarts
    BY <1>1, ConstantsAssumption DEF StartOther, TimeTypeOK
  <2> QED
    BY <2>1, <2>2, TimeStepTyped DEF Threads
<1>2. CASE FrameTime
  <2>1. TimeStep("callback") /\ UNCHANGED <<clock, starts>>
    BY <1>2 DEF FrameTime, TimeStep
  <2>2. starts' \in 0 .. MaxStarts
    BY <2>1 DEF TimeTypeOK
  <2> QED
    BY <2>1, <2>2, TimeStepTyped DEF Threads
<1>3. CASE Tick
  <2>1. clock' \in 0 .. MaxClock /\ UNCHANGED timeVars
    BY <1>3, ConstantsAssumption DEF Tick, TimeTypeOK
  <2> QED
    BY <2>1 DEF timeVars, TimeTypeOK
<1>4. CASE PropagateTime
  BY <1>4, PropagateIsStore, SeesStoreParts DEF TimeTypeOK
<1>5. CASE ~(StartOther \/ FrameTime \/ PropagateTime \/ Tick)
  <2>1. UNCHANGED <<clock, timeVars>>
    BY <1>5 DEF Next, CheckStopping, StoreFails, LstAppend, Propagate,
                SetStopping, ReadSize, ReadFirst, CopyItem, vars
  <2> QED
    BY <2>1 DEF timeVars, TimeTypeOK
<1> QED
  BY <1>1, <1>2, <1>3, <1>4, <1>5

LEMMA TimeTypeInit == Init => TimeTypeOK
<1> SUFFICES ASSUME Init PROVE TimeTypeOK
  OBVIOUS
<1>1. Zero \in Time
  BY ConstantsAssumption DEF Zero, Time
<1>2. 0 \in 0 .. MaxClock /\ 0 \in 0 .. MaxStarts
  BY ConstantsAssumption
<1> QED
  BY <1>1, <1>2 DEF Init, TimeTypeOK, TimePc

(***************************************************************************)
(* Every variable keeps its type; in particular the list is only followed  *)
(* through items that have been appended.                                  *)
(***************************************************************************)
THEOREM TypeCorrect == Spec => []TypeOK
<1>1. Init => TimeTypeOK
  BY TimeTypeInit
<1>2. TimeTypeOK /\ [Next]_vars => TimeTypeOK'
  BY TimeTypeStep
<1>3. ListInv /\ TimeTypeOK => TypeOK
  BY DEF ListInv, ListTypeOK, TimeTypeOK, TypeOK, TimePc
<1> QED
  BY <1>1, <1>2, <1>3, ListInvariant, PTL DEF Spec
-----------------------------------------------------------------------------
(***************************************************************************)
(* Whatever the order in which the accesses of lst_append become visible,  *)
(* the frames that could be seen when `stopping' had been set are counted  *)
(* and copied whole.                                                       *)
(***************************************************************************)
THEOREM SettledCopied == Spec => []SettledFramesCopied
<1>1. ListInv => SettledFramesCopied
  <2> SUFFICES ASSUME ListInv, mainPc = "copied"
               PROVE  /\ framesCnt >= settled
                      /\ Len(array) >= settled
                      /\ \A i \in 1 .. settled : array[i] = i
    BY DEF SettledFramesCopied
  <2>1. /\ framesCnt >= settled
        /\ Len(array) >= settled
        /\ settled \in Nat /\ Len(array) \in Nat
        /\ \A i \in 1 .. Len(array) :
             array[i] = i \/ (array[i] = GARBAGE /\ i = settled + 1)
    BY DEF ListInv, ListTypeOK, CountInv, CopyInv
  <2> QED
    BY <2>1
<1> QED
  BY <1>1, ListInvariant, PTL

(***************************************************************************)
(* What goes wrong, if anything does, concerns the one frame that was      *)
(* being handled when `stopping' was set.                                  *)
(***************************************************************************)
THEOREM OnlyOneAtRisk == Spec => []OneFrameAtRisk
<1>1. ListInv => OneFrameAtRisk
  BY DEF ListInv, CountInv, CopyInv, OneFrameAtRisk
<1> QED
  BY <1>1, ListInvariant, PTL
-----------------------------------------------------------------------------
(* What a thread sees in cur_time while it is in current_time: parts of
   readings of its own call, or of what the other thread may still be
   showing it.  What a thread has under way is of the readings it holds. *)

Readings(th) == {reading[th]} \cup mixed[th]
OfSec(th, n) == \E r \in Readings(th) : n = Sec(r)
OfUsec(th, n) == \E r \in Readings(th) : n = Usec(r)
HeldSec(th) == \E r \in held[th] : curTime[th].sec = Sec(r)
HeldUsec(th) == \E r \in held[th] : curTime[th].usec = Usec(r)

HeldOf(th) ==
  /\ InCall(th) => reading[th] \in held[th]
  /\ "sec" \in unseen[th] => HeldSec(th)
  /\ "usec" \in unseen[th] => HeldUsec(th)

TimeOf(th) ==
  /\ InCall(th) /\ Holds(Other(th)) => held[Other(th)] \subseteq mixed[th]
  /\ timePc[th] \in {"usec", "copy_sec"} => OfSec(th, curTime[th].sec)
  /\ timePc[th] \in {"copy_sec", "copy_usec"} => OfUsec(th, curTime[th].usec)
  /\ timePc[th] \in {"copy_usec", "out"} => OfSec(th, result[th].sec)
  /\ timePc[th] = "out" => OfUsec(th, result[th].usec)

TimeInv == \A th \in Threads : HeldOf(th) /\ TimeOf(th)

(* ReadClock: the two calls know each other's reading from here on. *)
LEMMA ReadClockKeeps ==
  ASSUME TimeTypeOK, TimeInv, NEW th \in Threads, ReadClock(th)
  PROVE  TimeInv'
<1> DEFINE o == Other(th)
<1>1. o \in Threads /\ o # th /\ Other(o) = th /\ Threads = {th, o}
  BY Others
<1>2. /\ timePc'[th] = "sec" /\ timePc'[o] = timePc[o]
      /\ reading'[th] = clock /\ reading'[o] = reading[o]
      /\ UNCHANGED <<curTime, unseen, result>>
      /\ held'[o] = held[o]
      /\ held'[th] = {clock} \cup (IF Holds(th) THEN held[th] ELSE {})
      /\ mixed'[th] = IF Holds(o) THEN held[o] ELSE {}
      /\ mixed'[o] = IF InCall(o) THEN mixed[o] \cup {clock} ELSE mixed[o]
  BY <1>1 DEF TimeTypeOK, ReadClock
<1> HIDE DEF o
<1>3. /\ InCall(th)' /\ InCall(o)' = InCall(o) /\ Holds(o)' = Holds(o)
      /\ ~InCall(th) /\ (Holds(th) <=> unseen[th] # {})
  BY <1>2 DEF InCall, Holds, ReadClock
<1>4. HeldOf(th) /\ HeldOf(o) /\ TimeOf(o)
  BY <1>1 DEF TimeInv
<1>5. HeldOf(o)'
  BY <1>2, <1>3, <1>4 DEF HeldOf, HeldSec, HeldUsec, Sec, Usec
<1>6. HeldOf(th)'
  <2>1. reading'[th] \in held'[th]
    BY <1>2
  <2>2. CASE unseen[th] = {}
    BY <1>2, <2>1, <2>2 DEF HeldOf
  <2>3. CASE unseen[th] # {}
    <3>1. held[th] \subseteq held'[th]
      BY <1>2, <1>3, <2>3
    <3> QED
      BY <1>2, <1>4, <2>1, <3>1 DEF HeldOf, HeldSec, HeldUsec, Sec, Usec
  <2> QED
    BY <2>2, <2>3
<1>7. TimeOf(o)'
  <2>1. InCall(o) => held'[th] \subseteq mixed'[o]
    BY <1>1, <1>2, <1>4 DEF TimeOf
  <2>2. Readings(o) \subseteq Readings(o)'
    BY <1>2 DEF Readings
  <2> QED
    BY <1>1, <1>2, <1>3, <1>4, <2>1, <2>2 DEF TimeOf, OfSec, OfUsec, Sec, Usec
<1>8. TimeOf(th)'
  BY <1>1, <1>2, <1>3 DEF TimeOf, o
<1> QED
  BY <1>1, <1>5, <1>6, <1>7, <1>8 DEF TimeInv

(* What a thread stores in cur_time is of its reading, which a call of the
   other thread has among its own. *)
LEMMA StoreKeeps ==
  ASSUME TimeTypeOK, TimeInv, NEW th \in Threads, StoreSec(th) \/ StoreUsec(th)
  PROVE  TimeInv'
<1> DEFINE o == Other(th)
<1>1. o \in Threads /\ o # th /\ Other(o) = th /\ Threads = {th, o}
  BY Others
<1>2. /\ timePc'[o] = timePc[o] /\ InCall(th) /\ InCall(th)'
      /\ curTime'[o] = curTime[o] /\ unseen'[o] = unseen[o]
      /\ UNCHANGED <<reading, result, held, mixed>>
  BY <1>1 DEF TimeTypeOK, StoreSec, StoreUsec, InCall
<1>3. \/ /\ timePc[th] = "sec" /\ timePc'[th] = "usec"
         /\ unseen'[th] = unseen[th] \cup {"sec"}
         /\ curTime'[th].sec = Sec(reading[th])
         /\ curTime'[th].usec = curTime[th].usec
      \/ /\ timePc[th] = "usec" /\ timePc'[th] = "copy_sec"
         /\ unseen'[th] = unseen[th] \cup {"usec"}
         /\ curTime'[th].usec = Usec(reading[th])
         /\ curTime'[th].sec = curTime[th].sec
  <2>1. /\ curTime \in [Threads -> Time] /\ timePc \in [Threads -> TimePc]
        /\ unseen \in [Threads -> SUBSET Words] /\ reading[th] \in Nat
        /\ curTime[th] \in Time
    BY ConstantsAssumption DEF TimeTypeOK
  <2>2. CASE StoreSec(th)
    <3>1. /\ timePc[th] = "sec" /\ timePc'[th] = "usec"
          /\ unseen'[th] = unseen[th] \cup {"sec"}
          /\ curTime'[th] = [curTime[th] EXCEPT !.sec = Sec(reading[th])]
      BY <2>1, <2>2 DEF StoreSec
    <3>2. /\ curTime'[th].sec = Sec(reading[th])
          /\ curTime'[th].usec = curTime[th].usec
      BY <2>1, <3>1, TimeParts, SecondsTyped
    <3> QED
      BY <3>1, <3>2
  <2>3. CASE StoreUsec(th)
    <3>1. /\ timePc[th] = "usec" /\ timePc'[th] = "copy_sec"
          /\ unseen'[th] = unseen[th] \cup {"usec"}
          /\ curTime'[th] = [curTime[th] EXCEPT !.usec = Usec(reading[th])]
      BY <2>1, <2>3 DEF StoreUsec
    <3>2. /\ curTime'[th].usec = Usec(reading[th])
          /\ curTime'[th].sec = curTime[th].sec
      BY <2>1, <3>1, TimeParts, SecondsTyped
    <3> QED
      BY <3>1, <3>2
  <2> QED
    BY <2>2, <2>3
<1> HIDE DEF o
<1>4. HeldOf(o) /\ HeldOf(th) /\ TimeOf(o) /\ TimeOf(th)
  BY <1>1 DEF TimeInv
<1>5. /\ InCall(o)' = InCall(o) /\ Holds(o)' = Holds(o)
      /\ Holds(th) /\ Holds(th)'
      /\ Readings(o)' = Readings(o) /\ Readings(th)' = Readings(th)
  BY <1>2 DEF InCall, Holds, Readings
<1>6. reading[th] \in Readings(th) /\ reading[th] \in held[th]
  BY <1>2, <1>4 DEF Readings, HeldOf
<1>7. HeldOf(o)'
  BY <1>2, <1>4, <1>5 DEF HeldOf, HeldSec, HeldUsec, Sec, Usec
<1>8. HeldOf(th)'
  BY <1>2, <1>3, <1>4, <1>6 DEF HeldOf, HeldSec, HeldUsec, Sec, Usec
<1>9. TimeOf(o)'
  BY <1>1, <1>2, <1>4, <1>5 DEF TimeOf, OfSec, OfUsec, Sec, Usec
<1>10. TimeOf(th)'
  BY <1>1, <1>2, <1>3, <1>4, <1>5, <1>6 DEF TimeOf, OfSec, OfUsec, Sec, Usec, o
<1> QED
  BY <1>1, <1>7, <1>8, <1>9, <1>10 DEF TimeInv

LEMMA CopyKeeps ==
  ASSUME TimeTypeOK, TimeInv, NEW th \in Threads, CopySec(th) \/ CopyUsec(th)
  PROVE  TimeInv'
<1> DEFINE o == Other(th)
<1>1. o \in Threads /\ o # th /\ Other(o) = th /\ Threads = {th, o}
  BY Others
<1>2. /\ timePc'[o] = timePc[o] /\ result'[o] = result[o] /\ InCall(th)
      /\ UNCHANGED <<curTime, unseen, reading, held, mixed>>
  BY <1>1 DEF TimeTypeOK, CopySec, CopyUsec, InCall
<1>3. \/ /\ timePc[th] = "copy_sec" /\ timePc'[th] = "copy_usec"
         /\ result'[th].sec = curTime[th].sec
      \/ /\ timePc[th] = "copy_usec" /\ timePc'[th] = "out"
         /\ result'[th].usec = curTime[th].usec
         /\ result'[th].sec = result[th].sec
  <2>1. /\ result \in [Threads -> Time] /\ timePc \in [Threads -> TimePc]
        /\ curTime[th].sec \in Nat /\ curTime[th].usec \in 0 .. SecondSize - 1
        /\ result[th] \in Time
    BY TimeParts DEF TimeTypeOK
  <2>2. CASE CopySec(th)
    <3>1. /\ timePc[th] = "copy_sec" /\ timePc'[th] = "copy_usec"
          /\ result'[th] = [result[th] EXCEPT !.sec = curTime[th].sec]
      BY <2>1, <2>2 DEF CopySec
    <3>2. result'[th].sec = curTime[th].sec
      BY <2>1, <3>1, TimeParts
    <3> QED
      BY <3>1, <3>2
  <2>3. CASE CopyUsec(th)
    <3>1. /\ timePc[th] = "copy_usec" /\ timePc'[th] = "out"
          /\ result'[th] = [result[th] EXCEPT !.usec = curTime[th].usec]
      BY <2>1, <2>3 DEF CopyUsec
    <3>2. /\ result'[th].usec = curTime[th].usec /\ result'[th].sec = result[th].sec
      BY <2>1, <3>1, TimeParts
    <3> QED
      BY <3>1, <3>2
  <2> QED
    BY <2>2, <2>3
<1> HIDE DEF o
<1>4. HeldOf(o) /\ HeldOf(th) /\ TimeOf(o) /\ TimeOf(th)
  BY <1>1 DEF TimeInv
<1>5. /\ InCall(o)' = InCall(o) /\ Holds(o)' = Holds(o) /\ Holds(th)
      /\ Readings(o)' = Readings(o) /\ Readings(th)' = Readings(th)
  BY <1>2 DEF InCall, Holds, Readings
<1>6. HeldOf(o)' /\ HeldOf(th)'
  BY <1>2, <1>4, <1>5 DEF HeldOf, HeldSec, HeldUsec, Sec, Usec
<1>7. TimeOf(o)'
  <2>1. InCall(o) => held[th] \subseteq mixed[o]
    BY <1>1, <1>4, <1>5 DEF TimeOf
  <2> QED
    BY <1>1, <1>2, <1>4, <1>5, <2>1 DEF TimeOf, OfSec, OfUsec, Sec, Usec
<1>8. TimeOf(th)'
  BY <1>1, <1>2, <1>3, <1>4, <1>5 DEF TimeOf, OfSec, OfUsec, Sec, Usec, o
<1> QED
  BY <1>1, <1>6, <1>7, <1>8 DEF TimeInv

(* What one thread comes to see of the other is of a reading that is held
   for it. *)
LEMMA PropagateKeeps ==
  ASSUME TimeTypeOK, TimeInv, NEW th \in Threads, NEW w \in Words, SeesStore(th, w),
         UNCHANGED <<timePc, reading, result, held, mixed>>
  PROVE  TimeInv'
<1> DEFINE o == Other(th)
<1>1. o \in Threads /\ o # th /\ Other(o) = th /\ Threads = {th, o}
  BY Others
<1>2. /\ unseen'[th] = unseen[th] \ {w}
      /\ unseen'[o] = unseen[o]
      /\ curTime'[th] = curTime[th]
      /\ \/ curTime'[o].sec = curTime[o].sec
         \/ /\ "sec" \in unseen[th] /\ "sec" \notin unseen[o]
            /\ curTime'[o].sec = curTime[th].sec
      /\ \/ curTime'[o].usec = curTime[o].usec
         \/ /\ "usec" \in unseen[th] /\ "usec" \notin unseen[o]
            /\ curTime'[o].usec = curTime[th].usec
  BY SeesStoreParts
<1> HIDE DEF o
<1>3. HeldOf(o) /\ HeldOf(th) /\ TimeOf(o) /\ TimeOf(th)
  BY <1>1 DEF TimeInv
<1>4. /\ InCall(o)' = InCall(o) /\ Holds(o)' = Holds(o)
      /\ InCall(th)' = InCall(th)
      /\ Holds(th)' => Holds(th)
      /\ unseen[th] # {} => Holds(th)
      /\ Readings(o)' = Readings(o) /\ Readings(th)' = Readings(th)
  BY <1>2 DEF InCall, Holds, Readings
<1>5. HeldOf(th)'
  BY <1>2, <1>3, <1>4 DEF HeldOf, HeldSec, HeldUsec, Sec, Usec
<1>6. HeldOf(o)'
  <2>1. "sec" \in unseen[o] => curTime'[o].sec = curTime[o].sec
    BY <1>2
  <2>2. "usec" \in unseen[o] => curTime'[o].usec = curTime[o].usec
    BY <1>2
  <2> QED
    BY <1>2, <1>3, <1>4, <2>1, <2>2 DEF HeldOf, HeldSec, HeldUsec, Sec, Usec
<1>7. TimeOf(th)'
  BY <1>1, <1>2, <1>3, <1>4 DEF TimeOf, OfSec, OfUsec, Sec, Usec, o
<1>8. TimeOf(o)'
  <2>1. InCall(o) /\ Holds(th) => held[th] \subseteq Readings(o)
    BY <1>1, <1>3 DEF TimeOf, Readings
  <2>2. InCall(o) /\ OfSec(o, curTime[o].sec) => OfSec(o, curTime'[o].sec)
    BY <1>2, <1>3, <1>4, <2>1 DEF HeldOf, HeldSec, OfSec
  <2>3. InCall(o) /\ OfUsec(o, curTime[o].usec) => OfUsec(o, curTime'[o].usec)
    BY <1>2, <1>3, <1>4, <2>1 DEF HeldOf, HeldUsec, OfUsec
  <2>4. timePc[o] \in {"usec", "copy_sec", "copy_usec"} => InCall(o)
    BY DEF InCall
  <2>5. \A n : (OfSec(o, n) => OfSec(o, n)') /\ (OfUsec(o, n) => OfUsec(o, n)')
    BY <1>4 DEF OfSec, OfUsec, Sec, Usec
  <2> QED
    BY <1>1, <1>3, <1>4, <2>2, <2>3, <2>4, <2>5 DEF TimeOf, OfSec, OfUsec, Sec, Usec
<1> QED
  BY <1>1, <1>5, <1>6, <1>7, <1>8 DEF TimeInv

LEMMA TimeInvStep == TimeTypeOK /\ TimeInv /\ [Next]_vars => TimeInv'
<1> SUFFICES ASSUME TimeTypeOK, TimeInv, [Next]_vars PROVE TimeInv'
  OBVIOUS
<1>1. CASE StartOther \/ FrameTime
  <2>1. PICK th \in Threads : TimeStep(th)
    BY <1>1 DEF StartOther, FrameTime, TimeStep, Threads
  <2> QED
    BY <2>1, ReadClockKeeps, StoreKeeps, CopyKeeps DEF TimeStep
<1>2. CASE PropagateTime
  BY <1>2, PropagateIsStore, PropagateKeeps
<1>3. CASE ~(StartOther \/ FrameTime \/ PropagateTime)
  <2>1. UNCHANGED timeVars
    BY <1>3 DEF Next, CheckStopping, StoreFails, LstAppend, Propagate,
                SetStopping, ReadSize, ReadFirst, CopyItem, Tick, vars
  <2> QED
    BY <2>1 DEF timeVars, TimeInv, HeldOf, HeldSec, HeldUsec, TimeOf, OfSec,
                OfUsec, Readings, InCall, Holds, Sec, Usec
<1> QED
  BY <1>1, <1>2, <1>3

LEMMA TimeInvInit == Init => TimeInv
<1> SUFFICES ASSUME Init, NEW th \in Threads PROVE HeldOf(th) /\ TimeOf(th)
  BY DEF TimeInv
<1>1. Sec(0) = 0 /\ Usec(0) = 0
  BY ConstantsAssumption DEF Sec, Usec
<1>2. /\ timePc[th] = "out" /\ result[th] = Zero /\ 0 \in Readings(th)
      /\ unseen[th] = {}
  BY DEF Init, Readings
<1>3. result[th].sec = 0 /\ result[th].usec = 0
  BY <1>2 DEF Zero
<1>4. HeldOf(th)
  BY <1>2 DEF HeldOf, InCall
<1>5. TimeOf(th)
  BY <1>1, <1>2, <1>3 DEF TimeOf, OfSec, OfUsec, InCall
<1> QED
  BY <1>4, <1>5

LEMMA TimeOfParts ==
  ASSUME NEW t \in Nat
  PROVE  Sec(t) * SecondSize + Usec(t) = t
BY ConstantsAssumption DEF Sec, Usec

(***************************************************************************)
(* However the two threads meet in the static buffer of current_time, a    *)
(* time is one that was read, by the call itself or by one of the other    *)
(* thread that overlaps it or whose stores are late, unless a second began *)
(* between these readings.                                                 *)
(***************************************************************************)
THEOREM TimesWereRead == Spec => []TimeWasRead
<1>1. TimeTypeOK /\ TimeInv => TimeWasRead
  <2> SUFFICES ASSUME TimeTypeOK, TimeInv, NEW th \in Threads, ~InCall(th),
                      \A r, s \in Readings(th) : Sec(r) = Sec(s)
               PROVE  result[th].sec * SecondSize + result[th].usec
                        \in Readings(th)
    BY DEF TimeWasRead, Readings
  <2>1. timePc[th] = "out" /\ TimeOf(th)
    BY DEF InCall, TimeInv
  <2>2. PICK r \in Readings(th) : result[th].sec = Sec(r)
    BY <2>1 DEF TimeOf, OfSec
  <2>3. PICK s \in Readings(th) : result[th].usec = Usec(s)
    BY <2>1 DEF TimeOf, OfUsec
  <2>4. s \in Nat
    <3>1. reading[th] \in 0 .. MaxClock /\ mixed[th] \subseteq 0 .. MaxClock
      BY DEF TimeTypeOK
    <3> QED
      BY <3>1, ConstantsAssumption DEF Readings
  <2>5. Sec(r) = Sec(s)
    OBVIOUS
  <2>6. result[th].sec * SecondSize + result[th].usec = s
    BY <2>2, <2>3, <2>4, <2>5, TimeOfParts
  <2> QED
    BY <2>6
<1>2. TimeTypeOK /\ TimeInv /\ [Next]_vars => (TimeTypeOK /\ TimeInv)'
  BY TimeTypeStep, TimeInvStep
<1>3. Init => TimeTypeOK /\ TimeInv
  BY TimeTypeInit, TimeInvInit
<1> QED
  BY <1>1, <1>2, <1>3, PTL DEF Spec
-----------------------------------------------------------------------------
(* Each access of the main thread is a step of the queue, or none. *)

QueuePc == IF mainPc = "first" THEN "copy" ELSE mainPc
QueueCopied == IF mainPc = "copied" THEN Len(array) ELSE 0
QueueVars == <<Settled, Appending, QueuePc, framesCnt, QueueCopied>>

LEMMA CallbackRefines ==
  ASSUME ListInv, \/ CheckStopping \/ StoreFails \/ FrameTime \/ LstAppend
                  \/ Propagate
  PROVE  Queue!Next \/ UNCHANGED QueueVars
<1>1. UNCHANGED <<stopping, mainPc, framesCnt, array>>
  BY DEF CheckStopping, StoreFails, FrameTime, LstAppend, Propagate, copyVars
<1>2. UNCHANGED <<QueuePc, QueueCopied>>
  BY <1>1 DEF QueuePc, QueueCopied
<1>3. CASE CheckStopping
  <2>1. mainPc = "running" /\ hidden = {} /\ cbPc = "idle" /\ cbPc' = "store"
          /\ UNCHANGED <<appended, hidden>>
    BY <1>3 DEF CheckStopping, Admitted, ListInv, StopInv
  <2>2. Queue!BeginAppend
    BY <1>1, <2>1 DEF Queue!BeginAppend, Settled
  <2> QED
    BY <2>2 DEF Queue!Next
<1>4. CASE StoreFails
  <2>1. cbPc = "store" /\ cbPc' = "idle" /\ UNCHANGED <<appended, hidden>>
    BY <1>4 DEF StoreFails
  <2>2. hidden = {} /\ Settled' = Settled /\ Settled \in Nat
    BY <2>1 DEF ListInv, ListTypeOK, AppendInv, Settled
  <2>3. Settled' \in Queue!WithNext
    BY <2>1, <2>2 DEF Queue!WithNext, Queue!InProgress
  <2>4. Queue!EndAppend
    BY <1>1, <2>1, <2>2, <2>3 DEF Queue!EndAppend
  <2> QED
    BY <2>4 DEF Queue!Next
<1>5. CASE FrameTime
  <2>1. cbPc # "idle" /\ cbPc' # "idle" /\ UNCHANGED <<appended, hidden>>
    BY <1>5 DEF FrameTime
  <2> QED
    BY <1>1, <1>2, <2>1 DEF QueueVars, Settled, Appending
<1>6. CASE LstAppend
  <2>1. cbPc = "append" /\ appended' = appended + 1 /\ hidden' = Writes
    BY <1>6 DEF LstAppend
  <2>2. hidden = {} /\ hidden' # {} /\ appended \in Nat
    BY <2>1 DEF ListInv, ListTypeOK, AppendInv, Writes
  <2> QED
    BY <1>1, <1>2, <2>1, <2>2 DEF QueueVars, Settled, Appending
<1>7. CASE Propagate
  <2>1. hidden # {} /\ UNCHANGED <<appended, cbPc>>
    BY <1>7 DEF Propagate
  <2>2. cbPc = "idle" /\ appended > 0 /\ appended \in Nat
    BY <2>1 DEF ListInv, ListTypeOK, AppendInv
  <2>3. CASE hidden' = {}
    <3>1. Settled = appended - 1 /\ Settled' = appended
      BY <2>1, <2>3 DEF Settled
    <3>2. Settled' \in Queue!WithNext
      BY <2>1, <2>2, <3>1 DEF Queue!WithNext, Queue!InProgress
    <3>3. Queue!EndAppend
      BY <1>1, <2>1, <2>2, <2>3, <3>2 DEF Queue!EndAppend
    <3> QED
      BY <3>3 DEF Queue!Next
  <2>4. CASE hidden' # {}
    BY <1>1, <1>2, <2>1, <2>4 DEF QueueVars, Settled, Appending
  <2> QED
    BY <2>3, <2>4
<1> QED
  BY <1>3, <1>4, <1>5, <1>6, <1>7

LEMMA StopRefines ==
  ASSUME ListInv, SetStopping \/ ReadSize \/ ReadFirst
  PROVE  Queue!Next \/ UNCHANGED QueueVars
<1>1. /\ UNCHANGED <<appended, hidden, cbPc, array>>
      /\ Settled' = Settled
  BY DEF SetStopping, ReadSize, ReadFirst, listVars, Settled
<1>2. /\ array = <<>> /\ Len(array) = 0
      /\ appended \in Nat /\ Settled \in Nat
  BY DEF SetStopping, ReadSize, ReadFirst, ListInv, ListTypeOK, CopyInv,
         AppendInv, Settled
<1>3. CASE SetStopping
  <2>1. mainPc = "running" /\ mainPc' = "size" /\ framesCnt' = framesCnt
    BY <1>3 DEF SetStopping
  <2>2. Queue!Stop
    BY <1>1, <2>1 DEF Queue!Stop
  <2> QED
    BY <2>2 DEF Queue!Next
<1>4. CASE ReadSize
  <2>1. /\ mainPc = "size" /\ framesCnt' = Size
        /\ mainPc' = IF framesCnt' = 0 THEN "copied" ELSE "first"
    BY <1>4 DEF ReadSize
  <2>2. Size = Settled \/ (Size = Settled + 1 /\ hidden # {})
    BY <2>1, SizeIs
  <2>3. Size \in Queue!WithNext
    BY <1>2, <2>2 DEF Queue!WithNext, Queue!InProgress
  <2>4. Queue!ReadSize
    BY <1>1, <1>2, <2>1, <2>3 DEF Queue!ReadSize
  <2> QED
    BY <2>4 DEF Queue!Next
<1>5. CASE ReadFirst
  <2>1. mainPc = "first" /\ GoToItem(First) /\ framesCnt' = framesCnt
    BY <1>5 DEF ReadFirst
  <2>2. \/ First = 1 /\ appended >= 1
        \/ First = NULL /\ settled = 0
    BY <2>1, FirstIs
  <2>3. CASE First = 1
    <3>1. mainPc' = "copy"
      BY <2>1, <2>3 DEF GoToItem, NULL, GARBAGE
    <3> QED
      BY <1>1, <2>1, <3>1 DEF QueueVars, QueuePc, QueueCopied, Appending
  <2>4. CASE First = NULL
    <3>1. mainPc' = "copied"
      BY <2>1, <2>4 DEF GoToItem, NULL, GARBAGE, Items
    <3>2. Settled = 0
      BY <1>2, <2>4 DEF First, NULL, Sees, Settled
    <3>3. 0 \in Queue!WithNext /\ 0 <= framesCnt
      BY <3>2 DEF Queue!WithNext, Queue!InProgress, ListInv, ListTypeOK
    <3>4. Queue!Copy
      BY <1>1, <1>2, <2>1, <3>1, <3>3 DEF Queue!Copy
    <3> QED
      BY <3>4 DEF Queue!Next
  <2> QED
    BY <2>2, <2>3, <2>4
<1> QED
  BY <1>3, <1>4, <1>5

LEMMA CopyItemRefines ==
  ASSUME ListInv, CopyItem
  PROVE  Queue!Next \/ UNCHANGED QueueVars
<1>1. /\ mainPc = "copy"
      /\ UNCHANGED <<appended, hidden, cbPc, framesCnt>>
      /\ Settled' = Settled
  BY DEF CopyItem, listVars, Settled
<1>2. /\ appended \in Nat /\ framesCnt \in Nat /\ Settled \in Nat
      /\ array \in Seq(Items \cup {GARBAGE})
      /\ Len(array) \in Nat
      /\ item = Len(array) + 1
      /\ item \in 1 .. appended
      /\ Settled = IF hidden = {} THEN appended ELSE appended - 1
  BY <1>1, Reading DEF ListInv, ListTypeOK, CopyInv, Items, NULL, Settled
<1>3. CASE Len(array) = framesCnt /\ mainPc' = "fault"
  <2>1. hidden # {} \/ Settled > framesCnt
    BY <1>2, <1>3
  <2>2. Queue!Fault
    BY <1>1, <1>3, <2>1 DEF Queue!Fault
  <2> QED
    BY <2>2 DEF Queue!Next
<1>4. CASE Len(array) < framesCnt /\ array' = Append(array, Data(item))
            /\ GoToItem(NextItem(item))
  <2>1. item \in Items
    BY <1>2, ConstantsAssumption DEF Items, ListInv, ListTypeOK
  <2>2. \/ NextItem(item) = item + 1 /\ item < appended
        \/ /\ NextItem(item) = NULL
           /\ item = Settled \/ (item = Settled + 1 /\ hidden # {})
        \/ NextItem(item) = GARBAGE /\ hidden # {}
    BY <1>1, <1>2, NextIs
  <2>3. CASE NextItem(item) = item + 1 /\ item < appended
    <3>1. mainPc' = "copy"
      BY <1>2, <1>4, <2>3 DEF GoToItem, NULL, GARBAGE
    <3> QED
      BY <1>1, <3>1 DEF QueueVars, QueuePc, QueueCopied, Appending
  <2>4. CASE /\ NextItem(item) = NULL
             /\ item = Settled \/ (item = Settled + 1 /\ hidden # {})
    <3>1. mainPc' = "copied"
      BY <1>4, <2>4 DEF GoToItem, NULL, GARBAGE, Items
    <3>2. Len(array') = item
      <4>1. Data(item) \in Items \cup {GARBAGE}
        BY <2>1 DEF Data
      <4> QED
        BY <1>2, <1>4, <4>1, AppendProperties
    <3>3. item \in Queue!WithNext /\ item <= framesCnt
      BY <1>2, <1>4, <2>4 DEF Queue!WithNext, Queue!InProgress
    <3>4. Queue!Copy
      BY <1>1, <3>1, <3>2, <3>3 DEF Queue!Copy
    <3> QED
      BY <3>4 DEF Queue!Next
  <2>5. CASE NextItem(item) = GARBAGE /\ hidden # {}
    <3>1. mainPc' = "fault"
      BY <1>4, <2>5 DEF GoToItem, NULL, GARBAGE, Items
    <3>2. Queue!Fault
      BY <1>1, <2>5, <3>1 DEF Queue!Fault
    <3> QED
      BY <3>2 DEF Queue!Next
  <2> QED
    BY <2>2, <2>3, <2>4, <2>5
<1> QED
  BY <1>3, <1>4 DEF CopyItem

LEMMA QueueStep ==
  ListInv /\ [Next]_vars => [Queue!Next]_(Queue!vars)
<1> SUFFICES ASSUME ListInv, [Next]_vars
             PROVE  Queue!Next \/ UNCHANGED Queue!vars
  OBVIOUS
<1>1. UNCHANGED QueueVars => UNCHANGED Queue!vars
  BY DEF QueueVars, QueuePc, QueueCopied, Appending, Queue!vars
<1>2. CASE CheckStopping \/ StoreFails \/ FrameTime \/ LstAppend \/ Propagate
  BY <1>1, <1>2, CallbackRefines
<1>3. CASE SetStopping \/ ReadSize \/ ReadFirst
  BY <1>1, <1>3, StopRefines
<1>4. CASE CopyItem
  BY <1>1, <1>4, CopyItemRefines
<1>5. CASE StartOther \/ PropagateTime \/ Tick \/ UNCHANGED vars
  <2>1. UNCHANGED <<listVars, copyVars>>
    BY <1>5 DEF StartOther, PropagateTime, Tick, vars
  <2>2. UNCHANGED QueueVars
    BY <2>1 DEF listVars, copyVars, QueueVars, QueuePc, QueueCopied,
                Appending, Settled
  <2> QED
    BY <1>1, <2>2
<1> QED
  BY <1>2, <1>3, <1>4, <1>5 DEF Next

LEMMA QueueInit == Init => Queue!Init
BY DEF Init, Queue!Init, Settled

(***************************************************************************)
(* The unlocked list behaves as module Capture takes it to: one append in  *)
(* one step, which at most the last of the two reads of the main thread    *)
(* meets.                                                                  *)
(***************************************************************************)
THEOREM ListIsQueue == Spec => ImplementsFrameQueue
BY ListInvariant, QueueStep, QueueInit, PTL
   DEF Spec, ImplementsFrameQueue, Queue!Spec
=============================================================================
