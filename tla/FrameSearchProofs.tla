-------------------------- MODULE FrameSearchProofs --------------------------
(***************************************************************************)
(* Proofs about FrameSearch, for every width of a long, every stored index *)
(* and every offset: the types, and that the search is right where its     *)
(* numbers fit.  The invariant SearchInv says what the loop has found out: *)
(* frame i is at least as near as each frame before it.  That the search   *)
(* may stop there follows from the order of the frames: once the next one  *)
(* is farther, it starts behind the offset, and so do all after it.        *)
(***************************************************************************)
EXTENDS FrameSearch, TLAPS

LEMMA ModSmall ==
  ASSUME NEW m \in Nat \ {0}, NEW x \in 0 .. m - 1
  PROVE  x % m = x
  BY SMT

LEMMA ModNegative ==
  ASSUME NEW m \in Nat \ {0}, NEW x \in Int, -m <= x, x < 0
  PROVE  x % m = x + m
  BY SMT

(* Where a difference fits into a long, labs is its absolute value. *)
LEMMA LabsExact ==
  ASSUME NEW x \in Int, 2 * Abs(x) < LongSize
  PROVE  Labs(x) = Abs(x)
  <1> LongSize \in Nat \ {0}
    BY ConstantsAssumption
  <1>1. CASE x >= 0
    <2>1. x % LongSize = x
      BY <1>1, ModSmall DEF Abs
    <2> QED
      BY <1>1, <2>1 DEF Labs, Abs
  <1>2. CASE x < 0
    <2>1. x % LongSize = x + LongSize
      BY <1>2, ModNegative DEF Abs
    <2>2. ~(2 * (x + LongSize) < LongSize) /\ 2 * (x + LongSize) # LongSize
      BY <1>2 DEF Abs
    <2>3. Labs(x) = LongSize - (x + LongSize)
      BY <2>1, <2>2 DEF Labs
    <2> QED
      BY <1>2, <2>3 DEF Abs
  <1> QED
    BY <1>1, <1>2
-----------------------------------------------------------------------------
(* Facts about a state of the right types *)

LEMMA StateTypes ==
  ASSUME TypeOK
  PROVE  /\ Len(index) \in Nat \ {0}
         /\ timeOffset \in Nat
         /\ i \in 0 .. Len(index) - 1
         /\ StreamBase \in Nat
         /\ \A k \in 0 .. Len(index) - 1 : FrameTime(k) \in Nat
  <1>1. index \in Seq(Row) /\ index # <<>>
    BY DEF TypeOK, StoredIndex
  <1>2. Len(index) \in Nat \ {0}
    BY <1>1
  <1>3. ASSUME NEW k \in 0 .. Len(index) - 1
        PROVE  FrameTime(k) \in Nat
    <2>1. index[k + 1] \in Row
      BY <1>1, <1>2
    <2> QED
      BY <2>1 DEF FrameTime, Row
  <1>4. StreamBase \in Nat
    <2>1. index[1] \in Row
      BY <1>1, <1>2
    <2> QED
      BY <2>1 DEF StreamBase, Row
  <1>5. timeOffset \in Nat /\ i \in 0 .. Len(index) - 1
    BY ConstantsAssumption DEF TypeOK
  <1> QED
    BY <1>2, <1>3, <1>4, <1>5

(* Frames start in order, and none starts behind the end of the stream. *)
LEMMA StartsInOrder ==
  ASSUME TypeOK, NEW k \in 0 .. Len(index) - 1, NEW l \in 0 .. Len(index) - 1,
         k <= l
  PROVE  /\ FrameTime(k) \in Nat
         /\ FrameTime(l) \in Nat
         /\ FrameTime(k) <= FrameTime(l)
         /\ index[Len(index)].end \in Nat
         /\ FrameTime(k) <= index[Len(index)].end
  <1>1. Ordered(index) /\ index \in Seq(Row) /\ Len(index) \in Nat \ {0}
    BY DEF TypeOK, StoredIndex
  <1> DEFINE n == Len(index)
  <1>2. \A m \in 1 .. n : /\ index[m].start \in Nat
                         /\ index[m].end \in Nat
                         /\ index[m].start <= index[m].end
    <2> SUFFICES ASSUME NEW m \in 1 .. n
                 PROVE  /\ index[m].start \in Nat
                        /\ index[m].end \in Nat
                        /\ index[m].start <= index[m].end
      OBVIOUS
    <2>1. index[m] \in Row
      BY <1>1
    <2>2. index[m].start <= index[m].end
      BY <1>1 DEF Ordered
    <2> QED
      BY <2>1, <2>2 DEF Row
  <1>3. ASSUME NEW a \in 1 .. n, NEW b \in 1 .. n, a < b
        PROVE  index[a].start <= index[b].start
    <2>1. b \in a + 1 .. n
      BY <1>1, <1>3
    <2>2. index[a].end <= index[b].start
      BY <1>1, <2>1 DEF Ordered
    <2> QED
      BY <1>2, <2>2
  <1>4. ASSUME NEW a \in 1 .. n, NEW b \in 1 .. n, a <= b
        PROVE  index[a].start <= index[b].start
    <2>1. CASE a = b
      BY <1>2, <2>1
    <2>2. CASE a < b
      BY <1>3, <2>2
    <2> QED
      BY <1>4, <2>1, <2>2
  <1>5. k + 1 \in 1 .. n /\ l + 1 \in 1 .. n /\ k + 1 <= l + 1 /\ n \in 1 .. n
    BY <1>1
  <1>6. index[k + 1].start <= index[l + 1].start
    BY <1>4, <1>5
  <1>7. index[k + 1].start <= index[n].start
    BY <1>4, <1>5
  <1> QED
    BY <1>2, <1>5, <1>6, <1>7 DEF FrameTime

(* The test of the loop compares distances. *)
LEMMA TestIsDistance ==
  ASSUME TypeOK, Fits, NEW k \in 0 .. Len(index) - 2
  PROVE  NextIsFarther(k) <=> Distance(k + 1) > Distance(k)
  <1>1. k \in 0 .. Len(index) - 1 /\ k + 1 \in 0 .. Len(index) - 1
    BY StateTypes
  <1> DEFINE x(n) == FrameOffset(n) - timeOffset
  <1>2. ASSUME NEW n \in 0 .. Len(index) - 1
        PROVE  x(n) \in Int /\ Abs(x(n)) = Distance(n)
    BY StateTypes DEF FrameOffset, FrameTime, Distance
  <1>3. ASSUME NEW n \in 0 .. Len(index) - 1
        PROVE  Labs(x(n)) = Distance(n)
    <2>1. 2 * Abs(x(n)) < LongSize
      BY <1>2 DEF Fits
    <2> HIDE DEF x
    <2> QED
      BY <1>2, <2>1, LabsExact
  <1> QED
    BY <1>1, <1>3 DEF NextIsFarther

(* When the next frame is farther, so is every later one. *)
LEMMA LaterIsFarther ==
  ASSUME TypeOK, NEW k \in 0 .. Len(index) - 2, Distance(k + 1) > Distance(k),
         NEW l \in k + 1 .. Len(index) - 1
  PROVE  Distance(k) <= Distance(l)
  <1>1. /\ k \in 0 .. Len(index) - 1
        /\ k + 1 \in 0 .. Len(index) - 1
        /\ l \in 0 .. Len(index) - 1
    BY StateTypes
  <1>2. k <= k + 1 /\ k + 1 <= l
    BY <1>1
  <1>3. /\ FrameTime(k) \in Nat /\ FrameTime(k + 1) \in Nat
        /\ FrameTime(k) <= FrameTime(k + 1)
    BY <1>1, <1>2, StartsInOrder
  <1>4. FrameTime(l) \in Nat /\ FrameTime(k + 1) <= FrameTime(l)
    BY <1>1, <1>2, StartsInOrder
  <1>5. timeOffset \in Nat /\ StreamBase \in Nat
    BY StateTypes
  <1> HIDE DEF FrameTime
  <1> DEFINE p == FrameTime(k)
             q == FrameTime(k + 1)
             r == FrameTime(l)
             t == StreamBase + timeOffset
  <1>6. /\ Distance(k) = Abs(p - t)
        /\ Distance(k + 1) = Abs(q - t)
        /\ Distance(l) = Abs(r - t)
    BY <1>3, <1>4, <1>5, SMTT(30) DEF Distance, Abs
  <1>7. p \in Nat /\ q \in Nat /\ r \in Nat /\ t \in Nat /\ p <= q /\ q <= r
    BY <1>3, <1>4, <1>5
  <1> HIDE DEF p, q, r, t
  <1> QED
    BY <1>6, <1>7 DEF Abs
-----------------------------------------------------------------------------
THEOREM TypeCorrect == Spec => []TypeOK
  <1>1. Init => TypeOK
    <2> SUFFICES ASSUME Init PROVE TypeOK
      OBVIOUS
    <2>1. index \in StoredIndex /\ timeOffset \in 0 .. QuadSize - 1
      BY ConstantsAssumption DEF Init
    <2>2. Len(index) \in Nat \ {0}
      BY <2>1 DEF StoredIndex
    <2> QED
      BY <2>1, <2>2 DEF Init, TypeOK, NotFound
  <1>2. TypeOK /\ [Next]_vars => TypeOK'
    <2> SUFFICES ASSUME TypeOK, [Next]_vars PROVE TypeOK'
      OBVIOUS
    <2>1. Len(index) \in Nat \ {0} /\ i \in 0 .. Len(index) - 1
      BY StateTypes
    <2>2. CASE CompareWithNext
      BY <2>1, <2>2 DEF CompareWithNext, Return, TypeOK
    <2>3. CASE AfterLoop
      BY <2>1, <2>3 DEF AfterLoop, Return, TypeOK, LastFrame, NotFound
    <2>4. CASE Returned \/ UNCHANGED vars
      BY <2>4 DEF Returned, vars, TypeOK
    <2> QED
      BY <2>2, <2>3, <2>4 DEF Next
  <1> QED
    BY <1>1, <1>2, PTL DEF Spec
-----------------------------------------------------------------------------
LoopInv ==
  pc = "loop" /\ Fits => \A k \in 0 .. i : Distance(i) <= Distance(k)

SearchInv == LoopInv /\ SearchRight

(* stream_find_frame returns the nearest frame, or none exactly behind the
   end, for every stored index and every offset whose differences fit into
   a long. *)
THEOREM SearchCorrect == Spec => []SearchRight
  <1>1. TypeOK /\ Init => SearchInv
    <2> SUFFICES ASSUME TypeOK, Init PROVE SearchInv
      OBVIOUS
    <2>1. Distance(0) \in Int
      <3>1. 0 \in 0 .. Len(index) - 1
        BY StateTypes
      <3>2. FrameTime(0) \in Nat
        BY <3>1, StartsInOrder
      <3> QED
        BY <3>2, StateTypes DEF Distance, Abs
    <2> QED
      BY <2>1 DEF Init, SearchInv, LoopInv, SearchRight
  <1>2. TypeOK /\ TypeOK' /\ SearchInv /\ [Next]_vars => SearchInv'
    <2> SUFFICES ASSUME TypeOK, TypeOK', SearchInv, [Next]_vars
                 PROVE  SearchInv'
      OBVIOUS
    <2>1. /\ Len(index) \in Nat \ {0}
          /\ i \in 0 .. Len(index) - 1
          /\ \A k \in 0 .. Len(index) - 1 : Distance(k) \in Int
      BY StateTypes DEF Distance, FrameTime, Abs
    <2>2. CASE CompareWithNext
      <3>1. /\ index' = index /\ timeOffset' = timeOffset
            /\ Fits' = Fits
            /\ i \in 0 .. Len(index) - 2
        BY <2>1, <2>2, SMTT(30) DEF CompareWithNext, Return, Fits, Distance, FrameTime,
                          StreamBase
      <3>2. CASE Return(i) /\ NextIsFarther(i)
        <4>1. LoopInv'
          BY <3>2 DEF Return, LoopInv
        <4>2. ASSUME Fits
              PROVE  \A k \in 0 .. Len(index) - 1 : Distance(i) <= Distance(k)
          <5>1. Distance(i + 1) > Distance(i)
            BY <3>1, <3>2, <4>2, TestIsDistance
          <5>2. \A k \in 0 .. i : Distance(i) <= Distance(k)
            BY <2>2, <4>2 DEF CompareWithNext, SearchInv, LoopInv
          <5>3. \A k \in i + 1 .. Len(index) - 1 : Distance(i) <= Distance(k)
            BY <3>1, <5>1, LaterIsFarther
          <5> QED
            BY <2>1, <5>2, <5>3
        <4>3. ASSUME Fits
              PROVE  StreamBase + timeOffset < index[Len(index)].end
          <5>1. Distance(i + 1) > Distance(i)
            BY <3>1, <3>2, <4>3, TestIsDistance
          <5>2. i + 1 \in 0 .. Len(index) - 1
            BY <2>1, <3>1
          <5>3. /\ FrameTime(i) \in Nat /\ FrameTime(i + 1) \in Nat
                /\ FrameTime(i) <= FrameTime(i + 1)
            BY <2>1, <5>2, StartsInOrder
          <5>4. /\ index[Len(index)].end \in Nat
                /\ FrameTime(i + 1) <= index[Len(index)].end
            BY <5>2, StartsInOrder
          <5>5. StreamBase \in Nat /\ timeOffset \in Nat
            BY StateTypes
          <5> HIDE DEF FrameTime
          <5>6. StreamBase + timeOffset < FrameTime(i + 1)
            BY <5>1, <5>3, <5>5 DEF Distance, Abs
          <5> QED
            BY <5>3, <5>4, <5>5, <5>6
        <4>4. result' = i /\ i # NotFound
          BY <2>1, <3>2 DEF Return, NotFound
        <4>5. SearchRight'
          <5> SUFFICES ASSUME Fits
                       PROVE  /\ NearestFound'
                              /\ (result = NotFound <=>
                                    StreamBase + timeOffset
                                      >= index[Len(index)].end)'
            BY <3>1 DEF SearchRight
          <5>1. NearestFound'
            BY <3>1, <4>2, <4>4 DEF NearestFound, Distance, FrameTime, StreamBase
          <5>2. index[Len(index)].end \in Nat
            BY <2>1, StartsInOrder
          <5>3. ~(StreamBase + timeOffset >= index[Len(index)].end)
            BY <4>3, <5>2, StateTypes
          <5> QED
            BY <3>1, <4>4, <5>1, <5>3 DEF StreamBase
        <4> QED
          BY <4>1, <4>5 DEF SearchInv
      <3>3. CASE ~NextIsFarther(i) /\ i' = i + 1 /\ UNCHANGED <<pc, result>>
        <4>1. pc' = "loop"
          BY <2>2, <3>3 DEF CompareWithNext
        <4>2. ASSUME Fits
              PROVE  \A k \in 0 .. i + 1 : Distance(i + 1) <= Distance(k)
          <5>1. ~(Distance(i + 1) > Distance(i))
            BY <3>1, <3>3, <4>2, TestIsDistance
          <5>2. \A k \in 0 .. i : Distance(i) <= Distance(k)
            BY <2>2, <4>2 DEF CompareWithNext, SearchInv, LoopInv
          <5> HIDE DEF Distance
          <5>3. i + 1 \in 0 .. Len(index) - 1
            BY <2>1, <3>1
          <5>4. Distance(i + 1) <= Distance(i)
            BY <2>1, <5>1, <5>3
          <5> QED
            BY <2>1, <5>2, <5>3, <5>4
        <4>3. LoopInv'
          BY <3>1, <3>3, <4>2 DEF LoopInv, Distance, FrameTime, StreamBase
        <4>4. SearchRight'
          BY <4>1 DEF SearchRight
        <4> QED
          BY <4>3, <4>4 DEF SearchInv
      <3> QED
        BY <2>2, <3>2, <3>3 DEF CompareWithNext
    <2>3. CASE AfterLoop
      <3>1. /\ index' = index /\ timeOffset' = timeOffset /\ pc' = "done"
            /\ Fits' = Fits
            /\ i = Len(index) - 1
            /\ result' = IF BeforeEnd THEN i ELSE NotFound
        BY <2>3 DEF AfterLoop, Return, LastFrame, Fits, Distance, FrameTime,
                    StreamBase
      <3>2. LoopInv'
        BY <3>1 DEF LoopInv
      <3>3. ASSUME Fits
            PROVE  \A k \in 0 .. Len(index) - 1 : Distance(i) <= Distance(k)
        BY <2>3, <3>1, <3>3 DEF AfterLoop, SearchInv, LoopInv
      <3>4. ASSUME Fits
            PROVE  BeforeEnd <=> StreamBase + timeOffset < index[Len(index)].end
        <4>1. StreamBase + timeOffset \in 0 .. QuadSize - 1
          BY <3>4, ConstantsAssumption, StateTypes DEF Fits
        <4>2. (StreamBase + timeOffset) % QuadSize = StreamBase + timeOffset
          BY <4>1, ConstantsAssumption, ModSmall
        <4> QED
          BY <4>2 DEF BeforeEnd
      <3>5. SearchRight'
        <4> SUFFICES ASSUME Fits
                     PROVE  /\ NearestFound'
                            /\ (result = NotFound <=>
                                  StreamBase + timeOffset
                                    >= index[Len(index)].end)'
          BY <3>1 DEF SearchRight
        <4>1. NearestFound'
          BY <3>1, <3>3 DEF NearestFound, Distance, FrameTime, StreamBase
        <4>2. index[Len(index)].end \in Nat
          BY <2>1, StartsInOrder
        <4>3. result' = NotFound <=> StreamBase + timeOffset >= index[Len(index)].end
          <5>1. i # NotFound
            BY <2>1 DEF NotFound
          <5> QED
            BY <3>1, <3>4, <4>2, <5>1, StateTypes
        <4> QED
          BY <3>1, <4>1, <4>3 DEF StreamBase
      <3> QED
        BY <3>2, <3>5 DEF SearchInv
    <2>4. CASE Returned \/ UNCHANGED vars
      BY <2>4 DEF Returned, vars, SearchInv, LoopInv, SearchRight, NearestFound,
                  Fits, Distance, FrameTime, StreamBase
    <2> QED
      BY <2>2, <2>3, <2>4 DEF Next
  <1>3. SearchInv => SearchRight
    BY DEF SearchInv
  <1> QED
    BY <1>1, <1>2, <1>3, TypeCorrect, PTL DEF Spec
=============================================================================
