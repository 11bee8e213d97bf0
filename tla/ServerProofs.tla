----------------------------- MODULE ServerProofs -----------------------------
(***************************************************************************)
(* Theorems of Server, for every set of connections, streams, and values   *)
(* of the parameters, and every size of a frame and of a piece.            *)
(*                                                                         *)
(* Sent relates the units a download has sent to the frames it has opened, *)
(* without which CompleteIsWhole cannot be shown: the last unit is sent    *)
(* only when the last frame has been opened.                               *)
(*                                                                         *)
(* ChosenInv keeps the frames of a download those of the index it was      *)
(* opened for, and FramesAtAskedFor says what these are: by induction the  *)
(* distances of stream_find_frame do not grow up to where it stops, and    *)
(* there is an order to sort the times into.                               *)
(***************************************************************************)
EXTENDS Server, FiniteSetTheorems, SequenceTheorems, TLAPS

(* Facts about integers *)

LEMMA Initial ==
  ASSUME NEW a \in Int, NEW b \in Int, NEW S \in SUBSET (a .. b),
         \A k \in S : a .. k \subseteq S
  PROVE  /\ IsFiniteSet(S) /\ Cardinality(S) \in Nat
         /\ S = a .. a + Cardinality(S) - 1
<1>1. IsFiniteSet(S) /\ Cardinality(S) \in Nat
  BY FS_Interval, FS_Subset, FS_CardinalityType
<1> DEFINE n == Cardinality(S)
           T == a .. a + n - 1
<1>2. \A k \in S : k <= a + n - 1
  <2> TAKE k \in S
  <2>1. k \in Int /\ a <= k
    OBVIOUS
  <2>2. Cardinality(a .. k) = k - a + 1
    BY <2>1, FS_Interval
  <2>3. Cardinality(a .. k) <= n
    BY <1>1, FS_Subset
  <2> QED
    BY <1>1, <2>1, <2>2, <2>3
<1>3. S \in SUBSET T
  BY <1>1, <1>2
<1>4. IsFiniteSet(T) /\ Cardinality(T) = n
  <2>1. \A c \in Int : a <= c + 1 => IsFiniteSet(a .. c) /\ Cardinality(a .. c) = c - a + 1
    BY FS_Interval
  <2>2. a + n - 1 \in Int /\ a <= (a + n - 1) + 1 /\ (a + n - 1) - a + 1 = n
    BY <1>1
  <2> QED
    BY <2>1, <2>2
<1>5. S = T
  BY <1>3, <1>4, FS_Subset
<1> QED
  BY <1>1, <1>5

LEMMA MinIs ==
  ASSUME NEW b \in Int, NEW S \in SUBSET (0 .. b), S # {}
  PROVE  Min(S) \in S /\ \A k \in S : Min(S) <= k
<1> DEFINE D == {k \in 0 .. b : \A s \in S : k < s}
           m == Cardinality(D)
<1>1. D \in SUBSET (0 .. b) /\ \A k \in D : 0 .. k \subseteq D
  OBVIOUS
<1>2. \A k \in D, s \in S : k < s
  OBVIOUS
<1>3. \A k \in 0 .. b : (\A s \in S : k < s) => k \in D
  OBVIOUS
<1> HIDE DEF D
<1>4. m \in Nat /\ D = 0 .. m - 1
  <2>1. ASSUME NEW a \in Int, a = 0
        PROVE  m \in Nat /\ D = a .. a + m - 1
    <3>1. D \in SUBSET (a .. b) /\ \A k \in D : a .. k \subseteq D
      BY <1>1, <2>1
    <3> QED
      BY <3>1, Initial
  <2> QED
    BY <2>1
<1> HIDE DEF m
<1>5. \A s \in S : m <= s
  <2> SUFFICES ASSUME NEW s \in S, s < m PROVE FALSE
    BY <1>4
  <2>1. s \in D
    BY <1>4
  <2> QED
    BY <1>2, <2>1
<1>6. PICK s \in S : ~(m < s)
  <2>1. m \notin D
    BY <1>4
  <2>2. PICK s \in S : TRUE
    OBVIOUS
  <2>3. m \in 0 .. b
    BY <1>4, <1>5, <2>2
  <2> QED
    BY <1>3, <2>1, <2>3
<1>7. m \in S
  BY <1>4, <1>5, <1>6
<1> QED
  BY <1>5, <1>7 DEF Min

LEMMA TimesMonotone ==
  ASSUME NEW i \in Nat, NEW j \in Nat, i <= j, NEW f \in Nat
  PROVE  i * f \in Nat /\ j * f \in Nat /\ i * f <= j * f
<1>1. (j - i) \in Nat /\ (j - i) * f \in Nat
  OBVIOUS
<1>2. j * f = i * f + (j - i) * f
  OBVIOUS
<1> QED
  BY <1>1, <1>2

LEMMA MinOfTwo ==
  ASSUME NEW a \in Nat, NEW b \in Nat
  PROVE  /\ Min({a, b}) \in {a, b}
         /\ Min({a, b}) <= a /\ Min({a, b}) <= b
<1>1. {a, b} \in SUBSET (0 .. a + b) /\ {a, b} # {}
  OBVIOUS
<1>2. a + b \in Int
  OBVIOUS
<1> QED
  BY <1>1, <1>2, MinIs
-----------------------------------------------------------------------------
(* The frames of a download *)

LEMMA FindFrameTyped ==
  ASSUME NEW q \in Seq(Row), NEW offset
  PROVE  FindFrame(q, offset) \in Nat \cup {-1}
<1> DEFINE distance(k) == Abs(q[k + 1].start - q[1].start - offset)
           stops == {k \in 0 .. Len(q) - 2 : distance(k + 1) > distance(k)}
<1>1. stops \in SUBSET (0 .. Len(q) - 2) /\ Len(q) - 2 \in Int
  OBVIOUS
<1>2. FindFrame(q, offset) \in {Min(stops), Len(q) - 1, -1}
      /\ (FindFrame(q, offset) = Min(stops) \/ FindFrame(q, offset) \in {Len(q) - 1, -1})
      /\ (stops = {} => FindFrame(q, offset) \in {Len(q) - 1, -1})
  BY DEF FindFrame
<1> HIDE DEF stops
<1>3. stops # {} => Min(stops) \in Nat
  <2> DEFINE b == Len(q) - 2
  <2>1. b \in Int /\ stops \in SUBSET (0 .. b)
    BY <1>1
  <2> HIDE DEF b
  <2>2. stops # {} => Min(stops) \in stops
    BY <2>1, MinIs
  <2>3. \A k \in stops : k \in Nat
    BY <2>1
  <2> QED
    BY <2>2, <2>3
<1>4. Len(q) - 1 \in Nat \cup {-1}
  OBVIOUS
<1> QED
  BY <1>2, <1>3, <1>4

LEMMA UntilBehindTyped ==
  ASSUME NEW q \in Seq(Nat \cup {-1})
  PROVE  UntilBehind(q) \in Seq(Nat)
<1> DEFINE behind == {j \in 1 .. Len(q) : q[j] = -1}
<1>1. \A j \in 1 .. Len(q) : q[j] \in Nat \cup {-1}
  OBVIOUS
<1>2. CASE behind = {}
  <2>1. \A j \in 1 .. Len(q) : q[j] \in Nat
    BY <1>1, <1>2
  <2>2. q \in Seq(Nat)
    BY <2>1
  <2> QED
    BY <1>2, <2>2 DEF UntilBehind
<1>3. CASE behind # {}
  <2> DEFINE m == Min(behind)
  <2>1. behind \in SUBSET (0 .. Len(q)) /\ Len(q) \in Int
    OBVIOUS
  <2>2. m \in behind /\ \A j \in behind : m <= j
    BY <1>3, <2>1, MinIs
  <2>4. UntilBehind(q) = SubSeq(q, 1, m - 1)
    BY <1>3 DEF UntilBehind
  <2>6. \A j \in 1 .. Len(q) : j \in behind <=> q[j] = -1
    OBVIOUS
  <2>7. m \in 1 .. Len(q)
    BY <2>2
  <2> HIDE DEF m, behind
  <2>3. \A j \in 1 .. m - 1 : q[j] \in Nat
    BY <1>1, <2>2, <2>6, <2>7
  <2>5. SubSeq(q, 1, m - 1) \in Seq(Nat)
    BY <2>3, <2>7, SubSeqProperties
  <2> QED
    BY <2>4, <2>5
<1> QED
  BY <1>2, <1>3

LEMMA FramesForTyped ==
  ASSUME NEW q \in Seq(Row), NEW arg \in Arguments
  PROVE  FramesFor(q, arg) \in Seq(Nat)
<1>1. arg.offset \in Nat /\ arg.times \in Seq(Int)
  BY ConstantsAssumption DEF Argument
<1>2. FramesFrom(q, arg.offset) \in Seq(Nat)
  <2> DEFINE n == IF arg.offset < Len(q) THEN Len(q) - arg.offset ELSE 0
  <2>1. n \in Nat
    BY <1>1
  <2>2. FramesFrom(q, arg.offset) = [j \in 1 .. n |-> arg.offset + j - 1]
    BY DEF FramesFrom
  <2> HIDE DEF n
  <2>3. FramesFrom(q, arg.offset) \in [1 .. n -> Nat]
    BY <1>1, <2>1, <2>2
  <2> QED
    BY <2>1, <2>3
<1>3. FramesAt(q, SortedTimes(arg.times)) \in Seq(Nat)
  <2> DEFINE times == SortedTimes(arg.times)
             n == Len(arg.times)
             found == [j \in 1 .. Len(times) |-> FindFrame(q, times[j])]
  <2>1. n \in Nat
    BY <1>1
  <2>2. Len(times) = n
    BY <2>1 DEF SortedTimes
  <2> HIDE DEF times, n
  <2>3. found \in [1 .. n -> Nat \cup {-1}]
    BY <2>2, FindFrameTyped
  <2> HIDE DEF found
  <2>4. found \in Seq(Nat \cup {-1})
    BY <2>1, <2>3
  <2>5. UntilBehind(found) \in Seq(Nat)
    BY <2>4, UntilBehindTyped
  <2> QED
    BY <2>5 DEF FramesAt, found, times
<1> QED
  BY <1>2, <1>3 DEF FramesFor
-----------------------------------------------------------------------------
(* A download and what it has sent *)

(* The frames of which something is among the first u units *)
Begun(d, u) == {k \in 1 .. Len(d.frames) : 2 + (k - 1) * FrameUnits <= u}

Sent(d) ==
  /\ d.pos <= Total(d)
  /\ Len(d.got) = Cardinality(Begun(d, d.pos))
  /\ \A k \in 1 .. Len(d.got) : d.got[k] = d.frames[k]
  /\ d.state = "complete" => d.got = d.frames

LEMMA FrameUnitsTyped == FrameUnits \in Nat /\ FrameUnits >= 1
BY ConstantsAssumption

LEMMA BegunIs ==
  ASSUME NEW d \in Download, NEW u \in Nat
  PROVE  /\ Cardinality(Begun(d, u)) \in 0 .. Len(d.frames)
         /\ Begun(d, u) = 1 .. Cardinality(Begun(d, u))
         /\ u <= 1 => Cardinality(Begun(d, u)) = 0
         /\ u = Total(d) => Cardinality(Begun(d, u)) = Len(d.frames)
<1> DEFINE S == Begun(d, u)
           len == Len(d.frames)
           units(k) == (k - 1) * FrameUnits
<1>1. len \in Nat
  BY DEF Download
<1>2. \A k \in 1 .. len : k \in S <=> 2 + units(k) <= u
  BY DEF Begun
<1>3. S \in SUBSET (1 .. len)
  BY DEF Begun
<1>4. \A j, k \in 1 .. len : j <= k =>
        /\ units(j) \in Nat /\ units(k) \in Nat /\ units(j) <= units(k)
  <2> SUFFICES ASSUME NEW j \in 1 .. len, NEW k \in 1 .. len, j <= k
               PROVE  /\ units(j) \in Nat /\ units(k) \in Nat
                      /\ units(j) <= units(k)
    OBVIOUS
  <2> DEFINE i0 == j - 1
             i1 == k - 1
  <2>1. i0 \in Nat /\ i1 \in Nat /\ i0 <= i1
    BY <1>1
  <2> HIDE DEF i0, i1
  <2>2. i0 * FrameUnits \in Nat /\ i1 * FrameUnits \in Nat
        /\ i0 * FrameUnits <= i1 * FrameUnits
    BY <2>1, FrameUnitsTyped, TimesMonotone
  <2> QED
    BY <2>2 DEF i0, i1
<1>5. len * FrameUnits \in Nat /\ (len > 0 => len * FrameUnits = units(len) + FrameUnits)
  BY <1>1, FrameUnitsTyped
<1>6. Total(d) = 1 + len * FrameUnits
  BY <1>1, FrameUnitsTyped DEF Total
<1> HIDE DEF S, units, len
<1>7. \A k \in S : 1 .. k \subseteq S
  <2> SUFFICES ASSUME NEW k \in S, NEW j \in 1 .. k PROVE j \in S
    OBVIOUS
  <2>1. j \in 1 .. len /\ k \in 1 .. len /\ j <= k
    BY <1>1, <1>3
  <2>2. units(j) \in Nat /\ units(k) \in Nat /\ units(j) <= units(k)
    BY <1>4, <2>1
  <2>3. 2 + units(k) <= u
    BY <1>2, <2>1
  <2> QED
    BY <1>2, <2>1, <2>2, <2>3
<1>8. Cardinality(S) \in Nat /\ S = 1 .. Cardinality(S)
  <2>1. \A a \in Int : a = 1 => Cardinality(S) \in Nat /\ S = a .. a + Cardinality(S) - 1
    <3> SUFFICES ASSUME NEW a \in Int, a = 1
                 PROVE  Cardinality(S) \in Nat /\ S = a .. a + Cardinality(S) - 1
      OBVIOUS
    <3>1. S \in SUBSET (a .. len) /\ \A k \in S : a .. k \subseteq S
      BY <1>3, <1>7
    <3>2. len \in Int
      BY <1>1
    <3> QED
      BY <3>1, <3>2, Initial
  <2> QED
    BY <2>1
<1> DEFINE n == Cardinality(S)
<1> HIDE DEF n
<1>9. n \in Nat /\ S = 1 .. n
  BY <1>8 DEF n
<1>10. n <= len
  <2>1. n > 0 => n \in S
    BY <1>9
  <2> QED
    BY <1>1, <1>3, <1>9, <2>1
<1>11. u <= 1 => n = 0
  <2>1. ASSUME u <= 1, n > 0 PROVE FALSE
    <3>1. 1 \in S /\ 1 \in 1 .. len
      BY <1>1, <1>3, <1>9, <2>1
    <3>2. units(1) \in Nat /\ 2 + units(1) <= u
      BY <1>2, <1>4, <3>1
    <3> QED
      BY <2>1, <3>2
  <2> QED
    BY <1>9, <2>1
<1>12. u = Total(d) => n = len
  <2>1. ASSUME u = Total(d), len > 0 PROVE len \in S
    <3>1. len \in 1 .. len
      BY <1>1, <2>1
    <3>2. units(len) \in Nat
      BY <1>4, <3>1
    <3>3. 2 + units(len) <= u
      BY <1>5, <1>6, <2>1, <3>2, FrameUnitsTyped
    <3> QED
      BY <1>2, <3>1, <3>3
  <2> QED
    BY <1>1, <1>9, <1>10, <2>1
<1> QED
  BY <1>9, <1>10, <1>11, <1>12 DEF S, n, len

LEMMA TotalTyped ==
  ASSUME NEW d \in Download
  PROVE  Total(d) \in Nat /\ Total(d) >= 1
<1> DEFINE len == Len(d.frames)
<1>1. len \in Nat
  BY DEF Download
<1> HIDE DEF len
<1>2. FrameUnits * len \in Nat
  BY <1>1, FrameUnitsTyped
<1> QED
  BY <1>2 DEF Total, len

(* A piece of n units *)
Added(d, n) == [j \in 1 .. Cardinality(OpenedBy(d, n)) |-> d.frames[Len(d.got) + j]]
Advanced(d, n) == [d EXCEPT !.pos = d.pos + n, !.got = d.got \o Added(d, n)]
Completed(d) == [d EXCEPT !.state = "complete"]

LEMMA AddedIs ==
  ASSUME NEW d \in Download, Sent(d), NEW n \in Nat, d.pos + n <= Total(d)
  PROVE  LET g == Cardinality(Begun(d, d.pos + n)) IN
         /\ g \in Len(d.got) .. Len(d.frames)
         /\ Added(d, n) \in Seq(Nat)
         /\ Len(Added(d, n)) = g - Len(d.got)
         /\ \A j \in 1 .. g - Len(d.got) : Added(d, n)[j] = d.frames[Len(d.got) + j]
<1> DEFINE g == Cardinality(Begun(d, d.pos + n))
           f == Len(d.got)
           len == Len(d.frames)
           O == OpenedBy(d, n)
<1>1. /\ d.pos \in Nat /\ d.pos + n \in Nat /\ len \in Nat /\ f \in Nat
      /\ d.frames \in Seq(Nat)
  BY DEF Download
<1>2. Begun(d, d.pos) = 1 .. f /\ f \in 0 .. len
  BY <1>1, BegunIs DEF Sent
<1>3. Begun(d, d.pos + n) = 1 .. g /\ g \in 0 .. len
  BY <1>1, BegunIs
<1>4. \A k \in 1 .. len : (k - 1) * FrameUnits \in Int
  BY <1>1, FrameUnitsTyped
<1>5. O = Begun(d, d.pos + n) \ Begun(d, d.pos)
  BY <1>1, <1>4, SMTT(30) DEF OpenedBy, Begun
<1>6. Begun(d, d.pos) \subseteq Begun(d, d.pos + n)
  BY <1>1, <1>4, SMTT(20) DEF Begun
<1> HIDE DEF g, f, len, O
<1>7. f <= g
  <2>1. CASE f = 0
    BY <1>3, <2>1
  <2>2. CASE f > 0
    <3>1. f \in 1 .. f
      BY <1>1, <2>2
    <3>2. f \in 1 .. g
      BY <1>2, <1>3, <1>6, <3>1
    <3> QED
      BY <3>2
  <2> QED
    BY <1>1, <2>1, <2>2
<1>8. O = f + 1 .. g
  BY <1>1, <1>2, <1>3, <1>5
<1>9. Cardinality(O) = g - f /\ g - f \in Nat
  <2>1. f + 1 \in Int /\ g \in Int
    BY <1>1, <1>3
  <2>2. Cardinality(f + 1 .. g) = IF f + 1 > g THEN 0 ELSE g - (f + 1) + 1
    BY <2>1, FS_Interval
  <2> QED
    BY <1>1, <1>3, <1>7, <1>8, <2>2
<1>10. Added(d, n) = [j \in 1 .. g - f |-> d.frames[f + j]]
  BY <1>9 DEF Added, O, f
<1>11. \A j \in 1 .. g - f : d.frames[f + j] \in Nat
  <2> SUFFICES ASSUME NEW j \in 1 .. g - f PROVE d.frames[f + j] \in Nat
    OBVIOUS
  <2>1. f + j \in 1 .. len
    BY <1>1, <1>3, <1>7
  <2> QED
    BY <1>1, <2>1, SMTT(20) DEF len
<1>12. Added(d, n) \in [1 .. g - f -> Nat]
  BY <1>10, <1>11
<1>13. Added(d, n) \in Seq(Nat) /\ Len(Added(d, n)) = g - f
  BY <1>9, <1>12
<1>14. g \in f .. len
  BY <1>1, <1>3, <1>7
<1> QED
  BY <1>10, <1>13, <1>14 DEF g, f, len

LEMMA AdvancedFields ==
  ASSUME NEW d \in Download, NEW n \in Nat, Added(d, n) \in Seq(Nat)
  PROVE  /\ Advanced(d, n) \in Download
         /\ Advanced(d, n).pos = d.pos + n
         /\ Advanced(d, n).got = d.got \o Added(d, n)
         /\ Advanced(d, n).frames = d.frames
         /\ Advanced(d, n).state = d.state
         /\ Advanced(d, n).train = d.train
<1>1. d.got \o Added(d, n) \in Seq(Nat) /\ d.pos + n \in Nat
  BY DEF Download
<1> QED
  BY <1>1 DEF Advanced, Download

LEMMA AdvancedSent ==
  ASSUME NEW d \in Download, Sent(d), d.state = "open",
         NEW n \in Nat, d.pos + n <= Total(d)
  PROVE  Advanced(d, n) \in Download /\ Sent(Advanced(d, n))
<1> DEFINE e == Advanced(d, n)
           g == Cardinality(Begun(d, d.pos + n))
           a == Added(d, n)
           f == Len(d.got)
<1>1. /\ g \in f .. Len(d.frames)
      /\ a \in Seq(Nat) /\ Len(a) = g - f
      /\ \A j \in 1 .. g - f : a[j] = d.frames[f + j]
  BY AddedIs
<1>2. /\ e \in Download
      /\ e.pos = d.pos + n /\ e.got = d.got \o a /\ e.frames = d.frames
      /\ e.state = "open"
  BY <1>1, AdvancedFields
<1>3. Total(e) = Total(d) /\ Begun(e, e.pos) = Begun(d, d.pos + n)
  BY <1>2 DEF Total, Begun
<1>4. d.got \in Seq(Nat) /\ f \in Nat /\ \A k \in 1 .. f : d.got[k] = d.frames[k]
  BY DEF Download, Sent
<1>5. Cardinality(Begun(e, e.pos)) = g
  BY <1>3
<1> HIDE DEF e, g, a
<1>6. /\ Len(d.got \o a) = g
      /\ \A k \in 1 .. g : (d.got \o a)[k] = IF k <= f THEN d.got[k] ELSE a[k - f]
  BY <1>1, <1>4, ConcatProperties
<1>7. \A k \in 1 .. g : (d.got \o a)[k] = d.frames[k]
  <2> SUFFICES ASSUME NEW k \in 1 .. g PROVE (d.got \o a)[k] = d.frames[k]
    OBVIOUS
  <2>1. CASE k <= f
    BY <1>1, <1>4, <1>6, <2>1
  <2>2. CASE ~(k <= f)
    <3>1. k - f \in 1 .. g - f /\ f + (k - f) = k
      BY <1>1, <1>4, <2>2
    <3> QED
      BY <1>1, <1>6, <2>2, <3>1
  <2> QED
    BY <2>1, <2>2
<1>8. Sent(e)
  BY <1>2, <1>3, <1>5, <1>6, <1>7 DEF Sent
<1> QED
  BY <1>2, <1>8 DEF e

LEMMA CompletedSent ==
  ASSUME NEW d \in Download, Sent(d), d.pos = Total(d)
  PROVE  /\ Completed(d) \in Download
         /\ Sent(Completed(d))
         /\ Completed(d).state = "complete"
<1>1. d.frames \in Seq(Nat) /\ d.got \in Seq(Nat) /\ d.pos \in Nat
  BY DEF Download
<1>2. Len(d.got) = Len(d.frames)
  BY <1>1, BegunIs DEF Sent
<1>3. d.got = d.frames
  <2>1. \A k \in 1 .. Len(d.got) : d.got[k] = d.frames[k]
    BY DEF Sent
  <2> QED
    BY <1>1, <1>2, <2>1, SeqEqual
<1>4. /\ Completed(d) \in Download
      /\ Completed(d).state = "complete"
      /\ Completed(d).pos = d.pos
      /\ Completed(d).got = d.got
      /\ Completed(d).frames = d.frames
  BY DEF Completed, Download
<1>5. Total(Completed(d)) = Total(d) /\ Begun(Completed(d), d.pos) = Begun(d, d.pos)
  BY <1>4 DEF Total, Begun
<1> QED
  BY <1>3, <1>4, <1>5 DEF Sent

(* A download at its beginning, or none *)
LEMMA FreshSent ==
  ASSUME NEW d \in Download, d.pos = 0, d.got = <<>>, d.state # "complete"
  PROVE  Sent(d)
<1>1. Cardinality(Begun(d, d.pos)) = 0
  BY BegunIs
<1>2. d.pos <= Total(d)
  BY TotalTyped
<1> QED
  BY <1>1, <1>2 DEF Sent

LEMMA NoDownloadSent == NoDownload \in Download /\ Sent(NoDownload)
<1>1. <<>> \in Seq(Nat)
  OBVIOUS
<1>2. NoDownload \in Download
  BY <1>1 DEF NoDownload, Download, NONE
<1>3. /\ NoDownload.pos = 0 /\ NoDownload.got = <<>>
      /\ NoDownload.state # "complete"
  BY DEF NoDownload
<1> QED
  BY <1>2, <1>3, FreshSent
-----------------------------------------------------------------------------
(* The invariant *)

SentInv == \A c \in Conns : Sent(conns[c])

IsOpen(c) == conns[c].state = "open"

(* Until two downloads have been open at once, `spos' belongs to the one
   that is. *)
SposInv ==
  ~overlapped =>
    /\ ~aborted
    /\ \A c, e \in Conns : IsOpen(c) /\ IsOpen(e) => c = e
    /\ \A c \in Conns : IsOpen(c) /\ conns[c].pos # 0 => conns[c].pos = spos

DeletedInv == deleted \cap indexed = {}

ServerInv == TypeOK /\ SentInv /\ SposInv /\ DeletedInv

(* Only connection c has changed, and it has not become open. *)
Changes(c) ==
  /\ \A e \in Conns \ {c} : conns'[e] = conns[e]
  /\ conns[c].state = "open" /\ conns' \in [Conns -> Download] /\ Sent(conns'[c])
  /\ conns'[c].state = "open" => conns'[c].pos = 0 \/ conns'[c].pos = spos'
  /\ spos' \in Nat

LEMMA ChangesKeep ==
  ASSUME ServerInv, NEW c \in Conns, Changes(c),
         UNCHANGED <<storageVars, aborted, deleted, overlapped>>
  PROVE  ServerInv'
<1>1. TypeOK'
  BY DEF ServerInv, TypeOK, StorageTypeOK, storageVars, Changes
<1>2. SentInv'
  <2>1. \A e \in Conns : Sent(conns'[e])
    BY DEF ServerInv, SentInv, Changes
  <2> QED
    BY <2>1 DEF SentInv
<1>3. SposInv'
  BY DEF ServerInv, SposInv, Changes, IsOpen
<1>4. DeletedInv'
  BY DEF ServerInv, DeletedInv, storageVars
<1> QED
  BY <1>1, <1>2, <1>3, <1>4 DEF ServerInv

LEMMA ReadPieceKeeps ==
  ASSUME ServerInv, NEW c \in Conns, ReadPiece(c)
  PROVE  Changes(c)
<1> DEFINE d == conns[c]
<1>1. /\ conns \in [Conns -> Download] /\ d \in Download /\ Sent(d)
      /\ spos \in Nat /\ d.state = "open"
      /\ d.pos = 0 \/ d.pos = spos
  BY DEF ServerInv, TypeOK, SentInv, ReadPiece
<1>2. d.pos \in Nat /\ Total(d) \in Nat /\ d.pos <= Total(d)
  BY <1>1, TotalTyped DEF Download, Sent
<1>3. Start(d.pos) \in Nat /\ Start(d.pos) = d.pos
  BY <1>1, <1>2 DEF Start
<1>4. PICK max \in ReadSizes :
        LET n == Min({max, Total(d) - d.pos})
            opened == OpenedBy(d, n)
        IN \/ /\ n = 0
              /\ conns' = [conns EXCEPT ![c].state = "complete"]
              /\ spos' = Start(d.pos)
           \/ /\ n > 0
              /\ \A k \in opened : d.frames[k] \in files[d.train]
              /\ conns' = [conns EXCEPT ![c].pos = d.pos + n,
                             ![c].got = @ \o [j \in 1 .. Cardinality(opened) |->
                                                d.frames[Len(@) + j]]]
              /\ spos' = Start(d.pos) + n
           \/ /\ opened # {}
              /\ conns' = [conns EXCEPT ![c] = MissingFile(d)]
              /\ spos' = Start(d.pos)
  BY DEF ReadPiece
<1> DEFINE n == Min({max, Total(d) - d.pos})
<1>5. max \in Nat /\ max >= 1
  BY ConstantsAssumption
<1>6. /\ n \in {max, Total(d) - d.pos}
      /\ n <= max /\ n <= Total(d) - d.pos
  <2>1. Total(d) - d.pos \in Nat
    BY <1>2
  <2> QED
    BY <1>5, <2>1, MinOfTwo
<1>7. \/ n = 0 /\ conns' = [conns EXCEPT ![c] = Completed(d)] /\ spos' = d.pos
      \/ n > 0 /\ conns' = [conns EXCEPT ![c] = Advanced(d, n)] /\ spos' = d.pos + n
      \/ conns' = [conns EXCEPT ![c] = NoDownload] /\ spos' = d.pos
  BY <1>3, <1>4 DEF Completed, Advanced, Added, MissingFile
<1> HIDE DEF n
<1>8. n \in Nat /\ d.pos + n <= Total(d) /\ (n = 0 => d.pos = Total(d))
  BY <1>2, <1>5, <1>6
<1> DEFINE e == conns'[c]
<1>9. /\ \A x \in Conns \ {c} : conns'[x] = conns[x]
      /\ \/ n = 0 /\ e = Completed(d) /\ spos' = d.pos
         \/ e = Advanced(d, n) /\ spos' = d.pos + n
         \/ e = NoDownload /\ spos' = d.pos
      /\ DOMAIN conns' = Conns /\ conns' = [x \in Conns |-> conns'[x]]
  BY <1>1, <1>7
<1> HIDE DEF d, e
<1>10. /\ e \in Download /\ Sent(e)
       /\ e.state = "open" => e.pos = 0 \/ e.pos = spos'
       /\ spos' \in Nat
  <2>1. CASE n = 0 /\ e = Completed(d) /\ spos' = d.pos
    BY <1>1, <1>2, <1>8, <2>1, CompletedSent
  <2>2. CASE e = Advanced(d, n) /\ spos' = d.pos + n
    <3>1. e \in Download /\ Sent(e)
      BY <1>1, <1>8, <2>2, AdvancedSent
    <3>2. e.pos = d.pos + n
      BY <1>1, <1>8, <2>2, AddedIs, AdvancedFields
    <3> QED
      BY <1>2, <1>8, <2>2, <3>1, <3>2
  <2>3. CASE e = NoDownload /\ spos' = d.pos
    BY <1>2, <2>3, NoDownloadSent DEF NoDownload
  <2> QED
    BY <1>9, <2>1, <2>2, <2>3
<1>11. conns' \in [Conns -> Download]
  BY <1>1, <1>9, <1>10 DEF e
<1> QED
  BY <1>1, <1>9, <1>10, <1>11 DEF Changes, d, e

LEMMA DisconnectKeeps ==
  ASSUME ServerInv, NEW c \in Conns, Disconnect(c)
  PROVE  Changes(c)
<1>1. conns \in [Conns -> Download] /\ conns[c].state = "open" /\ spos \in Nat
  BY DEF ServerInv, TypeOK, Disconnect
<1>2. conns' = [conns EXCEPT ![c] = NoDownload] /\ spos' = spos
  BY DEF Disconnect
<1>3. NoDownload.state # "open"
  BY DEF NoDownload
<1>4. conns'[c] = NoDownload /\ \A e \in Conns \ {c} : conns'[e] = conns[e]
  BY <1>1, <1>2
<1>5. conns' \in [Conns -> Download]
  BY <1>1, <1>2, NoDownloadSent
<1> HIDE DEF NoDownload
<1> QED
  BY <1>1, <1>2, <1>3, <1>4, <1>5, NoDownloadSent DEF Changes

LEMMA GetKeeps ==
  ASSUME ServerInv, NEW c \in Conns, Get(c)
  PROVE  ServerInv'
<1>1. UNCHANGED <<storageVars, spos, aborted, deleted>>
  BY DEF Get
<1>2. PICK time \in Times, arg \in Arguments, readable \in SUBSET indexed :
        \/ UNCHANGED <<conns, overlapped>>
        \/ \E t \in Found(time, readable) : OpenDownload(c, t, arg)
  BY DEF Get
<1>3. CASE UNCHANGED <<conns, overlapped>>
  BY <1>1, <1>3
     DEF ServerInv, TypeOK, StorageTypeOK, SentInv, SposInv, IsOpen, DeletedInv,
         storageVars
<1>4. CASE \E t \in Found(time, readable) : OpenDownload(c, t, arg)
  <2>1. PICK t \in Found(time, readable) : OpenDownload(c, t, arg)
    BY <1>4
  <2>2. t \in TrainIds /\ index[t] \in Seq(Row)
    BY DEF Found, ServerInv, TypeOK, StorageTypeOK
  <2> DEFINE d == [state |-> "open", train |-> t, argument |-> arg,
                   frames |-> FramesFor(index[t], arg), pos |-> 0, got |-> <<>>]
  <2>3. conns' = [conns EXCEPT ![c] = d]
        /\ overlapped' = (overlapped \/ \E o \in Conns : conns[o].state = "open")
    BY <2>1 DEF OpenDownload
  <2>4. FramesFor(index[t], arg) \in Seq(Nat)
    BY <2>2, FramesForTyped
  <2>5. <<>> \in Seq(Nat)
    OBVIOUS
  <2>6. d \in Download
    BY <2>2, <2>4, <2>5 DEF Download
  <2>7. d.pos = 0 /\ d.got = <<>> /\ d.state = "open"
    OBVIOUS
  <2> HIDE DEF d
  <2>8. Sent(d)
    BY <2>6, <2>7, FreshSent
  <2>9. /\ conns \in [Conns -> Download]
        /\ conns'[c] = d /\ \A e \in Conns \ {c} : conns'[e] = conns[e]
    BY <2>3 DEF ServerInv, TypeOK
  <2>10. TypeOK'
    BY <1>1, <2>1, <2>3, <2>6 DEF ServerInv, TypeOK, StorageTypeOK, storageVars
  <2>11. SentInv'
    <3>1. \A e \in Conns : Sent(conns'[e])
      BY <2>8, <2>9 DEF ServerInv, SentInv
    <3> QED
      BY <3>1 DEF SentInv
  <2>12. SposInv'
    BY <1>1, <2>3, <2>7, <2>9 DEF ServerInv, SposInv, IsOpen
  <2>13. DeletedInv'
    BY <1>1 DEF ServerInv, DeletedInv, storageVars
  <2> QED
    BY <2>10, <2>11, <2>12, <2>13 DEF ServerInv
<1> QED
  BY <1>2, <1>3, <1>4

LEMMA DeleteKeeps ==
  ASSUME ServerInv, Delete
  PROVE  ServerInv'
<1>1. UNCHANGED <<conns, spos, aborted, overlapped>>
  BY DEF Delete
<1>2. PICK t \in indexed, res \in {LPX_SUCCESS, LPX_IO} :
         /\ \E kept \in SUBSET Unlinked(t) :
              DeleteStream(t, kept \cup (FileNames(t) \ Unlinked(t)), res)
         /\ deleted' = IF res = LPX_SUCCESS THEN deleted \cup {t} ELSE deleted
  BY DEF Delete, Found
<1>3. PICK kept \in SUBSET Unlinked(t) :
        DeleteStream(t, kept \cup (FileNames(t) \ Unlinked(t)), res)
  BY <1>2
<1> DEFINE left == kept \cup (FileNames(t) \ Unlinked(t))
<1>4. left \in SUBSET Unlinked(t) /\ Unlinked(t) = FileNames(t)
  BY DEF Unlinked
<1>5. t \in TrainIds /\ t \in indexed
  BY DEF ServerInv, TypeOK, StorageTypeOK
<1> HIDE DEF left
<1>6. DeleteStream(t, left, res)
  BY <1>3 DEF left
<1>7. <<>> \in Seq(Row)
  OBVIOUS
<1>8. TypeOK'
  <2>1. files' \in [TrainIds -> SUBSET Nat]
    BY <1>5, <1>6 DEF DeleteStream, ServerInv, TypeOK, StorageTypeOK
  <2>2. index' \in [TrainIds -> Seq(Row)]
    BY <1>5, <1>6, <1>7 DEF DeleteStream, ServerInv, TypeOK, StorageTypeOK
  <2>3. indexed' \subseteq indexed /\ dirs' \subseteq dirs
    BY <1>6 DEF DeleteStream
  <2>4. deleted' \subseteq TrainIds
    BY <1>2, <1>5 DEF ServerInv, TypeOK
  <2> QED
    BY <1>1, <2>1, <2>2, <2>3, <2>4 DEF ServerInv, TypeOK, StorageTypeOK
<1>9. SentInv' /\ SposInv'
  BY <1>1 DEF ServerInv, SentInv, SposInv, IsOpen
<1>10. DeletedInv'
  <2>1. res = LPX_SUCCESS => left = {}
    BY <1>4, <1>6 DEF DeleteStream, LPX_SUCCESS, LPX_IO
  <2>2. res = LPX_SUCCESS => indexed' = indexed \ {t}
    BY <1>6, <2>1 DEF DeleteStream
  <2>3. indexed' \subseteq indexed
    BY <1>6 DEF DeleteStream
  <2> QED
    BY <1>2, <2>2, <2>3 DEF ServerInv, DeletedInv
<1> QED
  BY <1>8, <1>9, <1>10 DEF ServerInv

LEMMA AssertionFailsKeeps ==
  ASSUME ServerInv, NEW c \in Conns, AssertionFails(c)
  PROVE  ServerInv'
<1>1. overlapped
  BY DEF ServerInv, SposInv, AssertionFails, IsOpen
<1>2. TypeOK'
  BY DEF ServerInv, TypeOK, StorageTypeOK, storageVars, AssertionFails
<1>3. SentInv' /\ SposInv' /\ DeletedInv'
  BY <1>1
     DEF ServerInv, SentInv, SposInv, DeletedInv, storageVars, AssertionFails
<1> QED
  BY <1>2, <1>3 DEF ServerInv

LEMMA ServerInvInit == Init => ServerInv
<1> SUFFICES ASSUME Init PROVE ServerInv
  OBVIOUS
<1>1. StorageTypeOK
  <2>1. files \in [TrainIds -> SUBSET Nat]
    BY ConstantsAssumption DEF Init
  <2>2. index \in [TrainIds -> Seq(Row)]
    BY ConstantsAssumption DEF Init
  <2> QED
    BY <2>1, <2>2 DEF Init, StorageTypeOK
<1>2. conns \in [Conns -> Download] /\ \A c \in Conns : conns[c] = NoDownload
  BY NoDownloadSent DEF Init
<1>3. TypeOK
  BY <1>1, <1>2 DEF Init, TypeOK
<1>4. SentInv
  BY <1>2, NoDownloadSent DEF SentInv
<1>5. NoDownload.state # "open"
  BY DEF NoDownload
<1>6. SposInv
  BY <1>2, <1>5 DEF Init, SposInv, IsOpen
<1>7. DeletedInv
  BY DEF Init, DeletedInv
<1> QED
  BY <1>3, <1>4, <1>6, <1>7 DEF ServerInv

LEMMA ServerInvStep == ServerInv /\ [Next]_vars => ServerInv'
<1> SUFFICES ASSUME ServerInv, [Next]_vars PROVE ServerInv'
  OBVIOUS
<1>1. ASSUME NEW c \in Conns, ReadPiece(c) \/ Disconnect(c) PROVE ServerInv'
  <2>1. Changes(c)
    BY <1>1, ReadPieceKeeps, DisconnectKeeps
  <2>2. UNCHANGED <<storageVars, aborted, deleted, overlapped>>
    BY <1>1 DEF ReadPiece, Disconnect
  <2> QED
    BY <2>1, <2>2, ChangesKeep
<1>2. ASSUME UNCHANGED vars PROVE ServerInv'
  BY <1>2
     DEF ServerInv, TypeOK, StorageTypeOK, storageVars, SentInv, SposInv, IsOpen,
         DeletedInv, vars
<1> QED
  BY <1>1, <1>2, GetKeeps, AssertionFailsKeeps, DeleteKeeps DEF Next, Aborted

LEMMA ServerInvariant == Spec => []ServerInv
BY ServerInvInit, ServerInvStep, PTL DEF Spec

(***************************************************************************)
(* The variables of the server keep their types; what it opens is always a *)
(* sequence of frame numbers, whatever the times asked for.                *)
(***************************************************************************)
THEOREM TypeCorrect == Spec => []TypeOK
<1>1. ServerInv => TypeOK
  BY DEF ServerInv
<1> QED
  BY <1>1, ServerInvariant, PTL

(***************************************************************************)
(* A download that ends as complete has sent every frame it was opened     *)
(* for, wherever its pieces end and whatever is deleted between them.      *)
(***************************************************************************)
THEOREM CompleteWhole == Spec => []CompleteIsWhole
<1>1. ServerInv => CompleteIsWhole
  BY DEF ServerInv, SentInv, Sent, CompleteIsWhole
<1> QED
  BY <1>1, ServerInvariant, PTL

(***************************************************************************)
(* The assertion of stream_reader_callback can fail only after two         *)
(* downloads have been open at the same time.                              *)
(***************************************************************************)
THEOREM AbortOverlaps == Spec => []AbortNeedsOverlap
<1>1. ServerInv => AbortNeedsOverlap
  BY DEF ServerInv, SposInv, AbortNeedsOverlap
<1> QED
  BY <1>1, ServerInvariant, PTL

(***************************************************************************)
(* A stream whose deletion was answered Ok is never opened again.          *)
(***************************************************************************)
THEOREM DeletedGone == Spec => DeletedNotServed
<1>1. ServerInv /\ [Next]_vars =>
        [\A c \in Conns :
           conns'[c].state = "open" /\ conns[c].state # "open"
             => conns'[c].train \notin deleted]_vars
  <2> SUFFICES ASSUME ServerInv, Next, NEW c \in Conns,
                      conns'[c].state = "open", conns[c].state # "open"
               PROVE  conns'[c].train \notin deleted
    OBVIOUS
  <2>1. PICK e \in Conns : Get(e) \/ ReadPiece(e) \/ Disconnect(e)
    BY DEF Next, AssertionFails, Delete, Aborted, vars
  <2>2. CASE ReadPiece(e) \/ Disconnect(e)
    <3>1. Changes(e)
      BY <2>2, ReadPieceKeeps, DisconnectKeeps
    <3> QED
      BY <3>1 DEF Changes
  <2>3. CASE Get(e)
    <3>1. \/ UNCHANGED conns
          \/ \E arg \in Arguments, t \in indexed : OpenDownload(e, t, arg)
      BY <2>3 DEF Get, Found
    <3>2. PICK arg \in Arguments, t \in indexed : OpenDownload(e, t, arg)
      BY <3>1
    <3>3. conns \in [Conns -> Download]
      BY DEF ServerInv, TypeOK
    <3>4. conns'[c].train = t
      BY <3>2, <3>3 DEF OpenDownload
    <3> QED
      BY <3>4 DEF ServerInv, DeletedInv
  <2> QED
    BY <2>1, <2>2, <2>3
<1> QED
  BY <1>1, ServerInvariant, PTL DEF Spec, DeletedNotServed
-----------------------------------------------------------------------------
(* Induction over the natural numbers, from their well-foundedness *)
LEMMA NatSet ==
  ASSUME NEW S, 0 \in S, \A n \in Nat : n \in S => n + 1 \in S
  PROVE  Nat \subseteq S
<1> SUFFICES ASSUME Nat \ S # {} PROVE FALSE
  OBVIOUS
<1> DEFINE R == {ss \in Nat \X Nat : ss[1] < ss[2]}
           T == Nat \ S
<1>1. IsWellFoundedOn(R, Nat)
  BY NatLessThanWellFounded DEF OpToRel
<1>2. PICK n \in T : \A m \in T : ~(<<m, n>> \in R)
  <2> HIDE DEF R
  <2> QED BY <1>1, WFMin
<1>3. n # 0 /\ n - 1 \in Nat
  OBVIOUS
<1>4. n - 1 \in S
  <2> SUFFICES ASSUME n - 1 \in T PROVE FALSE
    BY <1>3
  <2>1. <<n - 1, n>> \in R
    BY <1>3
  <2> QED BY <1>2, <2>1
<1> QED
  BY <1>3, <1>4
-----------------------------------------------------------------------------
(* stream_find_frame *)

(* The rows of an index as lpx-control publishes them *)
InOrder(q) ==
  /\ \A i \in 1 .. Len(q) : q[i].start <= q[i].end
  /\ \A i \in 1 .. Len(q) - 1 : q[i].end <= q[i + 1].start

LEMMA RowTyped ==
  ASSUME NEW q \in Seq(Row), NEW i \in 1 .. Len(q)
  PROVE  q[i].start \in Nat /\ q[i].end \in Nat
<1>1. q[i] \in Row
  OBVIOUS
<1> QED
  BY <1>1 DEF Row

LEMMA StartsInOrder ==
  ASSUME NEW q \in Seq(Row), InOrder(q),
         NEW i \in 1 .. Len(q), NEW j \in 1 .. Len(q), i <= j
  PROVE  q[i].start <= q[j].start
<1> DEFINE S == {n \in Nat : i + n <= Len(q) => q[i].start <= q[i + n].start}
<1>1. Len(q) \in Nat /\ i \in Nat
  OBVIOUS
<1>2. 0 \in S
  <2>1. i + 0 = i /\ q[i].start <= q[i].start
    BY <1>1, RowTyped
  <2> QED BY <2>1
<1>3. ASSUME NEW n \in Nat, n \in S PROVE n + 1 \in S
  <2> SUFFICES ASSUME i + (n + 1) <= Len(q)
               PROVE  q[i].start <= q[i + (n + 1)].start
    OBVIOUS
  <2> DEFINE k == i + n
  <2>1. k \in 1 .. Len(q) - 1 /\ i + (n + 1) = k + 1 /\ q[i].start <= q[k].start
    BY <1>1, <1>3
  <2> HIDE DEF k
  <2>2. k \in 1 .. Len(q) /\ k + 1 \in 1 .. Len(q)
    BY <1>1, <2>1
  <2>3. q[k].start <= q[k].end /\ q[k].end <= q[k + 1].start
    BY <2>1, <2>2 DEF InOrder
  <2>4. /\ q[k].start \in Nat /\ q[k].end \in Nat /\ q[k + 1].start \in Nat
        /\ q[i].start \in Nat
    BY <2>2, RowTyped
  <2> QED BY <2>1, <2>3, <2>4, SMTT(30)
<1>4. Nat \subseteq S
  <2> HIDE DEF S
  <2> QED BY <1>2, <1>3, NatSet
<1>5. j - i \in Nat /\ i + (j - i) = j /\ j <= Len(q)
  BY <1>1
<1> QED
  BY <1>4, <1>5

(* How far the start of frame k is from a time of the stream *)
Away(q, k, x) == Abs(q[k + 1].start - q[1].start - x)
Stops(q, x) == {k \in 0 .. Len(q) - 2 : Away(q, k + 1, x) > Away(q, k, x)}
Within(q, x) == q[1].start + x < q[Len(q)].end

LEMMA FindFrameIs ==
  ASSUME NEW q \in Seq(Row), NEW x \in Nat
  PROVE  FindFrame(q, x) = IF Stops(q, x) # {} THEN Min(Stops(q, x))
                           ELSE IF Within(q, x) THEN Len(q) - 1 ELSE -1
<1>1. Stops(q, x) = {k \in 0 .. Len(q) - 2 :
                       Abs(q[k + 1 + 1].start - q[1].start - x)
                         > Abs(q[k + 1].start - q[1].start - x)}
  BY DEF Stops, Away
<1> QED
  BY <1>1 DEF FindFrame, Within

LEMMA StopsAre ==
  ASSUME NEW q \in Seq(Row), NEW x \in Nat, Stops(q, x) # {}
  PROVE  /\ Min(Stops(q, x)) \in Stops(q, x)
         /\ Min(Stops(q, x)) \in 0 .. Len(q) - 2
         /\ \A k \in Stops(q, x) : Min(Stops(q, x)) <= k
<1> DEFINE b == Len(q) - 2
           S == Stops(q, x)
<1>1. b \in Int /\ S \in SUBSET (0 .. b)
  BY DEF Stops
<1> HIDE DEF b, S
<1>2. S # {} => Min(S) \in S /\ \A k \in S : Min(S) <= k
  BY <1>1, MinIs
<1> QED
  BY <1>1, <1>2 DEF S, b

(* Numbers in the place of the starts of two frames and a time *)
LEMMA Farther ==
  ASSUME NEW a \in Nat, NEW b \in Nat, NEW t \in Nat, a <= b
  PROVE  /\ Abs(b - t) > Abs(a - t) <=> a < b /\ a + b > t + t
         /\ Abs(a - t) \in Nat /\ Abs(b - t) \in Nat
BY DEF Abs

LEMMA AwayIs ==
  ASSUME NEW q \in Seq(Row), InOrder(q), NEW x \in Nat,
         NEW k \in 0 .. Len(q) - 1
  PROVE  /\ q[k + 1].start \in Nat /\ q[1].start \in Nat
         /\ q[1].start + x \in Nat
         /\ Away(q, k, x) = Abs(q[k + 1].start - (q[1].start + x))
<1>1. k + 1 \in 1 .. Len(q) /\ 1 \in 1 .. Len(q)
  OBVIOUS
<1>2. q[k + 1].start \in Nat /\ q[1].start \in Nat
  BY <1>1, RowTyped
<1>3. q[k + 1].start - q[1].start - x = q[k + 1].start - (q[1].start + x)
  BY <1>2
<1> QED
  BY <1>2, <1>3 DEF Away

LEMMA StopIs ==
  ASSUME NEW q \in Seq(Row), InOrder(q), NEW x \in Nat,
         NEW k \in 0 .. Len(q) - 2
  PROVE  k \in Stops(q, x) <=>
           /\ q[k + 1].start < q[k + 2].start
           /\ q[k + 1].start + q[k + 2].start
                > (q[1].start + x) + (q[1].start + x)
<1> DEFINE l == k + 1
           t == q[1].start + x
<1>1. k \in 0 .. Len(q) - 1 /\ l \in 0 .. Len(q) - 1 /\ k + 2 = l + 1
  OBVIOUS
<1>2. k + 1 \in 1 .. Len(q) /\ k + 2 \in 1 .. Len(q) /\ k + 1 <= k + 2
  OBVIOUS
<1> HIDE DEF l
<1>3. /\ q[k + 1].start \in Nat /\ q[k + 2].start \in Nat /\ t \in Nat
      /\ Away(q, k, x) = Abs(q[k + 1].start - t)
      /\ Away(q, l, x) = Abs(q[k + 2].start - t)
  BY <1>1, AwayIs
<1>4. q[k + 1].start <= q[k + 2].start
  BY <1>2, StartsInOrder
<1> DEFINE a == q[k + 1].start
           b == q[k + 2].start
<1> HIDE DEF t, a, b
<1>5. Away(q, l, x) > Away(q, k, x) <=> a < b /\ a + b > t + t
  <2>1. a \in Nat /\ b \in Nat /\ t \in Nat /\ a <= b
    BY <1>3, <1>4 DEF a, b
  <2>2. Away(q, k, x) = Abs(a - t) /\ Away(q, l, x) = Abs(b - t)
    BY <1>3 DEF a, b
  <2>3. Abs(b - t) > Abs(a - t) <=> a < b /\ a + b > t + t
    BY <2>1, Farther
  <2> QED BY <2>2, <2>3
<1>6. k \in Stops(q, x) <=> Away(q, l, x) > Away(q, k, x)
  BY DEF Stops, l
<1> QED
  BY <1>5, <1>6 DEF a, b, t

(* As long as there is no stop, the distances do not grow. *)
LEMMA NoStop ==
  ASSUME NEW q \in Seq(Row), InOrder(q), NEW x \in Nat,
         NEW m \in 0 .. Len(q) - 1, \A k \in 0 .. m - 1 : k \notin Stops(q, x),
         NEW l \in 0 .. m
  PROVE  Away(q, m, x) <= Away(q, l, x)
<1> DEFINE S == {n \in Nat : l + n <= m => Away(q, l + n, x) <= Away(q, l, x)}
<1>1. ASSUME NEW k \in 0 .. m PROVE Away(q, k, x) \in Nat
  <2>1. k \in 0 .. Len(q) - 1
    OBVIOUS
  <2>2. /\ q[k + 1].start \in Nat /\ q[1].start + x \in Nat
        /\ Away(q, k, x) = Abs(q[k + 1].start - (q[1].start + x))
    BY <2>1, AwayIs
  <2> QED BY <2>2 DEF Abs
<1>2. 0 \in S
  <2>1. l + 0 = l /\ Away(q, l, x) <= Away(q, l, x)
    BY <1>1
  <2> QED BY <2>1
<1>3. ASSUME NEW n \in Nat, n \in S PROVE n + 1 \in S
  <2> SUFFICES ASSUME l + (n + 1) <= m
               PROVE  Away(q, l + (n + 1), x) <= Away(q, l, x)
    OBVIOUS
  <2> DEFINE k == l + n
  <2>1. k \in 0 .. m - 1 /\ l + (n + 1) = k + 1 /\ Away(q, k, x) <= Away(q, l, x)
    BY <1>3
  <2> HIDE DEF k
  <2>2. k \in 0 .. Len(q) - 2 /\ k \notin Stops(q, x)
    BY <2>1
  <2>3. ~(Away(q, k + 1, x) > Away(q, k, x))
    BY <2>2 DEF Stops
  <2>4. /\ Away(q, k, x) \in Nat /\ Away(q, k + 1, x) \in Nat
        /\ Away(q, l, x) \in Nat
    BY <1>1, <2>1
  <2> QED BY <2>1, <2>3, <2>4
<1>4. Nat \subseteq S
  <2> HIDE DEF S
  <2> QED BY <1>2, <1>3, NatSet
<1>5. m - l \in Nat /\ l + (m - l) = m
  OBVIOUS
<1> QED
  BY <1>4, <1>5

(* Behind a stop they are not smaller. *)
LEMMA BehindStop ==
  ASSUME NEW q \in Seq(Row), InOrder(q), NEW x \in Nat,
         NEW m \in Stops(q, x), NEW l \in m + 1 .. Len(q) - 1
  PROVE  Away(q, m, x) <= Away(q, l, x)
<1> DEFINE a == q[m + 1].start
           b == q[m + 2].start
           c == q[l + 1].start
           t == q[1].start + x
<1>1. m \in 0 .. Len(q) - 2
  BY DEF Stops
<1>2. /\ m \in 0 .. Len(q) - 1 /\ l \in 0 .. Len(q) - 1
      /\ m + 2 \in 1 .. Len(q) /\ l + 1 \in 1 .. Len(q) /\ m + 2 <= l + 1
  BY <1>1
<1>3. a < b /\ a + b > t + t
  BY <1>1, StopIs
<1>4. b <= c
  BY <1>2, StartsInOrder
<1>5. /\ a \in Nat /\ c \in Nat /\ t \in Nat
      /\ Away(q, m, x) = Abs(a - t) /\ Away(q, l, x) = Abs(c - t)
  BY <1>2, AwayIs
<1>6. b \in Nat
  BY <1>2, RowTyped
<1> HIDE DEF a, b, c, t
<1>7. a <= c /\ a < c /\ a + c > t + t
  BY <1>3, <1>4, <1>5, <1>6
<1>8. Abs(c - t) > Abs(a - t) /\ Abs(a - t) \in Nat /\ Abs(c - t) \in Nat
  BY <1>5, <1>7, Farther
<1> QED
  BY <1>5, <1>8

(* For a time within the stream the result is a nearest frame, ... *)
LEMMA FindFrameNearest ==
  ASSUME NEW q \in Seq(Row), q # <<>>, InOrder(q), NEW x \in Nat, Within(q, x)
  PROVE  /\ FindFrame(q, x) \in 0 .. Len(q) - 1
         /\ Nearest(q, FindFrame(q, x), x)
<1> DEFINE m == FindFrame(q, x)
<1>1. Len(q) \in Nat \ {0}
  BY EmptySeq
<1>2. m = IF Stops(q, x) # {} THEN Min(Stops(q, x)) ELSE Len(q) - 1
  BY FindFrameIs
<1> HIDE DEF m
<1>3. m \in 0 .. Len(q) - 1 /\ \A k \in 0 .. m - 1 : k \notin Stops(q, x)
  <2>1. CASE Stops(q, x) = {}
    BY <1>1, <1>2, <2>1
  <2>2. CASE Stops(q, x) # {}
    <3>1. /\ m \in 0 .. Len(q) - 2 /\ \A k \in Stops(q, x) : m <= k
      BY <1>2, <2>2, StopsAre
    <3> QED BY <1>1, <3>1
  <2> QED BY <2>1, <2>2
<1>4. ASSUME NEW l \in 0 .. Len(q) - 1
      PROVE  Away(q, m, x) <= Away(q, l, x)
  <2>1. CASE l \in 0 .. m
    BY <1>3, <2>1, NoStop
  <2>2. CASE l \in m + 1 .. Len(q) - 1
    <3>1. Stops(q, x) # {}
      BY <1>1, <1>2, <2>2
    <3>2. m \in Stops(q, x)
      BY <1>2, <3>1, StopsAre
    <3> QED BY <2>2, <3>2, BehindStop
  <2> QED BY <1>1, <1>3, <2>1, <2>2
<1>5. Nearest(q, m, x)
  BY <1>4 DEF Nearest, Away
<1> QED
  BY <1>3, <1>5 DEF m

(* ... and there is none for another. *)
LEMMA FindFrameBehind ==
  ASSUME NEW q \in Seq(Row), q # <<>>, InOrder(q), NEW x \in Nat, ~Within(q, x)
  PROVE  FindFrame(q, x) = -1
<1>1. Len(q) \in Nat \ {0}
  BY EmptySeq
<1>2. ASSUME NEW k \in Stops(q, x) PROVE FALSE
  <2> DEFINE a == q[k + 1].start
             b == q[k + 2].start
             c == q[Len(q)].start
             e == q[Len(q)].end
             t == q[1].start + x
  <2>1. k \in 0 .. Len(q) - 2
    BY DEF Stops
  <2>2. /\ k + 1 \in 1 .. Len(q) /\ k + 2 \in 1 .. Len(q)
        /\ Len(q) \in 1 .. Len(q) /\ k + 2 <= Len(q) /\ 1 \in 1 .. Len(q)
    BY <1>1, <2>1
  <2>3. a < b /\ a + b > t + t
    BY <2>1, StopIs
  <2>4. b <= c
    BY <2>2, StartsInOrder
  <2>5. c <= e
    BY <2>2 DEF InOrder
  <2>6. a \in Nat /\ b \in Nat /\ c \in Nat /\ e \in Nat /\ t \in Nat
    BY <2>2, RowTyped
  <2>7. ~(t < e)
    BY DEF Within
  <2> HIDE DEF a, b, c, e, t
  <2> QED BY <2>3, <2>4, <2>5, <2>6, <2>7
<1>3. Stops(q, x) = {}
  BY <1>2
<1> QED
  BY <1>3, FindFrameIs

(* A later time has no earlier frame. *)
LEMMA FindFrameMonotone ==
  ASSUME NEW q \in Seq(Row), q # <<>>, InOrder(q),
         NEW x \in Nat, NEW y \in Nat, x <= y, Within(q, x), Within(q, y)
  PROVE  FindFrame(q, x) <= FindFrame(q, y)
<1>1. /\ FindFrame(q, x) \in 0 .. Len(q) - 1
      /\ FindFrame(q, y) \in 0 .. Len(q) - 1
  BY FindFrameNearest
<1>2. CASE Stops(q, y) = {}
  <2>1. FindFrame(q, y) = Len(q) - 1
    BY <1>2, FindFrameIs
  <2> QED BY <1>1, <2>1
<1>3. CASE Stops(q, y) # {}
  <2>1. FindFrame(q, y) \in Stops(q, y)
    BY <1>3, FindFrameIs, StopsAre
  <2> DEFINE k == FindFrame(q, y)
             a == q[k + 1].start
             b == q[k + 2].start
             z == q[1].start
  <2>2. k \in 0 .. Len(q) - 2
    BY <2>1 DEF Stops
  <2> HIDE DEF k
  <2>3. a < b /\ a + b > (z + y) + (z + y)
    BY <2>1, <2>2, StopIs DEF k
  <2>4. k + 1 \in 1 .. Len(q) /\ k + 2 \in 1 .. Len(q) /\ 1 \in 1 .. Len(q)
    BY <2>2
  <2>5. a \in Nat /\ b \in Nat /\ z \in Nat
    BY <2>4, RowTyped
  <2>6. a < b /\ a + b > (z + x) + (z + x)
    <3> HIDE DEF a, b, z
    <3> QED BY <2>3, <2>5
  <2>7. k \in Stops(q, x)
    BY <2>2, <2>6, StopIs
  <2>8. FindFrame(q, x) = Min(Stops(q, x)) /\ Min(Stops(q, x)) <= k
    BY <2>7, FindFrameIs, StopsAre
  <2> QED BY <2>8 DEF k
<1> QED
  BY <1>2, <1>3
-----------------------------------------------------------------------------
(* The order of the times asked for *)

(* There is a way to sort n times. *)
Sorts(p, n, times) ==
  /\ p \in [1 .. n -> 1 .. n]
  /\ \A i, j \in 1 .. n : p[i] = p[j] => i = j
  /\ \A t \in 1 .. n : \E i \in 1 .. n : p[i] = t
  /\ \A i, j \in 1 .. n : i < j => times[p[i]] <= times[p[j]]

Sortable(n) == \A times \in [1 .. n -> Nat] : \E p : Sorts(p, n, times)

(* One more time is put behind those that are not later. *)
LEMMA OneMoreSorted ==
  ASSUME NEW n \in Nat, Sortable(n) PROVE Sortable(n + 1)
<1> SUFFICES ASSUME NEW times \in [1 .. n + 1 -> Nat]
             PROVE  \E r : Sorts(r, n + 1, times)
  BY DEF Sortable
<1> DEFINE first == [j \in 1 .. n |-> times[j]]
           x == times[n + 1]
<1>1. first \in [1 .. n -> Nat] /\ x \in Nat
  OBVIOUS
<1>2. PICK p : Sorts(p, n, first)
  BY <1>1 DEF Sortable
<1> DEFINE v == [j \in 1 .. n |-> times[p[j]]]
<1>3. /\ p \in [1 .. n -> 1 .. n]
      /\ \A i, j \in 1 .. n : p[i] = p[j] => i = j
      /\ \A t \in 1 .. n : \E i \in 1 .. n : p[i] = t
      /\ \A i, j \in 1 .. n : i < j => first[p[i]] <= first[p[j]]
  BY <1>2 DEF Sorts
<1>4. \A j \in 1 .. n : p[j] \in 1 .. n /\ first[p[j]] = v[j] /\ v[j] \in Nat
  <2> TAKE j \in 1 .. n
  <2>1. p[j] \in 1 .. n
    BY <1>3
  <2>2. p[j] \in 1 .. n + 1 /\ first[p[j]] = times[p[j]] /\ v[j] = times[p[j]]
    BY <2>1
  <2> QED BY <2>1, <2>2
<1>5. \A i, j \in 1 .. n : i < j => v[i] <= v[j]
  <2> TAKE i, j \in 1 .. n
  <2> HIDE DEF first, v
  <2> QED BY <1>3, <1>4
<1> HIDE DEF first, v, x
<1>6. PICK q \in 1 .. n + 1 :
         /\ \A j \in 1 .. n : j < q => v[j] <= x
         /\ \A j \in 1 .. n : q <= j => x <= v[j]
  <2> DEFINE D == {j \in 1 .. n : x < v[j]}
             m == Min(D)
  <2>1. CASE D = {}
    <3>1. \A j \in 1 .. n : v[j] <= x
      <4> TAKE j \in 1 .. n
      <4>1. v[j] \in Nat /\ ~(x < v[j])
        BY <1>4, <2>1
      <4> QED BY <1>1, <4>1
    <3>2. n + 1 \in 1 .. n + 1 /\ \A j \in 1 .. n : ~(n + 1 <= j)
      OBVIOUS
    <3> QED BY <3>1, <3>2
  <2>2. CASE D # {}
    <3>1. D \in SUBSET (0 .. n) /\ n \in Int
      OBVIOUS
    <3>2. m \in D /\ \A j \in D : m <= j
      <4> HIDE DEF D
      <4> QED BY <2>2, <3>1, MinIs
    <3> HIDE DEF m
    <3>3. m \in 1 .. n /\ m \in 1 .. n + 1 /\ x < v[m]
      BY <3>2
    <3>4. \A j \in 1 .. n : j < m => v[j] <= x
      BY <1>1, <1>4, <3>2, <3>3, SMTT(30)
    <3>5. \A j \in 1 .. n : m <= j => x <= v[j]
      <4> TAKE j \in 1 .. n
      <4> HAVE m <= j
      <4>1. v[m] \in Nat /\ v[j] \in Nat /\ x \in Nat /\ x < v[m]
        BY <1>1, <1>4, <3>3
      <4>2. CASE m = j
        BY <4>1, <4>2
      <4>3. CASE m < j
        <5>1. v[m] <= v[j]
          BY <1>5, <3>3, <4>3
        <5> QED BY <4>1, <5>1
      <4> QED BY <3>3, <4>2, <4>3
    <3> QED BY <3>3, <3>4, <3>5
  <2> QED BY <2>1, <2>2
<1> DEFINE r == [j \in 1 .. n + 1 |->
                   IF j < q THEN p[j] ELSE IF j = q THEN n + 1 ELSE p[j - 1]]
<1>7. ASSUME NEW j \in 1 .. n + 1, j < q
      PROVE  j \in 1 .. n /\ r[j] = p[j] /\ r[j] \in 1 .. n
  <2>1. j \in 1 .. n
    BY <1>7
  <2>2. r[j] = p[j]
    BY <1>7
  <2> HIDE DEF r
  <2> QED BY <1>4, <2>1, <2>2
<1>8. r[q] = n + 1
  OBVIOUS
<1>9. ASSUME NEW j \in 1 .. n + 1, j > q
      PROVE  /\ j - 1 \in 1 .. n /\ q <= j - 1
             /\ r[j] = p[j - 1] /\ r[j] \in 1 .. n
  <2>1. j - 1 \in 1 .. n /\ q <= j - 1
    BY <1>9
  <2>2. r[j] = p[j - 1]
    BY <1>9
  <2> HIDE DEF r
  <2> QED BY <1>4, <2>1, <2>2
<1>10. r \in [1 .. n + 1 -> 1 .. n + 1]
  <2>1. ASSUME NEW j \in 1 .. n + 1 PROVE r[j] \in 1 .. n + 1
    <3> HIDE DEF r
    <3>1. j < q \/ j = q \/ j > q
      OBVIOUS
    <3>2. r[j] \in 1 .. n \/ r[j] = n + 1
      BY <1>7, <1>8, <1>9, <3>1
    <3> QED BY <3>2
  <2>2. r = [j \in 1 .. n + 1 |-> r[j]]
    OBVIOUS
  <2> HIDE DEF r
  <2> QED BY <2>1, <2>2
<1> HIDE DEF r
<1>11. ASSUME NEW i \in 1 .. n + 1, NEW j \in 1 .. n + 1, i < j
       PROVE  r[i] # r[j] /\ times[r[i]] <= times[r[j]]
  <2>1. CASE j < q
    <3>1. /\ i \in 1 .. n /\ r[i] = p[i] /\ j \in 1 .. n /\ r[j] = p[j]
      BY <1>7, <1>11, <2>1
    <3>2. v[i] <= v[j]
      BY <1>5, <1>11, <3>1
    <3>3. p[i] # p[j]
      BY <1>3, <1>11, <3>1
    <3> QED BY <3>1, <3>2, <3>3 DEF v
  <2>2. CASE j = q
    <3>1. i \in 1 .. n /\ r[i] = p[i] /\ r[i] \in 1 .. n /\ r[j] = n + 1
      BY <1>7, <1>8, <1>11, <2>2
    <3>2. v[i] <= x
      BY <1>6, <1>11, <2>2, <3>1
    <3> QED BY <3>1, <3>2 DEF v, x
  <2>3. CASE i = q
    <3>1. /\ j - 1 \in 1 .. n /\ q <= j - 1 /\ r[j] = p[j - 1]
          /\ r[j] \in 1 .. n /\ r[i] = n + 1
      BY <1>8, <1>9, <1>11, <2>3
    <3>2. x <= v[j - 1]
      BY <1>6, <3>1
    <3> QED BY <3>1, <3>2 DEF v, x
  <2>4. CASE i < q /\ j > q
    <3>1. /\ i \in 1 .. n /\ r[i] = p[i] /\ j - 1 \in 1 .. n /\ r[j] = p[j - 1]
          /\ i < j - 1
      BY <1>7, <1>9, <2>4
    <3>2. v[i] <= v[j - 1]
      BY <1>5, <3>1
    <3>3. p[i] # p[j - 1]
      BY <1>3, <3>1
    <3> QED BY <3>1, <3>2, <3>3 DEF v
  <2>5. CASE i > q
    <3>1. /\ i - 1 \in 1 .. n /\ r[i] = p[i - 1] /\ j - 1 \in 1 .. n
          /\ r[j] = p[j - 1] /\ i - 1 < j - 1
      BY <1>9, <1>11, <2>5
    <3>2. v[i - 1] <= v[j - 1] /\ r[i] # r[j]
      BY <1>3, <1>5, <3>1
    <3> QED BY <3>1, <3>2 DEF v
  <2> QED BY <1>11, <2>1, <2>2, <2>3, <2>4, <2>5
<1>12. \A i, j \in 1 .. n + 1 : r[i] = r[j] => i = j
  <2> SUFFICES ASSUME NEW i \in 1 .. n + 1, NEW j \in 1 .. n + 1,
                      r[i] = r[j], i # j
               PROVE  FALSE
    OBVIOUS
  <2>1. i < j \/ j < i
    OBVIOUS
  <2> QED BY <1>11, <2>1
<1>13. \A t \in 1 .. n + 1 : \E i \in 1 .. n + 1 : r[i] = t
  <2> TAKE t \in 1 .. n + 1
  <2>1. CASE t = n + 1
    BY <1>8, <2>1
  <2>2. CASE t # n + 1
    <3>1. t \in 1 .. n
      BY <2>2
    <3>2. PICK i \in 1 .. n : p[i] = t
      BY <1>3, <3>1
    <3>3. CASE i < q
      <4>1. i \in 1 .. n + 1
        OBVIOUS
      <4> QED BY <1>7, <3>2, <3>3, <4>1
    <3>4. CASE i >= q
      <4> DEFINE k == i + 1
      <4>1. k \in 1 .. n + 1 /\ k > q /\ k - 1 = i
        BY <3>4
      <4> HIDE DEF k
      <4> QED BY <1>9, <3>2, <4>1
    <3> QED BY <3>3, <3>4
  <2> QED BY <2>1, <2>2
<1>14. \A i, j \in 1 .. n + 1 : i < j => times[r[i]] <= times[r[j]]
  BY <1>11
<1> QED
  BY <1>10, <1>12, <1>13, <1>14 DEF Sorts

LEMMA AllSortable == \A n \in Nat : Sortable(n)
<1> DEFINE S == {n \in Nat : Sortable(n)}
<1>1. 0 \in S
  <2>1. ASSUME NEW times PROVE Sorts([i \in 1 .. 0 |-> i], 0, times)
    BY DEF Sorts
  <2> QED BY <2>1 DEF Sortable
<1>2. ASSUME NEW n \in Nat, n \in S PROVE n + 1 \in S
  BY <1>2, OneMoreSorted
<1> HIDE DEF S
<1>3. Nat \subseteq S
  BY <1>1, <1>2, NatSet
<1> QED
  BY <1>3 DEF S

LEMMA SortedTimesIs ==
  ASSUME NEW times \in Seq(Int), \A j \in 1 .. Len(times) : times[j] >= 0
  PROVE  \E p : /\ Sorts(p, Len(times), times)
                /\ SortedTimes(times) = [j \in 1 .. Len(times) |-> times[p[j]]]
<1> DEFINE n == Len(times)
           places == 1 .. n
           good(p) == \A i, j \in places :
                        i < j => ~UnsignedLess(times[p[j]], times[p[i]])
           order == CHOOSE p \in Bijection(places, places) : good(p)
<1>1. n \in Nat /\ times \in [places -> Nat]
  OBVIOUS
<1>2. \A i, j \in places : UnsignedLess(times[i], times[j]) <=> times[i] < times[j]
  BY <1>1 DEF UnsignedLess
<1>3. \E p \in Bijection(places, places) : good(p)
  <2>1. PICK p : Sorts(p, n, times)
    BY <1>1, AllSortable DEF Sortable
  <2>2. p \in Bijection(places, places)
    BY <2>1 DEF Sorts, Bijection, Injection, Surjection, IsInjective
  <2>3. good(p)
    <3> TAKE i, j \in places
    <3> HAVE i < j
    <3>1. p[i] \in places /\ p[j] \in places /\ times[p[i]] <= times[p[j]]
      BY <2>1 DEF Sorts
    <3> QED BY <1>1, <1>2, <3>1
  <2> HIDE DEF good
  <2> QED BY <2>2, <2>3
<1>4. order \in Bijection(places, places) /\ good(order)
  <2> HIDE DEF good
  <2> QED BY <1>3
<1>5. SortedTimes(times) = [j \in places |-> times[order[j]]]
  BY DEF SortedTimes
<1> HIDE DEF order
<1>6. /\ order \in [places -> places]
      /\ \A i, j \in places : order[i] = order[j] => i = j
      /\ \A t \in places : \E i \in places : order[i] = t
  BY <1>4 DEF Bijection, Injection, Surjection, IsInjective
<1>7. \A i, j \in places : i < j => times[order[i]] <= times[order[j]]
  <2> TAKE i, j \in places
  <2> HAVE i < j
  <2>1. order[i] \in places /\ order[j] \in places
    BY <1>6
  <2>2. times[order[i]] \in Nat /\ times[order[j]] \in Nat
    BY <1>1, <2>1
  <2>3. ~(times[order[j]] < times[order[i]])
    BY <1>2, <1>4, <2>1
  <2> QED BY <2>2, <2>3
<1> QED
  BY <1>5, <1>6, <1>7 DEF Sorts
-----------------------------------------------------------------------------
(* The frames of a download by times *)

LEMMA UntilBehindIs ==
  ASSUME NEW q \in Seq(Nat \cup {-1}),
         \A i, j \in 1 .. Len(q) : i < j /\ q[i] = -1 => q[j] = -1
  PROVE  \E m \in 0 .. Len(q) :
           /\ UntilBehind(q) \in Seq(Nat) /\ Len(UntilBehind(q)) = m
           /\ \A j \in 1 .. m : UntilBehind(q)[j] = q[j] /\ q[j] # -1
           /\ \A j \in m + 1 .. Len(q) : q[j] = -1
<1> DEFINE behind == {j \in 1 .. Len(q) : q[j] = -1}
<1>1. UntilBehind(q) \in Seq(Nat) /\ Len(q) \in Nat
  BY UntilBehindTyped
<1>2. CASE behind = {}
  <2>1. UntilBehind(q) = q
    BY <1>2 DEF UntilBehind
  <2>2. \A j \in 1 .. Len(q) : q[j] # -1
    BY <1>2
  <2>3. Len(q) \in 0 .. Len(q) /\ Len(q) + 1 .. Len(q) = {}
    BY <1>1
  <2> QED BY <1>1, <2>1, <2>2, <2>3
<1>3. CASE behind # {}
  <2> DEFINE m == Min(behind)
  <2>1. behind \in SUBSET (0 .. Len(q)) /\ Len(q) \in Int
    OBVIOUS
  <2>2. m \in behind /\ \A j \in behind : m <= j
    <3> HIDE DEF behind
    <3> QED BY <1>3, <2>1, MinIs
  <2>3. UntilBehind(q) = SubSeq(q, 1, m - 1)
    BY <1>3 DEF UntilBehind
  <2> HIDE DEF m
  <2>4. m \in 1 .. Len(q) /\ q[m] = -1
    BY <2>2
  <2>5. \A j \in 1 .. m - 1 : q[j] # -1
    BY <2>2, <2>4
  <2>6. \A j \in m .. Len(q) : q[j] = -1
    BY <2>4
  <2> DEFINE u == SubSeq(q, 1, m - 1)
  <2>7. Len(u) = m - 1 /\ \A j \in 1 .. m - 1 : u[j] = q[j]
    BY <2>4
  <2> HIDE DEF u
  <2> DEFINE l == m - 1
  <2>8. l \in 0 .. Len(q) /\ l + 1 = m
    BY <2>4
  <2>9. UntilBehind(q) = u
    BY <2>3 DEF u
  <2> HIDE DEF l
  <2>10. /\ Len(u) = l /\ \A j \in 1 .. l : u[j] = q[j] /\ q[j] # -1
         /\ \A j \in l + 1 .. Len(q) : q[j] = -1
    BY <2>5, <2>6, <2>7, <2>8 DEF l
  <2> QED BY <1>1, <2>8, <2>9, <2>10
<1> QED
  BY <1>2, <1>3

(* What FramesAreThoseAskedFor says of one download *)
AskedFor(q, times, frames) ==
  LET within == {j \in 1 .. Len(times) : Within(q, times[j])}
  IN  /\ Len(frames) = Cardinality(within)
      /\ \A j \in within : \E p \in 1 .. Len(frames) :
           Nearest(q, frames[p], times[j])
      /\ \A p \in 2 .. Len(frames) : frames[p - 1] <= frames[p]

LEMMA FramesAtAskedFor ==
  ASSUME NEW q \in Seq(Row), q # <<>>, InOrder(q),
         NEW times \in Seq(Int), \A j \in 1 .. Len(times) : times[j] >= 0
  PROVE  AskedFor(q, times, FramesAt(q, SortedTimes(times)))
<1> DEFINE n == Len(times)
           sorted == SortedTimes(times)
           found == [j \in 1 .. Len(sorted) |-> FindFrame(q, sorted[j])]
           frames == FramesAt(q, sorted)
           within == {j \in 1 .. n : Within(q, times[j])}
<1>1. PICK o : Sorts(o, n, times) /\ sorted = [j \in 1 .. n |-> times[o[j]]]
  BY SortedTimesIs
<1>2. n \in Nat /\ \A j \in 1 .. n : times[j] \in Nat
  OBVIOUS
<1>3. /\ o \in [1 .. n -> 1 .. n]
      /\ \A i, j \in 1 .. n : o[i] = o[j] => i = j
      /\ \A t \in 1 .. n : \E i \in 1 .. n : o[i] = t
      /\ \A i, j \in 1 .. n : i < j => times[o[i]] <= times[o[j]]
  BY <1>1 DEF Sorts
<1>4. /\ Len(sorted) = n
      /\ \A j \in 1 .. n : sorted[j] = times[o[j]] /\ sorted[j] \in Nat
  <2>1. Len(sorted) = n
    BY <1>1, <1>2
  <2>2. \A j \in 1 .. n : sorted[j] = times[o[j]] /\ o[j] \in 1 .. n
    BY <1>1, <1>3
  <2> HIDE DEF sorted, n
  <2> QED BY <1>2, <2>1, <2>2
<1>5. \A i, j \in 1 .. n : i < j => sorted[i] <= sorted[j]
  <2> TAKE i, j \in 1 .. n
  <2> HIDE DEF sorted, n
  <2> QED BY <1>3, <1>4, ZenonT(40)
<1>6. /\ found = [j \in 1 .. n |-> FindFrame(q, sorted[j])]
      /\ frames = UntilBehind(found)
  BY <1>4 DEF FramesAt
<1> HIDE DEF n, sorted, found, frames, within
<1>7. \A j \in 1 .. n :
        /\ Within(q, sorted[j]) => found[j] \in 0 .. Len(q) - 1
        /\ ~Within(q, sorted[j]) => found[j] = -1
  <2> TAKE j \in 1 .. n
  <2>1. found[j] = FindFrame(q, sorted[j]) /\ sorted[j] \in Nat
    BY <1>4, <1>6
  <2> QED BY <2>1, FindFrameNearest, FindFrameBehind
<1>8. found \in Seq(Nat \cup {-1}) /\ Len(found) = n
  <2>1. \A j \in 1 .. n : found[j] \in Nat \cup {-1}
    BY <1>7
  <2>2. found \in [1 .. n -> Nat \cup {-1}]
    BY <1>6, <2>1
  <2> QED BY <1>2, <2>2
<1>9. \A i, j \in 1 .. n : i < j /\ Within(q, sorted[j]) => Within(q, sorted[i])
  <2> TAKE i, j \in 1 .. n
  <2> HAVE i < j /\ Within(q, sorted[j])
  <2>1. /\ sorted[i] \in Nat /\ sorted[j] \in Nat /\ sorted[i] <= sorted[j]
    BY <1>4, <1>5
  <2>2. q[1].start \in Nat /\ q[Len(q)].end \in Nat
    <3>1. Len(q) \in Nat \ {0}
      BY EmptySeq
    <3>2. 1 \in 1 .. Len(q) /\ Len(q) \in 1 .. Len(q)
      BY <3>1
    <3> QED BY <3>2, RowTyped
  <2> QED BY <2>1, <2>2 DEF Within
<1>10. \A i, j \in 1 .. Len(found) : i < j /\ found[i] = -1 => found[j] = -1
  <2> TAKE i, j \in 1 .. Len(found)
  <2> HAVE i < j /\ found[i] = -1
  <2>1. ~Within(q, sorted[i])
    BY <1>7, <1>8
  <2> QED BY <1>7, <1>8, <1>9, <2>1
<1>11. PICK m \in 0 .. n :
         /\ frames \in Seq(Nat) /\ Len(frames) = m
         /\ \A j \in 1 .. m : frames[j] = found[j] /\ found[j] # -1
         /\ \A j \in m + 1 .. n : found[j] = -1
  <2>1. PICK m \in 0 .. Len(found) :
          /\ UntilBehind(found) \in Seq(Nat) /\ Len(UntilBehind(found)) = m
          /\ \A j \in 1 .. m : UntilBehind(found)[j] = found[j] /\ found[j] # -1
          /\ \A j \in m + 1 .. Len(found) : found[j] = -1
    BY <1>8, <1>10, UntilBehindIs
  <2> QED BY <1>6, <1>8, <2>1
<1>12. \A j \in 1 .. n : Within(q, sorted[j]) <=> j \in 1 .. m
  <2> TAKE j \in 1 .. n
  <2>1. CASE j <= m
    <3>1. j \in 1 .. m
      BY <2>1
    <3> QED BY <1>7, <1>11, <3>1
  <2>2. CASE j > m
    <3>1. j \in m + 1 .. n /\ j \notin 1 .. m
      BY <1>2, <2>2
    <3>2. found[j] = -1
      BY <1>11, <3>1
    <3> QED BY <1>7, <3>1, <3>2
  <2> QED BY <1>2, <2>1, <2>2
<1>13. Cardinality(within) = m
  <2> DEFINE b == [j \in 1 .. m |-> o[j]]
  <2>1. \A j \in 1 .. m : j \in 1 .. n
    BY <1>2
  <2>2. \A j \in 1 .. m : b[j] \in within
    <3> TAKE j \in 1 .. m
    <3>1. b[j] = o[j] /\ o[j] \in 1 .. n /\ Within(q, times[o[j]])
      BY <1>3, <1>4, <1>12, <2>1
    <3> QED BY <3>1 DEF within
  <2>3. \A i, j \in 1 .. m : b[i] = b[j] => i = j
    BY <1>3, <2>1
  <2>4. \A t \in within : \E i \in 1 .. m : b[i] = t
    <3> TAKE t \in within
    <3>1. t \in 1 .. n /\ Within(q, times[t])
      BY DEF within
    <3>2. PICK i \in 1 .. n : o[i] = t
      BY <1>3, <3>1
    <3>3. i \in 1 .. m
      BY <1>4, <1>12, <3>1, <3>2
    <3> QED BY <3>2, <3>3
  <2>5. b \in [1 .. m -> within]
    BY <2>2
  <2> HIDE DEF b
  <2>6. b \in Bijection(1 .. m, within)
    BY <2>3, <2>4, <2>5 DEF Bijection, Injection, Surjection, IsInjective
  <2>7. ExistsBijection(1 .. m, within)
    BY <2>6 DEF ExistsBijection
  <2> QED BY <2>7, FS_CountingElements
<1>14. ASSUME NEW t \in within
       PROVE  \E p \in 1 .. Len(frames) : Nearest(q, frames[p], times[t])
  <2>1. t \in 1 .. n /\ Within(q, times[t])
    BY DEF within
  <2>2. PICK p \in 1 .. n : o[p] = t
    BY <1>3, <2>1
  <2>3. sorted[p] = times[t] /\ sorted[p] \in Nat
    BY <1>4, <2>2
  <2>4. p \in 1 .. m
    BY <1>12, <2>1, <2>2, <2>3
  <2>5. frames[p] = FindFrame(q, times[t])
    BY <1>6, <1>11, <2>2, <2>3, <2>4
  <2> QED BY <1>11, <2>1, <2>3, <2>4, <2>5, FindFrameNearest
<1>15. ASSUME NEW p \in 2 .. Len(frames) PROVE frames[p - 1] <= frames[p]
  <2> DEFINE l == p - 1
  <2>1. l \in 1 .. m /\ p \in 1 .. m /\ l \in 1 .. n /\ p \in 1 .. n /\ l < p
    BY <1>2, <1>11
  <2> HIDE DEF l
  <2>2. /\ frames[l] = FindFrame(q, sorted[l])
        /\ frames[p] = FindFrame(q, sorted[p])
    BY <1>6, <1>11, <2>1
  <2>3. /\ sorted[l] \in Nat /\ sorted[p] \in Nat /\ sorted[l] <= sorted[p]
        /\ Within(q, sorted[l]) /\ Within(q, sorted[p])
    BY <1>4, <1>5, <1>12, <2>1
  <2>4. frames[l] <= frames[p]
    BY <2>2, <2>3, FindFrameMonotone
  <2> QED BY <2>4 DEF l
<1> QED
  BY <1>11, <1>13, <1>14, <1>15 DEF AskedFor, within, n, frames, sorted
-----------------------------------------------------------------------------
(* The frames of the downloads *)

(* An index that has not been deleted is as it was stored, and a download
   keeps the frames it was opened for. *)
IndexKept == \A t \in indexed : index[t] = Stored[t]

Chosen(d) ==
  d.state # "none" =>
    d.train \in TrainIds /\ d.frames = FramesFor(Stored[d.train], d.argument)

ChosenInv == \A c \in Conns : Chosen(conns[c])

LEMMA ChosenInit == Init => IndexKept /\ ChosenInv
<1> SUFFICES ASSUME Init PROVE IndexKept /\ ChosenInv
  OBVIOUS
<1>1. NoDownload.state = "none"
  BY DEF NoDownload
<1> QED
  BY <1>1 DEF Init, IndexKept, ChosenInv, Chosen

(* A step at an open download, of which nothing but this matters here *)
LEMMA Continued ==
  ASSUME ServerInv, NEW c \in Conns, ReadPiece(c) \/ Disconnect(c)
  PROVE  /\ \A e \in Conns \ {c} : conns'[e] = conns[e]
         /\ \/ conns'[c] = NoDownload
            \/ /\ conns[c].state # "none"
               /\ conns'[c].train = conns[c].train
               /\ conns'[c].argument = conns[c].argument
               /\ conns'[c].frames = conns[c].frames
<1>1. conns \in [Conns -> Download] /\ conns[c].state = "open"
  BY DEF ServerInv, TypeOK, ReadPiece, Disconnect
<1>2. conns[c] \in Download
  BY <1>1
<1>3. CASE Disconnect(c)
  BY <1>1, <1>3 DEF Disconnect
<1>4. CASE ReadPiece(c)
  <2>1. PICK max \in ReadSizes :
          LET d == conns[c]
              n == Min({max, Total(d) - d.pos})
          IN  \/ conns' = [conns EXCEPT ![c] = Completed(d)]
              \/ conns' = [conns EXCEPT ![c] = Advanced(d, n)]
              \/ conns' = [conns EXCEPT ![c] = NoDownload]
    BY <1>4 DEF ReadPiece, Completed, Advanced, Added, MissingFile
  <2> DEFINE d == conns[c]
             n == Min({max, Total(d) - d.pos})
             new == conns'[c]
  <2>2. /\ \A e \in Conns \ {c} : conns'[e] = conns[e]
        /\ new = Completed(d) \/ new = Advanced(d, n) \/ new = NoDownload
    BY <1>1, <2>1
  <2>3. /\ Completed(d).train = d.train /\ Completed(d).argument = d.argument
        /\ Completed(d).frames = d.frames
    BY <1>2 DEF Completed, Download
  <2>4. /\ Advanced(d, n).train = d.train
        /\ Advanced(d, n).argument = d.argument
        /\ Advanced(d, n).frames = d.frames
    <3> HIDE DEF n
    <3> QED BY <1>2 DEF Advanced, Download
  <2> QED BY <1>1, <2>2, <2>3, <2>4
<1> QED
  BY <1>3, <1>4

LEMMA ChosenStep ==
  ASSUME ServerInv, IndexKept, ChosenInv, [Next]_vars
  PROVE  IndexKept' /\ ChosenInv'
<1>1. CASE UNCHANGED <<storageVars, conns>>
  BY <1>1 DEF IndexKept, ChosenInv, Chosen, storageVars
<1>2. ASSUME NEW c \in Conns, ReadPiece(c) \/ Disconnect(c)
      PROVE  IndexKept' /\ ChosenInv'
  <2>1. UNCHANGED storageVars
    BY <1>2 DEF ReadPiece, Disconnect
  <2>2. NoDownload.state = "none"
    BY DEF NoDownload
  <2>3. \A e \in Conns : Chosen(conns'[e])
    BY <1>2, <2>2, Continued DEF ChosenInv, Chosen
  <2> QED BY <2>1, <2>3 DEF IndexKept, ChosenInv, Chosen, storageVars
<1>3. ASSUME NEW c \in Conns, Get(c), ~UNCHANGED conns
      PROVE  IndexKept' /\ ChosenInv'
  <2>1. UNCHANGED storageVars
    BY <1>3 DEF Get
  <2>2. PICK arg \in Arguments, t \in indexed : OpenDownload(c, t, arg)
    BY <1>3 DEF Get, Found
  <2>3. t \in TrainIds /\ conns \in [Conns -> Download] /\ index[t] = Stored[t]
    BY DEF ServerInv, TypeOK, StorageTypeOK, IndexKept
  <2> DEFINE d == [state |-> "open", train |-> t, argument |-> arg,
                   frames |-> FramesFor(index[t], arg), pos |-> 0, got |-> <<>>]
  <2>4. conns'[c] = d /\ \A e \in Conns \ {c} : conns'[e] = conns[e]
    BY <2>2, <2>3 DEF OpenDownload
  <2>5. Chosen(d)
    BY <2>3 DEF Chosen
  <2> HIDE DEF d
  <2>6. \A e \in Conns : Chosen(conns'[e])
    BY <2>4, <2>5 DEF ChosenInv
  <2> QED BY <2>1, <2>6 DEF IndexKept, ChosenInv, Chosen, storageVars
<1>4. CASE Delete
  <2>1. UNCHANGED conns
    BY <1>4 DEF Delete
  <2>2. PICK t \in indexed : \E left, res : DeleteStream(t, left, res)
    BY <1>4 DEF Delete, Found
  <2>3. \E left :
        /\ indexed' = IF INDEX_CSV \in left THEN indexed ELSE indexed \ {t}
        /\ index' = [index EXCEPT ![t] = IF INDEX_CSV \in left THEN @ ELSE <<>>]
    BY <2>2 DEF DeleteStream
  <2>4. index \in [TrainIds -> Seq(Row)] /\ indexed \subseteq TrainIds
    BY DEF ServerInv, TypeOK, StorageTypeOK
  <2>5. IndexKept'
    BY <2>3, <2>4 DEF IndexKept
  <2> QED BY <2>1, <2>5 DEF ChosenInv, Chosen
<1>5. ASSUME NEW c \in Conns, AssertionFails(c) PROVE UNCHANGED <<storageVars, conns>>
  BY <1>5 DEF AssertionFails
<1>6. CASE UNCHANGED vars
  BY <1>1, <1>6 DEF vars
<1>7. ASSUME NEW c \in Conns, Get(c), UNCHANGED conns
      PROVE  UNCHANGED <<storageVars, conns>>
  BY <1>7 DEF Get
<1> QED
  BY <1>1, <1>2, <1>3, <1>4, <1>5, <1>6, <1>7 DEF Next, Aborted

LEMMA ChosenInvariant == Spec => [](ServerInv /\ IndexKept /\ ChosenInv)
<1>1. Init => IndexKept /\ ChosenInv
  BY ChosenInit
<1>2. ServerInv /\ IndexKept /\ ChosenInv /\ [Next]_vars => IndexKept' /\ ChosenInv'
  BY ChosenStep
<1> QED
  BY <1>1, <1>2, ServerInvariant, PTL DEF Spec

(***************************************************************************)
(* The archive for given frame times has a nearest frame for each of them  *)
(* that lies within the stream, none for the others, and its frames in     *)
(* order of time, in whatever order the times were given, as long as the   *)
(* rows of the stored indexes follow each other, as lpx-control publishes  *)
(* them when the clock is not set back.                                    *)
(***************************************************************************)
StoredInOrder == \A t \in TrainIds : InOrder(Stored[t])

THEOREM AskedForGiven == StoredInOrder => (Spec => []FramesAreThoseAskedFor)
<1> SUFFICES ASSUME StoredInOrder PROVE Spec => []FramesAreThoseAskedFor
  OBVIOUS
<1>1. ServerInv /\ IndexKept /\ ChosenInv => FramesAreThoseAskedFor
  <2> SUFFICES ASSUME ServerInv, ChosenInv, NEW c \in Conns,
                      conns[c].state # "none", conns[c].argument.times # <<>>,
                      \A j \in 1 .. Len(conns[c].argument.times) :
                        conns[c].argument.times[j] >= 0
               PROVE  AskedFor(Stored[conns[c].train], conns[c].argument.times,
                               conns[c].frames)
    BY DEF FramesAreThoseAskedFor, AskedFor, Within
  <2> DEFINE d == conns[c]
             q == Stored[d.train]
  <2>1. d \in Download /\ d.argument.times \in Seq(Int)
    <3>1. d \in Download
      BY DEF ServerInv, TypeOK
    <3>2. d.argument \in Arguments \/ d.argument = NoArgument
      BY <3>1 DEF Download
    <3>3. NoArgument.times = <<>>
      BY DEF NoArgument
    <3> QED BY <3>1, <3>2, <3>3, ConstantsAssumption DEF Argument
  <2>2. d.train \in TrainIds /\ d.frames = FramesFor(q, d.argument)
    BY DEF ChosenInv, Chosen
  <2>3. q \in Seq(Row) /\ q # <<>> /\ InOrder(q)
    BY <2>2, ConstantsAssumption DEF StoredInOrder
  <2>4. d.frames = FramesAt(q, SortedTimes(d.argument.times))
    BY <2>2 DEF FramesFor
  <2> HIDE DEF q
  <2>5. AskedFor(q, d.argument.times, FramesAt(q, SortedTimes(d.argument.times)))
    BY <2>1, <2>3, FramesAtAskedFor
  <2> QED BY <2>4, <2>5 DEF q
<1> QED
  BY <1>1, ChosenInvariant, PTL
=============================================================================
