---------------------------- MODULE IndexFileProofs ----------------------------
(***************************************************************************)
(* Theorems of IndexFile, for every sequence of rows, every number of      *)
(* digits and every time asked for.                                        *)
(*                                                                         *)
(* The reader always has the rows of the file up to the unit it is at      *)
(* (LineInv); what is on disk only grows, so that a row by which a stream  *)
(* was found is read again (FoundInv); and a file that was closed in time  *)
(* ends with a line (ClosedInv).                                           *)
(***************************************************************************)
EXTENDS IndexFile, SequenceTheorems, WellFoundedInduction, TLAPS

(* The number of whole lines that fgets has returned *)
Full == parsed \div RowUnits

LineInv ==
  /\ \A k \in 1 .. Len(rows) : k <= Full => rows[k] = Rows[k]
  /\ ~InsideLine => Len(rows) = Full
  /\ InsideLine =>
       /\ Len(rows) = Full + 1
       /\ IF parsed % RowUnits = RowUnits - 1
            THEN rows[Full + 1] = Rows[Full + 1]
            ELSE /\ rows[Full + 1].start = Rows[Full + 1].start
                 /\ rows[Full + 1].end < rows[Full + 1].start

(* The row a stream was found by is on disk, maybe without its line feed. *)
FoundInv ==
  rPc # "idle" /\ purpose # "find" =>
    /\ foundRow \in 1 .. Len(Rows)
    /\ foundRow * RowUnits - 1 <= onDisk
    /\ InsideLine => foundRow * RowUnits - 1 <= parsed

WriterInv ==
  /\ ~writeFailed /\ wPc \in {"closing", "closed"} => printed = Len(Rows)
  /\ ~writeFailed /\ wPc = "closed" => onDisk = Len(Rows) * RowUnits
  /\ closedFirst => wPc = "closed" /\ ~writeFailed

ClosedInv ==
  /\ closedFirst /\ rPc # "idle" => ~InsideLine
  /\ ClosedIndexServed

IndexInv ==
  TypeOK /\ LineInv /\ FoundInv /\ WriterInv /\ ClosedInv
-----------------------------------------------------------------------------
(* Induction over the natural numbers, from their well-foundedness         *)

LEMMA NatSet ==
  ASSUME NEW S, 0 \in S, \A n \in Nat : n \in S => n + 1 \in S
  PROVE  Nat \subseteq S
<1> SUFFICES ASSUME Nat \ S # {} PROVE FALSE
  OBVIOUS
<1> DEFINE R == {ss \in Nat \X Nat : ss[1] < ss[2]}
           T == Nat \ S
<1>1. IsWellFoundedOn(R, Nat)
  BY NatLessThanWellFounded DEF OpToRel
<1>2. PICK n \in T : \A m \in T : ~(<<m, n>> \in R)
  <2> HIDE DEF R
  <2> QED BY <1>1, WFMin
<1>3. n # 0 /\ n - 1 \in Nat
  OBVIOUS
<1>4. n - 1 \in S
  <2> SUFFICES ASSUME n - 1 \in T PROVE FALSE
    BY <1>3
  <2>1. <<n - 1, n>> \in R
    BY <1>3
  <2> QED BY <1>2, <2>1
<1> QED
  BY <1>3, <1>4

(* The powers of ten *)

TenToUpTo(m, g) ==
  g = [n \in 0 .. m |-> IF n = 0 THEN 1 ELSE 10 * g[n - 1]]

LEMMA TenToExists == \A m \in Nat : \E g : TenToUpTo(m, g)
<1> DEFINE S == {m \in Nat : \E g : TenToUpTo(m, g)}
<1>1. 0 \in S
  <2> DEFINE g == [n \in 0 .. 0 |-> 1]
  <2>1. TenToUpTo(0, g)
    BY DEF TenToUpTo
  <2> QED BY <2>1
<1>2. ASSUME NEW m \in Nat, m \in S PROVE m + 1 \in S
  <2>1. PICK g : TenToUpTo(m, g)
    BY <1>2
  <2> DEFINE h == [n \in 0 .. m + 1 |-> IF n = m + 1 THEN 10 * g[m] ELSE g[n]]
  <2>2. ASSUME NEW n \in 0 .. m + 1
        PROVE  h[n] = IF n = 0 THEN 1 ELSE 10 * h[n - 1]
    <3>1. CASE n = m + 1
      BY <3>1
    <3>2. CASE n # m + 1
      <4>1. n \in 0 .. m
        BY <3>2
      <4>2. g[n] = IF n = 0 THEN 1 ELSE 10 * g[n - 1]
        BY <2>1, <4>1 DEF TenToUpTo
      <4> QED BY <4>1, <4>2
    <3> QED BY <3>1, <3>2
  <2>3. TenToUpTo(m + 1, h)
    BY <2>2 DEF TenToUpTo
  <2> QED BY <2>3
<1> HIDE DEF S
<1>3. Nat \subseteq S
  BY <1>1, <1>2, NatSet
<1> QED
  BY <1>3 DEF S

LEMMA TenToIs ==
  \A n \in 0 .. EndDigits :
    TenTo[n] = IF n = 0 THEN 1 ELSE 10 * TenTo[n - 1]
<1>1. \E g : TenToUpTo(EndDigits, g)
  BY TenToExists, ConstantsAssumption
<1>2. TenTo = CHOOSE g : TenToUpTo(EndDigits, g)
  BY DEF TenTo, TenToUpTo
<1>3. TenToUpTo(EndDigits, TenTo)
  BY <1>1, <1>2
<1> QED
  BY <1>3 DEF TenToUpTo

LEMMA TenToPositive == \A n \in 0 .. EndDigits : TenTo[n] \in Nat \ {0}
<1> DEFINE S == {n \in Nat : n <= EndDigits => TenTo[n] \in Nat \ {0}}
<1> USE ConstantsAssumption
<1>1. 0 \in S
  BY TenToIs
<1>2. ASSUME NEW n \in Nat, n \in S PROVE n + 1 \in S
  <2> SUFFICES ASSUME n + 1 <= EndDigits PROVE TenTo[n + 1] \in Nat \ {0}
    OBVIOUS
  <2>1. TenTo[n + 1] = 10 * TenTo[n]
    BY TenToIs
  <2>2. TenTo[n] \in Nat \ {0}
    BY <1>2
  <2> QED BY <2>1, <2>2
<1> HIDE DEF S
<1>3. Nat \subseteq S
  BY <1>1, <1>2, NatSet
<1> QED
  BY <1>3 DEF S

LEMMA DigitsType == Digits \subseteq Nat
<1>1. TenTo[EndDigits - 1] \in Nat /\ TenTo[EndDigits] \in Nat
  BY TenToPositive, ConstantsAssumption
<1> QED
  BY <1>1 DEF Digits

(* A time of which a digit is missing is less than every whole one. *)
LEMMA CutIsLess ==
  ASSUME NEW t \in Digits, NEW n \in 2 .. RowUnits - 2
  PROVE  Cut(t, n) \in Nat /\ \A u \in Digits : Cut(t, n) < u
<1> DEFINE E == EndDigits
           k == RowUnits - 2 - n
<1>1. E \in Nat \ {0} /\ k \in 0 .. E - 2 /\ RowUnits - 1 - n = k + 1
  BY ConstantsAssumption DEF RowUnits
<1>2. TenTo[E] = 10 * TenTo[E - 1] /\ TenTo[k + 1] = 10 * TenTo[k]
  BY <1>1, TenToIs
<1>3. TenTo[E - 1] \in Nat \ {0} /\ TenTo[k] \in Nat \ {0}
  BY <1>1, TenToPositive
<1>4. t \in Nat /\ t < 10 * TenTo[E - 1]
  BY <1>2, <1>3 DEF Digits
<1>5. Cut(t, n) = t \div (10 * TenTo[k])
  BY <1>1, <1>2, ConstantsAssumption DEF Cut, RowUnits
<1> HIDE DEF k
<1>6. ASSUME NEW b \in Nat, NEW p \in Nat \ {0}, NEW s \in Nat, s < 10 * b
      PROVE  s \div (10 * p) \in Nat /\ s \div (10 * p) < b
  <2>1. 10 * p >= 10 /\ 10 * p \in Nat
    OBVIOUS
  <2> DEFINE q == 10 * p
  <2> HIDE DEF q
  <2>2. s \div q \in Nat /\ s \div q < b
    BY <1>6, <2>1 DEF q
  <2> QED BY <2>2 DEF q
<1>7. Cut(t, n) \in Nat /\ Cut(t, n) < TenTo[E - 1]
  BY <1>3, <1>4, <1>5, <1>6
<1> QED
  BY <1>3, <1>7, DigitsType DEF Digits
-----------------------------------------------------------------------------
(* Lines and units *)

LEMMA UnitsType == RowUnits \in Nat /\ RowUnits >= 3
BY ConstantsAssumption DEF RowUnits

LEMMA TimesNat == \A i, j \in Nat : i * j \in Nat
OBVIOUS

LEMMA TimesMonotone ==
  \A i, j, u \in Nat : i <= j => i * u <= j * u
OBVIOUS

LEMMA TimesStep == \A i, u \in Nat : (i + 1) * u = i * u + u
OBVIOUS

LEMMA DivMod ==
  ASSUME NEW a \in Nat, NEW u \in Nat \ {0}
  PROVE  /\ a \div u \in Nat
         /\ a % u \in 0 .. u - 1
         /\ a = (a \div u) * u + (a % u)
OBVIOUS

LEMMA DivModUnique ==
  ASSUME NEW q \in Nat, NEW u \in Nat, NEW r \in 0 .. u - 1
  PROVE  (q * u + r) \div u = q /\ (q * u + r) % u = r
<1> DEFINE a == q * u + r
           d == a \div u
           m == a % u
<1>1. d \in Nat /\ m \in 0 .. u - 1 /\ a = d * u + m
  <2>1. a \in Nat /\ u \in Nat \ {0}
    OBVIOUS
  <2> HIDE DEF a
  <2> QED BY <2>1, DivMod
<1> HIDE DEF d, m
<1>2. ASSUME d < q PROVE FALSE
  <2>1. (d + 1) * u <= q * u /\ (d + 1) * u = d * u + u
    BY <1>1, <1>2, TimesMonotone, TimesStep
  <2> QED BY <1>1, <2>1
<1>3. ASSUME q < d PROVE FALSE
  <2>1. (q + 1) * u <= d * u /\ (q + 1) * u = q * u + u
    BY <1>1, <1>3, TimesMonotone, TimesStep
  <2> QED BY <1>1, <2>1
<1> QED
  BY <1>1, <1>2, <1>3 DEF d, m

(* Where the reader is, in lines and units of a line *)
LEMMA Place ==
  ASSUME TypeOK
  PROVE  /\ parsed \in Nat /\ fetched \in Nat /\ onDisk \in Nat
         /\ Full \in Nat
         /\ parsed % RowUnits \in 0 .. RowUnits - 1
         /\ parsed = Full * RowUnits + (parsed % RowUnits)
         /\ Full * RowUnits \in Nat
         /\ Full <= Len(Rows)
         /\ parsed # Full * RowUnits => Full < Len(Rows)
         /\ InsideLine <=> parsed % RowUnits # 0
<1>1. /\ printed \in Nat /\ printed <= Len(Rows) /\ Len(Rows) \in Nat
      /\ RowUnits \in Nat \ {0}
  BY UnitsType, ConstantsAssumption DEF TypeOK
<1>2. printed * RowUnits \in Nat
  BY <1>1
<1>3. /\ parsed \in Nat /\ fetched \in Nat /\ onDisk \in Nat
      /\ parsed <= printed * RowUnits
  BY <1>2 DEF TypeOK
<1>4. /\ Full \in Nat
      /\ parsed % RowUnits \in 0 .. RowUnits - 1
      /\ parsed = Full * RowUnits + (parsed % RowUnits)
  BY <1>1, <1>3, DivMod DEF Full
<1>5. ASSUME Full > printed PROVE FALSE
  <2>1. (printed + 1) * RowUnits <= Full * RowUnits
    BY <1>1, <1>4, <1>5, TimesMonotone
  <2>2. (printed + 1) * RowUnits = printed * RowUnits + RowUnits
    BY <1>1, TimesStep
  <2>3. Full * RowUnits \in Nat
    BY <1>1, <1>4
  <2> QED BY <1>1, <1>2, <1>3, <1>4, <2>1, <2>2, <2>3
<1>6. ASSUME parsed # Full * RowUnits, Full >= printed PROVE FALSE
  <2>1. printed * RowUnits <= Full * RowUnits
    BY <1>1, <1>4, <1>6, TimesMonotone
  <2>2. Full * RowUnits \in Nat
    BY <1>1, <1>4
  <2> QED BY <1>1, <1>2, <1>3, <1>4, <1>6, <2>1, <2>2
<1>7. Full * RowUnits \in Nat
  BY <1>1, <1>4
<1> QED
  BY <1>1, <1>3, <1>4, <1>5, <1>6, <1>7 DEF InsideLine
-----------------------------------------------------------------------------
(* The rows *)

LEMMA RowsType ==
  /\ Len(Rows) \in Nat
  /\ \A k \in 1 .. Len(Rows) : /\ Rows[k].start \in Digits
                               /\ Rows[k].end \in Digits
                               /\ Rows[k] \in RowTimes
<1>1. \A k \in 1 .. Len(Rows) : Rows[k] \in [start : Digits, end : Digits]
  BY ConstantsAssumption, ElementOfSeq
<1>2. ASSUME NEW row \in [start : Digits, end : Digits]
      PROVE  row.start \in Digits /\ row.end \in Digits /\ row \in RowTimes
  BY DigitsType DEF RowTimes
<1>3. Len(Rows) \in Nat
  BY ConstantsAssumption, LenProperties
<1> QED
  BY <1>1, <1>2, <1>3

LEMMA RowIsItsTimes ==
  ASSUME NEW row \in RowTimes
  PROVE  row = [start |-> row.start, end |-> row.end]
BY DEF RowTimes

(* What the reader makes of the line it is at *)
LEMMA RowFromIs ==
  ASSUME TypeOK, ~InsideLine, NEW n \in 2 .. RowUnits,
         parsed + n <= fetched
  PROVE  /\ Full + 1 \in 1 .. Len(Rows)
         /\ RowFrom(n) \in RowTimes
         /\ n >= RowUnits - 1 => RowFrom(n) = Rows[Full + 1]
         /\ n < RowUnits - 1 => /\ RowFrom(n).start = Rows[Full + 1].start
                                /\ RowFrom(n).end < RowFrom(n).start
<1>1. /\ parsed = Full * RowUnits /\ Full \in Nat
      /\ parsed \in Nat /\ fetched \in Nat
  <2>1. Full * RowUnits \in Nat /\ parsed % RowUnits = 0
    BY Place, UnitsType
  <2> QED BY Place, <2>1
<1>2. Full < Len(Rows)
  <2>1. printed \in 0 .. Len(Rows) /\ fetched <= printed * RowUnits
    <3>1. printed \in 0 .. Len(Rows) /\ printed * RowUnits \in Nat
      BY RowsType, UnitsType DEF TypeOK
    <3> QED BY <3>1 DEF TypeOK
  <2>2. ASSUME Full >= printed PROVE FALSE
    <3>1. printed * RowUnits <= Full * RowUnits
      BY <1>1, <2>1, <2>2, RowsType, UnitsType, TimesMonotone
    <3> QED BY <1>1, <2>1, <3>1, RowsType, UnitsType
  <2> QED BY <1>1, <2>1, <2>2, RowsType
<1>3. Full + 1 \in 1 .. Len(Rows) /\ ThisRow = Rows[Full + 1]
  BY <1>1, <1>2, RowsType DEF ThisRow, Full
<1>4. ThisRow.start \in Digits /\ ThisRow.end \in Digits /\ ThisRow \in RowTimes
  BY <1>3, RowsType
<1>5. CASE n >= RowUnits - 1
  <2>1. RowFrom(n) = [start |-> ThisRow.start, end |-> ThisRow.end]
    BY <1>5 DEF RowFrom, Cut
  <2>2. RowFrom(n) = ThisRow
    BY <1>4, <2>1, RowIsItsTimes
  <2> QED BY <1>3, <1>4, <1>5, <2>2, UnitsType
<1>6. CASE n < RowUnits - 1
  <2>1. n \in 2 .. RowUnits - 2
    BY <1>6, UnitsType
  <2>2. /\ Cut(ThisRow.end, n) \in Nat
        /\ Cut(ThisRow.end, n) < ThisRow.start
    BY <1>4, <2>1, CutIsLess
  <2> DEFINE c == Cut(ThisRow.end, n)
  <2>3. RowFrom(n) = [start |-> ThisRow.start, end |-> c]
    BY DEF RowFrom
  <2>4. ThisRow.start \in Nat
    BY <1>4, DigitsType
  <2> HIDE DEF c
  <2>5. /\ RowFrom(n) \in RowTimes
        /\ RowFrom(n).start = ThisRow.start
        /\ RowFrom(n).end = c
    BY <2>2, <2>3, <2>4 DEF RowTimes, c
  <2>6. RowFrom(n).end < RowFrom(n).start
    BY <2>2, <2>5 DEF c
  <2> QED BY <1>3, <1>6, <2>5, <2>6, UnitsType
<1> QED
  BY <1>5, <1>6, UnitsType

LEMMA LastRowCut == TypeOK /\ LineInv => OnlyLastRowCut
<1> SUFFICES ASSUME TypeOK, LineInv PROVE OnlyLastRowCut
  OBVIOUS
<1>1. /\ Full \in Nat /\ Full <= Len(Rows) /\ Len(rows) \in Nat
      /\ InsideLine => Full < Len(Rows)
  BY Place, UnitsType DEF TypeOK
<1>2. Len(rows) \in {Full, Full + 1} /\ (Len(rows) = Full + 1 => InsideLine)
  BY <1>1 DEF LineInv
<1> QED
  BY <1>1, <1>2, RowsType DEF LineInv, OnlyLastRowCut
-----------------------------------------------------------------------------
(* Types *)

WriterTypeOK ==
  /\ wPc \in {"before", "printing", "closing", "closed", "dead"}
  /\ printed \in 0 .. Len(Rows)
  /\ onDisk \in 0 .. printed * RowUnits
  /\ writeFailed \in BOOLEAN

LEMMA WriterStep ==
  ASSUME TypeOK, Writer
  PROVE  WriterTypeOK' /\ onDisk' >= onDisk /\ UNCHANGED readerVars
<1>1. /\ printed \in Nat /\ printed <= Len(Rows) /\ Len(Rows) \in Nat
      /\ RowUnits \in Nat /\ onDisk \in Nat /\ writeFailed \in BOOLEAN
      /\ printed * RowUnits \in Nat /\ onDisk <= printed * RowUnits
  <2>1. printed \in Nat /\ printed <= Len(Rows)
    BY RowsType DEF TypeOK
  <2>2. printed * RowUnits \in Nat
    BY <2>1, UnitsType
  <2> QED BY <2>1, <2>2, RowsType, UnitsType DEF TypeOK
<1>2. CASE PrintRow \/ PrintFails
  <2>1. printed' = printed + 1 /\ printed' \in 0 .. Len(Rows)
    BY <1>1, <1>2 DEF PrintRow, PrintFails
  <2>2. printed' * RowUnits = printed * RowUnits + RowUnits
    BY <1>1, <2>1, TimesStep
  <2>3. onDisk' \in onDisk .. printed' * RowUnits
    BY <1>2 DEF PrintRow, PrintFails, KeptOnError
  <2>4. onDisk' \in 0 .. printed' * RowUnits /\ onDisk' >= onDisk
    BY <1>1, <2>2, <2>3
  <2>5. /\ wPc' \in {"printing", "closing"}
        /\ writeFailed' \in BOOLEAN
        /\ UNCHANGED readerVars
    BY <1>1, <1>2 DEF PrintRow, PrintFails
  <2> QED BY <2>1, <2>4, <2>5 DEF WriterTypeOK
<1>3. CASE Close
  <2>1. onDisk' \in onDisk .. printed * RowUnits /\ printed' = printed
    BY <1>1, <1>3 DEF Close, Closed
  <2>2. onDisk' \in 0 .. printed' * RowUnits /\ onDisk' >= onDisk
    BY <1>1, <2>1
  <2>3. /\ wPc' = "closed" /\ writeFailed' \in BOOLEAN
        /\ UNCHANGED readerVars
    BY <1>1, <1>3 DEF Close
  <2> QED BY <1>1, <2>1, <2>2, <2>3 DEF WriterTypeOK
<1>4. CASE Flush
  <2>1. onDisk' \in 0 .. printed' * RowUnits /\ onDisk' >= onDisk
    BY <1>1, <1>4 DEF Flush
  <2> QED BY <1>1, <1>4, <2>1 DEF Flush, WriterTypeOK
<1>5. CASE Create \/ PrintedAll \/ Die
  BY <1>1, <1>5 DEF Create, PrintedAll, Die, WriterTypeOK
<1> QED
  BY <1>2, <1>3, <1>4, <1>5 DEF Writer

ReaderTypeOK ==
  /\ rPc \in {"idle", "fopen", "fgets"}
  /\ purpose \in Purposes
  /\ time \in Nat
  /\ fetched \in 0 .. onDisk
  /\ parsed \in 0 .. fetched
  /\ rows \in Seq(RowTimes)
  /\ answer \in {0, 200, 404, 500}
  /\ readFailed \in BOOLEAN
  /\ closedFirst \in BOOLEAN
  /\ foundRow \in 0 .. Len(Rows)

LEMMA TypeIs == TypeOK <=> WriterTypeOK /\ ReaderTypeOK
BY DEF TypeOK, WriterTypeOK, ReaderTypeOK

LEMMA ReaderStep ==
  ASSUME TypeOK, LineInv, Reader
  PROVE  ReaderTypeOK' /\ UNCHANGED writerVars
<1>1. ReaderTypeOK /\ Len(Rows) \in Nat /\ RowUnits \in Nat /\ RowUnits >= 3
  BY TypeIs, RowsType, UnitsType
<1>2. parsed \in Nat /\ fetched \in Nat /\ onDisk \in Nat
  BY Place
<1>3. CASE OpenIndex
  BY <1>1, <1>3
  DEF OpenIndex, NotRead, Answer, ReaderTypeOK, requestVars, writerVars
<1>4. CASE AccessFails
  BY <1>1, <1>4
  DEF AccessFails, NotRead, Answer, ReaderTypeOK, requestVars, writerVars
<1>5. CASE ParseLine
  <2>1. ~InsideLine /\ parsed + RowUnits <= fetched
    BY <1>1, <1>2, <1>5 DEF ParseLine, LineInBuffer
  <2>2. RowFrom(RowUnits) \in RowTimes
    BY <1>1, <2>1, RowFromIs
  <2>3. rows' \in Seq(RowTimes)
    BY <1>1, <1>5, <2>2, AppendProperties DEF ParseLine, ReaderTypeOK
  <2>4. parsed' \in 0 .. fetched
    BY <1>1, <1>2, <1>5, <2>1 DEF ParseLine
  <2> QED
    BY <1>1, <1>5, <2>3, <2>4 DEF ParseLine, ReaderTypeOK, requestVars, writerVars
<1>6. CASE Fetch
  <2>1. fetched' \in 0 .. onDisk /\ parsed \in 0 .. fetched'
    BY <1>1, <1>2, <1>6 DEF Fetch, ReaderTypeOK
  <2> QED
    BY <1>1, <1>6, <2>1 DEF Fetch, ReaderTypeOK, requestVars, writerVars
<1>7. CASE ParseCutLine
  <2>1. CASE TwoNumbers(fetched - parsed)
    <3>1. ~InsideLine /\ fetched - parsed \in 2 .. RowUnits
      BY <1>1, <1>2, <1>7, <2>1 DEF ParseCutLine, LineInBuffer, TwoNumbers
    <3>2. parsed + (fetched - parsed) <= fetched
      BY <1>2
    <3>3. RowFrom(fetched - parsed) \in RowTimes
      BY <3>1, <3>2, RowFromIs
    <3>4. rows' \in Seq(RowTimes)
      BY <1>1, <1>7, <2>1, <3>3, AppendProperties
         DEF ParseCutLine, ReaderTypeOK
    <3>5. parsed' \in 0 .. fetched
      BY <1>2, <1>7, <2>1 DEF ParseCutLine
    <3> QED
      BY <1>1, <1>7, <2>1, <3>4, <3>5
         DEF ParseCutLine, ReaderTypeOK, requestVars, writerVars
  <2>2. CASE ~TwoNumbers(fetched - parsed)
    BY <1>1, <1>7, <2>2
    DEF ParseCutLine, NotRead, Answer, ReaderTypeOK, requestVars, writerVars
  <2> QED BY <2>1, <2>2
<1>8. CASE ParseRestOfLine
  BY <1>1, <1>8
  DEF ParseRestOfLine, NotRead, Answer, ReaderTypeOK, requestVars, writerVars
<1>9. CASE EndOfIndex
  <2>1. foundRow' \in 0 .. Len(Rows)
    <3>1. Len(rows) <= Len(Rows) /\ Len(rows) \in Nat
      BY <1>1, LastRowCut, LenProperties DEF OnlyLastRowCut, ReaderTypeOK
    <3> QED BY <1>1, <1>9, <3>1 DEF EndOfIndex, UseIndex, ReaderTypeOK
  <2>2. \/ \E status \in {200, 404} : Answer(status)
        \/ \E for \in Purposes : BeginReading(for)
    BY <1>9 DEF EndOfIndex, UseIndex, Purposes
  <2>3. /\ rPc' \in {"idle", "fopen"} /\ purpose' \in Purposes
        /\ \/ fetched' = fetched /\ parsed' = parsed /\ rows' = rows
           \/ fetched' = 0 /\ parsed' = 0 /\ rows' = <<>>
        /\ answer' \in {answer, 200, 404}
    BY <1>1, <2>2 DEF Answer, BeginReading, ReaderTypeOK
  <2>4. fetched' \in 0 .. onDisk /\ parsed' \in 0 .. fetched'
    BY <1>1, <1>2, <2>3 DEF ReaderTypeOK
  <2>5. rows' \in Seq(RowTimes)
    <3>1. rows' \in {rows, <<>>}
      BY <2>3
    <3> QED BY <1>1, <3>1, EmptySeq, ZenonT(40) DEF ReaderTypeOK
  <2> QED
    BY <1>1, <1>9, <2>1, <2>3, <2>4, <2>5
       DEF EndOfIndex, ReaderTypeOK, requestVars, writerVars
<1> QED
  BY <1>3, <1>4, <1>5, <1>6, <1>7, <1>8, <1>9 DEF Reader

LEMMA TypeStep == TypeOK /\ LineInv /\ [Next]_vars => TypeOK'
<1> SUFFICES ASSUME TypeOK, LineInv, [Next]_vars PROVE TypeOK'
  OBVIOUS
<1>1. CASE Writer
  <2>1. WriterTypeOK' /\ onDisk' >= onDisk /\ UNCHANGED readerVars
    BY <1>1, WriterStep
  <2>2. onDisk \in Nat /\ onDisk' \in Nat
    <3>1. printed' * RowUnits \in Nat
      <4>1. printed' \in Nat
        BY <2>1, RowsType DEF WriterTypeOK
      <4> QED BY <4>1, UnitsType, TimesNat
    <3> QED BY <2>1, <3>1, Place DEF WriterTypeOK
  <2>3. ReaderTypeOK'
    BY <2>1, <2>2, TypeIs DEF ReaderTypeOK, readerVars
  <2> QED BY <2>1, <2>3, TypeIs DEF TypeOK, WriterTypeOK, ReaderTypeOK
<1>2. CASE Reader
  BY <1>2, ReaderStep DEF TypeOK, WriterTypeOK, ReaderTypeOK, writerVars
<1>3. CASE Request
  <2>1. time' \in Nat /\ onDisk \in Nat
    BY <1>3, ConstantsAssumption, DigitsType, Place DEF Request
  <2>2. rows' \in Seq(RowTimes)
    BY <1>3, EmptySeq DEF Request, BeginReading
  <2>3. closedFirst' \in BOOLEAN
    BY <1>3 DEF Request
  <2>6. /\ rPc' = "fopen" /\ purpose' = "find"
        /\ onDisk' = onDisk /\ fetched' = 0 /\ parsed' = 0
        /\ answer' = answer /\ readFailed' = FALSE /\ foundRow' = 0
    BY <1>3 DEF Request, BeginReading, writerVars
  <2>7. fetched' \in 0 .. onDisk' /\ parsed' \in 0 .. fetched'
    BY <2>1, <2>6
  <2>8. foundRow' \in 0 .. Len(Rows)
    BY <2>6, RowsType
  <2>9. answer' \in {0, 200, 404, 500}
    BY <2>6, TypeIs DEF ReaderTypeOK
  <2>4. ReaderTypeOK'
    BY <2>1, <2>2, <2>3, <2>6, <2>7, <2>8, <2>9 DEF ReaderTypeOK, Purposes
  <2>5. WriterTypeOK'
    BY <1>3, TypeIs DEF Request, WriterTypeOK, writerVars
  <2> QED BY <2>4, <2>5 DEF TypeOK, WriterTypeOK, ReaderTypeOK
<1>4. CASE UNCHANGED vars
  BY <1>4 DEF vars, readerVars, writerVars, TypeOK
<1> QED
  BY <1>1, <1>2, <1>3, <1>4 DEF Next
-----------------------------------------------------------------------------
(* The rows that have been read *)

LEMMA LineInvKept ==
  ASSUME LineInv, UNCHANGED <<parsed, rows>>
  PROVE  LineInv'
BY DEF LineInv, Full, InsideLine

LEMMA LineInvEmpty ==
  ASSUME parsed' = 0, rows' = <<>>
  PROVE  LineInv' /\ ~InsideLine'
<1>1. 0 \div RowUnits = 0 /\ 0 % RowUnits = 0
  <2>1. RowUnits \in Nat \ {0}
    BY UnitsType
  <2> QED BY <2>1
<1>2. Len(rows') = 0
  OBVIOUS
<1> QED
  BY <1>1, <1>2 DEF LineInv, Full, InsideLine

(* A line, or the rest of the file, is added to what was read. *)
LEMMA ParsedMore ==
  ASSUME TypeOK, LineInv, ~InsideLine, NEW n \in 2 .. RowUnits,
         parsed + n <= fetched,
         rows' = Append(rows, RowFrom(n)), parsed' = parsed + n
  PROVE  LineInv' /\ (InsideLine' <=> n < RowUnits)
<1>1. /\ Full \in Nat /\ RowUnits \in Nat \ {0} /\ RowUnits >= 3
      /\ rows \in Seq(RowTimes) /\ Len(rows) = Full
      /\ \A k \in 1 .. Len(rows) : rows[k] = Rows[k]
  BY Place, UnitsType DEF TypeOK, LineInv
<1>2. parsed = Full * RowUnits
  <2>1. Full * RowUnits \in Nat /\ parsed % RowUnits = 0
    BY Place, UnitsType
  <2> QED BY Place, <2>1
<1>3. /\ rows' \in Seq(RowTimes) /\ Len(rows') = Full + 1
      /\ \A k \in 1 .. Full : rows'[k] = Rows[k]
      /\ rows'[Full + 1] = RowFrom(n)
  <2>1. RowFrom(n) \in RowTimes
    BY RowFromIs
  <2> QED BY <1>1, <2>1, AppendProperties
<1>4. CASE n < RowUnits
  <2>1. n \in 0 .. RowUnits - 1
    BY <1>1, <1>4
  <2>2. parsed' \div RowUnits = Full /\ parsed' % RowUnits = n
    BY <1>1, <1>2, <2>1, DivModUnique
  <2>3. InsideLine' /\ Full' = Full
    BY <2>2 DEF InsideLine, Full
  <2>4. IF n = RowUnits - 1
          THEN rows'[Full + 1] = Rows[Full + 1]
          ELSE /\ rows'[Full + 1].start = Rows[Full + 1].start
               /\ rows'[Full + 1].end < rows'[Full + 1].start
    BY <1>1, <1>3, <2>1, RowFromIs
  <2>5. LineInv'
    <3>1. \A k \in 1 .. Len(rows') : k <= Full' => rows'[k] = Rows[k]
      BY <1>1, <1>3, <2>3
    <3> QED BY <1>3, <2>2, <2>3, <2>4, <3>1 DEF LineInv
  <2> QED BY <1>4, <2>3, <2>5
<1>5. CASE n = RowUnits
  <2>1. parsed' = (Full + 1) * RowUnits + 0
    BY <1>1, <1>2, <1>5, TimesStep
  <2>2. parsed' \div RowUnits = Full + 1 /\ parsed' % RowUnits = 0
    <3> DEFINE q == Full + 1
               r == 0
    <3>1. q \in Nat /\ r \in 0 .. RowUnits - 1 /\ parsed' = q * RowUnits + r
      BY <1>1, <2>1
    <3> HIDE DEF q, r
    <3>2. RowUnits \in Nat
      BY <1>1
    <3>3. (q * RowUnits + r) \div RowUnits = q /\ (q * RowUnits + r) % RowUnits = r
      BY <3>1, <3>2, DivModUnique
    <3> QED BY <3>1, <3>3 DEF q, r
  <2>3. ~InsideLine' /\ Full' = Full + 1
    BY <2>2 DEF InsideLine, Full
  <2>4. rows'[Full + 1] = Rows[Full + 1]
    BY <1>1, <1>3, <1>5, RowFromIs
  <2>5. LineInv'
    BY <1>1, <1>3, <2>3, <2>4 DEF LineInv
  <2> QED BY <1>5, <2>3, <2>5
<1> QED
  BY <1>1, <1>4, <1>5

(* What a step of the reader does to the place it is at *)
LEMMA ParseLineIs ==
  ASSUME TypeOK, LineInv, ParseLine
  PROVE  /\ ~InsideLine /\ parsed + RowUnits <= fetched
         /\ LineInv' /\ ~InsideLine'
<1>1. ~InsideLine /\ parsed + RowUnits <= fetched
  <2>1. parsed \in Nat /\ fetched \in Nat /\ RowUnits \in Nat
    BY Place, UnitsType
  <2> QED BY <2>1 DEF ParseLine, LineInBuffer
<1> QED
  BY <1>1, ParsedMore, UnitsType DEF ParseLine

LEMMA ParseCutLineIs ==
  ASSUME TypeOK, LineInv, ParseCutLine, rPc' # "idle"
  PROVE  /\ ~InsideLine /\ LineInv' /\ InsideLine'
         /\ UNCHANGED <<rPc, purpose, foundRow>>
         /\ parsed' = onDisk
<1>1. ~InsideLine /\ fetched - parsed \in 1 .. RowUnits - 1 /\ fetched = onDisk
  <2>1. parsed \in Nat /\ fetched \in Nat /\ RowUnits \in Nat
    BY Place, UnitsType
  <2>2. ~InsideLine /\ parsed < fetched /\ fetched = onDisk
        /\ ~(fetched - parsed >= RowUnits)
    BY DEF ParseCutLine, LineInBuffer
  <2> QED BY <2>1, <2>2
<1>2. TwoNumbers(fetched - parsed)
  BY DEF ParseCutLine, NotRead, Answer
<1>3. fetched - parsed \in 2 .. RowUnits /\ parsed + (fetched - parsed) = fetched
  <2>1. parsed \in Nat /\ fetched \in Nat /\ RowUnits \in Nat
    BY Place, UnitsType
  <2> QED BY <1>1, <1>2, <2>1 DEF TwoNumbers
<1>4. rows' = Append(rows, RowFrom(fetched - parsed)) /\ parsed' = fetched
      /\ UNCHANGED <<rPc, purpose, foundRow>>
  BY <1>2 DEF ParseCutLine
<1>5. fetched <= fetched
  BY Place
<1>6. LineInv' /\ (InsideLine' <=> fetched - parsed < RowUnits)
  <2> DEFINE n == fetched - parsed
  <2>1. /\ n \in 2 .. RowUnits /\ parsed + n <= fetched
        /\ rows' = Append(rows, RowFrom(n)) /\ parsed' = parsed + n
    BY <1>3, <1>4, <1>5
  <2> HIDE DEF n
  <2>2. LineInv' /\ (InsideLine' <=> n < RowUnits)
    BY <1>1, <2>1, ParsedMore
  <2> QED BY <2>2 DEF n
<1> QED
  BY <1>1, <1>4, <1>6, UnitsType

LEMMA LineStep == TypeOK /\ LineInv /\ [Next]_vars => LineInv'
<1> SUFFICES ASSUME TypeOK, LineInv, [Next]_vars PROVE LineInv'
  OBVIOUS
<1>1. CASE Writer
  <2>1. UNCHANGED readerVars
    BY <1>1, WriterStep
  <2> QED BY <2>1, LineInvKept DEF readerVars
<1>2. CASE Request
  <2>1. parsed' = 0 /\ rows' = <<>>
    BY <1>2 DEF Request, BeginReading
  <2> QED BY <2>1, LineInvEmpty
<1>3. CASE ParseLine
  BY <1>3, ParseLineIs
<1>4. CASE ParseCutLine
  <2>1. CASE rPc' # "idle"
    BY <1>4, <2>1, ParseCutLineIs
  <2>2. CASE rPc' = "idle"
    <3>1. UNCHANGED <<parsed, rows>>
      BY <1>4, <2>2 DEF ParseCutLine, NotRead, Answer
    <3> QED BY <3>1, LineInvKept
  <2> QED BY <2>1, <2>2
<1>5. CASE EndOfIndex
  <2>1. \/ UNCHANGED <<parsed, rows>>
        \/ parsed' = 0 /\ rows' = <<>>
    BY <1>5 DEF EndOfIndex, UseIndex, Answer, BeginReading
  <2> QED BY <2>1, LineInvKept, LineInvEmpty
<1>6. CASE OpenIndex \/ AccessFails \/ Fetch \/ ParseRestOfLine
  <2>1. UNCHANGED <<parsed, rows>>
    BY <1>6 DEF OpenIndex, AccessFails, Fetch, ParseRestOfLine, NotRead, Answer
  <2> QED BY <2>1, LineInvKept
<1>7. CASE UNCHANGED vars
  BY <1>7, LineInvKept DEF vars, readerVars
<1> QED
  BY <1>1, <1>2, <1>3, <1>4, <1>5, <1>6, <1>7 DEF Next, Reader
-----------------------------------------------------------------------------
(* The writer, and the row a stream was found by                           *)

LEMMA Growth ==
  ASSUME TypeOK, LineInv, [Next]_vars
  PROVE  onDisk \in Nat /\ onDisk' \in Nat /\ onDisk <= onDisk'
<1>1. TypeOK' /\ onDisk \in Nat
  BY TypeStep, Place
<1>2. onDisk' \in Nat
  <2>1. printed' \in 0 .. Len(Rows) /\ onDisk' \in 0 .. printed' * RowUnits
    BY <1>1 DEF TypeOK
  <2>2. printed' \in Nat /\ RowUnits \in Nat
    BY <2>1, RowsType, UnitsType
  <2>3. printed' * RowUnits \in Nat
    BY <2>2, TimesNat
  <2> QED BY <2>1, <2>3
<1>3. CASE Writer
  BY <1>1, <1>2, <1>3, WriterStep
<1>4. CASE Reader
  BY <1>1, <1>4, ReaderStep DEF writerVars
<1>5. CASE Request \/ UNCHANGED vars
  BY <1>1, <1>5 DEF Request, vars, writerVars
<1> QED
  BY <1>1, <1>2, <1>3, <1>4, <1>5 DEF Next

LEMMA WriterInvStep ==
  TypeOK /\ LineInv /\ WriterInv /\ [Next]_vars => WriterInv'
<1> SUFFICES ASSUME TypeOK, LineInv, WriterInv, [Next]_vars PROVE WriterInv'
  OBVIOUS
<1>1. CASE Writer
  <2>1. closedFirst' = closedFirst
    BY <1>1, WriterStep DEF readerVars
  <2> QED
    BY <1>1, <2>1
    DEF Writer, WriterInv, Create, PrintRow, PrintFails, PrintedAll, Flush,
        Close, Closed, Die, TypeOK
<1>2. CASE Reader
  <2>1. closedFirst' = closedFirst
    BY <1>2
    DEF Reader, OpenIndex, AccessFails, ParseLine, Fetch, ParseCutLine,
        ParseRestOfLine, EndOfIndex, requestVars
  <2> QED BY <1>2, <2>1, ReaderStep DEF WriterInv, writerVars
<1>3. CASE Request
  BY <1>3 DEF Request, WriterInv, writerVars
<1>4. CASE UNCHANGED vars
  BY <1>4 DEF WriterInv, vars, writerVars, readerVars
<1> QED
  BY <1>1, <1>2, <1>3, <1>4 DEF Next

(* A row that covers a time is not cut; at most its line feed is missing. *)
LEMMA CoveringRowRead ==
  ASSUME TypeOK, LineInv, NEW k \in 1 .. Len(rows), Covers(rows[k])
  PROVE  /\ k \in 1 .. Len(Rows) /\ rows[k] = Rows[k]
         /\ k * RowUnits - 1 <= parsed
<1>1. /\ Full \in Nat /\ RowUnits \in Nat \ {0} /\ k \in Nat /\ parsed \in Nat
      /\ parsed % RowUnits \in 0 .. RowUnits - 1
      /\ parsed = Full * RowUnits + (parsed % RowUnits)
      /\ Full * RowUnits \in Nat /\ k * RowUnits \in Nat
      /\ Len(rows) \in Nat
  <2>1. Len(rows) \in Nat
    BY LenProperties DEF TypeOK
  <2>2. RowUnits \in Nat \ {0} /\ k \in Nat
    BY <2>1, UnitsType
  <2>3. k * RowUnits \in Nat
    BY <2>2
  <2> QED BY <2>1, <2>2, <2>3, Place
<1>2. k \in 1 .. Len(Rows)
  BY LastRowCut, RowsType, LenProperties DEF OnlyLastRowCut, TypeOK
<1>3. CASE k <= Full
  <2>1. k * RowUnits <= Full * RowUnits
    BY <1>1, <1>3, TimesMonotone
  <2>2. k * RowUnits - 1 <= parsed
    BY <1>1, <2>1
  <2>3. rows[k] = Rows[k]
    BY <1>3 DEF LineInv
  <2> QED BY <1>2, <2>2, <2>3
<1>4. CASE k > Full
  <2>1. InsideLine /\ k = Full + 1
    <3>1. Len(rows) # Full /\ k <= Len(rows)
      BY <1>1, <1>4
    <3>2. InsideLine /\ Len(rows) = Full + 1
      BY <3>1 DEF LineInv
    <3> QED BY <1>1, <1>4, <3>1, <3>2
  <2>2. rows[k].start \in Nat /\ rows[k].end \in Nat /\ time \in Nat
    <3>1. rows[k] \in RowTimes /\ time \in Nat
      BY ElementOfSeq DEF TypeOK
    <3> QED BY <3>1 DEF RowTimes
  <2>3. ~(rows[k].end < rows[k].start)
    BY <2>2 DEF Covers
  <2>4. parsed % RowUnits = RowUnits - 1 /\ rows[k] = Rows[k]
    BY <2>1, <2>3 DEF LineInv
  <2>5. k * RowUnits = Full * RowUnits + RowUnits
    BY <1>1, <2>1, TimesStep
  <2>6. k * RowUnits - 1 <= parsed
    BY <1>1, <2>4, <2>5
  <2> QED BY <1>2, <2>4, <2>6
<1> QED
  BY <1>1, <1>3, <1>4

LEMMA FoundStep ==
  TypeOK /\ LineInv /\ FoundInv /\ [Next]_vars => FoundInv'
<1> SUFFICES ASSUME TypeOK, LineInv, FoundInv, [Next]_vars,
                    rPc' # "idle", purpose' # "find"
             PROVE  /\ foundRow' \in 1 .. Len(Rows)
                    /\ foundRow' * RowUnits - 1 <= onDisk'
                    /\ InsideLine' => foundRow' * RowUnits - 1 <= parsed'
  BY DEF FoundInv
<1>1. onDisk \in Nat /\ onDisk' \in Nat /\ onDisk <= onDisk' /\ RowUnits \in Nat
  BY Growth, UnitsType
<1>2. ASSUME rPc # "idle", purpose # "find", foundRow' = foundRow,
             InsideLine' => InsideLine /\ parsed' = parsed
      PROVE  /\ foundRow' \in 1 .. Len(Rows)
             /\ foundRow' * RowUnits - 1 <= onDisk'
             /\ InsideLine' => foundRow' * RowUnits - 1 <= parsed'
  <2>1. foundRow \in Nat /\ foundRow * RowUnits \in Nat
    BY <1>1, <1>2, RowsType DEF FoundInv
  <2> QED BY <1>1, <1>2, <2>1 DEF FoundInv
<1>3. CASE Writer
  <2>1. UNCHANGED readerVars
    BY <1>3, WriterStep
  <2> QED BY <1>2, <2>1 DEF readerVars, InsideLine
<1>4. CASE OpenIndex \/ AccessFails \/ Fetch \/ ParseRestOfLine
  <2>1. UNCHANGED <<parsed, foundRow, purpose>> /\ rPc # "idle"
    BY <1>4
    DEF OpenIndex, AccessFails, Fetch, ParseRestOfLine, NotRead, Answer
  <2> QED BY <1>2, <2>1 DEF InsideLine
<1>5. CASE ParseLine
  <2>1. UNCHANGED <<foundRow, purpose>> /\ rPc # "idle" /\ ~InsideLine'
    BY <1>5, ParseLineIs DEF ParseLine
  <2> QED BY <1>2, <2>1
<1>6. CASE ParseCutLine
  <2>1. /\ UNCHANGED <<rPc, foundRow, purpose>>
        /\ parsed' = onDisk
    BY <1>6, ParseCutLineIs
  <2>2. onDisk' = onDisk
    BY <1>6 DEF ParseCutLine, writerVars
  <2> QED BY <2>1, <2>2 DEF FoundInv
<1>7. CASE EndOfIndex
  <2>1. rPc' = "fopen" /\ parsed' = 0 /\ rows' = <<>>
    BY <1>7 DEF EndOfIndex, UseIndex, Answer, BeginReading
  <2>2. ~InsideLine'
    BY <2>1, LineInvEmpty
  <2>3. CASE purpose = "search"
    <3>1. foundRow' = foundRow /\ rPc # "idle"
      BY <1>7, <2>3 DEF EndOfIndex, UseIndex
    <3> QED BY <1>2, <2>2, <2>3, <3>1
  <2>4. CASE purpose = "find"
    <3>1. PICK k \in 1 .. Len(rows) : Covers(rows[k]) /\ foundRow' = k
      BY <1>7, <2>1, <2>4 DEF EndOfIndex, UseIndex, Answer
    <3>2. k \in 1 .. Len(Rows) /\ k * RowUnits - 1 <= parsed /\ k \in Nat
      BY <3>1, CoveringRowRead, RowsType
    <3>3. parsed \in Nat /\ parsed <= onDisk
      <4>1. fetched \in 0 .. onDisk /\ parsed \in 0 .. fetched
        BY DEF TypeOK
      <4> QED BY <1>1, <4>1
    <3>4. k * RowUnits - 1 <= onDisk'
      <4>1. k * RowUnits \in Nat
        BY <1>1, <3>2
      <4> QED BY <1>1, <3>2, <3>3, <4>1
    <3> QED BY <2>2, <3>1, <3>2, <3>4
  <2> QED
    BY <1>7, <2>1, <2>3, <2>4 DEF EndOfIndex, UseIndex, Answer
<1>8. CASE Request
  BY <1>8 DEF Request, BeginReading
<1>9. CASE UNCHANGED vars
  BY <1>2, <1>9 DEF vars, readerVars, InsideLine
<1> QED
  BY <1>3, <1>4, <1>5, <1>6, <1>7, <1>8, <1>9 DEF Next, Reader

LEMMA FoundStays == TypeOK /\ LineInv /\ FoundInv => FoundRowStays
<1> SUFFICES ASSUME TypeOK, LineInv, FoundInv,
                    rPc = "fgets", purpose # "find", AtEnd
             PROVE  foundRow <= Len(rows) /\ rows[foundRow] = Rows[foundRow]
  BY DEF FoundRowStays
<1>1. /\ Full \in Nat /\ RowUnits \in Nat /\ RowUnits >= 3 /\ parsed \in Nat
      /\ parsed % RowUnits \in 0 .. RowUnits - 1
      /\ parsed = Full * RowUnits + (parsed % RowUnits)
      /\ Full * RowUnits \in Nat
  BY Place, UnitsType
<1>2. foundRow \in 1 .. Len(Rows) /\ foundRow \in Nat
  BY RowsType DEF FoundInv
<1>3. foundRow * RowUnits - 1 <= parsed /\ foundRow * RowUnits \in Nat
  BY <1>1, <1>2 DEF FoundInv, AtEnd
<1>4. CASE foundRow <= Full
  <2>1. Full <= Len(rows) /\ Len(rows) \in Nat
    BY <1>1, LenProperties DEF LineInv, TypeOK
  <2> QED BY <1>1, <1>2, <1>4, <2>1 DEF LineInv
<1>5. CASE foundRow > Full
  <2>1. foundRow = Full + 1 /\ parsed % RowUnits = RowUnits - 1
    <3>1. (Full + 1) * RowUnits = Full * RowUnits + RowUnits
      BY <1>1, TimesStep
    <3>2. (Full + 2) * RowUnits = Full * RowUnits + RowUnits + RowUnits
      <4>1. (Full + 1 + 1) * RowUnits = (Full + 1) * RowUnits + RowUnits
        BY <1>1, TimesStep
      <4> QED BY <1>1, <3>1, <4>1
    <3>3. ASSUME foundRow >= Full + 2 PROVE FALSE
      <4>1. (Full + 2) * RowUnits <= foundRow * RowUnits
        BY <1>1, <1>2, <3>3, TimesMonotone
      <4> QED BY <1>1, <1>3, <3>2, <4>1
    <3>4. foundRow = Full + 1
      BY <1>1, <1>2, <1>5, <3>3
    <3> QED BY <1>1, <1>3, <3>1, <3>4
  <2>2. InsideLine
    BY <1>1, <2>1 DEF InsideLine
  <2> QED BY <1>1, <2>1, <2>2 DEF LineInv
<1> QED
  BY <1>1, <1>2, <1>4, <1>5
-----------------------------------------------------------------------------
(* Requests that begin when the file has been closed *)

(* The index is whole, and the reader is between two lines or at the end. *)
LEMMA ClosedPlace ==
  ASSUME TypeOK, LineInv, WriterInv, closedFirst, ~InsideLine
  PROVE  /\ fetched = onDisk /\ fetched - parsed < RowUnits => parsed = onDisk
         /\ parsed = onDisk => rows = Rows
<1>1. /\ Full \in Nat /\ RowUnits \in Nat \ {0} /\ parsed \in Nat
      /\ parsed = Full * RowUnits /\ Len(Rows) \in Nat
      /\ onDisk = Len(Rows) * RowUnits /\ onDisk \in Nat
      /\ Full <= Len(Rows)
  <2>1. parsed % RowUnits = 0
    BY DEF InsideLine
  <2>2. onDisk = Len(Rows) * RowUnits
    BY DEF WriterInv
  <2> QED BY <2>1, <2>2, Place, UnitsType, RowsType
<1>2. ASSUME Full < Len(Rows)
      PROVE  parsed + RowUnits <= onDisk
  <2>1. (Full + 1) * RowUnits <= Len(Rows) * RowUnits
    BY <1>1, <1>2, TimesMonotone
  <2>2. (Full + 1) * RowUnits = Full * RowUnits + RowUnits
    BY <1>1, TimesStep
  <2> QED BY <1>1, <2>1, <2>2
<1>3. ASSUME fetched = onDisk, fetched - parsed < RowUnits
      PROVE  parsed = onDisk
  <2>1. Full = Len(Rows)
    BY <1>1, <1>2, <1>3
  <2> QED BY <1>1, <2>1
<1>4. ASSUME parsed = onDisk PROVE rows = Rows
  <2>1. Full = Len(Rows)
    BY <1>1, <1>2, <1>4
  <2>2. Len(rows) = Len(Rows) /\ \A k \in 1 .. Len(rows) : rows[k] = Rows[k]
    BY <1>1, <2>1 DEF LineInv
  <2>3. rows \in Seq(RowTimes) /\ Rows \in Seq(RowTimes)
    <3>1. [start : Digits, end : Digits] \subseteq RowTimes
      BY DigitsType DEF RowTimes
    <3>2. rows \in Seq(RowTimes)
      BY DEF TypeOK
    <3>3. Rows \in Seq([start : Digits, end : Digits])
      BY ConstantsAssumption
    <3>4. Rows \in Seq(RowTimes)
      BY <3>1, <3>3, SeqMonotonic
    <3> QED BY <3>2, <3>4
  <2> QED BY <2>2, <2>3, SeqEqual
<1> QED
  BY <1>3, <1>4

(* In such a request nothing is unread, and its end is the end of the rows. *)
LEMMA ClosedSteps ==
  ASSUME IndexInv, Reader, closedFirst
  PROVE  /\ ~InsideLine /\ wPc = "closed"
         /\ ~(ParseRestOfLine \/ ParseCutLine)
         /\ OpenIndex => rPc' = "fgets"
         /\ EndOfIndex => rows = Rows
<1>1. rPc # "idle"
  BY DEF Reader, OpenIndex, AccessFails, ParseLine, Fetch, ParseCutLine,
         ParseRestOfLine, EndOfIndex
<1>2. ~InsideLine /\ wPc = "closed"
  BY <1>1 DEF IndexInv, ClosedInv, WriterInv
<1>3. parsed \in Nat /\ fetched \in Nat /\ RowUnits \in Nat
  BY Place, UnitsType DEF IndexInv
<1>4. ASSUME ParseCutLine PROVE FALSE
  <2>1. fetched = onDisk /\ parsed < fetched /\ ~(fetched - parsed >= RowUnits)
    BY <1>4 DEF ParseCutLine, LineInBuffer
  <2>2. parsed = onDisk
    BY <1>2, <1>3, <2>1, ClosedPlace DEF IndexInv
  <2> QED BY <1>3, <2>1, <2>2
<1>5. ~ParseRestOfLine
  BY <1>2 DEF ParseRestOfLine
<1>6. OpenIndex => rPc' = "fgets"
  BY <1>2 DEF OpenIndex
<1>7. ASSUME EndOfIndex PROVE rows = Rows
  <2>1. parsed = onDisk
    BY <1>2, <1>7 DEF EndOfIndex, AtEnd
  <2> QED BY <1>2, <2>1, ClosedPlace DEF IndexInv
<1> QED
  BY <1>2, <1>4, <1>5, <1>6, <1>7

LEMMA ClosedStep == IndexInv /\ [Next]_vars => ClosedInv'
<1> SUFFICES ASSUME IndexInv, [Next]_vars PROVE ClosedInv'
  OBVIOUS
<1> USE DEF IndexInv
<1>1. CASE Writer \/ UNCHANGED vars
  <2>1. UNCHANGED readerVars
    BY <1>1, WriterStep DEF vars
  <2> QED
    BY <2>1 DEF ClosedInv, ClosedIndexServed, InsideLine, Covers, readerVars
<1>2. CASE Request
  <2>1. parsed' = 0 /\ rows' = <<>> /\ rPc' = "fopen"
    BY <1>2 DEF Request, BeginReading
  <2>2. ~InsideLine'
    BY <2>1, LineInvEmpty
  <2> QED BY <2>1, <2>2 DEF ClosedInv, ClosedIndexServed
<1>3. CASE Reader
  <2> SUFFICES ASSUME closedFirst' PROVE ClosedInv'
    BY DEF ClosedInv, ClosedIndexServed
  <2>1. closedFirst /\ time' = time
    BY <1>3
    DEF Reader, OpenIndex, AccessFails, ParseLine, Fetch, ParseCutLine,
        ParseRestOfLine, EndOfIndex, requestVars
  <2>2. ~InsideLine
    BY <1>3, <2>1, ClosedSteps
  <2>3. CASE OpenIndex
    <3>1. rPc' = "fgets" /\ parsed' = parsed
      BY <1>3, <2>1, <2>3, ClosedSteps DEF OpenIndex, NotRead, Answer
    <3> QED BY <2>2, <3>1 DEF ClosedInv, ClosedIndexServed, InsideLine
  <2>4. CASE AccessFails
    <3>1. rPc' = "idle" /\ readFailed'
      BY <2>4 DEF AccessFails, NotRead, Answer
    <3> QED BY <3>1 DEF ClosedInv, ClosedIndexServed
  <2>5. CASE ParseLine
    <3>1. ~InsideLine' /\ rPc' = "fgets"
      BY <2>5, ParseLineIs DEF ParseLine
    <3> QED BY <3>1 DEF ClosedInv, ClosedIndexServed
  <2>6. CASE Fetch
    <3>1. parsed' = parsed /\ rPc' = "fgets"
      BY <2>6 DEF Fetch
    <3> QED BY <2>2, <3>1 DEF ClosedInv, ClosedIndexServed, InsideLine
  <2>7. CASE EndOfIndex
    <3>1. rows = Rows
      BY <1>3, <2>1, <2>7, ClosedSteps
    <3>2. CASE rPc' = "fopen"
      <4>1. parsed' = 0 /\ rows' = <<>>
        BY <2>7, <3>2 DEF EndOfIndex, UseIndex, Answer, BeginReading
      <4>2. ~InsideLine'
        BY <4>1, LineInvEmpty
      <4> QED BY <3>2, <4>2 DEF ClosedInv, ClosedIndexServed
    <3>3. CASE rPc' = "idle"
      <4>1. /\ rows' = Rows
            /\ \/ answer' = 200
               \/ /\ answer' = 404
                  /\ \A k \in 1 .. Len(Rows) : ~Covers(Rows[k])
        BY <2>7, <3>1, <3>3 DEF EndOfIndex, UseIndex, Answer, BeginReading
      <4> QED
        BY <2>1, <3>3, <4>1 DEF ClosedInv, ClosedIndexServed, Covers
    <3> QED
      BY <2>7, <3>2, <3>3 DEF EndOfIndex, UseIndex, Answer, BeginReading
  <2> QED
    BY <1>3, <2>1, <2>3, <2>4, <2>5, <2>6, <2>7, ClosedSteps DEF Reader
<1> QED
  BY <1>1, <1>2, <1>3 DEF Next
-----------------------------------------------------------------------------
(* Theorems *)

LEMMA IndexInvInit == Init => IndexInv
<1> SUFFICES ASSUME Init PROVE IndexInv
  OBVIOUS
<1>1. TypeOK
  <2>1. 0 * RowUnits = 0 /\ Len(Rows) \in Nat
    BY UnitsType, RowsType
  <2>5. /\ printed = 0 /\ onDisk = 0 /\ fetched = 0 /\ parsed = 0
        /\ time = 0 /\ foundRow = 0
    BY DEF Init
  <2>6. /\ printed \in 0 .. Len(Rows) /\ foundRow \in 0 .. Len(Rows)
        /\ onDisk \in 0 .. printed * RowUnits
    BY <2>1, <2>5
  <2>7. fetched \in 0 .. onDisk /\ parsed \in 0 .. fetched /\ time \in Nat
    BY <2>5
  <2>2. WriterTypeOK
    BY <2>6 DEF Init, WriterTypeOK
  <2>3. rows \in Seq(RowTimes)
    BY EmptySeq DEF Init
  <2>4. ReaderTypeOK
    BY <2>3, <2>6, <2>7 DEF Init, ReaderTypeOK, Purposes
  <2> QED BY <2>2, <2>4, TypeIs
<1>2. LineInv
  <2>1. 0 \div RowUnits = 0 /\ 0 % RowUnits = 0
    <3>1. RowUnits \in Nat \ {0}
      BY UnitsType
    <3> QED BY <3>1
  <2>2. Len(rows) = 0
    BY DEF Init
  <2> QED BY <2>1, <2>2 DEF Init, LineInv, Full, InsideLine
<1> QED
  BY <1>1, <1>2
  DEF Init, IndexInv, FoundInv, WriterInv, ClosedInv, ClosedIndexServed

LEMMA IndexInvStep == IndexInv /\ [Next]_vars => IndexInv'
BY TypeStep, LineStep, FoundStep, WriterInvStep, ClosedStep DEF IndexInv

LEMMA IndexInvariant == Spec => []IndexInv
BY IndexInvInit, IndexInvStep, PTL DEF Spec

(***************************************************************************)
(* The buffers of the writer and of the reader stay within the file, and   *)
(* what the reader gathers is a sequence of rows.                          *)
(***************************************************************************)
THEOREM TypeCorrect == Spec => []TypeOK
<1>1. IndexInv => TypeOK
  BY DEF IndexInv
<1> QED
  BY <1>1, IndexInvariant, PTL

(***************************************************************************)
(* storage_read_stream_idx gathers the rows of the stream from the first   *)
(* on; only the last can be cut, and a cut one holds no time.              *)
(***************************************************************************)
THEOREM RowsInOrder == Spec => []OnlyLastRowCut
<1>1. IndexInv => OnlyLastRowCut
  BY LastRowCut DEF IndexInv
<1> QED
  BY <1>1, IndexInvariant, PTL

(***************************************************************************)
(* The row by which a request has found the stream is there in every later *)
(* read of the index by this request.                                      *)
(***************************************************************************)
THEOREM FoundIsReadAgain == Spec => []FoundRowStays
<1>1. IndexInv => FoundRowStays
  BY FoundStays DEF IndexInv
<1> QED
  BY <1>1, IndexInvariant, PTL

(***************************************************************************)
(* A request that begins when the index has been closed finds the stream   *)
(* by each of its rows and opens all of its frames.                        *)
(***************************************************************************)
THEOREM ClosedIsWhole == Spec => []ClosedIndexServed
<1>1. IndexInv => ClosedIndexServed
  BY DEF IndexInv, ClosedInv
<1> QED
  BY <1>1, IndexInvariant, PTL
=============================================================================
