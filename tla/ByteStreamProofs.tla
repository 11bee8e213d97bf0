--------------------------- MODULE ByteStreamProofs ---------------------------
(***************************************************************************)
(* Theorems of ByteStream, for every number of frames, every length of     *)
(* their names and of a BMP, and every set of sizes of the buffer.         *)
(*                                                                         *)
(* stream_read implements Archive because the state of the stream says how *)
(* many bytes of the archive have been produced (PlaceInv), and the buffer *)
(* holds those that have not been delivered yet (BufferInv).               *)
(***************************************************************************)
EXTENDS ByteStream, SequenceTheorems, WellFoundedInduction, TLAPS

Content == ContentOf[NumFiles]

(* The bytes of the archive behind the first `at' begin with s. *)
Matches(s, at) ==
  /\ at + Len(s) <= Len(Content)
  /\ \A j \in 1 .. Len(s) : s[j] = Content[at + j]

Produced == IF pc = "read" THEN delivered + Len(buf) ELSE delivered

(* The bytes of the open file that are still to come *)
Missing == IF file THEN BmpSize - bmpPos ELSE 0

PlaceInv ==
  status = "open" =>
    /\ ~headerRead => nextFile = 0 /\ ~file /\ Produced = 0
    /\ headerRead => Produced = Len(ContentOf[nextFile]) - Missing
    /\ file => nextFile > 0

BufferInv ==
  status = "open" /\ pc = "read" => Matches(buf, delivered) /\ max > 0

StreamInv == TypeOK /\ PlaceInv /\ BufferInv
-----------------------------------------------------------------------------
(* Induction over the natural numbers, from their well-foundedness         *)

LEMMA NatSet ==
  ASSUME NEW S, 0 \in S, \A n \in Nat : n \in S => n + 1 \in S
  PROVE  Nat \subseteq S
<1> SUFFICES ASSUME Nat \ S # {} PROVE FALSE
  OBVIOUS
<1> DEFINE R == {ss \in Nat \X Nat : ss[1] < ss[2]}
           T == Nat \ S
<1>1. IsWellFoundedOn(R, Nat)
  BY NatLessThanWellFounded DEF OpToRel
<1>2. PICK n \in T : \A m \in T : ~(<<m, n>> \in R)
  <2> HIDE DEF R
  <2> QED BY <1>1, WFMin
<1>3. n # 0 /\ n - 1 \in Nat
  OBVIOUS
<1>4. n - 1 \in S
  <2> SUFFICES ASSUME n - 1 \in T PROVE FALSE
    BY <1>3
  <2>1. <<n - 1, n>> \in R
    BY <1>3
  <2> QED BY <1>2, <2>1
<1> QED
  BY <1>3, <1>4
-----------------------------------------------------------------------------
(* The bytes of the archive *)

LEMMA BytesIs ==
  ASSUME NEW what \in {"count", "name", "size", "bmp"},
         NEW f \in 0 .. NumFiles, NEW n \in Nat
  PROVE  Bytes(what, f, n) \in Seq(Byte) /\ Len(Bytes(what, f, n)) = n
<1>1. \A i \in 1 .. n : <<what, f, i>> \in Byte
  BY DEF Byte
<1>2. Bytes(what, f, n) \in [1 .. n -> Byte]
  BY <1>1 DEF Bytes
<1> QED
  BY <1>2

LEMMA Sizes ==
  /\ Count \in Seq(Byte) /\ Len(Count) = 4
  /\ \A f \in Files : /\ Header(f) \in Seq(Byte) /\ Len(Header(f)) \in Nat
                      /\ Len(Header(f)) = NameSize[f] + 8
                      /\ Bmp(f) \in Seq(Byte) /\ Len(Bmp(f)) = BmpSize
<1> USE ConstantsAssumption DEF Files
<1>1. Count \in Seq(Byte) /\ Len(Count) = 4
  <2>1. 0 \in 0 .. NumFiles
    OBVIOUS
  <2> QED BY <2>1, BytesIs DEF Count
<1>2. ASSUME NEW f \in Files
      PROVE  /\ Header(f) \in Seq(Byte) /\ Len(Header(f)) \in Nat
             /\ Len(Header(f)) = NameSize[f] + 8
             /\ Bmp(f) \in Seq(Byte) /\ Len(Bmp(f)) = BmpSize
  <2>1. f \in 0 .. NumFiles /\ NameSize[f] \in Nat /\ BmpSize \in Nat
    BY <1>2
  <2>2. /\ Bytes("name", f, NameSize[f]) \in Seq(Byte)
        /\ Len(Bytes("name", f, NameSize[f])) = NameSize[f]
        /\ Bytes("size", f, 8) \in Seq(Byte)
        /\ Len(Bytes("size", f, 8)) = 8
    BY <2>1, BytesIs
  <2>3. Header(f) \in Seq(Byte) /\ Len(Header(f)) = NameSize[f] + 8
    <3> DEFINE n == Bytes("name", f, NameSize[f])
               z == Bytes("size", f, 8)
    <3>1. n \in Seq(Byte) /\ z \in Seq(Byte) /\ Header(f) = n \o z
      BY <2>2 DEF Header
    <3>2. Len(n) = NameSize[f] /\ Len(z) = 8
      BY <2>2
    <3> HIDE DEF n, z
    <3>3. n \o z \in Seq(Byte) /\ Len(n \o z) = Len(n) + Len(z)
      BY <3>1, ConcatProperties
    <3> QED BY <3>1, <3>2, <3>3
  <2>4. Bmp(f) \in Seq(Byte) /\ Len(Bmp(f)) = BmpSize
    BY <2>1, BytesIs DEF Bmp
  <2> QED BY <2>1, <2>3, <2>4
<1> QED
  BY <1>1, <1>2

ContentUpTo(m, g) ==
  g = [f \in 0 .. m |->
         IF f = 0 THEN Count ELSE g[f - 1] \o Header(f) \o Bmp(f)]

LEMMA ContentExists == \A m \in Nat : \E g : ContentUpTo(m, g)
<1> DEFINE S == {m \in Nat : \E g : ContentUpTo(m, g)}
<1>1. 0 \in S
  <2> DEFINE g == [f \in 0 .. 0 |-> Count]
  <2>1. ContentUpTo(0, g)
    BY DEF ContentUpTo
  <2> QED BY <2>1
<1>2. ASSUME NEW m \in Nat, m \in S PROVE m + 1 \in S
  <2>1. PICK g : ContentUpTo(m, g)
    BY <1>2
  <2> DEFINE h == [f \in 0 .. m + 1 |->
                     IF f = m + 1 THEN g[m] \o Header(f) \o Bmp(f) ELSE g[f]]
  <2>2. ASSUME NEW f \in 0 .. m + 1
        PROVE  h[f] = IF f = 0 THEN Count ELSE h[f - 1] \o Header(f) \o Bmp(f)
    <3>1. CASE f = m + 1
      <4>1. f # 0 /\ f - 1 = m /\ f - 1 \in 0 .. m + 1 /\ f - 1 # m + 1
        BY <3>1
      <4> QED BY <3>1, <4>1
    <3>2. CASE f # m + 1
      <4>1. f \in 0 .. m
        BY <3>2
      <4>2. g[f] = IF f = 0 THEN Count ELSE g[f - 1] \o Header(f) \o Bmp(f)
        BY <2>1, <4>1 DEF ContentUpTo
      <4> QED BY <4>1, <4>2
    <3> QED BY <3>1, <3>2
  <2>3. ContentUpTo(m + 1, h)
    BY <2>2 DEF ContentUpTo
  <2> QED BY <2>3
<1> HIDE DEF S
<1>3. Nat \subseteq S
  BY <1>1, <1>2, NatSet
<1> QED
  BY <1>3 DEF S

LEMMA ContentOfIs ==
  \A f \in 0 .. NumFiles :
    ContentOf[f] = IF f = 0 THEN Count
                   ELSE ContentOf[f - 1] \o Header(f) \o Bmp(f)
<1>1. \E g : ContentUpTo(NumFiles, g)
  BY ContentExists, ConstantsAssumption
<1>2. ContentOf = CHOOSE g : ContentUpTo(NumFiles, g)
  BY DEF ContentOf, ContentUpTo
<1>3. ContentUpTo(NumFiles, ContentOf)
  BY <1>1, <1>2
<1> QED
  BY <1>3 DEF ContentUpTo

LEMMA ContentType ==
  \A f \in 0 .. NumFiles : ContentOf[f] \in Seq(Byte)
<1> DEFINE S == {f \in Nat : f <= NumFiles => ContentOf[f] \in Seq(Byte)}
<1> USE ConstantsAssumption
<1>1. 0 \in S
  BY ContentOfIs, Sizes
<1>2. ASSUME NEW f \in Nat, f \in S PROVE f + 1 \in S
  <2> SUFFICES ASSUME f + 1 <= NumFiles PROVE ContentOf[f + 1] \in Seq(Byte)
    OBVIOUS
  <2>1. ContentOf[f + 1] = ContentOf[f] \o Header(f + 1) \o Bmp(f + 1)
    <3>1. f + 1 \in 0 .. NumFiles /\ f + 1 # 0 /\ (f + 1) - 1 = f
      OBVIOUS
    <3> QED BY <3>1, ContentOfIs
  <2>2. ContentOf[f] \in Seq(Byte)
    BY <1>2
  <2>3. f + 1 \in Files
    BY DEF Files
  <2>4. Header(f + 1) \in Seq(Byte) /\ Bmp(f + 1) \in Seq(Byte)
    BY <2>3, Sizes
  <2> QED BY <2>1, <2>2, <2>4, ConcatProperties
<1> HIDE DEF S
<1>3. Nat \subseteq S
  BY <1>1, <1>2, NatSet
<1> QED
  BY <1>3 DEF S

(* Where the parts of a frame are *)
LEMMA ContentStep ==
  ASSUME NEW f \in Files
  PROVE  LET c == ContentOf[f]
             b == ContentOf[f - 1]
         IN /\ b \in Seq(Byte) /\ c \in Seq(Byte)
            /\ Len(c) = Len(b) + Len(Header(f)) + BmpSize
            /\ \A j \in 1 .. Len(b) : c[j] = b[j]
            /\ \A j \in 1 .. Len(Header(f)) : c[Len(b) + j] = Header(f)[j]
            /\ \A j \in 1 .. BmpSize :
                 c[Len(b) + Len(Header(f)) + j] = Bmp(f)[j]
<1> DEFINE b == ContentOf[f - 1]
           h == Header(f)
           m == Bmp(f)
           bh == b \o h
<1>1. f \in 0 .. NumFiles /\ f - 1 \in 0 .. NumFiles /\ f # 0
  BY ConstantsAssumption DEF Files
<1>2. /\ b \in Seq(Byte) /\ h \in Seq(Byte) /\ m \in Seq(Byte)
      /\ Len(m) = BmpSize
  BY <1>1, ContentType, Sizes
<1>3. ContentOf[f] = bh \o m
  BY <1>1, ContentOfIs
<1> HIDE DEF b, h, m
<1>4. /\ bh \in Seq(Byte) /\ Len(bh) = Len(b) + Len(h)
      /\ \A j \in 1 .. Len(b) + Len(h) :
           bh[j] = IF j <= Len(b) THEN b[j] ELSE h[j - Len(b)]
  BY <1>2, ConcatProperties
<1> HIDE DEF bh
<1>5. /\ bh \o m \in Seq(Byte) /\ Len(bh \o m) = Len(bh) + Len(m)
      /\ \A j \in 1 .. Len(bh) + Len(m) :
           (bh \o m)[j] = IF j <= Len(bh) THEN bh[j] ELSE m[j - Len(bh)]
  <2>1. bh \in Seq(Byte) /\ m \in Seq(Byte)
    BY <1>2, <1>4
  <2> QED BY <2>1, ConcatProperties
<1>6. Len(b) \in Nat /\ Len(h) \in Nat /\ Len(m) \in Nat
  BY <1>2, LenProperties
<1> DEFINE c == bh \o m
<1> HIDE DEF c
<1>7. /\ c \in Seq(Byte) /\ Len(c) = Len(b) + Len(h) + Len(m)
      /\ \A j \in 1 .. Len(b) + Len(h) + Len(m) :
           c[j] = IF j <= Len(b) + Len(h) THEN bh[j] ELSE m[j - (Len(b) + Len(h))]
  BY <1>4, <1>5 DEF c
<1>8. \A j \in 1 .. Len(b) : c[j] = b[j]
  BY <1>4, <1>6, <1>7
<1>9. \A j \in 1 .. Len(h) : c[Len(b) + j] = h[j]
  <2> TAKE j \in 1 .. Len(h)
  <2>1. Len(b) + j \in 1 .. Len(b) + Len(h) /\ ~(Len(b) + j <= Len(b))
        /\ Len(b) + j - Len(b) = j
    BY <1>6
  <2> QED BY <1>4, <1>6, <1>7, <2>1
<1>10. \A j \in 1 .. Len(m) : c[Len(b) + Len(h) + j] = m[j]
  <2> TAKE j \in 1 .. Len(m)
  <2>1. /\ Len(b) + Len(h) + j \in 1 .. Len(b) + Len(h) + Len(m)
        /\ ~(Len(b) + Len(h) + j <= Len(b) + Len(h))
        /\ Len(b) + Len(h) + j - (Len(b) + Len(h)) = j
    BY <1>6
  <2> QED BY <1>7, <2>1
<1> QED
  BY <1>2, <1>3, <1>7, <1>8, <1>9, <1>10 DEF b, h, m, c

(* The archive of the first frames is the beginning of the whole one. *)
LEMMA ContentGrows ==
  ASSUME NEW f \in 0 .. NumFiles
  PROVE  /\ Len(ContentOf[f]) \in Nat /\ Len(Content) \in Nat
         /\ Len(ContentOf[f]) <= Len(Content)
         /\ \A j \in 1 .. Len(ContentOf[f]) : Content[j] = ContentOf[f][j]
<1> DEFINE Prefix(g) == /\ Len(ContentOf[f]) <= Len(ContentOf[g])
                        /\ \A j \in 1 .. Len(ContentOf[f]) :
                             ContentOf[g][j] = ContentOf[f][j]
           S == {g \in Nat : f <= g /\ g <= NumFiles => Prefix(g)}
<1> USE ConstantsAssumption
<1>1. ASSUME NEW g \in 0 .. NumFiles
      PROVE  Len(ContentOf[g]) \in Nat
  BY ContentType, LenProperties
<1>2. Prefix(f)
  BY <1>1
<1>3. 0 \in S
  <2>1. f <= 0 => f = 0
    OBVIOUS
  <2> QED BY <1>2, <2>1
<1>4. ASSUME NEW g \in Nat, g \in S PROVE g + 1 \in S
  <2> SUFFICES ASSUME f <= g + 1, g + 1 <= NumFiles PROVE Prefix(g + 1)
    OBVIOUS
  <2>1. CASE f = g + 1
    BY <1>2, <2>1
  <2>2. CASE f <= g
    <3>1. Prefix(g) /\ g \in 0 .. NumFiles
      BY <1>4, <2>2
    <3> DEFINE e == g + 1
    <3>2. e \in Files /\ e - 1 = g
      BY DEF Files
    <3> HIDE DEF e
    <3>3. /\ Len(ContentOf[e]) = Len(ContentOf[g]) + Len(Header(e)) + BmpSize
          /\ \A j \in 1 .. Len(ContentOf[g]) : ContentOf[e][j] = ContentOf[g][j]
      BY <3>2, ContentStep
    <3>4. /\ Len(ContentOf[f]) \in Nat /\ Len(ContentOf[g]) \in Nat
          /\ Len(Header(e)) \in Nat /\ BmpSize \in Nat
      BY <1>1, <3>1, <3>2, Sizes
    <3>5. Len(ContentOf[f]) <= Len(ContentOf[e])
      BY <3>1, <3>3, <3>4
    <3>6. ASSUME NEW j \in 1 .. Len(ContentOf[f])
          PROVE  ContentOf[e][j] = ContentOf[f][j]
      <4>1. j \in 1 .. Len(ContentOf[g])
        BY <3>1, <3>4
      <4> QED BY <3>1, <3>3, <4>1
    <3> QED BY <3>5, <3>6 DEF e
  <2> QED BY <2>1, <2>2
<1>5. Nat \subseteq S
  <2> HIDE DEF S
  <2> QED BY <1>3, <1>4, NatSet
<1>6. Prefix(NumFiles)
  BY <1>5
<1>7. NumFiles \in 0 .. NumFiles
  OBVIOUS
<1> QED
  BY <1>1, <1>6, <1>7 DEF Content

LEMMA CountMatches == Matches(Count, 0) /\ Len(ContentOf[0]) = Len(Count)
<1>1. 0 \in 0 .. NumFiles
  BY ConstantsAssumption
<1>2. ContentOf[0] = Count
  BY <1>1, ContentOfIs
<1>3. /\ Len(Count) \in Nat /\ Len(Count) <= Len(Content)
      /\ \A j \in 1 .. Len(Count) : Content[j] = Count[j]
  BY <1>1, <1>2, ContentGrows
<1>4. \A j \in 1 .. Len(Count) : 0 + j = j
  BY <1>3
<1>5. 0 + Len(Count) <= Len(Content)
  BY <1>3
<1> DEFINE z == 0
<1> HIDE DEF z
<1>6. Matches(Count, z)
  <2>1. z + Len(Count) <= Len(Content) /\ \A j \in 1 .. Len(Count) : z + j = j
    BY <1>4, <1>5 DEF z
  <2> QED BY <1>3, <2>1 DEF Matches
<1> QED
  BY <1>2, <1>6 DEF z

LEMMA FrameMatches ==
  ASSUME NEW f \in Files
  PROVE  /\ Matches(Header(f), Len(ContentOf[f - 1]))
         /\ Matches(Bmp(f), Len(ContentOf[f]) - BmpSize)
         /\ Len(ContentOf[f]) = Len(ContentOf[f - 1]) + Len(Header(f)) + BmpSize
         /\ Len(ContentOf[f - 1]) \in Nat /\ Len(ContentOf[f]) \in Nat
<1> DEFINE b == ContentOf[f - 1]
           c == ContentOf[f]
           h == Header(f)
<1>1. /\ b \in Seq(Byte) /\ c \in Seq(Byte)
      /\ Len(c) = Len(b) + Len(h) + BmpSize
      /\ \A j \in 1 .. Len(h) : c[Len(b) + j] = h[j]
      /\ \A j \in 1 .. BmpSize : c[Len(b) + Len(h) + j] = Bmp(f)[j]
  BY ContentStep
<1>2. f \in 0 .. NumFiles
  BY ConstantsAssumption DEF Files
<1>3. /\ Len(c) \in Nat /\ Len(Content) \in Nat /\ Len(c) <= Len(Content)
      /\ \A j \in 1 .. Len(c) : Content[j] = c[j]
  BY <1>2, ContentGrows
<1>4. /\ Len(b) \in Nat /\ Len(h) \in Nat /\ BmpSize \in Nat
      /\ Len(Bmp(f)) = BmpSize
  BY <1>1, Sizes, LenProperties, ConstantsAssumption
<1> HIDE DEF b, c, h
<1>5. Matches(h, Len(b))
  <2>1. \A j \in 1 .. Len(h) : Len(b) + j \in 1 .. Len(c)
    BY <1>1, <1>4
  <2> QED BY <1>1, <1>3, <1>4, <2>1 DEF Matches
<1>6. Matches(Bmp(f), Len(c) - BmpSize)
  <2>1. Len(c) - BmpSize = Len(b) + Len(h)
    BY <1>1, <1>4
  <2>2. \A j \in 1 .. BmpSize : Len(b) + Len(h) + j \in 1 .. Len(c)
    BY <1>1, <1>4
  <2>3. Matches(Bmp(f), Len(b) + Len(h))
    BY <1>1, <1>3, <1>4, <2>2 DEF Matches
  <2> QED BY <2>1, <2>3
<1> QED
  BY <1>1, <1>3, <1>4, <1>5, <1>6 DEF b, c, h

LEMMA NothingMatches ==
  ASSUME NEW at \in Nat, at <= Len(Content)
  PROVE  Matches(<<>>, at)
<1>1. Len(<<>>) = 0
  OBVIOUS
<1> QED
  BY <1>1 DEF Matches

LEMMA MatchesConcat ==
  ASSUME NEW s \in Seq(Byte), NEW t \in Seq(Byte), NEW at \in Nat,
         Matches(s, at), Matches(t, at + Len(s))
  PROVE  Matches(s \o t, at) /\ s \o t \in Seq(Byte)
         /\ Len(s \o t) = Len(s) + Len(t)
<1> DEFINE st == s \o t
<1>1. /\ st \in Seq(Byte) /\ Len(st) = Len(s) + Len(t)
      /\ \A j \in 1 .. Len(s) + Len(t) :
           st[j] = IF j <= Len(s) THEN s[j] ELSE t[j - Len(s)]
  BY ConcatProperties
<1>2. Len(s) \in Nat /\ Len(t) \in Nat
  BY LenProperties
<1> HIDE DEF st
<1>3. ASSUME NEW j \in 1 .. Len(st) PROVE st[j] = Content[at + j]
  <2>1. CASE j <= Len(s)
    BY <1>1, <1>2, <1>3, <2>1, SMTT(30) DEF Matches
  <2>2. CASE j > Len(s)
    <3>1. /\ j - Len(s) \in 1 .. Len(t)
          /\ at + Len(s) + (j - Len(s)) = at + j
          /\ ~(j <= Len(s))
      BY <1>1, <1>2, <2>2
    <3> QED BY <1>1, <3>1 DEF Matches
  <2> QED BY <1>1, <1>2, <2>1, <2>2
<1>4. at + Len(st) <= Len(Content)
  <2>1. at + Len(s) + Len(t) <= Len(Content)
    BY DEF Matches
  <2>2. at + Len(st) = at + Len(s) + Len(t)
    BY <1>1, <1>2
  <2> QED BY <2>1, <2>2
<1> QED
  BY <1>1, <1>3, <1>4 DEF Matches, st

LEMMA MatchesSubSeq ==
  ASSUME NEW s \in Seq(Byte), NEW at \in Nat, Matches(s, at),
         NEW p \in 0 .. Len(s), NEW n \in 0 .. Len(s) - p
  PROVE  LET t == SubSeq(s, p + 1, p + n)
         IN  t \in Seq(Byte) /\ Len(t) = n /\ Matches(t, at + p)
<1> DEFINE t == SubSeq(s, p + 1, p + n)
<1>1. Len(s) \in Nat /\ p + 1 \in Int /\ p + n \in Int
  BY LenProperties
<1>2. \A i \in p + 1 .. p + n : s[i] \in Byte
  BY <1>1, ElementOfSeq
<1>3. /\ t \in Seq(Byte)
      /\ Len(t) = IF p + 1 <= p + n THEN p + n - (p + 1) + 1 ELSE 0
      /\ \A i \in 1 .. p + n - (p + 1) + 1 : t[i] = s[p + 1 + i - 1]
  BY <1>1, <1>2, SubSeqProperties
<1> HIDE DEF t
<1>4. Len(t) = n /\ \A i \in 1 .. n : t[i] = s[p + i]
  BY <1>1, <1>3
<1>5. Matches(t, at + p)
  <2>1. \A i \in 1 .. n : p + i \in 1 .. Len(s) /\ at + p + i = at + (p + i)
    BY <1>1
  <2>2. at + p + n <= Len(Content)
    <3>1. Len(Content) \in Nat /\ at + Len(s) <= Len(Content)
      BY ContentGrows, ConstantsAssumption DEF Matches
    <3> QED BY <1>1, <3>1
  <2> QED BY <1>4, <2>1, <2>2 DEF Matches
<1> QED
  BY <1>3, <1>4, <1>5 DEF t

(* What matches is the piece of the archive that Archive delivers. *)
LEMMA MatchesIsSubSeq ==
  ASSUME NEW s \in Seq(Byte), NEW at \in Nat, Matches(s, at)
  PROVE  s = SubSeq(Content, at + 1, at + Len(s))
<1> DEFINE t == SubSeq(Content, at + 1, at + Len(s))
<1>1. /\ Len(s) \in Nat /\ at + Len(s) <= Len(Content)
      /\ Content \in Seq(Byte) /\ Len(Content) \in Nat
  BY LenProperties, ContentType, ConstantsAssumption DEF Matches, Content
<1>2. \A i \in at + 1 .. at + Len(s) : Content[i] \in Byte
  BY <1>1, ElementOfSeq
<1>3. /\ t \in Seq(Byte)
      /\ Len(t) = IF at + 1 <= at + Len(s) THEN at + Len(s) - (at + 1) + 1 ELSE 0
      /\ \A i \in 1 .. at + Len(s) - (at + 1) + 1 : t[i] = Content[at + 1 + i - 1]
  BY <1>1, <1>2, SubSeqProperties
<1> HIDE DEF t
<1>4. Len(t) = Len(s) /\ \A i \in 1 .. Len(s) : t[i] = Content[at + i]
  BY <1>1, <1>3
<1>5. \A i \in 1 .. Len(s) : s[i] = t[i]
  BY <1>4 DEF Matches
<1>6. s = t
  BY <1>3, <1>4, <1>5, SeqEqual
<1> QED
  BY <1>6 DEF t
-----------------------------------------------------------------------------
(* What a call of read_part writes                                         *)

(* The file it copies from, and where it begins in its BMP *)
FileRead == IF file THEN nextFile ELSE nextFile + 1
PlaceRead == IF file THEN bmpPos ELSE 0

(* The buffer with the count, and with the header of the file *)
WithCount == buf \o CountDue
WithHead == WithCount \o (IF file THEN <<>> ELSE Header(FileRead))

LEMMA CountWritten ==
  ASSUME StreamInv, Reading
  PROVE  /\ WithCount \in Seq(Byte)
         /\ Len(WithCount) \in Nat
         /\ Matches(WithCount, delivered)
         /\ delivered + Len(WithCount) = Len(ContentOf[nextFile]) - Missing
<1>1. /\ status = "open" /\ pc = "read" /\ delivered \in Nat
      /\ buf \in Seq(Byte) /\ Len(buf) \in Nat /\ headerRead \in BOOLEAN
      /\ Matches(buf, delivered) /\ Produced = delivered + Len(buf)
  BY LenProperties DEF StreamInv, TypeOK, Reading, BufferInv, Produced
<1>2. CASE headerRead
  <2>1. WithCount = buf
    <3>1. WithCount = buf \o <<>>
      BY <1>2 DEF WithCount, CountDue
    <3> QED BY <1>1, <3>1, ConcatEmptySeq
  <2>2. Produced = Len(ContentOf[nextFile]) - Missing
    BY <1>1, <1>2 DEF StreamInv, PlaceInv
  <2> QED BY <1>1, <2>1, <2>2
<1>3. CASE ~headerRead
  <2>1. nextFile = 0 /\ ~file /\ delivered + Len(buf) = 0
    BY <1>1, <1>3 DEF StreamInv, PlaceInv
  <2>2. delivered = 0 /\ Len(buf) = 0
    BY <1>1, <2>1
  <2>3. buf = <<>>
    BY <1>1, <2>2, EmptySeq
  <2>4. WithCount = Count
    <3>1. WithCount = <<>> \o Count
      BY <1>3, <2>3 DEF WithCount, CountDue
    <3> QED BY <3>1, Sizes, ConcatEmptySeq
  <2>5. Matches(Count, delivered) /\ Len(ContentOf[nextFile]) = 4
    BY <2>1, <2>2, CountMatches, Sizes
  <2>6. delivered + Len(Count) = 4 /\ Len(Count) \in Nat /\ 4 - Missing = 4
    BY <2>1, <2>2, Sizes DEF Missing
  <2> QED BY <2>4, <2>5, <2>6, Sizes
<1> QED
  BY <1>1, <1>2, <1>3

LEMMA HeadWritten ==
  ASSUME StreamInv, Reading, file \/ nextFile < NumFiles
  PROVE  /\ FileRead \in Files
         /\ PlaceRead \in 0 .. BmpSize
         /\ WithHead \in Seq(Byte)
         /\ Len(WithHead) \in Nat
         /\ Matches(WithHead, delivered)
         /\ delivered + Len(WithHead)
              = Len(ContentOf[FileRead]) - (BmpSize - PlaceRead)
<1>1. /\ nextFile \in 0 .. NumFiles /\ file \in BOOLEAN
      /\ bmpPos \in 0 .. BmpSize /\ delivered \in Nat /\ NumFiles \in Nat
      /\ BmpSize \in Nat
  BY ConstantsAssumption DEF StreamInv, TypeOK
<1>2. /\ WithCount \in Seq(Byte) /\ Len(WithCount) \in Nat
      /\ Matches(WithCount, delivered)
      /\ delivered + Len(WithCount) = Len(ContentOf[nextFile]) - Missing
  BY CountWritten
<1>3. CASE file
  <2>1. nextFile > 0
    BY <1>3 DEF StreamInv, PlaceInv, Reading, TypeOK
  <2>2. FileRead = nextFile /\ FileRead \in Files /\ PlaceRead = bmpPos
    BY <1>1, <1>3, <2>1 DEF FileRead, PlaceRead, Files
  <2>3. WithHead = WithCount
    <3>1. WithHead = WithCount \o <<>>
      BY <1>3 DEF WithHead
    <3> QED BY <1>2, <3>1, ConcatEmptySeq
  <2> QED BY <1>1, <1>2, <1>3, <2>2, <2>3 DEF Missing
<1>4. CASE ~file
  <2> DEFINE e == nextFile + 1
             h == Header(e)
  <2>1. e \in Files /\ e - 1 = nextFile /\ FileRead = e /\ PlaceRead = 0
    BY <1>1, <1>4 DEF FileRead, PlaceRead, Files
  <2>2. WithHead = WithCount \o h
    BY <1>4, <2>1 DEF WithHead
  <2>3. delivered + Len(WithCount) = Len(ContentOf[nextFile])
    <3>1. Missing = 0 /\ Len(ContentOf[nextFile]) \in Nat
      BY <1>1, <1>4, ContentGrows DEF Missing
    <3> QED BY <1>2, <3>1
  <2> HIDE DEF e
  <2>4. /\ h \in Seq(Byte) /\ Len(h) \in Nat
        /\ Matches(h, Len(ContentOf[nextFile]))
        /\ Len(ContentOf[e]) = Len(ContentOf[nextFile]) + Len(h) + BmpSize
        /\ Len(ContentOf[nextFile]) \in Nat
    BY <2>1, FrameMatches, Sizes
  <2> HIDE DEF h
  <2>5. /\ Matches(WithCount \o h, delivered)
        /\ WithCount \o h \in Seq(Byte)
        /\ Len(WithCount \o h) = Len(WithCount) + Len(h)
    BY <1>1, <1>2, <2>3, <2>4, MatchesConcat
  <2>6. delivered + (Len(WithCount) + Len(h)) = Len(ContentOf[e]) - (BmpSize - 0)
    BY <1>1, <1>2, <2>3, <2>4, SMTT(30)
  <2>7. Len(WithCount) + Len(h) \in Nat /\ 0 \in 0 .. BmpSize
    BY <1>1, <1>2, <2>4
  <2> QED BY <2>1, <2>2, <2>5, <2>6, <2>7
<1> QED
  BY <1>3, <1>4

(* How much is copied, and the buffer it makes *)
SpaceLeft == max - Len(WithHead)
Copied == CopySize(SpaceLeft, BmpSize - PlaceRead)
PartRead == WithHead \o SubSeq(Bmp(FileRead), PlaceRead + 1, PlaceRead + Copied)

LEMMA FrameWritten ==
  ASSUME StreamInv, Reading, file \/ nextFile < NumFiles, SpaceLeft >= 0
  PROVE  /\ FileRead \in Files
         /\ PlaceRead + Copied \in 0 .. BmpSize
         /\ PartRead \in Seq(Byte)
         /\ Len(PartRead) \in Nat /\ Len(PartRead) <= max
         /\ Matches(PartRead, delivered)
         /\ delivered + Len(PartRead)
              = Len(ContentOf[FileRead]) - (BmpSize - (PlaceRead + Copied))
         /\ FileDone(Copied, SpaceLeft) => PlaceRead + Copied = BmpSize
<1>1. /\ FileRead \in Files /\ PlaceRead \in 0 .. BmpSize
      /\ WithHead \in Seq(Byte) /\ Len(WithHead) \in Nat
      /\ Matches(WithHead, delivered)
      /\ delivered + Len(WithHead)
           = Len(ContentOf[FileRead]) - (BmpSize - PlaceRead)
  BY HeadWritten
<1>2. /\ max \in Nat /\ BmpSize \in Nat /\ delivered \in Nat
      /\ Len(ContentOf[FileRead]) \in Nat
  BY <1>1, FrameMatches, ConstantsAssumption DEF StreamInv, TypeOK
<1>3. /\ Copied \in 0 .. BmpSize - PlaceRead
      /\ Copied <= SpaceLeft
      /\ FileDone(Copied, SpaceLeft) => Copied = BmpSize - PlaceRead
      /\ Len(WithHead) + SpaceLeft = max
      /\ SpaceLeft \in Int
  BY <1>1, <1>2 DEF Copied, CopySize, SpaceLeft, FileDone
<1> DEFINE at == Len(ContentOf[FileRead]) - BmpSize
           t == SubSeq(Bmp(FileRead), PlaceRead + 1, PlaceRead + Copied)
<1>4. at \in Nat /\ at + PlaceRead = delivered + Len(WithHead)
  <2>1. Len(ContentOf[FileRead]) >= BmpSize
    BY <1>1, <1>2, FrameMatches, Sizes
  <2> QED BY <1>1, <1>2, <2>1
<1>5. /\ Bmp(FileRead) \in Seq(Byte) /\ Len(Bmp(FileRead)) = BmpSize
      /\ Matches(Bmp(FileRead), at)
  BY <1>1, Sizes, FrameMatches
<1>6. /\ t \in Seq(Byte) /\ Len(t) = Copied /\ Matches(t, at + PlaceRead)
  <2> HIDE DEF at
  <2> QED BY <1>1, <1>3, <1>4, <1>5, MatchesSubSeq
<1> HIDE DEF t, at
<1>7. /\ WithHead \o t \in Seq(Byte)
      /\ Len(WithHead \o t) = Len(WithHead) + Copied
      /\ Matches(WithHead \o t, delivered)
  <2>1. Matches(t, delivered + Len(WithHead))
    BY <1>4, <1>6
  <2> QED BY <1>1, <1>2, <1>6, <2>1, MatchesConcat
<1>8. PartRead = WithHead \o t
  BY DEF PartRead, t
<1>9. /\ PlaceRead + Copied \in 0 .. BmpSize
      /\ Len(WithHead) + Copied \in Nat /\ Len(WithHead) + Copied <= max
      /\ delivered + (Len(WithHead) + Copied)
           = Len(ContentOf[FileRead]) - (BmpSize - (PlaceRead + Copied))
      /\ Copied = BmpSize - PlaceRead => PlaceRead + Copied = BmpSize
  BY <1>1, <1>2, <1>3, SMTT(30)
<1> QED
  BY <1>1, <1>3, <1>7, <1>8, <1>9
-----------------------------------------------------------------------------
(* One step: StreamInv is kept, and Archive does the same or nothing       *)

StepOfArchive == [A!Next]_archiveVars

LEMMA Inits == Init => StreamInv /\ A!Init
<1> SUFFICES ASSUME Init PROVE StreamInv /\ A!Init
  OBVIOUS
<1>1. /\ <<>> \in Seq(Byte) /\ Len(<<>>) = 0
      /\ NumFiles \in Nat /\ BmpSize \in Nat
  BY ConstantsAssumption, EmptySeq
<1>2. TypeOK
  <2>1. buf \in Seq(Byte) /\ last \in Seq(Byte) /\ Len(buf) <= max
    BY <1>1 DEF Init
  <2>2. /\ nextFile \in 0 .. NumFiles /\ bmpPos \in 0 .. BmpSize
        /\ max \in BufferSizes \cup {0} /\ delivered \in Nat
    BY <1>1 DEF Init
  <2>3. headerRead \in BOOLEAN /\ file \in BOOLEAN
    BY DEF Init
  <2>4. raw = "null" /\ pc = "idle" /\ fault = "none" /\ status = "open"
    BY DEF Init
  <2> QED BY <2>1, <2>2, <2>3, <2>4 DEF TypeOK
<1>3. PlaceInv /\ BufferInv
  BY DEF Init, PlaceInv, BufferInv, Produced
<1> QED
  BY <1>2, <1>3 DEF StreamInv, Init, A!Init

(* stream_read returns what it has written, and not nothing. *)
LEMMA Returned ==
  ASSUME NEW bytes, bytes \in Seq(Byte), Len(bytes) \in Nat \ {0},
         delivered \in Nat, status = "open",
         Matches(bytes, delivered), Return(bytes)
  PROVE  /\ delivered' \in Nat /\ last' \in Seq(Byte)
         /\ Produced' = delivered + Len(bytes)
         /\ pc' = "idle" /\ status' = "open"
         /\ StepOfArchive
<1>1. /\ delivered' = delivered + Len(bytes) /\ last' = bytes
      /\ pc' = "idle" /\ status' = status
  BY DEF Return
<1>2. delivered + Len(bytes) <= Len(Content) /\ Len(Content) \in Nat
  BY ContentGrows, ConstantsAssumption DEF Matches
<1>3. delivered' \in delivered + 1 .. Len(Content)
  BY <1>1, <1>2
<1>4. last' = SubSeq(Content, delivered + 1, delivered')
  BY <1>1, MatchesIsSubSeq
<1>5. A!Deliver
  BY <1>1, <1>3, <1>4 DEF A!Deliver, Content
<1>6. StepOfArchive
  BY <1>5 DEF StepOfArchive, A!Next
<1>7. Produced' = delivered + Len(bytes)
  BY <1>1 DEF Produced
<1> QED
  BY <1>1, <1>3, <1>6, <1>7

LEMMA Crashed ==
  ASSUME NEW cause \in {"overrun", "double_free"}, Crash(cause),
         status \in {"open", "eof", "error"}, TypeOK
  PROVE  /\ fault' \in {"overrun", "double_free"} /\ status' = "crashed"
         /\ delivered' \in Nat /\ last' \in Seq(Byte)
         /\ PlaceInv' /\ BufferInv' /\ StepOfArchive
<1>1. StepOfArchive
  BY DEF Crash, StepOfArchive, A!Next, A!Stop
<1> QED
  BY <1>1 DEF Crash, TypeOK, PlaceInv, BufferInv

LEMMA StreamReadStep ==
  ASSUME StreamInv, StreamRead
  PROVE  StreamInv' /\ StepOfArchive
<1>1. <<>> \in Seq(Byte) /\ Len(<<>>) = 0
  BY EmptySeq
<1>2. /\ status = "open" /\ pc = "idle" /\ pc' = "read" /\ buf' = <<>>
      /\ max' \in BufferSizes /\ delivered \in Nat
      /\ UNCHANGED <<headerRead, nextFile, file, raw, bmpPos, fault,
                     delivered, last, status>>
  BY DEF StreamRead, streamVars, archiveVars, StreamInv, TypeOK
<1>3. max' \in Nat /\ max' > 0
  BY <1>2, ConstantsAssumption
<1>4. TypeOK'
  <2>1. buf' \in Seq(Byte) /\ Len(buf') <= max'
    BY <1>1, <1>2, <1>3
  <2> QED BY <1>2, <2>1 DEF StreamInv, TypeOK
<1>5. PlaceInv'
  <2>1. Produced' = delivered + Len(<<>>) /\ Produced = delivered
    BY <1>2 DEF Produced
  <2>2. Produced' = Produced
    BY <1>1, <1>2, <2>1
  <2> QED BY <1>2, <2>2 DEF StreamInv, PlaceInv, Missing
<1>6. BufferInv'
  <2>1. delivered <= Len(Content)
    <3>1. CASE headerRead
      <4>1. delivered = Len(ContentOf[nextFile]) - Missing
        BY <1>2, <3>1 DEF StreamInv, PlaceInv, Produced
      <4>2. nextFile \in 0 .. NumFiles /\ Missing \in Nat
        BY ConstantsAssumption DEF Missing, StreamInv, TypeOK
      <4> QED BY <1>2, <4>1, <4>2, ContentGrows
    <3>2. CASE ~headerRead
      <4>1. delivered = 0
        BY <1>2, <3>2 DEF StreamInv, PlaceInv, Produced
      <4> QED BY <4>1, ContentGrows, ConstantsAssumption
    <3> QED BY <3>1, <3>2
  <2>2. Matches(<<>>, delivered)
    BY <1>2, <2>1, NothingMatches
  <2>3. Matches(buf, delivered)'
    BY <1>2, <2>2 DEF Matches, Content
  <2> QED BY <1>3, <2>3 DEF BufferInv
<1>7. StepOfArchive
  BY <1>2 DEF StepOfArchive, archiveVars
<1> QED
  BY <1>4, <1>5, <1>6, <1>7 DEF StreamInv

LEMMA PartOverrunsStep ==
  ASSUME StreamInv, PartOverruns
  PROVE  StreamInv' /\ StepOfArchive
<1>1. /\ status = "open" /\ Crash("overrun")
      /\ UNCHANGED <<headerRead, nextFile, file, raw, bmpPos, pc, max, buf>>
  BY DEF PartOverruns, Reading, streamVars
<1>2. /\ fault' = "overrun" \/ fault' = "double_free"
      /\ status' = "crashed"
      /\ delivered' \in Nat /\ last' \in Seq(Byte)
      /\ PlaceInv' /\ BufferInv' /\ StepOfArchive
  BY <1>1, Crashed DEF StreamInv
<1>3. TypeOK'
  BY <1>1, <1>2 DEF StreamInv, TypeOK
<1> QED
  BY <1>2, <1>3 DEF StreamInv

LEMMA PartAtEndStep ==
  ASSUME StreamInv, PartAtEnd
  PROVE  StreamInv' /\ StepOfArchive
<1>1. /\ Reading /\ status = "open" /\ ~file /\ nextFile = NumFiles
      /\ headerRead' = TRUE
      /\ Len(WithCount) <= max
      /\ \/ WithCount = <<>> /\ status' = "eof" /\ pc' = "idle"
            /\ UNCHANGED <<delivered, last>>
         \/ WithCount # <<>> /\ Return(WithCount)
      /\ UNCHANGED <<nextFile, file, raw, bmpPos, max, buf, fault>>
  BY DEF PartAtEnd, Reading, WithCount
<1>2. /\ WithCount \in Seq(Byte) /\ Len(WithCount) \in Nat
      /\ Matches(WithCount, delivered)
      /\ delivered + Len(WithCount) = Len(ContentOf[nextFile]) - Missing
      /\ delivered \in Nat
  BY <1>1, CountWritten DEF StreamInv, TypeOK
<1>3. /\ delivered + Len(WithCount) = Len(Content)
      /\ Len(Content) \in Nat
      /\ delivered + Len(WithCount) = Len(ContentOf[nextFile]) - Missing'
  <2>1. Missing = 0 /\ Missing' = 0
    BY <1>1 DEF Missing
  <2> QED BY <1>1, <1>2, <2>1, ContentGrows, ConstantsAssumption DEF Content
<1>4. CASE WithCount = <<>> /\ status' = "eof" /\ pc' = "idle"
           /\ UNCHANGED <<delivered, last>>
  <2>1. delivered = Len(Content)
    BY <1>2, <1>3, <1>4, EmptySeq
  <2>2. A!End
    BY <1>1, <1>4, <2>1 DEF A!End, Content
  <2>3. TypeOK'
    BY <1>1, <1>4 DEF StreamInv, TypeOK
  <2>4. PlaceInv' /\ BufferInv'
    BY <1>4 DEF PlaceInv, BufferInv
  <2> QED BY <2>2, <2>3, <2>4 DEF StreamInv, StepOfArchive, A!Next
<1>5. CASE WithCount # <<>> /\ Return(WithCount)
  <2>1. Len(WithCount) \in Nat \ {0}
    BY <1>2, <1>5, EmptySeq
  <2>2. /\ delivered' \in Nat /\ last' \in Seq(Byte)
        /\ Produced' = delivered + Len(WithCount)
        /\ pc' = "idle" /\ status' = "open"
        /\ StepOfArchive
    BY <1>1, <1>2, <1>5, <2>1, Returned
  <2>3. TypeOK'
    BY <1>1, <2>2 DEF StreamInv, TypeOK
  <2>4. PlaceInv'
    BY <1>1, <1>3, <2>2 DEF PlaceInv
  <2>5. BufferInv'
    BY <2>2 DEF BufferInv
  <2> QED BY <2>2, <2>3, <2>4, <2>5 DEF StreamInv
<1> QED
  BY <1>1, <1>4, <1>5

LEMMA PartFailsStep ==
  ASSUME StreamInv, PartFails
  PROVE  StreamInv' /\ StepOfArchive
<1>1. /\ status = "open" /\ nextFile < NumFiles
      /\ headerRead' = TRUE /\ nextFile' = nextFile + 1
      /\ \/ UNCHANGED <<file, raw>>
         \/ file' = TRUE /\ raw' \in {raw, "live"}
      /\ pc' = "idle" /\ status' = "error"
      /\ UNCHANGED <<bmpPos, max, buf, fault, delivered, last>>
  BY DEF PartFails, Reading
<1>2. TypeOK'
  <2>1. nextFile' \in 0 .. NumFiles
    BY <1>1, ConstantsAssumption DEF StreamInv, TypeOK
  <2>2. raw' \in {"null", "live", "freed"} /\ file' \in BOOLEAN
    BY <1>1 DEF StreamInv, TypeOK
  <2> QED BY <1>1, <2>1, <2>2 DEF StreamInv, TypeOK
<1>3. PlaceInv' /\ BufferInv'
  BY <1>1 DEF PlaceInv, BufferInv
<1>4. StepOfArchive
  BY <1>1 DEF StepOfArchive, A!Next, A!Stop
<1> QED
  BY <1>2, <1>3, <1>4 DEF StreamInv

LEMMA PartCopiesStep ==
  ASSUME StreamInv, PartCopies
  PROVE  StreamInv' /\ StepOfArchive
<1>1. /\ Reading /\ status = "open" /\ pc = "read"
      /\ file \/ nextFile < NumFiles
      /\ SpaceLeft >= 0
      /\ headerRead' = TRUE /\ nextFile' = FileRead
      /\ bmpPos' = PlaceRead + Copied /\ buf' = PartRead
      /\ \/ ~FileDone(Copied, SpaceLeft) /\ file' = TRUE /\ raw' = "freed"
            /\ Continue(PartRead)
         \/ FileDone(Copied, SpaceLeft) /\ file' = FALSE /\ raw' = "null"
            /\ Continue(PartRead)
         \/ Crash("double_free") /\ UNCHANGED <<file, raw, pc>>
      /\ max' = max
  BY DEF PartCopies, Reading, WithCount, WithHead, FileRead, PlaceRead,
         SpaceLeft, Copied, PartRead
<1>2. /\ FileRead \in Files /\ PlaceRead + Copied \in 0 .. BmpSize
      /\ PartRead \in Seq(Byte) /\ Len(PartRead) \in Nat
      /\ Len(PartRead) <= max /\ Matches(PartRead, delivered)
      /\ delivered + Len(PartRead)
           = Len(ContentOf[FileRead]) - (BmpSize - (PlaceRead + Copied))
      /\ FileDone(Copied, SpaceLeft) => PlaceRead + Copied = BmpSize
  BY <1>1, FrameWritten
<1> HIDE DEF FileRead, PlaceRead, Copied, PartRead, SpaceLeft
<1>3. /\ FileRead \in 0 .. NumFiles /\ FileRead > 0 /\ delivered \in Nat
      /\ max > 0 /\ max \in Nat
  BY <1>1, <1>2, ConstantsAssumption
     DEF Files, StreamInv, TypeOK, BufferInv
<1>4. CASE Crash("double_free") /\ UNCHANGED <<file, raw, pc>>
  <2>1. /\ fault' = "overrun" \/ fault' = "double_free"
        /\ status' = "crashed"
        /\ delivered' \in Nat /\ last' \in Seq(Byte)
        /\ PlaceInv' /\ BufferInv' /\ StepOfArchive
    BY <1>1, <1>4, Crashed DEF StreamInv
  <2>2. TypeOK'
    BY <1>1, <1>2, <1>3, <1>4, <2>1 DEF StreamInv, TypeOK
  <2> QED BY <2>1, <2>2 DEF StreamInv
<1>5. CASE /\ \/ ~FileDone(Copied, SpaceLeft) /\ file' = TRUE /\ raw' = "freed"
              \/ FileDone(Copied, SpaceLeft) /\ file' = FALSE /\ raw' = "null"
           /\ Continue(PartRead)
  <2>1. Missing' = BmpSize - (PlaceRead + Copied)
    <3>1. CASE file' = TRUE
      BY <1>1, <3>1 DEF Missing
    <3>2. CASE FileDone(Copied, SpaceLeft) /\ file' = FALSE
      <4>1. BmpSize - (PlaceRead + Copied) = 0
        BY <1>2, <3>2, ConstantsAssumption
      <4> QED BY <3>2, <4>1 DEF Missing
    <3> QED BY <1>5, <3>1, <3>2
  <2>2. delivered + Len(PartRead) = Len(ContentOf[nextFile']) - Missing'
    BY <1>1, <1>2, <2>1
  <2>3. file' \in BOOLEAN /\ raw' \in {"null", "live", "freed"} /\ fault' = fault
    BY <1>5 DEF Continue
  <2>4. CASE Len(PartRead) = max /\ Return(PartRead)
    <3>1. Len(PartRead) \in Nat \ {0}
      BY <1>2, <1>3, <2>4
    <3>2. /\ delivered' \in Nat /\ last' \in Seq(Byte)
          /\ Produced' = delivered + Len(PartRead)
          /\ pc' = "idle" /\ status' = "open"
          /\ StepOfArchive
      BY <1>1, <1>2, <1>3, <2>4, <3>1, Returned
    <3>3. TypeOK'
      BY <1>1, <1>2, <1>3, <2>3, <3>2 DEF StreamInv, TypeOK
    <3>4. PlaceInv'
      BY <1>1, <1>3, <2>2, <3>2 DEF PlaceInv
    <3>5. BufferInv'
      BY <3>2 DEF BufferInv
    <3> QED BY <3>2, <3>3, <3>4, <3>5 DEF StreamInv
  <2>5. CASE UNCHANGED <<pc, archiveVars>>
    <3>1. /\ pc' = "read" /\ delivered' = delivered /\ last' = last
          /\ status' = "open"
      BY <1>1, <2>5 DEF archiveVars
    <3>2. TypeOK'
      BY <1>1, <1>2, <1>3, <2>3, <3>1 DEF StreamInv, TypeOK
    <3>3. PlaceInv'
      <4>1. Produced' = delivered + Len(PartRead)
        BY <1>1, <3>1 DEF Produced
      <4> QED BY <1>1, <1>3, <2>2, <3>1, <4>1 DEF PlaceInv
    <3>4. BufferInv'
      <4>1. Matches(buf, delivered)'
        BY <1>1, <1>2, <3>1 DEF Matches, Content
      <4> QED BY <1>1, <1>3, <4>1 DEF BufferInv
    <3>5. StepOfArchive
      BY <2>5 DEF StepOfArchive
    <3> QED BY <3>2, <3>3, <3>4, <3>5 DEF StreamInv
  <2> QED BY <1>5, <2>4, <2>5 DEF Continue
<1> QED
  BY <1>1, <1>4, <1>5

LEMMA StreamCloseStep ==
  ASSUME StreamInv, StreamClose
  PROVE  StreamInv' /\ StepOfArchive
<1>1. /\ status \in {"open", "eof", "error"}
      /\ file' = FALSE /\ raw' = "null"
      /\ UNCHANGED <<headerRead, nextFile, bmpPos, pc, max, buf>>
  BY DEF StreamClose
<1>2. CASE status' = "closed" /\ UNCHANGED <<fault, delivered, last>>
  <2>1. TypeOK'
    BY <1>1, <1>2 DEF StreamInv, TypeOK
  <2>2. PlaceInv' /\ BufferInv'
    BY <1>2 DEF PlaceInv, BufferInv
  <2>3. StepOfArchive
    BY <1>1, <1>2 DEF StepOfArchive, A!Next, A!Stop
  <2> QED BY <2>1, <2>2, <2>3 DEF StreamInv
<1>3. CASE Crash("double_free")
  <2>1. /\ fault' = "overrun" \/ fault' = "double_free"
        /\ status' = "crashed"
        /\ delivered' \in Nat /\ last' \in Seq(Byte)
        /\ PlaceInv' /\ BufferInv' /\ StepOfArchive
    BY <1>1, <1>3, Crashed DEF StreamInv
  <2>2. TypeOK'
    BY <1>1, <2>1 DEF StreamInv, TypeOK
  <2> QED BY <2>1, <2>2 DEF StreamInv
<1> QED
  BY <1>2, <1>3 DEF StreamClose

LEMMA Stutters ==
  ASSUME StreamInv, UNCHANGED vars
  PROVE  StreamInv' /\ StepOfArchive
BY DEF StreamInv, TypeOK, PlaceInv, BufferInv, Produced, Missing, Matches,
       Content, vars, streamVars, archiveVars, StepOfArchive

LEMMA Steps == StreamInv /\ [Next]_vars => StreamInv' /\ StepOfArchive
BY StreamReadStep, PartOverrunsStep, PartAtEndStep, PartFailsStep,
   PartCopiesStep, StreamCloseStep, Stutters DEF Next, ReadStep, Over

LEMMA StreamInvariant == Spec => []StreamInv
<1>1. Init => StreamInv
  BY Inits
<1>2. StreamInv /\ [Next]_vars => StreamInv'
  BY Steps
<1> QED
  BY <1>1, <1>2, PTL DEF Spec
-----------------------------------------------------------------------------
(* The buffer is never longer than the caller's, nor a place behind the    *)
(* end of a frame: the variables of stream_read keep to their types.       *)
THEOREM TypeCorrect == Spec => []TypeOK
<1>1. StreamInv => TypeOK
  BY DEF StreamInv
<1> QED
  BY <1>1, StreamInvariant, PTL

(* stream_read implements Archive: the reader gets the bytes of the        *)
(* archive in order, without a gap, and EOF only behind the last one.      *)
THEOREM ArchiveGiven == Spec => ImplementsArchive
<1>1. Init => A!Init
  BY Inits
<1>2. StreamInv /\ [Next]_vars => [A!Next]_<<delivered, last, status>>
  BY Steps DEF StepOfArchive, archiveVars
<1> QED
  BY <1>1, <1>2, StreamInvariant, PTL DEF Spec, ImplementsArchive, A!Spec
=============================================================================
