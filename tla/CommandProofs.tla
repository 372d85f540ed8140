---------------------------- MODULE CommandProofs ---------------------------
(***************************************************************************)
(* Theorems of the commands that keep a user's files.  Of Files (DREDIX),  *)
(* for every number of buffers, files, texts and commands: what the user   *)
(* wrote is on the disk, is read back, and is given up only if the user    *)
(* was told.  Of Search (DREDIX), for every text, pattern and replacement: *)
(* the matcher is exact and a search passes over nothing.  Of HexCom, for  *)
(* every file, radix, window and record size: the .COM file is the image.  *)
(***************************************************************************)
EXTENDS Files, Search, HexCom, SequenceTheorems, FiniteSetTheorems, TLAPS

Numbers == INSTANCE ProcessListsProofs WITH Proc <- Names

Plain == Chars \ {NL, EOF}
Line == Seq(Plain)
Text == Seq(Line) \ {<<>>}

----------------------------------------------------------------------------
(* fgets.                                                                   *)

LEMMA LeastIs ==
  ASSUME NEW S \in SUBSET Nat, S # {}
  PROVE  LeastOf(S) \in S /\ \A y \in S : LeastOf(S) <= y
  BY Numbers!LeastNumber DEF LeastOf

Stops(d, i, k, max) == k - i + 1 = max \/ d[k] = NL \/ k = Len(d) \/ d[k + 1] = EOF

LEMMA GotToIs ==
  ASSUME NEW d \in Seq(Chars), NEW i \in 1 .. Len(d), NEW max \in Nat
  PROVE  /\ GotTo(d, i, max) \in i .. Len(d)
         /\ Stops(d, i, GotTo(d, i, max), max)
         /\ \A k \in i .. GotTo(d, i, max) - 1 : ~ Stops(d, i, k, max)
<1> DEFINE S == {k \in i .. Len(d) : Stops(d, i, k, max)}
<1>1. S \in SUBSET Nat /\ Len(d) \in S
  BY DEF Stops
<1>2. GotTo(d, i, max) = LeastOf(S)
  BY DEF GotTo, Stops
<1>3. LeastOf(S) \in S /\ \A y \in S : LeastOf(S) <= y
  <2> HIDE DEF S
  <2> QED
    BY <1>1, LeastIs
<1>4. \A k \in i .. LeastOf(S) - 1 : k \in i .. Len(d) /\ ~ LeastOf(S) <= k
  BY <1>3
<1> QED
  BY <1>2, <1>3, <1>4

\* What fgets gives from place i on, if it gives F further on.
GotFrom(d, max, F, i) ==
  IF i > Len(d) \/ d[i] = EOF THEN <<>>
  ELSE << SubSeq(d, i, GotTo(d, i, max) - 1) >> \o F[GotTo(d, i, max) + 1]

IsGot(d, max, F) == F = [i \in 1 .. Len(d) + 1 |-> GotFrom(d, max, F, i)]

LEMMA GetsIs ==
  ASSUME NEW d \in Seq(Chars), NEW max \in Nat
  PROVE  \E F : IsGot(d, max, F) /\ GetsBy(d, max) = F[1]
<1> DEFINE D == 1 .. Len(d) + 1
           Fits(g, j) == /\ g = [i \in D |-> g[i]]
                         /\ \A i \in D : i > Len(d) + 1 - j => g[i] = GotFrom(d, max, g, i)
           T == {j \in Nat : j <= Len(d) + 1 => \E g : Fits(g, j)}
<1>1. 0 \in T
  <2>1. Fits([i \in D |-> 0], 0)
    OBVIOUS
  <2> QED
    BY <2>1
<1>2. ASSUME NEW j \in Nat, j \in T PROVE j + 1 \in T
  <2> SUFFICES ASSUME j + 1 <= Len(d) + 1 PROVE \E g : Fits(g, j + 1)
    OBVIOUS
  <2>1. PICK g : Fits(g, j)
    BY <1>2
  <2> DEFINE n == Len(d) + 1 - j
             h == [i \in D |-> IF i = n THEN GotFrom(d, max, g, n) ELSE g[i]]
  <2>2. n \in D
    OBVIOUS
  <2>3. ASSUME NEW i \in D, i >= n PROVE GotFrom(d, max, h, i) = GotFrom(d, max, g, i)
    <3>1. CASE i > Len(d) \/ d[i] = EOF
      BY <3>1 DEF GotFrom
    <3>2. CASE ~ (i > Len(d) \/ d[i] = EOF)
      <4>1. i \in 1 .. Len(d)
        BY <3>2
      <4>2. GotTo(d, i, max) \in i .. Len(d)
        BY <4>1, GotToIs
      <4>3. GotTo(d, i, max) + 1 \in D /\ GotTo(d, i, max) + 1 # n
        BY <2>3, <4>1, <4>2
      <4>4. h[GotTo(d, i, max) + 1] = g[GotTo(d, i, max) + 1]
        BY <4>3
      <4> HIDE DEF h, n
      <4>5. /\ GotFrom(d, max, h, i) = << SubSeq(d, i, GotTo(d, i, max) - 1) >> \o h[GotTo(d, i, max) + 1]
            /\ GotFrom(d, max, g, i) = << SubSeq(d, i, GotTo(d, i, max) - 1) >> \o g[GotTo(d, i, max) + 1]
        BY <3>2, Zenon DEF GotFrom
      <4> QED
        BY <4>4, <4>5, Zenon
    <3> QED
      BY <3>1, <3>2
  <2>4. ASSUME NEW i \in D, i > Len(d) + 1 - (j + 1) PROVE h[i] = GotFrom(d, max, h, i)
    <3>1. i >= n
      BY <2>4
    <3>2. h[i] = GotFrom(d, max, g, i)
      <4>1. CASE i = n
        BY <4>1
      <4>2. CASE i # n
        <5>1. i > Len(d) + 1 - j
          BY <3>1, <4>2
        <5>2. g[i] = GotFrom(d, max, g, i)
          BY <2>1, <5>1
        <5> QED
          BY <4>2, <5>2
      <4> QED
        BY <4>1, <4>2
    <3> QED
      BY <2>3, <3>1, <3>2
  <2>5. h = [i \in D |-> h[i]]
    OBVIOUS
  <2>6. Fits(h, j + 1)
    <3> HIDE DEF h
    <3> QED
      BY <2>4, <2>5
  <2> QED
    <3> HIDE DEF Fits
    <3> QED
      BY <2>6
<1>3. Nat \subseteq T
  <2> HIDE DEF T
  <2> QED
    BY <1>1, <1>2, Numbers!NumbersReached
<1>4. PICK g : Fits(g, Len(d) + 1)
  <2> HIDE DEF Fits
  <2>1. Len(d) + 1 \in T
    BY <1>3
  <2> QED
    BY <2>1
<1>5. IsGot(d, max, g)
  <2>1. \A i \in D : g[i] = GotFrom(d, max, g, i)
    BY <1>4
  <2>2. g = [i \in D |-> g[i]]
    BY <1>4
  <2> QED
    BY <2>1, <2>2 DEF IsGot
<1>6. GetsBy(d, max) = (CHOOSE F : IsGot(d, max, F))[1]
  BY DEF GetsBy, IsGot, GotFrom
<1>7. IsGot(d, max, CHOOSE F : IsGot(d, max, F))
  BY <1>5
<1> QED
  BY <1>6, <1>7

\* What fgets gives holds no end of line or of the file.
LEMMA LineGot ==
  ASSUME NEW d \in Seq(Chars), NEW max \in Nat, NEW i \in 1 .. Len(d), d[i] # EOF
  PROVE  SubSeq(d, i, GotTo(d, i, max) - 1) \in Line
<1> DEFINE n == GotTo(d, i, max)
<1>1. /\ n \in i .. Len(d)
      /\ \A k \in i .. n - 1 : ~ Stops(d, i, k, max)
  BY GotToIs
<1> HIDE DEF n
<1>2. SubSeq(d, i, n - 1) = [k \in 1 .. n - i |-> d[i + k - 1]]
  BY <1>1
<1>3. ASSUME NEW k \in 1 .. n - i PROVE d[i + k - 1] \in Plain
  <2>1. i + k - 1 \in i .. n - 1 /\ i + k - 1 \in 1 .. Len(d)
    BY <1>1
  <2>2. d[i + k - 1] \in Chars /\ d[i + k - 1] # NL
    BY <1>1, <2>1 DEF Stops
  <2>3. d[i + k - 1] # EOF
    <3>1. CASE k = 1
      BY <3>1
    <3>2. CASE k # 1
      <4>1. i + k - 2 \in i .. n - 1 /\ (i + k - 2) + 1 = i + k - 1
        BY <1>1, <3>2
      <4>2. d[(i + k - 2) + 1] # EOF
        BY <1>1, <4>1 DEF Stops
      <4> QED
        BY <4>1, <4>2
    <3> QED
      BY <3>1, <3>2
  <2> QED
    BY <2>2, <2>3 DEF Plain
<1>4. n - i \in Nat
  BY <1>1
<1>5. [k \in 1 .. n - i |-> d[i + k - 1]] \in Seq(Plain)
  <2>1. PICK m \in Nat : m = n - i
    BY <1>4
  <2>2. [k \in 1 .. m |-> d[i + k - 1]] \in [1 .. m -> Plain]
    BY <1>3, <2>1
  <2> QED
    BY <2>1, <2>2, SeqDef
<1> QED
  BY <1>2, <1>5 DEF Line, n

\* Whatever a file holds, what is read is a sequence of lines.
LEMMA GetsLines ==
  ASSUME NEW d \in Seq(Chars), NEW max \in Nat
  PROVE  GetsBy(d, max) \in Seq(Line)
<1>1. PICK F : IsGot(d, max, F) /\ GetsBy(d, max) = F[1]
  BY GetsIs
<1> DEFINE T == {j \in Nat : \A i \in 1 .. Len(d) + 1 : i > Len(d) + 1 - j => F[i] \in Seq(Line)}
<1>2. 0 \in T
  OBVIOUS
<1>3. ASSUME NEW j \in Nat, j \in T PROVE j + 1 \in T
  <2> SUFFICES ASSUME NEW i \in 1 .. Len(d) + 1, i > Len(d) + 1 - (j + 1) PROVE F[i] \in Seq(Line)
    OBVIOUS
  <2>1. F[i] = GotFrom(d, max, F, i)
    BY <1>1 DEF IsGot
  <2>2. CASE i > Len(d) \/ d[i] = EOF
    <3>1. F[i] = <<>>
      BY <2>1, <2>2, Zenon DEF GotFrom
    <3> QED
      BY <3>1
  <2>3. CASE ~ (i > Len(d) \/ d[i] = EOF)
    <3>1. i \in 1 .. Len(d) /\ d[i] # EOF
      BY <2>3
    <3>2. PICK n : n = GotTo(d, i, max)
      OBVIOUS
    <3>3. n \in i .. Len(d)
      BY <3>1, <3>2, GotToIs
    <3>4. F[n + 1] \in Seq(Line)
      <4>1. n + 1 \in 1 .. Len(d) + 1 /\ n + 1 > Len(d) + 1 - j
        BY <3>1, <3>3
      <4> QED
        BY <1>3, <4>1
    <3>5. SubSeq(d, i, n - 1) \in Line
      BY <3>1, <3>2, LineGot
    <3>6. F[i] = << SubSeq(d, i, n - 1) >> \o F[n + 1]
      BY <2>1, <2>3, <3>2, Zenon DEF GotFrom
    <3> QED
      BY <3>4, <3>5, <3>6
  <2> QED
    BY <2>2, <2>3
<1>4. Nat \subseteq T
  <2> HIDE DEF T
  <2> QED
    BY <1>2, <1>3, Numbers!NumbersReached
<1>5. Len(d) + 1 \in T /\ 1 > Len(d) + 1 - (Len(d) + 1) /\ 1 \in 1 .. Len(d) + 1
  <2> HIDE DEF T
  <2> QED
    BY <1>4
<1>6. F[1] \in Seq(Line)
  BY <1>5
<1> QED
  BY <1>1, <1>6

----------------------------------------------------------------------------
(* What writeout puts into a file.                                          *)

FlatTo(s, F, i) == IF i = 1 THEN s[i] ELSE F[i - 1] \o s[i]
IsFlat(s, F) == F = [i \in 1 .. Len(s) |-> FlatTo(s, F, i)]

LEMMA FlattenIs ==
  ASSUME NEW S, NEW s \in Seq(Seq(S)), s # <<>>
  PROVE  \E F : IsFlat(s, F) /\ FlattenSeq(s) = F[Len(s)]
<1> DEFINE D == 1 .. Len(s)
           Fits(g, j) == g = [i \in D |-> g[i]] /\ \A i \in D : i <= j => g[i] = FlatTo(s, g, i)
           T == {j \in Nat : \E g : Fits(g, j)}
<1>1. 0 \in T
  <2>1. Fits([i \in D |-> 0], 0)
    OBVIOUS
  <2> QED
    BY <2>1
<1>2. ASSUME NEW j \in Nat, j \in T PROVE j + 1 \in T
  <2>1. PICK g : Fits(g, j)
    BY <1>2
  <2> DEFINE h == [i \in D |-> IF i = j + 1 THEN FlatTo(s, g, i) ELSE g[i]]
  <2>2. ASSUME NEW i \in D, i <= j + 1 PROVE h[i] = FlatTo(s, h, i)
    <3>1. FlatTo(s, h, i) = FlatTo(s, g, i)
      <4>1. CASE i = 1
        BY <4>1 DEF FlatTo
      <4>2. CASE i # 1
        <5>1. i - 1 \in D /\ i - 1 # j + 1
          BY <2>2, <4>2
        <5>2. h[i - 1] = g[i - 1]
          BY <5>1
        <5> HIDE DEF h
        <5> QED
          BY <5>2 DEF FlatTo
      <4> QED
        BY <4>1, <4>2
    <3>2. h[i] = FlatTo(s, g, i)
      <4>1. CASE i = j + 1
        BY <4>1
      <4>2. CASE i # j + 1
        <5>1. i <= j
          BY <2>2, <4>2
        <5> QED
          BY <2>1, <4>2, <5>1
      <4> QED
        BY <4>1, <4>2
    <3> QED
      BY <3>1, <3>2
  <2>3. h = [i \in D |-> h[i]]
    OBVIOUS
  <2>4. Fits(h, j + 1)
    <3> HIDE DEF h
    <3> QED
      BY <2>2, <2>3
  <2> QED
    <3> HIDE DEF Fits
    <3> QED
      BY <2>4
<1>3. Nat \subseteq T
  <2> HIDE DEF T
  <2> QED
    BY <1>1, <1>2, Numbers!NumbersReached
<1>4. PICK g : Fits(g, Len(s))
  <2> HIDE DEF Fits
  <2>1. Len(s) \in T
    BY <1>3
  <2> QED
    BY <2>1
<1>5. IsFlat(s, g)
  <2>1. \A i \in D : g[i] = FlatTo(s, g, i)
    BY <1>4
  <2>2. g = [i \in D |-> g[i]]
    BY <1>4
  <2> QED
    BY <2>1, <2>2 DEF IsFlat
<1>6. FlattenSeq(s) = (CHOOSE F : IsFlat(s, F))[Len(s)]
  BY DEF FlattenSeq, IsFlat, FlatTo
<1>7. IsFlat(s, CHOOSE F : IsFlat(s, F))
  BY <1>5
<1> QED
  BY <1>6, <1>7

LEMMA FlatPrefix ==
  ASSUME NEW S, NEW s \in Seq(Seq(S)), NEW F, IsFlat(s, F), NEW m \in 1 .. Len(s)
  PROVE  FlattenSeq(SubSeq(s, 1, m)) = F[m]
<1>1. SubSeq(s, 1, m) \in Seq(Seq(S)) /\ Len(SubSeq(s, 1, m)) = m /\ SubSeq(s, 1, m) # <<>>
  <2>1. PICK R : R = Seq(S)
    OBVIOUS
  <2>2. s \in Seq(R)
    BY <2>1
  <2>3. SubSeq(s, 1, m) \in Seq(R) /\ Len(SubSeq(s, 1, m)) = m
    BY <2>2
  <2> QED
    BY <2>1, <2>3
<1>2. PICK r : r = SubSeq(s, 1, m)
  OBVIOUS
<1>3. PICK G : IsFlat(r, G) /\ FlattenSeq(r) = G[m]
  BY <1>1, <1>2, FlattenIs
<1>4. \A i \in 1 .. m : r[i] = s[i]
  BY <1>2
<1> DEFINE T == {i \in Nat : i \in 1 .. m => G[i] = F[i]}
<1>5. 0 \in T
  OBVIOUS
<1>6. ASSUME NEW i \in Nat, i \in T PROVE i + 1 \in T
  <2> SUFFICES ASSUME i + 1 \in 1 .. m PROVE G[i + 1] = F[i + 1]
    OBVIOUS
  <2>1. G[i + 1] = FlatTo(r, G, i + 1)
    BY <1>1, <1>2, <1>3 DEF IsFlat
  <2>2. F[i + 1] = FlatTo(s, F, i + 1)
    <3>1. i + 1 \in 1 .. Len(s)
      OBVIOUS
    <3> QED
      BY <3>1 DEF IsFlat
  <2>3. r[i + 1] = s[i + 1]
    BY <1>4
  <2>4. CASE i = 0
    BY <2>1, <2>2, <2>3, <2>4 DEF FlatTo
  <2>5. CASE i # 0
    <3>1. i \in 1 .. m /\ (i + 1) - 1 = i /\ i + 1 # 1
      BY <2>5
    <3>2. G[i] = F[i]
      BY <1>6, <3>1
    <3> QED
      BY <2>1, <2>2, <2>3, <3>1, <3>2 DEF FlatTo
  <2> QED
    BY <2>4, <2>5
<1>7. Nat \subseteq T
  <2> HIDE DEF T
  <2> QED
    BY <1>5, <1>6, Numbers!NumbersReached
<1>8. G[m] = F[m]
  <2>1. m \in Nat /\ m \in 1 .. m
    OBVIOUS
  <2> QED
    BY <1>7, <2>1, Zenon
<1> QED
  BY <1>2, <1>3, <1>8

LEMMA FlattenNext ==
  ASSUME NEW S, NEW s \in Seq(Seq(S)), NEW n \in 1 .. Len(s)
  PROVE  FlattenSeq(SubSeq(s, 1, n)) = FlattenSeq(SubSeq(s, 1, n - 1)) \o s[n]
<1>1. s # <<>>
  OBVIOUS
<1>2. PICK F : IsFlat(s, F)
  BY <1>1, FlattenIs
<1>3. FlattenSeq(SubSeq(s, 1, n)) = F[n] /\ F[n] = FlatTo(s, F, n)
  BY <1>2, FlatPrefix DEF IsFlat
<1>4. CASE n = 1
  <2>1. SubSeq(s, 1, n - 1) = <<>>
    BY <1>4
  <2>2. FlattenSeq(<<>>) = <<>>
    BY DEF FlattenSeq
  <2>3. s[n] \in Seq(S)
    OBVIOUS
  <2>4. <<>> \o s[n] = s[n]
    BY <2>3
  <2>5. F[n] = s[n]
    BY <1>3, <1>4 DEF FlatTo
  <2> QED
    BY <1>3, <2>1, <2>2, <2>4, <2>5
<1>5. CASE n # 1
  <2>1. n - 1 \in 1 .. Len(s)
    BY <1>5
  <2>2. FlattenSeq(SubSeq(s, 1, n - 1)) = F[n - 1]
    BY <1>2, <2>1, FlatPrefix
  <2> QED
    BY <1>3, <1>5, <2>2 DEF FlatTo
<1> QED
  BY <1>4, <1>5

LinedTo(t, n) == Lined(SubSeq(t, 1, n))
WithEnds(t) == [i \in DOMAIN t |-> Append(t[i], NL)]

LEMMA LineIsSeq == Line \subseteq Seq(Chars) /\ NL \in Chars /\ EOF \in Chars
<1>1. Plain \subseteq Chars /\ NL \in Chars /\ EOF \in Chars
  BY FilesAssumption DEF Plain
<1> QED
  BY <1>1, SeqMonotonic DEF Line

LEMMA EndedSeq ==
  ASSUME NEW t \in Seq(Line)
  PROVE  WithEnds(t) \in Seq(Seq(Chars)) /\ Len(WithEnds(t)) = Len(t)
<1>1. ASSUME NEW i \in 1 .. Len(t) PROVE Append(t[i], NL) \in Seq(Chars)
  <2>1. t[i] \in Line
    OBVIOUS
  <2>2. t[i] \in Seq(Chars) /\ NL \in Chars
    BY <2>1, LineIsSeq
  <2> QED
    BY <2>2
<1>2. DOMAIN t = 1 .. Len(t) /\ Len(t) \in Nat
  OBVIOUS
<1>3. WithEnds(t) \in [1 .. Len(t) -> Seq(Chars)]
  BY <1>1, <1>2 DEF WithEnds
<1>4. WithEnds(t) \in Seq(Seq(Chars))
  BY <1>2, <1>3, SeqDef
<1> QED
  BY <1>2, <1>3, <1>4

LEMMA LinedNext ==
  ASSUME NEW t \in Seq(Line), NEW n \in 1 .. Len(t)
  PROVE  LinedTo(t, n) = LinedTo(t, n - 1) \o Append(t[n], NL)
<1>1. ASSUME NEW k \in 0 .. Len(t) PROVE WithEnds(SubSeq(t, 1, k)) = SubSeq(WithEnds(t), 1, k)
  <2>1. PICK u : u = SubSeq(t, 1, k)
    OBVIOUS
  <2>2. u \in Seq(Line) /\ Len(u) = k /\ \A i \in 1 .. k : u[i] = t[i]
    BY <2>1
  <2>3. PICK v : v = WithEnds(t)
    OBVIOUS
  <2>4. v \in Seq(Seq(Chars)) /\ Len(v) = Len(t)
    BY <2>3, EndedSeq
  <2>5. \A i \in 1 .. Len(t) : v[i] = Append(t[i], NL)
    BY <2>3 DEF WithEnds
  <2>6. WithEnds(u) = [i \in 1 .. k |-> Append(u[i], NL)]
    <3>1. DOMAIN u = 1 .. k
      BY <2>2
    <3> QED
      BY <3>1 DEF WithEnds
  <2>7. SubSeq(v, 1, k) = [i \in 1 .. k |-> v[i]]
    <3>1. PICK R : R = Seq(Chars)
      OBVIOUS
    <3>2. v \in Seq(R)
      BY <2>4, <3>1
    <3>3. SubSeq(v, 1, k) \in Seq(R) /\ Len(SubSeq(v, 1, k)) = k
          /\ \A i \in 1 .. k : SubSeq(v, 1, k)[i] = v[i]
      BY <2>4, <3>2
    <3> QED
      BY <3>3
  <2>8. \A i \in 1 .. k : v[i] = Append(u[i], NL)
    BY <2>2, <2>5
  <2> QED
    BY <2>1, <2>3, <2>6, <2>7, <2>8
<1>2. WithEnds(t) \in Seq(Seq(Chars)) /\ Len(WithEnds(t)) = Len(t)
  BY EndedSeq
<1>3. FlattenSeq(SubSeq(WithEnds(t), 1, n)) = FlattenSeq(SubSeq(WithEnds(t), 1, n - 1)) \o WithEnds(t)[n]
  BY <1>2, FlattenNext
<1>4. WithEnds(t)[n] = Append(t[n], NL)
  BY DEF WithEnds
<1>5. n \in 0 .. Len(t) /\ n - 1 \in 0 .. Len(t)
  OBVIOUS
<1>6. LinedTo(t, n) = FlattenSeq(SubSeq(WithEnds(t), 1, n))
  BY <1>1, <1>5 DEF LinedTo, Lined, WithEnds
<1>7. LinedTo(t, n - 1) = FlattenSeq(SubSeq(WithEnds(t), 1, n - 1))
  BY <1>1, <1>5 DEF LinedTo, Lined, WithEnds
<1> QED
  BY <1>3, <1>4, <1>6, <1>7

LEMMA LinedNone ==
  ASSUME NEW t \in Seq(Line)
  PROVE  LinedTo(t, 0) = <<>>
<1>1. SubSeq(t, 1, 0) = <<>>
  OBVIOUS
<1>2. WithEnds(<<>>) = <<>>
  BY DEF WithEnds
<1>3. FlattenSeq(<<>>) = <<>>
  BY DEF FlattenSeq
<1> QED
  BY <1>1, <1>2, <1>3 DEF LinedTo, Lined, WithEnds

LEMMA LinedSeq ==
  ASSUME NEW t \in Seq(Line), NEW n \in 0 .. Len(t)
  PROVE  LinedTo(t, n) \in Seq(Chars)
<1> DEFINE T == {k \in Nat : k \in 0 .. Len(t) => LinedTo(t, k) \in Seq(Chars)}
<1>1. 0 \in T
  <2>1. <<>> \in Seq(Chars)
    OBVIOUS
  <2>2. LinedTo(t, 0) \in Seq(Chars)
    BY <2>1, LinedNone
  <2> QED
    BY <2>2
<1>2. ASSUME NEW k \in Nat, k \in T PROVE k + 1 \in T
  <2> SUFFICES ASSUME k + 1 \in 0 .. Len(t) PROVE LinedTo(t, k + 1) \in Seq(Chars)
    OBVIOUS
  <2>1. k + 1 \in 1 .. Len(t) /\ (k + 1) - 1 = k /\ k \in 0 .. Len(t)
    OBVIOUS
  <2>2. LinedTo(t, k + 1) = LinedTo(t, (k + 1) - 1) \o Append(t[k + 1], NL)
    BY <2>1, LinedNext
  <2>3. LinedTo(t, k) \in Seq(Chars)
    BY <1>2, <2>1
  <2>4. t[k + 1] \in Line
    BY <2>1
  <2>5. Append(t[k + 1], NL) \in Seq(Chars)
    BY <2>4, LineIsSeq
  <2>6. LinedTo(t, k + 1) = LinedTo(t, k) \o Append(t[k + 1], NL)
    BY <2>1, <2>2
  <2>7. LinedTo(t, k) \o Append(t[k + 1], NL) \in Seq(Chars)
    BY <2>3, <2>5, ConcatProperties
  <2> QED
    BY <2>6, <2>7, Zenon
<1>3. Nat \subseteq T
  <2> HIDE DEF T
  <2> QED
    BY <1>1, <1>2, Numbers!NumbersReached
<1> QED
  BY <1>3

LEMMA LinedAll ==
  ASSUME NEW t \in Seq(Line)
  PROVE  Lined(t) = LinedTo(t, Len(t)) /\ Lined(t) \in Seq(Chars) /\ Contents(t) \in Seq(Chars)
<1>1. SubSeq(t, 1, Len(t)) = t /\ Len(t) \in 0 .. Len(t)
  OBVIOUS
<1>2. Lined(t) = LinedTo(t, Len(t))
  BY <1>1 DEF LinedTo
<1>3. Lined(t) \in Seq(Chars)
  BY <1>1, <1>2, LinedSeq
<1>4. Contents(t) \in Seq(Chars)
  BY <1>3, LineIsSeq DEF Contents
<1> QED
  BY <1>2, <1>3, <1>4

----------------------------------------------------------------------------
(* Reading what was written.                                                *)

Starts(r, s) == Len(r) <= Len(s) /\ \A i \in 1 .. Len(r) : s[i] = r[i]

LEMMA LinedPrefix ==
  ASSUME NEW t \in Seq(Line), NEW n \in 0 .. Len(t)
  PROVE  Starts(LinedTo(t, n), LinedTo(t, Len(t)))
<1> DEFINE T == {j \in Nat : n + j <= Len(t) => Starts(LinedTo(t, n), LinedTo(t, n + j))}
<1>1. 0 \in T
  <2>1. LinedTo(t, n) \in Seq(Chars) /\ n + 0 = n
    BY LinedSeq
  <2> QED
    BY <2>1 DEF Starts
<1>2. ASSUME NEW j \in Nat, j \in T PROVE j + 1 \in T
  <2> SUFFICES ASSUME n + (j + 1) <= Len(t) PROVE Starts(LinedTo(t, n), LinedTo(t, n + (j + 1)))
    OBVIOUS
  <2>1. PICK m : m = n + (j + 1)
    OBVIOUS
  <2>2. m \in 1 .. Len(t) /\ m - 1 = n + j /\ m - 1 \in 0 .. Len(t)
    BY <2>1
  <2>3. PICK a \in Seq(Chars) : a = LinedTo(t, n)
    BY LinedSeq
  <2>4. PICK b \in Seq(Chars) : b = LinedTo(t, m - 1)
    BY <2>2, LinedSeq
  <2>5. PICK c \in Seq(Chars) : c = Append(t[m], NL)
    <3>1. t[m] \in Line
      BY <2>2
    <3>2. t[m] \in Seq(Chars) /\ NL \in Chars
      BY <3>1, LineIsSeq
    <3>3. Append(t[m], NL) \in Seq(Chars)
      BY <3>2
    <3> QED
      BY <3>3
  <2>6. LinedTo(t, m) = b \o c
    BY <2>2, <2>4, <2>5, LinedNext
  <2>7. Starts(a, b)
    BY <1>2, <2>2, <2>3, <2>4
  <2>8. Starts(a, b \o c)
    <3>1. /\ Len(b \o c) = Len(b) + Len(c)
          /\ \A i \in 1 .. Len(b) : (b \o c)[i] = b[i]
      OBVIOUS
    <3> QED
      BY <2>7, <3>1 DEF Starts
  <2> QED
    BY <2>1, <2>3, <2>6, <2>8
<1>3. Nat \subseteq T
  <2> HIDE DEF T
  <2> QED
    BY <1>1, <1>2, Numbers!NumbersReached
<1>4. Len(t) - n \in Nat /\ n + (Len(t) - n) = Len(t)
  OBVIOUS
<1>5. Len(t) - n \in T
  BY <1>3, <1>4
<1> QED
  BY <1>4, <1>5

\* Where line n is in the file.
LEMMA ContentsAt ==
  ASSUME NEW t \in Seq(Line), NEW n \in 1 .. Len(t), NEW s, s = Len(LinedTo(t, n - 1))
  PROVE  /\ s \in Nat
         /\ Len(LinedTo(t, n)) = s + Len(t[n]) + 1
         /\ s + Len(t[n]) + 1 < Len(Contents(t))
         /\ \A k \in 1 .. Len(t[n]) : Contents(t)[s + k] = t[n][k]
         /\ Contents(t)[s + Len(t[n]) + 1] = NL
<1>1. n - 1 \in 0 .. Len(t) /\ n \in 0 .. Len(t)
  OBVIOUS
<1>2. PICK a \in Seq(Chars) : a = LinedTo(t, n - 1)
  BY <1>1, LinedSeq
<1>3. PICK l \in Seq(Chars) : l = t[n]
  BY LineIsSeq
<1>4. PICK b \in Seq(Chars) : b = LinedTo(t, n)
  BY <1>1, LinedSeq
<1>5. b = a \o Append(l, NL)
  BY <1>2, <1>3, <1>4, LinedNext
<1>6. NL \in Chars /\ EOF \in Chars
  BY LineIsSeq
<1>7. /\ Len(b) = Len(a) + Len(l) + 1
      /\ \A k \in 1 .. Len(l) : b[Len(a) + k] = l[k]
      /\ b[Len(a) + Len(l) + 1] = NL
  BY <1>5, <1>6
<1>8. PICK c \in Seq(Chars) : c = Lined(t)
  BY LinedAll
<1>9. Starts(b, c)
  BY <1>1, <1>4, <1>8, LinedPrefix, LinedAll
<1>10. Contents(t) = Append(c, EOF)
  BY <1>8 DEF Contents
<1>11. /\ Len(Contents(t)) = Len(c) + 1
       /\ \A i \in 1 .. Len(c) : Contents(t)[i] = c[i]
  BY <1>6, <1>10
<1>12. PICK x \in Nat, y \in Nat : x = Len(a) /\ y = Len(l)
  OBVIOUS
<1>13. /\ Len(b) = x + y + 1
       /\ \A k \in 1 .. y : b[x + k] = l[k]
       /\ b[x + y + 1] = NL
  BY <1>7, <1>12
<1>14. \A i \in 1 .. Len(b) : Contents(t)[i] = b[i]
  BY <1>9, <1>11 DEF Starts
<1>15. ASSUME NEW k \in 1 .. y PROVE Contents(t)[x + k] = l[k]
  <2>1. x + k \in 1 .. Len(b)
    BY <1>13
  <2> QED
    BY <1>13, <1>14, <2>1
<1>16. Contents(t)[x + y + 1] = NL
  <2>1. x + y + 1 \in 1 .. Len(b)
    BY <1>13
  <2> QED
    BY <1>13, <1>14, <2>1
<1>17. x + y + 1 < Len(Contents(t))
  BY <1>9, <1>11, <1>13 DEF Starts
<1>18. s = x
  BY <1>2, <1>12
<1> QED
  BY <1>3, <1>4, <1>12, <1>13, <1>15, <1>16, <1>17, <1>18

\* fgets gets just the line that begins at a place.
LEMMA LineGotAgain ==
  ASSUME NEW t \in Seq(Line), NEW n \in 1 .. Len(t), Len(t[n]) < MaxPos
  PROVE  LET c == Contents(t)
             i == Len(LinedTo(t, n - 1)) + 1
         IN  /\ i \in 1 .. Len(c) /\ c[i] # EOF
             /\ GotTo(c, i, MaxPos) = Len(LinedTo(t, n))
             /\ SubSeq(c, i, GotTo(c, i, MaxPos) - 1) = t[n]
<1>1. PICK c \in Seq(Chars) : c = Contents(t)
  BY LinedAll
<1>2. PICK s : s = Len(LinedTo(t, n - 1))
  OBVIOUS
<1>3. PICK l \in Line : l = t[n]
  OBVIOUS
<1>4. PICK y \in Nat : y = Len(l)
  BY DEF Line
<1>5. /\ s \in Nat
      /\ Len(LinedTo(t, n)) = s + y + 1
      /\ s + y + 1 < Len(c)
      /\ \A k \in 1 .. y : c[s + k] = l[k]
      /\ c[s + y + 1] = NL
  <2>1. /\ s \in Nat
        /\ Len(LinedTo(t, n)) = s + Len(t[n]) + 1
        /\ s + Len(t[n]) + 1 < Len(Contents(t))
        /\ \A k \in 1 .. Len(t[n]) : Contents(t)[s + k] = t[n][k]
        /\ Contents(t)[s + Len(t[n]) + 1] = NL
    BY <1>2, ContentsAt
  <2>2. Len(t[n]) = y
    BY <1>3, <1>4
  <2> QED
    BY <1>1, <1>3, <2>1, <2>2
<1>6. \A k \in 1 .. y : l[k] # NL /\ l[k] # EOF
  BY <1>4 DEF Line, Plain
<1>7. NL # EOF /\ MaxPos \in Nat /\ y < MaxPos
  BY <1>3, <1>4, FilesAssumption
<1>8. PICK i \in Nat : i = s + 1
  BY <1>5
<1>9. \A q \in i .. s + y + 1 : c[q] # EOF /\ (q # s + y + 1 => c[q] # NL)
  <2> SUFFICES ASSUME NEW q \in i .. s + y + 1 PROVE c[q] # EOF /\ (q # s + y + 1 => c[q] # NL)
    OBVIOUS
  <2>1. CASE q = s + y + 1
    BY <1>5, <1>7, <2>1
  <2>2. CASE q # s + y + 1
    <3>1. q - s \in 1 .. y /\ s + (q - s) = q
      BY <1>5, <1>8, <2>2
    <3>2. c[q] = l[q - s]
      <4>1. c[s + (q - s)] = l[q - s]
        BY <1>5, <3>1
      <4> QED
        BY <3>1, <4>1
    <3> QED
      BY <1>6, <3>1, <3>2
  <2> QED
    BY <2>1, <2>2
<1>10. i \in 1 .. Len(c) /\ c[i] # EOF
  <2>1. i \in i .. s + y + 1
    BY <1>5, <1>8
  <2> QED
    BY <1>5, <1>8, <1>9, <2>1
<1>11. Stops(c, i, s + y + 1, MaxPos)
  BY <1>5 DEF Stops
<1>12. ASSUME NEW k \in i .. s + y PROVE ~ Stops(c, i, k, MaxPos)
  <2>1. k - i + 1 # MaxPos /\ k # Len(c)
    BY <1>5, <1>7, <1>8
  <2>2. k \in i .. s + y + 1 /\ k # s + y + 1 /\ k + 1 \in i .. s + y + 1
    BY <1>5, <1>8
  <2>3. c[k] # NL /\ c[k + 1] # EOF
    BY <1>9, <2>2
  <2> QED
    BY <2>1, <2>3 DEF Stops
<1>13. PICK g : g = GotTo(c, i, MaxPos)
  OBVIOUS
<1>14. g \in i .. Len(c) /\ Stops(c, i, g, MaxPos) /\ \A k \in i .. g - 1 : ~ Stops(c, i, k, MaxPos)
  BY <1>7, <1>10, <1>13, GotToIs
<1>15. g = s + y + 1
  <2>1. ~ g < s + y + 1
    <3> SUFFICES ASSUME g < s + y + 1 PROVE FALSE
      OBVIOUS
    <3>1. g \in i .. s + y
      BY <1>5, <1>14
    <3> QED
      BY <1>12, <1>14, <3>1
  <2>2. ~ g > s + y + 1
    <3> SUFFICES ASSUME g > s + y + 1 PROVE FALSE
      OBVIOUS
    <3>1. s + y + 1 \in i .. g - 1
      BY <1>5, <1>8, <1>14
    <3> QED
      BY <1>11, <1>14, <3>1
  <2>3. g \in Int /\ s + y + 1 \in Int
    BY <1>5, <1>14
  <2> QED
    BY <2>1, <2>2, <2>3
<1>16. SubSeq(c, i, g - 1) = l
  <2>1. SubSeq(c, i, g - 1) = [k \in 1 .. y |-> c[s + k]]
    <3>1. (g - 1) - i + 1 = y /\ i \in 1 .. Len(c) /\ g - 1 \in i - 1 .. Len(c)
      BY <1>5, <1>8, <1>10, <1>15
    <3>2. \A k \in 1 .. y : i + k - 1 = s + k
      BY <1>5, <1>8
    <3>3. SubSeq(c, i, g - 1) = [k \in 1 .. y |-> c[i + k - 1]]
      BY <3>1
    <3> QED
      BY <3>2, <3>3
  <2>2. l = [k \in 1 .. y |-> l[k]]
    BY <1>4 DEF Line
  <2> QED
    BY <1>5, <2>1, <2>2
<1> QED
  BY <1>1, <1>2, <1>3, <1>5, <1>8, <1>10, <1>13, <1>15, <1>16

\* A text whose lines fit is read back line by line.
LEMMA TextGotAgain ==
  ASSUME NEW t \in Seq(Line), \A i \in 1 .. Len(t) : Len(t[i]) < MaxPos
  PROVE  Gets(Contents(t)) = t
<1>1. PICK c \in Seq(Chars) : c = Contents(t)
  BY LinedAll
<1>2. MaxPos \in Nat
  BY FilesAssumption
<1>3. PICK F : IsGot(c, MaxPos, F) /\ GetsBy(c, MaxPos) = F[1]
  BY <1>2, GetsIs
<1> DEFINE ReadAt(n) == Len(LinedTo(t, n)) + 1
           T == {j \in Nat : j <= Len(t) => F[ReadAt(Len(t) - j)] = SubSeq(t, Len(t) - j + 1, Len(t))}
<1>4. 0 \in T
  <2>1. PICK a \in Seq(Chars) : a = LinedTo(t, Len(t)) /\ a = Lined(t)
    BY LinedAll
  <2>2. c = Append(a, EOF) /\ EOF \in Chars
    BY <1>1, <2>1, LineIsSeq DEF Contents
  <2>3. Len(a) + 1 \in 1 .. Len(c) + 1 /\ c[Len(a) + 1] = EOF
    BY <2>2
  <2>4. F[Len(a) + 1] = GotFrom(c, MaxPos, F, Len(a) + 1)
    BY <1>3, <2>3 DEF IsGot
  <2>5. GotFrom(c, MaxPos, F, Len(a) + 1) = <<>>
    BY <2>3, Zenon DEF GotFrom
  <2>6. SubSeq(t, Len(t) + 1, Len(t)) = <<>>
    OBVIOUS
  <2>7. Len(t) - 0 = Len(t)
    OBVIOUS
  <2> QED
    BY <2>1, <2>4, <2>5, <2>6, <2>7
<1>5. ASSUME NEW j \in Nat, j \in T PROVE j + 1 \in T
  <2> SUFFICES ASSUME j + 1 <= Len(t)
               PROVE  F[ReadAt(Len(t) - (j + 1))] = SubSeq(t, Len(t) - (j + 1) + 1, Len(t))
    OBVIOUS
  <2>1. PICK n : n = Len(t) - j
    OBVIOUS
  <2>2. n \in 1 .. Len(t) /\ Len(t) - (j + 1) = n - 1 /\ Len(t) - (j + 1) + 1 = n
    BY <2>1
  <2>3. PICK i : i = ReadAt(n - 1)
    OBVIOUS
  <2>4. Len(t[n]) < MaxPos
    BY <2>2
  <2>5. /\ i \in 1 .. Len(c) /\ c[i] # EOF
        /\ GotTo(c, i, MaxPos) = Len(LinedTo(t, n))
        /\ SubSeq(c, i, GotTo(c, i, MaxPos) - 1) = t[n]
    BY <1>1, <2>2, <2>3, <2>4, LineGotAgain
  <2>6. F[i] = GotFrom(c, MaxPos, F, i)
    <3>1. i \in 1 .. Len(c) + 1
      BY <2>5
    <3> QED
      BY <1>3, <3>1 DEF IsGot
  <2>7. ~ (i > Len(c) \/ c[i] = EOF)
    BY <2>5
  <2>8. F[i] = << t[n] >> \o F[ReadAt(n)]
    <3>1. GotFrom(c, MaxPos, F, i) = << SubSeq(c, i, GotTo(c, i, MaxPos) - 1) >> \o F[GotTo(c, i, MaxPos) + 1]
      BY <2>7, Zenon DEF GotFrom
    <3> QED
      BY <2>5, <2>6, <3>1, Zenon
  <2>9. F[ReadAt(n)] = SubSeq(t, n + 1, Len(t))
    <3>1. j <= Len(t)
      BY <2>2
    <3> QED
      BY <1>5, <2>1, <3>1
  <2>10. SubSeq(t, n, Len(t)) = << t[n] >> \o SubSeq(t, n + 1, Len(t))
    <3>1. Len(t) \in n .. Len(t)
      BY <2>2
    <3> QED
      BY <2>2, <3>1, SubSeqRecursiveFirst
  <2> HIDE DEF ReadAt
  <2> QED
    BY <2>2, <2>3, <2>8, <2>9, <2>10, Zenon
<1>6. Nat \subseteq T
  <2> HIDE DEF T
  <2> QED
    BY <1>4, <1>5, Numbers!NumbersReached
<1>7. F[ReadAt(0)] = SubSeq(t, 1, Len(t))
  <2>1. Len(t) \in Nat /\ Len(t) - Len(t) = 0 /\ Len(t) <= Len(t) /\ 0 + 1 = 1
    OBVIOUS
  <2>2. Len(t) \in T
    BY <1>6, <2>1
  <2> HIDE DEF ReadAt
  <2>3. F[ReadAt(Len(t) - Len(t))] = SubSeq(t, Len(t) - Len(t) + 1, Len(t))
    BY <2>1, <2>2
  <2> QED
    BY <2>1, <2>3, Zenon
<1>8. ReadAt(0) = 1
  BY LinedNone
<1>9. SubSeq(t, 1, Len(t)) = t
  OBVIOUS
<1> QED
  BY <1>1, <1>3, <1>7, <1>8, <1>9 DEF Gets

----------------------------------------------------------------------------
(* The lines in use.                                                        *)

Record == [file : Names \cup {NoName}, text : Text, mod : BOOLEAN]
Size(bs, i) == Len(bs[Bufs[i]].text)

LEMMA BufsAre ==
  /\ Len(Bufs) \in Nat /\ Len(Bufs) > 1 /\ Len(Bufs) <= Heap /\ Heap \in Nat
  /\ \A i \in 1 .. Len(Bufs) : Bufs[i] \in Places
  /\ \A b \in Places : \E i \in 1 .. Len(Bufs) : Bufs[i] = b
  /\ \A i, j \in 1 .. Len(Bufs) : Bufs[i] = Bufs[j] => i = j
<1>1. DOMAIN Bufs = 1 .. Len(Bufs) /\ Len(Bufs) \in Nat
  BY FilesAssumption
<1> QED
  BY <1>1, FilesAssumption DEF Places, Range

LEMMA SizeIs ==
  ASSUME NEW bs \in [Places -> Record], NEW i \in 1 .. Len(Bufs)
  PROVE  Size(bs, i) \in Nat \ {0}
<1>1. bs[Bufs[i]] \in Record
  BY BufsAre
<1>2. bs[Bufs[i]].text \in Text
  BY <1>1 DEF Record
<1>3. PICK t \in Seq(Line) : t = bs[Bufs[i]].text /\ t # <<>>
  BY <1>2 DEF Text
<1>4. Len(t) \in Nat \ {0}
  BY <1>3
<1> QED
  BY <1>3, <1>4 DEF Size

SumsTo(bs, U) ==
  /\ U \in [0 .. Len(Bufs) -> Nat] /\ U[0] = 0
  /\ \A i \in 1 .. Len(Bufs) : U[i] = U[i - 1] + Size(bs, i)

LEMMA LinesInIs ==
  ASSUME NEW bs \in [Places -> Record]
  PROVE  \E U : SumsTo(bs, U) /\ LinesIn(bs) = U[Len(Bufs)]
<1> DEFINE n == Len(Bufs)
           Body(g, i) == IF i = 0 THEN 0 ELSE g[i - 1] + Size(bs, i)
           IsSum(g) == g = [i \in 0 .. n |-> Body(g, i)]
           Fits(g, j) == g \in [0 .. n -> Nat] /\ \A i \in 0 .. n : i <= j => g[i] = Body(g, i)
           T == {j \in Nat : \E g : Fits(g, j)}
<1>1. 0 \in T
  <2>1. n \in Nat
    BY BufsAre
  <2>2. Fits([i \in 0 .. n |-> 0], 0)
    BY <2>1
  <2> QED
    BY <2>2
<1>2. ASSUME NEW j \in Nat, j \in T PROVE j + 1 \in T
  <2>1. PICK g : Fits(g, j)
    BY <1>2
  <2>2. n \in Nat
    BY BufsAre
  <2>3. CASE j + 1 > n
    <3>1. \A i \in 0 .. n : i <= j
      BY <2>2, <2>3
    <3>2. Fits(g, j + 1)
      BY <2>1, <3>1
    <3> HIDE DEF Fits
    <3> QED
      BY <3>2
  <2>4. CASE j + 1 <= n
    <3> DEFINE h == [i \in 0 .. n |-> IF i = j + 1 THEN Body(g, i) ELSE g[i]]
    <3>1. j \in 0 .. n /\ j + 1 \in 1 .. Len(Bufs) /\ (j + 1) - 1 = j /\ j + 1 # 0
      BY <2>2, <2>4
    <3>2. Size(bs, j + 1) \in Nat /\ g[j] \in Nat
      BY <2>1, <3>1, SizeIs
    <3>3. Body(g, j + 1) \in Nat
      BY <3>1, <3>2
    <3>4. h \in [0 .. n -> Nat]
      BY <2>1, <3>3
    <3>5. ASSUME NEW i \in 0 .. n, i <= j + 1 PROVE h[i] = Body(h, i)
      <4>1. Body(h, i) = Body(g, i)
        <5>1. CASE i = 0
          BY <5>1
        <5>2. CASE i # 0
          <6>1. i - 1 \in 0 .. n /\ i - 1 # j + 1
            BY <3>5, <5>2
          <6>2. h[i - 1] = g[i - 1]
            BY <6>1
          <6> HIDE DEF h
          <6> QED
            BY <6>2
        <5> QED
          BY <5>1, <5>2
      <4>2. h[i] = Body(g, i)
        <5>1. CASE i = j + 1
          BY <5>1
        <5>2. CASE i # j + 1
          <6>1. i <= j
            BY <3>5, <5>2
          <6>2. h[i] = g[i]
            BY <5>2
          <6> QED
            BY <2>1, <6>1, <6>2
        <5> QED
          BY <5>1, <5>2
      <4> QED
        BY <4>1, <4>2
    <3>6. Fits(h, j + 1)
      <4> HIDE DEF h, Body
      <4> QED
        BY <3>4, <3>5
    <3> HIDE DEF Fits, h
    <3> QED
      BY <3>6
  <2> QED
    BY <2>2, <2>3, <2>4
<1>3. Nat \subseteq T
  <2> HIDE DEF T
  <2> QED
    BY <1>1, <1>2, Numbers!NumbersReached
<1>4. PICK g : Fits(g, n)
  <2> HIDE DEF Fits
  <2>1. n \in T
    BY <1>3, BufsAre
  <2> QED
    BY <2>1
<1>5. IsSum(g)
  <2>1. \A i \in 0 .. n : g[i] = Body(g, i)
    BY <1>4, BufsAre
  <2>2. g = [i \in 0 .. n |-> g[i]]
    BY <1>4
  <2> HIDE DEF Body
  <2> QED
    BY <2>1, <2>2
<1>6. LinesIn(bs) = (CHOOSE U : IsSum(U))[n]
  BY DEF LinesIn, Size
<1>7. PICK U : U = CHOOSE f : IsSum(f)
  OBVIOUS
<1>8. IsSum(U)
  <2> HIDE DEF IsSum
  <2> QED
    BY <1>5, <1>7
<1>9. /\ DOMAIN U = 0 .. n /\ U = [i \in 0 .. n |-> U[i]]
      /\ \A i \in 0 .. n : U[i] = Body(U, i)
  BY <1>8
<1>10. n \in Nat
  BY BufsAre
<1>11. \A i \in 1 .. n : i \in 0 .. n /\ i # 0
  BY <1>10
<1>12. \A i \in 1 .. n : U[i] = U[i - 1] + Size(bs, i)
  BY <1>9, <1>11
<1>13. U[0] = 0
  BY <1>9, <1>10
<1>14. U \in [0 .. n -> Nat]
  <2> DEFINE V == {i \in Nat : i <= n => U[i] \in Nat}
  <2>1. 0 \in V
    BY <1>13
  <2>2. ASSUME NEW i \in Nat, i \in V PROVE i + 1 \in V
    <3> SUFFICES ASSUME i + 1 <= n PROVE U[i + 1] \in Nat
      OBVIOUS
    <3>1. i + 1 \in 1 .. n /\ (i + 1) - 1 = i /\ i <= n
      BY <1>10
    <3>2. U[i] \in Nat /\ Size(bs, i + 1) \in Nat
      BY <2>2, <3>1, SizeIs
    <3>3. U[i + 1] = U[(i + 1) - 1] + Size(bs, i + 1)
      BY <1>12, <3>1
    <3> QED
      BY <3>1, <3>2, <3>3
  <2>3. Nat \subseteq V
    <3> HIDE DEF V
    <3> QED
      BY <2>1, <2>2, Numbers!NumbersReached
  <2>4. \A i \in 0 .. n : U[i] \in Nat
    BY <1>10, <2>3
  <2> QED
    BY <1>9, <2>4
<1> QED
  <2> HIDE DEF IsSum
  <2> QED
    BY <1>6, <1>7, <1>12, <1>13, <1>14 DEF SumsTo

\* The lines of the buffers but c.
OthersLines(bs, c) == LinesIn(bs) - Len(bs[c].text)

LEMMA OthersSame ==
  ASSUME NEW bs \in [Places -> Record], NEW bs2 \in [Places -> Record], NEW c \in Places,
         \A b \in Places \ {c} : bs2[b].text = bs[b].text
  PROVE  /\ OthersLines(bs, c) \in Nat
         /\ OthersLines(bs2, c) = OthersLines(bs, c)
         /\ LinesIn(bs) \in Nat /\ LinesIn(bs2) \in Nat
<1>1. PICK U : SumsTo(bs, U) /\ LinesIn(bs) = U[Len(Bufs)]
  BY LinesInIs
<1>2. PICK V : SumsTo(bs2, V) /\ LinesIn(bs2) = V[Len(Bufs)]
  BY LinesInIs
<1>3. PICK p \in 1 .. Len(Bufs) : Bufs[p] = c
  BY BufsAre
<1>4. PICK n \in Nat : n = Len(Bufs)
  BY BufsAre
<1>5. PICK x \in Nat, y \in Nat : x = Size(bs, p) /\ y = Size(bs2, p)
  BY SizeIs
<1>6. \A i \in 1 .. n : i # p => Size(bs2, i) = Size(bs, i)
  BY <1>3, <1>4, BufsAre DEF Size
<1> DEFINE T == {i \in Nat : i <= n => IF i < p THEN V[i] = U[i] ELSE U[i] >= x /\ V[i] - y = U[i] - x}
<1>7. 0 \in T
  BY <1>1, <1>2, <1>3, <1>4 DEF SumsTo
<1>8. ASSUME NEW i \in Nat, i \in T PROVE i + 1 \in T
  <2> SUFFICES ASSUME i + 1 <= n
               PROVE  IF i + 1 < p THEN V[i + 1] = U[i + 1]
                                   ELSE U[i + 1] >= x /\ V[i + 1] - y = U[i + 1] - x
    OBVIOUS
  <2>1. i + 1 \in 1 .. n /\ (i + 1) - 1 = i /\ i <= n /\ i \in 0 .. n /\ i + 1 \in 0 .. n
    OBVIOUS
  <2>2. /\ U[i] \in Nat /\ U[i + 1] = U[i] + Size(bs, i + 1)
        /\ V[i] \in Nat /\ V[i + 1] = V[i] + Size(bs2, i + 1)
    BY <1>1, <1>2, <1>4, <2>1 DEF SumsTo
  <2>3. Size(bs, i + 1) \in Nat /\ Size(bs2, i + 1) \in Nat
    BY <1>4, <2>1, SizeIs
  <2>4. CASE i + 1 < p
    <3>1. V[i] = U[i]
      BY <1>8, <2>1, <2>4
    <3>2. Size(bs2, i + 1) = Size(bs, i + 1)
      BY <1>6, <2>1, <2>4
    <3> QED
      BY <2>2, <2>4, <3>1, <3>2
  <2>5. CASE i + 1 = p
    <3>1. V[i] = U[i]
      BY <1>8, <2>1, <2>5
    <3>2. Size(bs2, i + 1) = y /\ Size(bs, i + 1) = x
      BY <1>5, <2>5
    <3> QED
      BY <2>2, <2>5, <3>1, <3>2
  <2>6. CASE i + 1 > p
    <3>1. U[i] >= x /\ V[i] - y = U[i] - x
      BY <1>8, <2>1, <2>6
    <3>2. Size(bs2, i + 1) = Size(bs, i + 1)
      BY <1>6, <2>1, <2>6
    <3>3. PICK z \in Nat : z = Size(bs, i + 1)
      BY <2>3
    <3>4. PICK u \in Nat, v \in Nat : u = U[i] /\ v = V[i]
      BY <2>2
    <3>5. U[i + 1] = u + z /\ V[i + 1] = v + z
      BY <2>2, <3>2, <3>3, <3>4
    <3>6. u >= x /\ v - y = u - x
      BY <3>1, <3>4
    <3>7. u + z >= x /\ (v + z) - y = (u + z) - x
      BY <3>6
    <3>8. ~ i + 1 < p
      BY <2>6
    <3> QED
      BY <3>5, <3>7, <3>8
  <2> QED
    BY <2>4, <2>5, <2>6
<1>9. Nat \subseteq T
  <2> HIDE DEF T
  <2> QED
    BY <1>7, <1>8, Numbers!NumbersReached
<1>10. U[n] >= x /\ V[n] - y = U[n] - x /\ U[n] \in Nat /\ V[n] \in Nat
  <2>1. n \in T /\ ~ n < p
    <3> HIDE DEF T
    <3> QED
      BY <1>3, <1>4, <1>9
  <2>2. n \in 0 .. n
    OBVIOUS
  <2> QED
    BY <1>1, <1>2, <1>4, <2>1, <2>2 DEF SumsTo
<1>11. Len(bs[c].text) = x /\ Len(bs2[c].text) = y
  BY <1>3, <1>5 DEF Size
<1> QED
  BY <1>1, <1>2, <1>4, <1>10, <1>11 DEF OthersLines

LEMMA OnesSum ==
  ASSUME NEW bs \in [Places -> Record], \A b \in Places : Len(bs[b].text) = 1
  PROVE  LinesIn(bs) = Len(Bufs)
<1>1. PICK U : SumsTo(bs, U) /\ LinesIn(bs) = U[Len(Bufs)]
  BY LinesInIs
<1>2. PICK n \in Nat : n = Len(Bufs)
  BY BufsAre
<1> DEFINE T == {i \in Nat : i <= n => U[i] = i}
<1>3. 0 \in T
  BY <1>1 DEF SumsTo
<1>4. ASSUME NEW i \in Nat, i \in T PROVE i + 1 \in T
  <2> SUFFICES ASSUME i + 1 <= n PROVE U[i + 1] = i + 1
    OBVIOUS
  <2>1. i + 1 \in 1 .. n /\ (i + 1) - 1 = i /\ i <= n
    OBVIOUS
  <2>2. Size(bs, i + 1) = 1
    BY <1>2, <2>1, BufsAre DEF Size
  <2>3. U[i + 1] = U[i] + Size(bs, i + 1)
    BY <1>1, <1>2, <2>1 DEF SumsTo
  <2> QED
    BY <1>4, <2>1, <2>2, <2>3
<1>5. Nat \subseteq T
  <2> HIDE DEF T
  <2> QED
    BY <1>3, <1>4, Numbers!NumbersReached
<1> QED
  BY <1>1, <1>2, <1>5

----------------------------------------------------------------------------
(* The texts in the buffers.                                                *)

Held == Seq(Chars) \cup {Absent}

BufInv == /\ buf \in [Places -> Record] /\ curbuf \in Places
          /\ LinesIn(buf) <= Heap

\* What others may take is what is left over.
Others == OthersLines(buf, curbuf)

LEMMA HereIs ==
  ASSUME BufInv
  PROVE  /\ Here \in Record /\ Here.text \in Seq(Line) /\ Len(Here.text) \in Nat \ {0}
         /\ Others \in Nat /\ Len(Here.text) <= Heap - Others /\ Others < Heap
         /\ LinesIn(buf) \in Nat /\ LinesIn(buf) = Others + Len(Here.text)
         /\ AllUsed - Used(curbuf) = Others /\ AllUsed = LinesIn(buf)
<1>1. buf[curbuf] \in Record
  BY DEF BufInv
<1>2. PICK t \in Seq(Line) : t = buf[curbuf].text /\ t # <<>>
  BY <1>1 DEF Record, Text
<1>3. PICK n \in Nat : n = Len(t) /\ n # 0
  BY <1>2
<1>4. Others \in Nat /\ LinesIn(buf) \in Nat
  BY OthersSame DEF BufInv, Others
<1>5. Others = LinesIn(buf) - n
  BY <1>2, <1>3 DEF Others, OthersLines
<1>6. LinesIn(buf) <= Heap /\ Heap \in Nat
  BY BufsAre DEF BufInv
<1>7. LinesIn(buf) = Others + n /\ n <= Heap - Others /\ Others < Heap
  BY <1>3, <1>4, <1>5, <1>6
<1> QED
  BY <1>1, <1>2, <1>3, <1>4, <1>5, <1>7 DEF Here, AllUsed, Used

LEMMA BufChanged ==
  ASSUME BufInv, NEW r \in Record, Len(r.text) <= Heap - Others,
         NEW b2, b2 = [buf EXCEPT ![curbuf] = r]
  PROVE  b2 \in [Places -> Record] /\ LinesIn(b2) <= Heap
<1>1. buf \in [Places -> Record] /\ curbuf \in Places
  BY DEF BufInv
<1>2. b2 \in [Places -> Record] /\ b2[curbuf] = r
      /\ \A b \in Places \ {curbuf} : b2[b].text = buf[b].text
  BY <1>1
<1>3. OthersLines(b2, curbuf) = Others /\ Others \in Nat /\ LinesIn(b2) \in Nat
  BY <1>1, <1>2, OthersSame DEF Others
<1>4. PICK n \in Nat : n = Len(r.text)
  <2>1. r.text \in Text
    BY DEF Record
  <2>2. PICK t \in Seq(Line) : t = r.text
    BY <2>1 DEF Text
  <2>3. Len(t) \in Nat
    OBVIOUS
  <2> QED
    BY <2>2, <2>3
<1>5. LinesIn(b2) - n = Others
  BY <1>2, <1>3, <1>4 DEF OthersLines
<1>6. n <= Heap - Others /\ Heap \in Nat
  BY <1>4, BufsAre
<1>7. LinesIn(b2) <= Heap
  BY <1>3, <1>4, <1>5, <1>6
<1> QED
  BY <1>2, <1>7

LEMMA RoomIs ==
  ASSUME NEW lines \in Seq(Line), NEW used \in Nat, used <= Heap
  PROVE  Room(lines, used) \in 0 .. Len(lines) /\ Room(lines, used) <= Heap - used
<1>1. PICK n \in Nat : n = Len(lines)
  OBVIOUS
<1>2. Heap \in Nat
  BY BufsAre
<1> QED
  BY <1>1, <1>2 DEF Room

LEMMA FreshIs ==
  ASSUME NEW lines \in Seq(Line), NEW others \in Nat, others < Heap
  PROVE  Fresh(lines, others) \in Text /\ Len(Fresh(lines, others)) <= Heap - others
<1>1. Heap \in Nat
  BY BufsAre
<1>2. CASE lines = <<>> \/ others + 1 >= Heap
  <2>1. <<>> \in Line
    BY DEF Line
  <2>2. << <<>> >> \in Text /\ Len(<< <<>> >>) = 1
    BY <2>1 DEF Text
  <2>3. Fresh(lines, others) = << <<>> >>
    BY <1>2, Zenon DEF Fresh
  <2>4. 1 <= Heap - others
    BY <1>1
  <2> QED
    BY <2>2, <2>3, <2>4, Zenon
<1>3. CASE ~ (lines = <<>> \/ others + 1 >= Heap)
  <2>1. PICK n \in Nat : n = Room(lines, others) /\ n <= Len(lines) /\ n <= Heap - others
    <3>1. others <= Heap
      BY <1>1
    <3>2. Room(lines, others) \in 0 .. Len(lines) /\ Room(lines, others) <= Heap - others
      BY <3>1, RoomIs
    <3> QED
      BY <3>2
  <2>2. n # 0
    <3>1. Len(lines) # 0 /\ ~ others >= Heap /\ Heap - others # 0
      BY <1>1, <1>3
    <3> QED
      BY <2>1, <3>1 DEF Room
  <2>3. SubSeq(lines, 1, n) \in Seq(Line) /\ Len(SubSeq(lines, 1, n)) = n
    BY <2>1
  <2>4. SubSeq(lines, 1, n) # <<>>
    BY <2>2, <2>3
  <2>5. Fresh(lines, others) = SubSeq(lines, 1, n)
    BY <1>3, <2>1, Zenon DEF Fresh
  <2>6. SubSeq(lines, 1, n) \in Text
    BY <2>3, <2>4 DEF Text
  <2> QED
    BY <2>1, <2>3, <2>5, <2>6
<1> QED
  BY <1>2, <1>3

LEMMA BehindIs ==
  ASSUME NEW t \in Seq(Line), NEW k \in 1 .. Len(t), NEW lines \in Seq(Line),
         AllUsed \in Nat, AllUsed <= Heap
  PROVE  /\ Behind(t, k, lines) \in Text
         /\ Len(Behind(t, k, lines)) = Len(t) + Room(lines, AllUsed)
<1>1. PICK n \in Nat : n = Room(lines, AllUsed) /\ n <= Len(lines)
  BY RoomIs
<1>2. PICK a \in Seq(Line) : a = SubSeq(t, 1, k) /\ Len(a) = k
  <2>1. SubSeq(t, 1, k) \in Seq(Line) /\ Len(SubSeq(t, 1, k)) = k
    OBVIOUS
  <2> QED
    BY <2>1
<1>3. PICK b \in Seq(Line) : b = SubSeq(lines, 1, n) /\ Len(b) = n
  <2>1. SubSeq(lines, 1, n) \in Seq(Line) /\ Len(SubSeq(lines, 1, n)) = n
    BY <1>1
  <2> QED
    BY <2>1
<1>4. PICK c \in Seq(Line) : c = SubSeq(t, k + 1, Len(t)) /\ Len(c) = Len(t) - k
  <2>1. SubSeq(t, k + 1, Len(t)) \in Seq(Line) /\ Len(SubSeq(t, k + 1, Len(t))) = Len(t) - k
    OBVIOUS
  <2> QED
    BY <2>1
<1>5. Behind(t, k, lines) = a \o b \o c
  BY <1>1, <1>2, <1>3, <1>4 DEF Behind
<1>6. a \o b \in Seq(Line) /\ Len(a \o b) = k + n
  BY <1>2, <1>3, ConcatProperties
<1>7. (a \o b) \o c \in Seq(Line) /\ Len((a \o b) \o c) = k + n + (Len(t) - k)
  <2>1. PICK ab \in Seq(Line) : ab = a \o b /\ Len(ab) = k + n
    BY <1>6
  <2>2. ab \o c \in Seq(Line) /\ Len(ab \o c) = Len(ab) + Len(c)
    BY ConcatProperties
  <2> QED
    BY <1>4, <2>1, <2>2
<1>8. k + n + (Len(t) - k) = Len(t) + n /\ Len(t) + n # 0
  OBVIOUS
<1>9. (a \o b) \o c # <<>>
  BY <1>7, <1>8
<1> QED
  BY <1>1, <1>5, <1>7, <1>8, <1>9 DEF Text

LEMMA OpenedIs ==
  ASSUME disk \in [Names -> Held], NEW f \in Names \cup {NoName}
  PROVE  Opened(f) \subseteq Seq(Line)
<1>1. CASE f = NoName \/ disk[f] = Absent
  <2>1. Opened(f) = {<<>>}
    BY <1>1 DEF Opened
  <2>2. <<>> \in Seq(Line)
    OBVIOUS
  <2> QED
    BY <2>1, <2>2
<1>2. CASE ~ (f = NoName \/ disk[f] = Absent)
  <2>1. disk[f] \in Seq(Chars) /\ MaxPos \in Nat
    BY <1>2, FilesAssumption DEF Held
  <2>2. Gets(disk[f]) \in Seq(Line)
    BY <2>1, GetsLines DEF Gets
  <2> QED
    BY <1>2, <2>2 DEF Opened
<1> QED
  BY <1>1, <1>2

----------------------------------------------------------------------------
(* The inductive invariant.                                                 *)

Early == {"unlink", "rename", "create"}
Late == {"line", "end", "close"}
Writing == [at : Early \cup Late, file : Names, line : Nat \ {0}, err : BOOLEAN, before : Held]

TypeInv ==
  /\ disk \in [Names -> Held] /\ good \in [Names -> Held]
  /\ w \in Writing \cup {NoWrite}
  /\ hurt \in BOOLEAN /\ running \in BOOLEAN
  /\ BufInv

\* What has been written so far.
PhaseInv ==
  /\ ~ running => w = NoWrite
  /\ w # NoWrite =>
       /\ w.at \in Early => w.line = 1 /\ ~ w.err
       /\ w.at \in Late => disk[w.file] \in Seq(Chars)
       /\ w.at = "line" => /\ ~ w.err /\ w.line - 1 \in 0 .. Len(Here.text)
                           /\ disk[w.file] = LinedTo(Here.text, w.line - 1)
       /\ w.at = "end" => w.err
       /\ w.at = "close" => (w.err \/ disk[w.file] = Contents(Here.text))

\* Where the version is that was there when the write began, called v.
MovedTo(f, v) ==
  /\ w.at = "unlink" => disk[f] = v
  /\ w.at = "rename" => disk[f] = v /\ disk[Bak(f)] = Absent
  /\ w.at \notin {"unlink", "rename"} /\ v # Absent => disk[Bak(f)] = v

BackInv ==
  ro = {} /\ w # NoWrite /\ w.file \notin Backups => MovedTo(w.file, w.before)

GoodInv ==
  ro = {} /\ ~ hurt =>
    \A f \in Names \ Backups :
      IF w # NoWrite /\ w.file = f THEN MovedTo(f, good[f]) ELSE good[f] = disk[f]

IInv == TypeInv /\ PhaseInv /\ BackInv /\ GoodInv

LEMMA NotWriting == ASSUME w \in Writing PROVE w # NoWrite
  BY DEF Writing, NoWrite, Early, Late

LEMMA ItsBackup ==
  ASSUME NEW f \in Names
  PROVE  Bak(f) \in Names /\ Bak(f) \in Backups /\ (f \notin Backups => Bak(f) # f)
  BY FilesAssumption DEF Backups

----------------------------------------------------------------------------
(* Commands.                                                                *)

LEMMA LoadKeeps ==
  ASSUME TypeInv, curbuf' = curbuf, NEW f \in Names \cup {NoName}, Load(f, AllUsed - Used(curbuf))
  PROVE  BufInv'
<1>1. BufInv /\ disk \in [Names -> Held]
  BY DEF TypeInv
<1>2. AllUsed - Used(curbuf) = Others /\ Others \in Nat /\ Others < Heap
  BY <1>1, HereIs
<1>3. PICK lines \in Opened(f) :
        buf' = [buf EXCEPT ![curbuf] = [Empty(f) EXCEPT !.text = Fresh(lines, Others)]]
  BY <1>2 DEF Load
<1>4. lines \in Seq(Line)
  BY <1>1, OpenedIs
<1>5. Fresh(lines, Others) \in Text /\ Len(Fresh(lines, Others)) <= Heap - Others
  BY <1>2, <1>4, FreshIs
<1>6. PICK r : r = [Empty(f) EXCEPT !.text = Fresh(lines, Others)]
  OBVIOUS
<1>7. r \in Record /\ r.text = Fresh(lines, Others)
  BY <1>5, <1>6 DEF Record, Empty
<1>8. buf' = [buf EXCEPT ![curbuf] = r]
  BY <1>3, <1>6
<1>9. buf' \in [Places -> Record] /\ LinesIn(buf') <= Heap
  BY <1>1, <1>5, <1>7, <1>8, BufChanged
<1> QED
  BY <1>1, <1>9 DEF BufInv, LinesIn

LEMMA SameBuf ==
  ASSUME BufInv, UNCHANGED <<buf, curbuf>>
  PROVE  BufInv'
  BY DEF BufInv, LinesIn

LEMMA EditKeeps ==
  ASSUME TypeInv, curbuf' = curbuf, Edit
  PROVE  BufInv'
<1>1. PICK r \in Replies : IF r = Cancel THEN UNCHANGED buf ELSE Load(r, AllUsed - Used(curbuf))
  BY DEF Edit
<1>2. CASE r = Cancel
  <2>1. BufInv /\ UNCHANGED <<buf, curbuf>>
    BY <1>1, <1>2 DEF TypeInv
  <2> QED
    BY <2>1, SameBuf
<1>3. CASE r # Cancel
  <2>1. r \in Names \cup {NoName}
    BY <1>3 DEF Replies
  <2>2. Load(r, AllUsed - Used(curbuf))
    BY <1>1, <1>3
  <2> QED
    BY <2>1, <2>2, LoadKeeps
<1> QED
  BY <1>2, <1>3

LEMMA NamedKeeps ==
  ASSUME BufInv, NEW f \in Names \cup {NoName}
  PROVE  /\ NamedHere(f) \in [Places -> Record] /\ LinesIn(NamedHere(f)) <= Heap
         /\ NamedHere(f)[curbuf].text = Here.text /\ NamedHere(f)[curbuf].file = f
<1>1. PICK r : r = [Here EXCEPT !.file = f]
  OBVIOUS
<1>2. Here \in Record /\ Len(Here.text) <= Heap - Others
  BY HereIs
<1>3. r \in Record /\ r.text = Here.text /\ r.file = f
  BY <1>1, <1>2 DEF Record
<1>4. NamedHere(f) = [buf EXCEPT ![curbuf] = r]
  BY <1>1 DEF NamedHere, Here
<1>5. Len(r.text) <= Heap - Others
  BY <1>2, <1>3
<1>6. NamedHere(f) \in [Places -> Record] /\ LinesIn(NamedHere(f)) <= Heap
  BY <1>3, <1>4, <1>5, BufChanged
<1>7. NamedHere(f)[curbuf] = r
  BY <1>4 DEF BufInv
<1> QED
  BY <1>3, <1>6, <1>7

LEMMA NewBuf ==
  ASSUME BufInv, curbuf' = curbuf, NEW b2, buf' = b2,
         b2 \in [Places -> Record], LinesIn(b2) <= Heap
  PROVE  BufInv'
  BY DEF BufInv, LinesIn

LEMMA ReadKeeps ==
  ASSUME TypeInv, KRead
  PROVE  BufInv'
<1>1. curbuf' = curbuf /\ BufInv /\ disk \in [Names -> Held]
  BY DEF KRead, TypeInv
<1>2. CASE Here = Empty(NoName)
  <2>1. Edit
    BY <1>2 DEF KRead
  <2> QED
    BY <1>1, <2>1, EditKeeps
<1>3. CASE Here # Empty(NoName)
  <2>1. PICK r \in Replies, k \in 1 .. Len(Here.text) :
          IF r = Cancel THEN UNCHANGED buf
          ELSE \E lines \in Opened(r) :
                 buf' = [buf EXCEPT ![curbuf].text = Behind(@, k, lines),
                                    ![curbuf].mod = @ \/ Room(lines, AllUsed) > 0]
    BY <1>3 DEF KRead
  <2>2. CASE r = Cancel
    BY <1>1, <2>1, <2>2, SameBuf
  <2>3. CASE r # Cancel
    <3>1. PICK lines \in Opened(r) :
            buf' = [buf EXCEPT ![curbuf].text = Behind(@, k, lines),
                               ![curbuf].mod = @ \/ Room(lines, AllUsed) > 0]
      BY <2>1, <2>3
    <3>2. r \in Names \cup {NoName}
      BY <2>3 DEF Replies
    <3>3. lines \in Seq(Line)
      BY <1>1, <3>2, OpenedIs
    <3>4. /\ Here \in Record /\ Here.text \in Seq(Line) /\ Len(Here.text) \in Nat
          /\ Others \in Nat /\ AllUsed \in Nat /\ AllUsed = Others + Len(Here.text)
          /\ AllUsed <= Heap /\ Heap \in Nat
      BY <1>1, HereIs, BufsAre DEF BufInv
    <3>5. PICK t : t = Behind(Here.text, k, lines)
      OBVIOUS
    <3>6. t \in Text /\ Len(t) = Len(Here.text) + Room(lines, AllUsed)
      BY <3>3, <3>4, <3>5, BehindIs
    <3>7. Room(lines, AllUsed) \in 0 .. Len(lines) /\ Room(lines, AllUsed) <= Heap - AllUsed
      BY <3>3, <3>4, RoomIs
    <3>8. Len(t) <= Heap - Others
      <4>1. PICK x \in Nat, y \in Nat, z \in Nat : x = Len(Here.text) /\ y = Room(lines, AllUsed) /\ z = Others
        BY <3>4, <3>7
      <4>2. y <= Heap - (z + x)
        BY <3>4, <3>7, <4>1
      <4>3. Len(t) = x + y
        BY <3>6, <4>1
      <4>4. x + y <= Heap - z
        BY <3>4, <4>2
      <4> QED
        BY <4>1, <4>3, <4>4
    <3>9. PICK m : m = (Here.mod \/ Room(lines, AllUsed) > 0)
      OBVIOUS
    <3>10. m \in BOOLEAN
      BY <3>9
    <3>11. PICK e : e = [Here EXCEPT !.text = t, !.mod = m]
      OBVIOUS
    <3>12. e \in Record /\ e.text = t
      BY <3>4, <3>6, <3>10, <3>11 DEF Record
    <3>13. buf' = [buf EXCEPT ![curbuf] = e]
      <4>1. t = Behind(buf[curbuf].text, k, lines) /\ m = (buf[curbuf].mod \/ Room(lines, AllUsed) > 0)
        BY <3>5, <3>9 DEF Here
      <4>2. buf' = [buf EXCEPT ![curbuf].text = t, ![curbuf].mod = m]
        BY <3>1, <4>1
      <4> QED
        BY <1>1, <3>11, <4>2 DEF Here, BufInv
    <3>14. buf' \in [Places -> Record] /\ LinesIn(buf') <= Heap
      BY <1>1, <3>8, <3>12, <3>13, BufChanged
    <3> QED
      BY <1>1, <3>14, NewBuf
  <2> QED
    BY <2>2, <2>3
<1> QED
  BY <1>2, <1>3

LEMMA FileKeeps ==
  ASSUME TypeInv, KFile
  PROVE  BufInv'
<1>1. curbuf' = curbuf /\ BufInv
  BY DEF KFile, TypeInv
<1>2. PICK r \in Replies : buf' = IF r = Cancel THEN buf ELSE NamedHere(r)
  BY DEF KFile
<1>3. CASE r = Cancel
  BY <1>1, <1>2, <1>3, SameBuf
<1>4. CASE r # Cancel
  <2>1. r \in Names \cup {NoName} /\ buf' = NamedHere(r)
    BY <1>2, <1>4 DEF Replies
  <2>2. NamedHere(r) \in [Places -> Record] /\ LinesIn(NamedHere(r)) <= Heap
    BY <1>1, <2>1, NamedKeeps
  <2> QED
    BY <1>1, <2>1, <2>2, NewBuf
<1> QED
  BY <1>3, <1>4

LEMMA TypeKeeps ==
  ASSUME TypeInv, Type
  PROVE  BufInv'
<1>1. curbuf' = curbuf /\ BufInv /\ LinesIn(buf') <= Heap
  BY DEF Type, TypeInv, AllUsed, LinesIn
<1>2. PICK t \in Typed : buf' = [buf EXCEPT ![curbuf].text = t, ![curbuf].mod = TRUE]
  BY DEF Type
<1>3. t \in Text
  BY FilesAssumption DEF Text, Line, Plain
<1>4. buf[curbuf] \in Record /\ buf \in [Places -> Record] /\ curbuf \in Places
  BY <1>1 DEF BufInv
<1>5. PICK e : e = [buf[curbuf] EXCEPT !.text = t, !.mod = TRUE]
  OBVIOUS
<1>6. e \in Record
  BY <1>3, <1>4, <1>5 DEF Record
<1>7. buf' = [buf EXCEPT ![curbuf] = e]
  BY <1>2, <1>4, <1>5
<1>8. buf' \in [Places -> Record]
  BY <1>4, <1>6, <1>7
<1> QED
  BY <1>1, <1>8, NewBuf

LEMMA StartKeeps ==
  ASSUME TypeInv, Start
  PROVE  BufInv'
<1>1. BufInv /\ disk \in [Names -> Held]
  BY DEF TypeInv
<1>2. curbuf' = Bufs[1] /\ Bufs[1] \in Places
  BY BufsAre DEF Start
<1> PICK f \in Names \cup {NoName} : \E lines \in Opened(f) :
      buf' = [b \in Places |->
               IF b = Bufs[1] THEN [Empty(f) EXCEPT !.text = Fresh(lines, Len(Bufs) - 1)] ELSE Empty(NoName)]
  BY DEF Start
<1>3. PICK lines \in Opened(f) :
        buf' = [b \in Places |->
                 IF b = Bufs[1] THEN [Empty(f) EXCEPT !.text = Fresh(lines, Len(Bufs) - 1)] ELSE Empty(NoName)]
  OBVIOUS
<1>4. lines \in Seq(Line)
  BY <1>1, OpenedIs
<1>5. PICK n \in Nat : n = Len(Bufs) - 1 /\ n < Heap /\ Heap \in Nat
  BY BufsAre
<1>6. Fresh(lines, n) \in Text /\ Len(Fresh(lines, n)) <= Heap - n
  BY <1>4, <1>5, FreshIs
<1>7. PICK r : r = [Empty(f) EXCEPT !.text = Fresh(lines, n)]
  OBVIOUS
<1>8. r \in Record /\ r.text = Fresh(lines, n)
  BY <1>6, <1>7 DEF Record, Empty
<1>9. \A g \in Names \cup {NoName} : Empty(g) \in Record /\ Len(Empty(g).text) = 1
  <2>1. <<>> \in Line
    BY DEF Line
  <2>2. << <<>> >> \in Text /\ Len(<< <<>> >>) = 1
    BY <2>1 DEF Text
  <2> QED
    BY <2>2 DEF Record, Empty
<1>10. PICK b1 : b1 = [b \in Places |-> Empty(NoName)]
  OBVIOUS
<1>11. b1 \in [Places -> Record] /\ LinesIn(b1) = Len(Bufs)
  <2>1. b1 \in [Places -> Record] /\ \A b \in Places : Len(b1[b].text) = 1
    BY <1>9, <1>10
  <2> QED
    BY <2>1, OnesSum
<1>12. /\ buf' \in [Places -> Record] /\ buf'[Bufs[1]] = r
       /\ \A b \in Places \ {Bufs[1]} : buf'[b].text = b1[b].text
  BY <1>2, <1>3, <1>5, <1>7, <1>8, <1>9, <1>10
<1>13. /\ OthersLines(buf', Bufs[1]) = OthersLines(b1, Bufs[1]) /\ LinesIn(buf') \in Nat
  BY <1>2, <1>11, <1>12, OthersSame
<1>14. OthersLines(b1, Bufs[1]) = n
  <2>1. Len(b1[Bufs[1]].text) = 1
    BY <1>2, <1>9, <1>10
  <2> QED
    BY <1>5, <1>11, <2>1 DEF OthersLines
<1>15. LinesIn(buf') - Len(r.text) = n
  BY <1>12, <1>13, <1>14 DEF OthersLines
<1>16. LinesIn(buf') <= Heap
  <2>1. PICK m \in Nat : m = Len(r.text)
    <3>1. PICK t \in Seq(Line) : t = r.text
      BY <1>6, <1>8 DEF Text
    <3>2. Len(t) \in Nat
      OBVIOUS
    <3> QED
      BY <3>1, <3>2
  <2>2. m <= Heap - n
    BY <1>6, <1>8, <2>1
  <2> QED
    BY <1>5, <1>13, <1>15, <2>1, <2>2
<1> QED
  BY <1>2, <1>12, <1>16 DEF BufInv, LinesIn

Command == KEdit \/ KRead \/ KFile \/ KBuf \/ Type \/ KQuit \/ Start

LEMMA CommandKeeps ==
  ASSUME IInv, Command
  PROVE  IInv'
<1>1. TypeInv /\ PhaseInv /\ BackInv /\ GoodInv /\ BufInv
  BY DEF IInv, TypeInv
<1>2. BufInv'
  <2>1. CASE KEdit
    <3>1. curbuf' = curbuf /\ (Edit \/ UNCHANGED buf)
      BY <2>1 DEF KEdit
    <3> QED
      BY <1>1, <3>1, EditKeeps, SameBuf
  <2>2. CASE KRead
    BY <1>1, <2>2, ReadKeeps
  <2>3. CASE KFile
    BY <1>1, <2>3, FileKeeps
  <2>4. CASE KBuf
    <3>1. curbuf' \in Places
      <4>1. \A i \in DOMAIN Bufs : Bufs[i] \in Places
        BY DEF Places, Range
      <4> QED
        BY <2>4, <4>1 DEF KBuf
    <3>2. buf' = buf
      BY <2>4 DEF KBuf
    <3> QED
      BY <1>1, <3>1, <3>2 DEF BufInv, LinesIn
  <2>5. CASE Type
    BY <1>1, <2>5, TypeKeeps
  <2>6. CASE KQuit
    <3>1. UNCHANGED <<buf, curbuf>>
      BY <2>6 DEF KQuit
    <3> QED
      BY <1>1, <3>1, SameBuf
  <2>7. CASE Start
    BY <1>1, <2>7, StartKeeps
  <2> QED
    BY <2>1, <2>2, <2>3, <2>4, <2>5, <2>6, <2>7 DEF Command
<1>3. w = NoWrite
  BY <1>1 DEF Command, KEdit, KRead, KFile, KBuf, Type, KQuit, Start, Idle, PhaseInv
<1>4. UNCHANGED <<disk, ro, w, good, hurt>>
  BY DEF Command, KEdit, KRead, KFile, KBuf, Type, KQuit, Start
<1>5. running' \in BOOLEAN
  <2>1. CASE KQuit
    <3>1. \/ running' = FALSE
          \/ \E b \in FirstModified : \E a \in ModCheck(b) : running' = ~ a.ok
      BY <2>1 DEF KQuit
    <3> QED
      BY <3>1
  <2>2. CASE ~ KQuit
    <3>1. running' = running \/ running' = TRUE
      BY <2>2 DEF Command, KEdit, KRead, KFile, KBuf, Type, Start
    <3> QED
      BY <1>1, <3>1 DEF TypeInv
  <2> QED
    BY <2>1, <2>2
<1>6. TypeInv'
  BY <1>1, <1>2, <1>4, <1>5 DEF TypeInv
<1>7. PhaseInv'
  BY <1>3, <1>4 DEF PhaseInv
<1>8. BackInv'
  BY <1>3, <1>4 DEF BackInv
<1>9. GoodInv'
  BY <1>1, <1>3, <1>4 DEF GoodInv
<1> QED
  BY <1>6, <1>7, <1>8, <1>9 DEF IInv

----------------------------------------------------------------------------
(* The steps of a write.                                                    *)

LEMMA WriteKeeps ==
  ASSUME IInv, KWrite
  PROVE  IInv'
<1>1. TypeInv /\ BufInv /\ GoodInv /\ curbuf' = curbuf /\ running' = running /\ running
      /\ UNCHANGED <<disk, ro, good, hurt>> /\ w = NoWrite
  BY DEF IInv, TypeInv, KWrite, Idle
<1>2. PICK f \in Names : /\ buf' \in [Places -> Record] /\ LinesIn(buf') <= Heap
                         /\ buf'[curbuf].file = f
  <2>1. CASE Here.file # NoName /\ UNCHANGED buf
    <3>1. Here.file \in Names
      BY <1>1, <2>1, HereIs DEF Record
    <3> QED
      BY <1>1, <2>1, <3>1 DEF BufInv, Here
  <2>2. CASE \E f \in Names : buf' = NamedHere(f)
    <3>1. PICK f \in Names : buf' = NamedHere(f)
      BY <2>2
    <3>2. /\ NamedHere(f) \in [Places -> Record] /\ LinesIn(NamedHere(f)) <= Heap
          /\ NamedHere(f)[curbuf].file = f
      BY <1>1, NamedKeeps
    <3> QED
      BY <3>1, <3>2
  <2> QED
    BY <2>1, <2>2 DEF KWrite
<1>3. w' = [at |-> "unlink", file |-> f, line |-> 1, err |-> FALSE, before |-> disk[f]]
  BY <1>2 DEF KWrite
<1>4. BufInv'
  BY <1>1, <1>2, NewBuf
<1>5. w' \in Writing /\ w'.at = "unlink" /\ w'.file = f /\ w'.line = 1 /\ ~ w'.err /\ w'.before = disk[f]
  BY <1>1, <1>3 DEF Writing, Early, TypeInv
<1>6. TypeInv'
  BY <1>1, <1>4, <1>5 DEF TypeInv
<1>7. PhaseInv'
  BY <1>1, <1>5 DEF PhaseInv, Early, Late
<1>8. \A v : MovedTo(f, v)' <=> disk[f] = v
  BY <1>1, <1>5 DEF MovedTo
<1>9. BackInv'
  BY <1>5, <1>8 DEF BackInv
<1>10. GoodInv'
  BY <1>1, <1>5, <1>8 DEF GoodInv
<1> QED
  BY <1>6, <1>7, <1>9, <1>10 DEF IInv

\* A step of a write moves the old version on and leaves the other files alone.
MovesOn ==
  /\ w # NoWrite /\ w' # NoWrite /\ w'.file = w.file /\ w'.before = w.before
  /\ UNCHANGED <<ro, good, hurt>>
  /\ ro = {} => \A f \in Names \ Backups :
       IF f = w.file THEN \A v : MovedTo(f, v) => MovedTo(f, v)' ELSE disk'[f] = disk[f]

LEMMA MovedOn ==
  ASSUME IInv, MovesOn
  PROVE  BackInv' /\ GoodInv'
<1>1. TypeInv /\ BackInv /\ GoodInv /\ w.file \in Names
  BY DEF IInv, TypeInv, Writing, MovesOn
<1>2. BackInv'
  <2> SUFFICES ASSUME ro = {}, w.file \notin Backups PROVE MovedTo(w.file, w.before)'
    BY DEF BackInv, MovesOn
  <2>1. MovedTo(w.file, w.before)
    BY <1>1 DEF BackInv, MovesOn
  <2>2. PICK f, v : f = w.file /\ v = w.before
    OBVIOUS
  <2>3. MovedTo(f, v)'
    BY <1>1, <2>1, <2>2 DEF MovesOn
  <2>4. w'.file = f /\ w'.before = v
    BY <2>2 DEF MovesOn
  <2> QED
    BY <2>3, <2>4 DEF MovedTo
<1>3. GoodInv'
  <2> SUFFICES ASSUME ro = {}, ~ hurt, NEW f \in Names \ Backups
               PROVE  IF w.file = f THEN MovedTo(f, good[f])' ELSE good[f] = disk'[f]
    BY DEF GoodInv, MovesOn
  <2>1. IF w.file = f THEN MovedTo(f, good[f]) ELSE good[f] = disk[f]
    BY <1>1 DEF GoodInv, MovesOn
  <2>2. good' = good
    BY DEF MovesOn
  <2>3. CASE w.file = f
    <3>1. PICK v : v = good[f]
      OBVIOUS
    <3>2. MovedTo(f, v)'
      BY <2>1, <2>3, <3>1 DEF MovesOn
    <3> QED
      BY <2>2, <2>3, <3>1, <3>2 DEF MovedTo
  <2>4. CASE w.file # f
    BY <2>1, <2>4 DEF MovesOn
  <2> QED
    BY <2>3, <2>4
<1> QED
  BY <1>2, <1>3

LEMMA UnlinkKeeps ==
  ASSUME IInv, WUnlink
  PROVE  IInv'
<1>1. TypeInv /\ PhaseInv /\ BufInv /\ disk \in [Names -> Held]
      /\ UNCHANGED <<ro, buf, curbuf, running, good, hurt>>
  BY DEF IInv, TypeInv, WUnlink
<1>2. w \in Writing /\ w # NoWrite /\ w.at = "unlink" /\ w.line = 1 /\ ~ w.err
  BY <1>1, NotWriting DEF TypeInv, WUnlink, NoWrite, PhaseInv, Early
<1>3. PICK f \in Names : f = w.file
  BY <1>2 DEF Writing
<1>4. /\ w' \in Writing /\ w' # NoWrite /\ w'.at = "rename" /\ w'.file = f /\ w'.line = 1 /\ ~ w'.err
      /\ w'.before = w.before
  <2>1. w' = [w EXCEPT !.at = "rename"]
    BY DEF WUnlink
  <2> QED
    BY <1>2, <1>3, <2>1 DEF Writing, Early, Late, NoWrite
<1>5. Bak(f) \in Names /\ Bak(f) \in Backups /\ (f \notin Backups => Bak(f) # f)
  BY ItsBackup
<1>6. disk' = IF Bak(f) \in ro THEN disk ELSE [disk EXCEPT ![Bak(f)] = Absent]
  BY <1>3 DEF WUnlink
<1>7. disk' \in [Names -> Held]
  BY <1>1, <1>5, <1>6 DEF Held
<1>8. MovesOn
  <2>1. ASSUME ro = {}, NEW g \in Names \ Backups
        PROVE  IF g = w.file THEN \A v : MovedTo(g, v) => MovedTo(g, v)' ELSE disk'[g] = disk[g]
    <3>1. disk' = [disk EXCEPT ![Bak(f)] = Absent]
      BY <1>6, <2>1
    <3>2. disk'[g] = disk[g]
      BY <1>1, <1>5, <3>1
    <3>3. disk'[Bak(f)] = Absent
      BY <1>1, <1>5, <3>1
    <3> QED
      BY <1>2, <1>3, <1>4, <3>2, <3>3 DEF MovedTo
  <2> QED
    BY <1>1, <1>2, <1>3, <1>4, <2>1 DEF MovesOn
<1>9. BackInv' /\ GoodInv'
  BY <1>8, MovedOn
<1>10. TypeInv'
  BY <1>1, <1>4, <1>7, SameBuf DEF TypeInv
<1>11. PhaseInv'
  BY <1>1, <1>2, <1>4 DEF PhaseInv, Early, Late
<1> QED
  BY <1>9, <1>10, <1>11 DEF IInv

LEMMA RenameKeeps ==
  ASSUME IInv, WRename
  PROVE  IInv'
<1>1. TypeInv /\ PhaseInv /\ BufInv /\ disk \in [Names -> Held]
      /\ UNCHANGED <<ro, buf, curbuf, running, good, hurt>>
  BY DEF IInv, TypeInv, WRename
<1>2. w \in Writing /\ w # NoWrite /\ w.at = "rename" /\ w.line = 1 /\ ~ w.err
  BY <1>1, NotWriting DEF TypeInv, WRename, NoWrite, PhaseInv, Early
<1>3. PICK f \in Names : f = w.file
  BY <1>2 DEF Writing
<1>4. /\ w' \in Writing /\ w' # NoWrite /\ w'.at = "create" /\ w'.file = f /\ w'.line = 1 /\ ~ w'.err
      /\ w'.before = w.before
  <2>1. w' = [w EXCEPT !.at = "create"]
    BY DEF WRename
  <2> QED
    BY <1>2, <1>3, <2>1 DEF Writing, Early, Late, NoWrite
<1>5. Bak(f) \in Names /\ Bak(f) \in Backups /\ (f \notin Backups => Bak(f) # f)
  BY ItsBackup
<1>6. disk' = IF disk[f] # Absent /\ disk[Bak(f)] = Absent /\ f \notin ro
              THEN [disk EXCEPT ![Bak(f)] = disk[f], ![f] = Absent] ELSE disk
  BY <1>3 DEF WRename
<1>7. disk' \in [Names -> Held]
  <2>1. disk[f] \in Held /\ Absent \in Held
    BY <1>1 DEF Held
  <2> QED
    BY <1>1, <1>5, <1>6, <2>1
<1>8. MovesOn
  <2>1. ASSUME ro = {}, NEW g \in Names \ Backups
        PROVE  IF g = w.file THEN \A v : MovedTo(g, v) => MovedTo(g, v)' ELSE disk'[g] = disk[g]
    <3>1. CASE g # f
      <4>1. disk'[g] = disk[g]
        BY <1>1, <1>5, <1>6, <3>1
      <4> QED
        BY <1>3, <3>1, <4>1
    <3>2. CASE g = f
      <4> SUFFICES ASSUME NEW v, MovedTo(f, v) PROVE MovedTo(f, v)'
        BY <1>3, <3>2
      <4>1. disk[f] = v /\ disk[Bak(f)] = Absent
        BY <1>2 DEF MovedTo
      <4>2. v # Absent => disk'[Bak(f)] = v
        <5> SUFFICES ASSUME v # Absent PROVE disk'[Bak(f)] = v
          OBVIOUS
        <5>1. disk' = [disk EXCEPT ![Bak(f)] = disk[f], ![f] = Absent]
          BY <1>6, <2>1, <4>1
        <5> QED
          BY <1>1, <1>5, <2>1, <3>2, <4>1, <5>1
      <4> QED
        BY <1>4, <4>2 DEF MovedTo
    <3> QED
      BY <3>1, <3>2
  <2> QED
    BY <1>1, <1>2, <1>3, <1>4, <2>1 DEF MovesOn
<1>9. BackInv' /\ GoodInv'
  BY <1>8, MovedOn
<1>10. TypeInv'
  BY <1>1, <1>4, <1>7, SameBuf DEF TypeInv
<1>11. PhaseInv'
  BY <1>1, <1>2, <1>4 DEF PhaseInv, Early, Late
<1> QED
  BY <1>9, <1>10, <1>11 DEF IInv

\* Once it has been created, a step writes to the file alone.
OnlyIts == \A g \in Names : g # w.file => disk'[g] = disk[g]

LEMMA LaterMoves ==
  ASSUME TypeInv, w \in Writing, w' # NoWrite, w'.file = w.file, w'.before = w.before,
         UNCHANGED <<ro, good, hurt>>,
         w.at \in Late \cup {"create"}, w'.at \in Late, OnlyIts
  PROVE  MovesOn
<1>1. w # NoWrite
  BY NotWriting
<1>2. PICK f \in Names : f = w.file
  BY DEF Writing
<1>3. ASSUME ro = {}, NEW g \in Names \ Backups
      PROVE  IF g = w.file THEN \A v : MovedTo(g, v) => MovedTo(g, v)' ELSE disk'[g] = disk[g]
  <2>1. CASE g # f
    BY <1>2, <2>1 DEF OnlyIts
  <2>2. CASE g = f
    <3>1. disk'[Bak(f)] = disk[Bak(f)]
      BY <1>2, <1>3, <2>2, ItsBackup DEF OnlyIts
    <3>2. w.at \notin {"unlink", "rename"} /\ w'.at \notin {"unlink", "rename"}
      BY DEF Late
    <3> QED
      BY <1>2, <2>2, <3>1, <3>2 DEF MovedTo
  <2> QED
    BY <2>1, <2>2
<1> QED
  BY <1>1, <1>3 DEF MovesOn

LEMMA GivenUp ==
  ASSUME TypeInv, BufInv', w' = NoWrite, hurt', UNCHANGED <<disk, good>>, running' \in BOOLEAN, hurt' \in BOOLEAN
  PROVE  IInv'
<1>1. TypeInv'
  BY DEF TypeInv
<1>2. PhaseInv' /\ BackInv' /\ GoodInv'
  BY DEF PhaseInv, BackInv, GoodInv
<1> QED
  BY <1>1, <1>2 DEF IInv

LEMMA CreateKeeps ==
  ASSUME IInv, WCreate
  PROVE  IInv'
<1>1. TypeInv /\ PhaseInv /\ BufInv /\ disk \in [Names -> Held]
      /\ UNCHANGED <<ro, buf, curbuf, running, good>>
  BY DEF IInv, TypeInv, WCreate
<1>2. BufInv'
  BY <1>1, SameBuf
<1>3. CASE w' = NoWrite /\ hurt' = TRUE /\ UNCHANGED disk
  <2>1. running' \in BOOLEAN
    BY <1>1 DEF TypeInv
  <2> QED
    BY <1>1, <1>2, <1>3, <2>1, GivenUp
<1>4. CASE /\ disk' = [disk EXCEPT ![w.file] = <<>>]
           /\ w' = [w EXCEPT !.at = "line"]
           /\ hurt' = hurt
  <2>1. w \in Writing /\ w # NoWrite /\ w.at = "create" /\ w.line = 1 /\ ~ w.err
    BY <1>1, NotWriting DEF TypeInv, WCreate, NoWrite, PhaseInv, Early
  <2>2. PICK f \in Names : f = w.file
    BY <2>1 DEF Writing
  <2>3. /\ w' \in Writing /\ w' # NoWrite /\ w'.at = "line" /\ w'.file = f /\ w'.line = 1 /\ ~ w'.err
        /\ w'.before = w.before
    BY <1>4, <2>1, <2>2 DEF Writing, Early, Late, NoWrite
  <2>4. <<>> \in Seq(Chars)
    OBVIOUS
  <2>5. disk' \in [Names -> Held] /\ disk'[f] = <<>> /\ OnlyIts
    BY <1>1, <1>4, <2>2, <2>4 DEF Held, OnlyIts
  <2>6. MovesOn
    <3>1. w.at \in Late \cup {"create"} /\ w'.at \in Late
      BY <2>1, <2>3 DEF Late
    <3> QED
      BY <1>1, <1>4, <2>1, <2>2, <2>3, <2>5, <3>1, LaterMoves
  <2>7. BackInv' /\ GoodInv'
    BY <2>6, MovedOn
  <2>8. TypeInv'
    BY <1>1, <1>2, <1>4, <2>3, <2>5 DEF TypeInv
  <2>9. PhaseInv'
    <3>1. Here' = Here /\ Here.text \in Seq(Line) /\ Len(Here.text) \in Nat
      BY <1>1, HereIs DEF Here
    <3>2. LinedTo(Here.text, 0) = <<>>
      BY <3>1, LinedNone
    <3>3. w'.line - 1 = 0 /\ 0 \in 0 .. Len(Here.text)
      BY <2>3, <3>1
    <3>4. disk'[w'.file] = LinedTo(Here'.text, w'.line - 1) /\ disk'[w'.file] \in Seq(Chars)
      BY <2>3, <2>4, <2>5, <3>1, <3>2, <3>3
    <3>5. w'.line - 1 \in 0 .. Len(Here'.text)
      BY <3>1, <3>3
    <3>6. running'
      BY <1>1 DEF WCreate
    <3> QED
      BY <2>3, <3>4, <3>5, <3>6 DEF PhaseInv, Early, Late
  <2> QED
    BY <2>7, <2>8, <2>9 DEF IInv
<1> QED
  BY <1>3, <1>4 DEF WCreate

LEMMA PutIs ==
  ASSUME TypeInv, w \in Writing, disk[w.file] \in Seq(Chars), NEW s \in Seq(Chars), Put(s)
  PROVE  /\ disk' \in [Names -> Held] /\ OnlyIts
         /\ disk'[w.file] = disk[w.file] \o s /\ disk'[w.file] \in Seq(Chars)
<1>1. disk \in [Names -> Held]
  BY DEF TypeInv
<1>2. PICK f \in Names : f = w.file
  BY DEF Writing
<1>3. PICK d \in Seq(Chars) : d = disk[f]
  BY <1>2
<1>4. d \o s \in Seq(Chars)
  OBVIOUS
<1>5. disk' = [disk EXCEPT ![f] = d \o s]
  BY <1>2, <1>3 DEF Put
<1>6. PICK e \in Seq(Chars) : e = d \o s
  BY <1>4
<1>7. disk' = [disk EXCEPT ![f] = e]
  BY <1>5, <1>6
<1>8. disk' \in [Names -> Held] /\ OnlyIts /\ disk'[f] = e
  BY <1>1, <1>2, <1>7 DEF Held, OnlyIts
<1> QED
  BY <1>2, <1>3, <1>6, <1>8

LEMMA SameDisk ==
  ASSUME UNCHANGED disk PROVE OnlyIts
  BY DEF OnlyIts

LEMMA LineKeeps ==
  ASSUME IInv, WLine
  PROVE  IInv'
<1>1. TypeInv /\ PhaseInv /\ BufInv /\ running /\ w.at = "line" /\ w.line <= Len(Here.text)
      /\ UNCHANGED <<ro, buf, curbuf, running, good, hurt>>
  BY DEF IInv, TypeInv, WLine
<1>2. w \in Writing /\ w # NoWrite
  BY <1>1, NotWriting DEF TypeInv, NoWrite
<1>3. /\ ~ w.err /\ w.line - 1 \in 0 .. Len(Here.text) /\ disk[w.file] \in Seq(Chars)
      /\ disk[w.file] = LinedTo(Here.text, w.line - 1)
  BY <1>1, <1>2 DEF PhaseInv, Late
<1>4. PICK n \in Nat : n = w.line
  BY <1>2 DEF Writing
<1>5. Here' = Here /\ Here.text \in Seq(Line) /\ Len(Here.text) \in Nat
  BY <1>1, HereIs DEF Here
<1>6. n \in 1 .. Len(Here.text)
  BY <1>1, <1>3, <1>4, <1>5
<1>7. BufInv'
  BY <1>1, SameBuf
<1>8. CASE Put(Append(Here.text[w.line], NL)) /\ w' = [w EXCEPT !.line = @ + 1]
  <2>1. Append(Here.text[n], NL) \in Seq(Chars)
    <3>1. Here.text[n] \in Line
      BY <1>5, <1>6
    <3>2. Here.text[n] \in Seq(Chars) /\ NL \in Chars
      BY <3>1, LineIsSeq
    <3> QED
      BY <3>2
  <2>2. Put(Append(Here.text[n], NL))
    BY <1>4, <1>8
  <2>3. /\ disk' \in [Names -> Held] /\ OnlyIts
        /\ disk'[w.file] = disk[w.file] \o Append(Here.text[n], NL) /\ disk'[w.file] \in Seq(Chars)
    BY <1>1, <1>2, <1>3, <2>1, <2>2, PutIs
  <2>4. LinedTo(Here.text, n) = LinedTo(Here.text, n - 1) \o Append(Here.text[n], NL)
    BY <1>5, <1>6, LinedNext
  <2>5. disk'[w.file] = LinedTo(Here.text, n)
    BY <1>3, <1>4, <2>3, <2>4
  <2>6. /\ w' \in Writing /\ w' # NoWrite /\ w'.at = "line" /\ w'.file = w.file /\ w'.line = n + 1
        /\ ~ w'.err /\ w'.before = w.before
    BY <1>1, <1>2, <1>3, <1>4, <1>8 DEF Writing, NoWrite
  <2>7. MovesOn
    <3>1. w.at \in Late \cup {"create"} /\ w'.at \in Late
      BY <1>1, <2>6 DEF Late
    <3> QED
      BY <1>1, <1>2, <2>3, <2>6, <3>1, LaterMoves
  <2>8. BackInv' /\ GoodInv'
    BY <2>7, MovedOn
  <2>9. TypeInv'
    BY <1>1, <1>7, <2>3, <2>6 DEF TypeInv
  <2>10. PhaseInv'
    <3>1. w'.line - 1 = n /\ n \in 0 .. Len(Here.text)
      BY <1>6, <2>6
    <3>2. w'.line - 1 \in 0 .. Len(Here'.text) /\ disk'[w'.file] = LinedTo(Here'.text, w'.line - 1)
      BY <1>5, <2>5, <2>6, <3>1
    <3> QED
      BY <1>1, <2>3, <2>6, <3>2 DEF PhaseInv, Early, Late
  <2> QED
    BY <2>8, <2>9, <2>10 DEF IInv
<1>9. CASE UNCHANGED disk /\ w' = [w EXCEPT !.at = "end", !.err = TRUE]
  <2>1. /\ w' \in Writing /\ w' # NoWrite /\ w'.at = "end" /\ w'.file = w.file
        /\ w'.err /\ w'.before = w.before
    BY <1>2, <1>9 DEF Writing, Early, Late, NoWrite
  <2>2. MovesOn
    <3>1. w.at \in Late \cup {"create"} /\ w'.at \in Late
      BY <1>1, <2>1 DEF Late
    <3> QED
      BY <1>1, <1>2, <1>9, <2>1, <3>1, SameDisk, LaterMoves
  <2>3. BackInv' /\ GoodInv'
    BY <2>2, MovedOn
  <2>4. TypeInv'
    BY <1>1, <1>7, <1>9, <2>1 DEF TypeInv
  <2>5. PhaseInv'
    BY <1>1, <1>3, <1>9, <2>1 DEF PhaseInv, Early, Late
  <2> QED
    BY <2>3, <2>4, <2>5 DEF IInv
<1> QED
  BY <1>8, <1>9 DEF WLine

LEMMA EndKeeps ==
  ASSUME IInv, WEnd
  PROVE  IInv'
<1>1. TypeInv /\ PhaseInv /\ BufInv /\ running
      /\ UNCHANGED <<ro, buf, curbuf, running, good, hurt>>
  BY DEF IInv, TypeInv, WEnd
<1>2. w \in Writing /\ w # NoWrite /\ w.at \in {"line", "end"}
  BY <1>1, NotWriting DEF TypeInv, NoWrite, WEnd
<1>3. disk[w.file] \in Seq(Chars)
  BY <1>1, <1>2 DEF PhaseInv, Late
<1>4. Here' = Here /\ Here.text \in Seq(Line) /\ Len(Here.text) \in Nat
  BY <1>1, HereIs DEF Here
<1>5. w.err \/ disk[w.file] = Lined(Here.text)
  <2>1. CASE w.at = "end"
    BY <1>1, <1>2, <2>1 DEF PhaseInv
  <2>2. CASE w.at = "line" /\ w.line > Len(Here.text)
    <3>1. w.line - 1 \in 0 .. Len(Here.text) /\ disk[w.file] = LinedTo(Here.text, w.line - 1)
      BY <1>1, <1>2, <2>2 DEF PhaseInv
    <3>2. w.line \in Nat
      BY <1>2 DEF Writing
    <3>3. w.line - 1 = Len(Here.text)
      BY <1>4, <2>2, <3>1, <3>2
    <3>4. Lined(Here.text) = LinedTo(Here.text, Len(Here.text))
      BY <1>4, LinedAll
    <3> QED
      BY <3>1, <3>3, <3>4
  <2> QED
    BY <2>1, <2>2 DEF WEnd
<1>6. BufInv'
  BY <1>1, SameBuf
<1>7. CASE Put(<<EOF>>) /\ w' = [w EXCEPT !.at = "close"]
  <2>1. <<EOF>> \in Seq(Chars)
    BY LineIsSeq
  <2>2. /\ disk' \in [Names -> Held] /\ OnlyIts
        /\ disk'[w.file] = disk[w.file] \o <<EOF>> /\ disk'[w.file] \in Seq(Chars)
    BY <1>1, <1>2, <1>3, <1>7, <2>1, PutIs
  <2>3. w.err \/ disk'[w.file] = Contents(Here.text)
    <3>1. PICK d \in Seq(Chars) : d = disk[w.file]
      BY <1>3
    <3>2. d \o <<EOF>> = Append(d, EOF)
      BY LineIsSeq
    <3> QED
      BY <1>5, <2>2, <3>1, <3>2 DEF Contents
  <2>4. /\ w' \in Writing /\ w' # NoWrite /\ w'.at = "close" /\ w'.file = w.file
        /\ w'.err = w.err /\ w'.before = w.before
    BY <1>2, <1>7 DEF Writing, Early, Late, NoWrite
  <2>5. MovesOn
    <3>1. w.at \in Late \cup {"create"} /\ w'.at \in Late
      BY <1>2, <2>4 DEF Late
    <3> QED
      BY <1>1, <1>2, <2>2, <2>4, <3>1, LaterMoves
  <2>6. BackInv' /\ GoodInv'
    BY <2>5, MovedOn
  <2>7. TypeInv'
    BY <1>1, <1>6, <2>2, <2>4 DEF TypeInv
  <2>8. PhaseInv'
    BY <1>1, <1>4, <2>2, <2>3, <2>4 DEF PhaseInv, Early, Late
  <2> QED
    BY <2>6, <2>7, <2>8 DEF IInv
<1>8. CASE UNCHANGED disk /\ w' = [w EXCEPT !.at = "close", !.err = TRUE]
  <2>1. /\ w' \in Writing /\ w' # NoWrite /\ w'.at = "close" /\ w'.file = w.file
        /\ w'.err /\ w'.before = w.before
    BY <1>2, <1>8 DEF Writing, Early, Late, NoWrite
  <2>2. MovesOn
    <3>1. w.at \in Late \cup {"create"} /\ w'.at \in Late
      BY <1>2, <2>1 DEF Late
    <3> QED
      BY <1>1, <1>2, <1>8, <2>1, <3>1, SameDisk, LaterMoves
  <2>3. BackInv' /\ GoodInv'
    BY <2>2, MovedOn
  <2>4. TypeInv'
    BY <1>1, <1>6, <1>8, <2>1 DEF TypeInv
  <2>5. PhaseInv'
    BY <1>1, <1>3, <1>8, <2>1 DEF PhaseInv, Early, Late
  <2> QED
    BY <2>3, <2>4, <2>5 DEF IInv
<1> QED
  BY <1>7, <1>8 DEF WEnd

LEMMA CloseIs ==
  ASSUME TypeInv, PhaseInv, WClose
  PROVE  \E err \in BOOLEAN :
           /\ Closed(err) /\ OnlyIts /\ disk' \in [Names -> Held]
           /\ ~ err => ~ w.err /\ UNCHANGED disk
<1>1. w \in Writing /\ w # NoWrite /\ w.at = "close"
  BY NotWriting DEF TypeInv, NoWrite, WClose
<1>2. w.err \in BOOLEAN /\ w.file \in Names /\ disk \in [Names -> Held]
  BY <1>1 DEF Writing, TypeInv
<1>3. CASE UNCHANGED disk /\ Closed(w.err)
  <2>1. Closed(w.err) /\ OnlyIts /\ disk' \in [Names -> Held] /\ UNCHANGED disk
    BY <1>2, <1>3, SameDisk
  <2> QED
    BY <1>2, <2>1
<1>4. CASE /\ disk[w.file] # <<>> /\ disk' = [disk EXCEPT ![w.file] = SubSeq(@, 1, Len(@) - 1)]
           /\ Closed(TRUE)
  <2>1. PICK d \in Seq(Chars) : d = disk[w.file] /\ d # <<>>
    BY <1>1, <1>4 DEF PhaseInv, Late
  <2>2. SubSeq(d, 1, Len(d) - 1) \in Seq(Chars)
    <3>1. Len(d) - 1 \in 0 .. Len(d)
      BY <2>1
    <3> QED
      BY <3>1
  <2>3. PICK e \in Seq(Chars) : e = SubSeq(d, 1, Len(d) - 1)
    BY <2>2
  <2>4. disk' = [disk EXCEPT ![w.file] = e]
    BY <1>4, <2>1, <2>3
  <2>5. disk' \in [Names -> Held] /\ OnlyIts
    BY <1>2, <2>4 DEF Held, OnlyIts
  <2> QED
    BY <1>4, <2>5
<1> QED
  BY <1>3, <1>4 DEF WClose

LEMMA CloseKeeps ==
  ASSUME IInv, WClose
  PROVE  IInv'
<1>1. TypeInv /\ PhaseInv /\ GoodInv /\ BufInv /\ running /\ w.at = "close"
      /\ UNCHANGED <<ro, curbuf, running>>
  BY DEF IInv, TypeInv, WClose
<1>2. w \in Writing /\ w # NoWrite
  BY <1>1, NotWriting DEF TypeInv, NoWrite
<1>3. PICK f \in Names : f = w.file
  BY <1>2 DEF Writing
<1>4. PICK err \in BOOLEAN : /\ Closed(err) /\ OnlyIts /\ disk' \in [Names -> Held]
                             /\ ~ err => ~ w.err /\ UNCHANGED disk
  BY <1>1, CloseIs
<1>5. /\ w' = NoWrite
      /\ buf' = [buf EXCEPT ![curbuf].mod = @ /\ err]
      /\ good' = IF err THEN good ELSE [good EXCEPT ![f] = disk'[f]]
      /\ hurt' = (hurt \/ err)
  BY <1>3, <1>4 DEF Closed
<1>6. BufInv'
  <2>1. PICK m : m = (Here.mod /\ err)
    OBVIOUS
  <2>2. PICK e : e = [Here EXCEPT !.mod = m]
    OBVIOUS
  <2>3. Here \in Record /\ Len(Here.text) <= Heap - Others /\ m \in BOOLEAN
    BY <1>1, <2>1, HereIs
  <2>4. e \in Record /\ e.text = Here.text
    BY <2>2, <2>3 DEF Record
  <2>5. buf' = [buf EXCEPT ![curbuf] = e]
    BY <1>1, <1>5, <2>1, <2>2 DEF Here, BufInv
  <2>6. Len(e.text) <= Heap - Others
    BY <2>3, <2>4
  <2>7. buf' \in [Places -> Record] /\ LinesIn(buf') <= Heap
    BY <1>1, <2>4, <2>5, <2>6, BufChanged
  <2> QED
    BY <1>1, <2>7, NewBuf
<1>7. good' \in [Names -> Held]
  <2>1. good \in [Names -> Held] /\ disk'[f] \in Held
    BY <1>1, <1>4 DEF TypeInv
  <2> QED
    BY <1>5, <2>1
<1>8. TypeInv'
  <2>1. hurt' \in BOOLEAN /\ running' \in BOOLEAN
    BY <1>1, <1>5 DEF TypeInv
  <2> QED
    BY <1>4, <1>5, <1>6, <1>7, <2>1 DEF TypeInv
<1>9. PhaseInv' /\ BackInv'
  BY <1>5 DEF PhaseInv, BackInv
<1>10. GoodInv'
  <2> SUFFICES ASSUME ro = {}, ~ hurt, ~ err, NEW g \in Names \ Backups PROVE good'[g] = disk'[g]
    BY <1>1, <1>5 DEF GoodInv
  <2>1. good' = [good EXCEPT ![f] = disk'[f]] /\ good \in [Names -> Held]
    BY <1>1, <1>5 DEF TypeInv
  <2>2. CASE g = f
    BY <2>1, <2>2
  <2>3. CASE g # f
    <3>1. good'[g] = good[g]
      BY <2>1, <2>3
    <3>2. good[g] = disk[g] /\ disk'[g] = disk[g]
      BY <1>1, <1>3, <1>4, <2>3 DEF GoodInv, OnlyIts
    <3> QED
      BY <3>1, <3>2
  <2> QED
    BY <2>2, <2>3
<1> QED
  BY <1>8, <1>9, <1>10 DEF IInv

LEMMA CrashKeeps ==
  ASSUME IInv, Crash
  PROVE  IInv'
<1>1. TypeInv /\ PhaseInv /\ BackInv /\ GoodInv /\ BufInv
      /\ UNCHANGED <<disk, ro, buf, curbuf, good>> /\ w' = NoWrite /\ running' = FALSE
      /\ hurt' = (hurt \/ w # NoWrite)
  BY DEF IInv, TypeInv, Crash
<1>2. BufInv' /\ hurt' \in BOOLEAN
  BY <1>1, SameBuf DEF TypeInv
<1>3. TypeInv'
  BY <1>1, <1>2 DEF TypeInv
<1>4. PhaseInv' /\ BackInv'
  BY <1>1 DEF PhaseInv, BackInv
<1>5. GoodInv'
  BY <1>1 DEF GoodInv
<1> QED
  BY <1>3, <1>4, <1>5 DEF IInv

LEMMA InitInv == Init => IInv
<1> SUFFICES ASSUME Init PROVE IInv
  OBVIOUS
<1>1. disk \in [Names -> Held] /\ good = disk
  <2>1. Texts0 \subseteq Seq(Chars)
    BY FilesAssumption
  <2> QED
    BY <2>1 DEF Init, Held
<1>2. <<>> \in Line
  BY DEF Line
<1>3. << <<>> >> \in Text /\ Len(<< <<>> >>) = 1
  BY <1>2 DEF Text
<1>4. buf \in [Places -> Record] /\ \A b \in Places : Len(buf[b].text) = 1
  BY <1>3 DEF Init, Empty, Record
<1>5. LinesIn(buf) <= Heap
  BY <1>4, OnesSum, BufsAre
<1>6. BufInv
  <2>1. curbuf \in Places
    BY BufsAre DEF Init
  <2> QED
    BY <1>4, <1>5, <2>1 DEF BufInv
<1>7. TypeInv
  BY <1>1, <1>6 DEF TypeInv, Init
<1>8. PhaseInv /\ BackInv /\ GoodInv
  BY <1>1 DEF PhaseInv, BackInv, GoodInv, Init
<1> QED
  BY <1>7, <1>8 DEF IInv

LEMMA StepInv == IInv /\ [Next]_vars => IInv'
<1> SUFFICES ASSUME IInv, [Next]_vars PROVE IInv'
  OBVIOUS
<1>1. CASE Command
  BY <1>1, CommandKeeps
<1>2. CASE KWrite
  BY <1>2, WriteKeeps
<1>3. CASE WUnlink
  BY <1>3, UnlinkKeeps
<1>4. CASE WRename
  BY <1>4, RenameKeeps
<1>5. CASE WCreate
  BY <1>5, CreateKeeps
<1>6. CASE WLine
  BY <1>6, LineKeeps
<1>7. CASE WEnd
  BY <1>7, EndKeeps
<1>8. CASE WClose
  BY <1>8, CloseKeeps
<1>9. CASE Crash
  BY <1>9, CrashKeeps
<1>10. CASE UNCHANGED vars
  <2>1. TypeInv /\ PhaseInv /\ BackInv /\ GoodInv /\ BufInv /\ UNCHANGED <<disk, ro, buf, curbuf, w, running, good, hurt>>
    BY <1>10 DEF IInv, TypeInv, vars
  <2>2. BufInv'
    BY <2>1, SameBuf
  <2>3. TypeInv'
    BY <2>1, <2>2 DEF TypeInv
  <2>4. PhaseInv' /\ BackInv' /\ GoodInv'
    BY <2>1 DEF PhaseInv, BackInv, GoodInv, MovedTo, Here
  <2> QED
    BY <2>3, <2>4 DEF IInv
<1> QED
  BY <1>1, <1>2, <1>3, <1>4, <1>5, <1>6, <1>7, <1>8, <1>9, <1>10 DEF Next, Command, Ended

----------------------------------------------------------------------------
(* The theorems.                                                            *)

LEMMA InvKept == Spec => []IInv
  BY InitInv, StepInv, PTL DEF Spec

\* writecmd of ecmdio.c: wherever a write is, and wherever the machine stops, the
\* last complete version of each file is on the disk, under its name or as the .BAK
\* file; unless a write failed before, the .BAK file is read only, or is itself what
\* is written.
THEOREM VersionsKept == Spec => []KeptOnDisk
<1>1. IInv => KeptOnDisk
  <2> SUFFICES ASSUME IInv, ~ hurt, ro = {}, w # NoWrite => w.file \notin Backups,
                      NEW f \in Names \ Backups, good[f] # Absent
               PROVE  good[f] \in {disk[f], disk[Bak(f)]}
    BY DEF KeptOnDisk
  <2>1. IF w # NoWrite /\ w.file = f THEN MovedTo(f, good[f]) ELSE good[f] = disk[f]
    BY DEF IInv, GoodInv
  <2>2. CASE w # NoWrite /\ w.file = f
    BY <2>1, <2>2 DEF MovedTo
  <2>3. CASE ~ (w # NoWrite /\ w.file = f)
    BY <2>1, <2>3
  <2> QED
    BY <2>2, <2>3
<1> QED
  BY <1>1, InvKept, PTL

\* readfile and writefile of ecmdio.c: a text that any commands leave in a buffer is
\* read back as it was written, line by line, if none of its lines fills fgets.
THEOREM TextsReadBack == Spec => []ReadsBack
<1>1. IInv => ReadsBack
  <2> SUFFICES ASSUME IInv, NEW b \in Places,
                      \A i \in DOMAIN buf[b].text : Len(buf[b].text[i]) < MaxPos
               PROVE  Fresh(Gets(Contents(buf[b].text)), 0) = buf[b].text
    BY DEF ReadsBack
  <2>1. buf \in [Places -> Record] /\ LinesIn(buf) <= Heap
    BY DEF IInv, TypeInv, BufInv
  <2>2. PICK t \in Seq(Line) : t = buf[b].text /\ t # <<>>
    BY <2>1 DEF Record, Text
  <2>3. \A i \in 1 .. Len(t) : Len(t[i]) < MaxPos
    <3>1. DOMAIN t = 1 .. Len(t)
      OBVIOUS
    <3> QED
      BY <2>2, <3>1
  <2>4. Gets(Contents(t)) = t
    BY <2>3, TextGotAgain
  <2>5. PICK n \in Nat : n = Len(t)
    OBVIOUS
  <2>6. n <= Heap /\ Heap \in Nat /\ Heap > 1
    <3>1. OthersLines(buf, b) \in Nat /\ LinesIn(buf) \in Nat
      BY <2>1, OthersSame
    <3>2. OthersLines(buf, b) = LinesIn(buf) - n
      BY <2>2, <2>5 DEF OthersLines
    <3> QED
      BY <2>1, <3>1, <3>2, BufsAre
  <2>7. Room(t, 0) = n
    BY <2>5, <2>6 DEF Room
  <2>8. Fresh(t, 0) = SubSeq(t, 1, n)
    BY <2>2, <2>6, <2>7 DEF Fresh
  <2>9. SubSeq(t, 1, n) = t
    BY <2>5
  <2> QED
    BY <2>2, <2>4, <2>8, <2>9
<1> QED
  BY <1>1, InvKept, PTL

\* writefile of ecmdio.c: a buffer counts as saved only when its whole text is in its
\* file, whatever failed or not on the way, and then the version before is the .BAK
\* file.
THEOREM BothKept == Spec => WriteKeepsBoth
<1> DEFINE Both == WClose /\ (\E b \in Places : buf[b].mod /\ ~ buf'[b].mod) =>
                     /\ disk'[w.file] = Contents(Here.text)
                     /\ (w.before # Absent /\ ro = {} /\ w.file \notin Backups) =>
                          disk'[Bak(w.file)] = w.before
<1>1. IInv /\ [Next]_vars => [Both]_vars
  <2> SUFFICES ASSUME IInv, WClose, NEW b \in Places, buf[b].mod, ~ buf'[b].mod
               PROVE  /\ disk'[w.file] = Contents(Here.text)
                      /\ (w.before # Absent /\ ro = {} /\ w.file \notin Backups) =>
                           disk'[Bak(w.file)] = w.before
    OBVIOUS
  <2>1. TypeInv /\ PhaseInv /\ BackInv /\ w.at = "close" /\ buf \in [Places -> Record]
    BY DEF IInv, TypeInv, BufInv, WClose
  <2>2. w # NoWrite
    BY <2>1 DEF NoWrite
  <2>3. PICK err \in BOOLEAN : Closed(err) /\ (~ err => ~ w.err /\ UNCHANGED disk)
    BY <2>1, CloseIs
  <2>4. ~ err
    <3>1. buf' = [buf EXCEPT ![curbuf].mod = @ /\ err]
      BY <2>3 DEF Closed
    <3> SUFFICES ASSUME err PROVE buf'[b].mod
      OBVIOUS
    <3>2. CASE b = curbuf
      <4>1. PICK m : m = (buf[b].mod /\ err)
        OBVIOUS
      <4>2. m
        BY <4>1
      <4>3. buf' = [buf EXCEPT ![b].mod = m]
        BY <3>1, <3>2, <4>1
      <4>4. buf[b] \in Record
        BY <2>1
      <4>5. buf'[b] = [buf[b] EXCEPT !.mod = m]
        BY <2>1, <4>3
      <4>6. buf'[b].mod = m
        BY <4>4, <4>5 DEF Record
      <4> QED
        BY <4>2, <4>6
    <3>3. CASE b # curbuf
      BY <2>1, <3>1, <3>3
    <3> QED
      BY <3>2, <3>3
  <2>5. disk' = disk /\ disk[w.file] = Contents(Here.text)
    BY <2>1, <2>2, <2>3, <2>4 DEF PhaseInv
  <2>6. ASSUME w.before # Absent, ro = {}, w.file \notin Backups PROVE disk[Bak(w.file)] = w.before
    BY <2>1, <2>2, <2>6 DEF BackInv, MovedTo
  <2> QED
    BY <2>5, <2>6
<1> QED
  BY <1>1, InvKept, PTL DEF Spec, WriteKeepsBoth

LEMMA FirstIs ==
  ASSUME Modified # {}
  PROVE  FirstModified # {} /\ FirstModified \subseteq Modified
<1> DEFINE S == {i \in 1 .. Len(Bufs) : buf[Bufs[i]].mod}
<1>1. S \in SUBSET Nat /\ S # {}
  BY BufsAre DEF Modified
<1>2. PICK j \in S : \A i \in S : j <= i
  <2> HIDE DEF S
  <2> QED
    BY <1>1, Numbers!LeastNumber
<1>3. \A k \in 1 .. j - 1 : ~ buf[Bufs[k]].mod
  <2> SUFFICES ASSUME NEW k \in 1 .. j - 1, buf[Bufs[k]].mod PROVE FALSE
    OBVIOUS
  <2>1. k \in S /\ ~ j <= k
    BY BufsAre
  <2> QED
    BY <1>2, <2>1
<1>4. Bufs[j] \in FirstModified
  BY <1>3 DEF FirstModified
<1>5. FirstModified \subseteq Modified
  BY BufsAre DEF FirstModified, Modified
<1> QED
  BY <1>4, <1>5

\* The answer of modcheck for a buffer that has changed.
LEMMA Answered ==
  ASSUME NEW b, buf[b].mod, NEW a \in ModCheck(b), a.ok
  PROVE  a.told = {b}
<1>1. a = [ok |-> TRUE, told |-> {b}] \/ a = [ok |-> FALSE, told |-> {}]
  BY DEF ModCheck
<1>2. a # [ok |-> FALSE, told |-> {}]
  <2> SUFFICES ASSUME a = [ok |-> FALSE, told |-> {}] PROVE FALSE
    OBVIOUS
  <2>1. a.ok = FALSE
    OBVIOUS
  <2> QED
    BY <2>1
<1> QED
  BY <1>1, <1>2

\* While the program goes on, only edit and the end of a write make a buffer that has
\* changed one that has not.
LEMMA OnlyEditGivesUp ==
  ASSUME BufInv, Next, running, running', NEW b \in Modified, ~ buf'[b].mod, ~ WClose
  PROVE  KEdit /\ b = curbuf
<1>1. b \in Places /\ buf[b].mod /\ curbuf \in Places /\ DOMAIN buf = Places
  BY DEF Modified, BufInv
<1>2. ASSUME Edit PROVE b = curbuf
  <2>1. PICK f, others : buf' = buf \/ Load(f, others)
    BY <1>2 DEF Edit
  <2>2. Load(f, others)
    BY <1>1, <2>1
  <2>3. PICK e : buf' = [buf EXCEPT ![curbuf] = e]
    BY <2>2 DEF Load
  <2> QED
    BY <1>1, <2>3
<1>3. ASSUME NEW f, buf' = NamedHere(f) PROVE FALSE
  <2>1. buf[b] \in Record
    BY <1>1 DEF BufInv
  <2>2. buf'[b].mod = buf[b].mod
    BY <1>1, <1>3, <2>1 DEF NamedHere, Record
  <2> QED
    BY <1>1, <2>2
<1>4. CASE KEdit
  <2>1. Edit
    BY <1>1, <1>4 DEF KEdit
  <2> QED
    BY <1>2, <1>4, <2>1
<1>5. CASE KRead
  <2>1. CASE Here = Empty(NoName)
    <3>1. Edit
      BY <1>5, <2>1 DEF KRead
    <3>2. ~ buf[curbuf].mod
      BY <2>1 DEF Here, Empty
    <3> QED
      BY <1>1, <1>2, <3>1, <3>2
  <2>2. CASE Here # Empty(NoName)
    <3>1. PICK r \in Replies, k \in 1 .. Len(Here.text) :
            IF r = Cancel THEN UNCHANGED buf
            ELSE \E lines \in Opened(r) :
                   buf' = [buf EXCEPT ![curbuf].text = Behind(@, k, lines),
                                      ![curbuf].mod = @ \/ Room(lines, AllUsed) > 0]
      BY <1>5, <2>2 DEF KRead
    <3>2. PICK lines : buf' = [buf EXCEPT ![curbuf].text = Behind(@, k, lines),
                                          ![curbuf].mod = @ \/ Room(lines, AllUsed) > 0]
      BY <1>1, <3>1
    <3>3. buf[b] \in Record
      BY <1>1 DEF BufInv
    <3>4. buf'[b].mod = buf[b].mod \/ buf'[b].mod = (buf[b].mod \/ Room(lines, AllUsed) > 0)
      BY <1>1, <3>2, <3>3 DEF Record
    <3> QED
      BY <1>1, <3>4
  <2> QED
    BY <2>1, <2>2
<1>6. CASE KFile
  <2>1. PICK r : buf' = buf \/ buf' = NamedHere(r)
    BY <1>6 DEF KFile
  <2> QED
    BY <1>1, <1>3, <2>1
<1>7. CASE KWrite
  <2>1. PICK f : buf' = buf \/ buf' = NamedHere(f)
    BY <1>7 DEF KWrite
  <2> QED
    BY <1>1, <1>3, <2>1
<1>8. CASE Type
  <2>1. PICK t : buf' = [buf EXCEPT ![curbuf].text = t, ![curbuf].mod = TRUE]
    BY <1>8 DEF Type
  <2>2. buf[b] \in Record
    BY <1>1 DEF BufInv
  <2>3. buf'[b].mod = buf[b].mod \/ buf'[b].mod = TRUE
    BY <1>1, <2>1, <2>2 DEF Record
  <2> QED
    BY <1>1, <2>3
<1>9. CASE KBuf \/ KQuit \/ WUnlink \/ WRename \/ WCreate \/ WLine \/ WEnd \/ Ended
  <2>1. buf' = buf
    BY <1>9 DEF KBuf, KQuit, WUnlink, WRename, WCreate, WLine, WEnd, Ended, vars
  <2> QED
    BY <1>1, <2>1
<1>10. ~ Crash /\ ~ Start
  BY DEF Crash, Start
<1> QED
  BY <1>4, <1>5, <1>6, <1>7, <1>8, <1>9, <1>10 DEF Next

\* ed.c and modcheck of ecmdio.c: however many buffers have changed, while the program
\* goes on no change is given up but by a user who was asked for it and said yes, and
\* the program ends with changed texts only if one of them was agreed to.
THEOREM LossesTold == Spec => LostOnlyIfTold
<1>1. BufInv /\ [Next]_vars =>
        [running => IF running' THEN Lost \subseteq told' ELSE Lost = {} \/ Lost \cap told' # {}]_vars
  <2> SUFFICES ASSUME BufInv, Next, running
               PROVE  IF running' THEN Lost \subseteq told' ELSE Lost = {} \/ Lost \cap told' # {}
    OBVIOUS
  <2>1. ASSUME running', NEW b \in Lost PROVE b \in told'
    <3>1. b \in Modified /\ ~ buf'[b].mod /\ ~ WClose /\ buf[b].mod
      BY <2>1 DEF Lost, Modified
    <3>2. KEdit /\ b = curbuf
      BY <2>1, <3>1, OnlyEditGivesUp
    <3>3. PICK a \in ModCheck(b) : told' = a.told /\ IF a.ok THEN Edit ELSE UNCHANGED buf
      BY <3>2 DEF KEdit
    <3>4. a.ok
      BY <3>1, <3>3
    <3>5. a.told = {b}
      BY <3>1, <3>4, Answered
    <3> QED
      BY <3>3, <3>5
  <2>2. ASSUME ~ running', NEW b \in Lost PROVE Lost \cap told' # {}
    <3>1. b \in Modified /\ b \in Places
      BY DEF Lost, Modified
    <3>2. KQuit \/ Crash
      BY <2>2 DEF Next, KEdit, KRead, KFile, KBuf, Type, KWrite, WUnlink, WRename, WCreate,
                  WLine, WEnd, WClose, Start, Ended, vars
    <3>3. CASE Crash
      BY <3>1, <3>3 DEF Crash
    <3>4. CASE KQuit
      <4>1. FirstModified # {} /\ FirstModified \subseteq Modified
        BY <3>1, FirstIs
      <4>2. PICK c \in FirstModified : \E a \in ModCheck(c) : running' = ~ a.ok /\ told' = a.told
        BY <3>4, <4>1 DEF KQuit
      <4>3. PICK a \in ModCheck(c) : running' = ~ a.ok /\ told' = a.told
        BY <4>2
      <4>4. c \in Modified /\ buf[c].mod /\ c \in Lost
        BY <2>2, <4>1 DEF Modified, Lost
      <4>5. a.ok
        BY <2>2, <4>3, Zenon
      <4>6. told' = {c}
        BY <4>3, <4>4, <4>5, Answered
      <4> QED
        BY <4>4, <4>6
    <3> QED
      BY <3>2, <3>3, <3>4
  <2> QED
    BY <2>1, <2>2
<1>2. IInv => BufInv
  BY DEF IInv, TypeInv
<1> QED
  BY <1>1, <1>2, InvKept, PTL DEF Spec, LostOnlyIfTold

----------------------------------------------------------------------------
(* Search.  Recursion down the places of a sequence.                        *)

\* Recursion over the places of a sequence, from its end to its start: what is at k
\* comes from what is at a place behind it.
Leads(next, l, m) ==
  /\ l \in Nat /\ m \in Nat /\ l <= m
  /\ next \in [1 .. l -> Nat] /\ \A k \in 1 .. l : k < next[k] /\ next[k] <= m
Follows(g, v, l, m, next, F) ==
  /\ \A k \in l + 1 .. m : g[k] = v
  /\ \A k \in 1 .. l : g[k] = F[k][g[next[k]]]

LEMMA Downward ==
  ASSUME NEW V, NEW v \in V, NEW l, NEW m, NEW next, Leads(next, l, m),
         NEW F \in [1 .. l -> [V -> V]]
  PROVE  \E g \in [1 .. m -> V] : Follows(g, v, l, m, next, F)
<1> USE DEF Leads, Follows
<1> DEFINE Down(g, n) == /\ \A k \in l + 1 .. m : g[k] = v
                         /\ \A k \in 1 .. l : l < k + n => g[k] = F[k][g[next[k]]]
           T == {n \in Nat : n <= l => \E g \in [1 .. m -> V] : Down(g, n)}
<1>1. 0 \in T
  <2>1. [k \in 1 .. m |-> v] \in [1 .. m -> V] /\ Down([k \in 1 .. m |-> v], 0)
    OBVIOUS
  <2> HIDE DEF Down
  <2> QED
    BY <2>1
<1>2. ASSUME NEW n \in Nat, n \in T PROVE n + 1 \in T
  <2> SUFFICES ASSUME n + 1 <= l PROVE \E g \in [1 .. m -> V] : Down(g, n + 1)
    OBVIOUS
  <2>1. PICK g \in [1 .. m -> V] : Down(g, n)
    <3> HIDE DEF Down
    <3> QED
      BY <1>2
  <2> PICK j \in 1 .. l : j = l - n
    OBVIOUS
  <2>2. next[j] \in 1 .. m /\ next[j] # j /\ j \in 1 .. m
    OBVIOUS
  <2>3. PICK x \in V : x = F[j][g[next[j]]]
    BY <2>2
  <2> PICK h \in [1 .. m -> V] : h = [g EXCEPT ![j] = x]
    OBVIOUS
  <2>4. \A k \in 1 .. m : h[k] = IF k = j THEN x ELSE g[k]
    OBVIOUS
  <2>5. ASSUME NEW k \in 1 .. l, l < k + n + 1 PROVE h[k] = F[k][h[next[k]]]
    <3>1. next[k] \in 1 .. m /\ next[k] # j /\ k \in 1 .. m
      BY <2>5
    <3>2. h[next[k]] = g[next[k]]
      BY <2>4, <3>1
    <3>3. CASE k = j
      BY <2>3, <2>4, <3>1, <3>2, <3>3
    <3>4. CASE k # j
      <4>1. l < k + n
        BY <2>5, <3>4
      <4>2. g[k] = F[k][g[next[k]]]
        BY <2>1, <4>1
      <4> QED
        BY <2>4, <3>1, <3>2, <3>4, <4>2
    <3> QED
      BY <3>3, <3>4
  <2>6. Down(h, n + 1)
    <3>1. \A k \in l + 1 .. m : h[k] = v
      <4>1. \A k \in l + 1 .. m : k \in 1 .. m /\ k # j
        OBVIOUS
      <4> QED
        BY <2>1, <2>4, <4>1
    <3> QED
      BY <2>5, <3>1
  <2> HIDE DEF Down
  <2> QED
    BY <2>6
<1>3. l \in T
  <2> HIDE DEF T
  <2> QED
    BY <1>1, <1>2, Numbers!NumbersReached
<1> QED
  BY <1>3

\* And it defines no two.
Agree(f, g, l, m, next) ==
  /\ \A k \in l + 1 .. m : f[k] = g[k]
  /\ \A k \in 1 .. l : f[next[k]] = g[next[k]] => f[k] = g[k]

LEMMA DownwardOnce ==
  ASSUME NEW l, NEW m, NEW next, Leads(next, l, m), NEW f, NEW g, Agree(f, g, l, m, next)
  PROVE  \A k \in 1 .. m : f[k] = g[k]
<1> USE DEF Leads, Agree
<1> DEFINE T == {n \in Nat : \A k \in 1 .. m : l < k + n => f[k] = g[k]}
<1>1. 0 \in T
  OBVIOUS
<1>2. ASSUME NEW n \in Nat, n \in T PROVE n + 1 \in T
  <2> SUFFICES ASSUME NEW k \in 1 .. m, l < k + (n + 1) PROVE f[k] = g[k]
    OBVIOUS
  <2>1. CASE k \in l + 1 .. m
    BY <2>1
  <2>2. CASE k \in 1 .. l
    <3>1. next[k] \in 1 .. m /\ l < next[k] + n
      BY <2>2
    <3> QED
      BY <1>2, <2>2, <3>1
  <2> QED
    BY <2>1, <2>2
<1>3. l \in T
  <2> HIDE DEF T
  <2> QED
    BY <1>1, <1>2, Numbers!NumbersReached
<1> QED
  BY <1>3

LEMMA FirstPlace ==
  ASSUME NEW S \in SUBSET Nat, S # {}
  PROVE  FirstOf(S) \in S /\ \A y \in S : FirstOf(S) <= y
<1>1. PICK n \in S : \A y \in S : n <= y
  BY Numbers!LeastNumber
<1> QED
  BY <1>1 DEF FirstOf

LEMMA LastPlace ==
  ASSUME NEW n \in Nat, NEW S \in SUBSET (0 .. n), S # {}
  PROVE  LastOf(S) \in S /\ \A y \in S : y <= LastOf(S)
<1> DEFINE T == {n - y : y \in S}
<1>1. T \in SUBSET Nat /\ T # {}
  <2>1. \A y \in S : n - y \in Nat
    OBVIOUS
  <2> QED
    BY <2>1
<1>2. PICK k \in T : \A y \in T : k <= y
  <2> HIDE DEF T
  <2> QED
    BY <1>1, Numbers!LeastNumber
<1>3. PICK x \in S : k = n - x
  OBVIOUS
<1>4. ASSUME NEW y \in S PROVE y <= x
  <2>1. n - x <= n - y /\ x \in Int /\ y \in Int
    BY <1>2, <1>3
  <2> QED
    BY <2>1
<1> QED
  BY <1>4 DEF LastOf

----------------------------------------------------------------------------
(* What is made of a pattern.                                               *)

Codes == Bytes \cup {Closure, LitChar, Quest}

LEMMA Alphabet ==
  /\ Star # Quest /\ Star # Escape /\ Quest # Escape
  /\ Closure # LitChar /\ Closure # Quest /\ LitChar # Quest
  /\ Nul \notin Codes
BY SearchAssumption DEF Codes

\* How far a place is from the next part; an escape at the end has none behind it.
PartTypes ==
  \A s \in Seq(Bytes) : \A i \in 1 .. Len(s) :
    /\ PartLen(s, i) \in 1 .. 2
    /\ ~ (s[i] = Escape /\ i = Len(s)) =>
         /\ i + PartLen(s, i) \in i + 1 .. Len(s) + 1
         /\ Part(s, i) \in Seq(Codes) /\ Len(Part(s, i)) \in 1 .. 2
         /\ Part(s, i)[1] = IF s[i] = Star THEN Closure ELSE IF s[i] = Quest THEN Quest ELSE LitChar
         /\ Len(Part(s, i)) = IF s[i] = Quest THEN 1 ELSE 2
         /\ s[i] # Quest => Part(s, i)[2] = IF s[i] = Star THEN Quest ELSE s[i + PartLen(s, i) - 1]

LEMMA PartsTyped == PartTypes
<1> SUFFICES ASSUME NEW s \in Seq(Bytes), NEW i \in 1 .. Len(s)
             PROVE  /\ PartLen(s, i) \in 1 .. 2
                    /\ ~ (s[i] = Escape /\ i = Len(s)) =>
                         /\ i + PartLen(s, i) \in i + 1 .. Len(s) + 1
                         /\ Part(s, i) \in Seq(Codes) /\ Len(Part(s, i)) \in 1 .. 2
                         /\ Part(s, i)[1] = IF s[i] = Star THEN Closure
                                            ELSE IF s[i] = Quest THEN Quest ELSE LitChar
                         /\ Len(Part(s, i)) = IF s[i] = Quest THEN 1 ELSE 2
                         /\ s[i] # Quest =>
                              Part(s, i)[2] = IF s[i] = Star THEN Quest ELSE s[i + PartLen(s, i) - 1]
  BY DEF PartTypes
<1>1. PartLen(s, i) \in 1 .. 2
  BY DEF PartLen
<1>2. \A x, y \in Codes : <<x, y>> \in Seq(Codes) /\ <<x>> \in Seq(Codes)
  OBVIOUS
<1>3. {Closure, LitChar, Quest} \subseteq Codes /\ Bytes \subseteq Codes
  BY DEF Codes
<1>4. s[i] \in Bytes /\ Len(s) \in Nat
  OBVIOUS
<1>5. CASE s[i] = Star
  <2>1. Part(s, i) = <<Closure, Quest>> /\ PartLen(s, i) = 1
    BY <1>5, Alphabet DEF Part, PartLen
  <2> QED
    BY <1>2, <1>3, <1>5, <2>1, Alphabet
<1>6. CASE s[i] = Quest
  <2>1. Part(s, i) = <<Quest>> /\ PartLen(s, i) = 1
    BY <1>6, Alphabet DEF Part, PartLen
  <2> QED
    BY <1>2, <1>3, <1>6, <2>1, Alphabet
<1>7. CASE s[i] = Escape
  <2> SUFFICES ASSUME i # Len(s)
               PROVE  /\ i + PartLen(s, i) \in i + 1 .. Len(s) + 1
                      /\ Part(s, i) \in Seq(Codes) /\ Len(Part(s, i)) = 2
                      /\ Part(s, i)[1] = LitChar /\ Part(s, i)[2] = s[i + PartLen(s, i) - 1]
    BY <1>1, <1>7, Alphabet
  <2>1. Part(s, i) = <<LitChar, s[i + 1]>> /\ PartLen(s, i) = 2
    BY <1>7, Alphabet DEF Part, PartLen
  <2>2. s[i + 1] \in Bytes /\ i + PartLen(s, i) - 1 = i + 1
    BY <1>4, <2>1
  <2> QED
    BY <1>2, <1>3, <1>4, <2>1, <2>2
<1>8. CASE s[i] \notin {Star, Quest, Escape}
  <2>1. Part(s, i) = <<LitChar, s[i]>> /\ PartLen(s, i) = 1
    BY <1>8 DEF Part, PartLen
  <2>2. i + PartLen(s, i) - 1 = i
    BY <2>1
  <2> QED
    BY <1>2, <1>3, <1>4, <1>8, <2>1, <2>2
<1> QED
  BY <1>5, <1>6, <1>7, <1>8

MadeAt(s, f, i) ==
  IF i > Len(s) THEN [ok |-> TRUE, made |-> <<>>]
  ELSE IF s[i] = Escape /\ i = Len(s) THEN [ok |-> FALSE, made |-> <<>>]
  ELSE [ok |-> f[i + PartLen(s, i)].ok, made |-> Part(s, i) \o f[i + PartLen(s, i)].made]
IsMade(s, f) == f = [i \in 1 .. Len(s) + 1 |-> MadeAt(s, f, i)]
Compiled == [ok : BOOLEAN, made : Seq(Codes)]

LEMMA MadeIs ==
  ASSUME NEW s \in Seq(Bytes)
  PROVE  /\ \A i \in 1 .. Len(s) + 1 : Made(s)[i] \in Compiled
         /\ \A i \in 1 .. Len(s) + 1 : Made(s)[i] = MadeAt(s, Made(s), i)
<1> PICK l \in Nat : l = Len(s)
  OBVIOUS
<1> DEFINE atEnd(i) == s[i] = Escape /\ i = l
           no == [ok |-> FALSE, made |-> <<>>]
           yes == [ok |-> TRUE, made |-> <<>>]
           more(i, x) == [ok |-> x.ok, made |-> Part(s, i) \o x.made]
           next == [i \in 1 .. l |-> IF atEnd(i) THEN l + 1 ELSE i + PartLen(s, i)]
           F == [i \in 1 .. l |-> [x \in Compiled |-> IF atEnd(i) THEN no ELSE more(i, x)]]
<1>1. no \in Compiled /\ yes \in Compiled
  BY DEF Compiled
<1>2. Leads(next, l, l + 1)
  <2>1. \A i \in 1 .. l : ~ atEnd(i) => i + PartLen(s, i) \in i + 1 .. l + 1
    BY PartsTyped DEF PartTypes
  <2> HIDE DEF atEnd
  <2> QED
    BY <2>1 DEF Leads
<1>3. F \in [1 .. l -> [Compiled -> Compiled]]
  <2>1. ASSUME NEW i \in 1 .. l, ~ atEnd(i), NEW x \in Compiled PROVE more(i, x) \in Compiled
    <3>1. Part(s, i) \in Seq(Codes) /\ x.made \in Seq(Codes) /\ x.ok \in BOOLEAN
      BY <2>1, PartsTyped DEF PartTypes, Compiled
    <3>2. Part(s, i) \o x.made \in Seq(Codes)
      BY <3>1
    <3> QED
      BY <3>1, <3>2 DEF Compiled
  <2> HIDE DEF atEnd, no, more
  <2> QED
    BY <1>1, <2>1
<1>4. PICK g \in [1 .. l + 1 -> Compiled] : Follows(g, yes, l, l + 1, next, F)
  <2> HIDE DEF F, next, yes, no
  <2> QED
    BY <1>1, <1>2, <1>3, Downward
<1>5. ASSUME NEW i \in 1 .. l + 1 PROVE g[i] = MadeAt(s, g, i)
  <2>1. CASE i = l + 1
    BY <1>4, <2>1 DEF MadeAt, Follows
  <2>2. CASE i # l + 1
    <3>1. i \in 1 .. l /\ ~ i > l
      BY <2>2
    <3>2. g[next[i]] \in Compiled
      <4>1. next[i] \in 1 .. l + 1
        BY <1>2, <3>1 DEF Leads
      <4> HIDE DEF next
      <4> QED
        BY <4>1
    <3>3. g[i] = IF atEnd(i) THEN no ELSE more(i, g[next[i]])
      <4> HIDE DEF atEnd, no, more, next
      <4> QED
        BY <1>4, <3>1, <3>2 DEF Follows
    <3>4. ~ atEnd(i) => next[i] = i + PartLen(s, i)
      BY <3>1
    <3> HIDE DEF next
    <3> QED
      BY <3>1, <3>3, <3>4 DEF MadeAt
  <2> QED
    BY <2>1, <2>2
<1>6. IsMade(s, g)
  <2>1. g = [i \in 1 .. l + 1 |-> g[i]]
    OBVIOUS
  <2> QED
    BY <1>5, <2>1 DEF IsMade
<1>7. Made(s) = CHOOSE f : IsMade(s, f)
  BY DEF Made, IsMade, MadeAt
<1>8. IsMade(s, Made(s))
  BY <1>6, <1>7
<1>9. \A i \in 1 .. l + 1 : Made(s)[i] = MadeAt(s, Made(s), i)
  BY <1>8 DEF IsMade
<1>10. \A i \in 1 .. l + 1 : Made(s)[i] = g[i]
  <2> PICK f : f = Made(s)
    OBVIOUS
  <2> PICK m \in Nat : m = l + 1
    OBVIOUS
  <2>1. \A i \in l + 1 .. m : f[i] = g[i]
    <3>1. f[l + 1] = yes /\ g[l + 1] = yes
      <4>1. l + 1 \in 1 .. l + 1 /\ l + 1 > Len(s)
        OBVIOUS
      <4>2. f[l + 1] = MadeAt(s, f, l + 1) /\ g[l + 1] = MadeAt(s, g, l + 1)
        BY <1>5, <1>9, <4>1
      <4> QED
        BY <4>1, <4>2 DEF MadeAt
    <3> QED
      BY <3>1
  <2>2. ASSUME NEW i \in 1 .. l, f[next[i]] = g[next[i]] PROVE f[i] = g[i]
    <3>1. f[i] = MadeAt(s, f, i) /\ g[i] = MadeAt(s, g, i)
      BY <1>5, <1>9
    <3>2. ~ atEnd(i) => next[i] = i + PartLen(s, i)
      OBVIOUS
    <3> HIDE DEF next
    <3> QED
      BY <2>2, <3>1, <3>2 DEF MadeAt
  <2> HIDE DEF next, F
  <2>3. Leads(next, l, m)
    BY <1>2
  <2>4. Agree(f, g, l, m, next)
    BY <2>1, <2>2 DEF Agree
  <2>5. \A i \in 1 .. m : f[i] = g[i]
    BY <2>3, <2>4, DownwardOnce
  <2> QED
    BY <2>5
<1> QED
  BY <1>9, <1>10

----------------------------------------------------------------------------
(* What a pattern means, and what the matcher makes of it.                  *)

EndsAt(s, line, f, k) ==
  [i \in 1 .. Len1(line) |-> IF k > Len(s) THEN {i} ELSE Meant(s, line, k, i, f[k + PartLen(s, k)])]
IsEnds(s, line, f) == f = [k \in 1 .. Len(s) + 2 |-> EndsAt(s, line, f, k)]

LEMMA EndsIs ==
  ASSUME NEW s \in Seq(Bytes), NEW line \in Seq(Bytes)
  PROVE  /\ \A k \in 1 .. Len(s) + 2 :
              EndsFrom(s, line)[k] \in [1 .. Len1(line) -> SUBSET (1 .. Len1(line))]
         /\ \A k \in 1 .. Len(s) + 2 : EndsFrom(s, line)[k] = EndsAt(s, line, EndsFrom(s, line), k)
<1> PICK l \in Nat : l = Len(s)
  OBVIOUS
<1> PICK n \in Nat : n = Len1(line)
  BY DEF Len1
<1> DEFINE V == [1 .. n -> SUBSET (1 .. n)]
           v == [i \in 1 .. n |-> {i}]
           row(k, x) == [i \in 1 .. n |-> Meant(s, line, k, i, x)]
           next == [k \in 1 .. l |-> k + PartLen(s, k)]
           F == [k \in 1 .. l |-> [x \in V |-> row(k, x)]]
<1>1. v \in V
  OBVIOUS
<1>2. Leads(next, l, l + 2)
  <2>1. \A k \in 1 .. l : PartLen(s, k) \in 1 .. 2
    BY DEF PartLen
  <2> QED
    BY <2>1 DEF Leads
<1>3. F \in [1 .. l -> [V -> V]]
  <2>1. ASSUME NEW k \in 1 .. l, NEW x \in V PROVE row(k, x) \in V
    <3>1. ASSUME NEW i \in 1 .. n PROVE Meant(s, line, k, i, x) \in SUBSET (1 .. n)
      <4>1. \A j \in 1 .. n : x[j] \subseteq 1 .. n
        OBVIOUS
      <4>2. i <= Len(line) => i + 1 \in 1 .. n
        BY DEF Len1
      <4> QED
        BY <4>1, <4>2 DEF Meant
    <3> QED
      BY <3>1
  <2> HIDE DEF row, V
  <2> QED
    BY <2>1
<1>4. PICK g \in [1 .. l + 2 -> V] : Follows(g, v, l, l + 2, next, F)
  <2> HIDE DEF F, next, v, V
  <2> QED
    BY <1>1, <1>2, <1>3, Downward
<1>5. ASSUME NEW k \in 1 .. l + 2 PROVE g[k] = EndsAt(s, line, g, k)
  <2>1. CASE k > l
    <3>1. g[k] = v
      <4>1. k \in l + 1 .. l + 2
        BY <2>1
      <4> HIDE DEF v, F, next
      <4> QED
        BY <1>4, <4>1 DEF Follows
    <3> QED
      BY <2>1, <3>1 DEF EndsAt
  <2>2. CASE ~ k > l
    <3>1. k \in 1 .. l
      BY <2>2
    <3>2. next[k] \in 1 .. l + 2
      BY <1>2, <3>1 DEF Leads
    <3>3. g[next[k]] \in V
      <4> HIDE DEF next, V
      <4> QED
        BY <3>2
    <3>4. g[k] = row(k, g[next[k]])
      <4> HIDE DEF row, V, next
      <4> QED
        BY <1>4, <3>1, <3>3 DEF Follows
    <3>5. next[k] = k + PartLen(s, k)
      BY <3>1
    <3> HIDE DEF next
    <3> QED
      BY <2>2, <3>4, <3>5 DEF EndsAt
  <2> QED
    BY <2>1, <2>2
<1>6. IsEnds(s, line, g)
  <2>1. g = [k \in 1 .. l + 2 |-> g[k]]
    OBVIOUS
  <2> QED
    BY <1>5, <2>1 DEF IsEnds
<1> PICK f : f = EndsFrom(s, line)
  OBVIOUS
<1>7. EndsFrom(s, line) = CHOOSE e : IsEnds(s, line, e)
  BY DEF EndsFrom, IsEnds, EndsAt
<1>8. IsEnds(s, line, f)
  BY <1>6, <1>7
<1>9. \A k \in 1 .. l + 2 : f[k] = EndsAt(s, line, f, k)
  BY <1>8 DEF IsEnds
<1>10. \A k \in 1 .. l + 2 : f[k] = g[k]
  <2> PICK m \in Nat : m = l + 2
    OBVIOUS
  <2>1. ASSUME NEW k \in l + 1 .. m PROVE f[k] = g[k]
    <3>1. k \in 1 .. l + 2 /\ k > Len(s)
      OBVIOUS
    <3>2. f[k] = EndsAt(s, line, f, k) /\ g[k] = EndsAt(s, line, g, k)
      BY <1>5, <1>9, <3>1
    <3> QED
      BY <3>1, <3>2 DEF EndsAt
  <2>2. ASSUME NEW k \in 1 .. l, f[next[k]] = g[next[k]] PROVE f[k] = g[k]
    <3>1. f[k] = EndsAt(s, line, f, k) /\ g[k] = EndsAt(s, line, g, k)
      BY <1>5, <1>9
    <3>2. next[k] = k + PartLen(s, k)
      OBVIOUS
    <3> HIDE DEF next
    <3> QED
      BY <2>2, <3>1, <3>2 DEF EndsAt
  <2> HIDE DEF next
  <2>3. Agree(f, g, l, m, next)
    BY <2>1, <2>2 DEF Agree
  <2>4. Leads(next, l, m)
    BY <1>2
  <2> QED
    BY <2>3, <2>4, DownwardOnce
<1> QED
  BY <1>9, <1>10

MatchAt(line, p, f, j) ==
  [offset \in 1 .. Len1(line) + 1 |->
     IF j > Len(p) THEN offset ELSE PartMatch(line, p, j, offset, f[PartEnd(p, j)])]
IsMatch(line, p, f) == f = [j \in 1 .. Len(p) + 3 |-> MatchAt(line, p, f, j)]

\* A closure gives back from where its part first does not match.
StopOf(line, p, j, offset) ==
  FirstOf({i \in offset .. Len1(line) + 1 : ~ OMatch(line, i, p, j + 1)})
TriedFrom(line, p, j, offset, rest) == {i \in offset .. StopOf(line, p, j, offset) : rest[i] > 0}

LEMMA StopIs ==
  ASSUME NEW line \in Seq(Bytes), NEW p, NEW j, NEW offset \in 1 .. Len1(line) + 1
  PROVE  /\ StopOf(line, p, j, offset) \in offset .. Len1(line) + 1
         /\ ~ OMatch(line, StopOf(line, p, j, offset), p, j + 1)
         /\ \A i \in offset .. Len1(line) + 1 :
              ~ OMatch(line, i, p, j + 1) => StopOf(line, p, j, offset) <= i
<1> PICK n \in Nat : n = Len1(line)
  BY DEF Len1
<1> PICK S : S = {i \in offset .. n + 1 : ~ OMatch(line, i, p, j + 1)}
  OBVIOUS
<1>1. ~ OMatch(line, n + 1, p, j + 1) /\ n + 1 \in offset .. n + 1
  BY DEF OMatch
<1>2. S \in SUBSET Nat /\ S # {}
  BY <1>1
<1>3. FirstOf(S) \in S /\ \A y \in S : FirstOf(S) <= y
  BY <1>2, FirstPlace
<1>4. StopOf(line, p, j, offset) = FirstOf(S)
  BY DEF StopOf
<1> QED
  BY <1>3, <1>4

LEMMA PartMatchIs ==
  ASSUME NEW line \in Seq(Bytes), NEW p, NEW j, NEW offset \in 1 .. Len1(line) + 1,
         NEW rest \in [1 .. Len1(line) + 1 -> Nat]
  PROVE  PartMatch(line, p, j, offset, rest) \in Nat
<1> PICK n \in Nat : n = Len1(line)
  BY DEF Len1
<1>1. CASE p[j] = Closure
  <2> PICK T : T = TriedFrom(line, p, j, offset, rest)
    OBVIOUS
  <2>1. T \subseteq 1 .. n + 1
    BY StopIs DEF TriedFrom
  <2>2. PartMatch(line, p, j, offset, rest) = IF T = {} THEN 0 ELSE rest[LastOf(T)]
    BY <1>1 DEF PartMatch, TriedFrom, StopOf
  <2>3. T # {} => LastOf(T) \in T
    <3>1. n + 1 \in Nat /\ T \in SUBSET (0 .. n + 1)
      BY <2>1
    <3> QED
      BY <3>1, LastPlace
  <2> QED
    BY <2>1, <2>2, <2>3
<1>2. CASE p[j] # Closure
  <2>1. OMatch(line, offset, p, j) => offset + 1 \in 1 .. n + 1
    BY DEF OMatch
  <2> QED
    BY <1>2, <2>1 DEF PartMatch
<1> QED
  BY <1>1, <1>2

LEMMA MatchIs ==
  ASSUME NEW line \in Seq(Bytes), NEW p, Len(p) \in Nat
  PROVE  /\ \A j \in 1 .. Len(p) + 3 :
              MatchFrom(line, p)[j] \in [1 .. Len1(line) + 1 -> Nat]
         /\ \A j \in 1 .. Len(p) + 3 : MatchFrom(line, p)[j] = MatchAt(line, p, MatchFrom(line, p), j)
<1> PICK l \in Nat : l = Len(p)
  OBVIOUS
<1> PICK n \in Nat : n = Len1(line)
  BY DEF Len1
<1> DEFINE V == [1 .. n + 1 -> Nat]
           v == [i \in 1 .. n + 1 |-> i]
           row(j, x) == [i \in 1 .. n + 1 |-> PartMatch(line, p, j, i, x)]
           next == [j \in 1 .. l |-> PartEnd(p, j)]
           F == [j \in 1 .. l |-> [x \in V |-> row(j, x)]]
<1>1. v \in V
  OBVIOUS
<1>2. Leads(next, l, l + 3)
  <2>1. \A j \in 1 .. l : PartEnd(p, j) \in j + 1 .. j + 3
    BY DEF PartEnd, PatSize
  <2> QED
    BY <2>1 DEF Leads
<1>3. F \in [1 .. l -> [V -> V]]
  <2>1. ASSUME NEW j \in 1 .. l, NEW x \in V PROVE row(j, x) \in V
    <3>1. \A i \in 1 .. n + 1 : PartMatch(line, p, j, i, x) \in Nat
      BY PartMatchIs
    <3> QED
      BY <3>1
  <2> HIDE DEF row, V
  <2> QED
    BY <2>1
<1>4. PICK g \in [1 .. l + 3 -> V] : Follows(g, v, l, l + 3, next, F)
  <2> HIDE DEF F, next, v, V
  <2> QED
    BY <1>1, <1>2, <1>3, Downward
<1>5. ASSUME NEW j \in 1 .. l + 3 PROVE g[j] = MatchAt(line, p, g, j)
  <2>1. CASE j > l
    <3>1. g[j] = v
      <4>1. j \in l + 1 .. l + 3
        BY <2>1
      <4> HIDE DEF v, F, next
      <4> QED
        BY <1>4, <4>1 DEF Follows
    <3> QED
      BY <2>1, <3>1 DEF MatchAt
  <2>2. CASE ~ j > l
    <3>1. j \in 1 .. l
      BY <2>2
    <3>2. next[j] \in 1 .. l + 3
      BY <1>2, <3>1 DEF Leads
    <3>3. g[next[j]] \in V
      <4> HIDE DEF next, V
      <4> QED
        BY <3>2
    <3>4. g[j] = row(j, g[next[j]])
      <4> HIDE DEF row, V, next
      <4> QED
        BY <1>4, <3>1, <3>3 DEF Follows
    <3>5. next[j] = PartEnd(p, j)
      BY <3>1
    <3> HIDE DEF next
    <3> QED
      BY <2>2, <3>4, <3>5 DEF MatchAt
  <2> QED
    BY <2>1, <2>2
<1>6. IsMatch(line, p, g)
  <2>1. g = [j \in 1 .. l + 3 |-> g[j]]
    OBVIOUS
  <2> QED
    BY <1>5, <2>1 DEF IsMatch
<1> PICK f : f = MatchFrom(line, p)
  OBVIOUS
<1>7. MatchFrom(line, p) = CHOOSE e : IsMatch(line, p, e)
  BY DEF MatchFrom, IsMatch, MatchAt
<1>8. IsMatch(line, p, f)
  BY <1>6, <1>7
<1>9. \A j \in 1 .. l + 3 : f[j] = MatchAt(line, p, f, j)
  BY <1>8 DEF IsMatch
<1>10. \A j \in 1 .. l + 3 : f[j] = g[j]
  <2> PICK m \in Nat : m = l + 3
    OBVIOUS
  <2>1. ASSUME NEW j \in l + 1 .. m PROVE f[j] = g[j]
    <3>1. j \in 1 .. l + 3 /\ j > Len(p)
      OBVIOUS
    <3>2. f[j] = MatchAt(line, p, f, j) /\ g[j] = MatchAt(line, p, g, j)
      BY <1>5, <1>9, <3>1
    <3> QED
      BY <3>1, <3>2 DEF MatchAt
  <2>2. ASSUME NEW j \in 1 .. l, f[next[j]] = g[next[j]] PROVE f[j] = g[j]
    <3>1. f[j] = MatchAt(line, p, f, j) /\ g[j] = MatchAt(line, p, g, j)
      BY <1>5, <1>9
    <3>2. next[j] = PartEnd(p, j)
      OBVIOUS
    <3> HIDE DEF next
    <3> QED
      BY <2>2, <3>1, <3>2 DEF MatchAt
  <2> HIDE DEF next
  <2>3. Agree(f, g, l, m, next)
    BY <2>1, <2>2 DEF Agree
  <2>4. Leads(next, l, m)
    BY <1>2
  <2> QED
    BY <2>3, <2>4, DownwardOnce
<1> QED
  BY <1>9, <1>10

----------------------------------------------------------------------------
(* The matcher finds the longest match.                                     *)

Best(S) == IF S = {} THEN 0 ELSE LastOf(S)

\* From a place further on a pattern does not end earlier, if it ends at all.
Rising(row, n) ==
  /\ row \in [1 .. n -> SUBSET (1 .. n)]
  /\ \A i \in 1 .. n : \A k \in row[i] : i <= k
  /\ \A i \in 1 .. n : \A k \in i .. n : row[i] # {} /\ row[k] # {} => Best(row[i]) <= Best(row[k])

\* What the matcher says of each place is where the longest match from there ends.
Finds(found, row, n) == \A i \in 1 .. n : found[i] = Best(row[i])

LEMMA BestIs ==
  ASSUME NEW n \in Nat, NEW S \in SUBSET (1 .. n)
  PROVE  /\ Best(S) \in 0 .. n /\ (Best(S) = 0 <=> S = {})
         /\ S # {} => Best(S) \in S
         /\ \A x \in S : x <= Best(S)
<1>1. CASE S = {}
  BY <1>1 DEF Best
<1>2. CASE S # {}
  <2>1. LastOf(S) \in S /\ \A y \in S : y <= LastOf(S)
    <3>1. S \in SUBSET (0 .. n)
      OBVIOUS
    <3> QED
      BY <1>2, <3>1, LastPlace
  <2>2. Best(S) = LastOf(S) /\ LastOf(S) \in 1 .. n
    BY <1>2, <2>1 DEF Best
  <2> QED
    BY <1>2, <2>1, <2>2
<1> QED
  BY <1>1, <1>2

\* A part that is one character, or any.
LEMMA OneRises ==
  ASSUME NEW n \in Nat, NEW rest, Rising(rest, n), NEW P \in SUBSET (1 .. n - 1),
         NEW row, row = [i \in 1 .. n |-> IF i \in P THEN rest[i + 1] ELSE {}]
  PROVE  Rising(row, n)
<1>1. \A i \in P : i + 1 \in 1 .. n /\ i \in 1 .. n
  OBVIOUS
<1>2. row \in [1 .. n -> SUBSET (1 .. n)]
  BY <1>1 DEF Rising
<1>3. \A i \in 1 .. n : \A k \in row[i] : i <= k
  <2> SUFFICES ASSUME NEW i \in P, NEW k \in rest[i + 1] PROVE i <= k
    OBVIOUS
  <2>1. i + 1 <= k /\ k \in 1 .. n
    BY <1>1 DEF Rising
  <2> QED
    BY <2>1
<1>4. ASSUME NEW i \in 1 .. n, NEW k \in i .. n, row[i] # {}, row[k] # {}
      PROVE  Best(row[i]) <= Best(row[k])
  <2>1. i \in P /\ k \in P /\ k \in 1 .. n
    BY <1>4
  <2>2. i + 1 \in 1 .. n /\ k + 1 \in i + 1 .. n
    BY <1>1, <2>1
  <2>3. row[i] = rest[i + 1] /\ row[k] = rest[k + 1]
    BY <2>1
  <2> QED
    BY <1>4, <2>2, <2>3 DEF Rising
<1> QED
  BY <1>2, <1>3, <1>4 DEF Rising

\* A closure of any character.
LEMMA AllRises ==
  ASSUME NEW n \in Nat, NEW rest, Rising(rest, n),
         NEW row, row = [i \in 1 .. n |-> UNION {rest[m] : m \in i .. n}]
  PROVE  Rising(row, n)
<1>1. \A i \in 1 .. n : \A x : x \in row[i] <=> \E m \in i .. n : x \in rest[m]
  OBVIOUS
<1>2. row \in [1 .. n -> SUBSET (1 .. n)]
  <2>1. \A m \in 1 .. n : rest[m] \subseteq 1 .. n
    BY DEF Rising
  <2> QED
    BY <2>1
<1>3. \A i \in 1 .. n : \A k \in row[i] : i <= k
  <2> SUFFICES ASSUME NEW i \in 1 .. n, NEW m \in i .. n, NEW k \in rest[m] PROVE i <= k
    BY <1>1
  <2>1. m <= k /\ k \in 1 .. n
    BY DEF Rising
  <2> QED
    BY <2>1
<1>4. ASSUME NEW i \in 1 .. n, NEW k \in i .. n, row[i] # {}, row[k] # {}
      PROVE  Best(row[i]) <= Best(row[k])
  <2>1. row[i] \in SUBSET (1 .. n) /\ row[k] \in SUBSET (1 .. n) /\ k \in 1 .. n
    BY <1>2
  <2>2. Best(row[i]) \in row[i] /\ Best(row[i]) \in 0 .. n /\ Best(row[k]) \in 0 .. n
        /\ \A x \in row[k] : x <= Best(row[k])
    BY <1>4, <2>1, BestIs
  <2>3. PICK m \in i .. n : Best(row[i]) \in rest[m]
    BY <1>1, <2>2
  <2>4. CASE k <= m
    <3>1. Best(row[i]) \in row[k]
      <4>1. m \in k .. n
        BY <2>1, <2>4
      <4> QED
        BY <1>1, <2>1, <2>3, <4>1
    <3> QED
      BY <2>2, <3>1
  <2>5. CASE m < k
    <3>1. PICK x : x \in row[k]
      BY <1>4
    <3>2. PICK h \in k .. n : x \in rest[h]
      BY <1>1, <2>1, <3>1
    <3>3. m \in 1 .. n /\ h \in m .. n /\ h \in 1 .. n
      BY <2>5
    <3>4. Best(rest[m]) <= Best(rest[h])
      BY <2>3, <3>2, <3>3 DEF Rising
    <3>5. rest[m] \in SUBSET (1 .. n) /\ rest[h] \in SUBSET (1 .. n)
      BY <3>3 DEF Rising
    <3>6. Best(row[i]) <= Best(rest[m]) /\ Best(rest[h]) \in rest[h]
          /\ Best(rest[m]) \in 0 .. n /\ Best(rest[h]) \in 0 .. n
      BY <2>3, <3>2, <3>5, BestIs
    <3>7. Best(rest[h]) \in row[k]
      BY <1>1, <2>1, <3>6
    <3>8. Best(rest[h]) <= Best(row[k])
      BY <2>2, <3>7
    <3> DEFINE a == Best(row[i])
               b == Best(rest[m])
               c == Best(rest[h])
               d == Best(row[k])
    <3>9. a \in Nat /\ b \in Nat /\ c \in Nat /\ d \in Nat
      BY <2>2, <3>6
    <3>10. a <= b /\ b <= c /\ c <= d
      BY <3>4, <3>6, <3>8
    <3> HIDE DEF a, b, c, d
    <3>11. a <= d
      BY <3>9, <3>10
    <3> QED
      BY <3>11 DEF a, d
  <2> QED
    BY <2>4, <2>5
<1> QED
  BY <1>2, <1>3, <1>4 DEF Rising

\* What amatch does at each kind of part, in places where a match may begin.
TriesAt(line, p, j, offset, rest) ==
  /\ line \in Seq(Bytes) /\ Len(p) \in Nat /\ j \in 1 .. Len(p) - 1
  /\ offset \in 1 .. Len1(line) /\ rest \in [1 .. Len1(line) + 1 -> Nat]

Literal(line, p, j, offset, rest) ==
  TriesAt(line, p, j, offset, rest) /\ p[j] = LitChar /\ p[j + 1] \in Bytes
LiteralEnds(line, p, j, offset, rest) ==
  /\ PartEnd(p, j) = j + 2
  /\ PartMatch(line, p, j, offset, rest) =
       IF offset <= Len(line) /\ line[offset] = p[j + 1] THEN rest[offset + 1] ELSE 0

LEMMA LiteralMatch ==
  ASSUME NEW line, NEW p, NEW j, NEW offset, NEW rest, Literal(line, p, j, offset, rest)
  PROVE  LiteralEnds(line, p, j, offset, rest)
<1> USE DEF TriesAt, Literal, LiteralEnds
<1>1. PartEnd(p, j) = j + 2
  BY Alphabet DEF PartEnd, PatSize
<1>2. OMatch(line, offset, p, j) <=> offset <= Len(line) /\ line[offset] = p[j + 1]
  <2>1. CharAt(p, j + 1) = p[j + 1] /\ p[j + 1] # Nul
    BY Alphabet DEF CharAt, Codes
  <2>2. CharAt(line, offset) = IF offset <= Len(line) THEN line[offset] ELSE Nul
    BY DEF CharAt
  <2> QED
    BY <2>1, <2>2, Alphabet DEF OMatch
<1>3. p[j] # Closure
  BY Alphabet
<1> QED
  BY <1>1, <1>2, <1>3 DEF PartMatch

LEMMA AnyMatch ==
  ASSUME NEW line \in Seq(Bytes), NEW p, Len(p) \in Nat, NEW j \in 1 .. Len(p),
         p[j] = Quest, NEW offset \in 1 .. Len1(line)
  PROVE  /\ PartEnd(p, j) = j + 1 /\ p[j] # Closure
         /\ OMatch(line, offset, p, j) <=> offset <= Len(line)
<1>1. PartEnd(p, j) = j + 1 /\ p[j] # Closure
  BY Alphabet DEF PartEnd, PatSize
<1>2. OMatch(line, offset, p, j) <=> offset <= Len(line)
  <2>1. offset <= Len(line) => line[offset] # Nul
    BY Alphabet DEF Codes, Len1
  <2> QED
    BY <2>1, Alphabet DEF OMatch, CharAt
<1> QED
  BY <1>1, <1>2

Closes(line, p, j, offset, rest, row) ==
  /\ TriesAt(line, p, j, offset, rest) /\ p[j] = Closure /\ p[j + 1] = Quest
  /\ Rising(row, Len1(line)) /\ Finds(rest, row, Len1(line))
ClosureEnds(line, p, j, offset, rest, row) ==
  /\ PartEnd(p, j) = j + 2
  /\ PartMatch(line, p, j, offset, rest) = Best(UNION {row[m] : m \in offset .. Len1(line)})

LEMMA ClosureMatch ==
  ASSUME NEW line, NEW p, NEW j, NEW offset, NEW rest, NEW row,
         Closes(line, p, j, offset, rest, row)
  PROVE  ClosureEnds(line, p, j, offset, rest, row)
<1> USE DEF TriesAt, Closes, ClosureEnds
<1> PICK n \in Nat : n = Len1(line) /\ n = Len(line) + 1
  BY DEF Len1
<1>1. PartEnd(p, j) = j + 2
  BY Alphabet DEF PartEnd, PatSize
<1> PICK T : T = TriedFrom(line, p, j, offset, rest)
  OBVIOUS
<1> PICK U : U = UNION {row[m] : m \in offset .. n}
  OBVIOUS
<1>2. PartMatch(line, p, j, offset, rest) = IF T = {} THEN 0 ELSE rest[LastOf(T)]
  BY DEF PartMatch, TriedFrom, StopOf
<1>3. StopOf(line, p, j, offset) = n
  <2>1. \A i \in offset .. n : OMatch(line, i, p, j + 1) <=> i <= Len(line)
    <3>1. j + 1 \in 1 .. Len(p) /\ \A i \in offset .. n : i \in 1 .. Len1(line)
      OBVIOUS
    <3> QED
      BY <3>1, AnyMatch
  <2>2. offset \in 1 .. Len1(line) + 1
    OBVIOUS
  <2> PICK k : k = StopOf(line, p, j, offset)
    OBVIOUS
  <2>3. /\ k \in offset .. n + 1 /\ ~ OMatch(line, k, p, j + 1)
        /\ \A i \in offset .. n + 1 : ~ OMatch(line, i, p, j + 1) => k <= i
    BY <2>2, StopIs
  <2>4. n \in offset .. n + 1 /\ ~ OMatch(line, n, p, j + 1)
    BY <2>1
  <2>5. k <= n
    BY <2>3, <2>4
  <2>6. ~ k <= Len(line)
    BY <2>1, <2>3, <2>5
  <2> QED
    BY <2>3, <2>5, <2>6
<1>4. \A i \in 1 .. n : row[i] \in SUBSET (1 .. n)
  BY DEF Rising
<1>5. \A i \in 1 .. n : rest[i] = Best(row[i]) /\ (rest[i] > 0 <=> row[i] # {})
  <2> SUFFICES ASSUME NEW i \in 1 .. n
               PROVE  rest[i] = Best(row[i]) /\ (rest[i] > 0 <=> row[i] # {})
    OBVIOUS
  <2>1. rest[i] = Best(row[i])
    BY DEF Finds
  <2>2. row[i] \in SUBSET (1 .. n)
    BY <1>4
  <2>3. Best(row[i]) \in 0 .. n /\ (Best(row[i]) = 0 <=> row[i] = {})
    BY <2>2, BestIs
  <2> QED
    BY <2>1, <2>3
<1>6. T = {i \in offset .. n : row[i] # {}}
  BY <1>3, <1>5 DEF TriedFrom
<1>7. CASE T = {}
  <2>1. U = {}
    BY <1>6, <1>7
  <2> QED
    BY <1>1, <1>2, <1>7, <2>1 DEF Best
<1>8. CASE T # {}
  <2>1. PICK k \in T : k = LastOf(T) /\ \A i \in T : i <= k
    <3>1. T \in SUBSET (0 .. n)
      BY <1>6
    <3> QED
      BY <1>8, <3>1, LastPlace
  <2>2. k \in 1 .. n /\ k \in offset .. n /\ row[k] # {}
    BY <1>6
  <2>3. Best(row[k]) \in row[k] /\ Best(row[k]) \in 0 .. n
    BY <1>4, <2>2, BestIs
  <2>4. Best(row[k]) \in U
    BY <2>2, <2>3
  <2>5. ASSUME NEW x \in U PROVE x <= Best(row[k])
    <3>1. PICK m \in offset .. n : x \in row[m]
      OBVIOUS
    <3>2. m \in T /\ m \in 1 .. n /\ k \in m .. n
      <4>1. m \in T
        BY <1>6, <3>1
      <4>2. m <= k
        BY <2>1, <4>1
      <4> QED
        BY <2>2, <4>1, <4>2
    <3>3. Best(row[m]) <= Best(row[k])
      BY <2>2, <3>1, <3>2 DEF Rising
    <3>4. x <= Best(row[m]) /\ Best(row[m]) \in 0 .. n /\ x \in 1 .. n
      BY <1>4, <3>1, <3>2, BestIs
    <3> QED
      BY <2>3, <3>3, <3>4
  <2>6. U \in SUBSET (1 .. n)
    BY <1>4
  <2>7. Best(U) \in U /\ \A x \in U : x <= Best(U)
    BY <2>4, <2>6, BestIs
  <2>8. Best(U) = Best(row[k])
    <3>1. Best(U) <= Best(row[k]) /\ Best(row[k]) <= Best(U) /\ Best(U) \in 1 .. n
      BY <2>4, <2>5, <2>6, <2>7
    <3> QED
      BY <2>3, <3>1
  <2>9. rest[k] = Best(row[k])
    BY <1>5, <2>2
  <2> QED
    BY <1>1, <1>2, <1>8, <2>1, <2>8, <2>9
<1> QED
  BY <1>7, <1>8

\* The compiled pattern ends with what was made of the source from k on.
Tailed(p, j, q) ==
  /\ Len(p) = (j - 1) + Len(q)
  /\ \A i \in 1 .. Len(q) : p[(j - 1) + i] = q[i]

TailedBy(p, j, a, b) ==
  j \in Nat \ {0} /\ a \in Seq(Codes) /\ b \in Seq(Codes) /\ Tailed(p, j, a \o b)

TailedOff(p, j, a, b) ==
  /\ Tailed(p, j + Len(a), b) /\ Len(p) = (j - 1) + Len(a) + Len(b)
  /\ \A i \in 1 .. Len(a) : p[(j - 1) + i] = a[i]

LEMMA TailedBehind ==
  ASSUME NEW p, NEW j, NEW a, NEW b, TailedBy(p, j, a, b)
  PROVE  TailedOff(p, j, a, b)
<1> USE DEF TailedBy, TailedOff
<1> PICK m \in Nat : m = Len(a)
  OBVIOUS
<1> PICK n \in Nat : n = Len(b)
  OBVIOUS
<1>1. /\ Len(a \o b) = m + n
      /\ \A i \in 1 .. m + n : (a \o b)[i] = IF i <= m THEN a[i] ELSE b[i - m]
  BY ConcatProperties
<1>2. Len(p) = (j - 1) + (m + n) /\ \A i \in 1 .. m + n : p[(j - 1) + i] = IF i <= m THEN a[i] ELSE b[i - m]
  BY <1>1 DEF Tailed
<1>3. ASSUME NEW i \in 1 .. n PROVE p[((j + m) - 1) + i] = b[i]
  <2>1. m + i \in 1 .. m + n /\ ~ m + i <= m /\ (m + i) - m = i
        /\ (j - 1) + (m + i) = ((j + m) - 1) + i
    OBVIOUS
  <2> QED
    BY <1>2, <2>1
<1>4. Len(p) = ((j + m) - 1) + n
  BY <1>2
<1>5. \A i \in 1 .. m : i \in 1 .. m + n /\ i <= m
  OBVIOUS
<1> QED
  BY <1>2, <1>3, <1>4, <1>5 DEF Tailed

\* From every place of the source on: the compiled rest finds the longest match.
MatchesFrom(s, line, k) ==
  Made(s)[k].ok =>
    /\ Rising(EndsFrom(s, line)[k], Len1(line))
    /\ \A p \in Seq(Codes) : \A j \in 1 .. Len(p) + 1 :
         Tailed(p, j, Made(s)[k].made) =>
           Finds(MatchFrom(line, p)[j], EndsFrom(s, line)[k], Len1(line))

LEMMA MatchEnd ==
  ASSUME NEW s \in Seq(Bytes), NEW line \in Seq(Bytes)
  PROVE  MatchesFrom(s, line, Len(s) + 1)
<1> PICK k \in Nat : k = Len(s) + 1
  OBVIOUS
<1> PICK n \in Nat : n = Len1(line)
  BY DEF Len1
<1> PICK row : row = EndsFrom(s, line)[k]
  OBVIOUS
<1>1. row = [i \in 1 .. n |-> {i}]
  <2>1. k \in 1 .. Len(s) + 2 /\ k > Len(s)
    OBVIOUS
  <2>2. row = EndsAt(s, line, EndsFrom(s, line), k)
    BY <2>1, EndsIs
  <2> QED
    BY <2>1, <2>2 DEF EndsAt
<1>2. \A i \in 1 .. n : row[i] = {i} /\ Best(row[i]) = i
  <2> SUFFICES ASSUME NEW i \in 1 .. n PROVE row[i] = {i} /\ Best({i}) = i
    OBVIOUS
  <2>1. {i} \in SUBSET (1 .. n) /\ {i} # {}
    OBVIOUS
  <2> QED
    BY <1>1, <2>1, BestIs
<1>3. Rising(row, n)
  <2>1. row \in [1 .. n -> SUBSET (1 .. n)]
    BY <1>1
  <2> QED
    BY <1>2, <2>1 DEF Rising
<1>4. ASSUME NEW p \in Seq(Codes), NEW j \in 1 .. Len(p) + 1, Tailed(p, j, Made(s)[k].made)
      PROVE  Finds(MatchFrom(line, p)[j], row, n)
  <2>1. Made(s)[k].made = <<>>
    <3>1. k \in 1 .. Len(s) + 1 /\ k > Len(s)
      OBVIOUS
    <3>2. Made(s)[k] = MadeAt(s, Made(s), k)
      BY <3>1, MadeIs
    <3> QED
      BY <3>1, <3>2 DEF MadeAt
  <2>2. j > Len(p)
    BY <1>4, <2>1 DEF Tailed
  <2>3. j \in 1 .. Len(p) + 3 /\ Len(p) \in Nat
    OBVIOUS
  <2>4. MatchFrom(line, p)[j] = MatchAt(line, p, MatchFrom(line, p), j)
    BY <2>3, MatchIs
  <2>5. MatchFrom(line, p)[j] = [i \in 1 .. n + 1 |-> i]
    BY <2>2, <2>4 DEF MatchAt
  <2>6. \A i \in 1 .. n : MatchFrom(line, p)[j][i] = i
    BY <2>5
  <2> QED
    BY <1>2, <2>6 DEF Finds
<1> QED
  BY <1>3, <1>4 DEF MatchesFrom

LEMMA MatchStep ==
  ASSUME NEW s \in Seq(Bytes), NEW line \in Seq(Bytes), NEW k \in 1 .. Len(s),
         k + PartLen(s, k) <= Len(s) + 1 => MatchesFrom(s, line, k + PartLen(s, k))
  PROVE  MatchesFrom(s, line, k)
<1> SUFFICES ASSUME Made(s)[k].ok
             PROVE  /\ Rising(EndsFrom(s, line)[k], Len1(line))
                    /\ \A p \in Seq(Codes) : \A j \in 1 .. Len(p) + 1 :
                         Tailed(p, j, Made(s)[k].made) =>
                           Finds(MatchFrom(line, p)[j], EndsFrom(s, line)[k], Len1(line))
  BY DEF MatchesFrom
<1> PICK n \in Nat : n = Len1(line) /\ n = Len(line) + 1
  BY DEF Len1
<1> DEFINE row == EndsFrom(s, line)[k]
           next == k + PartLen(s, k)
           rest == EndsFrom(s, line)[next]
           q == Made(s)[next].made
           c == s[next - 1]
<1>1. k \in 1 .. Len(s) + 1 /\ ~ k > Len(s) /\ k \in 1 .. Len(s) + 2
  OBVIOUS
<1>2. Made(s)[k] = MadeAt(s, Made(s), k)
  BY <1>1, MadeIs
<1>3. ~ (s[k] = Escape /\ k = Len(s))
  BY <1>1, <1>2 DEF MadeAt
<1>4. next \in k + 1 .. Len(s) + 1
  BY <1>3, PartsTyped DEF PartTypes
<1>5. Made(s)[next].ok /\ Made(s)[k].made = Part(s, k) \o q
  BY <1>1, <1>2, <1>3 DEF MadeAt
<1>6. q \in Seq(Codes)
  <2>1. next \in 1 .. Len(s) + 1
    BY <1>4
  <2> QED
    BY <2>1, MadeIs DEF Compiled
<1>7. MatchesFrom(s, line, next)
  BY <1>4
<1>8. Rising(rest, n)
  BY <1>5, <1>7 DEF MatchesFrom
<1>9. row = [i \in 1 .. n |-> Meant(s, line, k, i, rest)]
  <2>1. row = EndsAt(s, line, EndsFrom(s, line), k)
    BY <1>1, EndsIs
  <2> QED
    BY <1>1, <2>1 DEF EndsAt
<1>10. /\ Part(s, k) \in Seq(Codes)
       /\ Part(s, k)[1] = IF s[k] = Star THEN Closure ELSE IF s[k] = Quest THEN Quest ELSE LitChar
       /\ Len(Part(s, k)) = IF s[k] = Quest THEN 1 ELSE 2
  BY <1>3, PartsTyped DEF PartTypes
<1>11. c \in Bytes
  BY <1>4
<1>16. next - 1 = k + PartLen(s, k) - 1
  <2>1. PartLen(s, k) \in 1 .. 2
    BY PartsTyped DEF PartTypes
  <2> QED
    BY <2>1
<1>17. s[k] # Quest => Part(s, k)[2] = IF s[k] = Star THEN Quest ELSE c
  <2>1. s[k] # Quest => Part(s, k)[2] = IF s[k] = Star THEN Quest ELSE s[k + PartLen(s, k) - 1]
    BY <1>3, PartsTyped DEF PartTypes
  <2>2. c = s[k + PartLen(s, k) - 1]
    BY <1>16
  <2> QED
    BY <2>1, <2>2
<1> HIDE DEF row, next, rest, q, c
<1>12. ASSUME NEW p \in Seq(Codes), NEW j \in 1 .. Len(p) + 1, Tailed(p, j, Part(s, k) \o q)
       PROVE  /\ j + Len(Part(s, k)) \in 1 .. Len(p) + 1 /\ Len(p) \in Nat
              /\ \A i \in 1 .. Len(Part(s, k)) : p[(j - 1) + i] = Part(s, k)[i]
              /\ Finds(MatchFrom(line, p)[j + Len(Part(s, k))], rest, n)
              /\ MatchFrom(line, p)[j + Len(Part(s, k))] \in [1 .. n + 1 -> Nat]
              /\ PartEnd(p, j) = j + Len(Part(s, k)) =>
                   \A i \in 1 .. n : MatchFrom(line, p)[j][i] =
                     PartMatch(line, p, j, i, MatchFrom(line, p)[j + Len(Part(s, k))])
  <2> PICK m \in 1 .. 2 : m = Len(Part(s, k))
    BY <1>10
  <2>1. /\ Tailed(p, j + m, q) /\ Len(p) = (j - 1) + m + Len(q)
        /\ \A i \in 1 .. m : p[(j - 1) + i] = Part(s, k)[i]
    <3> PICK a : a = Part(s, k)
      OBVIOUS
    <3>1. TailedBy(p, j, a, q)
      <4>1. j \in Nat \ {0} /\ a \in Seq(Codes) /\ Tailed(p, j, a \o q)
        BY <1>10, <1>12
      <4> QED
        BY <1>6, <4>1 DEF TailedBy
    <3>3. TailedOff(p, j, a, q)
      BY <3>1, TailedBehind
    <3>2. /\ Tailed(p, j + Len(a), q) /\ Len(p) = (j - 1) + Len(a) + Len(q)
          /\ \A i \in 1 .. Len(a) : p[(j - 1) + i] = a[i]
      BY <3>3 DEF TailedOff
    <3> QED
      BY <3>2
  <2>2. j + m \in 1 .. Len(p) + 1 /\ Len(p) \in Nat /\ j <= Len(p) /\ j + m \in 1 .. Len(p) + 3
        /\ j \in 1 .. Len(p) + 3
    <3>1. Len(q) \in Nat /\ Len(p) \in Nat /\ j \in Nat \ {0}
      BY <1>6
    <3> QED
      BY <2>1, <3>1
  <2>3. Finds(MatchFrom(line, p)[j + m], rest, n)
    BY <1>5, <1>7, <2>1, <2>2 DEF MatchesFrom, q, rest
  <2>4. MatchFrom(line, p)[j + m] \in [1 .. n + 1 -> Nat]
    BY <2>2, MatchIs
  <2>5. ASSUME PartEnd(p, j) = j + m, NEW i \in 1 .. n
        PROVE  MatchFrom(line, p)[j][i] = PartMatch(line, p, j, i, MatchFrom(line, p)[j + m])
    <3>1. MatchFrom(line, p)[j] = MatchAt(line, p, MatchFrom(line, p), j)
      BY <2>2, MatchIs
    <3>2. ~ j > Len(p) /\ i \in 1 .. n + 1
      BY <2>2
    <3> QED
      BY <2>5, <3>1, <3>2 DEF MatchAt
  <2> QED
    BY <2>1, <2>2, <2>3, <2>4, <2>5
<1>13. CASE s[k] = Star
  <2>1. row = [i \in 1 .. n |-> UNION {rest[m] : m \in i .. n}]
    BY <1>9, <1>13 DEF Meant
  <2>2. Rising(row, n)
    BY <1>8, <2>1, AllRises
  <2>3. ASSUME NEW p \in Seq(Codes), NEW j \in 1 .. Len(p) + 1, Tailed(p, j, Part(s, k) \o q)
        PROVE  Finds(MatchFrom(line, p)[j], row, n)
    <3>1. Len(Part(s, k)) = 2 /\ Part(s, k)[1] = Closure /\ Part(s, k)[2] = Quest
      BY <1>10, <1>13, <1>17, Alphabet
    <3>2. j \in 1 .. Len(p) - 1 /\ (j - 1) + 1 = j /\ (j - 1) + 2 = j + 1 /\ Len(p) \in Nat
      BY <1>12, <2>3, <3>1
    <3>3. p[j] = Closure /\ p[j + 1] = Quest
      BY <1>12, <2>3, <3>1, <3>2
    <3> PICK back : back = MatchFrom(line, p)[j + 2]
      OBVIOUS
    <3>4. back \in [1 .. n + 1 -> Nat] /\ Finds(back, rest, n)
      BY <1>12, <2>3, <3>1
    <3>5. ASSUME NEW i \in 1 .. n
          PROVE  PartEnd(p, j) = j + 2 /\ PartMatch(line, p, j, i, back) = Best(row[i])
      <4>1. /\ i \in 1 .. Len1(line) /\ back \in [1 .. Len1(line) + 1 -> Nat]
            /\ Rising(rest, Len1(line)) /\ Finds(back, rest, Len1(line))
        BY <1>8, <3>4
      <4>2. PartEnd(p, j) = j + 2
            /\ PartMatch(line, p, j, i, back) = Best(UNION {rest[m] : m \in i .. Len1(line)})
        <5>1. TriesAt(line, p, j, i, back)
          BY <3>2, <4>1 DEF TriesAt
        <5> QED
          <6>1. Closes(line, p, j, i, back, rest)
            BY <3>3, <4>1, <5>1 DEF Closes
          <6>2. ClosureEnds(line, p, j, i, back, rest)
            BY <6>1, ClosureMatch
          <6> QED
            BY <6>2 DEF ClosureEnds
      <4> QED
        BY <2>1, <4>2
    <3>6. ASSUME NEW i \in 1 .. n PROVE MatchFrom(line, p)[j][i] = Best(row[i])
      BY <1>12, <2>3, <3>1, <3>5
    <3> QED
      BY <3>6 DEF Finds
  <2> QED
    BY <1>5, <2>2, <2>3 DEF row
<1>14. CASE s[k] = Quest
  <2>1. row = [i \in 1 .. n |-> IF i \in 1 .. n - 1 THEN rest[i + 1] ELSE {}]
    <3>1. ASSUME NEW i \in 1 .. n
          PROVE  Meant(s, line, k, i, rest) = IF i \in 1 .. n - 1 THEN rest[i + 1] ELSE {}
      <4>1. s[k] # Star /\ (i <= Len(line) <=> i \in 1 .. n - 1)
        BY <1>14, Alphabet
      <4> QED
        BY <1>14, <4>1 DEF Meant
    <3> QED
      BY <1>9, <3>1
  <2>2. Rising(row, n)
    <3>1. 1 .. n - 1 \in SUBSET (1 .. n - 1)
      OBVIOUS
    <3> QED
      BY <1>8, <2>1, <3>1, OneRises
  <2>3. ASSUME NEW p \in Seq(Codes), NEW j \in 1 .. Len(p) + 1, Tailed(p, j, Part(s, k) \o q)
        PROVE  Finds(MatchFrom(line, p)[j], row, n)
    <3>1. Len(Part(s, k)) = 1 /\ Part(s, k)[1] = Quest
      BY <1>10, <1>14, Alphabet
    <3>2. j \in 1 .. Len(p) /\ (j - 1) + 1 = j /\ Len(p) \in Nat
      BY <1>12, <2>3, <3>1
    <3>3. p[j] = Quest
      BY <1>12, <2>3, <3>1, <3>2
    <3> PICK back : back = MatchFrom(line, p)[j + 1]
      OBVIOUS
    <3>4. back \in [1 .. n + 1 -> Nat] /\ Finds(back, rest, n)
      BY <1>12, <2>3, <3>1
    <3>5. ASSUME NEW i \in 1 .. n
          PROVE  PartEnd(p, j) = j + 1 /\ PartMatch(line, p, j, i, back) = Best(row[i])
      <4>1. i \in 1 .. Len1(line)
        OBVIOUS
      <4>2. /\ PartEnd(p, j) = j + 1 /\ p[j] # Closure
            /\ OMatch(line, i, p, j) <=> i <= Len(line)
        BY <3>2, <3>3, <4>1, AnyMatch
      <4>3. PartMatch(line, p, j, i, back) = IF i <= Len(line) THEN back[i + 1] ELSE 0
        BY <4>2 DEF PartMatch
      <4>4. CASE i <= Len(line)
        <5>1. i + 1 \in 1 .. n /\ i \in 1 .. n - 1
          BY <4>4
        <5>2. back[i + 1] = Best(rest[i + 1])
          BY <3>4, <5>1 DEF Finds
        <5> QED
          BY <2>1, <4>2, <4>3, <4>4, <5>1, <5>2
      <4>5. CASE ~ i <= Len(line)
        <5>1. row[i] = {}
          BY <2>1, <4>5
        <5> QED
          BY <4>2, <4>3, <4>5, <5>1 DEF Best
      <4> QED
        BY <4>4, <4>5
    <3>6. ASSUME NEW i \in 1 .. n PROVE MatchFrom(line, p)[j][i] = Best(row[i])
      BY <1>12, <2>3, <3>1, <3>5
    <3> QED
      BY <3>6 DEF Finds
  <2> QED
    BY <1>5, <2>2, <2>3 DEF row
<1>15. CASE s[k] \notin {Star, Quest}
  <2> PICK P : P = {i \in 1 .. n - 1 : line[i] = c}
    OBVIOUS
  <2>1. row = [i \in 1 .. n |-> IF i \in P THEN rest[i + 1] ELSE {}]
    <3>1. ASSUME NEW i \in 1 .. n
          PROVE  Meant(s, line, k, i, rest) = IF i \in P THEN rest[i + 1] ELSE {}
      <4>1. i <= Len(line) <=> i \in 1 .. n - 1
        OBVIOUS
      <4>2. Meant(s, line, k, i, rest) =
              IF i <= Len(line) /\ line[i] = s[k + PartLen(s, k) - 1] THEN rest[i + 1] ELSE {}
        BY <1>15 DEF Meant
      <4>3. c = s[k + PartLen(s, k) - 1]
        BY <1>16 DEF c
      <4>4. i \in P <=> i <= Len(line) /\ line[i] = c
        BY <4>1
      <4> QED
        BY <4>2, <4>3, <4>4
    <3> QED
      BY <1>9, <3>1
  <2>2. Rising(row, n)
    <3>1. P \in SUBSET (1 .. n - 1)
      OBVIOUS
    <3> QED
      BY <1>8, <2>1, <3>1, OneRises
  <2>3. ASSUME NEW p \in Seq(Codes), NEW j \in 1 .. Len(p) + 1, Tailed(p, j, Part(s, k) \o q)
        PROVE  Finds(MatchFrom(line, p)[j], row, n)
    <3>1. Len(Part(s, k)) = 2 /\ Part(s, k)[1] = LitChar /\ Part(s, k)[2] = c
      BY <1>10, <1>15, <1>17
    <3>2. j \in 1 .. Len(p) - 1 /\ (j - 1) + 1 = j /\ (j - 1) + 2 = j + 1 /\ Len(p) \in Nat
      BY <1>12, <2>3, <3>1
    <3>3. p[j] = LitChar /\ p[j + 1] = c
      BY <1>12, <2>3, <3>1, <3>2
    <3> PICK back : back = MatchFrom(line, p)[j + 2]
      OBVIOUS
    <3>4. back \in [1 .. n + 1 -> Nat] /\ Finds(back, rest, n)
      BY <1>12, <2>3, <3>1
    <3>5. ASSUME NEW i \in 1 .. n
          PROVE  PartEnd(p, j) = j + 2 /\ PartMatch(line, p, j, i, back) = Best(row[i])
      <4>1. i \in 1 .. Len1(line) /\ p[j + 1] \in Bytes
        BY <1>11, <3>3
      <4>2. /\ PartEnd(p, j) = j + 2
            /\ PartMatch(line, p, j, i, back) =
                 IF i <= Len(line) /\ line[i] = c THEN back[i + 1] ELSE 0
        <5>1. TriesAt(line, p, j, i, back)
          BY <3>2, <3>4, <4>1 DEF TriesAt
        <5>2. PartEnd(p, j) = j + 2
              /\ PartMatch(line, p, j, i, back) =
                   IF i <= Len(line) /\ line[i] = p[j + 1] THEN back[i + 1] ELSE 0
          <6>1. Literal(line, p, j, i, back)
            BY <3>3, <4>1, <5>1 DEF Literal
          <6>2. LiteralEnds(line, p, j, i, back)
            BY <6>1, LiteralMatch
          <6> QED
            BY <6>2 DEF LiteralEnds
        <5> QED
          BY <3>3, <5>2
      <4>3. CASE i \in P
        <5>1. i + 1 \in 1 .. n /\ i <= Len(line) /\ line[i] = c
          BY <4>3
        <5>2. back[i + 1] = Best(rest[i + 1])
          BY <3>4, <5>1 DEF Finds
        <5> QED
          BY <2>1, <4>2, <4>3, <5>1, <5>2
      <4>4. CASE i \notin P
        <5>1. row[i] = {} /\ ~ (i <= Len(line) /\ line[i] = c)
          BY <2>1, <4>4
        <5> QED
          BY <4>2, <5>1 DEF Best
      <4> QED
        BY <4>3, <4>4
    <3>6. ASSUME NEW i \in 1 .. n PROVE MatchFrom(line, p)[j][i] = Best(row[i])
      BY <1>12, <2>3, <3>1, <3>5
    <3> QED
      BY <3>6 DEF Finds
  <2> QED
    BY <1>5, <2>2, <2>3 DEF row
<1> QED
  BY <1>13, <1>14, <1>15

\* A good pattern, tried at any place of a line.
LEMMA MatchFinds ==
  ASSUME NEW s \in Seq(Bytes), Made(s)[1].ok, NEW line \in Seq(Bytes)
  PROVE  /\ Rising(EndsFrom(s, line)[1], Len1(line))
         /\ Finds(MatchFrom(line, Made(s)[1].made)[1], EndsFrom(s, line)[1], Len1(line))
<1> PICK l \in Nat : l = Len(s)
  OBVIOUS
<1> DEFINE T == {n \in Nat : \A k \in 1 .. l + 1 : l < k + n => MatchesFrom(s, line, k)}
<1>1. 0 \in T
  <2> SUFFICES ASSUME NEW k \in 1 .. l + 1, l < k PROVE MatchesFrom(s, line, k)
    OBVIOUS
  <2>1. k = Len(s) + 1
    OBVIOUS
  <2> QED
    BY <2>1, MatchEnd
<1>2. ASSUME NEW n \in Nat, n \in T PROVE n + 1 \in T
  <2> SUFFICES ASSUME NEW k \in 1 .. l + 1, l < k + (n + 1) PROVE MatchesFrom(s, line, k)
    OBVIOUS
  <2>1. CASE k = l + 1
    BY <2>1, MatchEnd
  <2>2. CASE k # l + 1
    <3>1. k \in 1 .. Len(s) /\ PartLen(s, k) \in 1 .. 2
      BY <2>2, PartsTyped DEF PartTypes
    <3>2. ASSUME k + PartLen(s, k) <= Len(s) + 1 PROVE MatchesFrom(s, line, k + PartLen(s, k))
      <4>1. k + PartLen(s, k) \in 1 .. l + 1 /\ l < k + PartLen(s, k) + n
        BY <3>1, <3>2
      <4> QED
        BY <1>2, <4>1
    <3> QED
      BY <3>1, <3>2, MatchStep
  <2> QED
    BY <2>1, <2>2
<1>3. l \in T
  <2> HIDE DEF T
  <2> QED
    BY <1>1, <1>2, Numbers!NumbersReached
<1>4. MatchesFrom(s, line, 1)
  <2>1. 1 \in 1 .. l + 1 /\ l < 1 + l
    OBVIOUS
  <2> QED
    BY <1>3, <2>1
<1> PICK p : p = Made(s)[1].made
  OBVIOUS
<1>5. p \in Seq(Codes)
  <2>1. 1 \in 1 .. Len(s) + 1
    OBVIOUS
  <2> QED
    BY <2>1, MadeIs DEF Compiled
<1>6. Tailed(p, 1, p) /\ 1 \in 1 .. Len(p) + 1
  BY <1>5 DEF Tailed
<1> QED
  BY <1>4, <1>5, <1>6 DEF MatchesFrom

----------------------------------------------------------------------------
(* What is kept of the text, the pattern and the translation.               *)

Cell == [c : Bytes, was : Nat]
TranRec == [active : BOOLEAN, found : BOOLEAN, global : BOOLEAN, testok : BOOLEAN, pass : BOOLEAN,
            startn : Nat, startpos : Int, n : Nat, pos1 : Nat, pos2 : Nat, maxrepl : Int,
            whole : BOOLEAN, full : BOOLEAN, twice : BOOLEAN]

TextFits(t) == t \in Seq(Seq(Cell)) /\ \A i \in 1 .. Len(t) : Len(t[i]) <= MaxLen
CursorFits == blnum \in 1 .. NLines /\ bpos \in 1 .. Len1(text[blnum])
PatternKept ==
  /\ patsrc \in Sources \cup {<<>>} /\ simplepat \in BOOLEAN
  /\ patsrc # <<>> => simplepat = Simple(patsrc)
  /\ pat \in [1 .. PatRoom -> Codes \cup {Nul}]

\* What a pattern array holds when the pattern was good.
Compiles(s, a) == Made(s)[1].ok /\ String(a) = Made(s)[1].made

\* A translation has a good pattern, and a place in the text; at a match it is
\* at the cursor.
TranPlace(t) ==
  t.active =>
    /\ t \in TranRec
    /\ patsrc # <<>> /\ (~ simplepat => Compiles(patsrc, pat))
    /\ t.n \in 1 .. NLines /\ t.pos1 > 0
    /\ t.pos2 > 0 => t.n = blnum /\ t.pos2 \in bpos .. Len1(text[blnum])
    /\ t.pos2 = 0 /\ ~ simplepat => t.pos1 <= Len1(text[t.n])

SearchInv ==
  /\ TextFits(text) /\ CursorFits /\ PatternKept
  /\ repl \in Seq(Bytes) /\ tran.active \in BOOLEAN /\ TranPlace(tran)
  /\ asking # "none" => ~ tran.active

LEMMA Doubled ==
  \A x, b, g \in Nat : \A y \in 1 .. 2 : x <= 2 * b /\ b + 1 <= g => y + x <= 2 * g
OBVIOUS

LEMMA MadeLength ==
  ASSUME NEW s \in Seq(Bytes)
  PROVE  \A i \in 1 .. Len(s) + 1 : Len(Made(s)[i].made) <= 2 * ((Len(s) + 1) - i)
<1> PICK l \in Nat : l = Len(s)
  OBVIOUS
<1> DEFINE size(i) == Len(Made(s)[i].made)
           T == {n \in Nat : \A i \in 1 .. l + 1 : l < i + n => size(i) <= 2 * ((l + 1) - i)}
<1>1. \A i \in 1 .. l + 1 : size(i) \in Nat
  BY MadeIs DEF Compiled
<1>2. size(l + 1) = 0
  <2>1. l + 1 \in 1 .. Len(s) + 1 /\ l + 1 > Len(s)
    OBVIOUS
  <2>2. Made(s)[l + 1] = MadeAt(s, Made(s), l + 1)
    BY <2>1, MadeIs
  <2> QED
    BY <2>1, <2>2 DEF MadeAt
<1>3. 0 \in T
  <2> SUFFICES ASSUME NEW i \in 1 .. l + 1, l < i PROVE size(i) <= 2 * ((l + 1) - i)
    OBVIOUS
  <2>1. i = l + 1 /\ 2 * ((l + 1) - i) = 0
    OBVIOUS
  <2> HIDE DEF size
  <2> QED
    BY <1>2, <2>1
<1>4. ASSUME NEW n \in Nat, n \in T PROVE n + 1 \in T
  <2> SUFFICES ASSUME NEW i \in 1 .. l + 1, l < i + (n + 1) PROVE size(i) <= 2 * ((l + 1) - i)
    OBVIOUS
  <2>1. CASE i = l + 1
    <3>1. 2 * ((l + 1) - i) = 0
      BY <2>1
    <3> HIDE DEF size
    <3> QED
      BY <1>2, <2>1, <3>1
  <2>2. CASE i # l + 1 /\ s[i] = Escape /\ i = Len(s)
    <3>1. i \in 1 .. Len(s) + 1 /\ ~ i > Len(s)
      BY <2>2
    <3>2. Made(s)[i] = MadeAt(s, Made(s), i)
      BY <3>1, MadeIs
    <3>3. size(i) = 0
      BY <2>2, <3>1, <3>2 DEF MadeAt
    <3> HIDE DEF size
    <3> QED
      BY <3>3
  <2>3. CASE i # l + 1 /\ ~ (s[i] = Escape /\ i = Len(s))
    <3>1. i \in 1 .. Len(s) /\ i \in 1 .. Len(s) + 1 /\ ~ i > Len(s)
      BY <2>3
    <3>2. /\ i + PartLen(s, i) \in i + 1 .. l + 1
          /\ Part(s, i) \in Seq(Codes) /\ Len(Part(s, i)) \in 1 .. 2
      BY <2>3, <3>1, PartsTyped DEF PartTypes
    <3> PICK m : m = i + PartLen(s, i)
      OBVIOUS
    <3> PICK h : h = Made(s)[m].made
      OBVIOUS
    <3>3. m \in i + 1 .. l + 1 /\ m \in 1 .. l + 1
      BY <3>2
    <3>4. size(i) = Len(Part(s, i)) + size(m)
      <4>1. Made(s)[i] = MadeAt(s, Made(s), i)
        BY <3>1, MadeIs
      <4>2. Made(s)[i].made = Part(s, i) \o h
        BY <2>3, <3>1, <4>1 DEF MadeAt
      <4>3. h \in Seq(Codes)
        BY <3>3, MadeIs DEF Compiled
      <4>4. Len(Part(s, i) \o h) = Len(Part(s, i)) + Len(h)
        BY <3>2, <4>3, ConcatProperties
      <4> QED
        BY <4>2, <4>4
    <3>5. size(m) <= 2 * ((l + 1) - m)
      <4>1. l < m + n
        BY <3>3
      <4> HIDE DEF size
      <4> QED
        BY <1>4, <3>3, <4>1
    <3>6. size(m) \in Nat
      BY <1>1, <3>3
    <3> HIDE DEF size
    <3> PICK x \in Nat : x = size(m)
      BY <3>6
    <3> PICK y \in 1 .. 2 : y = Len(Part(s, i))
      BY <3>2
    <3>7. size(i) = y + x /\ x <= 2 * ((l + 1) - m)
      BY <3>4, <3>5
    <3>8. m >= i + 1 /\ m \in Nat
      BY <3>3
    <3>9. y + x <= 2 * ((l + 1) - i)
      <4> PICK g \in Nat : g = (l + 1) - i
        OBVIOUS
      <4> PICK b \in Nat : b = (l + 1) - m
        BY <3>3
      <4>1. b + 1 <= g
        BY <3>8
      <4>2. x <= 2 * b
        BY <3>7
      <4>3. y + x <= 2 * g
        BY <4>1, <4>2, Doubled
      <4> QED
        BY <4>3
    <3> QED
      BY <3>7, <3>9
  <2> QED
    BY <2>1, <2>2, <2>3
<1>5. l \in T
  <2> HIDE DEF T
  <2> QED
    BY <1>3, <1>4, Numbers!NumbersReached
<1> SUFFICES ASSUME NEW i \in 1 .. l + 1 PROVE size(i) <= 2 * ((l + 1) - i)
  OBVIOUS
<1>6. l < i + l
  OBVIOUS
<1> HIDE DEF size
<1> QED
  BY <1>5, <1>6

\* The array that a good pattern is put in holds what was made of it.
LEMMA StringIs ==
  ASSUME NEW m \in Seq(Codes), Len(m) < PatRoom,
         NEW a \in [1 .. PatRoom -> Codes \cup {Nul}], PatRoom \in Nat,
         NEW old, a = Overlay(old, Append(m, Nul))
  PROVE  String(a) = m
<1> PICK l \in Nat : l = Len(m)
  OBVIOUS
<1> PICK r \in Nat : r = PatRoom
  OBVIOUS
<1> PICK z : z = Append(m, Nul)
  OBVIOUS
<1>1. Len(z) = l + 1 /\ z[l + 1] = Nul /\ \A i \in 1 .. l : z[i] = m[i] /\ m[i] \in Codes
  OBVIOUS
<1>2. \A i \in 1 .. l + 1 : i \in 1 .. r /\ a[i] = z[i]
  BY <1>1 DEF Overlay
<1> PICK S : S = {i \in 1 .. PatRoom : a[i] = Nul}
  OBVIOUS
<1>3. l + 1 \in S
  BY <1>1, <1>2
<1>4. \A i \in S : l + 1 <= i
  <2> SUFFICES ASSUME NEW i \in S, i <= l PROVE FALSE
    OBVIOUS
  <2>1. i \in 1 .. l
    OBVIOUS
  <2>2. a[i] = m[i] /\ m[i] # Nul
    BY <1>1, <1>2, <2>1, Alphabet
  <2> QED
    BY <2>2
<1>5. FirstOf(S) = l + 1
  <2>1. S \in SUBSET Nat /\ S # {}
    BY <1>3
  <2>2. FirstOf(S) \in S /\ FirstOf(S) <= l + 1 /\ FirstOf(S) \in Nat
    BY <1>3, <2>1, FirstPlace
  <2> QED
    BY <1>4, <2>2
<1>6. String(a) = SubSeq(a, 1, l)
  <2>1. String(a) = SubSeq(a, 1, FirstOf(S) - 1)
    BY DEF String
  <2> QED
    BY <1>5, <2>1
<1> PICK A : A = Codes \cup {Nul}
  OBVIOUS
<1>7. a \in Seq(A) /\ Len(a) = r
  OBVIOUS
<1>8. SubSeq(a, 1, l) \in Seq(A) /\ Len(SubSeq(a, 1, l)) = l
      /\ \A i \in 1 .. l : SubSeq(a, 1, l)[i] = a[i]
  BY <1>2, <1>7
<1>9. m \in Seq(A)
  OBVIOUS
<1> QED
  BY <1>1, <1>2, <1>6, <1>8, <1>9

LEMMA SourceIs ==
  ASSUME NEW s \in Sources
  PROVE  s \in Seq(Bytes) /\ Len(s) <= MaxPat /\ s # <<>> /\ PatRoom \in Nat /\ MaxPat \in Nat
BY SearchAssumption DEF PatRoom

LEMMA GoodCompiles ==
  ASSUME NEW s \in Sources, GetPat(s).ok, NEW a, a = GetPat(s).pat,
         a \in [1 .. PatRoom -> Codes \cup {Nul}]
  PROVE  Compiles(s, a)
<1> PICK m : m = Made(s)[1].made
  OBVIOUS
<1>1. s \in Seq(Bytes) /\ Len(s) <= MaxPat /\ PatRoom \in Nat /\ MaxPat \in Nat
  BY SourceIs
<1>2. Made(s)[1].ok /\ a = Overlay(pat, Append(m, Nul))
  BY DEF GetPat, MakePat
<1>3. m \in Seq(Codes) /\ Len(m) < PatRoom
  <2>1. 1 \in 1 .. Len(s) + 1
    BY <1>1
  <2>2. m \in Seq(Codes)
    BY <1>1, <2>1, MadeIs DEF Compiled
  <2>3. Len(m) <= 2 * ((Len(s) + 1) - 1)
    BY <1>1, <2>1, MadeLength
  <2> QED
    BY <1>1, <2>2, <2>3 DEF PatRoom
<1>4. String(a) = m
  BY <1>1, <1>2, <1>3, StringIs
<1> QED
  BY <1>2, <1>4 DEF Compiles

----------------------------------------------------------------------------
(* A search puts the cursor on a place of the text.                         *)

LEMMA CharsAre ==
  ASSUME NEW line \in Seq(Cell)
  PROVE  CharsIn(line) \in Seq(Bytes) /\ Len(CharsIn(line)) = Len(line)
<1> PICK n \in Nat : n = Len(line)
  OBVIOUS
<1>1. DOMAIN line = 1 .. n /\ \A i \in 1 .. n : line[i] \in Cell
  OBVIOUS
<1>2. \A i \in 1 .. n : line[i].c \in Bytes
  BY <1>1 DEF Cell
<1>3. CharsIn(line) = [i \in 1 .. n |-> line[i].c]
  BY <1>1 DEF CharsIn
<1>4. CharsIn(line) \in [1 .. n -> Bytes]
  BY <1>2, <1>3
<1> QED
  BY <1>4

LEMMA FirstOfSome ==
  ASSUME NEW S \in SUBSET (Nat \ {0})
  PROVE  LET f == IF S = {} THEN 0 ELSE FirstOf(S)
         IN  f \in Nat /\ (f > 0 <=> S # {}) /\ (f > 0 => f \in S /\ \A y \in S : f <= y)
<1>1. CASE S = {}
  BY <1>1
<1>2. CASE S # {}
  <2>1. S \in SUBSET Nat
    OBVIOUS
  <2>2. FirstOf(S) \in S /\ \A y \in S : FirstOf(S) <= y
    BY <1>2, <2>1, FirstPlace
  <2>3. FirstOf(S) \in Nat /\ FirstOf(S) > 0
    <3> PICK f : f = FirstOf(S)
      OBVIOUS
    <3>1. f \in Nat /\ f # 0
      BY <2>2
    <3>2. f > 0
      BY <3>1
    <3> QED
      BY <3>1, <3>2
  <2> HIDE DEF FirstOf
  <2> QED
    BY <1>2, <2>2, <2>3
<1> QED
  BY <1>1, <1>2

LEMMA PlaceFound ==
  ASSUME NEW line \in Seq(Bytes), NEW sought, NEW a, NEW simple, NEW p \in Nat \ {0}
  PROVE  /\ FindIn(line, sought, a, simple, p) \in Nat
         /\ FindIn(line, sought, a, simple, p) > 0 => FindIn(line, sought, a, simple, p) \in 1 .. Len1(line)
<1> PICK n \in Nat : n = Len(line) /\ Len1(line) = n + 1
  BY DEF Len1
<1>1. CASE simple
  <2> PICK S : S = {j \in p .. n : IsAt(sought, line, j)}
    OBVIOUS
  <2>1. FindIn(line, sought, a, simple, p) = IF S = {} THEN 0 ELSE FirstOf(S)
    BY <1>1 DEF FindIn, Positn
  <2>2. S \in SUBSET (Nat \ {0}) /\ \A j \in S : j \in 1 .. Len1(line)
    OBVIOUS
  <2> QED
    BY <2>1, <2>2, FirstOfSome
<1>2. CASE ~ simple
  <2> PICK S : S = {i \in p .. Len1(line) : AMatch(line, i, String(a), 1) > 0}
    OBVIOUS
  <2>1. FindIn(line, sought, a, simple, p) = IF S = {} THEN 0 ELSE FirstOf(S)
    BY <1>2 DEF FindIn
  <2>2. S \in SUBSET (Nat \ {0}) /\ \A j \in S : j \in 1 .. Len1(line)
    OBVIOUS
  <2> QED
    BY <2>1, <2>2, FirstOfSome
<1> QED
  BY <1>1, <1>2

LEMMA RoundIs ==
  ASSUME NEW n \in Nat \ {0}, NEW x \in Nat
  PROVE  (x % n) + 1 \in 1 .. n
OBVIOUS

LEMMA CursorMoves ==
  ASSUME TextFits(text), CursorFits, NEW sought, NEW a, NEW simple,
         Search(sought, a, simple), text' = text
  PROVE  CursorFits'
<1> DEFINE line(count) == ((blnum + count - 1) % NLines) + 1
           found(count) == FindIn(CharsIn(text[line(count)]), sought, a, simple,
                                  IF count = 0 THEN bpos + 1 ELSE 1)
           hits == {count \in 0 .. NLines : found(count) > 0}
<1>1. NLines \in Nat \ {0} /\ blnum \in 1 .. NLines /\ bpos \in Nat
  BY DEF TextFits, CursorFits, NLines, Len1
<1>2. ASSUME NEW count \in 0 .. NLines
      PROVE  line(count) \in 1 .. NLines /\ found(count) \in Nat
             /\ (found(count) > 0 => found(count) \in 1 .. Len1(text[line(count)]))
  <2>1. line(count) \in 1 .. NLines
    <3>1. blnum + count - 1 \in Nat
      BY <1>1
    <3> QED
      BY <1>1, <3>1, RoundIs
  <2> PICK i \in 1 .. NLines : i = line(count)
    BY <2>1
  <2>2. text[i] \in Seq(Cell)
    BY DEF TextFits, NLines
  <2> PICK l : l = CharsIn(text[i])
    OBVIOUS
  <2>3. l \in Seq(Bytes) /\ Len1(l) = Len1(text[i])
    BY <2>2, CharsAre DEF Len1
  <2> PICK p \in Nat \ {0} : p = IF count = 0 THEN bpos + 1 ELSE 1
    BY <1>1
  <2>4. found(count) = FindIn(l, sought, a, simple, p)
    OBVIOUS
  <2> HIDE DEF found, line
  <2> QED
    BY <2>1, <2>3, <2>4, PlaceFound
<1>3. IF hits = {} THEN UNCHANGED <<blnum, bpos>>
      ELSE blnum' = line(FirstOf(hits)) /\ bpos' = found(FirstOf(hits))
  BY DEF Search
<1>4. NLines' = NLines
  BY DEF NLines
<1> HIDE DEF line, found
<1>5. CASE hits = {}
  BY <1>3, <1>4, <1>5 DEF CursorFits, Len1
<1>6. CASE hits # {}
  <2>1. hits \in SUBSET Nat
    OBVIOUS
  <2>2. FirstOf(hits) \in hits
    BY <1>6, <2>1, FirstPlace
  <2> PICK c \in 0 .. NLines : c = FirstOf(hits) /\ found(c) > 0
    BY <2>2
  <2>3. blnum' \in 1 .. NLines /\ bpos' \in 1 .. Len1(text[blnum'])
    BY <1>2, <1>3, <1>6
  <2> QED
    BY <1>4, <2>3 DEF CursorFits, Len1
<1> QED
  BY <1>5, <1>6

----------------------------------------------------------------------------
(* What a translation does keeps its place, and the text as it must be.     *)

LEMMA FlatSeq ==
  ASSUME NEW S, NEW s \in Seq(Seq(S))
  PROVE  FlattenSeq(s) \in Seq(S)
<1> PICK l \in Nat : l = Len(s)
  OBVIOUS
<1> DEFINE flat(m) == FlattenSeq(SubSeq(s, 1, m))
           T == {m \in Nat : m <= l => flat(m) \in Seq(S)}
<1>1. 0 \in T
  <2>1. SubSeq(s, 1, 0) = <<>>
    OBVIOUS
  <2>2. FlattenSeq(<<>>) = <<>>
    BY DEF FlattenSeq
  <2>3. flat(0) \in Seq(S)
    <3>1. flat(0) = <<>>
      BY <2>1, <2>2, Zenon
    <3>2. <<>> \in Seq(S)
      OBVIOUS
    <3> QED
      BY <3>1, <3>2, Zenon
  <2> HIDE DEF flat
  <2> QED
    BY <2>3
<1>2. ASSUME NEW m \in Nat, m \in T PROVE m + 1 \in T
  <2> SUFFICES ASSUME m + 1 <= l PROVE flat(m + 1) \in Seq(S)
    OBVIOUS
  <2> PICK k \in 1 .. Len(s) : k = m + 1 /\ k - 1 = m
    OBVIOUS
  <2>1. FlattenSeq(SubSeq(s, 1, k)) = FlattenSeq(SubSeq(s, 1, k - 1)) \o s[k]
    BY FlattenNext
  <2>2. flat(m) \in Seq(S)
    <3> HIDE DEF flat
    <3> QED
      BY <1>2
  <2>3. s[k] \in Seq(S)
    OBVIOUS
  <2>4. flat(m) \o s[k] \in Seq(S)
    <3> HIDE DEF flat
    <3> QED
      BY <2>2, <2>3, ConcatProperties
  <2>5. flat(m + 1) = flat(m) \o s[k]
    BY <2>1, Zenon
  <2> HIDE DEF flat
  <2> QED
    BY <2>4, <2>5, Zenon
<1>3. l \in T
  <2> HIDE DEF T
  <2> QED
    BY <1>1, <1>2, Numbers!NumbersReached
<1>4. SubSeq(s, 1, l) = s
  <2> PICK R : R = Seq(S)
    OBVIOUS
  <2>1. s \in Seq(R)
    OBVIOUS
  <2> QED
    BY <2>1
<1>5. flat(l) \in Seq(S)
  <2> HIDE DEF flat
  <2> QED
    BY <1>3
<1> QED
  BY <1>4, <1>5, Zenon

LEMMA Expanded ==
  ASSUME repl \in Seq(Bytes), NEW orig \in Seq(Bytes)
  PROVE  Expand(orig) \in Seq(Bytes)
<1> PICK s : s = [i \in DOMAIN repl |-> IF repl[i] = ReplMark THEN orig ELSE <<repl[i]>>]
  OBVIOUS
<1>1. s \in Seq(Seq(Bytes))
  <2>1. \A i \in 1 .. Len(repl) : repl[i] \in Bytes
    OBVIOUS
  <2>2. \A x \in Bytes : <<x>> \in Seq(Bytes)
    OBVIOUS
  <2>3. s = [i \in 1 .. Len(repl) |-> IF repl[i] = ReplMark THEN orig ELSE <<repl[i]>>]
    OBVIOUS
  <2>4. s \in [1 .. Len(repl) -> Seq(Bytes)]
    BY <2>1, <2>2, <2>3
  <2> QED
    BY <2>4
<1> QED
  BY <1>1, FlatSeq DEF Expand

Piece(S, s, m, n) == s \in Seq(S) /\ m \in 1 .. Len(s) + 1 /\ n \in m - 1 .. Len(s)

LEMMA PieceIs ==
  ASSUME NEW S, NEW s, NEW m \in Nat, NEW n \in Nat, Piece(S, s, m, n)
  PROVE  SubSeq(s, m, n) \in Seq(S) /\ Len(SubSeq(s, m, n)) = (n - m) + 1
<1> USE DEF Piece
<1>1. CASE n = m - 1
  BY <1>1
<1>2. CASE n # m - 1
  <2>1. m \in 1 .. Len(s) /\ n \in m .. Len(s)
    BY <1>2
  <2> QED
    BY <2>1
<1> QED
  BY <1>1, <1>2

LEMMA FirstPiece ==
  ASSUME NEW S, NEW s \in Seq(S), NEW n \in 0 .. Len(s)
  PROVE  SubSeq(s, 1, n) \in Seq(S) /\ Len(SubSeq(s, 1, n)) = n
<1>1. Piece(S, s, 1, n) /\ 1 \in Nat /\ n \in Nat
  BY DEF Piece
<1>2. (n - 1) + 1 = n
  OBVIOUS
<1> QED
  BY <1>1, <1>2, PieceIs

LEMMA Joined ==
  ASSUME NEW S, NEW s \in Seq(S), NEW t \in Seq(S)
  PROVE  s \o t \in Seq(S) /\ Len(s \o t) = Len(s) + Len(t)
OBVIOUS

\* What is left of a line, with something else put in.
LineFits(line, b, e, all) ==
  LET rest == SubSeq(line, 1, b - 1) \o SubSeq(line, e, Len(line))
      room == MaxLen - Len(rest)
      new == SubSeq(all, 1, IF Len(all) < room THEN Len(all) ELSE room)
      result == SubSeq(rest, 1, b - 1) \o [i \in DOMAIN new |-> [c |-> new[i], was |-> 0]]
                  \o SubSeq(rest, b, Len(rest))
  IN  /\ result \in Seq(Cell) /\ Len(result) <= MaxLen
      /\ b + Len(new) \in 1 .. Len1(result) /\ SubSeq(line, b, e - 1) \in Seq(Cell)

LEMMA LineChanged ==
  ASSUME NEW line \in Seq(Cell), Len(line) <= MaxLen,
         NEW b \in Nat, b \in 1 .. Len(line) + 1, NEW e \in Nat, e \in b .. Len(line) + 1,
         NEW all \in Seq(Bytes)
  PROVE  LineFits(line, b, e, all)
<1>1. PICK n \in Nat : n = Len(line) /\ b <= n + 1 /\ 1 <= b /\ b <= e /\ e <= n + 1
  OBVIOUS
<1>2. PICK max \in Nat : max = MaxLen /\ n <= max
  BY <1>1, SearchAssumption
<1>3. b - 1 \in Nat /\ e - 1 \in Nat /\ 1 \in Nat
  BY <1>1
<1>4. PICK x : x = SubSeq(line, 1, b - 1)
  OBVIOUS
<1>5. x \in Seq(Cell) /\ Len(x) = b - 1
  <2>1. Piece(Cell, line, 1, b - 1)
    BY <1>1 DEF Piece
  <2>2. SubSeq(line, 1, b - 1) \in Seq(Cell) /\ Len(SubSeq(line, 1, b - 1)) = ((b - 1) - 1) + 1
    BY <1>3, <2>1, PieceIs
  <2> QED
    BY <1>4, <2>2
<1>6. PICK y : y = SubSeq(line, e, n)
  OBVIOUS
<1>7. y \in Seq(Cell) /\ Len(y) = (n - e) + 1
  <2>1. Piece(Cell, line, e, n)
    BY <1>1 DEF Piece
  <2> QED
    BY <1>6, <2>1, PieceIs
<1>8. PICK rest : rest = x \o y
  OBVIOUS
<1>9. PICK r \in Nat : rest \in Seq(Cell) /\ Len(rest) = r /\ r + 1 >= b /\ r <= n
  <2>1. x \o y \in Seq(Cell) /\ Len(x \o y) = Len(x) + Len(y)
    BY <1>5, <1>7, Joined
  <2>2. rest \in Seq(Cell) /\ Len(rest) = Len(x) + Len(y)
    BY <1>8, <2>1, Zenon
  <2>3. Len(rest) = (b - 1) + ((n - e) + 1)
    BY <1>5, <1>7, <2>2
  <2> QED
    BY <1>1, <2>2, <2>3
<1>10. PICK k \in 0 .. max - r : k = IF Len(all) < max - r THEN Len(all) ELSE max - r
  BY <1>1, <1>2, <1>9
<1>11. PICK new : new = SubSeq(all, 1, k)
  OBVIOUS
<1>12. new \in Seq(Bytes) /\ Len(new) = k
  <2>1. k \in 0 .. Len(all)
    BY <1>1, <1>2, <1>9, <1>10
  <2> QED
    BY <1>11, <2>1, FirstPiece
<1>13. PICK put : put = [i \in DOMAIN new |-> [c |-> new[i], was |-> 0]]
  OBVIOUS
<1>14. put \in Seq(Cell) /\ Len(put) = k
  <2>1. DOMAIN new = 1 .. k /\ \A i \in 1 .. k : new[i] \in Bytes
    BY <1>12
  <2>2. \A i \in 1 .. k : [c |-> new[i], was |-> 0] \in Cell
    BY <2>1 DEF Cell
  <2>3. put = [i \in 1 .. k |-> [c |-> new[i], was |-> 0]]
    BY <1>13, <2>1
  <2>4. put \in [1 .. k -> Cell]
    BY <2>2, <2>3
  <2> QED
    BY <2>4
<1>15. PICK u : u = SubSeq(rest, 1, b - 1)
  OBVIOUS
<1>16. u \in Seq(Cell) /\ Len(u) = b - 1
  <2>1. PICK h \in Nat : h = b - 1
    BY <1>3
  <2>2. h \in 0 .. Len(rest)
    BY <1>1, <1>9, <2>1
  <2>3. SubSeq(rest, 1, h) \in Seq(Cell) /\ Len(SubSeq(rest, 1, h)) = h
    BY <1>9, <2>2, FirstPiece
  <2>4. u = SubSeq(rest, 1, h)
    BY <1>15, <2>1
  <2> QED
    BY <2>1, <2>3, <2>4
<1>17. PICK v : v = SubSeq(rest, b, r)
  OBVIOUS
<1>18. v \in Seq(Cell) /\ Len(v) = (r - b) + 1
  <2>1. Piece(Cell, rest, b, r)
    BY <1>1, <1>9 DEF Piece
  <2> QED
    BY <1>17, <2>1, PieceIs
<1>19. PICK result : result = u \o put \o v
  OBVIOUS
<1>20. result \in Seq(Cell) /\ Len(result) = r + k
  <2>1. u \o put \in Seq(Cell) /\ Len(u \o put) = (b - 1) + k
    BY <1>14, <1>16, Joined
  <2>4. PICK z : z = u \o put
    OBVIOUS
  <2>5. z \in Seq(Cell) /\ Len(z) = (b - 1) + k
    BY <2>1, <2>4, Zenon
  <2>2. (u \o put) \o v \in Seq(Cell) /\ Len((u \o put) \o v) = ((b - 1) + k) + ((r - b) + 1)
    <3>1. z \o v \in Seq(Cell) /\ Len(z \o v) = Len(z) + Len(v)
      BY <1>18, <2>5, Joined
    <3>2. Len(z \o v) = ((b - 1) + k) + ((r - b) + 1)
      BY <1>18, <2>5, <3>1
    <3> QED
      BY <2>4, <3>1, <3>2, Zenon
  <2>3. result \in Seq(Cell) /\ Len(result) = ((b - 1) + k) + ((r - b) + 1)
    BY <1>19, <2>2, Zenon
  <2> QED
    BY <2>3
<1>21. SubSeq(line, b, e - 1) \in Seq(Cell)
  <2>1. Piece(Cell, line, b, e - 1)
    BY <1>1 DEF Piece
  <2> QED
    BY <1>3, <2>1, PieceIs
<1>22. b + k \in 1 .. Len(result) + 1 /\ Len(result) <= max
  BY <1>1, <1>9, <1>10, <1>20
<1>23. /\ rest = SubSeq(line, 1, b - 1) \o SubSeq(line, e, Len(line))
       /\ new = SubSeq(all, 1, IF Len(all) < MaxLen - Len(rest) THEN Len(all) ELSE MaxLen - Len(rest))
       /\ result = SubSeq(rest, 1, b - 1) \o [i \in DOMAIN new |-> [c |-> new[i], was |-> 0]]
                     \o SubSeq(rest, b, Len(rest))
  BY <1>1, <1>2, <1>4, <1>6, <1>8, <1>9, <1>10, <1>11, <1>13, <1>15, <1>17, <1>19, Zenon
<1>24. result \in Seq(Cell) /\ Len(result) <= MaxLen /\ b + Len(new) \in 1 .. Len1(result)
  BY <1>2, <1>12, <1>20, <1>22 DEF Len1
<1> QED
  BY <1>21, <1>23, <1>24, Zenon DEF LineFits

\* At the bottom of its loop a translation goes on on its line, or at the start of
\* another.
BottomFits(t, line, b) ==
  /\ b \in TranRec /\ b.pos2 = 0 /\ b.pos1 > 0 /\ b.n \in 1 .. NLines
  /\ ~ simplepat => b.pos1 = 1 \/ (b.n = t.n /\ b.pos1 <= Len1(line))

LEMMA BottomIs ==
  ASSUME NEW t \in TranRec, t.n \in 1 .. NLines, t.pos1 > 0, t.pos2 = 0, NLines \in Nat,
         NEW line, Len1(line) \in Nat, simplepat \in BOOLEAN
  PROVE  BottomFits(t, line, Bottom(t, line))
<1>1. PICK next : next = IF ~ t.pass THEN t.n ELSE IF t.n + 1 > NLines THEN 1 ELSE t.n + 1
  OBVIOUS
<1>2. PICK again \in BOOLEAN : again = (simplepat /\ next = t.startn /\ t.startpos # 1 /\ t.pass)
  OBVIOUS
<1>3. PICK p1 : p1 = IF ~ simplepat \/ next # t.startn \/ again THEN 1 ELSE t.pos1
  OBVIOUS
<1>4. PICK pass \in BOOLEAN : pass = (t.pass /\ ~ again)
  OBVIOUS
<1>5. t.n \in Nat /\ t.pos1 \in Nat /\ t.pass \in BOOLEAN /\ t.maxrepl \in Int
  BY DEF TranRec
<1>6. next \in 1 .. NLines /\ next \in Nat
  BY <1>1, <1>5
<1>7. p1 \in Nat /\ p1 > 0 /\ (~ simplepat => p1 = 1)
  BY <1>3, <1>5
<1>8. PICK moved : moved = [t EXCEPT !.testok = TRUE, !.n = next, !.maxrepl = t.maxrepl - 1,
                                    !.pos1 = p1, !.pass = pass]
  OBVIOUS
<1>9. moved \in TranRec /\ moved.n = next /\ moved.pos1 = p1 /\ moved.pos2 = 0
  <2>1. PICK x \in TranRec : x = [t EXCEPT !.testok = TRUE, !.n = next]
    BY <1>6 DEF TranRec
  <2>7. PICK m \in Int : m = t.maxrepl - 1
    BY <1>5
  <2>8. PICK z \in TranRec : z = [x EXCEPT !.maxrepl = m]
    BY DEF TranRec
  <2>2. PICK y \in TranRec : y = [z EXCEPT !.pos1 = p1]
    BY <1>7 DEF TranRec
  <2>3. moved = [y EXCEPT !.pass = pass]
    BY <1>8, <2>1, <2>2, <2>7, <2>8 DEF TranRec
  <2>4. moved \in TranRec /\ moved.n = y.n /\ moved.pos1 = y.pos1 /\ moved.pos2 = y.pos2
    BY <1>4, <2>3 DEF TranRec
  <2>5. y.n = x.n /\ y.pos1 = p1 /\ y.pos2 = x.pos2
    BY <2>2, <2>8 DEF TranRec
  <2>6. x.n = next /\ x.pos2 = t.pos2
    BY <2>1 DEF TranRec
  <2> QED
    BY <2>4, <2>5, <2>6
<1>10. PICK after : after = IF t.pos1 > Len1(line) THEN moved ELSE t
  OBVIOUS
<1>11. BottomFits(t, line, after)
  <2>1. CASE t.pos1 > Len1(line)
    BY <1>6, <1>7, <1>9, <1>10, <2>1 DEF BottomFits
  <2>2. CASE ~ t.pos1 > Len1(line)
    <3>1. t.pos1 <= Len1(line)
      BY <1>5, <2>2
    <3>2. after = t
      BY <1>10, <2>2
    <3> QED
      BY <3>1, <3>2 DEF BottomFits
  <2> QED
    BY <2>1, <2>2
<1>12. PICK ended \in BOOLEAN : ended = (\/ after.maxrepl <= 0
                                         \/ after.testok /\ after.n = after.startn
                                            /\ (after.pos1 >= after.startpos \/ after.pos1 > Len1(line)))
  OBVIOUS
<1>13. PICK b : b = [after EXCEPT !.active = ~ ended]
  OBVIOUS
<1>14. b \in TranRec /\ b.n = after.n /\ b.pos1 = after.pos1 /\ b.pos2 = after.pos2
  <2>1. after \in TranRec
    BY <1>11 DEF BottomFits
  <2> QED
    BY <1>12, <1>13, <2>1 DEF TranRec
<1>15. BottomFits(t, line, b)
  BY <1>11, <1>14 DEF BottomFits
<1>16. b = Bottom(t, line)
  BY <1>1, <1>2, <1>3, <1>4, <1>8, <1>10, <1>12, <1>13 DEF Bottom
<1> QED
  BY <1>15, <1>16

LEMMA ThisLine ==
  ASSUME SearchInv, NEW n \in 1 .. NLines
  PROVE  /\ text[n] \in Seq(Cell) /\ Len(text[n]) <= MaxLen /\ NLines \in Nat
         /\ CharsIn(text[n]) \in Seq(Bytes) /\ Len1(CharsIn(text[n])) = Len1(text[n])
         /\ Len1(text[n]) = Len(text[n]) + 1 /\ Len(text[n]) \in Nat
<1>1. text \in Seq(Seq(Cell)) /\ NLines = Len(text) /\ NLines \in Nat
  BY DEF SearchInv, TextFits, NLines
<1>2. text[n] \in Seq(Cell)
  BY <1>1
<1>3. Len(text[n]) <= MaxLen
  BY <1>1 DEF SearchInv, TextFits
<1>4. CharsIn(text[n]) \in Seq(Bytes) /\ Len(CharsIn(text[n])) = Len(text[n])
  BY <1>2, CharsAre
<1> QED
  BY <1>1, <1>2, <1>3, <1>4 DEF Len1

\* A match is a part of the line.
LEMMA MatchPlace ==
  ASSUME SearchInv, tran.active, tran.pos2 = 0, Match(tran).pos2 > 0
  PROVE  /\ Match(tran).pos1 \in Nat /\ Match(tran).pos1 \in 1 .. Len1(text[tran.n])
         /\ Match(tran).pos2 \in Nat
         /\ Match(tran).pos2 \in Match(tran).pos1 .. Len1(text[tran.n])
<1> PICK n \in 1 .. NLines : n = tran.n
  BY DEF SearchInv, TranPlace
<1> PICK line : line = CharsIn(text[n])
  OBVIOUS
<1>1. line \in Seq(Bytes) /\ Len1(line) = Len1(text[n]) /\ Len1(line) = Len(line) + 1 /\ Len(line) \in Nat
  <2>1. line \in Seq(Bytes) /\ Len1(line) = Len1(text[n])
    BY ThisLine
  <2> QED
    BY <2>1 DEF Len1
<1>2. tran.pos1 \in Nat /\ tran.pos1 > 0 /\ patsrc \in Sources /\ tran.pos2 = 0
  BY DEF SearchInv, TranPlace, TranRec, PatternKept
<1> PICK k \in Nat : k = tran.pos1 /\ k > 0
  BY <1>2
<1>3. CASE simplepat
  <2> PICK S : S = {j \in k .. Len(line) : IsAt(patsrc, line, j)}
    OBVIOUS
  <2> PICK p : p = Positn(patsrc, line, k)
    OBVIOUS
  <2>1. p = IF S = {} THEN 0 ELSE FirstOf(S)
    BY DEF Positn
  <2>2. S \in SUBSET (Nat \ {0})
    BY <1>1
  <2>3. p \in Nat /\ (p > 0 => p \in S)
    BY <2>1, <2>2, FirstOfSome
  <2>4. Match(tran) = IF p = 0 \/ (~ tran.pass /\ p >= tran.startpos)
                      THEN [pos1 |-> k, pos2 |-> 0] ELSE [pos1 |-> p, pos2 |-> p + Len(patsrc)]
    BY <1>3 DEF Match
  <2>5. p # 0 /\ Match(tran) = [pos1 |-> p, pos2 |-> p + Len(patsrc)]
    BY <2>4
  <2>6. p \in S /\ p \in k .. Len(line) /\ p + Len(patsrc) <= Len1(line)
    BY <2>3, <2>5 DEF IsAt
  <2>7. Len(patsrc) \in Nat
    BY <1>2, SourceIs
  <2>8. Match(tran).pos1 = p /\ Match(tran).pos2 = p + Len(patsrc)
    BY <2>5
  <2> QED
    BY <1>1, <2>6, <2>7, <2>8
<1>4. CASE ~ simplepat
  <2>1. Match(tran) = [pos1 |-> k, pos2 |-> AMatch(line, k, String(pat), 1)]
    BY <1>4 DEF Match
  <2>2. Made(patsrc)[1].ok /\ String(pat) = Made(patsrc)[1].made /\ k <= Len1(line)
    BY <1>1, <1>2, <1>4 DEF SearchInv, TranPlace, Compiles
  <2>3. patsrc \in Seq(Bytes)
    BY <1>2, SourceIs
  <2> PICK row : row = EndsFrom(patsrc, line)[1]
    OBVIOUS
  <2> PICK p : p = Made(patsrc)[1].made
    OBVIOUS
  <2> PICK h \in Nat : h = Len1(line)
    BY <1>1
  <2>4. Rising(row, h) /\ Finds(MatchFrom(line, p)[1], row, h)
    BY <1>1, <2>2, <2>3, MatchFinds
  <2>5. k \in 1 .. h
    BY <2>2
  <2>6. AMatch(line, k, String(pat), 1) = Best(row[k])
    BY <2>2, <2>4, <2>5 DEF AMatch, Finds
  <2>7. row[k] \in SUBSET (1 .. h) /\ \A i \in row[k] : k <= i
    BY <2>4, <2>5 DEF Rising
  <2>8. Best(row[k]) \in 0 .. h /\ (Best(row[k]) > 0 => Best(row[k]) \in row[k])
    <3>1. Best(row[k]) \in 0 .. h /\ (Best(row[k]) = 0 <=> row[k] = {})
          /\ (row[k] # {} => Best(row[k]) \in row[k])
      BY <2>7, BestIs
    <3> QED
      BY <3>1
  <2>9. Match(tran).pos1 = k /\ Match(tran).pos2 = Best(row[k])
    BY <2>1, <2>6
  <2> QED
    BY <1>1, <2>5, <2>7, <2>8, <2>9
<1> QED
  BY <1>3, <1>4

\* A replaced match leaves a line that is not too long, with the cursor in it.
ReplacedFits(t, r) ==
  /\ r.line \in Seq(Cell) /\ Len(r.line) <= MaxLen /\ r.end \in 1 .. Len1(r.line)
  /\ r.tran \in TranRec /\ r.tran.pos2 = 0 /\ r.tran.pos1 > 0 /\ r.tran.n = t.n

LEMMA ReplacedIs ==
  ASSUME SearchInv, NEW t \in TranRec, t.pos2 \in bpos .. Len1(text[blnum])
  PROVE  ReplacedFits(t, Replaced(t))
<1> DEFINE line == text[blnum]
           gone == SubSeq(line, bpos, t.pos2 - 1)
           all == Expand(CharsIn(gone))
           rest == SubSeq(line, 1, bpos - 1) \o SubSeq(line, t.pos2, Len(line))
           room == MaxLen - Len(rest)
           new == SubSeq(all, 1, IF Len(all) < room THEN Len(all) ELSE room)
           result == SubSeq(rest, 1, bpos - 1) \o [i \in DOMAIN new |-> [c |-> new[i], was |-> 0]]
                       \o SubSeq(rest, bpos, Len(rest))
           end == bpos + Len(new)
           pos1 == IF end <= bpos /\ Len(repl) > 0 THEN 256 ELSE end
           p1 == IF t.pos1 = t.pos2 THEN pos1 + 1 ELSE pos1
           sp == IF blnum = t.startn /\ bpos < t.startpos
                 THEN t.startpos - Len(gone) + Len(all) ELSE t.startpos
           full == t.full \/ new # all
           twice == t.twice \/ \E i \in DOMAIN gone : gone[i].was = 0
           x == [t EXCEPT !.startpos = sp, !.pos1 = p1, !.pos2 = 0, !.full = full, !.twice = twice]
<1>1. Replaced(t) = [line |-> result, end |-> end, tran |-> x]
  BY Zenon DEF Replaced
<1> HIDE DEF line, gone, all, rest, room, new, result, end, pos1, p1, sp, full, twice, x
<1>2. /\ line \in Seq(Cell) /\ Len(line) <= MaxLen /\ bpos \in 1 .. Len(line) + 1 /\ bpos \in Nat
      /\ t.pos2 \in bpos .. Len(line) + 1 /\ t.pos2 \in Nat
  <2>1. blnum \in 1 .. NLines /\ bpos \in 1 .. Len1(text[blnum])
    BY DEF SearchInv, CursorFits
  <2>2. line \in Seq(Cell) /\ Len(line) <= MaxLen /\ Len1(text[blnum]) = Len(line) + 1 /\ Len(line) \in Nat
    BY <2>1, ThisLine DEF line
  <2> QED
    BY <2>1, <2>2
<1>3. gone \in Seq(Cell)
  <2>1. Piece(Cell, line, bpos, t.pos2 - 1) /\ t.pos2 - 1 \in Nat
    BY <1>2 DEF Piece
  <2> QED
    BY <1>2, <2>1, PieceIs DEF gone
<1>4. all \in Seq(Bytes)
  BY <1>3, CharsAre, Expanded DEF SearchInv, all
<1>5. result \in Seq(Cell) /\ Len(result) <= MaxLen /\ end \in 1 .. Len1(result)
  <2>1. PICK e \in Nat : e = t.pos2
    BY <1>2
  <2>2. LineFits(line, bpos, e, all)
    BY <1>2, <1>4, <2>1, LineChanged
  <2>3. LineFits(line, bpos, t.pos2, all)
    BY <2>1, <2>2
  <2> QED
    BY <2>3, Zenon DEF LineFits, result, end, new, room, rest
<1>6. end \in Nat /\ end > 0
  <2>1. Len1(result) \in Nat
    BY <1>5 DEF Len1
  <2> QED
    BY <1>5, <2>1
<1>7. p1 \in Nat /\ p1 > 0
  <2>1. pos1 \in Nat /\ pos1 > 0
    BY <1>6 DEF pos1
  <2> QED
    BY <2>1 DEF p1
<1>8. sp \in Int
  <2>1. t.startpos \in Int /\ Len(gone) \in Nat /\ Len(all) \in Nat
    BY <1>3, <1>4 DEF TranRec
  <2> QED
    BY <2>1 DEF sp
<1>9. full \in BOOLEAN /\ twice \in BOOLEAN
  BY DEF full, twice
<1>10. x \in TranRec /\ x.pos2 = 0 /\ x.pos1 = p1 /\ x.n = t.n
  <2>1. PICK u \in TranRec : u = [t EXCEPT !.startpos = sp]
    BY <1>8 DEF TranRec
  <2>2. PICK v \in TranRec : v = [u EXCEPT !.pos1 = p1, !.pos2 = 0]
    BY <1>7 DEF TranRec
  <2>3. x = [v EXCEPT !.full = full, !.twice = twice]
    BY <2>1, <2>2 DEF TranRec, x
  <2>4. x \in TranRec /\ x.n = v.n /\ x.pos1 = v.pos1 /\ x.pos2 = v.pos2
    BY <1>9, <2>3 DEF TranRec
  <2>5. v.n = u.n /\ v.pos1 = p1 /\ v.pos2 = 0
    BY <2>2 DEF TranRec
  <2>6. u.n = t.n
    BY <2>1 DEF TranRec
  <2> QED
    BY <2>4, <2>5, <2>6
<1> PICK r : r = Replaced(t)
  OBVIOUS
<1>11. r.line = result /\ r.end = end /\ r.tran = x
  BY <1>1
<1> QED
  BY <1>5, <1>7, <1>10, <1>11 DEF ReplacedFits

----------------------------------------------------------------------------
(* Every step keeps it.                                                     *)

LEMMA InitSearchInv == SearchInit => SearchInv
<1> SUFFICES ASSUME SearchInit PROVE SearchInv
  OBVIOUS
<1>1. PICK t \in SearchTexts : text = [i \in DOMAIN t |-> Noted(t[i])]
  BY DEF SearchInit
<1>2. t \in Seq(Seq(Bytes)) /\ \A i \in DOMAIN t : Len(t[i]) <= MaxLen
  BY SearchAssumption
<1> PICK n \in Nat : n = Len(t)
  BY <1>2
<1>3. DOMAIN t = 1 .. n /\ \A i \in 1 .. n : t[i] \in Seq(Bytes)
  BY <1>2
<1>4. ASSUME NEW i \in 1 .. n PROVE Noted(t[i]) \in Seq(Cell) /\ Len(Noted(t[i])) <= MaxLen
  <2> PICK l : l = t[i]
    OBVIOUS
  <2> PICK m \in Nat : m = Len(l)
    BY <1>3
  <2>1. DOMAIN l = 1 .. m /\ \A k \in 1 .. m : l[k] \in Bytes
    BY <1>3
  <2>2. \A k \in 1 .. m : [c |-> l[k], was |-> k] \in Cell
    BY <2>1 DEF Cell
  <2>3. Noted(l) = [k \in 1 .. m |-> [c |-> l[k], was |-> k]]
    BY <2>1 DEF Noted
  <2>4. Noted(l) \in [1 .. m -> Cell]
    BY <2>2, <2>3
  <2>5. Noted(l) \in Seq(Cell) /\ Len(Noted(l)) = m
    BY <2>4
  <2> QED
    BY <1>2, <1>3, <2>5
<1>5. text = [i \in 1 .. n |-> Noted(t[i])]
  BY <1>1, <1>3
<1>6. text \in [1 .. n -> Seq(Cell)]
  BY <1>4, <1>5
<1>7. text \in Seq(Seq(Cell)) /\ Len(text) = n
  BY <1>6
<1>8. TextFits(text)
  BY <1>4, <1>5, <1>7 DEF TextFits
<1>9. CursorFits
  BY DEF SearchInit, CursorFits
<1>10. PatternKept
  BY DEF SearchInit, PatternKept
<1>11. repl \in Seq(Bytes) /\ tran.active = FALSE /\ TranPlace(tran) /\ asking = "none"
  BY DEF SearchInit, NoTran, TranPlace
<1> QED
  BY <1>8, <1>9, <1>10, <1>11 DEF SearchInv

LEMMA TakesPattern ==
  ASSUME PatternKept, NEW s \in Sources, Take(s)
  PROVE  /\ PatternKept' /\ patsrc' = s /\ s # <<>> /\ simplepat' = Simple(s)
         /\ Good(s) /\ ~ Simple(s) => Compiles(s, pat')
<1>1. s \in Seq(Bytes) /\ s # <<>> /\ PatRoom \in Nat
  BY SourceIs
<1>2. patsrc' = s /\ simplepat' = Simple(s) /\ pat' = IF Simple(s) THEN pat ELSE GetPat(s).pat
  BY DEF Take
<1> PICK A : A = [1 .. PatRoom -> Codes \cup {Nul}]
  OBVIOUS
<1>3. GetPat(s).pat \in A
  <2> PICK m : m = Made(s)[1].made
    OBVIOUS
  <2>1. m \in Seq(Codes)
    <3>1. 1 \in 1 .. Len(s) + 1
      BY <1>1
    <3> QED
      BY <1>1, <3>1, MadeIs DEF Compiled
  <2> PICK z : z = IF Made(s)[1].ok THEN Append(m, Nul) ELSE m
    OBVIOUS
  <2>2. z \in Seq(Codes \cup {Nul})
    BY <2>1
  <2>3. GetPat(s).pat = Overlay(pat, z)
    BY DEF GetPat, MakePat
  <2>4. \A i \in 1 .. PatRoom : (IF i <= Len(z) THEN z[i] ELSE pat[i]) \in Codes \cup {Nul}
    BY <2>2 DEF PatternKept
  <2> QED
    BY <2>3, <2>4 DEF Overlay
<1>4. pat' \in A
  BY <1>2, <1>3 DEF PatternKept
<1>5. PatternKept'
  <2>1. Simple(s) \in BOOLEAN /\ PatRoom' = PatRoom
    BY DEF Simple, PatRoom
  <2> QED
    BY <1>1, <1>2, <1>4 DEF PatternKept, Simple
<1>6. ASSUME Good(s), ~ Simple(s) PROVE Compiles(s, pat')
  <2>1. GetPat(s).ok /\ pat' = GetPat(s).pat
    BY <1>2, <1>6 DEF Good
  <2> QED
    BY <1>4, <2>1, GoodCompiles
<1> QED
  BY <1>1, <1>2, <1>5, <1>6

LEMMA BadPatternKeeps == SearchInv /\ BadPattern => SearchInv'
<1> SUFFICES ASSUME SearchInv, BadPattern PROVE SearchInv'
  OBVIOUS
<1>1. PICK s \in Sources : Take(s)
  BY DEF BadPattern
<1>2. PatternKept'
  BY <1>1, TakesPattern DEF SearchInv
<1>3. UNCHANGED <<text, blnum, bpos, asking, repl, tran>> /\ ~ tran.active
  BY DEF BadPattern, SearchInv
<1> QED
  BY <1>2, <1>3 DEF SearchInv, TextFits, CursorFits, TranPlace, NLines, Len1

LEMMA SearchCmdKeeps == SearchInv /\ SearchCmd => SearchInv'
<1> SUFFICES ASSUME SearchInv, SearchCmd PROVE SearchInv'
  OBVIOUS
<1>1. PICK s \in Sources : Take(s) /\ Search(s, pat', Simple(s))
  BY DEF SearchCmd
<1>2. PatternKept'
  BY <1>1, TakesPattern DEF SearchInv
<1>3. UNCHANGED <<text, repl, tran>> /\ ~ tran.active /\ asking' = "none"
  BY DEF SearchCmd, SearchInv
<1>4. CursorFits'
  <2>1. TextFits(text) /\ CursorFits
    BY DEF SearchInv
  <2> PICK a : a = pat'
    OBVIOUS
  <2>2. Search(s, a, Simple(s))
    BY <1>1
  <2> QED
    BY <1>3, <2>1, <2>2, CursorMoves
<1> QED
  BY <1>2, <1>3, <1>4 DEF SearchInv, TextFits, TranPlace

LEMMA MoreCmdKeeps == SearchInv /\ MoreCmd => SearchInv'
<1> SUFFICES ASSUME SearchInv, MoreCmd PROVE SearchInv'
  OBVIOUS
<1>1. UNCHANGED <<text, patsrc, pat, simplepat, asking, repl, tran>> /\ ~ tran.active
  BY DEF MoreCmd, Waiting
<1>2. CursorFits'
  <2>1. CASE NoPattern
    BY <1>1, <2>1 DEF MoreCmd, SearchInv, CursorFits, NLines, Len1
  <2>2. CASE ~ NoPattern
    BY <1>1, <2>2, CursorMoves DEF MoreCmd, SearchInv
  <2> QED
    BY <2>1, <2>2
<1> QED
  BY <1>1, <1>2 DEF SearchInv, TextFits, PatternKept, TranPlace, PatRoom

LEMMA TranCmdKeeps == SearchInv /\ TranCmd => SearchInv'
<1> SUFFICES ASSUME SearchInv, TranCmd PROVE SearchInv'
  OBVIOUS
<1>1. PICK s \in Sources : Good(s) /\ Take(s)
  BY DEF TranCmd
<1>2. /\ PatternKept' /\ patsrc' = s /\ s # <<>> /\ simplepat' = Simple(s)
      /\ ~ Simple(s) => Compiles(s, pat')
  BY <1>1, TakesPattern DEF SearchInv
<1>3. UNCHANGED <<blnum, bpos>> /\ asking' = "none"
      /\ text' = [i \in DOMAIN text |-> Noted(CharsIn(text[i]))]
  BY DEF TranCmd
<1>4. repl' \in Seq(Bytes)
  BY SearchAssumption DEF TranCmd
<1> PICK k \in Nat : k = NLines /\ k = Len(text) /\ DOMAIN text = 1 .. k
  BY DEF SearchInv, TextFits, NLines
<1>5. ASSUME NEW i \in 1 .. k
      PROVE  Noted(CharsIn(text[i])) \in Seq(Cell) /\ Len(Noted(CharsIn(text[i]))) = Len(text[i])
  <2> PICK l : l = CharsIn(text[i])
    OBVIOUS
  <2>1. text[i] \in Seq(Cell)
    BY DEF SearchInv, TextFits
  <2>2. l \in Seq(Bytes) /\ Len(l) = Len(text[i])
    BY <2>1, CharsAre
  <2> PICK m \in Nat : m = Len(l)
    BY <2>2
  <2>3. DOMAIN l = 1 .. m /\ \A h \in 1 .. m : l[h] \in Bytes
    BY <2>2
  <2>4. \A h \in 1 .. m : [c |-> l[h], was |-> h] \in Cell
    BY <2>3 DEF Cell
  <2>5. Noted(l) = [h \in 1 .. m |-> [c |-> l[h], was |-> h]]
    BY <2>3 DEF Noted
  <2>6. Noted(l) \in [1 .. m -> Cell]
    BY <2>4, <2>5
  <2>7. Noted(l) \in Seq(Cell) /\ Len(Noted(l)) = m
    BY <2>6
  <2> QED
    BY <2>2, <2>7
<1>6. text' = [i \in 1 .. k |-> Noted(CharsIn(text[i]))]
  BY <1>3
<1>7. text' \in [1 .. k -> Seq(Cell)]
  BY <1>5, <1>6
<1>8. text' \in Seq(Seq(Cell)) /\ Len(text') = k
  BY <1>7
<1>9. \A i \in 1 .. k : Len(text'[i]) = Len(text[i])
  BY <1>5, <1>6
<1>10. TextFits(text')
  BY <1>8, <1>9 DEF TextFits, SearchInv
<1>11. blnum \in 1 .. k /\ bpos \in 1 .. Len1(text[blnum]) /\ Len1(text[blnum]) = Len(text[blnum]) + 1
       /\ Len(text[blnum]) \in Nat
  BY ThisLine DEF SearchInv, CursorFits
<1>12. CursorFits'
  BY <1>3, <1>8, <1>9, <1>11 DEF CursorFits, NLines, Len1
<1>13. PICK t : /\ t = tran' /\ t.active = TRUE /\ t \in TranRec /\ t.n = blnum
                /\ t.pos1 = bpos /\ t.pos2 = 0
  <2>1. PICK b1 \in Nat : b1 = blnum
    BY <1>11
  <2>3. PICK b2 \in Nat : b2 = bpos
    BY <1>11
  <2>4. PICK m \in Int : m = MaxInt
    BY SearchAssumption
  <2> PICK z \in BOOLEAN : z = (bpos = 1)
    OBVIOUS
  <2>2. tran' = [active |-> TRUE, found |-> FALSE, global |-> FALSE, testok |-> FALSE,
                 pass |-> TRUE, startn |-> blnum, startpos |-> bpos, n |-> blnum,
                 pos1 |-> bpos, pos2 |-> 0, maxrepl |-> MaxInt,
                 whole |-> z, full |-> FALSE, twice |-> FALSE]
    BY DEF TranCmd
  <2>5. PICK t : t = [active |-> TRUE, found |-> FALSE, global |-> FALSE, testok |-> FALSE,
                      pass |-> TRUE, startn |-> b1, startpos |-> b2, n |-> b1,
                      pos1 |-> b2, pos2 |-> 0, maxrepl |-> m,
                      whole |-> z, full |-> FALSE, twice |-> FALSE]
    OBVIOUS
  <2>6. tran' = t
    BY <2>1, <2>2, <2>3, <2>4, <2>5
  <2>7. t \in TranRec
    BY <2>5 DEF TranRec
  <2>8. t.active = TRUE /\ t.n = b1 /\ t.pos1 = b2 /\ t.pos2 = 0
    BY <2>5
  <2> QED
    BY <2>1, <2>3, <2>6, <2>7, <2>8
<1>14. TranPlace(tran)'
  <2>1. NLines' = k /\ Len1(text[tran.n])' = Len1(text[blnum])
    BY <1>8, <1>9, <1>11, <1>13 DEF NLines, Len1
  <2>2. /\ t.active = TRUE /\ t \in TranRec /\ t.n \in 1 .. k /\ t.pos1 > 0 /\ t.pos2 = 0
        /\ t.pos1 <= Len1(text[blnum])
    BY <1>11, <1>13
  <2>3. ~ simplepat' => Compiles(patsrc, pat)'
    BY <1>2 DEF Compiles
  <2> QED
    BY <1>2, <1>13, <2>1, <2>2, <2>3 DEF TranPlace
<1> QED
  BY <1>2, <1>3, <1>4, <1>10, <1>12, <1>13, <1>14 DEF SearchInv

LEMMA GoesOn ==
  ASSUME SearchInv, tran.active, NEW t, NEW line, NEW b, BottomFits(t, line, b),
         TextFits(text'), NLines' = NLines, UNCHANGED <<patsrc, pat, simplepat>>,
         t.n \in 1 .. NLines, Len1(line) = Len1(text'[t.n]), tran' = b
  PROVE  tran.active' \in BOOLEAN /\ TranPlace(tran)'
<1>1. /\ b \in TranRec /\ b.active \in BOOLEAN /\ b.pos2 = 0 /\ b.pos1 > 0 /\ b.n \in 1 .. NLines
      /\ ~ simplepat => b.pos1 = 1 \/ (b.n = t.n /\ b.pos1 <= Len1(line))
  BY DEF BottomFits, TranRec
<1>2. patsrc # <<>> /\ (~ simplepat => Compiles(patsrc, pat))
  BY DEF SearchInv, TranPlace
<1>3. 1 <= Len1(text'[b.n])
  <2>1. text' \in Seq(Seq(Cell)) /\ b.n \in 1 .. Len(text')
    BY <1>1 DEF TextFits, NLines
  <2>2. text'[b.n] \in Seq(Cell)
    BY <2>1
  <2> QED
    BY <2>2 DEF Len1
<1>4. ~ simplepat => b.pos1 <= Len1(text'[b.n])
  BY <1>1, <1>3
<1>5. (patsrc # <<>>)' /\ (~ simplepat => Compiles(patsrc, pat))'
  BY <1>2 DEF Compiles
<1> QED
  BY <1>1, <1>4, <1>5 DEF TranPlace, Len1

LEMMA NoMatchKeeps == SearchInv /\ NoMatch => SearchInv'
<1> SUFFICES ASSUME SearchInv, NoMatch PROVE SearchInv'
  OBVIOUS
<1>1. UNCHANGED <<text, blnum, bpos, patsrc, pat, simplepat, asking, repl>> /\ asking = "none"
      /\ tran.active /\ tran.pos2 = 0
  BY DEF NoMatch, SearchInv
<1>2. tran \in TranRec /\ tran.n \in 1 .. NLines /\ tran.pos1 \in Nat /\ simplepat \in BOOLEAN
  BY <1>1 DEF SearchInv, TranPlace, TranRec, PatternKept
<1> PICK line : line = text[tran.n]
  OBVIOUS
<1>3. Len(line) \in Nat /\ Len1(line) \in Nat /\ NLines \in Nat
  BY <1>2, ThisLine
<1>4. PICK p \in Nat : p = (IF simplepat THEN Len(line) + 2 ELSE tran.pos1 + 1) /\ p > 0
  BY <1>2, <1>3
<1>5. PICK t \in TranRec : t = [tran EXCEPT !.pos1 = p]
  BY <1>2 DEF TranRec
<1>6. t.n = tran.n /\ t.pos1 = p /\ t.pos2 = 0
  BY <1>1, <1>2, <1>5 DEF TranRec
<1>7. tran' = Bottom(t, line)
  BY <1>4, <1>5 DEF NoMatch
<1>8. BottomFits(t, line, Bottom(t, line))
  BY <1>2, <1>3, <1>4, <1>6, BottomIs
<1>9. TextFits(text') /\ NLines' = NLines /\ Len1(line) = Len1(text'[t.n]) /\ t.n \in 1 .. NLines
  BY <1>1, <1>2, <1>6 DEF SearchInv, NLines
<1>10. tran.active' \in BOOLEAN /\ TranPlace(tran)'
  BY <1>1, <1>7, <1>8, <1>9, GoesOn
<1> QED
  BY <1>1, <1>10 DEF SearchInv, TextFits, CursorFits, PatternKept, NLines, Len1, PatRoom

LEMMA AtMatchKeeps == SearchInv /\ AtMatch => SearchInv'
<1> SUFFICES ASSUME SearchInv, AtMatch PROVE SearchInv'
  OBVIOUS
<1>1. UNCHANGED <<text, patsrc, pat, simplepat, asking, repl>> /\ asking = "none"
      /\ tran.active /\ tran.pos2 = 0 /\ Match(tran).pos2 > 0
  BY DEF AtMatch, SearchInv
<1>2. tran \in TranRec /\ tran.n \in 1 .. NLines
  BY <1>1 DEF SearchInv, TranPlace
<1>3. PICK p1 \in Nat : p1 = Match(tran).pos1 /\ p1 \in 1 .. Len1(text[tran.n])
  BY <1>1, MatchPlace
<1>4. PICK p2 \in Nat : p2 = Match(tran).pos2 /\ p2 \in p1 .. Len1(text[tran.n])
  BY <1>1, <1>3, MatchPlace
<1>5. PICK t : t = [tran EXCEPT !.found = TRUE, !.pos1 = p1, !.pos2 = p2]
  OBVIOUS
<1>6. t \in TranRec /\ t.n = tran.n /\ t.pos1 = p1 /\ t.pos2 = p2 /\ t.active = tran.active
  <2>1. PICK u \in TranRec : u = [tran EXCEPT !.found = TRUE]
    BY <1>2 DEF TranRec
  <2>2. t = [u EXCEPT !.pos1 = p1, !.pos2 = p2]
    BY <1>2, <1>5, <2>1 DEF TranRec
  <2>3. t \in TranRec /\ t.n = u.n /\ t.pos1 = p1 /\ t.pos2 = p2 /\ t.active = u.active
    BY <2>2 DEF TranRec
  <2>4. u.n = tran.n /\ u.active = tran.active
    BY <1>2, <2>1 DEF TranRec
  <2> QED
    BY <2>3, <2>4
<1>7. tran' = t /\ blnum' = tran.n /\ bpos' = p1
  BY <1>3, <1>4, <1>5 DEF AtMatch
<1>8. CursorFits'
  BY <1>1, <1>2, <1>3, <1>7 DEF CursorFits, NLines, Len1
<1>9. (patsrc # <<>>)' /\ (~ simplepat => Compiles(patsrc, pat))'
  BY <1>1 DEF SearchInv, TranPlace, Compiles
<1>10. p1 > 0 /\ p2 > 0
  BY <1>3, <1>4
<1>11. TranPlace(tran)' /\ tran.active' \in BOOLEAN
  BY <1>1, <1>2, <1>4, <1>6, <1>7, <1>9, <1>10 DEF TranPlace, NLines, Len1, TranRec
<1> QED
  BY <1>1, <1>8, <1>11 DEF SearchInv, TextFits, PatternKept, PatRoom

LEMMA ExitKeeps == SearchInv /\ Exit => SearchInv'
<1> SUFFICES ASSUME SearchInv, Exit PROVE SearchInv'
  OBVIOUS
<1>1. UNCHANGED <<text, blnum, bpos, patsrc, pat, simplepat, asking, repl>> /\ tran.active
      /\ tran' = [tran EXCEPT !.active = FALSE, !.pos2 = 0]
  BY DEF Exit
<1>2. tran \in TranRec
  BY <1>1 DEF SearchInv, TranPlace
<1>3. tran'.active = FALSE
  BY <1>1, <1>2 DEF TranRec
<1> QED
  BY <1>1, <1>3 DEF SearchInv, TextFits, CursorFits, PatternKept, TranPlace, NLines, Len1, PatRoom

LEMMA SkipKeeps == SearchInv /\ Skip => SearchInv'
<1> SUFFICES ASSUME SearchInv, Skip PROVE SearchInv'
  OBVIOUS
<1>1. UNCHANGED <<text, blnum, bpos, patsrc, pat, simplepat, asking, repl>> /\ asking = "none"
      /\ tran.active /\ tran.pos2 > 0
  BY DEF Skip, SearchInv
<1>2. tran \in TranRec /\ tran.n = blnum /\ blnum \in 1 .. NLines /\ simplepat \in BOOLEAN
  BY <1>1 DEF SearchInv, TranPlace, PatternKept, CursorFits
<1> PICK line : line = text[blnum]
  OBVIOUS
<1>3. Len1(line) \in Nat /\ NLines \in Nat /\ bpos \in Nat
  BY <1>2, ThisLine DEF SearchInv, CursorFits
<1>4. PICK p \in Nat : p = bpos + 1 /\ p > 0
  BY <1>3
<1>5. PICK t \in TranRec : t = [tran EXCEPT !.pos1 = p, !.pos2 = 0]
  BY <1>2 DEF TranRec
<1>6. t.n = tran.n /\ t.pos1 = p /\ t.pos2 = 0
  BY <1>2, <1>5 DEF TranRec
<1>7. tran' = Bottom(t, line)
  BY <1>4, <1>5 DEF Skip
<1>8. BottomFits(t, line, Bottom(t, line))
  BY <1>2, <1>3, <1>4, <1>6, BottomIs
<1>9. TextFits(text') /\ NLines' = NLines /\ Len1(line) = Len1(text'[t.n]) /\ t.n \in 1 .. NLines
  BY <1>1, <1>2, <1>6 DEF SearchInv, NLines
<1>10. tran.active' \in BOOLEAN /\ TranPlace(tran)'
  BY <1>1, <1>7, <1>8, <1>9, GoesOn
<1> QED
  BY <1>1, <1>10 DEF SearchInv, TextFits, CursorFits, PatternKept, NLines, Len1, PatRoom

LEMMA ReplaceKeeps == SearchInv /\ Replace => SearchInv'
<1> SUFFICES ASSUME SearchInv, Replace PROVE SearchInv'
  OBVIOUS
<1>1. UNCHANGED <<blnum, patsrc, pat, simplepat, asking, repl>> /\ asking = "none"
      /\ tran.active /\ tran.pos2 > 0
  BY DEF Replace, SearchInv
<1>2. PICK g \in BOOLEAN : \E r \in {Replaced([tran EXCEPT !.global = tran.global \/ g])} :
        /\ text' = [text EXCEPT ![blnum] = r.line]
        /\ bpos' = r.end
        /\ tran' = Bottom(r.tran, r.line)
  BY DEF Replace
<1>3. tran \in TranRec /\ tran.n = blnum /\ blnum \in 1 .. NLines /\ simplepat \in BOOLEAN
      /\ tran.pos2 \in bpos .. Len1(text[blnum])
  BY <1>1 DEF SearchInv, TranPlace, PatternKept, CursorFits
<1>4. PICK h \in BOOLEAN : h = (tran.global \/ g)
  OBVIOUS
<1>5. PICK t \in TranRec : t = [tran EXCEPT !.global = h]
  BY <1>3 DEF TranRec
<1>6. t.n = blnum /\ t.pos2 = tran.pos2
  BY <1>3, <1>5 DEF TranRec
<1>7. PICK r : r = Replaced(t) /\ text' = [text EXCEPT ![blnum] = r.line] /\ bpos' = r.end
               /\ tran' = Bottom(r.tran, r.line)
  BY <1>2, <1>4, <1>5
<1>8. /\ r.line \in Seq(Cell) /\ Len(r.line) <= MaxLen /\ r.end \in 1 .. Len1(r.line)
      /\ r.tran \in TranRec /\ r.tran.pos2 = 0 /\ r.tran.pos1 > 0 /\ r.tran.n = blnum
  <2>1. ReplacedFits(t, Replaced(t))
    BY <1>3, <1>6, ReplacedIs
  <2> QED
    BY <1>6, <1>7, <2>1 DEF ReplacedFits
<1> PICK k \in Nat : k = NLines /\ k = Len(text) /\ text \in Seq(Seq(Cell))
  BY DEF SearchInv, TextFits, NLines
<1> PICK new : new = r.line
  OBVIOUS
<1>9. text' \in Seq(Seq(Cell)) /\ Len(text') = k /\ text'[blnum] = new
      /\ \A i \in 1 .. k : i # blnum => text'[i] = text[i]
  <2> PICK R : R = Seq(Cell)
    OBVIOUS
  <2>1. text \in Seq(R) /\ new \in R /\ blnum \in 1 .. k /\ text' = [text EXCEPT ![blnum] = new]
    BY <1>3, <1>7, <1>8
  <2>2. text' \in Seq(R) /\ Len(text') = k /\ text'[blnum] = new
        /\ \A i \in 1 .. k : i # blnum => text'[i] = text[i]
    BY <2>1
  <2> QED
    BY <2>2
<1>10. NLines' = NLines
  BY <1>9 DEF NLines
<1>11. TextFits(text')
  <2>1. \A i \in 1 .. k : Len(text'[i]) <= MaxLen
    BY <1>8, <1>9 DEF SearchInv, TextFits
  <2> QED
    BY <1>9, <2>1 DEF TextFits
<1>12. CursorFits'
  BY <1>1, <1>3, <1>7, <1>8, <1>9, <1>10 DEF CursorFits, Len1
<1>13. BottomFits(r.tran, r.line, Bottom(r.tran, r.line))
  <2>1. Len1(r.line) \in Nat
    BY <1>8 DEF Len1
  <2> QED
    BY <1>3, <1>8, <2>1, BottomIs
<1>14. tran.active' \in BOOLEAN /\ TranPlace(tran)'
  <2>1. Len1(r.line) = Len1(text'[r.tran.n]) /\ r.tran.n \in 1 .. NLines
    BY <1>3, <1>8, <1>9
  <2> QED
    BY <1>1, <1>7, <1>10, <1>11, <1>13, <2>1, GoesOn
<1> QED
  BY <1>1, <1>11, <1>12, <1>14 DEF SearchInv, PatternKept, PatRoom

LEMMA SearchStep == SearchInv /\ [SearchNext]_svars => SearchInv'
<1> SUFFICES ASSUME SearchInv, [SearchNext]_svars PROVE SearchInv'
  OBVIOUS
<1>1. CASE Ask \/ GiveUp
  <2>1. UNCHANGED <<text, blnum, bpos, patsrc, pat, simplepat, repl, tran>>
        /\ (asking' # "none" => ~ tran.active)
    BY <1>1 DEF Ask, GiveUp, Waiting
  <2> QED
    BY <2>1 DEF SearchInv, TextFits, CursorFits, PatternKept, TranPlace, NLines, Len1, PatRoom
<1>2. CASE UNCHANGED svars
  BY <1>2 DEF svars, SearchInv, TextFits, CursorFits, PatternKept, TranPlace, NLines, Len1, PatRoom
<1>3. CASE Stop
  BY <1>2, <1>3 DEF Stop
<1> QED
  BY <1>1, <1>2, <1>3, BadPatternKeeps, SearchCmdKeeps, MoreCmdKeeps, TranCmdKeeps, NoMatchKeeps,
     AtMatchKeeps, ExitKeeps, SkipKeeps, ReplaceKeeps DEF SearchNext

LEMMA SearchInvKept == SearchSpec => []SearchInv
<1> QED
  BY InitSearchInv, SearchStep, PTL DEF SearchSpec

LEMMA SearchInvExact == SearchInv => MatcherExact
<1> SUFFICES ASSUME SearchInv, Accepted, ~ simplepat, NEW n \in 1 .. NLines,
                    NEW i \in 1 .. Len1(text[n])
             PROVE  AMatch(CharsIn(text[n]), i, String(pat), 1) =
                      IF Ends(patsrc, CharsIn(text[n]), i) = {} THEN 0
                      ELSE LastOf(Ends(patsrc, CharsIn(text[n]), i))
  BY DEF MatcherExact
<1> PICK line : line = CharsIn(text[n])
  OBVIOUS
<1> PICK row : row = EndsFrom(patsrc, line)[1]
  OBVIOUS
<1>1. line \in Seq(Bytes) /\ Len1(line) = Len1(text[n])
  BY ThisLine
<1>2. patsrc \in Sources /\ patsrc \in Seq(Bytes) /\ pat \in [1 .. PatRoom -> Codes \cup {Nul}]
      /\ ~ Simple(patsrc)
  BY SourceIs DEF SearchInv, PatternKept, Accepted
<1>3. Compiles(patsrc, pat)
  <2>1. GetPat(patsrc).ok /\ pat = GetPat(patsrc).pat
    BY <1>2 DEF Accepted, Good
  <2> QED
    BY <1>2, <2>1, GoodCompiles
<1> PICK p : p = Made(patsrc)[1].made
  OBVIOUS
<1>4. Made(patsrc)[1].ok /\ String(pat) = p
  BY <1>3 DEF Compiles
<1>5. Finds(MatchFrom(line, p)[1], row, Len1(line))
  BY <1>1, <1>2, <1>4, MatchFinds
<1>6. i \in 1 .. Len1(line)
  BY <1>1
<1>7. AMatch(line, i, p, 1) = Best(row[i])
  BY <1>5, <1>6 DEF Finds, AMatch
<1>8. Ends(patsrc, line, i) = row[i]
  BY DEF Ends
<1> QED
  BY <1>4, <1>7, <1>8 DEF Best

\* Wherever it is tried, the matcher of DREDIX (amatch, epat.c) says that a compiled
\* pattern matches exactly where the pattern as written does, and gives the longest
\* match: no choice a closure has is missed.
THEOREM MatcherIsExact == SearchSpec => []MatcherExact
<1> QED
  BY SearchInvKept, SearchInvExact, PTL

----------------------------------------------------------------------------
(* Searching finds the next occurrence.                                     *)

\* The source from k on, as it is, is what the line holds from i on.
Literally(s, line, k, i) ==
  /\ i + ((Len(s) + 1) - k) <= Len1(line)
  /\ \A h \in k .. Len(s) : line[(i + h) - k] = s[h]

LEMMA LiterallyNext ==
  ASSUME NEW s \in Seq(Bytes), NEW line \in Seq(Bytes), NEW k \in 1 .. Len(s), NEW i \in Nat \ {0}
  PROVE  Literally(s, line, k, i) <=>
           i <= Len(line) /\ line[i] = s[k] /\ Literally(s, line, k + 1, i + 1)
<1> PICK l \in Nat : l = Len(s)
  OBVIOUS
<1> PICK n \in Nat : n = Len(line) /\ Len1(line) = n + 1
  BY DEF Len1
<1>1. i + ((l + 1) - k) = (i + 1) + ((l + 1) - (k + 1)) /\ (i + k) - k = i
  OBVIOUS
<1>2. \A h \in k + 1 .. l : ((i + 1) + h) - (k + 1) = (i + h) - k
  OBVIOUS
<1>3. i + ((l + 1) - k) <= n + 1 => i <= n
  OBVIOUS
<1>4. (\A h \in k .. l : line[(i + h) - k] = s[h]) <=>
        line[i] = s[k] /\ \A h \in k + 1 .. l : line[(i + h) - k] = s[h]
  <2>1. \A h : h \in k .. l <=> h = k \/ h \in k + 1 .. l
    OBVIOUS
  <2> QED
    BY <1>1, <2>1
<1>5. (\A h \in k + 1 .. l : line[((i + 1) + h) - (k + 1)] = s[h]) <=>
        \A h \in k + 1 .. l : line[(i + h) - k] = s[h]
  BY <1>2
<1> QED
  BY <1>1, <1>3, <1>4, <1>5 DEF Literally

LEMMA SimpleEnds ==
  ASSUME NEW s \in Seq(Bytes), Simple(s), NEW line \in Seq(Bytes)
  PROVE  \A i \in 1 .. Len1(line) : EndsFrom(s, line)[1][i] # {} <=> Literally(s, line, 1, i)
<1> PICK l \in Nat : l = Len(s)
  OBVIOUS
<1> PICK n \in Nat : n = Len(line) /\ Len1(line) = n + 1
  BY DEF Len1
<1> PICK ends : ends = EndsFrom(s, line)
  OBVIOUS
<1> DEFINE Right(k) == \A i \in 1 .. n + 1 : ends[k][i] # {} <=> Literally(s, line, k, i)
           T == {m \in Nat : \A k \in 1 .. l + 1 : l < k + m => Right(k)}
<1>1. Right(l + 1)
  <2> SUFFICES ASSUME NEW i \in 1 .. n + 1 PROVE ends[l + 1][i] # {} /\ Literally(s, line, l + 1, i)
    OBVIOUS
  <2>1. l + 1 \in 1 .. Len(s) + 2 /\ l + 1 > Len(s)
    OBVIOUS
  <2>2. ends[l + 1] = EndsAt(s, line, ends, l + 1)
    BY <2>1, EndsIs
  <2>3. ends[l + 1][i] = {i}
    BY <2>1, <2>2 DEF EndsAt
  <2>4. i + ((l + 1) - (l + 1)) <= n + 1 /\ \A h : h \notin l + 1 .. l
    OBVIOUS
  <2> QED
    BY <2>3, <2>4 DEF Literally
<1>2. ASSUME NEW k \in 1 .. l, Right(k + 1) PROVE Right(k)
  <2> SUFFICES ASSUME NEW i \in 1 .. n + 1 PROVE ends[k][i] # {} <=> Literally(s, line, k, i)
    OBVIOUS
  <2>1. k \in 1 .. Len(s) + 2 /\ ~ k > Len(s)
    OBVIOUS
  <2>2. s[k] \notin {Star, Quest, Escape}
    <3>1. Range(s) \cap {Star, Quest, Escape} = {}
      BY DEF Simple
    <3>2. k \in DOMAIN s
      OBVIOUS
    <3>3. s[k] \in Range(s)
      BY <3>2, Zenon DEF Range
    <3> QED
      BY <3>1, <3>3, Zenon
  <2>3. PartLen(s, k) = 1
    BY <2>2 DEF PartLen
  <2>4. ends[k][i] = Meant(s, line, k, i, ends[k + 1])
    <3>1. ends[k] = EndsAt(s, line, ends, k)
      BY <2>1, EndsIs
    <3> QED
      BY <2>1, <2>3, <3>1 DEF EndsAt
  <2>5. ends[k][i] = IF i <= n /\ line[i] = s[k] THEN ends[k + 1][i + 1] ELSE {}
    <3>1. k + PartLen(s, k) - 1 = k
      BY <2>3
    <3> QED
      BY <2>2, <2>4, <3>1 DEF Meant
  <2>6. i <= n => (ends[k + 1][i + 1] # {} <=> Literally(s, line, k + 1, i + 1))
    BY <1>2
  <2>7. Literally(s, line, k, i) <=> i <= n /\ line[i] = s[k] /\ Literally(s, line, k + 1, i + 1)
    BY LiterallyNext
  <2> QED
    BY <2>5, <2>6, <2>7
<1> HIDE DEF Right
<1>3. 0 \in T
  <2>1. \A k \in 1 .. l + 1 : l < k + 0 => k = l + 1
    OBVIOUS
  <2> QED
    BY <1>1, <2>1
<1>4. ASSUME NEW m \in Nat, m \in T PROVE m + 1 \in T
  <2> SUFFICES ASSUME NEW k \in 1 .. l + 1, l < k + (m + 1) PROVE Right(k)
    OBVIOUS
  <2>1. CASE k = l + 1
    BY <1>1, <2>1
  <2>2. CASE k # l + 1
    <3>1. k \in 1 .. l /\ k + 1 \in 1 .. l + 1 /\ l < (k + 1) + m
      BY <2>2
    <3>2. Right(k + 1)
      BY <1>4, <3>1
    <3> QED
      BY <1>2, <3>1, <3>2
  <2> QED
    BY <2>1, <2>2
<1>5. l \in T
  <2> HIDE DEF T
  <2> QED
    BY <1>3, <1>4, Numbers!NumbersReached
<1>6. Right(1)
  <2>1. 1 \in 1 .. l + 1 /\ l < 1 + l
    OBVIOUS
  <2> QED
    BY <1>5, <2>1
<1> QED
  BY <1>6 DEF Right

LEMMA IsAtLiterally ==
  ASSUME NEW s \in Seq(Bytes), NEW line \in Seq(Bytes), NEW i \in Nat \ {0}
  PROVE  IsAt(s, line, i) <=> Literally(s, line, 1, i)
<1> PICK l \in Nat : l = Len(s)
  OBVIOUS
<1> PICK n \in Nat : n = Len(line) /\ Len1(line) = n + 1
  BY DEF Len1
<1>1. CASE ~ i + l <= n + 1
  BY <1>1 DEF IsAt, Literally
<1>2. CASE i + l <= n + 1
  <2>1. i + ((l + 1) - 1) <= n + 1
    BY <1>2
  <2> PICK part : part = SubSeq(line, i, i + l - 1)
    OBVIOUS
  <2>2. part \in Seq(Bytes) /\ Len(part) = l
    <3>1. CASE l = 0
      BY <3>1
    <3>2. CASE l # 0
      <4>1. i \in 1 .. n /\ i + l - 1 \in i .. n /\ (i + l - 1) - i + 1 = l
        BY <1>2, <3>2
      <4> QED
        BY <4>1
    <3> QED
      BY <3>1, <3>2
  <2>3. \A h \in 1 .. l : part[h] = line[(i + h) - 1]
    BY <1>2, <2>2
  <2>4. part = s <=> \A h \in 1 .. l : part[h] = s[h]
    BY <2>2
  <2>5. IsAt(s, line, i) <=> part = s
    BY <1>2 DEF IsAt
  <2>6. Literally(s, line, 1, i) <=> \A h \in 1 .. l : line[(i + h) - 1] = s[h]
    BY <2>1 DEF Literally
  <2> QED
    BY <2>3, <2>4, <2>5, <2>6
<1> QED
  BY <1>1, <1>2

\* Whether it is simple or compiled, what is found in a line is the first place
\* where the pattern as written occurs.
Hunts(s, a, line, p) ==
  /\ s \in Seq(Bytes) /\ s # <<>> /\ (Simple(s) \/ Compiles(s, a))
  /\ line \in Seq(Bytes) /\ p \in Nat \ {0}
FirstFound(s, a, line, p, S) ==
  S = {i \in p .. Len1(line) : EndsFrom(s, line)[1][i] # {}} =>
    FindIn(line, s, a, Simple(s), p) = IF S = {} THEN 0 ELSE FirstOf(S)

LEMMA FoundIs ==
  ASSUME NEW s, NEW a, NEW line, NEW p, NEW S, Hunts(s, a, line, p)
  PROVE  FirstFound(s, a, line, p, S)
<1> SUFFICES ASSUME S = {i \in p .. Len1(line) : EndsFrom(s, line)[1][i] # {}}
             PROVE  FindIn(line, s, a, Simple(s), p) = IF S = {} THEN 0 ELSE FirstOf(S)
  BY Zenon DEF FirstFound
<1> USE DEF Hunts
<1> PICK row : row = EndsFrom(s, line)[1]
  OBVIOUS
<1> PICK n \in Nat : n = Len(line) /\ Len1(line) = n + 1
  BY DEF Len1
<1>0. S = {i \in p .. Len1(line) : row[i] # {}}
  OBVIOUS
<1>1. CASE Simple(s)
  <2> PICK P : P = {j \in p .. Len(line) : IsAt(s, line, j)}
    OBVIOUS
  <2>1. ASSUME NEW i \in p .. n + 1 PROVE row[i] # {} <=> i <= n /\ IsAt(s, line, i)
    <3>1. i \in 1 .. Len1(line) /\ i \in Nat \ {0}
      OBVIOUS
    <3>2. row[i] # {} <=> IsAt(s, line, i)
      BY <1>1, <3>1, SimpleEnds, IsAtLiterally
    <3>3. IsAt(s, line, i) => i <= n
      <4>1. Len(s) >= 1 /\ Len(s) \in Nat
        OBVIOUS
      <4> QED
        BY <4>1 DEF IsAt
    <3> QED
      BY <3>2, <3>3
  <2>2. P = S
    BY <1>0, <2>1
  <2>3. FindIn(line, s, a, Simple(s), p) = IF P = {} THEN 0 ELSE FirstOf(P)
    BY <1>1 DEF FindIn, Positn
  <2> QED
    BY <2>2, <2>3, Zenon
<1>2. CASE ~ Simple(s)
  <2> PICK P : P = {i \in p .. Len1(line) : AMatch(line, i, String(a), 1) > 0}
    OBVIOUS
  <2>1. Made(s)[1].ok /\ String(a) = Made(s)[1].made
    BY <1>2 DEF Compiles
  <2>2. Rising(row, n + 1) /\ Finds(MatchFrom(line, String(a))[1], row, n + 1)
    BY <2>1, MatchFinds
  <2>3. ASSUME NEW i \in p .. n + 1 PROVE AMatch(line, i, String(a), 1) > 0 <=> row[i] # {}
    <3>1. i \in 1 .. n + 1
      OBVIOUS
    <3>2. AMatch(line, i, String(a), 1) = Best(row[i])
      BY <2>2, <3>1 DEF Finds, AMatch
    <3>3. row[i] \in SUBSET (1 .. n + 1)
      BY <2>2, <3>1 DEF Rising
    <3>4. Best(row[i]) \in 0 .. n + 1 /\ (Best(row[i]) = 0 <=> row[i] = {})
      <4>1. n + 1 \in Nat
        OBVIOUS
      <4> QED
        BY <3>3, <4>1, BestIs
    <3> QED
      BY <3>2, <3>4
  <2>4. P = S
    BY <1>0, <2>3
  <2>5. FindIn(line, s, a, Simple(s), p) = IF P = {} THEN 0 ELSE FirstOf(P)
    BY <1>2 DEF FindIn
  <2> QED
    BY <2>4, <2>5, Zenon
<1> QED
  BY <1>1, <1>2

LEMMA RoundAt ==
  ASSUME NEW n \in Nat \ {0}, NEW b \in 1 .. n, NEW c \in 0 .. n
  PROVE  ((b + c - 1) % n) + 1 = IF b + c <= n THEN b + c ELSE (b + c) - n
<1> PICK x \in Nat : x = b + c - 1
  OBVIOUS
<1>1. x \in 0 .. n - 1 => x % n = x
  OBVIOUS
<1>2. x \in n .. (n + n) - 1 => x % n = x - n
  OBVIOUS
<1> QED
  BY <1>1, <1>2

\* How many lines on from the cursor at b, p a place is reached, going round: what is
\* before the cursor on its own line comes last.
LineAt(n, b, c) == IF b + c <= n THEN b + c ELSE (b + c) - n
Turn(n, b, p, m, i) == IF m = b /\ i <= p THEN n ELSE IF m >= b THEN m - b ELSE (m + n) - b

Ahead(n, b, p, c, m0, i0, m, i) ==
  /\ n \in Nat \ {0} /\ b \in 1 .. n /\ p \in Nat /\ c \in 0 .. n
  /\ m0 = LineAt(n, b, c) /\ i0 \in Nat /\ (c = 0 => i0 > p)
  /\ m \in 1 .. n /\ i \in Nat
  /\ c < Turn(n, b, p, m, i) \/ (c = Turn(n, b, p, m, i) /\ i0 < i)

LEMMA TurnsBetween ==
  ASSUME NEW n, NEW b, NEW p, NEW c, NEW m0, NEW i0, NEW m, NEW i, Ahead(n, b, p, c, m0, i0, m, i)
  PROVE  OnTheWay(<<b, p>>, <<m0, i0>>, <<m, i>>)
<1> USE DEF Ahead
<1>1. PICK d \in 0 .. n : d = Turn(n, b, p, m, i) /\ m = LineAt(n, b, d)
                          /\ (d = 0 => i > p) /\ (d = n => i <= p)
  <2>1. n \in Nat \ {0} /\ b \in 1 .. n /\ p \in Nat /\ m \in 1 .. n /\ i \in Nat
    OBVIOUS
  <2> HIDE DEF Ahead
  <2>2. PICK d : d = Turn(n, b, p, m, i)
    OBVIOUS
  <2>3. d \in 0 .. n /\ m = LineAt(n, b, d) /\ (d = 0 => i > p) /\ (d = n => i <= p)
    BY <2>1, <2>2 DEF Turn, LineAt
  <2> QED
    BY <2>2, <2>3
<1>2. c < d \/ (c = d /\ i0 < i)
  BY <1>1
<1> DEFINE toLater == m0 > b \/ (m0 = b /\ i0 > p)
           zLater == m > b \/ (m = b /\ i > p)
           zTo == m > m0 \/ (m = m0 /\ i > i0)
<1>3. (toLater /\ zTo) \/ (zTo /\ ~ zLater) \/ (toLater /\ ~ zLater)
  <2>1. CASE b + c <= n
    <3>1. m0 = b + c /\ toLater
      BY <2>1 DEF LineAt
    <3>2. CASE b + d <= n
      <4>1. m = b + d
        BY <1>1, <3>2 DEF LineAt
      <4> QED
        BY <1>2, <3>1, <4>1
    <3>3. CASE b + d > n
      <4>1. m = (b + d) - n /\ m <= b /\ (m = b => d = n)
        BY <1>1, <3>3 DEF LineAt
      <4>2. ~ zLater
        BY <1>1, <4>1
      <4> QED
        BY <3>1, <4>2
    <3> QED
      BY <3>2, <3>3
  <2>2. CASE b + c > n
    <3>1. m0 = (b + c) - n /\ b + d > n
      BY <1>2, <2>2 DEF LineAt
    <3>2. m = (b + d) - n /\ m <= b /\ (m = b => d = n)
      BY <1>1, <3>1 DEF LineAt
    <3>3. ~ zLater
      BY <1>1, <3>2
    <3>4. zTo
      BY <1>2, <3>1, <3>2
    <3> QED
      BY <3>3, <3>4
  <2> QED
    BY <2>1, <2>2
<1>4. /\ Later(<<m0, i0>>, <<b, p>>) <=> toLater
      /\ Later(<<m, i>>, <<b, p>>) <=> zLater
      /\ Later(<<m, i>>, <<m0, i0>>) <=> zTo
  BY DEF Later
<1> HIDE DEF toLater, zLater, zTo, Ahead
<1> QED
  BY <1>3, <1>4 DEF OnTheWay

LEMMA SearchGoes ==
  ASSUME SearchInv, NEW s \in Sources, NEW a, Simple(s) \/ Compiles(s, a),
         Search(s, a, Simple(s)), text' = text, patsrc' = s
  PROVE  LET from == <<blnum, bpos>>
             to == <<blnum', bpos'>>
             all == Occurrences'
         IN  IF all = {} THEN to = from
             ELSE to \in all /\ \A x \in all \ {to} : OnTheWay(from, to, x)
<1>1. PICK n \in Nat \ {0} : n = NLines /\ blnum \in 1 .. n
  BY DEF SearchInv, TextFits, CursorFits, NLines
<1>2. bpos \in Nat /\ bpos > 0
  BY <1>1, ThisLine DEF SearchInv, CursorFits
<1>3. s \in Seq(Bytes) /\ s # <<>>
  BY SourceIs
<1> DEFINE row(m) == EndsFrom(s, CharsIn(text[m]))[1]
           occ(m) == {i \in 1 .. Len1(text[m]) : row(m)[i] # {}}
           all == Occurrences'
           line(c) == ((blnum + c - 1) % NLines) + 1
           found(c) == FindIn(CharsIn(text[line(c)]), s, a, Simple(s), IF c = 0 THEN bpos + 1 ELSE 1)
           hits == {c \in 0 .. NLines : found(c) > 0}
<1>4. IF hits = {} THEN UNCHANGED <<blnum, bpos>>
      ELSE blnum' = line(FirstOf(hits)) /\ bpos' = found(FirstOf(hits))
  BY DEF Search
<1>5. all = {x \in (1 .. n) \X (1 .. MaxLen + 1) : x[2] \in 1 .. Len1(text[x[1]]) /\ row(x[1])[x[2]] # {}}
  <2>1. NLines' = n
    BY <1>1 DEF NLines
  <2>2. ASSUME NEW x \in (1 .. n) \X (1 .. MaxLen + 1)
        PROVE  Occurs(x)' <=> x[2] \in 1 .. Len1(text[x[1]]) /\ row(x[1])[x[2]] # {}
    <3>1. x[1] \in 1 .. n /\ x[2] \in 1 .. MaxLen + 1 /\ MaxLen \in Nat
      BY SearchAssumption
    <3>2. Len1(text[x[1]]) \in Nat
      BY <1>1, <3>1, ThisLine
    <3>3. x[2] \in 1 .. Len1(text[x[1]]) <=> x[2] <= Len1(text[x[1]])
      BY <3>1, <3>2
    <3> QED
      BY <3>3 DEF Occurs, Ends, Len1, CharsIn
  <2> QED
    BY <2>1, <2>2 DEF Occurrences
<1> HIDE DEF row
<1>6. \A m \in 1 .. n : \A i : <<m, i>> \in all <=> i \in occ(m)
  <2> SUFFICES ASSUME NEW m \in 1 .. n, NEW i PROVE <<m, i>> \in all <=> i \in occ(m)
    OBVIOUS
  <2>1. Len1(text[m]) \in Nat /\ Len1(text[m]) <= MaxLen + 1
    <3>1. Len1(text[m]) = Len(text[m]) + 1 /\ Len(text[m]) \in Nat /\ Len(text[m]) <= MaxLen
          /\ MaxLen \in Nat
      BY <1>1, ThisLine, SearchAssumption
    <3> QED
      BY <3>1
  <2>2. i \in 1 .. Len1(text[m]) => i \in 1 .. MaxLen + 1
    <3>1. MaxLen \in Nat
      BY SearchAssumption
    <3> QED
      BY <2>1, <3>1
  <2> HIDE DEF all
  <2> QED
    BY <1>5, <2>2
<1>7. \A x \in all : \E m \in 1 .. n : \E i \in occ(m) : x = <<m, i>>
  <2> SUFFICES ASSUME NEW x \in all PROVE \E m \in 1 .. n : \E i \in occ(m) : x = <<m, i>>
    OBVIOUS
  <2> HIDE DEF all
  <2>1. PICK m \in 1 .. n, i \in 1 .. MaxLen + 1 : x = <<m, i>>
    BY <1>5
  <2> QED
    BY <1>6, <2>1
<1>8. ASSUME NEW c \in 0 .. n
      PROVE  /\ line(c) \in 1 .. n /\ line(c) = LineAt(n, blnum, c) /\ found(c) \in Nat
             /\ found(c) > 0 => found(c) \in occ(line(c)) /\ (c = 0 => found(c) > bpos)
             /\ \A i \in occ(line(c)) : (c = 0 => i > bpos) => found(c) > 0 /\ found(c) <= i
  <2>1. line(c) = LineAt(n, blnum, c) /\ line(c) \in 1 .. n
    <3>1. line(c) = LineAt(n, blnum, c)
      BY <1>1, RoundAt DEF LineAt
    <3>2. LineAt(n, blnum, c) \in 1 .. n
      BY <1>1 DEF LineAt
    <3> QED
      BY <3>1, <3>2
  <2> PICK m \in 1 .. n : m = line(c)
    BY <2>1
  <2> PICK l : l = CharsIn(text[m])
    OBVIOUS
  <2>2. l \in Seq(Bytes) /\ Len1(l) = Len1(text[m])
    BY <1>1, ThisLine
  <2>3. PICK p \in Nat \ {0} : p = IF c = 0 THEN bpos + 1 ELSE 1
    BY <1>2
  <2>4. found(c) = FindIn(l, s, a, Simple(s), p)
    BY <2>3
  <2> HIDE DEF found, line
  <2>5. PICK S : S = {i \in p .. Len1(l) : EndsFrom(s, l)[1][i] # {}}
    OBVIOUS
  <2>6. found(c) = IF S = {} THEN 0 ELSE FirstOf(S)
    <3>1. FirstFound(s, a, l, p, S)
      BY <1>3, <2>2, FoundIs DEF Hunts
    <3> QED
      BY <2>4, <2>5, <3>1, Zenon DEF FirstFound
  <2>7. row(m) = EndsFrom(s, l)[1]
    BY DEF row
  <2>8. Len1(l) \in Nat
    BY <2>2 DEF Len1
  <2>9. \A i : i \in S <=> i \in occ(m) /\ (c = 0 => i > bpos)
    BY <1>2, <2>2, <2>3, <2>5, <2>7, <2>8
  <2>10. S \in SUBSET (Nat \ {0})
    BY <2>5, <2>8
  <2> HIDE DEF occ
  <2>11. found(c) \in Nat /\ (found(c) > 0 <=> S # {})
         /\ (found(c) > 0 => found(c) \in S /\ \A y \in S : found(c) <= y)
    BY <2>6, <2>10, FirstOfSome
  <2>12. ASSUME NEW i \in occ(m), c = 0 => i > bpos PROVE found(c) > 0 /\ found(c) <= i
    <3>1. i \in S
      BY <2>9, <2>12
    <3> QED
      BY <2>11, <3>1
  <2> QED
    BY <2>1, <2>9, <2>11, <2>12
<1> DEFINE turn(m, i) == Turn(n, blnum, bpos, m, i)
<1>9. ASSUME NEW m \in 1 .. n, NEW i \in occ(m)
      PROVE  turn(m, i) \in hits /\ line(turn(m, i)) = m /\ found(turn(m, i)) <= i /\ i \in Nat
  <2>1. i \in Nat
    <3>1. Len1(text[m]) \in Nat
      BY <1>1, ThisLine
    <3> QED
      BY <3>1
  <2>2. /\ turn(m, i) \in 0 .. n /\ LineAt(n, blnum, turn(m, i)) = m
        /\ turn(m, i) = 0 => i > bpos
    BY <1>1, <1>2, <2>1 DEF Turn, LineAt
  <2> PICK d \in 0 .. n : d = turn(m, i)
    BY <2>2
  <2> HIDE DEF turn, found, line, occ
  <2>3. line(d) = m /\ found(d) > 0 /\ found(d) <= i
    BY <1>8, <2>2
  <2> QED
    BY <1>1, <2>1, <2>3
<1> HIDE DEF found, line, occ, all, turn
<1>10. CASE hits = {}
  <2>1. all = {}
    BY <1>7, <1>9, <1>10
  <2>2. <<blnum', bpos'>> = <<blnum, bpos>>
    BY <1>4, <1>10
  <2> QED
    BY <2>1, <2>2 DEF all
<1>11. CASE hits # {}
  <2>1. PICK c \in 0 .. n : c = FirstOf(hits) /\ c \in hits /\ \A d \in hits : c <= d
    <3>1. hits \in SUBSET Nat
      OBVIOUS
    <3>2. FirstOf(hits) \in hits /\ \A d \in hits : FirstOf(hits) <= d
      BY <1>11, <3>1, FirstPlace
    <3> QED
      BY <1>1, <3>2
  <2>2. blnum' = line(c) /\ bpos' = found(c) /\ found(c) > 0
    BY <1>4, <1>11, <2>1
  <2> PICK m0 \in 1 .. n : m0 = line(c)
    BY <1>8
  <2> PICK i0 \in Nat : i0 = found(c)
    BY <1>8
  <2>3. <<m0, i0>> \in all
    BY <1>6, <1>8, <2>2
  <2>4. ASSUME NEW x \in all \ {<<m0, i0>>} PROVE OnTheWay(<<blnum, bpos>>, <<m0, i0>>, x)
    <3>1. PICK m \in 1 .. n : \E i \in occ(m) : x = <<m, i>>
      BY <1>7
    <3>2. PICK i \in occ(m) : x = <<m, i>>
      BY <3>1
    <3> PICK d : d = turn(m, i)
      OBVIOUS
    <3>3. d \in hits /\ line(d) = m /\ found(d) <= i /\ i \in Nat
      BY <1>9
    <3>4. d \in 0 .. n /\ c <= d
      BY <1>1, <2>1, <3>3
    <3>5. c < d \/ (c = d /\ i0 < i)
      <4>1. CASE c = d
        <5>1. m = m0 /\ i0 <= i
          BY <3>3, <4>1
        <5>2. i # i0
          BY <3>2, <5>1
        <5> QED
          BY <3>3, <4>1, <5>1, <5>2
      <4>2. CASE c # d
        BY <3>4, <4>2
      <4> QED
        BY <4>1, <4>2
    <3>6. m0 = LineAt(n, blnum, c) /\ (c = 0 => i0 > bpos)
      BY <1>8, <2>2
    <3>7. Ahead(n, blnum, bpos, c, m0, i0, m, i)
      BY <1>1, <1>2, <3>3, <3>5, <3>6 DEF Ahead, turn
    <3> QED
      BY <3>2, <3>7, TurnsBetween
  <2>5. <<blnum', bpos'>> = <<m0, i0>>
    BY <2>2
  <2>6. all # {} /\ <<blnum', bpos'>> \in all
        /\ \A x \in all \ {<<blnum', bpos'>>} : OnTheWay(<<blnum, bpos>>, <<blnum', bpos'>>, x)
    BY <2>3, <2>4, <2>5
  <2> QED
    BY <2>6, Zenon DEF all
<1> QED
  BY <1>10, <1>11, Zenon

\* A pattern that was accepted is one that is looked for.
LEMMA AcceptedCompiles ==
  ASSUME SearchInv, Accepted
  PROVE  /\ patsrc \in Sources /\ simplepat = Simple(patsrc) /\ ~ NoPattern
         /\ Simple(patsrc) \/ Compiles(patsrc, pat)
<1>1. patsrc \in Sources /\ patsrc # <<>> /\ patsrc \in Seq(Bytes)
      /\ pat \in [1 .. PatRoom -> Codes \cup {Nul}] /\ simplepat = Simple(patsrc)
  BY SourceIs DEF SearchInv, PatternKept, Accepted
<1>2. CASE simplepat
  BY <1>1, <1>2 DEF NoPattern
<1>3. CASE ~ simplepat
  <2>1. GetPat(patsrc).ok /\ pat = GetPat(patsrc).pat
    BY <1>1, <1>3 DEF Accepted, Good
  <2>2. Compiles(patsrc, pat)
    BY <1>1, <1>3, <2>1, GoodCompiles
  <2> PICK f : f = Made(patsrc)
    OBVIOUS
  <2>3. f[1].ok /\ String(pat) = f[1].made
    BY <2>2 DEF Compiles
  <2>4. 1 \in 1 .. Len(patsrc) + 1 /\ ~ 1 > Len(patsrc)
    BY <1>1
  <2>5. f[1] = MadeAt(patsrc, f, 1)
    BY <1>1, <2>4, MadeIs
  <2>6. f[1].made = Part(patsrc, 1) \o f[1 + PartLen(patsrc, 1)].made
    BY <2>3, <2>4, <2>5 DEF MadeAt
  <2>7. ~ (patsrc[1] = Escape /\ 1 = Len(patsrc))
    BY <2>3, <2>4, <2>5 DEF MadeAt
  <2> PICK q : q = Part(patsrc, 1)
    OBVIOUS
  <2> PICK r : r = f[1 + PartLen(patsrc, 1)].made
    OBVIOUS
  <2>8. 1 + PartLen(patsrc, 1) \in 1 .. Len(patsrc) + 1 /\ q \in Seq(Codes) /\ Len(q) > 0
    <3> PICK s \in Seq(Bytes) : s = patsrc
      BY <1>1
    <3>1. 1 \in 1 .. Len(s)
      BY <2>4
    <3>2. 1 + PartLen(s, 1) \in 1 + 1 .. Len(s) + 1 /\ Part(s, 1) \in Seq(Codes) /\ Len(Part(s, 1)) \in 1 .. 2
      BY <2>7, <3>1, PartsTyped DEF PartTypes
    <3> PICK m \in 1 .. 2 : m = PartLen(s, 1)
      BY <3>1, PartsTyped DEF PartTypes
    <3> PICK k \in 1 .. 2 : k = Len(Part(s, 1))
      BY <3>2
    <3>3. k > 0 /\ 1 + m \in 1 .. Len(s) + 1
      <4> PICK l \in Nat : l = Len(s)
        OBVIOUS
      <4>1. 1 + m \in 1 + 1 .. l + 1
        BY <3>2
      <4>2. k > 0
        <5>1. \A x \in 1 .. 2 : x > 0
          OBVIOUS
        <5> QED
          BY <5>1
      <4> QED
        BY <4>1, <4>2
    <3> QED
      BY <3>2, <3>3
  <2>9. r \in Seq(Codes)
    BY <1>1, <2>8, MadeIs DEF Compiled
  <2>10. String(pat) # <<>>
    BY <2>3, <2>6, <2>8, <2>9
  <2> QED
    BY <1>1, <1>3, <2>2, <2>10, Zenon DEF NoPattern
<1> QED
  BY <1>2, <1>3

\* What SearchFinds says of a step.
FindsNext ==
  LET from == <<blnum, bpos>>
      to == <<blnum', bpos'>>
      all == Occurrences'
  IN  IF all = {} THEN to = from
      ELSE to \in all /\ \A x \in all \ {to} : OnTheWay(from, to, x)

LEMMA SearchStepFinds ==
  ASSUME SearchInv, SearchCmd \/ (MoreCmd /\ Accepted)
  PROVE  FindsNext
<1>1. CASE SearchCmd
  <2>1. PICK s \in Sources : Good(s) /\ Take(s) /\ Search(s, pat', Simple(s))
    BY <1>1 DEF SearchCmd
  <2> PICK a : a = pat'
    OBVIOUS
  <2>2. patsrc' = s /\ (Simple(s) \/ Compiles(s, a)) /\ Search(s, a, Simple(s))
    BY <2>1, TakesPattern DEF SearchInv
  <2>3. text' = text
    BY <1>1 DEF SearchCmd
  <2> QED
    BY <2>2, <2>3, SearchGoes DEF FindsNext
<1>2. CASE MoreCmd /\ Accepted
  <2>1. /\ patsrc \in Sources /\ simplepat = Simple(patsrc) /\ ~ NoPattern
        /\ Simple(patsrc) \/ Compiles(patsrc, pat)
    BY <1>2, AcceptedCompiles
  <2>2. Search(patsrc, pat, Simple(patsrc)) /\ text' = text /\ patsrc' = patsrc
    BY <1>2, <2>1 DEF MoreCmd
  <2> QED
    BY <2>1, <2>2, SearchGoes DEF FindsNext
<1> QED
  BY <1>1, <1>2

\* The search and search-again commands of DREDIX (searchcmd and morecmd, ecmdglb.c) put the
\* cursor at the next place, going round the text, where the pattern as the user wrote it
\* occurs; at the place where it was if that is the only one; and leave it if there is none.
THEOREM NextIsFound == SearchSpec => SearchFinds
<1>1. SearchInv /\ [SearchNext]_svars => [(SearchCmd \/ (MoreCmd /\ Accepted)) => FindsNext]_svars
  BY SearchStepFinds
<1>2. SearchSpec => [][(SearchCmd \/ (MoreCmd /\ Accepted)) => FindsNext]_svars
  BY <1>1, SearchInvKept, PTL DEF SearchSpec
<1> QED
  BY <1>2 DEF SearchFinds, FindsNext

----------------------------------------------------------------------------
(* HEXCOM.  Bytes and their digits.                                         *)

Chrs == (0 .. Radix - 1) \cup {Colon, CtrlZ, NewLine}
HexRec == {r \in [addr : 0 .. AddrSp - 1, tt : Octets, data : Seq(Octets)] : Len(r.data) < ByteMax}

LEMMA Bases ==
  /\ Radix \in Nat \ {0} /\ ByteMax \in Nat \ {0} /\ AddrSp \in Nat \ {0}
  /\ TPA \in Nat \ {0} /\ RecSz \in Nat \ {0} /\ WinSz \in Nat \ {0}
<1>1. \A x \in Nat \ {0} : x * x \in Nat \ {0}
  OBVIOUS
<1>2. Radix \in Nat \ {0} /\ TPA \in Nat \ {0} /\ RecSz \in Nat \ {0} /\ WinSz \in Nat \ {0}
  BY HexComAssumption
<1>3. ByteMax \in Nat \ {0}
  BY <1>1, <1>2 DEF ByteMax
<1> QED
  BY <1>1, <1>2, <1>3 DEF AddrSp

\* Two digits of base n.
LEMMA TwoDigits ==
  ASSUME NEW n \in Nat \ {0}, NEW x \in 0 .. n * n - 1
  PROVE  /\ x \div n \in 0 .. n - 1 /\ x % n \in 0 .. n - 1
         /\ (x \div n) * n + (x % n) = x
OBVIOUS

LEMMA DigitsDiffer ==
  ASSUME NEW n \in Nat \ {0}, NEW x \in 0 .. n - 1, NEW y \in 0 .. n - 1,
         NEW u \in 0 .. n - 1, NEW v \in 0 .. n - 1
  PROVE  /\ x * n + y \in 0 .. n * n - 1
         /\ x * n + y = u * n + v => x = u /\ y = v
OBVIOUS

LEMMA RoundedUp ==
  ASSUME NEW n \in Nat \ {0}, NEW x \in Nat \ {0}
  PROVE  LET y == ((x + n - 1) \div n) * n
         IN  y \in Nat /\ y >= x /\ y < x + n /\ y % n = 0
OBVIOUS

LEMMA NotAMultiple ==
  ASSUME NEW n \in Nat \ {0}, NEW x \in Int, NEW y \in Int, NEW d \in Int,
         x % n = 0, y = x + d, d # 0, -n < d, d < n
  PROVE  y % n # 0
<1> SUFFICES ASSUME y % n = 0 PROVE FALSE
  OBVIOUS
<1>0. \A z \in Int : z % n = 0 => z = n * (z \div n) /\ z \div n \in Int
  OBVIOUS
<1>1. PICK j \in Int : x = n * j
  BY <1>0
<1>2. PICK k \in Int : y = n * k
  BY <1>0
<1> PICK m \in Int : m = k - j
  OBVIOUS
<1>3. n * k = n * j + n * m
  OBVIOUS
<1> PICK a \in Int, b \in Int, c \in Int : a = n * k /\ b = n * j /\ c = n * m
  OBVIOUS
<1>4. c = d
  BY <1>1, <1>2, <1>3
<1>5. n * m < n => m < 1
  OBVIOUS
<1>6. -n < n * m => m > -1
  OBVIOUS
<1>7. m = 0 => n * m = 0
  OBVIOUS
<1> QED
  BY <1>4, <1>5, <1>6, <1>7

\* Recursion over the numbers up to n.
Climbs(g, v, n, F) == g[0] = v /\ \A k \in 1 .. n : g[k] = F[k][g[k - 1]]

LEMMA Upward ==
  ASSUME NEW V, NEW v \in V, NEW n \in Nat, NEW F \in [1 .. n -> [V -> V]]
  PROVE  \E g \in [0 .. n -> V] : Climbs(g, v, n, F)
<1> DEFINE Up(g, m) == g[0] = v /\ \A k \in 1 .. m : g[k] = F[k][g[k - 1]]
           T == {m \in Nat : m <= n => \E g \in [0 .. n -> V] : Up(g, m)}
<1>1. 0 \in T
  <2>1. [k \in 0 .. n |-> v] \in [0 .. n -> V] /\ Up([k \in 0 .. n |-> v], 0)
    OBVIOUS
  <2> HIDE DEF Up
  <2> QED
    BY <2>1
<1>2. ASSUME NEW m \in Nat, m \in T PROVE m + 1 \in T
  <2> SUFFICES ASSUME m + 1 <= n PROVE \E g \in [0 .. n -> V] : Up(g, m + 1)
    OBVIOUS
  <2>1. PICK g \in [0 .. n -> V] : Up(g, m)
    <3> HIDE DEF Up
    <3> QED
      BY <1>2
  <2>2. PICK x \in V : x = F[m + 1][g[m]]
    <3>1. m + 1 \in 1 .. n /\ m \in 0 .. n
      OBVIOUS
    <3> QED
      BY <3>1
  <2> PICK h \in [0 .. n -> V] : h = [g EXCEPT ![m + 1] = x]
    OBVIOUS
  <2>3. \A k \in 0 .. n : h[k] = IF k = m + 1 THEN x ELSE g[k]
    OBVIOUS
  <2>4. ASSUME NEW k \in 1 .. m + 1 PROVE h[k] = F[k][h[k - 1]]
    <3>1. k \in 0 .. n /\ k - 1 \in 0 .. n /\ k - 1 # m + 1
      OBVIOUS
    <3>2. h[k - 1] = g[k - 1]
      BY <2>3, <3>1
    <3>3. CASE k = m + 1
      BY <2>2, <2>3, <3>1, <3>2, <3>3
    <3>4. CASE k # m + 1
      BY <2>1, <2>3, <3>1, <3>2, <3>4
    <3> QED
      BY <3>3, <3>4
  <2>5. Up(h, m + 1)
    BY <2>1, <2>3, <2>4
  <2> HIDE DEF Up
  <2> QED
    BY <2>5
<1>3. n \in T
  <2> HIDE DEF T
  <2> QED
    BY <1>1, <1>2, Numbers!NumbersReached
<1> QED
  BY <1>3 DEF Climbs

----------------------------------------------------------------------------
(* Sums.                                                                    *)

AddsAt(s, f, k) == IF k = 0 THEN 0 ELSE f[k - 1] + s[k]
IsSum(s, f) == f = [k \in 0 .. Len(s) |-> AddsAt(s, f, k)]

SumsOf(s, f) ==
  /\ s \in Seq(Int) /\ f \in [0 .. Len(s) -> Int] /\ f[0] = 0
  /\ \A k \in 1 .. Len(s) : f[k] = f[k - 1] + s[k]

LEMMA SumIs ==
  ASSUME NEW s \in Seq(Int)
  PROVE  \E f : SumsOf(s, f) /\ Sum(s) = f[Len(s)]
<1> PICK n \in Nat : n = Len(s)
  OBVIOUS
<1> DEFINE F == [k \in 1 .. n |-> [x \in Int |-> x + s[k]]]
<1>1. F \in [1 .. n -> [Int -> Int]]
  OBVIOUS
<1>2. PICK g \in [0 .. n -> Int] : Climbs(g, 0, n, F)
  <2>1. 0 \in Int
    OBVIOUS
  <2> HIDE DEF F
  <2> QED
    BY <1>1, <2>1, Upward
<1>3. g[0] = 0 /\ \A k \in 1 .. n : g[k] = g[k - 1] + s[k]
  <2>1. \A k \in 1 .. n : k - 1 \in 0 .. n
    OBVIOUS
  <2> QED
    BY <1>2, <2>1 DEF Climbs
<1> HIDE DEF F
<1>4. IsSum(s, g)
  <2>1. \A k \in 0 .. n : g[k] = AddsAt(s, g, k)
    <3>1. \A k \in 0 .. n : k = 0 \/ k \in 1 .. n
      OBVIOUS
    <3> QED
      BY <1>3, <3>1 DEF AddsAt
  <2>2. g = [k \in 0 .. n |-> g[k]]
    OBVIOUS
  <2> QED
    BY <2>1, <2>2 DEF IsSum
<1>5. PICK f : f = CHOOSE x : IsSum(s, x)
  OBVIOUS
<1>6. Sum(s) = f[n]
  BY <1>5 DEF Sum, IsSum, AddsAt
<1>7. IsSum(s, f)
  BY <1>4, <1>5
<1>8. \A k \in 0 .. n : f[k] = AddsAt(s, f, k)
  BY <1>7 DEF IsSum
<1> DEFINE T == {k \in Nat : k <= n => f[k] = g[k]}
<1>9. 0 \in T
  BY <1>3, <1>8 DEF AddsAt
<1>10. ASSUME NEW k \in Nat, k \in T PROVE k + 1 \in T
  <2> SUFFICES ASSUME k + 1 <= n PROVE f[k + 1] = g[k + 1]
    OBVIOUS
  <2>1. k + 1 \in 1 .. n /\ k + 1 # 0 /\ (k + 1) - 1 = k /\ k + 1 \in 0 .. n
    OBVIOUS
  <2>2. f[k + 1] = f[k] + s[k + 1] /\ g[k + 1] = g[k] + s[k + 1]
    BY <1>3, <1>8, <2>1 DEF AddsAt
  <2> QED
    BY <1>10, <2>2
<1>11. n \in T
  <2> HIDE DEF T
  <2> QED
    BY <1>9, <1>10, Numbers!NumbersReached
<1>12. Sum(s) = g[n]
  BY <1>6, <1>11
<1> QED
  BY <1>3, <1>12 DEF SumsOf

\* Two sums up to m of what differs in one place at most.
Differ(s, f, t, g, m, j) ==
  /\ SumsOf(s, f) /\ SumsOf(t, g) /\ m \in Nat /\ m <= Len(s) /\ m <= Len(t)
  /\ j \in Nat /\ \A k \in 1 .. m : k # j => s[k] = t[k]

ApartBy(s, f, t, g, m, j) == f[m] - g[m] = IF j \in 1 .. m THEN s[j] - t[j] ELSE 0

LEMMA SumsDiffer ==
  ASSUME NEW s, NEW f, NEW t, NEW g, NEW m, NEW j, Differ(s, f, t, g, m, j)
  PROVE  ApartBy(s, f, t, g, m, j)
<1> USE DEF Differ, SumsOf, ApartBy
<1> DEFINE T == {k \in Nat : k <= m => f[k] - g[k] = IF j \in 1 .. k THEN s[j] - t[j] ELSE 0}
<1>1. 0 \in T
  OBVIOUS
<1>2. ASSUME NEW k \in Nat, k \in T PROVE k + 1 \in T
  <2> SUFFICES ASSUME k + 1 <= m
               PROVE  f[k + 1] - g[k + 1] = IF j \in 1 .. k + 1 THEN s[j] - t[j] ELSE 0
    OBVIOUS
  <2> PICK i \in 1 .. m : i = k + 1 /\ i - 1 = k /\ i \in 1 .. Len(s) /\ i \in 1 .. Len(t)
    OBVIOUS
  <2>1. f[i] = f[k] + s[i] /\ g[i] = g[k] + t[i]
    OBVIOUS
  <2>2. f[k] \in Int /\ g[k] \in Int
    <3>1. k \in 0 .. Len(s) /\ k \in 0 .. Len(t)
      OBVIOUS
    <3> QED
      BY <3>1
  <2>3. s[i] \in Int /\ t[i] \in Int
    OBVIOUS
  <2>4. f[k] - g[k] = IF j \in 1 .. k THEN s[j] - t[j] ELSE 0
    BY <1>2
  <2>5. CASE j = i
    <3>1. j \notin 1 .. k /\ j \in 1 .. k + 1
      BY <2>5
    <3> QED
      BY <2>1, <2>2, <2>3, <2>4, <2>5, <3>1
  <2>6. CASE j # i
    <3>1. j \in 1 .. k + 1 <=> j \in 1 .. k
      BY <2>6
    <3>2. s[i] = t[i]
      BY <2>6
    <3>3. f[i] - g[i] = f[k] - g[k]
      BY <2>1, <2>2, <2>3, <3>2
    <3> QED
      BY <2>4, <3>1, <3>3
  <2> QED
    BY <2>5, <2>6
<1>3. m \in T
  <2> HIDE DEF T
  <2> QED
    BY <1>1, <1>2, Numbers!NumbersReached
<1> QED
  BY <1>3

LEMMA SumAppended ==
  ASSUME NEW s \in Seq(Int), NEW x \in Int
  PROVE  Sum(s) \in Int /\ Sum(Append(s, x)) = Sum(s) + x
<1>1. Append(s, x) \in Seq(Int) /\ Len(Append(s, x)) = Len(s) + 1
      /\ Append(s, x)[Len(s) + 1] = x /\ \A k \in 1 .. Len(s) : Append(s, x)[k] = s[k]
  BY AppendProperties
<1>2. PICK t : t = Append(s, x)
  OBVIOUS
<1>3. PICK n \in Nat : n = Len(s)
  OBVIOUS
<1>4. t \in Seq(Int) /\ Len(t) = n + 1 /\ t[n + 1] = x /\ \A k \in 1 .. n : t[k] = s[k]
  BY <1>1, <1>2, <1>3, Zenon
<1>5. PICK f : SumsOf(s, f) /\ Sum(s) = f[Len(s)]
  BY SumIs
<1>6. PICK g : SumsOf(t, g) /\ Sum(t) = g[Len(t)]
  BY <1>4, SumIs
<1>7. f[n] - g[n] = 0
  <2>1. Differ(s, f, t, g, n, 0)
    BY <1>3, <1>4, <1>5, <1>6 DEF Differ
  <2>2. ApartBy(s, f, t, g, n, 0)
    BY <2>1, SumsDiffer
  <2> QED
    BY <1>3, <2>2 DEF ApartBy
<1>8. g[n + 1] = g[n] + x
  <2>1. n + 1 \in 1 .. Len(t) /\ (n + 1) - 1 = n
    BY <1>4
  <2> QED
    BY <1>4, <1>6, <2>1 DEF SumsOf
<1>9. f[n] \in Int /\ g[n] \in Int
  <2>1. n \in 0 .. Len(s) /\ n \in 0 .. Len(t)
    BY <1>3, <1>4
  <2> QED
    BY <1>5, <1>6, <2>1 DEF SumsOf
<1>10. Sum(s) = f[n] /\ Sum(t) = g[n + 1]
  BY <1>3, <1>4, <1>5, <1>6
<1>11. Sum(t) = Sum(s) + x /\ Sum(s) \in Int
  BY <1>7, <1>8, <1>9, <1>10
<1> QED
  BY <1>2, <1>11, Zenon

LEMMA SumChanged ==
  ASSUME NEW s \in Seq(Int), NEW t \in Seq(Int), Len(s) = Len(t), NEW j \in 1 .. Len(s),
         \A k \in 1 .. Len(s) : k # j => s[k] = t[k]
  PROVE  Sum(s) \in Int /\ Sum(t) \in Int /\ Sum(s) = Sum(t) + (s[j] - t[j])
<1>1. PICK n \in Nat : n = Len(s) /\ n = Len(t)
  OBVIOUS
<1>2. PICK f : SumsOf(s, f) /\ Sum(s) = f[Len(s)]
  BY SumIs
<1>3. PICK g : SumsOf(t, g) /\ Sum(t) = g[Len(t)]
  BY SumIs
<1>4. f[n] - g[n] = s[j] - t[j]
  <2>1. Differ(s, f, t, g, n, j)
    BY <1>1, <1>2, <1>3 DEF Differ
  <2>2. j \in 1 .. n
    BY <1>1
  <2>3. ApartBy(s, f, t, g, n, j)
    BY <2>1, SumsDiffer
  <2> QED
    BY <2>2, <2>3, Zenon DEF ApartBy
<1>5. f[n] \in Int /\ g[n] \in Int
  <2>1. n \in 0 .. Len(s) /\ n \in 0 .. Len(t)
    BY <1>1
  <2> QED
    BY <1>2, <1>3, <2>1 DEF SumsOf
<1>6. s[j] \in Int /\ t[j] \in Int
  OBVIOUS
<1>7. Sum(s) = f[n] /\ Sum(t) = g[n]
  BY <1>1, <1>2, <1>3
<1> QED
  BY <1>4, <1>5, <1>6, <1>7

----------------------------------------------------------------------------
(* Parsing.                                                                 *)

LEMMA ByteIs ==
  ASSUME NEW s, NEW i \in Nat
  PROVE  /\ Byte(s, i) \in Octets \cup {-1}
         /\ Byte(s, i) # -1 => i + 1 <= Len(s)
<1>1. CASE Digit(s, i) /\ Digit(s, i + 1)
  <2> PICK n \in Nat \ {0} : n = Radix
    BY Bases
  <2> PICK x \in 0 .. n - 1, y \in 0 .. n - 1 : x = s[i] /\ y = s[i + 1]
    BY <1>1 DEF Digit
  <2>1. x * n + y \in 0 .. n * n - 1
    BY DigitsDiffer
  <2>2. Byte(s, i) = x * n + y
    BY <1>1 DEF Byte
  <2> QED
    BY <1>1, <2>1, <2>2 DEF Digit, Octets, ByteMax
<1>2. CASE ~ (Digit(s, i) /\ Digit(s, i + 1))
  BY <1>2 DEF Byte
<1> QED
  BY <1>1, <1>2

\* Where the reading of a record ends it, and where it goes on otherwise.
Halts(s, i) ==
  \/ s[i] = CtrlZ
  \/ s[i] = Colon /\ (HeadBad(s, i + 1) \/ TypeAt(s, i + 1) = 1 \/ (TypeAt(s, i + 1) = 0 /\ DataBad(s, i + 1)))
Jump(s, i) ==
  IF s[i] # Colon THEN i + 1 ELSE IF TypeAt(s, i + 1) # 0 THEN i + 9 ELSE After(s, i + 1)

LEMMA HeadIs ==
  ASSUME NEW s, NEW p \in Nat, ~ HeadBad(s, p)
  PROVE  /\ LengthAt(s, p) \in Octets /\ TypeAt(s, p) \in Octets
         /\ Byte(s, p + 2) \in Octets /\ Byte(s, p + 4) \in Octets
         /\ p + 7 <= Len(s)
<1>1. Byte(s, p) # -1 /\ Byte(s, p + 2) # -1 /\ Byte(s, p + 4) # -1 /\ Byte(s, p + 6) # -1
  BY DEF HeadBad
<1>2. p + 2 \in Nat /\ p + 4 \in Nat /\ p + 6 \in Nat /\ (p + 6) + 1 = p + 7
  OBVIOUS
<1>3. (p + 6) + 1 <= Len(s)
  BY <1>1, <1>2, ByteIs
<1> QED
  BY <1>1, <1>2, <1>3, ByteIs DEF LengthAt, TypeAt

LEMMA AllIs ==
  ASSUME NEW s, NEW p \in Nat, ~ HeadBad(s, p), ~ DataBad(s, p)
  PROVE  p + (10 + 2 * LengthAt(s, p)) <= Len(s) + 1 \/ Len(s) \notin Nat
<1>0. Octets \subseteq Nat
  BY Bases DEF Octets
<1>1. PICK n \in Nat : n = LengthAt(s, p)
  BY <1>0, HeadIs
<1>2. PICK m \in Nat : m = n + 5
  OBVIOUS
<1>3. PICK i \in Nat : i = p + 2 * m - 2
  BY <1>2
<1>4. i + 2 = p + (10 + 2 * n)
  BY <1>2, <1>3
<1>5. Byte(s, i) # -1
  <2>1. AllAt(s, p) = [k \in 1 .. m |-> Byte(s, p + 2 * k - 2)]
    BY <1>1, <1>2 DEF AllAt
  <2>2. AllAt(s, p)[m] = Byte(s, i)
    BY <1>2, <1>3, <2>1
  <2>3. m \in DOMAIN AllAt(s, p)
    BY <1>2, <2>1
  <2>4. -1 \notin Range(AllAt(s, p))
    BY DEF DataBad
  <2> QED
    BY <2>2, <2>3, <2>4, Zenon DEF Range
<1>6. PICK l : l = Len(s)
  OBVIOUS
<1>7. i + 1 <= l
  BY <1>5, <1>6, ByteIs
<1>8. l \in Nat => p + (10 + 2 * n) <= l + 1
  BY <1>4, <1>7
<1> QED
  BY <1>1, <1>6, <1>8

LEMMA JumpsOn ==
  ASSUME NEW s \in Seq(Chrs), NEW i \in 1 .. Len(s), ~ Halts(s, i)
  PROVE  Jump(s, i) \in i + 1 .. Len(s) + 1
<1> PICK l \in Nat : l = Len(s)
  OBVIOUS
<1>1. CASE s[i] # Colon
  BY <1>1 DEF Jump
<1>2. CASE s[i] = Colon
  <2>1. ~ HeadBad(s, i + 1) /\ i + 1 \in Nat
    BY <1>2 DEF Halts
  <2> PICK n \in Octets : n = LengthAt(s, i + 1)
    BY <2>1, HeadIs
  <2>2. CASE TypeAt(s, i + 1) # 0
    <3>1. (i + 1) + 7 <= l
      BY <2>1, HeadIs
    <3> QED
      BY <1>2, <2>2, <3>1 DEF Jump
  <2>3. CASE TypeAt(s, i + 1) = 0
    <3>1. ~ DataBad(s, i + 1)
      BY <1>2, <2>3 DEF Halts
    <3>2. (i + 1) + (10 + 2 * n) <= l + 1
      BY <2>1, <3>1, AllIs
    <3>3. Jump(s, i) = (i + 1) + 10 + 2 * n
      BY <1>2, <2>3 DEF Jump, After
    <3>4. n \in Nat
      BY Bases DEF Octets
    <3> QED
      BY <3>2, <3>3, <3>4
  <2> QED
    BY <2>2, <2>3
<1> QED
  BY <1>1, <1>2

TakenAt(s, f, i) ==
  IF i > Len(s) \/ s[i] = CtrlZ THEN <<>>
  ELSE IF s[i] # Colon THEN f[i + 1]
  ELSE IF HeadBad(s, i + 1) THEN <<-1>>
  ELSE IF TypeAt(s, i + 1) = 1 THEN <<>>
  ELSE IF TypeAt(s, i + 1) # 0 THEN f[i + 9]
  ELSE IF DataBad(s, i + 1) THEN <<-1>>
  ELSE <<i + 1>> \o f[After(s, i + 1)]
IsTaken(s, f) == f = [i \in 1 .. Len(s) + 1 |-> TakenAt(s, f, i)]

\* What a place adds to what is behind it.
TakesHere(s, i, x) ==
  IF s[i] = CtrlZ THEN <<>>
  ELSE IF s[i] # Colon THEN x
  ELSE IF HeadBad(s, i + 1) THEN <<-1>>
  ELSE IF TypeAt(s, i + 1) = 1 THEN <<>>
  ELSE IF TypeAt(s, i + 1) # 0 THEN x
  ELSE IF DataBad(s, i + 1) THEN <<-1>>
  ELSE <<i + 1>> \o x

LEMMA TakenSteps ==
  ASSUME NEW s, NEW f, NEW i, ~ i > Len(s)
  PROVE  TakenAt(s, f, i) = TakesHere(s, i, IF Halts(s, i) THEN <<>> ELSE f[Jump(s, i)])
<1>1. CASE Halts(s, i)
  BY <1>1, Zenon DEF TakenAt, TakesHere, Halts, Jump
<1>2. CASE ~ Halts(s, i)
  BY <1>2, Zenon DEF TakenAt, TakesHere, Halts, Jump
<1> QED
  BY <1>1, <1>2

LEMMA TakenIs ==
  ASSUME NEW s \in Seq(Chrs)
  PROVE  /\ \A i \in 1 .. Len(s) + 1 : Taken(s)[i] \in Seq(Int)
         /\ \A i \in 1 .. Len(s) + 1 : Taken(s)[i] = TakenAt(s, Taken(s), i)
<1> PICK l \in Nat : l = Len(s)
  OBVIOUS
<1> PICK V : V = Seq(Int)
  OBVIOUS
<1>0. <<>> \in V /\ <<-1>> \in V
  OBVIOUS
<1> DEFINE next == [i \in 1 .. l |-> IF Halts(s, i) THEN l + 1 ELSE Jump(s, i)]
           F == [i \in 1 .. l |-> [x \in V |-> TakesHere(s, i, IF Halts(s, i) THEN <<>> ELSE x)]]
<1>1. Leads(next, l, l + 1)
  <2>1. \A i \in 1 .. l : ~ Halts(s, i) => Jump(s, i) \in i + 1 .. l + 1
    BY JumpsOn
  <2> QED
    BY <2>1 DEF Leads
<1>2. F \in [1 .. l -> [V -> V]]
  <2>1. ASSUME NEW i \in 1 .. l, NEW x \in V PROVE TakesHere(s, i, x) \in V
    <3>1. <<i + 1>> \o x \in V
      OBVIOUS
    <3> QED
      BY <1>0, <2>1, <3>1, Zenon DEF TakesHere
  <2> QED
    BY <1>0, <2>1
<1>3. PICK g \in [1 .. l + 1 -> V] : Follows(g, <<>>, l, l + 1, next, F)
  <2> HIDE DEF F, next
  <2> QED
    BY <1>0, <1>1, <1>2, Downward
<1>4. ASSUME NEW i \in 1 .. l + 1 PROVE g[i] = TakenAt(s, g, i)
  <2>1. CASE i = l + 1
    <3>1. g[i] = <<>> /\ i > Len(s)
      BY <1>3, <2>1 DEF Follows
    <3> QED
      BY <3>1, Zenon DEF TakenAt
  <2>2. CASE i # l + 1
    <3>1. i \in 1 .. l /\ ~ i > Len(s)
      BY <2>2
    <3>2. next[i] \in 1 .. l + 1
      BY <1>1, <3>1 DEF Leads
    <3>3. g[i] = F[i][g[next[i]]] /\ g[next[i]] \in V
      <4> HIDE DEF F, next
      <4> QED
        BY <1>3, <3>1, <3>2 DEF Follows
    <3>4. g[i] = TakesHere(s, i, IF Halts(s, i) THEN <<>> ELSE g[next[i]])
      <4> HIDE DEF next
      <4> QED
        BY <3>1, <3>3
    <3>5. ~ Halts(s, i) => next[i] = Jump(s, i)
      BY <3>1
    <3> HIDE DEF next
    <3>6. g[i] = TakesHere(s, i, IF Halts(s, i) THEN <<>> ELSE g[Jump(s, i)])
      BY <3>4, <3>5, Zenon
    <3> QED
      BY <3>1, <3>6, TakenSteps
  <2> QED
    BY <2>1, <2>2
<1>5. IsTaken(s, g)
  <2>1. g = [i \in 1 .. l + 1 |-> g[i]]
    OBVIOUS
  <2> QED
    BY <1>4, <2>1 DEF IsTaken
<1>6. Taken(s) = CHOOSE f : IsTaken(s, f)
  BY DEF Taken, IsTaken, TakenAt
<1>7. IsTaken(s, Taken(s))
  BY <1>5, <1>6
<1>8. \A i \in 1 .. l + 1 : Taken(s)[i] = TakenAt(s, Taken(s), i)
  BY <1>7 DEF IsTaken
<1>9. \A i \in 1 .. l + 1 : Taken(s)[i] = g[i]
  <2> PICK f : f = Taken(s)
    OBVIOUS
  <2> PICK m \in Nat : m = l + 1
    OBVIOUS
  <2>1. \A i \in l + 1 .. m : f[i] = g[i]
    <3>1. m > Len(s) /\ m \in 1 .. l + 1 /\ \A i \in l + 1 .. m : i = m
      OBVIOUS
    <3>2. f[m] = TakenAt(s, f, m) /\ g[m] = TakenAt(s, g, m)
      BY <1>4, <1>8, <3>1
    <3>3. f[m] = <<>> /\ g[m] = <<>>
      BY <3>1, <3>2, Zenon DEF TakenAt
    <3> QED
      BY <3>1, <3>3
  <2>2. ASSUME NEW i \in 1 .. l, f[next[i]] = g[next[i]] PROVE f[i] = g[i]
    <3>1. f[i] = TakenAt(s, f, i) /\ g[i] = TakenAt(s, g, i) /\ ~ i > Len(s)
      BY <1>4, <1>8
    <3>2. ~ Halts(s, i) => next[i] = Jump(s, i)
      OBVIOUS
    <3> HIDE DEF next
    <3>3. /\ f[i] = TakesHere(s, i, IF Halts(s, i) THEN <<>> ELSE f[Jump(s, i)])
          /\ g[i] = TakesHere(s, i, IF Halts(s, i) THEN <<>> ELSE g[Jump(s, i)])
      BY <3>1, TakenSteps
    <3> QED
      BY <2>2, <3>2, <3>3, Zenon
  <2> HIDE DEF next, F
  <2>3. Leads(next, l, m)
    BY <1>1
  <2>4. Agree(f, g, l, m, next)
    BY <2>1, <2>2 DEF Agree
  <2>5. \A i \in 1 .. m : f[i] = g[i]
    BY <2>3, <2>4, DownwardOnce
  <2> QED
    BY <2>5
<1> QED
  BY <1>8, <1>9

----------------------------------------------------------------------------
(* Records.                                                                 *)

LEMMA Multiple ==
  ASSUME NEW n \in Nat \ {0}, NEW j \in Int, NEW y \in Int, y = j * n
  PROVE  y % n = 0
<1> PICK z \in 0 .. n - 1 : z = y % n
  OBVIOUS
<1> PICK q \in Int : q = y \div n
  OBVIOUS
<1>1. y = n * q + z
  OBVIOUS
<1> PICK m \in Int : m = j - q
  OBVIOUS
<1>2. n * m = n * j - n * q
  OBVIOUS
<1>3. n * m = z
  BY <1>1, <1>2
<1>4. (m >= 1 => n * m >= n) /\ (m <= -1 => n * m <= -n) /\ (m = 0 => n * m = 0)
  OBVIOUS
<1> QED
  BY <1>3, <1>4

LEMMA Completes ==
  ASSUME NEW n \in Nat \ {0}, NEW x \in Int
  PROVE  \E c \in 0 .. n - 1 : (x + c) % n = 0
<1>0. PICK c \in 0 .. n - 1 : c = (-x) % n
  OBVIOUS
<1>1. PICK k \in Int : k = (-x) \div n
  OBVIOUS
<1>2. -x = k * n + c
  BY <1>0, <1>1
<1>3. PICK j \in Int : j = -k
  OBVIOUS
<1>4. PICK y \in Int : y = x + c
  OBVIOUS
<1>5. y = j * n
  BY <1>2, <1>3, <1>4
<1>6. y % n = 0
  BY <1>5, Multiple
<1> QED
  BY <1>4, <1>6

Right(r, b) ==
  /\ b \in Seq(Octets) /\ Len(b) = Len(r.data) + 5
  /\ b[1] = Len(r.data) /\ b[2] * ByteMax + b[3] = r.addr /\ b[4] = r.tt
  /\ \A k \in 1 .. Len(r.data) : b[4 + k] = r.data[k]
  /\ Sum(b) % ByteMax = 0

LEMMA RecordIs ==
  ASSUME NEW r \in HexRec
  PROVE  /\ r.data \in Seq(Octets) /\ Len(r.data) \in Octets /\ r.tt \in Octets
         /\ r.addr \in 0 .. AddrSp - 1
  BY Bases DEF HexRec, Octets

LEMMA BytesAre ==
  ASSUME NEW r \in HexRec
  PROVE  Right(r, InBytes(r))
<1> PICK n \in Nat \ {0} : n = ByteMax
  BY Bases
<1>1. Octets = 0 .. n - 1 /\ AddrSp = n * n
  BY DEF Octets, AddrSp
<1> PICK d \in Seq(Octets) : d = r.data
  BY RecordIs
<1> PICK l \in Nat : l = Len(d)
  OBVIOUS
<1> PICK a \in 0 .. n * n - 1 : a = r.addr
  BY <1>1, RecordIs
<1>2. l \in Octets /\ r.tt \in Octets
  BY RecordIs
<1>3. a \div n \in Octets /\ a % n \in Octets /\ (a \div n) * n + (a % n) = a
  BY <1>1, TwoDigits
<1> PICK h : h = <<l, a \div n, a % n, r.tt>>
  OBVIOUS
<1>4. h \in Seq(Octets) /\ Len(h) = 4 /\ h[1] = l /\ h[2] = a \div n /\ h[3] = a % n /\ h[4] = r.tt
  BY <1>2, <1>3
<1> PICK u : u = h \o d
  OBVIOUS
<1>5. u \in Seq(Octets) /\ Len(u) = l + 4
      /\ (\A k \in 1 .. 4 : u[k] = h[k]) /\ \A k \in 1 .. l : u[4 + k] = d[k]
  BY <1>4
<1>6. Summed(r) = u
  BY DEF Summed
<1>7. u \in Seq(Int)
  BY <1>1, <1>5
<1> PICK x \in Int : x = Sum(u)
  <2>1. 0 \in Int
    OBVIOUS
  <2> QED
    BY <1>7, <2>1, SumAppended
<1> PICK c : c = Check(r)
  OBVIOUS
<1>8. c \in Octets /\ (x + c) % n = 0
  <2>1. \E z \in Octets : (x + z) % n = 0
    BY <1>1, Completes
  <2>2. c = CHOOSE z \in Octets : (x + z) % n = 0
    BY <1>6 DEF Check
  <2> QED
    BY <2>1, <2>2, Zenon
<1>9. c \in Int
  BY <1>1, <1>8
<1> PICK b : b = Append(u, c)
  OBVIOUS
<1>10. InBytes(r) = b
  BY <1>6, Zenon DEF InBytes
<1>11. b \in Seq(Octets) /\ Len(b) = l + 5 /\ \A k \in 1 .. l + 4 : b[k] = u[k]
  BY <1>5, <1>8, AppendProperties
<1>12. Sum(b) = x + c
  BY <1>7, <1>9, SumAppended
<1>13. b[1] = l /\ b[2] = a \div n /\ b[3] = a % n /\ b[4] = r.tt
  BY <1>4, <1>5, <1>11
<1>14. \A k \in 1 .. l : b[4 + k] = d[k]
  BY <1>5, <1>11
<1>15. Sum(b) % n = 0
  BY <1>8, <1>12
<1>16. b[2] * n + b[3] = a
  BY <1>3, <1>13
<1> QED
  BY <1>10, <1>11, <1>13, <1>14, <1>15, <1>16, Zenon DEF Right

\* Its characters.
Written(b, e) ==
  /\ e \in Seq(Chrs) /\ Len(e) = 2 * Len(b) + 2 /\ e[1] = Colon /\ e[2 * Len(b) + 2] = NewLine
  /\ \A k \in 2 .. 2 * Len(b) + 1 : e[k] \in 0 .. Radix - 1
  /\ \A k \in 1 .. Len(b) : e[2 * k] * Radix + e[2 * k + 1] = b[k]

LEMMA EncodeIs ==
  ASSUME NEW r \in HexRec
  PROVE  Written(InBytes(r), Encode(r))
<1> PICK b \in Seq(Octets) : b = InBytes(r)
  BY BytesAre DEF Right
<1> PICK l \in Nat : l = Len(b)
  OBVIOUS
<1> PICK n \in Nat \ {0} : n = Radix
  BY Bases
<1> PICK e : e = Encode(r)
  OBVIOUS
<1>1. e = [k \in 1 .. 2 * l + 2 |->
             IF k = 1 THEN Colon ELSE IF k = 2 * l + 2 THEN NewLine
             ELSE IF k % 2 = 0 THEN b[k \div 2] \div n ELSE b[k \div 2] % n]
  BY DEF Encode
<1>2. ASSUME NEW k \in 1 .. l
      PROVE  b[k] \in Nat /\ b[k] \div n \in 0 .. n - 1 /\ b[k] % n \in 0 .. n - 1
             /\ (b[k] \div n) * n + (b[k] % n) = b[k]
  <2> PICK x \in 0 .. n * n - 1 : x = b[k]
    BY DEF Octets, ByteMax
  <2>1. x \div n \in 0 .. n - 1 /\ x % n \in 0 .. n - 1 /\ (x \div n) * n + (x % n) = x
    BY TwoDigits
  <2>2. x \in Nat
    OBVIOUS
  <2> QED
    BY <2>1, <2>2
<1>3. ASSUME NEW k \in 1 .. l
      PROVE  e[2 * k] = b[k] \div n /\ e[2 * k + 1] = b[k] % n
  <2>1. 2 * k \in 1 .. 2 * l + 2 /\ 2 * k + 1 \in 1 .. 2 * l + 2
        /\ 2 * k # 1 /\ 2 * k + 1 # 1 /\ 2 * k # 2 * l + 2 /\ 2 * k + 1 # 2 * l + 2
        /\ (2 * k) % 2 = 0 /\ (2 * k + 1) % 2 # 0 /\ (2 * k) \div 2 = k /\ (2 * k + 1) \div 2 = k
    OBVIOUS
  <2> QED
    BY <1>1, <2>1
<1>4. ASSUME NEW k \in 2 .. 2 * l + 1 PROVE e[k] \in 0 .. n - 1
  <2>1. PICK j \in 1 .. l : k = 2 * j \/ k = 2 * j + 1
    <3>1. k \div 2 \in 1 .. l /\ (k = 2 * (k \div 2) \/ k = 2 * (k \div 2) + 1)
      OBVIOUS
    <3> QED
      BY <3>1
  <2> QED
    BY <1>2, <1>3, <2>1
<1>5. e[1] = Colon /\ e[2 * l + 2] = NewLine /\ Len(e) = 2 * l + 2
  BY <1>1
<1>6. e \in Seq(Chrs)
  <2>1. ASSUME NEW k \in 1 .. 2 * l + 2 PROVE e[k] \in Chrs
    <3>1. k = 1 \/ k = 2 * l + 2 \/ k \in 2 .. 2 * l + 1
      OBVIOUS
    <3> QED
      BY <1>4, <1>5, <3>1 DEF Chrs
  <2>2. e = [k \in 1 .. 2 * l + 2 |-> e[k]]
    BY <1>1
  <2>3. [k \in 1 .. 2 * l + 2 |-> e[k]] \in Seq(Chrs)
    BY <2>1
  <2> QED
    BY <2>2, <2>3, Zenon
<1>7. \A k \in 1 .. l : e[2 * k] * n + e[2 * k + 1] = b[k]
  BY <1>2, <1>3
<1> QED
  BY <1>4, <1>5, <1>6, <1>7 DEF Written

\* A record behind place p of s, with a wrong digit at most, at o.
Near(s, p, r, o) ==
  /\ p \in Nat /\ o \in Nat /\ p + Len(Encode(r)) <= Len(s)
  /\ \A k \in 1 .. Len(Encode(r)) : p + k # o => s[p + k] = Encode(r)[k]
  /\ \A k \in 2 .. Len(Encode(r)) - 1 : s[p + k] \in 0 .. Radix - 1

Distinct(n, x, y, u, v) ==
  x * n + y \in 0 .. n * n - 1 /\ (x * n + y = u * n + v => x = u /\ y = v)

InByte(s, p, r, o, k) ==
  /\ Byte(s, p + 2 * k) \in Octets
  /\ o \notin {p + 2 * k, p + 2 * k + 1} => Byte(s, p + 2 * k) = InBytes(r)[k]
  /\ o \in {p + 2 * k, p + 2 * k + 1} /\ s[o] # Encode(r)[o - p] => Byte(s, p + 2 * k) # InBytes(r)[k]

LEMMA NearBytes ==
  ASSUME NEW s \in Seq(Chrs), NEW p, NEW r \in HexRec, NEW o, Near(s, p, r, o),
         NEW k \in 1 .. Len(InBytes(r))
  PROVE  InByte(s, p, r, o, k)
<1> PICK n \in Nat \ {0} : n = Radix
  BY Bases
<1>0. \A x, y, u, v \in 0 .. n - 1 : Distinct(n, x, y, u, v)
  BY DigitsDiffer DEF Distinct
<1> PICK b \in Seq(Octets) : b = InBytes(r)
  BY BytesAre DEF Right
<1> PICK l \in Nat : l = Len(b)
  OBVIOUS
<1> PICK e \in Seq(Chrs) : e = Encode(r)
  BY EncodeIs DEF Written
<1>1. Len(e) = 2 * l + 2 /\ (\A j \in 2 .. 2 * l + 1 : e[j] \in 0 .. n - 1)
      /\ \A j \in 1 .. l : e[2 * j] * n + e[2 * j + 1] = b[j]
  BY EncodeIs DEF Written
<1>2. p \in Nat /\ o \in Nat /\ p + (2 * l + 2) <= Len(s)
      /\ (\A j \in 1 .. 2 * l + 2 : p + j # o => s[p + j] = e[j])
      /\ \A j \in 2 .. 2 * l + 1 : s[p + j] \in 0 .. n - 1
  BY <1>1 DEF Near
<1> PICK i \in Nat, j \in Nat : i = 2 * k /\ j = 2 * k + 1
  OBVIOUS
<1>3. i \in 2 .. 2 * l + 1 /\ j \in 2 .. 2 * l + 1 /\ i \in 1 .. 2 * l + 2 /\ j \in 1 .. 2 * l + 2 /\ j = i + 1
      /\ p + j = (p + i) + 1 /\ p + i <= Len(s) /\ p + j <= Len(s)
  BY <1>2
<1> PICK x \in 0 .. n - 1, y \in 0 .. n - 1 : x = s[p + i] /\ y = s[p + j]
  BY <1>2, <1>3
<1> PICK u \in 0 .. n - 1, v \in 0 .. n - 1 : u = e[i] /\ v = e[j]
  BY <1>1, <1>3
<1>4. Byte(s, p + 2 * k) = x * n + y
  BY <1>2, <1>3 DEF Byte, Digit
<1>5. b[k] = u * n + v
  BY <1>1
<1>6. x * n + y \in Octets /\ (x * n + y = u * n + v => x = u /\ y = v)
  <2>1. x * n + y \in 0 .. n * n - 1 /\ (x * n + y = u * n + v => x = u /\ y = v)
    <3>1. Distinct(n, x, y, u, v)
      BY <1>0, Zenon
    <3> QED
      BY <3>1, Zenon DEF Distinct
  <2>2. Octets = 0 .. n * n - 1
    BY DEF Octets, ByteMax
  <2> QED
    BY <2>1, <2>2, Zenon
<1>7. o \notin {p + i, p + j} => x = u /\ y = v
  BY <1>2, <1>3
<1>8. o \in {p + i, p + j} /\ s[o] # e[o - p] => x # u \/ y # v
  <2>1. o = p + i => o - p = i
    BY <1>2
  <2>2. o = p + j => o - p = j
    BY <1>2
  <2> QED
    BY <2>1, <2>2
<1>9. p + 2 * k = p + i /\ p + 2 * k + 1 = p + j
  BY <1>2
<1> QED
  BY <1>4, <1>5, <1>6, <1>7, <1>8, <1>9 DEF InByte

LEMMA OctetsAre == Octets \subseteq Nat /\ Octets \subseteq Int /\ -1 \notin Octets
  BY Bases DEF Octets

LEMMA SeqOctets == \A z \in Seq(Octets) : z \in Seq(Int)
<1> TAKE z \in Seq(Octets)
<1>0. \A k \in 1 .. Len(z) : z[k] \in Octets
  OBVIOUS
<1>1. \A k \in 1 .. Len(z) : z[k] \in Int
  BY <1>0, OctetsAre, Zenon
<1>2. z = [k \in 1 .. Len(z) |-> z[k]] /\ Len(z) \in Nat
  OBVIOUS
<1>3. [k \in 1 .. Len(z) |-> z[k]] \in Seq(Int)
  BY <1>1, <1>2
<1> QED
  BY <1>2, <1>3, Zenon

LEMMA EncodedLength ==
  ASSUME NEW r \in HexRec
  PROVE  /\ Len(r.data) \in Nat /\ Len(InBytes(r)) = Len(r.data) + 5
         /\ Len(Encode(r)) = 2 * Len(r.data) + 12
<1> PICK n \in Nat : n = Len(r.data)
  BY RecordIs, OctetsAre
<1>1. Len(InBytes(r)) = n + 5
  BY BytesAre DEF Right
<1>2. Len(Encode(r)) = 2 * Len(InBytes(r)) + 2
  BY EncodeIs DEF Written
<1> QED
  BY <1>1, <1>2

\* Its length and its type are as meant.
HeadRead(s, p, r) ==
  /\ s[p + 1] = Colon /\ ~ HeadBad(s, p + 2)
  /\ LengthAt(s, p + 2) = Len(r.data) /\ TypeAt(s, p + 2) = r.tt

HeadKept(p, o) == o \notin {p + 1, p + 2, p + 3, p + 8, p + 9}

LEMMA HeadIsRead ==
  ASSUME NEW s \in Seq(Chrs), NEW p, NEW r \in HexRec, NEW o, Near(s, p, r, o), HeadKept(p, o)
  PROVE  HeadRead(s, p, r)
<1> PICK q \in Nat : q = p
  BY DEF Near
<1> PICK n \in Nat : n = Len(r.data)
  BY EncodedLength
<1>1. Len(InBytes(r)) = n + 5 /\ Len(Encode(r)) = 2 * n + 12
  BY EncodedLength
<1>2. 1 \in 1 .. n + 5 /\ 2 \in 1 .. n + 5 /\ 3 \in 1 .. n + 5 /\ 4 \in 1 .. n + 5
  OBVIOUS
<1>3. InByte(s, q, r, o, 1) /\ InByte(s, q, r, o, 2) /\ InByte(s, q, r, o, 3) /\ InByte(s, q, r, o, 4)
  BY <1>1, <1>2, NearBytes
<1>4. /\ q + 2 * 1 = q + 2 /\ q + 2 * 1 + 1 = q + 3
      /\ q + 2 * 2 = (q + 2) + 2 /\ q + 2 * 3 = (q + 2) + 4
      /\ q + 2 * 4 = (q + 2) + 6 /\ q + 2 * 4 = q + 8 /\ q + 2 * 4 + 1 = q + 9
  OBVIOUS
<1>5. /\ Byte(s, q + 2) \in Octets /\ Byte(s, (q + 2) + 2) \in Octets
      /\ Byte(s, (q + 2) + 4) \in Octets /\ Byte(s, (q + 2) + 6) \in Octets
  BY <1>3, <1>4 DEF InByte
<1>6. Byte(s, q + 2) = InBytes(r)[1] /\ Byte(s, (q + 2) + 6) = InBytes(r)[4]
  BY <1>3, <1>4 DEF InByte, HeadKept
<1>7. InBytes(r)[1] = n /\ InBytes(r)[4] = r.tt
  BY BytesAre DEF Right
<1>8. s[q + 1] = Colon
  <2>1. Encode(r)[1] = Colon
    BY EncodeIs DEF Written
  <2>2. 1 \in 1 .. Len(Encode(r)) /\ q + 1 # o
    BY <1>1 DEF HeadKept
  <2> QED
    BY <2>1, <2>2 DEF Near
<1>9. ~ HeadBad(s, q + 2)
  BY <1>5, OctetsAre, Zenon DEF HeadBad
<1> QED
  BY <1>6, <1>7, <1>8, <1>9 DEF HeadRead, LengthAt, TypeAt

LEMMA AllRead ==
  ASSUME NEW s \in Seq(Chrs), NEW p, NEW r \in HexRec, NEW o, Near(s, p, r, o), HeadKept(p, o)
  PROVE  /\ AllAt(s, p + 2) = [k \in 1 .. Len(r.data) + 5 |-> Byte(s, p + 2 * k)]
         /\ AllAt(s, p + 2) \in Seq(Octets) /\ Len(AllAt(s, p + 2)) = Len(r.data) + 5
<1> PICK q \in Nat : q = p
  BY DEF Near
<1> PICK n \in Nat : n = Len(r.data)
  BY EncodedLength
<1>1. LengthAt(s, q + 2) = n
  BY HeadIsRead DEF HeadRead
<1>2. \A k \in 1 .. n + 5 : q + 2 + 2 * k - 2 = q + 2 * k
  OBVIOUS
<1>3. AllAt(s, q + 2) = [k \in 1 .. n + 5 |-> Byte(s, q + 2 * k)]
  BY <1>1, <1>2 DEF AllAt
<1>4. \A k \in 1 .. n + 5 : Byte(s, q + 2 * k) \in Octets
  <2>1. \A k \in 1 .. n + 5 : InByte(s, p, r, o, k)
    BY EncodedLength, NearBytes
  <2> QED
    BY <2>1 DEF InByte
<1>5. [k \in 1 .. n + 5 |-> Byte(s, q + 2 * k)] \in Seq(Octets)
      /\ Len([k \in 1 .. n + 5 |-> Byte(s, q + 2 * k)]) = n + 5
  BY <1>4
<1> QED
  BY <1>3, <1>5

\* A record without a wrong digit is read as it was meant.
RecordRead(s, p, r) ==
  /\ AddrAt(s, p + 2) = r.addr /\ DataAt(s, p + 2) = r.data
  /\ DataBad(s, p + 2) <=> r.data # <<>> /\ r.addr < TPA

LEMMA RecordIsRead ==
  ASSUME NEW s \in Seq(Chrs), NEW p, NEW r \in HexRec, NEW o, Near(s, p, r, o),
         o \notin p + 1 .. p + Len(Encode(r))
  PROVE  RecordRead(s, p, r)
<1> PICK q \in Nat : q = p
  BY DEF Near
<1> PICK n \in Nat : n = Len(r.data)
  BY EncodedLength
<1>1. Len(InBytes(r)) = n + 5 /\ Len(Encode(r)) = 2 * n + 12
  BY EncodedLength
<1>2. HeadKept(p, o) /\ o \notin q + 1 .. q + (2 * n + 12)
  BY <1>1 DEF HeadKept
<1> PICK b \in Seq(Octets) : b = InBytes(r)
  BY BytesAre DEF Right
<1>3. ASSUME NEW k \in 1 .. n + 5 PROVE Byte(s, q + 2 * k) = b[k]
  <2>1. InByte(s, p, r, o, k)
    BY <1>1, NearBytes
  <2>2. o \notin {q + 2 * k, q + 2 * k + 1}
    BY <1>2
  <2> QED
    BY <2>1, <2>2, Zenon DEF InByte
<1>4. /\ Len(b) = n + 5 /\ b[2] * ByteMax + b[3] = r.addr
      /\ (\A k \in 1 .. n : b[4 + k] = r.data[k]) /\ Sum(b) % ByteMax = 0
  BY BytesAre DEF Right
<1>5. AddrAt(s, q + 2) = r.addr
  <2>1. 2 \in 1 .. n + 5 /\ 3 \in 1 .. n + 5 /\ q + 2 * 2 = (q + 2) + 2 /\ q + 2 * 3 = (q + 2) + 4
    OBVIOUS
  <2>2. Byte(s, (q + 2) + 2) = b[2] /\ Byte(s, (q + 2) + 4) = b[3]
    BY <1>3, <2>1
  <2> QED
    BY <1>4, <2>2, Zenon DEF AddrAt
<1>6. LengthAt(s, q + 2) = n
  BY <1>2, HeadIsRead DEF HeadRead
<1>7. DataAt(s, q + 2) = r.data
  <2>1. ASSUME NEW k \in 1 .. n PROVE Byte(s, q + 2 + 6 + 2 * k) = r.data[k]
    <3>1. 4 + k \in 1 .. n + 5 /\ q + 2 + 6 + 2 * k = q + 2 * (4 + k)
      OBVIOUS
    <3> QED
      BY <1>3, <1>4, <3>1
  <2>2. DataAt(s, q + 2) = [k \in 1 .. n |-> r.data[k]]
    BY <1>6, <2>1 DEF DataAt
  <2>3. r.data = [k \in 1 .. n |-> r.data[k]]
    <3> PICK d \in Seq(Octets) : d = r.data
      BY RecordIs
    <3>1. d = [k \in 1 .. Len(d) |-> d[k]]
      OBVIOUS
    <3> QED
      BY <3>1
  <2> QED
    BY <2>2, <2>3
<1>8. AllAt(s, q + 2) = b
  <2>1. AllAt(s, q + 2) = [k \in 1 .. n + 5 |-> Byte(s, q + 2 * k)]
    <3>1. AllAt(s, p + 2) = [k \in 1 .. Len(r.data) + 5 |-> Byte(s, p + 2 * k)]
      BY <1>2, AllRead
    <3> QED
      BY <3>1, Zenon
  <2>2. b = [k \in 1 .. n + 5 |-> b[k]]
    BY <1>4
  <2>3. [k \in 1 .. n + 5 |-> Byte(s, q + 2 * k)] = [k \in 1 .. n + 5 |-> b[k]]
    BY <1>3
  <2> QED
    BY <2>1, <2>2, <2>3, Zenon
<1>9. -1 \notin Range(b)
  BY <1>4, OctetsAre DEF Range
<1>10. n > 0 <=> r.data # <<>>
  BY RecordIs
<1>11. DataBad(s, q + 2) <=> r.data # <<>> /\ r.addr < TPA
  BY <1>4, <1>5, <1>6, <1>8, <1>9, <1>10, Zenon DEF DataBad
<1> QED
  BY <1>5, <1>7, <1>11 DEF RecordRead

\* A wrong digit behind the type or in the address is found.
OddDigit(s, p, r, o) ==
  /\ o \in p + 4 .. p + 7 \/ o \in p + 10 .. p + Len(Encode(r)) - 1
  /\ s[o] # Encode(r)[o - p]

Apart(m, u, v, x, y) == v = u + (x - y) /\ x # y /\ u % m = 0 => v % m # 0

LEMMA OddIsBad ==
  ASSUME NEW s \in Seq(Chrs), NEW p, NEW r \in HexRec, NEW o, Near(s, p, r, o),
         OddDigit(s, p, r, o)
  PROVE  HeadKept(p, o) /\ DataBad(s, p + 2)
<1> PICK q \in Nat : q = p
  BY DEF Near
<1> PICK c \in Nat : c = o
  BY DEF Near
<1> PICK n \in Nat : n = Len(r.data)
  BY EncodedLength
<1>1. Len(InBytes(r)) = n + 5 /\ Len(Encode(r)) = 2 * n + 12
  BY EncodedLength
<1>2. c \in q + 4 .. q + 7 \/ c \in q + 10 .. q + (2 * n + 11)
  BY <1>1 DEF OddDigit
<1>3. HeadKept(q, c)
  BY <1>2 DEF HeadKept
<1>4. PICK j \in 1 .. n + 5 : c \in {q + 2 * j, q + 2 * j + 1}
  <2> PICK d \in Nat : c = q + d /\ d >= 4 /\ d <= 2 * n + 11
    <3>1. c - q \in Nat /\ c = q + (c - q) /\ c - q >= 4 /\ c - q <= 2 * n + 11
      BY <1>2
    <3> QED
      BY <3>1
  <2>1. d \div 2 \in 1 .. n + 5 /\ (d = 2 * (d \div 2) \/ d = 2 * (d \div 2) + 1)
    OBVIOUS
  <2> PICK i \in 1 .. n + 5 : d = 2 * i \/ d = 2 * i + 1
    BY <2>1
  <2> QED
    OBVIOUS
<1> PICK b \in Seq(Octets) : b = InBytes(r)
  BY BytesAre DEF Right
<1>5. Len(b) = n + 5 /\ Sum(b) % ByteMax = 0
  BY BytesAre DEF Right
<1> PICK t : t = AllAt(s, q + 2)
  OBVIOUS
<1>6. t = [k \in 1 .. n + 5 |-> Byte(s, q + 2 * k)] /\ t \in Seq(Octets) /\ Len(t) = n + 5
  BY <1>3, AllRead
<1>7. \A k \in 1 .. n + 5 : t[k] = Byte(s, q + 2 * k)
  BY <1>6
<1>8. t[j] # b[j]
  <2>1. InByte(s, p, r, o, j)
    BY <1>1, NearBytes
  <2>2. s[o] # Encode(r)[o - p]
    BY DEF OddDigit
  <2> QED
    BY <1>4, <1>7, <2>1, <2>2, Zenon DEF InByte
<1>9. ASSUME NEW k \in 1 .. n + 5, k # j PROVE t[k] = b[k]
  <2>1. InByte(s, p, r, o, k)
    BY <1>1, NearBytes
  <2>2. c \notin {q + 2 * k, q + 2 * k + 1}
    BY <1>4, <1>9
  <2> QED
    BY <1>7, <2>1, <2>2, Zenon DEF InByte
<1>11. t \in Seq(Int) /\ b \in Seq(Int) /\ Len(t) = Len(b) /\ j \in 1 .. Len(t)
  <2>1. \A z \in Seq(Octets) : z \in Seq(Int)
    BY SeqOctets
  <2>2. t \in Seq(Octets) /\ b \in Seq(Octets) /\ Len(t) = n + 5 /\ Len(b) = n + 5 /\ j \in 1 .. n + 5
    BY <1>5, <1>6, Zenon
  <2> QED
    BY <2>1, <2>2, Zenon
<1>12. Sum(t) \in Int /\ Sum(b) \in Int /\ Sum(t) = Sum(b) + (t[j] - b[j])
  <2>1. \A k \in 1 .. Len(t) : k # j => t[k] = b[k]
    BY <1>6, <1>9
  <2> QED
    BY <1>11, <2>1, SumChanged
<1>13. Sum(t) % ByteMax # 0
  <2>1. PICK m \in Nat \ {0} : m = ByteMax
    BY Bases
  <2>2. t[j] \in 0 .. m - 1 /\ b[j] \in 0 .. m - 1
    <3>1. t[j] \in Octets /\ b[j] \in Octets
      BY <1>5, <1>6
    <3> QED
      BY <2>1, <3>1, Zenon DEF Octets
  <2>3. Apart(m, Sum(b), Sum(t), t[j], b[j])
    <3>1. \A u, v \in Int : \A x, y \in 0 .. m - 1 : Apart(m, u, v, x, y)
      <4> SUFFICES ASSUME NEW u \in Int, NEW v \in Int, NEW x \in 0 .. m - 1, NEW y \in 0 .. m - 1,
                          v = u + (x - y), x # y, u % m = 0
                   PROVE  v % m # 0
        BY DEF Apart
      <4> PICK d \in Int : d = x - y
        OBVIOUS
      <4>1. v = u + d /\ d # 0 /\ -m < d /\ d < m
        OBVIOUS
      <4> QED
        BY <4>1, NotAMultiple
    <3> QED
      BY <1>12, <2>2, <3>1, Zenon
  <2> QED
    BY <1>5, <1>8, <1>12, <2>1, <2>3, Zenon DEF Apart
<1> QED
  BY <1>3, <1>13, Zenon DEF DataBad

LEMMA DigitsAre ==
  /\ Colon \notin 0 .. Radix - 1 /\ CtrlZ \notin 0 .. Radix - 1
  /\ NewLine # Colon /\ NewLine # CtrlZ /\ Colon # CtrlZ
  BY HexComAssumption

LEMMA Skipped ==
  ASSUME NEW s \in Seq(Chrs), NEW a \in 1 .. Len(s) + 1, NEW b \in a .. Len(s) + 1,
         \A x \in a .. b - 1 : s[x] \notin {Colon, CtrlZ}
  PROVE  Taken(s)[a] = Taken(s)[b]
<1> DEFINE T == {n \in Nat : a + n <= b => Taken(s)[a] = Taken(s)[a + n]}
<1>1. 0 \in T
  <2>1. a + 0 = a
    OBVIOUS
  <2> QED
    BY <2>1
<1>2. ASSUME NEW n \in Nat, n \in T PROVE n + 1 \in T
  <2> SUFFICES ASSUME a + (n + 1) <= b PROVE Taken(s)[a] = Taken(s)[a + (n + 1)]
    OBVIOUS
  <2>1. PICK x \in 1 .. Len(s) : x = a + n /\ x + 1 = a + (n + 1) /\ x \in a .. b - 1 /\ x \in 1 .. Len(s) + 1
    <3>1. a + n \in 1 .. Len(s) /\ (a + n) + 1 = a + (n + 1) /\ a + n \in a .. b - 1
          /\ a + n \in 1 .. Len(s) + 1
      OBVIOUS
    <3> QED
      BY <3>1
  <2>2. Taken(s)[x] = TakenAt(s, Taken(s), x)
    BY <2>1, TakenIs
  <2>3. s[x] # CtrlZ /\ s[x] # Colon /\ ~ x > Len(s)
    BY <2>1
  <2>4. Taken(s)[x] = Taken(s)[x + 1]
    BY <2>2, <2>3, Zenon DEF TakenAt
  <2>5. Taken(s)[a] = Taken(s)[a + n]
    BY <1>2
  <2> QED
    BY <2>1, <2>4, <2>5, Zenon
<1>3. PICK n \in Nat : b = a + n
  <2>1. b - a \in Nat /\ b = a + (b - a)
    OBVIOUS
  <2> QED
    BY <2>1
<1>4. n \in T
  <2> HIDE DEF T
  <2> QED
    BY <1>1, <1>2, Numbers!NumbersReached
<1> QED
  BY <1>3, <1>4

LEMMA NothingBehind ==
  ASSUME NEW s \in Seq(Chrs)
  PROVE  Taken(s)[Len(s) + 1] = <<>>
<1>1. Len(s) + 1 \in 1 .. Len(s) + 1 /\ Len(s) + 1 > Len(s)
  OBVIOUS
<1>2. Taken(s)[Len(s) + 1] = TakenAt(s, Taken(s), Len(s) + 1)
  BY <1>1, TakenIs
<1> QED
  BY <1>1, <1>2, Zenon DEF TakenAt

\* What a record adds.
Refused(r) == r.data # <<>> /\ r.addr < TPA
TakesRecord(s, p, r) ==
  LET next == Taken(s)[p + Len(Encode(r)) + 1]
  IN  IF r.tt = 1 THEN <<>>
      ELSE IF r.tt # 0 THEN next
      ELSE IF Refused(r) THEN <<-1>>
      ELSE <<p + 2>> \o next

LEMMA RecordEnd == \A i, q, n \in Nat : i = q + 1 => i + 1 + 10 + 2 * n = q + (2 * n + 12)
  OBVIOUS

LEMMA RecordTaken ==
  ASSUME NEW s \in Seq(Chrs), NEW p, NEW r \in HexRec, NEW o, Near(s, p, r, o),
         o \notin p + 1 .. p + Len(Encode(r))
  PROVE  Taken(s)[p + 1] = TakesRecord(s, p, r)
<1> PICK q \in Nat : q = p
  BY DEF Near
<1> PICK n \in Nat : n = Len(r.data)
  BY EncodedLength
<1>1. Len(Encode(r)) = 2 * n + 12
  BY EncodedLength
<1>2. HeadKept(p, o) /\ o \notin q + 1 .. q + (2 * n + 12)
  BY <1>1 DEF HeadKept
<1>3. HeadRead(s, p, r) /\ RecordRead(s, p, r)
  BY <1>2, HeadIsRead, RecordIsRead
<1> PICK i \in Nat : i = q + 1
  OBVIOUS
<1>14. i + 1 + 10 + 2 * n = q + (2 * n + 12)
  BY RecordEnd
<1>4. i + 1 = q + 2 /\ i \in 1 .. Len(s) + 1 /\ ~ i > Len(s) /\ s[i] = Colon /\ q + (2 * n + 12) <= Len(s)
  BY <1>1, <1>3 DEF HeadRead, Near
<1>5. Taken(s)[i] = TakenAt(s, Taken(s), i)
  BY <1>4, TakenIs
<1>6. /\ ~ HeadBad(s, i + 1) /\ TypeAt(s, i + 1) = r.tt /\ LengthAt(s, i + 1) = n
      /\ DataBad(s, i + 1) <=> Refused(r)
  BY <1>3, <1>4, Zenon DEF HeadRead, RecordRead, Refused
<1>7. s[i] # CtrlZ
  BY <1>4, DigitsAre
<1>8. ASSUME NEW x \in q + 2 .. q + (2 * n + 12) PROVE s[x] \notin {Colon, CtrlZ}
  <2>1. PICK k \in 2 .. 2 * n + 12 : x = q + k
    <3>1. x - q \in 2 .. 2 * n + 12 /\ x = q + (x - q)
      OBVIOUS
    <3> QED
      BY <3>1
  <2>2. CASE k = 2 * n + 12
    <3>1. Encode(r)[k] = NewLine
      <4>1. Len(InBytes(r)) = n + 5 /\ 2 * (n + 5) + 2 = 2 * n + 12
        BY EncodedLength
      <4>2. Encode(r)[2 * (n + 5) + 2] = NewLine
        BY <4>1, EncodeIs DEF Written
      <4> QED
        BY <2>2, <4>1, <4>2
    <3>2. k \in 1 .. 2 * n + 12 /\ q + k # o
      BY <1>2
    <3>3. s[x] = NewLine
      BY <1>1, <2>1, <3>1, <3>2, Zenon DEF Near
    <3> QED
      BY <3>3, DigitsAre
  <2>3. CASE k # 2 * n + 12
    <3>1. k \in 2 .. Len(Encode(r)) - 1
      BY <1>1, <2>3
    <3>2. s[x] \in 0 .. Radix - 1
      BY <2>1, <3>1, Zenon DEF Near
    <3> QED
      BY <3>2, DigitsAre, Zenon
  <2> QED
    BY <2>2, <2>3
<1> PICK z \in Nat : z = q + Len(Encode(r)) + 1
  BY <1>1
<1>9. z = q + (2 * n + 12) + 1
  BY <1>1
<1>10. Taken(s)[i + 9] = Taken(s)[z]
  <2>1. i + 9 \in 1 .. Len(s) + 1 /\ z \in i + 9 .. Len(s) + 1
    BY <1>4, <1>9
  <2>2. \A x \in i + 9 .. z - 1 : x \in q + 2 .. q + (2 * n + 12)
    BY <1>9
  <2>3. \A x \in i + 9 .. z - 1 : s[x] \notin {Colon, CtrlZ}
    BY <1>8, <2>2, Zenon
  <2> QED
    BY <2>1, <2>3, Skipped
<1>11. Taken(s)[After(s, i + 1)] = Taken(s)[z]
  <2>1. After(s, i + 1) = q + (2 * n + 12)
    <3>1. After(s, i + 1) = i + 1 + 10 + 2 * n
      BY <1>6, Zenon DEF After
    <3> QED
      BY <1>14, <3>1, Zenon
  <2>2. q + (2 * n + 12) \in 1 .. Len(s) + 1 /\ z \in q + (2 * n + 12) .. Len(s) + 1
    BY <1>4, <1>9
  <2>3. \A x \in q + (2 * n + 12) .. z - 1 : x \in q + 2 .. q + (2 * n + 12)
    BY <1>9
  <2>4. \A x \in q + (2 * n + 12) .. z - 1 : s[x] \notin {Colon, CtrlZ}
    BY <1>8, <2>3, Zenon
  <2>5. Taken(s)[q + (2 * n + 12)] = Taken(s)[z]
    BY <2>2, <2>4, Skipped
  <2> QED
    BY <2>1, <2>5, Zenon
<1>12. TakesRecord(s, p, r) =
         IF r.tt = 1 THEN <<>> ELSE IF r.tt # 0 THEN Taken(s)[z]
         ELSE IF Refused(r) THEN <<-1>> ELSE <<i + 1>> \o Taken(s)[z]
  BY <1>4, Zenon DEF TakesRecord
<1>13. TakenAt(s, Taken(s), i) =
         IF r.tt = 1 THEN <<>> ELSE IF r.tt # 0 THEN Taken(s)[z]
         ELSE IF Refused(r) THEN <<-1>> ELSE <<i + 1>> \o Taken(s)[z]
  <2>1. CASE r.tt = 1
    BY <1>4, <1>6, <1>7, <2>1, Zenon DEF TakenAt
  <2>2. CASE r.tt # 1 /\ r.tt # 0
    BY <1>4, <1>6, <1>7, <1>10, <2>2, Zenon DEF TakenAt
  <2>3. CASE r.tt = 0
    <3>1. r.tt # 1
      BY <2>3
    <3>2. TypeAt(s, i + 1) = 0 /\ TypeAt(s, i + 1) # 1
      BY <1>6, <2>3, <3>1, Zenon
    <3>3. TakenAt(s, Taken(s), i) =
            IF DataBad(s, i + 1) THEN <<-1>> ELSE <<i + 1>> \o Taken(s)[After(s, i + 1)]
      BY <1>4, <1>6, <1>7, <3>2, Zenon DEF TakenAt
    <3> QED
      BY <1>6, <1>11, <2>3, <3>1, <3>3, Zenon
  <2> QED
    BY <2>1, <2>2, <2>3
<1> QED
  BY <1>5, <1>12, <1>13, Zenon

LEMMA OddTaken ==
  ASSUME NEW s \in Seq(Chrs), NEW p, NEW r \in HexRec, NEW o, Near(s, p, r, o),
         OddDigit(s, p, r, o), r.tt = 0
  PROVE  Taken(s)[p + 1] = <<-1>>
<1> PICK q \in Nat : q = p
  BY DEF Near
<1> PICK n \in Nat : n = Len(r.data)
  BY EncodedLength
<1>1. Len(Encode(r)) = 2 * n + 12
  BY EncodedLength
<1>2. HeadKept(p, o) /\ DataBad(s, p + 2)
  BY OddIsBad
<1>3. HeadRead(s, p, r)
  BY <1>2, HeadIsRead
<1> PICK i \in Nat : i = q + 1
  OBVIOUS
<1>4. i + 1 = q + 2 /\ i \in 1 .. Len(s) + 1 /\ ~ i > Len(s) /\ s[i] = Colon
  BY <1>1, <1>3 DEF HeadRead, Near
<1>5. Taken(s)[i] = TakenAt(s, Taken(s), i)
  BY <1>4, TakenIs
<1>6. ~ HeadBad(s, i + 1) /\ TypeAt(s, i + 1) = 0 /\ DataBad(s, i + 1)
  BY <1>2, <1>3, <1>4, Zenon DEF HeadRead
<1>7. s[i] # CtrlZ
  BY <1>4, DigitsAre
<1>8. TypeAt(s, i + 1) # 1
  BY <1>6
<1> QED
  BY <1>4, <1>5, <1>6, <1>7, <1>8, Zenon DEF TakenAt

----------------------------------------------------------------------------
(* What the records taken do.                                               *)

TakeRecord(s, base, m, x) ==
  IF x = -1 THEN [m EXCEPT !.err = TRUE] ELSE LoadRecord(m, AddrAt(s, x), DataAt(s, x), base)
FoldAt(s, base, v, t, f, k) ==
  IF k = 0 THEN v
  ELSE IF t[k] = -1 THEN [f[k - 1] EXCEPT !.err = TRUE]
  ELSE LoadRecord(f[k - 1], AddrAt(s, t[k]), DataAt(s, t[k]), base)
IsFold(s, base, v, t, f) == f = [k \in 0 .. Len(t) |-> FoldAt(s, base, v, t, f, k)]
FoldFrom(s, base, v, t) == (CHOOSE f : IsFold(s, base, v, t, f))[Len(t)]
Folds(s, base, v, t, f) ==
  f[0] = v /\ \A k \in 1 .. Len(t) : f[k] = TakeRecord(s, base, f[k - 1], t[k])

LEMMA FoldOnce ==
  ASSUME NEW s, NEW base, NEW v, NEW t \in Seq(Int), NEW f, NEW g,
         Folds(s, base, v, t, f), Folds(s, base, v, t, g)
  PROVE  f[Len(t)] = g[Len(t)]
<1> PICK n \in Nat : n = Len(t)
  OBVIOUS
<1> DEFINE T == {k \in Nat : k <= n => f[k] = g[k]}
<1>1. 0 \in T
  BY DEF Folds
<1>2. ASSUME NEW k \in Nat, k \in T PROVE k + 1 \in T
  <2> SUFFICES ASSUME k + 1 <= n PROVE f[k + 1] = g[k + 1]
    OBVIOUS
  <2>1. k + 1 \in 1 .. n /\ (k + 1) - 1 = k /\ k <= n
    OBVIOUS
  <2>2. f[k + 1] = TakeRecord(s, base, f[k], t[k + 1]) /\ g[k + 1] = TakeRecord(s, base, g[k], t[k + 1])
    BY <2>1 DEF Folds
  <2>3. f[k] = g[k]
    BY <1>2, <2>1
  <2> QED
    BY <2>2, <2>3, Zenon
<1>3. n \in T
  <2> HIDE DEF T
  <2> QED
    BY <1>1, <1>2, Numbers!NumbersReached
<1> QED
  BY <1>3

LEMMA FoldIs ==
  ASSUME NEW s, NEW base, NEW v, NEW t \in Seq(Int)
  PROVE  \E f : Folds(s, base, v, t, f) /\ FoldFrom(s, base, v, t) = f[Len(t)]
<1> PICK n \in Nat : n = Len(t)
  OBVIOUS
<1> DEFINE Up(g, m) == /\ g = [k \in 0 .. n |-> g[k]] /\ g[0] = v
                       /\ \A k \in 1 .. m : g[k] = TakeRecord(s, base, g[k - 1], t[k])
           T == {m \in Nat : m <= n => \E g : Up(g, m)}
<1>1. 0 \in T
  <2>1. Up([k \in 0 .. n |-> v], 0)
    OBVIOUS
  <2> HIDE DEF Up
  <2> QED
    BY <2>1
<1>2. ASSUME NEW m \in Nat, m \in T PROVE m + 1 \in T
  <2> SUFFICES ASSUME m + 1 <= n PROVE \E g : Up(g, m + 1)
    OBVIOUS
  <2>1. PICK g : Up(g, m)
    <3> HIDE DEF Up
    <3> QED
      BY <1>2
  <2>2. PICK x : x = TakeRecord(s, base, g[m], t[m + 1])
    OBVIOUS
  <2> DEFINE h == [k \in 0 .. n |-> IF k = m + 1 THEN x ELSE g[k]]
  <2>3. \A k \in 0 .. n : h[k] = IF k = m + 1 THEN x ELSE g[k]
    OBVIOUS
  <2>4. h = [k \in 0 .. n |-> h[k]]
    OBVIOUS
  <2> HIDE DEF h
  <2>5. ASSUME NEW k \in 1 .. m + 1 PROVE h[k] = TakeRecord(s, base, h[k - 1], t[k])
    <3>1. k \in 0 .. n /\ k - 1 \in 0 .. n /\ k - 1 # m + 1
      OBVIOUS
    <3>2. h[k - 1] = g[k - 1]
      BY <2>3, <3>1
    <3>3. CASE k = m + 1
      <4>1. k - 1 = m
        BY <3>3
      <4>2. h[k] = x
        BY <2>3, <3>1, <3>3
      <4> QED
        BY <2>2, <3>2, <3>3, <4>1, <4>2, Zenon
    <3>4. CASE k # m + 1
      <4>1. k \in 1 .. m
        BY <3>4
      <4>2. h[k] = g[k]
        BY <2>3, <3>1, <3>4
      <4> QED
        BY <2>1, <3>2, <4>1, <4>2, Zenon
    <3> QED
      BY <3>3, <3>4
  <2>6. h[0] = v
    <3>1. 0 \in 0 .. n /\ 0 # m + 1
      OBVIOUS
    <3> QED
      BY <2>1, <2>3, <3>1
  <2>7. Up(h, m + 1)
    BY <2>4, <2>5, <2>6
  <2> HIDE DEF Up
  <2> QED
    BY <2>7
<1>3. n \in T
  <2> HIDE DEF T
  <2> QED
    BY <1>1, <1>2, Numbers!NumbersReached
<1>4. PICK g : Up(g, n)
  <2> HIDE DEF Up
  <2> QED
    BY <1>3
<1>5. IsFold(s, base, v, t, g)
  <2>1. ASSUME NEW k \in 0 .. n PROVE g[k] = FoldAt(s, base, v, t, g, k)
    <3>1. k = 0 \/ k \in 1 .. n
      OBVIOUS
    <3>2. CASE k = 0
      BY <1>4, <3>2 DEF FoldAt
    <3>3. CASE k \in 1 .. n
      <4>1. k # 0
        BY <3>3
      <4>2. g[k] = TakeRecord(s, base, g[k - 1], t[k])
        BY <1>4, <3>3
      <4> QED
        BY <4>1, <4>2, Zenon DEF FoldAt, TakeRecord
    <3> QED
      BY <3>1, <3>2, <3>3
  <2>2. [k \in 0 .. n |-> g[k]] = [k \in 0 .. n |-> FoldAt(s, base, v, t, g, k)]
    BY <2>1
  <2>3. g = [k \in 0 .. n |-> g[k]]
    BY <1>4
  <2> QED
    BY <2>2, <2>3, Zenon DEF IsFold
<1>6. PICK f : f = CHOOSE x : IsFold(s, base, v, t, x)
  OBVIOUS
<1>7. IsFold(s, base, v, t, f)
  BY <1>5, <1>6, Zenon
<1>8. \A k \in 0 .. n : f[k] = FoldAt(s, base, v, t, f, k)
  BY <1>7 DEF IsFold
<1>9. Folds(s, base, v, t, f)
  <2>1. f[0] = v
    <3>1. 0 \in 0 .. n
      OBVIOUS
    <3> QED
      BY <1>8, <3>1, Zenon DEF FoldAt
  <2>2. ASSUME NEW k \in 1 .. n PROVE f[k] = TakeRecord(s, base, f[k - 1], t[k])
    <3>1. k \in 0 .. n /\ k # 0
      OBVIOUS
    <3> QED
      BY <1>8, <3>1, Zenon DEF FoldAt, TakeRecord
  <2> QED
    BY <2>1, <2>2 DEF Folds
<1>10. FoldFrom(s, base, v, t) = f[Len(t)]
  BY <1>6, Zenon DEF FoldFrom
<1> QED
  BY <1>9, <1>10

LEMMA FoldNone ==
  ASSUME NEW s, NEW base, NEW v
  PROVE  FoldFrom(s, base, v, <<>>) = v
<1>1. <<>> \in Seq(Int) /\ Len(<<>>) = 0
  OBVIOUS
<1>2. PICK f : Folds(s, base, v, <<>>, f) /\ FoldFrom(s, base, v, <<>>) = f[Len(<<>>)]
  BY <1>1, FoldIs
<1> QED
  BY <1>1, <1>2, Zenon DEF Folds

LEMMA FoldFirst ==
  ASSUME NEW s, NEW base, NEW v, NEW t \in Seq(Int), NEW x \in Int
  PROVE  FoldFrom(s, base, v, <<x>> \o t) = FoldFrom(s, base, TakeRecord(s, base, v, x), t)
<1> PICK n \in Nat : n = Len(t)
  OBVIOUS
<1>1. PICK u : u = <<x>> \o t
  OBVIOUS
<1>2. u \in Seq(Int) /\ Len(u) = n + 1 /\ u[1] = x /\ \A k \in 1 .. n : u[k + 1] = t[k]
  BY <1>1
<1>3. PICK f : Folds(s, base, v, u, f) /\ FoldFrom(s, base, v, u) = f[Len(u)]
  BY <1>2, FoldIs
<1>4. PICK y : y = TakeRecord(s, base, v, x)
  OBVIOUS
<1>5. PICK g : g = [k \in 0 .. n |-> f[k + 1]]
  OBVIOUS
<1>6. Folds(s, base, y, t, g)
  <2>1. g[0] = y
    <3>1. 1 \in 1 .. Len(u) /\ 1 - 1 = 0 /\ 0 \in 0 .. n /\ 0 + 1 = 1
      BY <1>2
    <3>2. f[1] = TakeRecord(s, base, f[0], u[1]) /\ f[0] = v
      BY <1>3, <3>1 DEF Folds
    <3>3. g[0] = f[1]
      BY <1>5, <3>1
    <3> QED
      BY <1>2, <1>4, <3>2, <3>3, Zenon
  <2>2. ASSUME NEW k \in 1 .. n PROVE g[k] = TakeRecord(s, base, g[k - 1], t[k])
    <3>1. k + 1 \in 1 .. Len(u) /\ (k + 1) - 1 = k /\ k \in 0 .. n /\ k - 1 \in 0 .. n /\ (k - 1) + 1 = k
      BY <1>2
    <3>2. f[k + 1] = TakeRecord(s, base, f[k], u[k + 1])
      BY <1>3, <3>1 DEF Folds
    <3>3. g[k] = f[k + 1] /\ g[k - 1] = f[k]
      BY <1>5, <3>1
    <3> QED
      BY <1>2, <3>2, <3>3, Zenon
  <2> QED
    BY <2>1, <2>2 DEF Folds
<1>7. PICK h : Folds(s, base, y, t, h) /\ FoldFrom(s, base, y, t) = h[Len(t)]
  BY FoldIs
<1>8. g[Len(t)] = h[Len(t)]
  BY <1>6, <1>7, FoldOnce
<1>9. g[n] = f[Len(u)]
  BY <1>2, <1>5
<1>10. FoldFrom(s, base, v, u) = FoldFrom(s, base, y, t)
  BY <1>3, <1>7, <1>8, <1>9, Zenon
<1> QED
  BY <1>1, <1>4, <1>10, Zenon

LEMMA ScanIs ==
  ASSUME NEW s, NEW base
  PROVE  Scan(s, base) = FoldFrom(s, base, NothingRead, Taken(s)[1])
  BY Zenon DEF Scan, FoldFrom, IsFold, FoldAt

LEMMA FoldError ==
  ASSUME NEW s, NEW base, NEW v
  PROVE  FoldFrom(s, base, v, <<-1>>) = [v EXCEPT !.err = TRUE]
<1>1. PICK e \in Int : e = -1
  OBVIOUS
<1>2. <<>> \in Seq(Int) /\ <<e>> = <<e>> \o <<>>
  OBVIOUS
<1>3. FoldFrom(s, base, v, <<e>> \o <<>>) = FoldFrom(s, base, TakeRecord(s, base, v, e), <<>>)
  BY <1>2, FoldFirst
<1>4. TakeRecord(s, base, v, e) = [v EXCEPT !.err = TRUE]
  BY <1>1, Zenon DEF TakeRecord
<1>5. FoldFrom(s, base, TakeRecord(s, base, v, e), <<>>) = TakeRecord(s, base, v, e)
  BY FoldNone
<1>6. FoldFrom(s, base, v, <<e>>) = [v EXCEPT !.err = TRUE]
  BY <1>2, <1>3, <1>4, <1>5, Zenon
<1> QED
  BY <1>1, <1>6

----------------------------------------------------------------------------
(* Where the records are.                                                   *)

HexTexts(f) == [i \in DOMAIN f |-> Encode(f[i])]
TextTo(f, m) == EncodeAll(SubSeq(f, 1, m))
PlaceOf(f, j) == Len(EncodeAll(SubSeq(f, 1, j - 1)))

LEMMA TextsAre ==
  ASSUME NEW f \in Seq(HexRec)
  PROVE  /\ HexTexts(f) \in Seq(Seq(Chrs)) /\ Len(HexTexts(f)) = Len(f)
         /\ \A i \in 1 .. Len(f) : HexTexts(f)[i] = Encode(f[i]) /\ Encode(f[i]) \in Seq(Chrs)
<1> PICK n \in Nat : n = Len(f)
  OBVIOUS
<1>1. ASSUME NEW i \in 1 .. n PROVE Encode(f[i]) \in Seq(Chrs)
  <2>1. f[i] \in HexRec
    OBVIOUS
  <2> QED
    BY <2>1, EncodeIs DEF Written
<1>2. HexTexts(f) = [i \in 1 .. n |-> Encode(f[i])]
  BY DEF HexTexts
<1>3. [i \in 1 .. n |-> Encode(f[i])] \in Seq(Seq(Chrs)) /\ Len([i \in 1 .. n |-> Encode(f[i])]) = n
  BY <1>1
<1>4. \A i \in 1 .. n : HexTexts(f)[i] = Encode(f[i])
  BY <1>2
<1>5. HexTexts(f) \in Seq(Seq(Chrs)) /\ Len(HexTexts(f)) = n
  BY <1>2, <1>3, Zenon
<1> QED
  BY <1>1, <1>4, <1>5

LEMMA FirstTexts ==
  ASSUME NEW f \in Seq(HexRec), NEW m \in 0 .. Len(f)
  PROVE  TextTo(f, m) = FlattenSeq(SubSeq(HexTexts(f), 1, m))
<1>1. PICK g : g = SubSeq(f, 1, m)
  OBVIOUS
<1>2. g \in Seq(HexRec) /\ Len(g) = m /\ \A i \in 1 .. m : g[i] = f[i]
  BY <1>1
<1>3. PICK t : t = HexTexts(f)
  OBVIOUS
<1>4. t \in Seq(Seq(Chrs)) /\ Len(t) = Len(f) /\ \A i \in 1 .. Len(f) : t[i] = Encode(f[i])
  BY <1>3, TextsAre
<1>5. SubSeq(t, 1, m) = [i \in 1 .. m |-> t[i]]
  BY <1>4
<1>6. [i \in DOMAIN g |-> Encode(g[i])] = [i \in 1 .. m |-> t[i]]
  <2>1. DOMAIN g = 1 .. m
    BY <1>2
  <2>2. ASSUME NEW i \in 1 .. m PROVE Encode(g[i]) = t[i]
    <3>1. i \in 1 .. Len(f)
      OBVIOUS
    <3> QED
      BY <1>2, <1>4, <3>1, Zenon
  <2> QED
    BY <2>1, <2>2
<1> QED
  BY <1>1, <1>3, <1>5, <1>6, Zenon DEF TextTo, EncodeAll

LEMMA TextNext ==
  ASSUME NEW f \in Seq(HexRec), NEW m \in 1 .. Len(f)
  PROVE  TextTo(f, m) = TextTo(f, m - 1) \o Encode(f[m])
<1>1. m \in 0 .. Len(f) /\ m - 1 \in 0 .. Len(f)
  OBVIOUS
<1>2. PICK t : t = HexTexts(f)
  OBVIOUS
<1>3. t \in Seq(Seq(Chrs)) /\ Len(t) = Len(f) /\ t[m] = Encode(f[m])
  BY <1>2, TextsAre
<1>4. FlattenSeq(SubSeq(t, 1, m)) = FlattenSeq(SubSeq(t, 1, m - 1)) \o t[m]
  BY <1>3, FlattenNext
<1>5. TextTo(f, m) = FlattenSeq(SubSeq(t, 1, m)) /\ TextTo(f, m - 1) = FlattenSeq(SubSeq(t, 1, m - 1))
  BY <1>1, <1>2, FirstTexts
<1> QED
  BY <1>3, <1>4, <1>5, Zenon

LEMMA TextTyped ==
  ASSUME NEW f \in Seq(HexRec), NEW m \in 0 .. Len(f)
  PROVE  TextTo(f, m) \in Seq(Chrs)
<1>1. PICK t : t = HexTexts(f)
  OBVIOUS
<1>2. t \in Seq(Seq(Chrs)) /\ Len(t) = Len(f)
  BY <1>1, TextsAre
<1>3. SubSeq(t, 1, m) \in Seq(Seq(Chrs))
  BY <1>2
<1>4. FlattenSeq(SubSeq(t, 1, m)) \in Seq(Chrs)
  BY <1>3, FlatSeq
<1>5. TextTo(f, m) = FlattenSeq(SubSeq(t, 1, m))
  BY <1>1, FirstTexts
<1> QED
  BY <1>4, <1>5, Zenon

LEMMA NoText ==
  ASSUME NEW f \in Seq(HexRec)
  PROVE  TextTo(f, 0) = <<>> /\ TextTo(f, Len(f)) = EncodeAll(f)
<1>1. SubSeq(f, 1, 0) = <<>> /\ SubSeq(f, 1, Len(f)) = f
  OBVIOUS
<1>2. [i \in DOMAIN <<>> |-> Encode(<<>>[i])] = <<>>
  OBVIOUS
<1>3. FlattenSeq(<<>>) = <<>>
  BY DEF FlattenSeq
<1>4. EncodeAll(<<>>) = <<>>
  BY <1>2, <1>3, Zenon DEF EncodeAll
<1> QED
  BY <1>1, <1>4, Zenon DEF TextTo

Standing(s, p, e) == p \in Nat /\ p + Len(e) <= Len(s) /\ \A k \in 1 .. Len(e) : s[p + k] = e[k]

LEMMA StandsAppended ==
  ASSUME NEW s \in Seq(Chrs), NEW e \in Seq(Chrs)
  PROVE  /\ Standing(s \o e, Len(s), e)
         /\ \A p, x : x \in Seq(Chrs) /\ Standing(s, p, x) => Standing(s \o e, p, x)
<1>1. PICK t : t = s \o e
  OBVIOUS
<1> PICK l \in Nat, n \in Nat : l = Len(s) /\ n = Len(e)
  OBVIOUS
<1>2. t \in Seq(Chrs) /\ Len(t) = l + n /\ (\A k \in 1 .. l : t[k] = s[k]) /\ \A k \in 1 .. n : t[l + k] = e[k]
  BY <1>1
<1>3. Standing(t, l, e)
  BY <1>2 DEF Standing
<1>4. ASSUME NEW p, NEW x \in Seq(Chrs), Standing(s, p, x) PROVE Standing(t, p, x)
  <2>1. p \in Nat /\ p + Len(x) <= l /\ \A k \in 1 .. Len(x) : s[p + k] = x[k]
    BY <1>4 DEF Standing
  <2>2. ASSUME NEW k \in 1 .. Len(x) PROVE t[p + k] = x[k]
    <3>1. p + k \in 1 .. l
      BY <2>1
    <3> QED
      BY <1>2, <2>1, <3>1
  <2>3. p + Len(x) <= Len(t)
    BY <1>2, <2>1
  <2> QED
    BY <2>1, <2>2, <2>3 DEF Standing
<1> QED
  BY <1>1, <1>3, <1>4, Zenon

LEMMA Stands ==
  ASSUME NEW f \in Seq(HexRec), NEW j \in 1 .. Len(f)
  PROVE  Standing(EncodeAll(f), PlaceOf(f, j), Encode(f[j]))
<1> PICK n \in Nat : n = Len(f)
  OBVIOUS
<1> DEFINE T == {m \in Nat : m \in j .. n => Standing(TextTo(f, m), PlaceOf(f, j), Encode(f[j]))}
<1>0. ASSUME NEW m \in 1 .. n
      PROVE  Encode(f[m]) \in Seq(Chrs) /\ TextTo(f, m - 1) \in Seq(Chrs)
             /\ TextTo(f, m) = TextTo(f, m - 1) \o Encode(f[m])
  <2>1. m - 1 \in 0 .. Len(f)
    OBVIOUS
  <2> QED
    BY <2>1, TextsAre, TextTyped, TextNext
<1>1. 0 \in T
  OBVIOUS
<1>2. ASSUME NEW m \in Nat, m \in T PROVE m + 1 \in T
  <2> SUFFICES ASSUME m + 1 \in j .. n PROVE Standing(TextTo(f, m + 1), PlaceOf(f, j), Encode(f[j]))
    OBVIOUS
  <2>1. PICK i \in 1 .. n : i = m + 1 /\ i - 1 = m
    <3>1. m + 1 \in 1 .. n /\ (m + 1) - 1 = m
      OBVIOUS
    <3> QED
      BY <3>1
  <2>2. Encode(f[i]) \in Seq(Chrs) /\ TextTo(f, m) \in Seq(Chrs) /\ TextTo(f, i) = TextTo(f, m) \o Encode(f[i])
    BY <1>0, <2>1
  <2>3. CASE i = j
    <3>1. PlaceOf(f, j) = Len(TextTo(f, m))
      BY <2>1, <2>3, Zenon DEF PlaceOf, TextTo
    <3>2. Standing(TextTo(f, m) \o Encode(f[i]), Len(TextTo(f, m)), Encode(f[i]))
      BY <2>2, StandsAppended
    <3> QED
      BY <2>1, <2>2, <2>3, <3>1, <3>2, Zenon
  <2>4. CASE i # j
    <3>1. m \in j .. n
      BY <2>1, <2>4
    <3>2. Standing(TextTo(f, m), PlaceOf(f, j), Encode(f[j]))
      BY <1>2, <3>1
    <3>3. Encode(f[j]) \in Seq(Chrs)
      BY <1>0
    <3>4. Standing(TextTo(f, m) \o Encode(f[i]), PlaceOf(f, j), Encode(f[j]))
      BY <2>2, <3>2, <3>3, StandsAppended
    <3> QED
      BY <2>1, <2>2, <3>4, Zenon
  <2> QED
    BY <2>3, <2>4
<1>3. n \in T
  <2> HIDE DEF T
  <2> QED
    BY <1>1, <1>2, Numbers!NumbersReached
<1>4. n \in j .. n
  OBVIOUS
<1>5. Standing(TextTo(f, n), PlaceOf(f, j), Encode(f[j]))
  BY <1>3, <1>4
<1> QED
  BY <1>5, NoText

LEMMA PlacesAre ==
  ASSUME NEW f \in Seq(HexRec)
  PROVE  /\ PlaceOf(f, 1) = 0 /\ PlaceOf(f, Len(f) + 1) = Len(EncodeAll(f))
         /\ \A j \in 1 .. Len(f) + 1 : PlaceOf(f, j) \in Nat
         /\ \A j \in 1 .. Len(f) : PlaceOf(f, j + 1) = PlaceOf(f, j) + Len(Encode(f[j]))
<1> PICK n \in Nat : n = Len(f)
  OBVIOUS
<1>0. \A j : PlaceOf(f, j) = Len(TextTo(f, j - 1))
  BY Zenon DEF PlaceOf, TextTo
<1>1. PlaceOf(f, 1) = 0
  <2>1. 1 - 1 = 0 /\ Len(<<>>) = 0
    OBVIOUS
  <2> QED
    BY <1>0, <2>1, NoText, Zenon
<1>2. PlaceOf(f, n + 1) = Len(EncodeAll(f))
  <2>1. (n + 1) - 1 = n
    OBVIOUS
  <2> QED
    BY <1>0, <2>1, NoText, Zenon
<1>3. ASSUME NEW j \in 1 .. n + 1 PROVE PlaceOf(f, j) \in Nat
  <2>1. j - 1 \in 0 .. Len(f)
    OBVIOUS
  <2> PICK t \in Seq(Chrs) : t = TextTo(f, j - 1)
    BY <2>1, TextTyped
  <2> QED
    BY <1>0
<1>4. ASSUME NEW j \in 1 .. n PROVE PlaceOf(f, j + 1) = PlaceOf(f, j) + Len(Encode(f[j]))
  <2>1. j - 1 \in 0 .. Len(f) /\ (j + 1) - 1 = j
    OBVIOUS
  <2> PICK t \in Seq(Chrs) : t = TextTo(f, j - 1)
    BY <2>1, TextTyped
  <2> PICK e \in Seq(Chrs) : e = Encode(f[j])
    BY TextsAre
  <2>2. TextTo(f, j) = t \o e
    BY TextNext
  <2>3. Len(t \o e) = Len(t) + Len(e)
    OBVIOUS
  <2> QED
    BY <1>0, <2>1, <2>2, <2>3, Zenon
<1> QED
  BY <1>1, <1>2, <1>3, <1>4

LEMMA PlacesRise ==
  ASSUME NEW f \in Seq(HexRec), NEW i \in 1 .. Len(f), NEW j \in 1 .. Len(f), j < i
  PROVE  PlaceOf(f, j + 1) <= PlaceOf(f, i)
<1> PICK n \in Nat : n = Len(f)
  OBVIOUS
<1> DEFINE T == {m \in Nat : m \in j + 1 .. n + 1 => PlaceOf(f, j + 1) <= PlaceOf(f, m)}
<1>0. \A m \in 1 .. n + 1 : PlaceOf(f, m) \in Nat
  BY PlacesAre
<1>1. 0 \in T
  OBVIOUS
<1>2. ASSUME NEW m \in Nat, m \in T PROVE m + 1 \in T
  <2> SUFFICES ASSUME m + 1 \in j + 1 .. n + 1 PROVE PlaceOf(f, j + 1) <= PlaceOf(f, m + 1)
    OBVIOUS
  <2>1. m + 1 \in 1 .. n + 1 /\ j + 1 \in 1 .. n + 1 /\ m \in 1 .. n
    OBVIOUS
  <2>2. CASE m = j
    <3>1. PlaceOf(f, m + 1) \in Nat
      BY <1>0, <2>1
    <3> QED
      BY <2>2, <3>1
  <2>3. CASE m # j
    <3>1. PlaceOf(f, j + 1) <= PlaceOf(f, m)
      BY <1>2, <2>3
    <3>2. PlaceOf(f, m + 1) = PlaceOf(f, m) + Len(Encode(f[m]))
      BY <2>1, PlacesAre
    <3>3. Len(Encode(f[m])) \in Nat
      <4> PICK e \in Seq(Chrs) : e = Encode(f[m])
        BY <2>1, TextsAre
      <4> QED
        OBVIOUS
    <3>4. PlaceOf(f, m) \in Nat /\ PlaceOf(f, j + 1) \in Nat
      BY <1>0, <2>1
    <3> QED
      BY <3>1, <3>2, <3>3, <3>4
  <2> QED
    BY <2>2, <2>3
<1>3. i \in T
  <2>1. i \in Nat
    OBVIOUS
  <2> HIDE DEF T
  <2> QED
    BY <1>1, <1>2, <2>1, Numbers!NumbersReached
<1> QED
  BY <1>3

----------------------------------------------------------------------------
(* The memory the records load.                                             *)

Memory == [first : Nat, last : Nat, have : BOOLEAN, err : BOOLEAN, image : [0 .. AddrSp - 1 -> Nat]]

DataOf(f) == {i \in DOMAIN f : /\ f[i].tt = 0 /\ f[i].data # <<>>
                               /\ \A e \in DOMAIN f : f[e].tt = 1 => i < e}
EndOf(r) == r.addr + Len(r.data) - 1
InSpace(f) == \A i \in DataOf(f) : EndOf(f[i]) < Unsigned

FirstSaid(f, v, j) ==
  /\ v.have <=> \E i \in DataOf(f) : i < j
  /\ ~ v.have => v.first = 0 /\ v.last = 0
  /\ v.have => \E i \in DataOf(f) : v.first = f[i].addr /\ \A k \in DataOf(f) : i <= k
LastSaid(f, v, j) ==
  /\ \A i \in DataOf(f) : i < j => EndOf(f[i]) <= v.last
  /\ v.have => \E i \in DataOf(f) : i < j /\ v.last = EndOf(f[i])
CellSaid(f, v, j, a) ==
  /\ (\A i \in DataOf(f) : i < j => ~ Covers(f[i], a)) => v.image[a] = 0
  /\ \A i \in DataOf(f) :
       i < j /\ Covers(f[i], a) /\ (\A k \in DataOf(f) : k < j /\ Covers(f[k], a) => k <= i)
         => v.image[a] = f[i].data[a - f[i].addr + 1]
ImageSaid(f, v, j, base) ==
  v.last < AddrSp => \A a \in 0 .. AddrSp - 1 : a \in base .. base + WinSz - 1 => CellSaid(f, v, j, a)

\* v is what the records before j load.
Describes(f, v, j, base) ==
  /\ v \in Memory /\ v.err = FALSE
  /\ FirstSaid(f, v, j) /\ LastSaid(f, v, j) /\ ImageSaid(f, v, j, base)

LEMMA DescribesOn ==
  ASSUME NEW f, NEW v, NEW a, NEW b, NEW base, Describes(f, v, a, base),
         \A i \in DataOf(f) : i < a <=> i < b
  PROVE  Describes(f, v, b, base)
<1>1. FirstSaid(f, v, b)
  BY Zenon DEF Describes, FirstSaid
<1>2. LastSaid(f, v, b)
  BY Zenon DEF Describes, LastSaid
<1>3. \A c : CellSaid(f, v, a, c) => CellSaid(f, v, b, c)
  BY Zenon DEF CellSaid
<1>4. ImageSaid(f, v, b, base)
  BY <1>3, Zenon DEF Describes, ImageSaid
<1> QED
  BY <1>1, <1>2, <1>4, Zenon DEF Describes

Wraps(n, a, d, l) ==
  /\ ((a - d) % n) + 1 <= l <=> a >= d /\ a < d + l
  /\ a >= d => ((a - d) % n) + 1 = a - d + 1

LEMMA WrapIs ==
  ASSUME NEW n \in Nat \ {0}, NEW a \in 0 .. n - 1, NEW d \in 0 .. n - 1, NEW l \in Nat \ {0},
         d + l <= n
  PROVE  Wraps(n, a, d, l)
<1> USE DEF Wraps
<1>1. CASE a >= d
  <2> PICK x \in 0 .. n - 1 : x = a - d
    BY <1>1
  <2>1. x % n = x
    OBVIOUS
  <2> QED
    BY <1>1, <2>1
<1>2. CASE a < d
  <2> PICK x \in 0 .. n - 1 : x = (a - d) + n
    BY <1>2
  <2> PICK y \in Int : y = a - d
    OBVIOUS
  <2>1. y % n = x
    <3>1. -n <= y /\ y < 0 /\ x = y + n
      BY <1>2
    <3> QED
      BY <3>1
  <2> QED
    BY <1>2, <2>1
<1> QED
  BY <1>1, <1>2

LEMMA ModSmall ==
  ASSUME NEW a \in Nat, NEW b \in Nat, a < b
  PROVE  a % b = a
<1>1. PICK n \in Nat \ {0} : n = b
  OBVIOUS
<1>2. a \in 0 .. n - 1
  BY <1>1
<1>3. a % n = a
  BY <1>2
<1> QED
  BY <1>1, <1>3, Zenon

LEMMA DescribesLoaded ==
  ASSUME NEW f \in Seq(HexRec), NEW j \in DataOf(f), NEW v, NEW base \in Nat,
         Describes(f, v, j, base), ~ Refused(f[j]), InSpace(f)
  PROVE  Describes(f, LoadRecord(v, f[j].addr, f[j].data, base), j + 1, base)
<1> PICK n \in Nat \ {0} : n = AddrSp
  BY Bases
<1>0. j \in 1 .. Len(f) /\ f[j] \in HexRec /\ f[j].data # <<>> /\ DataOf(f) \subseteq 1 .. Len(f)
  BY DEF DataOf
<1> PICK d \in Seq(Octets) : d = f[j].data
  BY <1>0, RecordIs
<1> PICK ad \in 0 .. n - 1 : ad = f[j].addr
  BY <1>0, RecordIs
<1> PICK l \in Nat : l = Len(d)
  OBVIOUS
<1>1. l > 0 /\ d # <<>> /\ ad >= TPA /\ TPA \in Nat /\ TPA > 0
  BY <1>0, RecordIs, Bases DEF Refused
<1> PICK end \in Nat : end = ad + l - 1
  BY <1>1
<1>2. end > 0 /\ EndOf(f[j]) = end
  <2>1. EndOf(f[j]) = ad + l - 1
    BY Zenon DEF EndOf
  <2>2. end > 0
    BY <1>1
  <2> QED
    BY <2>1, <2>2
<1>3. v \in Memory /\ v.err = FALSE /\ FirstSaid(f, v, j) /\ LastSaid(f, v, j) /\ ImageSaid(f, v, j, base)
  BY DEF Describes
<1> PICK u : u = LoadRecord(v, ad, d, base)
  OBVIOUS
<1>20. (ad + l - 1) % Unsigned = end
  <2>1. Unsigned \in Nat /\ end < Unsigned
    BY <1>2, HexComAssumption DEF InSpace
  <2>2. PICK z \in Nat : z = Unsigned /\ end < z
    BY <2>1
  <2>3. end % z = end
    BY <2>2, ModSmall
  <2> QED
    BY <2>2, <2>3, Zenon
<1> DEFINE put(a) == ((a - ad) % AddrSp) + 1 <= Len(d) /\ a \in base .. base + WinSz - 1
           img == [a \in DOMAIN v.image |-> IF put(a) THEN d[((a - ad) % AddrSp) + 1] ELSE v.image[a]]
<1>4. u = [first |-> IF v.have THEN v.first ELSE ad, have |-> TRUE, err |-> FALSE,
           last |-> IF end > v.last THEN end ELSE v.last, image |-> img]
  BY <1>1, <1>20 DEF LoadRecord
<1>5. /\ u.first = (IF v.have THEN v.first ELSE ad) /\ u.have = TRUE /\ u.err = FALSE
      /\ u.last = (IF end > v.last THEN end ELSE v.last) /\ u.image = img
  <2> HIDE DEF img
  <2> QED
    BY <1>4
<1>6. v.first \in Nat /\ v.last \in Nat /\ v.have \in BOOLEAN /\ v.image \in [0 .. n - 1 -> Nat]
  BY <1>3 DEF Memory
<1>7. img \in [0 .. n - 1 -> Nat]
  <2>1. ASSUME NEW a \in 0 .. n - 1, put(a) PROVE d[((a - ad) % n) + 1] \in Nat
    <3> PICK x \in Nat : x = (a - ad) % n
      OBVIOUS
    <3>3. ((a - ad) % n) + 1 <= l
      BY <2>1, Zenon
    <3>1. x + 1 \in 1 .. l
      <4>1. x + 1 <= l
        BY <3>3, Zenon
      <4>2. \A y, z \in Nat : y + 1 <= z => y + 1 \in 1 .. z
        OBVIOUS
      <4> QED
        BY <4>1, <4>2, Zenon
    <3>2. d[x + 1] \in Octets
      BY <3>1
    <3> QED
      BY <3>2, OctetsAre, Zenon
  <2>2. DOMAIN v.image = 0 .. n - 1 /\ \A a \in 0 .. n - 1 : v.image[a] \in Nat
    BY <1>6
  <2>3. img = [a \in 0 .. n - 1 |-> IF put(a) THEN d[((a - ad) % n) + 1] ELSE v.image[a]]
    BY <2>2, Zenon
  <2> HIDE DEF put
  <2> QED
    BY <2>1, <2>2, <2>3
<1>8. u \in Memory
  <2> HIDE DEF img
  <2> QED
    BY <1>4, <1>6, <1>7 DEF Memory
<1>9. \A i \in DataOf(f) : i < j + 1 <=> i < j \/ i = j
  BY <1>0
<1>10. FirstSaid(f, u, j + 1)
  <2>1. \E i \in DataOf(f) : i < j + 1
    BY <1>9
  <2>2. CASE v.have
    <3>1. \E i \in DataOf(f) : v.first = f[i].addr /\ \A k \in DataOf(f) : i <= k
      BY <1>3, <2>2, Zenon DEF FirstSaid
    <3> QED
      BY <1>5, <2>1, <2>2, <3>1, Zenon DEF FirstSaid
  <2>3. CASE ~ v.have
    <3>1. \A i \in DataOf(f) : ~ i < j
      BY <1>3, <2>3, Zenon DEF FirstSaid
    <3>2. \A i \in DataOf(f) : j <= i
      BY <1>0, <3>1
    <3> QED
      BY <1>5, <2>1, <2>3, <3>2, Zenon DEF FirstSaid
  <2> QED
    BY <2>2, <2>3
<1>11. LastSaid(f, u, j + 1)
  <2> PICK x \in Nat : x = v.last
    BY <1>6
  <2> PICK y \in Nat : y = u.last
    BY <1>8 DEF Memory
  <2>1. y = (IF end > x THEN end ELSE x) /\ end <= y /\ x <= y
    BY <1>5
  <2>2. ASSUME NEW i \in DataOf(f), i < j + 1 PROVE EndOf(f[i]) <= y
    <3>1. CASE i = j
      BY <1>2, <2>1, <3>1
    <3>2. CASE i # j
      <4>1. i < j
        BY <1>9, <2>2, <3>2
      <4>2. EndOf(f[i]) <= x
        BY <1>3, <4>1 DEF LastSaid
      <4>3. EndOf(f[i]) \in Int
        <5>1. f[i] \in HexRec
          BY <1>0
        <5>2. f[i].addr \in Int /\ Len(f[i].data) \in Int
          BY <5>1, RecordIs, EncodedLength, Bases
        <5>3. PICK q \in Int, z \in Int : q = f[i].addr /\ z = Len(f[i].data)
          BY <5>2
        <5>4. q + z - 1 \in Int
          BY <5>3
        <5> QED
          BY <5>3, <5>4, Zenon DEF EndOf
      <4> QED
        BY <2>1, <4>2, <4>3
    <3> QED
      BY <3>1, <3>2
  <2>3. \E i \in DataOf(f) : i < j + 1 /\ y = EndOf(f[i])
    <3>1. CASE end > x
      <4>1. j < j + 1 /\ y = EndOf(f[j])
        BY <1>0, <1>2, <2>1, <3>1
      <4> QED
        BY <4>1
    <3>2. CASE ~ end > x
      <4>1. v.have
        <5> SUFFICES ASSUME ~ v.have PROVE FALSE
          OBVIOUS
        <5>1. x = 0
          BY <1>3 DEF FirstSaid
        <5> QED
          BY <1>2, <3>2, <5>1
      <4>2. PICK i \in DataOf(f) : i < j /\ x = EndOf(f[i])
        BY <1>3, <4>1, Zenon DEF LastSaid
      <4>3. i < j + 1 /\ y = EndOf(f[i])
        BY <1>9, <2>1, <3>2, <4>2
      <4> QED
        BY <4>3
    <3> QED
      BY <3>1, <3>2
  <2> QED
    BY <2>2, <2>3, Zenon DEF LastSaid
<1>12. ImageSaid(f, u, j + 1, base)
  <2> SUFFICES ASSUME u.last < n, NEW a \in 0 .. n - 1, a \in base .. base + WinSz - 1
               PROVE  CellSaid(f, u, j + 1, a)
    BY DEF ImageSaid
  <2>1. v.last < n /\ ad + l <= n
    <3> PICK x \in Nat : x = v.last
      BY <1>6
    <3>1. u.last = (IF end > x THEN end ELSE x)
      BY <1>5
    <3>2. end < n /\ x < n
      BY <3>1
    <3> QED
      BY <1>1, <3>2
  <2>2. CellSaid(f, v, j, a)
    BY <1>3, <2>1 DEF ImageSaid
  <2>3. /\ ((a - ad) % n) + 1 <= l <=> a >= ad /\ a < ad + l
        /\ a >= ad => ((a - ad) % n) + 1 = a - ad + 1
    <3>1. l \in Nat \ {0}
      BY <1>1
    <3>2. Wraps(n, a, ad, l)
      BY <2>1, <3>1, WrapIs
    <3> QED
      BY <3>2, Zenon DEF Wraps
  <2>4. Covers(f[j], a) <=> a >= ad /\ a < ad + l
    BY Zenon DEF Covers
  <2>5. u.image[a] = IF Covers(f[j], a) THEN d[a - ad + 1] ELSE v.image[a]
    <3>1. img[a] = IF put(a) THEN d[((a - ad) % n) + 1] ELSE v.image[a]
      BY <1>6
    <3>2. put(a) <=> Covers(f[j], a)
      BY <2>3, <2>4, Zenon
    <3> QED
      BY <1>5, <2>3, <2>4, <3>1, <3>2, Zenon
  <2>6. CASE Covers(f[j], a)
    <3>1. \E i \in DataOf(f) : i < j + 1 /\ Covers(f[i], a)
      BY <1>9, <2>6
    <3>2. ASSUME NEW i \in DataOf(f), i < j + 1,
                 \A k \in DataOf(f) : k < j + 1 /\ Covers(f[k], a) => k <= i
          PROVE  i = j
      <4>1. j <= i
        BY <1>9, <2>6, <3>2
      <4> QED
        BY <1>0, <3>2, <4>1
    <3>3. u.image[a] = f[j].data[a - f[j].addr + 1]
      BY <2>5, <2>6, Zenon
    <3> QED
      BY <3>1, <3>2, <3>3, Zenon DEF CellSaid
  <2>7. CASE ~ Covers(f[j], a)
    <3>1. u.image[a] = v.image[a]
      BY <2>5, <2>7, Zenon
    <3>2. \A i \in DataOf(f) : i < j + 1 /\ Covers(f[i], a) <=> i < j /\ Covers(f[i], a)
      BY <1>9, <2>7, Zenon
    <3> QED
      BY <2>2, <3>1, <3>2, Zenon DEF CellSaid
  <2> QED
    BY <2>6, <2>7
<1>13. Describes(f, u, j + 1, base)
  BY <1>5, <1>8, <1>10, <1>11, <1>12, Zenon DEF Describes
<1> QED
  BY <1>13

----------------------------------------------------------------------------
(* A pass over the file.                                                    *)

\* s is f written down, with a wrong digit at o, or none if o is 0.
ReadFrom(f, s, o) ==
  /\ f \in Seq(HexRec) /\ s \in Seq(Chrs) /\ o \in Nat /\ Len(s) = Len(EncodeAll(f))
  /\ \A x \in 1 .. Len(s) : x # o => s[x] = EncodeAll(f)[x]
  /\ o # 0 => s[o] \in 0 .. Radix - 1 /\ s[o] # EncodeAll(f)[o]

LEMMA NearThere ==
  ASSUME NEW f, NEW s, NEW o, ReadFrom(f, s, o), NEW j \in 1 .. Len(f)
  PROVE  Near(s, PlaceOf(f, j), f[j], o)
<1>1. f \in Seq(HexRec) /\ s \in Seq(Chrs) /\ o \in Nat /\ Len(s) = Len(EncodeAll(f))
      /\ (\A x \in 1 .. Len(s) : x # o => s[x] = EncodeAll(f)[x])
      /\ (o # 0 => s[o] \in 0 .. Radix - 1)
  BY DEF ReadFrom
<1>2. f[j] \in HexRec
  BY <1>1
<1>3. PICK r \in HexRec : r = f[j]
  BY <1>2
<1>4. PICK e \in Seq(Chrs) : e = Encode(r)
  BY EncodeIs DEF Written
<1>5. Len(e) >= 2 /\ \A k \in 2 .. Len(e) - 1 : e[k] \in 0 .. Radix - 1
  <2>1. PICK n \in Nat : n = Len(InBytes(r))
    BY EncodedLength
  <2>2. Len(e) = 2 * n + 2 /\ \A k \in 2 .. 2 * n + 1 : e[k] \in 0 .. Radix - 1
    BY <1>4, <2>1, EncodeIs, Zenon DEF Written
  <2>3. Len(e) - 1 = 2 * n + 1 /\ Len(e) >= 2
    BY <2>1, <2>2
  <2> QED
    BY <2>2, <2>3
<1>6. PICK p \in Nat : p = PlaceOf(f, j) /\ p + Len(e) <= Len(s)
                       /\ \A k \in 1 .. Len(e) : EncodeAll(f)[p + k] = e[k]
  BY <1>1, <1>3, <1>4, Stands DEF Standing
<1>7. ASSUME NEW k \in 1 .. Len(e), p + k # o PROVE s[p + k] = e[k]
  <2>1. p + k \in 1 .. Len(s)
    BY <1>6
  <2> QED
    BY <1>1, <1>6, <1>7, <2>1, Zenon
<1>8. ASSUME NEW k \in 2 .. Len(e) - 1 PROVE s[p + k] \in 0 .. Radix - 1
  <2>1. k \in 1 .. Len(e) /\ p + k # 0
    BY <1>5, <1>6
  <2>2. CASE p + k = o
    BY <1>1, <2>1, <2>2, Zenon
  <2>3. CASE p + k # o
    BY <1>5, <1>7, <2>1, <2>3, Zenon
  <2> QED
    BY <2>2, <2>3
<1>9. Near(s, p, r, o)
  BY <1>1, <1>4, <1>6, <1>7, <1>8, Zenon DEF Near
<1> QED
  BY <1>3, <1>6, <1>9, Zenon

TakenFrom(f, s, j) == Taken(s)[PlaceOf(f, j) + 1]

TakenStep(f, s, j) ==
  IF f[j].tt = 1 THEN <<>>
  ELSE IF f[j].tt # 0 THEN TakenFrom(f, s, j + 1)
  ELSE IF Refused(f[j]) THEN <<-1>>
  ELSE <<PlaceOf(f, j) + 2>> \o TakenFrom(f, s, j + 1)

LEMMA TakenNext ==
  ASSUME NEW f, NEW s, NEW o, ReadFrom(f, s, o), NEW j \in 1 .. Len(f),
         o \notin PlaceOf(f, j) + 1 .. PlaceOf(f, j) + Len(Encode(f[j]))
  PROVE  TakenFrom(f, s, j) = TakenStep(f, s, j)
<1>1. f \in Seq(HexRec) /\ s \in Seq(Chrs)
  BY DEF ReadFrom
<1>2. f[j] \in HexRec
  BY <1>1
<1>3. Near(s, PlaceOf(f, j), f[j], o)
  BY NearThere
<1>4. Taken(s)[PlaceOf(f, j) + 1] = TakesRecord(s, PlaceOf(f, j), f[j])
  BY <1>1, <1>2, <1>3, RecordTaken
<1>5. PlaceOf(f, j + 1) = PlaceOf(f, j) + Len(Encode(f[j]))
  BY <1>1, PlacesAre
<1> QED
  BY <1>4, <1>5, Zenon DEF TakesRecord, TakenStep, TakenFrom

LEMMA TakenTyped ==
  ASSUME NEW f, NEW s, NEW o, ReadFrom(f, s, o)
  PROVE  /\ \A j \in 1 .. Len(f) + 1 : TakenFrom(f, s, j) \in Seq(Int)
         /\ TakenFrom(f, s, Len(f) + 1) = <<>> /\ TakenFrom(f, s, 1) = Taken(s)[1]
<1>1. f \in Seq(HexRec) /\ s \in Seq(Chrs) /\ Len(s) = Len(EncodeAll(f))
  BY DEF ReadFrom
<1>2. PlaceOf(f, 1) = 0 /\ PlaceOf(f, Len(f) + 1) = Len(s)
  BY <1>1, PlacesAre
<1>3. TakenFrom(f, s, Len(f) + 1) = <<>>
  BY <1>1, <1>2, NothingBehind, Zenon DEF TakenFrom
<1>4. ASSUME NEW j \in 1 .. Len(f) + 1 PROVE TakenFrom(f, s, j) \in Seq(Int)
  <2>1. CASE j = Len(f) + 1
    <3>1. <<>> \in Seq(Int)
      OBVIOUS
    <3> QED
      BY <1>3, <2>1, <3>1, Zenon
  <2>2. CASE j # Len(f) + 1
    <3>1. j \in 1 .. Len(f)
      BY <1>1, <2>2
    <3>2. Near(s, PlaceOf(f, j), f[j], o)
      BY <3>1, NearThere
    <3>3. PICK p \in Nat : p = PlaceOf(f, j) /\ p + Len(Encode(f[j])) <= Len(s)
      BY <3>2 DEF Near
    <3>4. Len(Encode(f[j])) \in Nat
      <4>1. f[j] \in HexRec
        BY <1>1, <3>1
      <4> QED
        BY <4>1, EncodedLength
    <3>5. p + 1 \in 1 .. Len(s) + 1
      BY <1>1, <3>3, <3>4
    <3> QED
      BY <1>1, <3>3, <3>5, TakenIs, Zenon DEF TakenFrom
  <2> QED
    BY <2>1, <2>2
<1>5. 0 + 1 = 1
  OBVIOUS
<1> QED
  BY <1>2, <1>3, <1>4, <1>5, Zenon DEF TakenFrom

LEMMA DataIsLoaded ==
  ASSUME NEW f, NEW s, NEW o, ReadFrom(f, s, o), NEW j \in 1 .. Len(f),
         o \notin PlaceOf(f, j) + 1 .. PlaceOf(f, j) + Len(Encode(f[j])), NEW base, NEW v
  PROVE  TakeRecord(s, base, v, PlaceOf(f, j) + 2) = LoadRecord(v, f[j].addr, f[j].data, base)
<1>1. f \in Seq(HexRec) /\ s \in Seq(Chrs)
  BY DEF ReadFrom
<1>2. f[j] \in HexRec
  BY <1>1
<1>3. Near(s, PlaceOf(f, j), f[j], o)
  BY NearThere
<1>4. RecordRead(s, PlaceOf(f, j), f[j])
  BY <1>1, <1>2, <1>3, RecordIsRead
<1>5. PlaceOf(f, j) + 2 # -1
  <2> PICK p \in Nat : p = PlaceOf(f, j)
    BY <1>3 DEF Near
  <2> QED
    OBVIOUS
<1> QED
  BY <1>4, <1>5, Zenon DEF TakeRecord, RecordRead

Fails(t) == \E k \in 1 .. Len(t) : t[k] = -1

LEMMA FailsBehind ==
  ASSUME NEW t \in Seq(Int), NEW x \in Nat
  PROVE  /\ Fails(<<x>> \o t) <=> Fails(t)
         /\ ~ Fails(<<>>) /\ Fails(<<-1>>)
<1>1. PICK u : u = <<x>> \o t
  OBVIOUS
<1>2. PICK n \in Nat : n = Len(t)
  OBVIOUS
<1>3. Len(u) = n + 1 /\ u[1] = x /\ \A k \in 1 .. n : u[k + 1] = t[k]
  BY <1>1, <1>2
<1>4. ASSUME Fails(u) PROVE Fails(t)
  <2>1. PICK k \in 1 .. n + 1 : u[k] = -1
    BY <1>3, <1>4 DEF Fails
  <2>2. k # 1
    BY <1>3, <2>1
  <2>3. k - 1 \in 1 .. n /\ (k - 1) + 1 = k
    BY <2>2
  <2>4. t[k - 1] = -1
    BY <1>3, <2>1, <2>3, Zenon
  <2> QED
    BY <1>2, <2>3, <2>4, Zenon DEF Fails
<1>5. ASSUME Fails(t) PROVE Fails(u)
  <2>1. PICK k \in 1 .. n : t[k] = -1
    BY <1>2, <1>5 DEF Fails
  <2>2. k + 1 \in 1 .. Len(u)
    BY <1>2, <1>3
  <2>3. u[k + 1] = -1
    BY <1>3, <2>1, Zenon
  <2> QED
    BY <2>2, <2>3, Zenon DEF Fails
<1>6. ~ Fails(<<>>)
  BY DEF Fails
<1>7. Fails(<<-1>>)
  <2>1. 1 \in 1 .. Len(<<-1>>) /\ <<-1>>[1] = -1
    OBVIOUS
  <2> QED
    BY <2>1, Zenon DEF Fails
<1> QED
  BY <1>1, <1>4, <1>5, <1>6, <1>7

Outcome(f, m, t, base) == IF Fails(t) THEN m.err = TRUE ELSE Describes(f, m, Len(f) + 1, base)
NoEndBefore(f, j) == \A e \in 1 .. Len(f) : e < j => f[e].tt # 1

\* Reading on from record j, over what the records before it load.
ReadsOn(f, s, base, j) ==
  \A v : Describes(f, v, j, base) /\ NoEndBefore(f, j)
           => Outcome(f, FoldFrom(s, base, v, TakenFrom(f, s, j)), TakenFrom(f, s, j), base)

LEMMA ReadsStep ==
  ASSUME NEW f, NEW s, ReadFrom(f, s, 0), InSpace(f), NEW base \in Nat, NEW j \in 1 .. Len(f),
         ReadsOn(f, s, base, j + 1)
  PROVE  ReadsOn(f, s, base, j)
<1> SUFFICES ASSUME NEW v, Describes(f, v, j, base), NoEndBefore(f, j)
             PROVE  Outcome(f, FoldFrom(s, base, v, TakenFrom(f, s, j)), TakenFrom(f, s, j), base)
  BY Zenon DEF ReadsOn
<1>1. f \in Seq(HexRec) /\ f[j] \in HexRec /\ j \in Nat /\ DataOf(f) \subseteq 1 .. Len(f)
  BY DEF ReadFrom, DataOf
<1>2. PICK t : t = TakenFrom(f, s, j)
  OBVIOUS
<1>3. PICK u \in Seq(Int) : u = TakenFrom(f, s, j + 1)
  <2>1. j + 1 \in 1 .. Len(f) + 1
    BY <1>1
  <2> QED
    BY <2>1, TakenTyped
<1>4. PICK p \in Nat : p = PlaceOf(f, j)
  <2>1. j \in 1 .. Len(f) + 1
    BY <1>1
  <2> QED
    BY <1>1, <2>1, PlacesAre
<1>5. 0 \notin p + 1 .. p + Len(Encode(f[j]))
  BY EncodedLength, <1>1
<1>6. t = IF f[j].tt = 1 THEN <<>> ELSE IF f[j].tt # 0 THEN u
          ELSE IF Refused(f[j]) THEN <<-1>> ELSE <<p + 2>> \o u
  <2>1. TakenFrom(f, s, j) = TakenStep(f, s, j)
    BY <1>4, <1>5, TakenNext
  <2> QED
    BY <1>2, <1>3, <1>4, <2>1, Zenon DEF TakenStep
<1>7. CASE f[j].tt = 1
  <2>1. \A i \in DataOf(f) : i < j <=> i < Len(f) + 1
    <3>1. \A i \in DataOf(f) : i < j
      BY <1>1, <1>7 DEF DataOf
    <3> QED
      BY <1>1, <3>1
  <2>2. Describes(f, v, Len(f) + 1, base)
    BY <2>1, DescribesOn
  <2>3. t = <<>>
    BY <1>6, <1>7
  <2>4. FoldFrom(s, base, v, <<>>) = v
    BY FoldNone
  <2>5. ~ Fails(<<>>)
    BY DEF Fails
  <2> QED
    BY <1>2, <2>2, <2>3, <2>4, <2>5, Zenon DEF Outcome
<1>8. ASSUME f[j].tt # 1 PROVE NoEndBefore(f, j + 1)
  BY <1>1, <1>8 DEF NoEndBefore
<1>9. ASSUME j \notin DataOf(f) PROVE Describes(f, v, j + 1, base)
  <2>1. \A i \in DataOf(f) : i < j <=> i < j + 1
    BY <1>1, <1>9
  <2> QED
    BY <2>1, DescribesOn
<1>10. CASE f[j].tt # 1 /\ f[j].tt # 0
  <2>1. j \notin DataOf(f)
    BY <1>10 DEF DataOf
  <2>2. Describes(f, v, j + 1, base) /\ NoEndBefore(f, j + 1)
    BY <1>8, <1>9, <1>10, <2>1
  <2>3. t = u
    BY <1>6, <1>10
  <2> QED
    BY <1>2, <1>3, <2>2, <2>3, Zenon DEF ReadsOn
<1>11. CASE f[j].tt = 0 /\ Refused(f[j])
  <2>1. t = <<-1>>
    BY <1>6, <1>11
  <2>2. FoldFrom(s, base, v, <<-1>>) = [v EXCEPT !.err = TRUE]
    BY FoldError
  <2>3. [v EXCEPT !.err = TRUE].err = TRUE
    BY DEF Describes, Memory
  <2>4. Fails(<<-1>>)
    <3>1. 1 \in 1 .. Len(<<-1>>) /\ <<-1>>[1] = -1
      OBVIOUS
    <3> QED
      BY <3>1, Zenon DEF Fails
  <2> QED
    BY <1>2, <2>1, <2>2, <2>3, <2>4, Zenon DEF Outcome
<1>12. CASE f[j].tt = 0 /\ ~ Refused(f[j])
  <2>1. PICK x \in Nat : x = p + 2
    OBVIOUS
  <2>2. t = <<x>> \o u
    <3>1. f[j].tt # 1
      BY <1>12
    <3> QED
      BY <1>6, <1>12, <2>1, <3>1, Zenon
  <2>3. PICK m : m = LoadRecord(v, f[j].addr, f[j].data, base)
    OBVIOUS
  <2>4. TakeRecord(s, base, v, x) = m
    BY <1>4, <1>5, <2>1, <2>3, DataIsLoaded
  <2>5. FoldFrom(s, base, v, t) = FoldFrom(s, base, m, u)
    <3>1. x \in Int
      OBVIOUS
    <3>2. FoldFrom(s, base, v, <<x>> \o u) = FoldFrom(s, base, TakeRecord(s, base, v, x), u)
      BY <3>1, FoldFirst
    <3> QED
      BY <2>2, <2>4, <3>2, Zenon
  <2>6. Describes(f, m, j + 1, base)
    <3>1. CASE j \in DataOf(f)
      BY <1>1, <1>12, <2>3, <3>1, DescribesLoaded
    <3>2. CASE j \notin DataOf(f)
      <4>1. f[j].data = <<>>
        <5> SUFFICES ASSUME f[j].data # <<>> PROVE j \in DataOf(f)
          BY <3>2
        <5>1. \A e \in DOMAIN f : f[e].tt = 1 => j < e
          <6> SUFFICES ASSUME NEW e \in 1 .. Len(f), f[e].tt = 1 PROVE j < e
            BY <1>1
          <6>1. ~ e < j
            BY DEF NoEndBefore
          <6>2. e # j
            BY <1>12
          <6> QED
            BY <1>1, <6>1, <6>2
        <5>2. j \in DOMAIN f
          BY <1>1
        <5> QED
          BY <1>12, <5>1, <5>2, Zenon DEF DataOf
      <4>2. m = v
        BY <2>3, <4>1, Zenon DEF LoadRecord
      <4> QED
        BY <1>9, <3>2, <4>2
    <3> QED
      BY <3>1, <3>2
  <2>7. NoEndBefore(f, j + 1)
    <3>1. f[j].tt # 1
      BY <1>12
    <3> QED
      BY <1>8, <3>1
  <2>8. Outcome(f, FoldFrom(s, base, m, u), u, base)
    BY <1>3, <2>6, <2>7, Zenon DEF ReadsOn
  <2>9. Fails(t) <=> Fails(u)
    BY <2>2, FailsBehind
  <2> QED
    BY <1>2, <2>5, <2>8, <2>9, Zenon DEF Outcome
<1>13. f[j].tt = 1 \/ (f[j].tt # 1 /\ f[j].tt # 0) \/ f[j].tt = 0
  OBVIOUS
<1> QED
  BY <1>7, <1>10, <1>11, <1>12, <1>13

LEMMA NothingSaid ==
  ASSUME NEW f \in Seq(HexRec), NEW base
  PROVE  Describes(f, NothingRead, 1, base)
<1>1. PICK v : v = NothingRead
  OBVIOUS
<1>2. /\ v.first = 0 /\ v.last = 0 /\ v.have = FALSE /\ v.err = FALSE
      /\ v.image = [a \in 0 .. AddrSp - 1 |-> 0]
  BY <1>1 DEF NothingRead
<1>3. v \in Memory
  <2>1. [a \in 0 .. AddrSp - 1 |-> 0] \in [0 .. AddrSp - 1 -> Nat] /\ 0 \in Nat
    OBVIOUS
  <2> QED
    BY <1>1, <2>1 DEF NothingRead, Memory
<1>4. \A i \in DataOf(f) : ~ i < 1
  BY DEF DataOf
<1>5. FirstSaid(f, v, 1)
  BY <1>2, <1>4, Zenon DEF FirstSaid
<1>6. LastSaid(f, v, 1)
  BY <1>2, <1>4, Zenon DEF LastSaid
<1>7. ImageSaid(f, v, 1, base)
  <2>1. ASSUME NEW a \in 0 .. AddrSp - 1 PROVE CellSaid(f, v, 1, a)
    <3>1. v.image[a] = 0
      BY <1>2
    <3> QED
      BY <1>4, <3>1, Zenon DEF CellSaid
  <2> QED
    BY <2>1, Zenon DEF ImageSaid
<1> QED
  BY <1>1, <1>2, <1>3, <1>5, <1>6, <1>7, Zenon DEF Describes

\* A pass over a file without a wrong digit.
LEMMA ScanRight ==
  ASSUME NEW f, NEW s, ReadFrom(f, s, 0), InSpace(f), NEW base \in Nat
  PROVE  Outcome(f, Scan(s, base), Taken(s)[1], base)
<1>1. f \in Seq(HexRec)
  BY DEF ReadFrom
<1>2. PICK n \in Nat : n = Len(f)
  BY <1>1
<1> DEFINE T == {k \in Nat : k <= n => ReadsOn(f, s, base, n + 1 - k)}
<1>3. 0 \in T
  <2>1. n + 1 - 0 = Len(f) + 1
    BY <1>2
  <2>2. ReadsOn(f, s, base, Len(f) + 1)
    <3>1. TakenFrom(f, s, Len(f) + 1) = <<>>
      BY TakenTyped
    <3>2. \A v : FoldFrom(s, base, v, <<>>) = v
      BY FoldNone
    <3>3. ~ Fails(<<>>)
      BY DEF Fails
    <3> QED
      BY <3>1, <3>2, <3>3, Zenon DEF ReadsOn, Outcome
  <2> QED
    BY <2>1, <2>2
<1>4. ASSUME NEW k \in Nat, k \in T PROVE k + 1 \in T
  <2> SUFFICES ASSUME k + 1 <= n PROVE ReadsOn(f, s, base, n + 1 - (k + 1))
    OBVIOUS
  <2>1. PICK j \in 1 .. Len(f) : j = n + 1 - (k + 1) /\ j + 1 = n + 1 - k
    <3>1. n + 1 - (k + 1) \in 1 .. Len(f) /\ (n + 1 - (k + 1)) + 1 = n + 1 - k
      BY <1>2
    <3> QED
      BY <3>1
  <2>2. ReadsOn(f, s, base, j + 1)
    BY <1>4, <2>1
  <2>3. ReadsOn(f, s, base, j)
    BY <2>2, ReadsStep
  <2> QED
    BY <2>1, <2>3, Zenon
<1>5. n \in T
  <2> HIDE DEF T
  <2> QED
    BY <1>3, <1>4, Numbers!NumbersReached
<1>6. ReadsOn(f, s, base, 1)
  <2>1. n + 1 - n = 1 /\ n <= n
    OBVIOUS
  <2>2. ReadsOn(f, s, base, n + 1 - n)
    BY <1>5, <2>1
  <2> QED
    BY <2>1, <2>2, Zenon
<1>7. Describes(f, NothingRead, 1, base)
  BY <1>1, NothingSaid
<1>8. NoEndBefore(f, 1)
  BY <1>1 DEF NoEndBefore
<1>9. Outcome(f, FoldFrom(s, base, NothingRead, TakenFrom(f, s, 1)), TakenFrom(f, s, 1), base)
  BY <1>6, <1>7, <1>8, Zenon DEF ReadsOn
<1>10. TakenFrom(f, s, 1) = Taken(s)[1]
  BY TakenTyped
<1> QED
  BY <1>9, <1>10, ScanIs, Zenon

HasErr(v) == [v EXCEPT !.err = TRUE].err = TRUE
FailsOn(f, s, base, j) ==
  \A v : HasErr(v) => FoldFrom(s, base, v, TakenFrom(f, s, j)).err = TRUE

\* And over one with a wrong digit in the address, the data or the checksum of a
\* record that counts.
LEMMA ScanFails ==
  ASSUME NEW f, NEW s, NEW o, ReadFrom(f, s, o), NEW base \in Nat, NEW i \in DataOf(f),
         OddDigit(s, PlaceOf(f, i), f[i], o)
  PROVE  Scan(s, base).err = TRUE
<1>1. f \in Seq(HexRec) /\ s \in Seq(Chrs) /\ o \in Nat
  BY DEF ReadFrom
<1>2. i \in 1 .. Len(f) /\ i \in Nat /\ f[i] \in HexRec /\ f[i].tt = 0
      /\ \A e \in 1 .. Len(f) : f[e].tt = 1 => i < e
  BY <1>1 DEF DataOf
<1> DEFINE T == {k \in Nat : k < i => FailsOn(f, s, base, i - k)}
<1>3. 0 \in T
  <2>1. Near(s, PlaceOf(f, i), f[i], o)
    BY <1>2, NearThere
  <2>2. TakenFrom(f, s, i) = <<-1>>
    BY <1>1, <1>2, <2>1, OddTaken, Zenon DEF TakenFrom
  <2>3. \A v : FoldFrom(s, base, v, <<-1>>) = [v EXCEPT !.err = TRUE]
    BY FoldError
  <2>4. FailsOn(f, s, base, i)
    BY <2>2, <2>3, Zenon DEF FailsOn, HasErr
  <2>5. i - 0 = i
    BY <1>2
  <2> QED
    BY <2>4, <2>5
<1>4. ASSUME NEW k \in Nat, k \in T PROVE k + 1 \in T
  <2> SUFFICES ASSUME k + 1 < i PROVE FailsOn(f, s, base, i - (k + 1))
    OBVIOUS
  <2>1. PICK j \in 1 .. Len(f) : j = i - (k + 1) /\ j + 1 = i - k /\ j < i
    <3>1. i - (k + 1) \in 1 .. Len(f) /\ (i - (k + 1)) + 1 = i - k /\ i - (k + 1) < i
      BY <1>1, <1>2
    <3> QED
      BY <3>1
  <2>2. FailsOn(f, s, base, j + 1)
    <3>1. k < i
      BY <1>2
    <3>2. FailsOn(f, s, base, i - k)
      BY <1>4, <3>1
    <3> QED
      BY <2>1, <3>2, Zenon
  <2>3. o \notin PlaceOf(f, j) + 1 .. PlaceOf(f, j) + Len(Encode(f[j]))
    <3>1. PlaceOf(f, j + 1) <= PlaceOf(f, i) /\ PlaceOf(f, j + 1) = PlaceOf(f, j) + Len(Encode(f[j]))
      BY <1>1, <1>2, <2>1, PlacesRise, PlacesAre
    <3>2. PICK p \in Nat : p = PlaceOf(f, i)
      <4>1. i \in 1 .. Len(f) + 1
        BY <1>1, <1>2
      <4> QED
        BY <1>1, <4>1, PlacesAre
    <3>3. PICK q \in Nat : q = PlaceOf(f, j + 1)
      <4>1. j + 1 \in 1 .. Len(f) + 1
        BY <1>1
      <4> QED
        BY <1>1, <4>1, PlacesAre
    <3>4. o >= p + 4
      BY <1>1, <3>2 DEF OddDigit
    <3> QED
      BY <1>1, <3>1, <3>2, <3>3, <3>4
  <2>4. f[j].tt # 1
    BY <1>2, <2>1
  <2>5. PICK t : t = TakenFrom(f, s, j)
    OBVIOUS
  <2>6. PICK u \in Seq(Int) : u = TakenFrom(f, s, j + 1)
    <3>1. j + 1 \in 1 .. Len(f) + 1
      BY <1>1
    <3> QED
      BY <3>1, TakenTyped
  <2>7. PICK x \in Int : x = PlaceOf(f, j) + 2
    <3>1. j \in 1 .. Len(f) + 1
      BY <1>1
    <3>2. PlaceOf(f, j) \in Nat
      BY <1>1, <3>1, PlacesAre
    <3> QED
      BY <3>2
  <2>8. t = IF f[j].tt # 0 THEN u ELSE IF Refused(f[j]) THEN <<-1>> ELSE <<x>> \o u
    <3>1. TakenFrom(f, s, j) = TakenStep(f, s, j)
      BY <2>3, TakenNext
    <3> QED
      BY <2>4, <2>5, <2>6, <2>7, <3>1, Zenon DEF TakenStep
  <2> SUFFICES ASSUME NEW v, HasErr(v) PROVE FoldFrom(s, base, v, t).err = TRUE
    BY <2>1, <2>5, Zenon DEF FailsOn
  <2>9. CASE f[j].tt # 0
    BY <2>2, <2>6, <2>8, <2>9, Zenon DEF FailsOn
  <2>10. CASE f[j].tt = 0 /\ Refused(f[j])
    <3>1. FoldFrom(s, base, v, <<-1>>) = [v EXCEPT !.err = TRUE]
      BY FoldError
    <3> QED
      BY <2>8, <2>10, <3>1, Zenon DEF HasErr
  <2>11. CASE f[j].tt = 0 /\ ~ Refused(f[j])
    <3>1. PICK m : m = LoadRecord(v, f[j].addr, f[j].data, base)
      OBVIOUS
    <3>2. TakeRecord(s, base, v, x) = m
      BY <2>3, <2>7, <3>1, DataIsLoaded
    <3>3. FoldFrom(s, base, v, <<x>> \o u) = FoldFrom(s, base, m, u)
      BY <3>2, FoldFirst
    <3>4. HasErr(m)
      <4>1. CASE f[j].data = <<>>
        BY <3>1, <4>1, Zenon DEF LoadRecord
      <4>2. CASE f[j].data # <<>>
        <5>1. PICK a, b, c : m = [first |-> a, have |-> TRUE, err |-> FALSE, last |-> b, image |-> c]
          BY <3>1, <4>2 DEF LoadRecord
        <5> QED
          BY <5>1 DEF HasErr
      <4> QED
        BY <4>1, <4>2
    <3>5. FoldFrom(s, base, m, u).err = TRUE
      BY <2>2, <2>6, <3>4, Zenon DEF FailsOn
    <3> QED
      BY <2>8, <2>11, <3>3, <3>5, Zenon
  <2> QED
    BY <2>9, <2>10, <2>11
<1>5. i - 1 \in T /\ i - 1 \in Nat
  <2>1. i - 1 \in Nat
    BY <1>2
  <2> HIDE DEF T
  <2> QED
    BY <1>3, <1>4, <2>1, Numbers!NumbersReached
<1>6. FailsOn(f, s, base, 1)
  <2>1. i - (i - 1) = 1 /\ i - 1 < i
    BY <1>2
  <2>2. FailsOn(f, s, base, i - (i - 1))
    BY <1>5, <2>1
  <2> QED
    BY <2>1, <2>2, Zenon
<1>7. HasErr(NothingRead)
  BY DEF HasErr, NothingRead
<1>8. FoldFrom(s, base, NothingRead, TakenFrom(f, s, 1)).err = TRUE
  BY <1>6, <1>7, Zenon DEF FailsOn
<1>9. TakenFrom(f, s, 1) = Taken(s)[1]
  BY TakenTyped
<1> QED
  BY <1>8, <1>9, ScanIs, Zenon

----------------------------------------------------------------------------
(* The program.                                                             *)

\* What is meant to be at an address, from the first byte on.
CellMeant(a) == IF Loaded(a) # {} THEN ByteMeant(a) ELSE IF a > LastMeant THEN Fill ELSE 0

LEMMA DataIs == DataRecs = DataOf(recs)
  BY DEF DataRecs, DataOf

LEMMA FirstMeant ==
  ASSUME recs \in Seq(HexRec), NEW v, NEW base, Describes(recs, v, Len(recs) + 1, base)
  PROVE  v.first = AddrMeant /\ v.last = LastMeant /\ v.first \in Nat /\ v.last \in Nat
         /\ v.first <= v.last
<1>1. PICK D : D = DataRecs
  OBVIOUS
<1>2. PICK n \in Nat : n = Len(recs)
  OBVIOUS
<1>3. D = DataOf(recs) /\ D \subseteq 1 .. n
  BY <1>1, <1>2, DataIs DEF DataOf
<1>4. \A i \in D : i < n + 1
  BY <1>3
<1>5. /\ v.have <=> D # {}
      /\ ~ v.have => v.first = 0 /\ v.last = 0
      /\ v.have => \E i \in D : v.first = recs[i].addr /\ \A k \in D : i <= k
      /\ \A i \in D : EndOf(recs[i]) <= v.last
      /\ v.have => \E i \in D : v.last = EndOf(recs[i])
  <2>1. FirstSaid(recs, v, n + 1) /\ LastSaid(recs, v, n + 1)
    BY <1>2, Zenon DEF Describes
  <2> QED
    BY <1>3, <1>4, <2>1, Zenon DEF FirstSaid, LastSaid
<1>6. v.first \in Nat /\ v.last \in Nat
  BY DEF Describes, Memory
<1>7. \A i \in D : recs[i].addr \in Nat /\ EndOf(recs[i]) \in Nat /\ recs[i].addr <= EndOf(recs[i])
  <2> SUFFICES ASSUME NEW i \in D
               PROVE  recs[i].addr \in Nat /\ EndOf(recs[i]) \in Nat /\ recs[i].addr <= EndOf(recs[i])
    OBVIOUS
  <2>1. recs[i] \in HexRec /\ recs[i].data # <<>>
    BY <1>2, <1>3 DEF DataOf
  <2>2. PICK d \in Seq(Octets) : d = recs[i].data
    BY <2>1, RecordIs
  <2>3. PICK a \in Nat : a = recs[i].addr
    BY <2>1, RecordIs, Bases
  <2>4. PICK l \in Nat : l = Len(d) /\ l >= 1
    BY <2>1, <2>2
  <2>5. EndOf(recs[i]) = a + l - 1
    BY <2>2, <2>3, <2>4, Zenon DEF EndOf
  <2>6. a + l - 1 \in Nat /\ a <= a + l - 1
    BY <2>4
  <2> QED
    BY <2>3, <2>5, <2>6, Zenon
<1>8. CASE D = {}
  <2>1. v.first = 0 /\ v.last = 0
    BY <1>5, <1>8, Zenon
  <2>2. AddrMeant = 0
    BY <1>1, <1>8, Zenon DEF AddrMeant
  <2>3. {recs[i].addr + Len(recs[i].data) - 1 : i \in DataRecs} = {}
    BY <1>1, <1>8
  <2>4. LastMeant = 0
    BY <2>3, Zenon DEF LastMeant
  <2> QED
    BY <1>6, <2>1, <2>2, <2>4
<1>9. CASE D # {}
  <2>1. PICK i \in D : v.first = recs[i].addr /\ \A k \in D : i <= k
    BY <1>5, <1>9, Zenon
  <2>2. PICK c : c = CHOOSE x \in D : \A j \in D : x <= j
    OBVIOUS
  <2>3. c \in D /\ \A j \in D : c <= j
    BY <2>1, <2>2, Zenon
  <2>4. c = i
    <3>1. c <= i /\ i <= c /\ c \in Nat /\ i \in Nat
      BY <1>3, <2>1, <2>3
    <3> QED
      BY <3>1
  <2>5. AddrMeant = recs[c].addr
    BY <1>1, <1>9, <2>2, Zenon DEF AddrMeant
  <2>6. PICK E : E = {recs[k].addr + Len(recs[k].data) - 1 : k \in D}
    OBVIOUS
  <2>7. \A x : x \in E <=> \E k \in D : x = EndOf(recs[k])
    BY <2>6, Zenon DEF EndOf
  <2>8. v.last \in E /\ \A x \in E : x <= v.last
    BY <1>5, <1>9, <2>7, Zenon
  <2>9. PICK y : y = CHOOSE x \in E : \A z \in E : z <= x
    OBVIOUS
  <2>10. y \in E /\ \A z \in E : z <= y
    BY <2>8, <2>9, Zenon
  <2>11. y = v.last
    <3>1. y \in Nat
      BY <1>7, <2>7, <2>10, Zenon
    <3>2. y <= v.last /\ v.last <= y
      BY <2>8, <2>10, Zenon
    <3> QED
      BY <1>6, <3>1, <3>2
  <2>12. LastMeant = y
    <3>1. E # {}
      BY <2>8
    <3> QED
      BY <1>1, <2>6, <2>9, <3>1, Zenon DEF LastMeant
  <2>13. v.first <= v.last
    <3>1. EndOf(recs[i]) <= v.last /\ v.first <= EndOf(recs[i]) /\ EndOf(recs[i]) \in Nat
      BY <1>5, <1>7, <2>1, Zenon
    <3> QED
      BY <1>6, <3>1
  <2> QED
    BY <1>6, <2>1, <2>4, <2>5, <2>11, <2>12, <2>13
<1> QED
  BY <1>8, <1>9

LEMMA ImageMeant ==
  ASSUME recs \in Seq(HexRec), NEW v, NEW base \in Nat, Describes(recs, v, Len(recs) + 1, base),
         NEW a \in Nat, v.last < AddrSp
  PROVE  /\ a > v.last => CellMeant(a) = Fill
         /\ a <= v.last /\ a \in base .. base + WinSz - 1 => v.image[a] = CellMeant(a)
<1>1. PICK D : D = DataOf(recs)
  OBVIOUS
<1>2. PICK n \in Nat : n = Len(recs)
  OBVIOUS
<1>3. D \subseteq 1 .. n /\ \A i \in D : i < n + 1
  BY <1>1, <1>2 DEF DataOf
<1>4. PICK top \in Nat : top = v.last
  BY DEF Describes, Memory
<1>5. top = LastMeant
  BY <1>4, FirstMeant
<1>6. PICK L : L = Loaded(a)
  OBVIOUS
<1>7. L = {i \in D : Covers(recs[i], a)}
  BY <1>1, <1>6, DataIs, Zenon DEF Loaded
<1>8. \A i \in D : Covers(recs[i], a) => a <= top
  <2> SUFFICES ASSUME NEW i \in D, Covers(recs[i], a) PROVE a <= top
    OBVIOUS
  <2>1. EndOf(recs[i]) <= top
    BY <1>1, <1>2, <1>3, <1>4, Zenon DEF Describes, LastSaid
  <2>2. recs[i] \in HexRec
    BY <1>2, <1>3
  <2>3. PICK ad \in Nat : ad = recs[i].addr
    BY <2>2, RecordIs, Bases
  <2>4. PICK l \in Nat : l = Len(recs[i].data)
    BY <2>2, EncodedLength
  <2>5. a < ad + l
    BY <2>3, <2>4, Zenon DEF Covers
  <2>6. ad + l - 1 <= top
    BY <2>1, <2>3, <2>4, Zenon DEF EndOf
  <2> QED
    BY <1>4, <2>5, <2>6
<1>9. ASSUME a > top PROVE CellMeant(a) = Fill
  <2>1. \A i \in D : ~ Covers(recs[i], a)
    BY <1>4, <1>8, <1>9
  <2>2. L = {}
    BY <1>7, <2>1
  <2> QED
    BY <1>5, <1>6, <1>9, <2>2, Zenon DEF CellMeant
<1>10. ASSUME a <= top, a \in base .. base + WinSz - 1 PROVE v.image[a] = CellMeant(a)
  <2>1. CellSaid(recs, v, n + 1, a)
    <3>1. a \in 0 .. AddrSp - 1
      BY <1>4, <1>10, Bases
    <3>2. ImageSaid(recs, v, n + 1, base)
      BY <1>2, Zenon DEF Describes
    <3> QED
      BY <1>10, <3>1, <3>2, Zenon DEF ImageSaid
  <2>2. CASE L = {}
    <3>1. \A i \in D : ~ Covers(recs[i], a)
      BY <1>7, <2>2
    <3>2. v.image[a] = 0
      BY <1>1, <2>1, <3>1, Zenon DEF CellSaid
    <3>3. ~ a > LastMeant
      BY <1>4, <1>5, <1>10
    <3> QED
      BY <1>6, <2>2, <3>2, <3>3, Zenon DEF CellMeant
  <2>3. CASE L # {}
    <3>1. L \in SUBSET (0 .. n)
      <4>1. L \subseteq D /\ 1 .. n \subseteq 0 .. n
        BY <1>7
      <4> QED
        BY <1>3, <4>1, Zenon
    <3>2. PICK m \in L : \A y \in L : y <= m
      BY <2>3, <3>1, LastPlace
    <3>3. PICK c : c = CHOOSE x \in L : \A y \in L : y <= x
      OBVIOUS
    <3>4. c \in L /\ \A y \in L : y <= c
      BY <3>2, <3>3, Zenon
    <3>5. c \in D /\ Covers(recs[c], a) /\ \A k \in D : k < n + 1 /\ Covers(recs[k], a) => k <= c
      BY <1>7, <3>4
    <3>6. v.image[a] = recs[c].data[a - recs[c].addr + 1]
      BY <1>1, <1>3, <2>1, <3>5, Zenon DEF CellSaid
    <3>7. ByteMeant(a) = recs[c].data[a - recs[c].addr + 1]
      BY <1>6, <3>3, Zenon DEF ByteMeant
    <3> QED
      BY <1>6, <2>3, <3>6, <3>7, Zenon DEF CellMeant
  <2> QED
    BY <2>2, <2>3
<1> QED
  BY <1>4, <1>9, <1>10

\* No record ends behind x.
AllUpTo(f, x) == \A i \in DataOf(f) : EndOf(f[i]) <= x

\* What is written is as meant; while it is written, the addresses are right.
ComRight ==
  /\ com \in Seq(Nat \cup {Fill})
  /\ \A k \in 1 .. Len(com) : com[k] = CellMeant(AddrMeant + (k - 1))
PassRight ==
  /\ ~ Fails(Taken(src)[1])
  /\ first = AddrMeant /\ last = LastMeant /\ first \in Nat /\ last \in Nat /\ first <= last
  /\ AllUpTo(recs, last)
  /\ pos = first + Len(com) /\ pos <= OutEnd /\ OutEnd <= AddrSp

\* No digit is wrong, and an unsigned holds where each record ends.
AsMeant == wrong = 0 /\ InSpace(recs)

HexInv ==
  /\ recs \in Seq(HexRec) /\ ReadFrom(recs, src, wrong) /\ nopad \in BOOLEAN
  /\ pc \in {"open", "check"} => com = <<>>
  /\ wrong # 0 /\ InData => com = <<>> /\ pc \notin {"write", "done"}
  /\ AsMeant => ComRight /\ (pc \in {"write", "done"} => PassRight)
  /\ AsMeant /\ pc = "done" => pos >= OutEnd

LEMMA RecordsAre == recs \in HexFiles => recs \in Seq(HexRec)
<1> SUFFICES ASSUME recs \in HexFiles PROVE recs \in Seq(HexRec)
  OBVIOUS
<1>1. PICK R : R = [addr : 0 .. AddrSp - 1, tt : Octets, data : Seq(Octets)]
  OBVIOUS
<1>2. recs \in Seq(R) /\ \A i \in DOMAIN recs : Len(recs[i].data) < ByteMax
  BY <1>1, HexComAssumption, Zenon
<1>3. \A i \in 1 .. Len(recs) : recs[i] \in R
  BY <1>2
<1>4. \A i \in 1 .. Len(recs) : recs[i] \in HexRec
  <2>1. DOMAIN recs = 1 .. Len(recs)
    BY <1>2
  <2> QED
    BY <1>1, <1>2, <1>3, <2>1, Zenon DEF HexRec
<1>5. recs = [i \in 1 .. Len(recs) |-> recs[i]] /\ Len(recs) \in Nat
  BY <1>2
<1>6. [i \in 1 .. Len(recs) |-> recs[i]] \in Seq(HexRec)
  BY <1>4, <1>5
<1> QED
  BY <1>5, <1>6, Zenon

LEMMA HexInitInv == HexInit => HexInv
<1> SUFFICES ASSUME HexInit PROVE HexInv
  OBVIOUS
<1>1. recs \in Seq(HexRec)
  BY RecordsAre DEF HexInit
<1>2. PICK m \in Seq(Chrs) : m = EncodeAll(recs)
  <2>1. Len(recs) \in 0 .. Len(recs)
    BY <1>1
  <2>2. TextTo(recs, Len(recs)) \in Seq(Chrs)
    BY <1>1, <2>1, TextTyped
  <2> QED
    BY <1>1, <2>2, NoText
<1>3. pc = "open" /\ com = <<>> /\ nopad \in BOOLEAN
  BY DEF HexInit
<1>4. ReadFrom(recs, src, wrong)
  <2>1. CASE wrong = 0 /\ src = m
    BY <1>1, <1>2, <2>1 DEF ReadFrom
  <2>2. CASE wrong \in DOMAIN m /\ \E d \in Digits : d # m[wrong] /\ src = [m EXCEPT ![wrong] = d]
    <3>1. PICK d \in Digits : d # m[wrong] /\ src = [m EXCEPT ![wrong] = d]
      BY <2>2
    <3>2. d \in 0 .. Radix - 1 /\ d \in Chrs
      BY <3>1, HexComAssumption DEF Chrs
    <3>3. wrong \in 1 .. Len(m)
      BY <2>2
    <3>4. src \in Seq(Chrs) /\ Len(src) = Len(m) /\ src[wrong] = d
          /\ \A x \in 1 .. Len(m) : x # wrong => src[x] = m[x]
      BY <3>1, <3>2, <3>3
    <3> QED
      BY <1>1, <1>2, <3>1, <3>2, <3>3, <3>4 DEF ReadFrom
  <2> QED
    BY <1>2, <2>1, <2>2 DEF HexInit
<1>5. ComRight
  BY <1>3 DEF ComRight
<1> QED
  BY <1>1, <1>3, <1>4, <1>5 DEF HexInv

\* Padded is at least the span.
LEMMA PaddedIs ==
  ASSUME nopad \in BOOLEAN, first \in Nat, last \in Nat, first <= last
  PROVE  /\ Span \in Nat \ {0} /\ first + Span = last + 1 /\ Padded \in Nat /\ Span <= Padded
         /\ nopad => Padded = Span
         /\ ~ nopad => Padded % RecSz = 0 /\ Padded < Span + RecSz
<1>1. PICK x \in Nat \ {0} : x = Span
  <2>1. last - first + 1 \in Nat \ {0}
    OBVIOUS
  <2> QED
    BY <2>1 DEF Span
<1>2. first + Span = last + 1
  BY DEF Span
<1>3. CASE nopad
  BY <1>1, <1>2, <1>3 DEF Padded
<1>4. CASE ~ nopad
  <2>1. PICK n \in Nat \ {0} : n = RecSz
    BY Bases
  <2>2. PICK y : y = ((x + n - 1) \div n) * n
    OBVIOUS
  <2>3. y \in Nat /\ y >= x /\ y < x + n /\ y % n = 0
    BY <2>2, RoundedUp
  <2>4. Padded = y
    BY <1>1, <1>4, <2>1, <2>2, Zenon DEF Padded
  <2>5. x <= y
    BY <2>3
  <2> QED
    BY <1>1, <1>2, <1>4, <2>1, <2>3, <2>4, <2>5, Zenon
<1> QED
  BY <1>3, <1>4

SameFile == recs' = recs /\ src' = src /\ wrong' = wrong /\ nopad' = nopad

LEMMA FileSame ==
  ASSUME SameFile
  PROVE  /\ AddrMeant' = AddrMeant /\ LastMeant' = LastMeant /\ InData' = InData
         /\ AsMeant' = AsMeant /\ \A a : CellMeant(a)' = CellMeant(a)
<1>1. recs' = recs /\ wrong' = wrong
  BY DEF SameFile
<1>2. DataRecs' = DataRecs
  BY <1>1 DEF DataRecs
<1>3. AddrMeant' = AddrMeant /\ LastMeant' = LastMeant
  BY <1>1, <1>2 DEF AddrMeant, LastMeant
<1>4. InData' = InData
  BY <1>1, <1>2 DEF InData
<1>5. \A a : Loaded(a)' = Loaded(a)
  BY <1>1, <1>2 DEF Loaded
<1>6. \A a : ByteMeant(a)' = ByteMeant(a)
  BY <1>1, <1>5 DEF ByteMeant
<1>7. AsMeant' = AsMeant
  BY <1>1 DEF AsMeant
<1> QED
  BY <1>3, <1>4, <1>5, <1>6, <1>7 DEF CellMeant

LEMMA HexFailKeeps == HexInv /\ Fail => HexInv'
<1> SUFFICES ASSUME HexInv, Fail PROVE HexInv'
  OBVIOUS
<1>1. SameFile /\ com' = com /\ pc' = "failed"
  BY DEF Fail, SameFile
<1>2. AddrMeant' = AddrMeant /\ InData' = InData /\ AsMeant' = AsMeant /\ \A a : CellMeant(a)' = CellMeant(a)
  BY <1>1, FileSame
<1>3. ComRight => ComRight'
  BY <1>1, <1>2 DEF ComRight
<1> QED
  BY <1>1, <1>2, <1>3 DEF HexInv, SameFile

LEMMA HexSame ==
  ASSUME HexInv, SameFile, pc' = pc, com' = com, first' = first, last' = last, pos' = pos
  PROVE  HexInv'
<1>1. AddrMeant' = AddrMeant /\ LastMeant' = LastMeant /\ InData' = InData /\ AsMeant' = AsMeant
      /\ \A a : CellMeant(a)' = CellMeant(a)
  BY FileSame
<1>2. ComRight => ComRight'
  BY <1>1 DEF ComRight
<1>3. OutEnd' = OutEnd
  BY DEF SameFile, OutEnd, Padded, Span
<1>4. PassRight => PassRight'
  BY <1>1, <1>3 DEF PassRight, SameFile
<1> QED
  BY <1>1, <1>2, <1>3, <1>4 DEF HexInv, SameFile

LEMMA OpenKeeps == HexInv /\ Open => HexInv'
<1> SUFFICES ASSUME HexInv, Open PROVE HexInv'
  OBVIOUS
<1>1. CASE Fail
  BY <1>1, HexFailKeeps
<1>2. CASE pc' = "check" /\ UNCHANGED <<recs, src, wrong, nopad, first, last, pos, com>>
  <2>1. SameFile /\ com' = com /\ pc = "open"
    BY <1>2 DEF SameFile, Open
  <2>2. AddrMeant' = AddrMeant /\ InData' = InData /\ AsMeant' = AsMeant /\ \A a : CellMeant(a)' = CellMeant(a)
    BY <2>1, FileSame
  <2>3. ComRight => ComRight'
    BY <2>1, <2>2 DEF ComRight
  <2> QED
    BY <1>2, <2>1, <2>2, <2>3 DEF HexInv, SameFile
<1> QED
  BY <1>1, <1>2 DEF Open

\* A wrong digit in a record that counts ends a pass.
LEMMA WrongEnds ==
  ASSUME HexInv, wrong # 0, InData, NEW base \in Nat
  PROVE  Scan(src, base).err = TRUE
<1>1. recs \in Seq(HexRec) /\ ReadFrom(recs, src, wrong)
  BY DEF HexInv
<1>2. PICK i \in DataRecs :
        LET p == Len(EncodeAll(SubSeq(recs, 1, i - 1)))
        IN  wrong \in p + 4 .. p + 7 \/ wrong \in p + 10 .. p + Len(Encode(recs[i])) - 1
  BY DEF InData
<1>3. PICK p : p = PlaceOf(recs, i)
  OBVIOUS
<1>4. wrong \in p + 4 .. p + 7 \/ wrong \in p + 10 .. p + Len(Encode(recs[i])) - 1
  BY <1>2, <1>3, Zenon DEF PlaceOf
<1>5. i \in DataOf(recs) /\ i \in 1 .. Len(recs) /\ recs[i] \in HexRec
  BY <1>1, DataIs DEF DataOf
<1>6. src[wrong] # Encode(recs[i])[wrong - p]
  <2>1. PICK q \in Nat : q = p
    <3>1. i \in 1 .. Len(recs) + 1
      BY <1>1, <1>5
    <3> QED
      BY <1>1, <1>3, <3>1, PlacesAre
  <2>2. PICK o \in Nat : o = wrong
    BY <1>1 DEF ReadFrom
  <2>3. PICK n \in Nat : n = Len(Encode(recs[i]))
    BY <1>5, EncodedLength
  <2>4. o - q \in 1 .. n /\ q + (o - q) = o
    <3>1. n = 2 * Len(recs[i].data) + 12 /\ Len(recs[i].data) \in Nat
      BY <1>5, <2>3, EncodedLength
    <3>2. n >= 12
      BY <3>1
    <3> QED
      BY <1>4, <2>1, <2>2, <2>3, <3>2
  <2>5. EncodeAll(recs)[q + (o - q)] = Encode(recs[i])[o - q]
    BY <1>1, <1>3, <1>5, <2>1, <2>3, <2>4, Stands DEF Standing
  <2>6. src[o] # EncodeAll(recs)[o]
    BY <1>1, <2>2 DEF ReadFrom
  <2> QED
    BY <2>1, <2>2, <2>4, <2>5, <2>6, Zenon
<1>7. OddDigit(src, PlaceOf(recs, i), recs[i], wrong)
  BY <1>3, <1>4, <1>6, Zenon DEF OddDigit
<1> QED
  BY <1>1, <1>5, <1>7, ScanFails

LEMMA CheckPassKeeps == HexInv /\ CheckPass => HexInv'
<1> SUFFICES ASSUME HexInv, CheckPass PROVE HexInv'
  OBVIOUS
<1>1. PICK m : /\ m = Scan(src, AddrSp) /\ first' = m.first /\ last' = m.last /\ pos' = m.first
               /\ pc' = IF m.err \/ OutEnd' > AddrSp THEN "failed" ELSE "write"
  BY DEF CheckPass
<1>2. SameFile /\ com' = com /\ com = <<>>
  BY DEF CheckPass, SameFile, HexInv
<1>3. AddrMeant' = AddrMeant /\ LastMeant' = LastMeant /\ InData' = InData /\ AsMeant' = AsMeant
      /\ \A a : CellMeant(a)' = CellMeant(a)
  BY <1>2, FileSame
<1>4. ComRight'
  BY <1>2 DEF ComRight
<1>5. recs \in Seq(HexRec) /\ ReadFrom(recs, src, wrong) /\ nopad \in BOOLEAN
  BY DEF HexInv
<1>6. ReadFrom(recs, src, wrong)' /\ recs' \in Seq(HexRec) /\ nopad' \in BOOLEAN
  BY <1>2, <1>5 DEF SameFile
<1>7. AddrSp \in Nat
  BY Bases
<1>8. ASSUME wrong # 0, InData PROVE pc' = "failed"
  <2>1. m.err = TRUE
    BY <1>1, <1>7, <1>8, WrongEnds
  <2> QED
    BY <1>1, <2>1
<1>9. ASSUME AsMeant, pc' = "write" PROVE PassRight'
  <2>1. m.err # TRUE /\ ~ OutEnd' > AddrSp
    BY <1>1, <1>9
  <2>2. Outcome(recs, m, Taken(src)[1], AddrSp)
    BY <1>1, <1>5, <1>7, <1>9, ScanRight DEF AsMeant
  <2>3. ~ Fails(Taken(src)[1]) /\ Describes(recs, m, Len(recs) + 1, AddrSp)
    BY <2>1, <2>2 DEF Outcome
  <2>4. m.first = AddrMeant /\ m.last = LastMeant /\ m.first \in Nat /\ m.last \in Nat /\ m.first <= m.last
    BY <1>5, <2>3, FirstMeant
  <2>5. first' = AddrMeant' /\ last' = LastMeant' /\ first' \in Nat /\ last' \in Nat /\ first' <= last'
    BY <1>1, <1>3, <2>4
  <2>6. PICK y \in Nat : y = Padded'
    <3>1. (nopad \in BOOLEAN /\ first \in Nat /\ last \in Nat /\ first <= last => Padded \in Nat)'
      BY PaddedIs, PTL
    <3> QED
      BY <1>6, <2>5, <3>1
  <2>7. OutEnd' = first' + y
    BY <2>6, Zenon DEF OutEnd
  <2>8. pos' = first' + Len(com') /\ pos' <= OutEnd' /\ OutEnd' <= AddrSp
    <3>1. PICK x \in Nat : x = first'
      BY <2>5
    <3>2. Len(com') = 0
      BY <1>2
    <3>3. pos' = x /\ OutEnd' = x + y
      BY <1>1, <2>7, <3>1
    <3>4. ~ x + y > AddrSp
      BY <2>1, <3>3, Zenon
    <3>5. x + y <= AddrSp /\ x <= x + y /\ x = x + 0
      BY <1>7, <3>4
    <3> QED
      BY <3>1, <3>2, <3>3, <3>5, Zenon
  <2>9. ~ Fails(Taken(src)[1])'
    BY <1>2, <2>3 DEF SameFile
  <2>10. AllUpTo(recs, last)'
    <3>1. PICK f : f = recs
      OBVIOUS
    <3>2. AllUpTo(f, m.last)
      <4>1. PICK n \in Nat : n = Len(f)
        BY <1>5, <3>1
      <4>2. \A i \in DataOf(f) : i < n + 1
        BY <1>5, <3>1, <4>1 DEF DataOf
      <4>3. LastSaid(f, m, n + 1)
        BY <2>3, <3>1, <4>1, Zenon DEF Describes
      <4> QED
        BY <4>2, <4>3, Zenon DEF LastSaid, AllUpTo
    <3>3. recs' = f /\ last' = m.last
      BY <1>1, <1>2, <3>1 DEF SameFile
    <3> QED
      BY <3>2, <3>3, Zenon DEF AllUpTo, DataOf
  <2> QED
    BY <2>5, <2>8, <2>9, <2>10 DEF PassRight
<1>10. pc' \in {"failed", "write"}
  BY <1>1
<1> QED
  BY <1>2, <1>3, <1>4, <1>6, <1>8, <1>9, <1>10 DEF HexInv, SameFile

\* What is appended to the .COM file.
LEMMA AppendedRight ==
  ASSUME ComRight, NEW u \in Seq(Nat \cup {Fill}),
         \A k \in 1 .. Len(u) : u[k] = CellMeant(AddrMeant + (Len(com) + k - 1)),
         SameFile, com' = com \o u
  PROVE  ComRight'
<1>1. PICK c \in Seq(Nat \cup {Fill}) : c = com
  BY DEF ComRight
<1>2. PICK l \in Nat, n \in Nat : l = Len(c) /\ n = Len(u)
  OBVIOUS
<1>3. PICK d : d = c \o u
  OBVIOUS
<1>4. d \in Seq(Nat \cup {Fill}) /\ Len(d) = l + n
      /\ (\A k \in 1 .. l : d[k] = c[k]) /\ \A k \in 1 .. n : d[l + k] = u[k]
  BY <1>2, <1>3
<1>5. AddrMeant' = AddrMeant /\ \A a : CellMeant(a)' = CellMeant(a)
  BY FileSame
<1>6. ASSUME NEW k \in 1 .. l + n PROVE d[k] = CellMeant(AddrMeant + (k - 1))
  <2>1. CASE k \in 1 .. l
    BY <1>1, <1>2, <1>4, <2>1 DEF ComRight
  <2>2. CASE k \notin 1 .. l
    <3>1. PICK j \in 1 .. n : k = l + j /\ k - 1 = l + j - 1
      <4>1. k - l \in 1 .. n /\ k = l + (k - l) /\ k - 1 = l + (k - l) - 1
        BY <1>2, <2>2
      <4> QED
        BY <4>1
    <3>2. u[j] = CellMeant(AddrMeant + (Len(com) + j - 1))
      BY <1>2, <3>1
    <3> QED
      BY <1>1, <1>2, <1>4, <3>1, <3>2, Zenon
  <2> QED
    BY <2>1, <2>2
<1>7. com' = d
  BY <1>1, <1>3, Zenon
<1> QED
  BY <1>4, <1>5, <1>6, <1>7 DEF ComRight

\* A window of what is meant.
WindowFits(base, end) ==
  /\ Window(base, end) \in Seq(Nat \cup {Fill}) /\ Len(Window(base, end)) = end - pos
  /\ \A k \in 1 .. end - pos : Window(base, end)[k] = CellMeant(AddrMeant + (Len(com) + k - 1))

LEMMA WindowRight ==
  ASSUME HexInv, AsMeant, pc = "write", NEW base \in Nat, NEW end \in Nat,
         base <= pos, pos < end, end <= base + WinSz, end <= OutEnd
  PROVE  WindowFits(base, end)
<1>1. recs \in Seq(HexRec) /\ ReadFrom(recs, src, 0) /\ nopad \in BOOLEAN /\ PassRight /\ ComRight /\ InSpace(recs)
  BY DEF HexInv, AsMeant
<1>2. PICK m : m = Scan(src, base)
  OBVIOUS
<1>3. Describes(recs, m, Len(recs) + 1, base)
  <2>1. Outcome(recs, m, Taken(src)[1], base)
    BY <1>1, <1>2, ScanRight
  <2> QED
    BY <1>1, <2>1 DEF Outcome, PassRight
<1>4. m.first = AddrMeant /\ m.last = LastMeant
  BY <1>1, <1>3, FirstMeant
<1>5. PICK f \in Nat, l \in Nat : f = first /\ l = last /\ f <= l
  BY <1>1 DEF PassRight
<1>6. PICK c \in Nat : c = Len(com)
  BY <1>1 DEF ComRight
<1>7. AddrMeant = f /\ m.last = l /\ pos = f + c /\ pos \in Nat
  BY <1>1, <1>4, <1>5, <1>6 DEF PassRight
<1>8. PICK n \in Nat : n = end - pos
  BY <1>7
<1>9. first + Span = l + 1 /\ OutEnd \in Nat /\ l < OutEnd /\ OutEnd <= AddrSp
  <2>1. Span \in Nat \ {0} /\ first + Span = last + 1 /\ Padded \in Nat /\ Span <= Padded
    BY <1>1, <1>5, PaddedIs
  <2>2. PICK x \in Nat, y \in Nat : x = Span /\ y = Padded
    BY <2>1
  <2>3. OutEnd = f + y
    BY <1>5, <2>2, Zenon DEF OutEnd
  <2>4. f + x = l + 1 /\ x <= y
    BY <1>5, <2>1, <2>2
  <2>5. OutEnd <= AddrSp
    BY <1>1 DEF PassRight
  <2> QED
    BY <1>5, <2>1, <2>3, <2>4, <2>5
<1>10. m.last < AddrSp /\ AddrSp \in Nat
  BY <1>7, <1>9, Bases
<1>11. PICK image : image = m.image
  OBVIOUS
<1>12. image \in [0 .. AddrSp - 1 -> Nat]
  BY <1>3, <1>11 DEF Describes, Memory
<1>13. PICK u : u = [k \in 1 .. n |-> IF pos + k - 1 >= l + 1 THEN Fill ELSE image[pos + k - 1]]
  OBVIOUS
<1>14. Window(base, end) = u
  BY <1>2, <1>8, <1>9, <1>11, <1>13, Zenon DEF Window
<1>15. ASSUME NEW k \in 1 .. n
       PROVE  u[k] \in Nat \cup {Fill} /\ u[k] = CellMeant(f + (c + k - 1))
  <2>1. PICK a \in Nat : a = pos + k - 1 /\ a = f + (c + k - 1)
    <3>1. pos + k - 1 \in Nat /\ pos + k - 1 = f + (c + k - 1)
      BY <1>7
    <3> QED
      BY <3>1
  <2>2. a < end /\ base <= a
    BY <1>7, <1>8, <2>1
  <2>3. PICK w1 \in Nat : w1 = WinSz
    BY Bases
  <2>4. a \in base .. base + WinSz - 1
    BY <2>2, <2>3
  <2>5. u[k] = IF a >= l + 1 THEN Fill ELSE image[a]
    BY <1>13, <2>1
  <2>6. /\ a > m.last => CellMeant(a) = Fill
        /\ a <= m.last /\ a \in base .. base + WinSz - 1 => m.image[a] = CellMeant(a)
    BY <1>1, <1>3, <1>10, ImageMeant
  <2>7. CASE a >= l + 1
    <3>1. a > m.last
      BY <1>7, <2>7
    <3> QED
      BY <2>1, <2>5, <2>6, <2>7, <3>1
  <2>8. CASE ~ a >= l + 1
    <3>1. a <= m.last /\ a \in 0 .. AddrSp - 1
      BY <1>7, <1>10, <2>8
    <3>2. u[k] = image[a] /\ image[a] = CellMeant(a)
      BY <1>11, <2>4, <2>5, <2>6, <2>8, <3>1, Zenon
    <3>3. image[a] \in Nat
      BY <1>12, <3>1
    <3> QED
      BY <2>1, <3>2, <3>3
  <2> QED
    BY <2>7, <2>8
<1>16. u \in Seq(Nat \cup {Fill}) /\ Len(u) = n
  <2>1. [k \in 1 .. n |-> u[k]] \in Seq(Nat \cup {Fill}) /\ Len([k \in 1 .. n |-> u[k]]) = n
    BY <1>15
  <2>2. u = [k \in 1 .. n |-> u[k]]
    BY <1>13
  <2> QED
    BY <2>1, <2>2, Zenon
<1> QED
  BY <1>6, <1>7, <1>8, <1>14, <1>15, <1>16, Zenon DEF WindowFits

LEMMA WindowPassKeeps == HexInv /\ WindowPass => HexInv'
<1> SUFFICES ASSUME HexInv, WindowPass PROVE HexInv'
  OBVIOUS
<1>1. SameFile /\ first' = first /\ last' = last /\ pc = "write" /\ pos < OutEnd
  BY DEF WindowPass, SameFile
<1>2. AddrMeant' = AddrMeant /\ LastMeant' = LastMeant /\ InData' = InData /\ AsMeant' = AsMeant
      /\ \A a : CellMeant(a)' = CellMeant(a)
  BY <1>1, FileSame
<1>3. ~ (wrong # 0 /\ InData)
  BY <1>1 DEF HexInv
<1>4. PICK base, end : /\ base = pos - (pos % WinSz)
                       /\ end = IF base + WinSz > OutEnd THEN OutEnd ELSE base + WinSz
  OBVIOUS
<1>5. \/ com' = com \o Window(base, end) /\ pos' = end /\ pc' = pc
      \/ /\ \E n \in 0 .. end - pos - 1 : com' = com \o SubSeq(Window(base, end), 1, n)
         /\ pos' = pos /\ pc' = "failed"
  BY <1>4, Zenon DEF WindowPass
<1>6. recs' \in Seq(HexRec) /\ ReadFrom(recs, src, wrong)' /\ nopad' \in BOOLEAN
  BY <1>1 DEF HexInv, SameFile
<1>7. pc' \in {"write", "failed"}
  BY <1>1, <1>5
<1>8. CASE ~ AsMeant
  BY <1>1, <1>2, <1>3, <1>6, <1>7, <1>8 DEF HexInv, SameFile
<1>9. CASE AsMeant
  <2>1. PassRight /\ ComRight
    BY <1>1, <1>9 DEF HexInv
  <2>2. PICK n \in Nat \ {0} : n = WinSz
    BY Bases
  <2>3. PICK c \in Seq(Nat \cup {Fill}) : c = com
    BY <2>1 DEF ComRight
  <2>4. PICK x \in Nat : x = pos /\ first \in Nat /\ x = first + Len(com)
    BY <2>1, <2>3 DEF PassRight
  <2>5. OutEnd \in Nat
    <3>1. PICK y \in Nat : y = Padded
      BY <2>1, PaddedIs DEF PassRight, HexInv
    <3> QED
      BY <2>4, <3>1 DEF OutEnd
  <2>6. /\ base \in Nat /\ end \in Nat /\ base <= pos /\ pos < end
        /\ end <= base + WinSz /\ end <= OutEnd
    <3>1. PICK r \in 0 .. n - 1 : r = x % n
      OBVIOUS
    <3>2. r <= x
      BY <3>1
    <3>3. base = x - r
      BY <1>4, <2>2, <2>4, <3>1, Zenon
    <3>4. PICK b \in Nat : b = base /\ b = x - r
      <4>1. x - r \in Nat
        BY <3>1, <3>2
      <4> QED
        BY <3>3, <4>1, Zenon
    <3>5. PICK t \in Nat : t = OutEnd
      BY <2>5
    <3>6. end = IF b + n > t THEN t ELSE b + n
      BY <1>4, <2>2, <3>4, <3>5, Zenon
    <3>7. x < t
      BY <1>1, <2>4, <3>5
    <3>8. b <= x /\ x < b + n
      BY <3>1, <3>4
    <3> QED
      BY <2>2, <2>4, <3>4, <3>5, <3>6, <3>7, <3>8
  <2>7. PICK u : u = Window(base, end)
    OBVIOUS
  <2>8. /\ u \in Seq(Nat \cup {Fill}) /\ Len(u) = end - pos
        /\ \A k \in 1 .. end - pos : u[k] = CellMeant(AddrMeant + (Len(com) + k - 1))
    BY <1>1, <1>9, <2>6, <2>7, WindowRight, Zenon DEF WindowFits
  <2>9. CASE com' = com \o u /\ pos' = end /\ pc' = pc
    <3>1. ComRight'
      BY <1>1, <2>1, <2>8, <2>9, AppendedRight
    <3>2. OutEnd' = OutEnd
      BY <1>1 DEF OutEnd, Padded, Span, SameFile
    <3>3. Len(com') = Len(c) + Len(u)
      <4>1. Len(c \o u) = Len(c) + Len(u)
        BY <2>8
      <4> QED
        BY <2>3, <2>9, <4>1, Zenon
    <3>4. pos' = first' + Len(com')
      <4>1. PICK l \in Nat : l = Len(c)
        OBVIOUS
      <4>2. PICK z \in Nat : z = end
        BY <2>6
      <4>3. PICK f \in Nat : f = first
        BY <2>4
      <4>4. Len(com') = l + (z - x)
        BY <2>4, <2>8, <3>3, <4>1, <4>2, Zenon
      <4>5. x = f + l
        BY <2>3, <2>4, <4>1, <4>3, Zenon
      <4>6. f + (l + (z - x)) = z
        BY <4>5
      <4> QED
        BY <1>1, <2>9, <4>2, <4>3, <4>4, <4>6, Zenon
    <3>5. PassRight'
      BY <1>1, <1>2, <2>1, <2>6, <2>9, <3>2, <3>4 DEF PassRight, SameFile
    <3> QED
      BY <1>1, <1>2, <1>6, <1>9, <2>9, <3>1, <3>5 DEF HexInv, SameFile
  <2>10. CASE (\E k \in 0 .. end - pos - 1 : com' = com \o SubSeq(u, 1, k)) /\ pos' = pos /\ pc' = "failed"
    <3>1. PICK k \in 0 .. end - pos - 1 : com' = com \o SubSeq(u, 1, k)
      BY <2>10
    <3>2. PICK v : v = SubSeq(u, 1, k)
      OBVIOUS
    <3>3. PICK d \in Nat : d = end - pos
      <4>1. PICK z \in Nat : z = end
        BY <2>6
      <4>2. z - x \in Nat
        BY <2>4, <2>6, <4>1
      <4> QED
        BY <2>4, <4>1, <4>2, Zenon
    <3>4. k \in Nat /\ k <= Len(u)
      BY <2>8, <3>1, <3>3
    <3>5. v \in Seq(Nat \cup {Fill}) /\ Len(v) = k /\ \A j \in 1 .. k : v[j] = u[j]
      BY <2>8, <3>2, <3>4
    <3>6. \A j \in 1 .. Len(v) : v[j] = CellMeant(AddrMeant + (Len(com) + j - 1))
      <4>1. \A j \in 1 .. k : j \in 1 .. end - pos
        BY <2>8, <3>3, <3>4
      <4> QED
        BY <2>8, <3>5, <4>1, Zenon
    <3>7. ComRight'
      BY <1>1, <2>1, <3>1, <3>2, <3>5, <3>6, AppendedRight
    <3> QED
      BY <1>1, <1>2, <1>6, <1>9, <2>10, <3>7 DEF HexInv, SameFile
  <2> QED
    BY <1>5, <2>7, <2>9, <2>10
<1> QED
  BY <1>8, <1>9

LEMMA CloseKept == HexInv /\ Close => HexInv'
<1> SUFFICES ASSUME HexInv, Close PROVE HexInv'
  OBVIOUS
<1>1. SameFile /\ first' = first /\ last' = last /\ pos' = pos /\ com' = com
      /\ pc = "write" /\ pos >= OutEnd /\ pc' \in {"done", "failed"}
  BY DEF Close, SameFile
<1>2. AddrMeant' = AddrMeant /\ LastMeant' = LastMeant /\ InData' = InData /\ AsMeant' = AsMeant
      /\ \A a : CellMeant(a)' = CellMeant(a)
  BY <1>1, FileSame
<1>3. ComRight => ComRight'
  BY <1>1, <1>2 DEF ComRight
<1>4. OutEnd' = OutEnd
  BY <1>1 DEF SameFile, OutEnd, Padded, Span
<1>5. PassRight => PassRight'
  BY <1>1, <1>2, <1>4 DEF PassRight, SameFile
<1> QED
  BY <1>1, <1>2, <1>3, <1>4, <1>5 DEF HexInv, SameFile

LEMMA HexStep == HexInv /\ [HexNext]_hexvars => HexInv'
<1> SUFFICES ASSUME HexInv, [HexNext]_hexvars PROVE HexInv'
  OBVIOUS
<1>1. CASE Open
  BY <1>1, OpenKeeps
<1>2. CASE CheckPass
  BY <1>2, CheckPassKeeps
<1>3. CASE WindowPass
  BY <1>3, WindowPassKeeps
<1>4. CASE Close
  BY <1>4, CloseKept
<1>5. CASE UNCHANGED hexvars
  BY <1>5, HexSame DEF hexvars, SameFile
<1> QED
  BY <1>1, <1>2, <1>3, <1>4, <1>5 DEF HexNext, Over

LEMMA HexInvKept == HexSpec => []HexInv
  BY HexInitInv, HexStep, PTL DEF HexSpec

LEMMA HexInvSound == HexInv => ImageSound
<1> SUFFICES ASSUME HexInv PROVE ImageSound
  OBVIOUS
<1>1. WrongDigitFound
  BY DEF WrongDigitFound, HexInv
<1>2. ASSUME AsMeant PROVE ComRight /\ (pc = "done" => PassRight /\ pos >= OutEnd)
  BY <1>2 DEF HexInv
<1>3. ASSUME AsMeant, NEW k \in DOMAIN com
      PROVE  com[k] = CellMeant(AddrMeant + k - 1)
  <2>1. com \in Seq(Nat \cup {Fill}) /\ \A j \in 1 .. Len(com) : com[j] = CellMeant(AddrMeant + (j - 1))
    BY <1>2, <1>3 DEF ComRight
  <2>2. k \in 1 .. Len(com)
    BY <2>1
  <2> QED
    BY <2>1, <2>2
<1>4. ASSUME AsMeant, pc = "done"
      PROVE  /\ AddrMeant + Len(com) > LastMeant
             /\ nopad => AddrMeant + Len(com) = LastMeant + 1
             /\ ~ nopad => Len(com) % RecSz = 0 /\ AddrMeant + Len(com) - RecSz <= LastMeant
  <2>1. ComRight /\ PassRight /\ pos >= OutEnd /\ nopad \in BOOLEAN
    BY <1>2, <1>4 DEF HexInv
  <2>2. PICK c \in Nat : c = Len(com)
    BY <2>1 DEF ComRight
  <2>3. PICK f \in Nat, l \in Nat : f = AddrMeant /\ l = LastMeant /\ f = first /\ l = last /\ f <= l
    BY <2>1 DEF PassRight
  <2>4. /\ Span \in Nat \ {0} /\ first + Span = last + 1 /\ Padded \in Nat /\ Span <= Padded
        /\ nopad => Padded = Span
        /\ ~ nopad => Padded % RecSz = 0 /\ Padded < Span + RecSz
    BY <2>1, <2>3, PaddedIs
  <2>5. PICK x \in Nat, y \in Nat : x = Span /\ y = Padded
    BY <2>4
  <2>6. PICK n \in Nat : n = RecSz
    BY Bases
  <2>7. f + x = l + 1 /\ x <= y /\ (nopad => y = x) /\ (~ nopad => y % n = 0 /\ y < x + n)
    BY <2>3, <2>4, <2>5, <2>6, Zenon
  <2>8. c = y
    <3>1. pos = f + c /\ pos <= OutEnd
      BY <2>1, <2>2, <2>3 DEF PassRight
    <3>2. OutEnd = f + y
      BY <2>3, <2>5, Zenon DEF OutEnd
    <3> QED
      BY <2>1, <3>1, <3>2
  <2>9. /\ f + c > l
        /\ nopad => f + c = l + 1
        /\ ~ nopad => c % n = 0 /\ f + c - n <= l
    BY <2>7, <2>8
  <2> QED
    BY <2>2, <2>3, <2>6, <2>9, Zenon
<1>5. ASSUME wrong = 0, InRange PROVE AsMeant
  <2>1. ASSUME NEW i \in DataOf(recs) PROVE EndOf(recs[i]) < Unsigned
    <3>1. recs \in Seq(HexRec) /\ i \in 1 .. Len(recs) /\ i \in DataRecs
      BY DataIs DEF HexInv, DataOf
    <3>2. recs[i] \in HexRec
      BY <3>1
    <3>3. PICK n \in Nat, b \in Nat, u \in Nat : n = AddrSp /\ b = ByteMax /\ u = Unsigned
      BY Bases, HexComAssumption
    <3>4. u = n \/ u >= n + b
      BY <3>3, HexComAssumption, Zenon
    <3>5. PICK a \in Nat, l \in Nat : a = recs[i].addr /\ l = Len(recs[i].data) /\ a < n /\ l < b
      <4>1. recs[i].addr \in 0 .. n - 1 /\ recs[i].data \in Seq(Octets) /\ Len(recs[i].data) < b
        BY <3>2, <3>3 DEF HexRec
      <4> QED
        BY <4>1
    <3>6. u > n \/ a + l <= n
      BY <1>5, <3>1, <3>3, <3>5, Zenon DEF InRange
    <3>7. a + l - 1 < u
      BY <3>3, <3>4, <3>5, <3>6, SMT
    <3> QED
      BY <3>3, <3>5, <3>7, Zenon DEF EndOf
  <2> QED
    BY <1>5, <2>1 DEF AsMeant, InSpace
<1>6. ImageExact
  BY <1>3, <1>4, <1>5 DEF ImageExact, CellMeant
<1>7. NoneMissing
  <2> SUFFICES ASSUME pc = "done", AsMeant, \A i \in DataRecs : recs[i].addr >= AddrMeant,
                      NEW i \in DataRecs, NEW a \in recs[i].addr .. recs[i].addr + Len(recs[i].data) - 1
               PROVE  a - first + 1 \in DOMAIN com /\ com[a - first + 1] = ByteMeant(a)
    BY <1>5 DEF NoneMissing
  <2>1. com \in Seq(Nat \cup {Fill}) /\ PassRight
    BY <1>2 DEF ComRight
  <2>2. PICK c \in Nat, f \in Nat, l \in Nat : c = Len(com) /\ f = first /\ l = last /\ f = AddrMeant
    BY <2>1 DEF PassRight
  <2>3. PICK r : r = recs[i]
    OBVIOUS
  <2>4. r \in HexRec /\ i \in DataOf(recs)
    BY <2>3, DataIs DEF HexInv, DataOf
  <2>5. PICK x \in Nat, n \in Nat : x = r.addr /\ n = Len(r.data)
    <3>1. r.data \in Seq(Octets) /\ r.addr \in Nat
      BY <2>4, RecordIs, Bases
    <3> QED
      BY <3>1
  <2>6. a \in x .. x + n - 1
    BY <2>3, <2>5, Zenon
  <2>7. x >= f
    BY <2>2, <2>3, <2>5, Zenon
  <2>8. x + n - 1 <= l
    <3>1. EndOf(r) <= l
      BY <2>1, <2>2, <2>3, <2>4, Zenon DEF PassRight, AllUpTo
    <3> QED
      BY <2>5, <3>1, Zenon DEF EndOf
  <2>9. f + c > l
    <3>1. l = LastMeant
      BY <2>1, <2>2 DEF PassRight
    <3> QED
      BY <1>4, <2>2, <3>1, Zenon
  <2>10. PICK k : k = a - first + 1
    OBVIOUS
  <2>11. k = a - f + 1
    BY <2>2, <2>10, Zenon
  <2>12. a \in Nat /\ k \in 1 .. c /\ f + k - 1 = a
    BY <2>6, <2>7, <2>8, <2>9, <2>11
  <2>13. k \in DOMAIN com
    BY <2>1, <2>2, <2>12
  <2>14. com[k] = CellMeant(a)
    <3>1. com[k] = CellMeant(AddrMeant + k - 1)
      BY <1>3, <2>13
    <3> QED
      BY <2>2, <2>12, <3>1, Zenon
  <2>15. Loaded(a) # {}
    <3>1. a >= x /\ a < x + n
      BY <2>6
    <3>2. Covers(recs[i], a)
      BY <2>3, <2>5, <3>1, Zenon DEF Covers
    <3> QED
      BY <3>2 DEF Loaded
  <2> QED
    BY <2>10, <2>13, <2>14, <2>15, Zenon DEF CellMeant
<1> QED
  BY <1>1, <1>6, <1>7 DEF ImageSound

\* HEXCOM's .COM file is, at every moment, a piece of the memory from the address of
\* the first record on, and at the end that memory up to the highest address, rounded
\* up; it lacks no byte if the first record is the lowest; and one wrong digit in an
\* address, in data or in a checksum leaves it empty: with every file, window and
\* record size, as long as an unsigned holds where each record ends.
THEOREM ImageIsSound == HexSpec => []ImageSound
  BY HexInvKept, HexInvSound, PTL

=============================================================================
