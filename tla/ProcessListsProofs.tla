------------------------- MODULE ProcessListsProofs -------------------------
(* What putting a process on a list, taking it off and taking the first do   *)
(* to the members of a list, for lists of any length.                       *)
EXTENDS ProcessLists, SequenceTheorems, FiniteSetTheorems, TLAPS

Distinct(list) == \A i, j \in 1 .. Len(list) : list[i] = list[j] => i = j

LEMMA EmptyMembers == Distinct(<<>>) /\ \A x : ~ IsOn(<<>>, x)
  BY DEF Distinct, IsOn

\* The places a scan of a list goes past are at most all.
LEMMA PlacesBound ==
  ASSUME NEW list \in Seq(Proc), NEW S \in SUBSET (1 .. Len(list))
  PROVE  Cardinality(S) \in 0 .. Len(list)
<1>1. Len(list) \in Nat
  OBVIOUS
<1>2. /\ IsFiniteSet(1 .. Len(list))
      /\ Cardinality(1 .. Len(list)) = Len(list)
  <2>1. 1 \in Int /\ Len(list) \in Int
    BY <1>1
  <2>2. /\ IsFiniteSet(1 .. Len(list))
        /\ Cardinality(1 .. Len(list)) = IF 1 > Len(list) THEN 0 ELSE Len(list) - 1 + 1
    BY <2>1, FS_Interval
  <2> QED
    BY <1>1, <2>2
<1>3. IsFiniteSet(S) /\ Cardinality(S) <= Cardinality(1 .. Len(list))
  BY <1>2, FS_Subset
<1>4. Cardinality(S) \in Nat
  BY <1>3, FS_CardinalityType
<1> QED
  BY <1>1, <1>2, <1>3, <1>4

\* The places of a list a process is put on.
LEMMA PlacedAt ==
  ASSUME NEW list \in Seq(Proc), NEW k \in 0 .. Len(list), NEW p \in Proc
  PROVE  /\ Placed(list, k, p) \in Seq(Proc)
         /\ Len(Placed(list, k, p)) = Len(list) + 1
         /\ \A j \in 1 .. Len(list) + 1 :
              Placed(list, k, p)[j] =
                IF j <= k THEN list[j] ELSE IF j = k + 1 THEN p ELSE list[j - 1]
<1> DEFINE new == Placed(list, k, p)
<1>1. k \in 0 .. Len(list) /\ Len(list) \in Nat
  OBVIOUS
<1>2. new = (SubSeq(list, 1, k) \o <<p>>) \o SubSeq(list, k + 1, Len(list))
  BY DEF Placed
<1> HIDE DEF new
<1>3. /\ SubSeq(list, 1, k) \in Seq(Proc) /\ Len(SubSeq(list, 1, k)) = k
      /\ \A i \in 1 .. k : SubSeq(list, 1, k)[i] = list[i]
  <2>1. \A i \in 1 .. k : list[i] \in Proc
    BY <1>1
  <2> QED
    BY <1>1, <2>1, SubSeqProperties
<1>4. /\ SubSeq(list, k + 1, Len(list)) \in Seq(Proc)
      /\ Len(SubSeq(list, k + 1, Len(list))) = Len(list) - k
      /\ \A i \in 1 .. Len(list) - k : SubSeq(list, k + 1, Len(list))[i] = list[k + i]
  <2>1. \A i \in k + 1 .. Len(list) : list[i] \in Proc
    BY <1>1
  <2> QED
    BY <1>1, <2>1, SubSeqProperties
<1>5. /\ Len(new) = Len(list) + 1
      /\ \A j \in 1 .. Len(list) + 1 :
           new[j] = IF j <= k THEN list[j] ELSE IF j = k + 1 THEN p ELSE list[j - 1]
  <2> DEFINE front == SubSeq(list, 1, k)
             back == SubSeq(list, k + 1, Len(list))
  <2>1. /\ front \in Seq(Proc) /\ Len(front) = k
        /\ back \in Seq(Proc) /\ Len(back) = Len(list) - k
        /\ <<p>> \in Seq(Proc) /\ Len(<<p>>) = 1 /\ <<p>>[1] = p
    BY <1>3, <1>4
  <2>2. /\ \A i \in 1 .. k : front[i] = list[i]
        /\ \A i \in 1 .. Len(list) - k : back[i] = list[k + i]
    BY <1>3, <1>4
  <2>3. new = (front \o <<p>>) \o back
    BY <1>2
  <2> HIDE DEF front, back
  <2>4. /\ front \o <<p>> \in Seq(Proc) /\ Len(front \o <<p>>) = k + 1
        /\ \A j \in 1 .. k + 1 :
             (front \o <<p>>)[j] = IF j <= k THEN front[j] ELSE p
    BY <1>1, <2>1, ConcatProperties
  <2>5. /\ Len(new) = Len(list) + 1
        /\ \A j \in 1 .. Len(list) + 1 :
             new[j] = IF j <= k + 1 THEN (front \o <<p>>)[j] ELSE back[j - (k + 1)]
    BY <1>1, <2>1, <2>3, <2>4, ConcatProperties
  <2>6. ASSUME NEW j \in 1 .. Len(list) + 1
        PROVE  new[j] = IF j <= k THEN list[j] ELSE IF j = k + 1 THEN p ELSE list[j - 1]
    <3>1. CASE j <= k + 1
      BY <1>1, <2>2, <2>4, <2>5, <3>1
    <3>2. CASE j > k + 1
      <4>1. j - (k + 1) \in 1 .. Len(list) - k /\ k + (j - (k + 1)) = j - 1
        BY <1>1, <3>2
      <4>2. back[j - (k + 1)] = list[k + (j - (k + 1))]
        BY <2>2, <4>1
      <4>3. new[j] = back[j - (k + 1)]
        BY <1>1, <2>5, <3>2
      <4> QED
        BY <1>1, <3>2, <4>1, <4>2, <4>3
    <3> QED
      BY <1>1, <3>1, <3>2
  <2> QED
    BY <2>5, <2>6
<1>6. new \in Seq(Proc)
  <2>1. SubSeq(list, 1, k) \o <<p>> \in Seq(Proc)
    BY <1>3, ConcatProperties
  <2> QED
    BY <1>2, <1>4, <2>1, ConcatProperties
<1> QED
  BY <1>5, <1>6 DEF new

\* A process put on a list, wherever that is.
LEMMA PlacedMembers ==
  ASSUME NEW list \in Seq(Proc), NEW k \in 0 .. Len(list), NEW p \in Proc
  PROVE  /\ Placed(list, k, p) \in Seq(Proc)
         /\ \A x : IsOn(Placed(list, k, p), x) <=> x = p \/ IsOn(list, x)
         /\ Distinct(list) /\ ~ IsOn(list, p) => Distinct(Placed(list, k, p))
<1> PICK new : new = Placed(list, k, p)
  OBVIOUS
<1>1. k \in 0 .. Len(list) /\ Len(list) \in Nat
  OBVIOUS
<1>2. /\ Len(new) = Len(list) + 1
      /\ \A j \in 1 .. Len(list) + 1 :
           new[j] = IF j <= k THEN list[j] ELSE IF j = k + 1 THEN p ELSE list[j - 1]
  <2>1. /\ Len(Placed(list, k, p)) = Len(list) + 1
        /\ \A j \in 1 .. Len(list) + 1 :
             Placed(list, k, p)[j] =
               IF j <= k THEN list[j] ELSE IF j = k + 1 THEN p ELSE list[j - 1]
    BY PlacedAt
  <2> QED
    BY <2>1
<1>3. \A i \in 1 .. Len(list) : \E j \in 1 .. Len(list) + 1 : new[j] = list[i]
  <2> TAKE i \in 1 .. Len(list)
  <2>1. CASE i <= k
    BY <1>1, <1>2, <2>1
  <2>2. CASE i > k
    <3>1. i + 1 \in 1 .. Len(list) + 1 /\ (i + 1) - 1 = i
      BY <1>1
    <3>2. new[i + 1] = list[i]
      BY <1>1, <1>2, <2>2, <3>1
    <3> QED
      BY <3>1, <3>2
  <2> QED
    BY <1>1, <2>1, <2>2
<1>4. new[k + 1] = p /\ k + 1 \in 1 .. Len(list) + 1
  BY <1>1, <1>2
<1>5. ASSUME NEW x PROVE IsOn(new, x) <=> x = p \/ IsOn(list, x)
  <2>1. IsOn(new, x) => x = p \/ IsOn(list, x)
    BY <1>1, <1>2 DEF IsOn
  <2>2. x = p \/ IsOn(list, x) => IsOn(new, x)
    BY <1>2, <1>3, <1>4 DEF IsOn
  <2> QED
    BY <2>1, <2>2
<1>6. ASSUME Distinct(list), ~ IsOn(list, p) PROVE Distinct(new)
  <2> SUFFICES ASSUME NEW i \in 1 .. Len(list) + 1, NEW j \in 1 .. Len(list) + 1,
                      new[i] = new[j], i < j
               PROVE  FALSE
    BY <1>1, <1>2 DEF Distinct
  <2> DEFINE old(n) == IF n <= k THEN n ELSE n - 1
  <2>1. ASSUME NEW n \in 1 .. Len(list) + 1, n # k + 1
        PROVE  old(n) \in 1 .. Len(list) /\ new[n] = list[old(n)]
    BY <1>1, <1>2, <2>1
  <2>2. \A n \in 1 .. Len(list) : list[n] # p
    BY <1>6 DEF IsOn
  <2>3. CASE i # k + 1 /\ j # k + 1
    <3>1. old(i) = old(j)
      <4>1. /\ old(i) \in 1 .. Len(list) /\ old(j) \in 1 .. Len(list)
            /\ list[old(i)] = list[old(j)]
        BY <2>1, <2>3
      <4> HIDE DEF old
      <4> QED
        BY <1>6, <4>1 DEF Distinct
    <3> QED
      BY <1>1, <2>3, <3>1
  <2>4. CASE i = k + 1 \/ j = k + 1
    <3>1. ASSUME NEW n \in 1 .. Len(list) + 1, n # k + 1 PROVE new[n] # p
      BY <2>1, <2>2, <3>1
    <3>2. i # k + 1 \/ j # k + 1
      BY <1>1
    <3> QED
      BY <1>4, <2>4, <3>1, <3>2
  <2> QED
    BY <2>3, <2>4
<1>7. new \in Seq(Proc)
  BY PlacedAt
<1> QED
  BY <1>5, <1>6, <1>7

\* The places of a list a process is taken off.
LEMMA SnipAt ==
  ASSUME NEW list \in Seq(Proc), NEW p, NEW n \in 1 .. Len(list),
         list[n] = p, Distinct(list)
  PROVE  /\ Snip(list, p) \in Seq(Proc)
         /\ Len(Snip(list, p)) = Len(list) - 1
         /\ \A j \in 1 .. Len(list) - 1 :
              Snip(list, p)[j] = IF j < n THEN list[j] ELSE list[j + 1]
<1> DEFINE new == Snip(list, p)
<1>1. n \in 1 .. Len(list) /\ list[n] = p /\ Len(list) \in Nat
  OBVIOUS
<1>2. new = SubSeq(list, 1, n - 1) \o SubSeq(list, n + 1, Len(list))
  <2>1. n = CHOOSE j \in 1 .. Len(list) : list[j] = p
    BY DEF Distinct
  <2> QED
    BY <2>1 DEF Snip, IsOn
<1> HIDE DEF new
<1>3. /\ SubSeq(list, 1, n - 1) \in Seq(Proc) /\ Len(SubSeq(list, 1, n - 1)) = n - 1
      /\ \A i \in 1 .. n - 1 : SubSeq(list, 1, n - 1)[i] = list[i]
  <2>1. \A i \in 1 .. n - 1 : list[i] \in Proc
    BY <1>1
  <2> QED
    BY <1>1, <2>1, SubSeqProperties
<1>4. /\ SubSeq(list, n + 1, Len(list)) \in Seq(Proc)
      /\ Len(SubSeq(list, n + 1, Len(list))) = Len(list) - n
      /\ \A i \in 1 .. Len(list) - n : SubSeq(list, n + 1, Len(list))[i] = list[n + i]
  <2>1. \A i \in n + 1 .. Len(list) : list[i] \in Proc
    BY <1>1
  <2> QED
    BY <1>1, <2>1, SubSeqProperties
<1>5. /\ Len(new) = Len(list) - 1
      /\ \A j \in 1 .. Len(list) - 1 :
           new[j] = IF j < n THEN list[j] ELSE list[j + 1]
  <2> DEFINE front == SubSeq(list, 1, n - 1)
             back == SubSeq(list, n + 1, Len(list))
  <2>1. /\ front \in Seq(Proc) /\ Len(front) = n - 1
        /\ back \in Seq(Proc) /\ Len(back) = Len(list) - n
    BY <1>3, <1>4
  <2>2. /\ \A i \in 1 .. n - 1 : front[i] = list[i]
        /\ \A i \in 1 .. Len(list) - n : back[i] = list[n + i]
    BY <1>3, <1>4
  <2>3. new = front \o back
    BY <1>2
  <2> HIDE DEF front, back
  <2>4. /\ Len(new) = Len(list) - 1
        /\ \A j \in 1 .. Len(list) - 1 :
             new[j] = IF j <= n - 1 THEN front[j] ELSE back[j - (n - 1)]
    <3>1. /\ Len(front \o back) = Len(front) + Len(back)
          /\ \A j \in 1 .. Len(front) + Len(back) :
               (front \o back)[j] =
                 IF j <= Len(front) THEN front[j] ELSE back[j - Len(front)]
      BY <2>1, ConcatProperties
    <3>2. Len(front) + Len(back) = Len(list) - 1
      BY <1>1, <2>1
    <3> QED
      BY <2>1, <2>3, <3>1, <3>2
  <2>5. ASSUME NEW j \in 1 .. Len(list) - 1
        PROVE  new[j] = IF j < n THEN list[j] ELSE list[j + 1]
    <3>1. CASE j < n
      BY <1>1, <2>2, <2>4, <3>1
    <3>2. CASE j >= n
      <4>1. j - (n - 1) \in 1 .. Len(list) - n /\ n + (j - (n - 1)) = j + 1
        BY <1>1, <3>2
      <4>2. back[j - (n - 1)] = list[n + (j - (n - 1))]
        BY <2>2, <4>1
      <4>3. new[j] = back[j - (n - 1)]
        BY <1>1, <2>4, <3>2
      <4> QED
        BY <1>1, <3>2, <4>1, <4>2, <4>3
    <3> QED
      BY <1>1, <3>1, <3>2
  <2> QED
    BY <2>4, <2>5
<1>6. new \in Seq(Proc)
  BY <1>2, <1>3, <1>4, ConcatProperties
<1> QED
  BY <1>5, <1>6 DEF new

\* A process taken off a list it is on.
LEMMA SnipFound ==
  ASSUME NEW list \in Seq(Proc), NEW p, IsOn(list, p), Distinct(list)
  PROVE  /\ Snip(list, p) \in Seq(Proc)
         /\ \A x : IsOn(Snip(list, p), x) <=> x # p /\ IsOn(list, x)
         /\ Distinct(Snip(list, p))
         /\ Head(list) # p => Snip(list, p) # <<>> /\ Head(Snip(list, p)) = Head(list)
<1> PICK new : new = Snip(list, p)
  OBVIOUS
<1> PICK n \in 1 .. Len(list) : list[n] = p
  BY DEF IsOn
<1>1. n \in 1 .. Len(list) /\ list[n] = p /\ Len(list) \in Nat
  OBVIOUS
<1>2. /\ Len(new) = Len(list) - 1
      /\ \A j \in 1 .. Len(list) - 1 :
           new[j] = IF j < n THEN list[j] ELSE list[j + 1]
  BY SnipAt
<1>3. new \in Seq(Proc)
  BY SnipAt
<1>4. \A i \in 1 .. Len(list) :
        i # n => \E j \in 1 .. Len(list) - 1 : new[j] = list[i]
  <2> SUFFICES ASSUME NEW i \in 1 .. Len(list), i # n
               PROVE  \E j \in 1 .. Len(list) - 1 : new[j] = list[i]
    OBVIOUS
  <2>1. CASE i < n
    BY <1>1, <1>2, <2>1
  <2>2. CASE i > n
    <3>1. i - 1 \in 1 .. Len(list) - 1 /\ ~ (i - 1 < n) /\ (i - 1) + 1 = i
      BY <1>1, <2>2
    <3>2. new[i - 1] = list[i]
      BY <1>2, <3>1
    <3> QED
      BY <3>1, <3>2
  <2> QED
    BY <1>1, <2>1, <2>2
<1>5. ASSUME NEW j \in 1 .. Len(list) - 1
      PROVE  LET i == IF j < n THEN j ELSE j + 1
             IN  i \in 1 .. Len(list) /\ i # n /\ new[j] = list[i]
  BY <1>1, <1>2
<1>6. ASSUME NEW x PROVE IsOn(new, x) <=> x # p /\ IsOn(list, x)
  <2>1. IsOn(new, x) => x # p /\ IsOn(list, x)
    BY <1>1, <1>2, <1>5 DEF IsOn, Distinct
  <2>2. x # p /\ IsOn(list, x) => IsOn(new, x)
    BY <1>1, <1>2, <1>4 DEF IsOn
  <2> QED
    BY <2>1, <2>2
<1>7. Distinct(new)
  <2> SUFFICES ASSUME NEW i \in 1 .. Len(list) - 1, NEW j \in 1 .. Len(list) - 1,
                      new[i] = new[j]
               PROVE  i = j
    BY <1>1, <1>2 DEF Distinct
  <2> DEFINE old(m) == IF m < n THEN m ELSE m + 1
  <2>1. /\ old(i) \in 1 .. Len(list) /\ old(j) \in 1 .. Len(list)
        /\ list[old(i)] = list[old(j)]
    BY <1>1, <1>5
  <2>2. old(i) = old(j)
    <3> HIDE DEF old
    <3> QED
      BY <2>1 DEF Distinct
  <2> QED
    BY <1>1, <2>2
<1>8. Head(list) # p => new # <<>> /\ Head(new) = Head(list)
  <2> SUFFICES ASSUME Head(list) # p PROVE new # <<>> /\ Head(new) = Head(list)
    OBVIOUS
  <2>1. n # 1 /\ Head(list) = list[1]
    BY <1>1
  <2>2. Len(new) >= 1 /\ new[1] = list[1] /\ 1 \in 1 .. Len(list) - 1
    BY <1>1, <1>2, <2>1
  <2> QED
    BY <1>3, <2>1, <2>2
<1> QED
  BY <1>6, <1>7, <1>8, <1>3

\* find_pd and snip_it, whether the process is on the list or not.
LEMMA SnipMembers ==
  ASSUME NEW list \in Seq(Proc), NEW p, Distinct(list)
  PROVE  /\ Snip(list, p) \in Seq(Proc)
         /\ \A x : IsOn(Snip(list, p), x) <=> x # p /\ IsOn(list, x)
         /\ Distinct(Snip(list, p))
         /\ list # <<>> /\ Head(list) # p
              => Snip(list, p) # <<>> /\ Head(Snip(list, p)) = Head(list)
<1>1. CASE IsOn(list, p)
  BY <1>1, SnipFound
<1>2. CASE ~ IsOn(list, p)
  BY <1>2 DEF Snip
<1> QED
  BY <1>1, <1>2

\* Without more being known of the list.
LEMMA SnipType ==
  ASSUME NEW list \in Seq(Proc), NEW p
  PROVE  Snip(list, p) \in Seq(Proc)
<1> SUFFICES ASSUME IsOn(list, p) PROVE Snip(list, p) \in Seq(Proc)
  BY DEF Snip
<1> DEFINE i == CHOOSE j \in 1 .. Len(list) : list[j] = p
<1>1. i \in 1 .. Len(list)
  BY DEF IsOn
<1> HIDE DEF i
<1>2. Len(list) \in Nat
  OBVIOUS
<1>3. SubSeq(list, 1, i - 1) \in Seq(Proc)
  <2>1. \A j \in 1 .. i - 1 : list[j] \in Proc
    BY <1>1, <1>2
  <2> QED
    BY <2>1, <1>1, <1>2, SubSeqProperties
<1>4. SubSeq(list, i + 1, Len(list)) \in Seq(Proc)
  <2>1. \A j \in i + 1 .. Len(list) : list[j] \in Proc
    BY <1>1, <1>2
  <2> QED
    BY <2>1, <1>1, <1>2, SubSeqProperties
<1>5. SubSeq(list, 1, i - 1) \o SubSeq(list, i + 1, Len(list)) \in Seq(Proc)
  BY <1>3, <1>4, ConcatProperties
<1> QED
  BY <1>5 DEF Snip, i

\* The first taken off.
LEMMA TailMembers ==
  ASSUME NEW list \in Seq(Proc), list # <<>>, Distinct(list)
  PROVE  /\ \A x : IsOn(Tail(list), x) <=> x # Head(list) /\ IsOn(list, x)
         /\ Distinct(Tail(list))
         /\ IsOn(list, Head(list))
<1>1. /\ Len(Tail(list)) = Len(list) - 1 /\ Len(list) \in Nat \ {0}
      /\ \A i \in 1 .. Len(list) - 1 : Tail(list)[i] = list[i + 1]
      /\ Head(list) = list[1]
  BY HeadTailProperties
<1> PICK n \in Nat : n = Len(list)
  BY <1>1
<1> PICK t, h : t = Tail(list) /\ h = Head(list)
  OBVIOUS
<1>2. /\ n \in Nat \ {0} /\ Len(t) = n - 1 /\ h = list[1]
      /\ \A i \in 1 .. n - 1 : t[i] = list[i + 1] /\ i + 1 \in 1 .. n /\ i + 1 # 1
      /\ \A j \in 1 .. n : j # 1 => j - 1 \in 1 .. n - 1 /\ t[j - 1] = list[j]
  <2>1. n \in Nat \ {0} /\ Len(t) = n - 1 /\ h = list[1]
    BY <1>1
  <2>2. ASSUME NEW i \in 1 .. n - 1
        PROVE  t[i] = list[i + 1] /\ i + 1 \in 1 .. n /\ i + 1 # 1
    BY <1>1
  <2>3. ASSUME NEW j \in 1 .. n, j # 1
        PROVE  j - 1 \in 1 .. n - 1 /\ t[j - 1] = list[j]
    <3>1. j - 1 \in 1 .. n - 1 /\ (j - 1) + 1 = j
      BY <2>3
    <3> QED
      BY <2>2, <3>1
  <2> QED
    BY <2>1, <2>2, <2>3
<1>3. \A i, j \in 1 .. n : list[i] = list[j] => i = j
  BY DEF Distinct
<1>4. IsOn(list, h)
  BY <1>2 DEF IsOn
<1>5. ASSUME NEW x, IsOn(t, x)
      PROVE  x # h /\ IsOn(list, x)
  <2>1. PICK i \in 1 .. n - 1 : t[i] = x
    BY <1>2, <1>5 DEF IsOn
  <2> QED
    BY <1>2, <1>3, <2>1 DEF IsOn
<1>6. ASSUME NEW x, x # h, IsOn(list, x)
      PROVE  IsOn(t, x)
  <2>1. PICK j \in 1 .. n : list[j] = x
    BY <1>6 DEF IsOn
  <2>2. j - 1 \in 1 .. n - 1 /\ t[j - 1] = x
    BY <1>2, <1>6, <2>1
  <2> QED
    BY <1>2, <2>2 DEF IsOn
<1>7. Distinct(t)
  <2> SUFFICES ASSUME NEW i \in 1 .. n - 1, NEW j \in 1 .. n - 1, t[i] = t[j]
               PROVE  i = j
    BY <1>2 DEF Distinct
  <2>1. i + 1 = j + 1
    BY <1>2, <1>3
  <2> QED
    BY <2>1
<1> QED
  BY <1>4, <1>5, <1>6, <1>7

\* How often a process is on a list on which nobody is twice.
LEMMA CountMembers ==
  ASSUME NEW list \in Seq(Proc), NEW p, Distinct(list)
  PROVE  Count(list, p) = IF IsOn(list, p) THEN 1 ELSE 0
<1> DEFINE S == {i \in 1 .. Len(list) : list[i] = p}
<1>1. CASE IsOn(list, p)
  <2>1. PICK i \in 1 .. Len(list) : list[i] = p
    BY <1>1 DEF IsOn
  <2>2. S = {i}
    BY <2>1 DEF Distinct
  <2>3. Cardinality(S) = 1
    BY <2>2, FS_Singleton
  <2> QED
    BY <1>1, <2>3 DEF Count
<1>2. CASE ~ IsOn(list, p)
  <2>1. S = {}
    BY <1>2 DEF IsOn
  <2>2. Cardinality(S) = 0
    BY <2>1, FS_EmptySet
  <2> QED
    BY <1>2, <2>2 DEF Count
<1> QED
  BY <1>1, <1>2
----------------------------------------------------------------------------
(* Scans of a list, from its head to the first place that stops them.       *)

\* Every set of numbers that is not empty has a least one.
LEMMA LeastNumber ==
  ASSUME NEW T \in SUBSET Nat, T # {}
  PROVE  \E n \in T : \A m \in T : n <= m
<1>1. PICK R : R = OpToRel(<, Nat)
  OBVIOUS
<1>2. IsWellFoundedOn(R, Nat)
  BY <1>1, NatLessThanWellFounded
<1>3. \A m, n \in Nat : m < n => <<m, n>> \in R
  BY <1>1 DEF OpToRel
<1>4. PICK n \in T : \A m \in T : ~ <<m, n>> \in R
  BY <1>2, WFMin
<1>5. ASSUME NEW m \in T PROVE n <= m
  <2>1. m \in Nat /\ n \in Nat
    OBVIOUS
  <2>2. ~ m < n
    BY <1>3, <1>4, <2>1
  <2> QED
    BY <2>1, <2>2
<1> QED
  BY <1>5

\* A set with 0 and, with every number, the next one has all numbers.
LEMMA NumbersReached ==
  ASSUME NEW T, 0 \in T, \A n \in Nat : n \in T => n + 1 \in T
  PROVE  Nat \subseteq T
<1> DEFINE U == Nat \ T
<1> SUFFICES ASSUME U # {} PROVE FALSE
  OBVIOUS
<1>1. PICK n \in U : \A m \in U : n <= m
  BY LeastNumber
<1>2. n \in Nat /\ n # 0
  OBVIOUS
<1>3. n - 1 \in Nat /\ ~ n <= n - 1 /\ (n - 1) + 1 = n
  BY <1>2
<1>4. n - 1 \in T
  BY <1>1, <1>3
<1> QED
  BY <1>3, <1>4

\* What a scan goes past is the front of the list.
LEMMA ScanFront ==
  ASSUME NEW n \in Nat, NEW S \in SUBSET (1 .. n),
         \A i \in S : \A j \in 1 .. i : j \in S
  PROVE  /\ Cardinality(S) \in 0 .. n
         /\ S = 1 .. Cardinality(S)
<1> DEFINE U == {m \in Nat : m + 1 \notin S}
<1>1. n \in U
  OBVIOUS
<1>2. PICK m \in U : \A k \in U : m <= k
  BY <1>1, LeastNumber
<1>3. m \in 0 .. n
  BY <1>1, <1>2
<1>4. ASSUME NEW i \in S PROVE i \in 1 .. m
  <2> SUFFICES ASSUME i > m PROVE FALSE
    BY <1>3
  <2>1. m + 1 \in 1 .. i
    BY <1>3
  <2> QED
    BY <1>2, <2>1
<1>5. ASSUME NEW i \in 1 .. m PROVE i \in S
  <2>1. i - 1 \in Nat /\ ~ m <= i - 1 /\ (i - 1) + 1 = i
    BY <1>3
  <2>2. i - 1 \notin U
    BY <1>2, <2>1
  <2> QED
    BY <2>1, <2>2
<1>6. S = 1 .. m
  BY <1>4, <1>5
<1>7. Cardinality(1 .. m) = m
  BY <1>3, FS_Interval
<1> QED
  BY <1>3, <1>6, <1>7

----------------------------------------------------------------------------
(* Lists joined and cut.                                                    *)

\* One list behind another.
LEMMA JoinMembers ==
  ASSUME NEW front \in Seq(Proc), NEW back \in Seq(Proc)
  PROVE  /\ front \o back \in Seq(Proc)
         /\ \A x : IsOn(front \o back, x) <=> IsOn(front, x) \/ IsOn(back, x)
         /\ Distinct(front) /\ Distinct(back)
              /\ (\A x \in Proc : ~ (IsOn(front, x) /\ IsOn(back, x)))
                => Distinct(front \o back)
<1> PICK a \in Nat : a = Len(front)
  OBVIOUS
<1> PICK b \in Nat : b = Len(back)
  OBVIOUS
<1> PICK new : new = front \o back
  OBVIOUS
<1>1. /\ new \in Seq(Proc) /\ Len(new) = a + b
      /\ \A i \in 1 .. a + b : new[i] = IF i <= a THEN front[i] ELSE back[i - a]
  BY ConcatProperties
<1>2. /\ \A i \in 1 .. a : i \in 1 .. a + b /\ new[i] = front[i]
      /\ \A i \in 1 .. b : i + a \in 1 .. a + b /\ new[i + a] = back[i]
      /\ \A i \in 1 .. a + b :
           \/ i \in 1 .. a /\ new[i] = front[i]
           \/ i - a \in 1 .. b /\ new[i] = back[i - a] /\ i > a
  <2>1. ASSUME NEW i \in 1 .. a PROVE i \in 1 .. a + b /\ new[i] = front[i]
    BY <1>1
  <2>2. ASSUME NEW i \in 1 .. b PROVE i + a \in 1 .. a + b /\ new[i + a] = back[i]
    <3>1. i + a \in 1 .. a + b /\ ~ i + a <= a /\ (i + a) - a = i
      OBVIOUS
    <3> QED
      BY <1>1, <3>1
  <2>3. ASSUME NEW i \in 1 .. a + b
        PROVE  \/ i \in 1 .. a /\ new[i] = front[i]
               \/ i - a \in 1 .. b /\ new[i] = back[i - a] /\ i > a
    BY <1>1
  <2> QED
    BY <2>1, <2>2, <2>3
<1>3. ASSUME NEW x PROVE IsOn(new, x) <=> IsOn(front, x) \/ IsOn(back, x)
  <2>1. /\ IsOn(new, x) <=> \E i \in 1 .. a + b : new[i] = x
        /\ IsOn(front, x) <=> \E i \in 1 .. a : front[i] = x
        /\ IsOn(back, x) <=> \E i \in 1 .. b : back[i] = x
    BY <1>1 DEF IsOn
  <2>2. (\E i \in 1 .. a : front[i] = x) => \E i \in 1 .. a + b : new[i] = x
    BY <1>2
  <2>3. ASSUME NEW i \in 1 .. b, back[i] = x
        PROVE  \E j \in 1 .. a + b : new[j] = x
    <3>1. i + a \in 1 .. a + b /\ new[i + a] = x
      BY <1>2, <2>3
    <3> QED
      BY <3>1
  <2>4. ASSUME NEW i \in 1 .. a + b, new[i] = x
        PROVE  (\E j \in 1 .. a : front[j] = x) \/ \E j \in 1 .. b : back[j] = x
    BY <1>2, <2>4
  <2> QED
    BY <2>1, <2>2, <2>3, <2>4
<1>4. ASSUME Distinct(front), Distinct(back),
             \A x \in Proc : ~ (IsOn(front, x) /\ IsOn(back, x))
      PROVE  Distinct(new)
  <2> SUFFICES ASSUME NEW i \in 1 .. a + b, NEW j \in 1 .. a + b, new[i] = new[j]
               PROVE  i = j
    BY <1>1 DEF Distinct
  <2>1. new[i] \in Proc
    BY <1>1
  <2>2. CASE i \in 1 .. a /\ j \in 1 .. a
    BY <1>2, <1>4, <2>2 DEF Distinct
  <2>3. CASE i \notin 1 .. a /\ j \notin 1 .. a
    <3>1. i - a \in 1 .. b /\ j - a \in 1 .. b /\ back[i - a] = back[j - a]
      BY <1>2, <2>3
    <3>2. i - a = j - a
      BY <1>4, <3>1 DEF Distinct
    <3> QED
      BY <3>2
  <2>4. CASE ~ (i \in 1 .. a <=> j \in 1 .. a)
    <3>1. IsOn(front, new[i]) /\ IsOn(back, new[i])
      BY <1>2, <2>4 DEF IsOn
    <3> QED
      BY <1>4, <2>1, <3>1
  <2> QED
    BY <2>2, <2>3, <2>4
<1> QED
  BY <1>1, <1>3, <1>4

\* A list of one process.
LEMMA OneMember ==
  ASSUME NEW p \in Proc
  PROVE  /\ <<p>> \in Seq(Proc) /\ Distinct(<<p>>)
         /\ \A x : IsOn(<<p>>, x) <=> x = p
<1>1. <<p>> \in Seq(Proc) /\ Len(<<p>>) = 1 /\ <<p>>[1] = p
  OBVIOUS
<1> QED
  BY <1>1 DEF IsOn, Distinct

\* A process put before a list, and behind it.
LEMMA EndsMembers ==
  ASSUME NEW list \in Seq(Proc), NEW p \in Proc
  PROVE  /\ <<p>> \o list \in Seq(Proc)
         /\ \A x : IsOn(<<p>> \o list, x) <=> x = p \/ IsOn(list, x)
         /\ Distinct(list) /\ ~ IsOn(list, p) => Distinct(<<p>> \o list)
         /\ list \o <<p>> \in Seq(Proc)
         /\ \A x : IsOn(list \o <<p>>, x) <=> x = p \/ IsOn(list, x)
         /\ Distinct(list) /\ ~ IsOn(list, p) => Distinct(list \o <<p>>)
  BY OneMember, JoinMembers

\* The back of a list.
LEMMA BackMembers ==
  ASSUME NEW list \in Seq(Proc), NEW k \in 0 .. Len(list)
  PROVE  LET back == SubSeq(list, k + 1, Len(list))
         IN  /\ back \in Seq(Proc) /\ Len(back) = Len(list) - k
             /\ \A i \in 1 .. Len(list) - k : back[i] = list[k + i]
             /\ \A x : IsOn(back, x) <=> \E i \in k + 1 .. Len(list) : list[i] = x
             /\ Distinct(list) => Distinct(back)
<1> PICK n \in Nat : n = Len(list)
  OBVIOUS
<1> PICK back : back = SubSeq(list, k + 1, n)
  OBVIOUS
<1>1. \A i \in k + 1 .. n : list[i] \in Proc
  OBVIOUS
<1>2. /\ back \in Seq(Proc) /\ Len(back) = n - k
      /\ \A i \in 1 .. n - k : back[i] = list[k + i]
  BY <1>1, SubSeqProperties
<1>3. ASSUME NEW x PROVE IsOn(back, x) <=> \E i \in k + 1 .. n : list[i] = x
  <2>1. ASSUME NEW i \in k + 1 .. n PROVE i - k \in 1 .. n - k /\ back[i - k] = list[i]
    <3>1. i - k \in 1 .. n - k /\ k + (i - k) = i
      OBVIOUS
    <3>2. back[i - k] = list[k + (i - k)]
      BY <1>2, <3>1
    <3> QED
      BY <3>1, <3>2
  <2>2. \A i \in 1 .. n - k : k + i \in k + 1 .. n
    OBVIOUS
  <2>3. IsOn(back, x) <=> \E i \in 1 .. n - k : back[i] = x
    BY <1>2 DEF IsOn
  <2>4. ASSUME NEW j \in 1 .. n - k, back[j] = x
        PROVE  \E i \in k + 1 .. n : list[i] = x
    BY <1>2, <2>2, <2>4
  <2>5. ASSUME NEW i \in k + 1 .. n, list[i] = x
        PROVE  \E j \in 1 .. n - k : back[j] = x
    BY <2>1, <2>5
  <2> QED
    BY <2>3, <2>4, <2>5
<1>4. ASSUME Distinct(list) PROVE Distinct(back)
  <2> SUFFICES ASSUME NEW i \in 1 .. n - k, NEW j \in 1 .. n - k, back[i] = back[j]
               PROVE  i = j
    BY <1>2 DEF Distinct
  <2>1. k + i \in 1 .. n /\ k + j \in 1 .. n /\ list[k + i] = list[k + j]
    BY <1>2
  <2>2. k + i = k + j
    BY <1>4, <2>1 DEF Distinct
  <2> QED
    BY <2>2
<1> QED
  BY <1>2, <1>3, <1>4

\* The front of a list, its first last.
LEMMA ReversedMembers ==
  ASSUME NEW list \in Seq(Proc), NEW k \in 0 .. Len(list)
  PROVE  LET front == [i \in 1 .. k |-> list[k + 1 - i]]
         IN  /\ front \in Seq(Proc)
             /\ \A x : IsOn(front, x) <=> \E i \in 1 .. k : list[i] = x
             /\ Distinct(list) => Distinct(front)
<1> PICK front : front = [i \in 1 .. k |-> list[k + 1 - i]]
  OBVIOUS
<1>1. \A i \in 1 .. k : /\ k + 1 - i \in 1 .. k /\ k + 1 - i \in 1 .. Len(list)
                        /\ k + 1 - (k + 1 - i) = i
                        /\ front[i] = list[k + 1 - i] /\ front[i] \in Proc
  <2> TAKE i \in 1 .. k
  <2>1. /\ k + 1 - i \in 1 .. k /\ k + 1 - i \in 1 .. Len(list)
        /\ k + 1 - (k + 1 - i) = i
    OBVIOUS
  <2>2. list[k + 1 - i] \in Proc
    BY <2>1
  <2> QED
    BY <2>1, <2>2
<1>2. front \in Seq(Proc) /\ Len(front) = k
  <2>1. front \in [1 .. k -> Proc] /\ k \in Nat
    BY <1>1
  <2> QED
    BY <2>1
<1>3. ASSUME NEW x PROVE IsOn(front, x) <=> \E i \in 1 .. k : list[i] = x
  <2>1. ASSUME NEW i \in 1 .. k, list[i] = x PROVE IsOn(front, x)
    <3>1. k + 1 - i \in 1 .. k /\ front[k + 1 - i] = list[i]
      BY <1>1
    <3> QED
      BY <1>2, <2>1, <3>1 DEF IsOn
  <2> QED
    BY <1>1, <1>2, <2>1 DEF IsOn
<1>4. ASSUME Distinct(list) PROVE Distinct(front)
  <2> SUFFICES ASSUME NEW i \in 1 .. k, NEW j \in 1 .. k, front[i] = front[j]
               PROVE  i = j
    BY <1>2 DEF Distinct
  <2>1. k + 1 - i = k + 1 - j
    BY <1>1, <1>4 DEF Distinct
  <2> QED
    BY <2>1
<1> QED
  BY <1>2, <1>3, <1>4

\* The process at a place taken off.
LEMMA SnipPlace ==
  ASSUME NEW list \in Seq(Proc), NEW i \in 1 .. Len(list), Distinct(list)
  PROVE  /\ SubSeq(list, 1, i - 1) \o SubSeq(list, i + 1, Len(list)) = Snip(list, list[i])
         /\ IsOn(list, list[i])
<1>1. IsOn(list, list[i])
  BY DEF IsOn
<1>2. i = CHOOSE j \in 1 .. Len(list) : list[j] = list[i]
  BY DEF Distinct
<1> QED
  BY <1>1, <1>2 DEF Snip
=============================================================================
