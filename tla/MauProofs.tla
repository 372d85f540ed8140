----------------------------- MODULE MauProofs -----------------------------
(* Theorems of Mau, for any descriptors, owners, partition and size of the   *)
(* table: as long as two entries of the table are not used, the table and    *)
(* the descriptors agree, the calls implement MauService, and what they free *)
(* is put together.                                                          *)
EXTENDS Mau, FiniteSetTheorems, TLAPS

Lists == INSTANCE ProcessListsProofs WITH Proc <- MD

USE SizeAssumption

----------------------------------------------------------------------------
(* Tables whose first n entries cover the partition.                        *)

Areas(t, n) ==
  /\ t \in Table /\ n \in 1 .. Ents
  /\ t[1].start = Base /\ End(t[n]) = Base + Length
  /\ \A i \in 1 .. n : t[i].length > 0 /\ t[i].nall >= 0
  /\ \A i \in 1 .. n - 1 : t[i + 1].start = End(t[i])
  /\ \A i \in n + 1 .. Ents : t[i] = NoEnt

\* The numbers in such a table.
LEMMA AreasFacts ==
  ASSUME NEW t, NEW n, Areas(t, n)
  PROVE  /\ n \in Nat /\ n > 0 /\ n <= Ents /\ Ents \in Nat /\ Base \in Nat /\ Base > 0
         /\ Length \in Nat
         /\ t \in [1 .. Ents -> Sat]
         /\ \A j \in 1 .. n : /\ j \in 1 .. Ents /\ t[j] \in Sat
                              /\ t[j].start \in Nat /\ t[j].length \in Int /\ t[j].nall \in Int
                              /\ t[j].length > 0 /\ t[j].nall >= 0
         /\ \A j \in 1 .. n - 1 : t[j + 1].start = t[j].start + t[j].length
         /\ \A j \in n + 1 .. Ents : t[j] = NoEnt
         /\ t[1].start = Base /\ t[n].start + t[n].length = Base + Length
<1>1. n \in 1 .. Ents /\ Ents \in Nat /\ t \in [1 .. Ents -> Sat]
  BY DEF Areas, Table
<1>2. \A j \in 1 .. n : j \in 1 .. Ents
  BY <1>1
<1>3. \A j \in 1 .. n : t[j] \in Sat /\ t[j].length > 0 /\ t[j].nall >= 0
  BY <1>1, <1>2 DEF Areas
<1>4. \A e \in Sat : e.start \in Nat /\ e.length \in Int /\ e.nall \in Int
  BY DEF Sat
<1>5. /\ \A j \in 1 .. n - 1 : t[j + 1].start = t[j].start + t[j].length
      /\ \A j \in n + 1 .. Ents : t[j] = NoEnt
      /\ t[1].start = Base /\ t[n].start + t[n].length = Base + Length
  BY DEF Areas, End
<1> QED
  BY <1>1, <1>2, <1>3, <1>4, <1>5

\* The entries follow each other, within the partition.
Ordered(t, n) ==
  /\ \A i, j \in 1 .. n : i < j => End(t[i]) <= t[j].start
  /\ \A i \in 1 .. n : t[i].start >= Base /\ End(t[i]) <= Base + Length

\* Entries that follow each other do not overlap, however far apart.
LEMMA AreasOrdered ==
  ASSUME NEW t, NEW n, Areas(t, n)
  PROVE  Ordered(t, n)
<1>1. /\ n \in Nat /\ n > 0 /\ n <= Ents
      /\ \A i \in 1 .. n : /\ t[i].start \in Int /\ t[i].length \in Int /\ t[i].length > 0
                           /\ End(t[i]) \in Int /\ End(t[i]) > t[i].start
      /\ \A i \in 1 .. n - 1 : t[i + 1].start = End(t[i])
      /\ t[1].start = Base /\ End(t[n]) = Base + Length
  BY DEF Areas, Table, Sat, End
<1> DEFINE T == {d \in Nat : \A i \in 1 .. n : i + 1 + d <= n => End(t[i]) <= t[i + 1 + d].start}
<1>2. 0 \in T
  <2> SUFFICES ASSUME NEW i \in 1 .. n, i + 1 <= n PROVE End(t[i]) <= t[i + 1].start
    OBVIOUS
  <2> QED
    BY <1>1
<1>3. ASSUME NEW d \in Nat, d \in T PROVE d + 1 \in T
  <2> SUFFICES ASSUME NEW i \in 1 .. n, i + 1 + (d + 1) <= n
               PROVE  End(t[i]) <= t[i + 1 + (d + 1)].start
    OBVIOUS
  <2> PICK j \in 1 .. n - 1 : j = i + 1 + d
    BY <1>1
  <2>1. j \in 1 .. n /\ j + 1 \in 1 .. n /\ i + 1 + (d + 1) = j + 1
    BY <1>1
  <2>2. End(t[i]) <= t[j].start
    <3>1. i + 1 + d <= n
      BY <1>1
    <3>2. End(t[i]) <= t[i + 1 + d].start
      BY <1>3, <3>1
    <3> QED
      BY <3>2
  <2>3. t[j + 1].start = End(t[j]) /\ End(t[j]) > t[j].start
    BY <1>1, <2>1
  <2> QED
    BY <1>1, <2>1, <2>2, <2>3
<1>4. Nat \subseteq T
  <2> HIDE DEF T
  <2> QED
    BY <1>2, <1>3, Lists!NumbersReached
<1>5. ASSUME NEW i \in 1 .. n, NEW j \in 1 .. n, i < j PROVE End(t[i]) <= t[j].start
  <2>1. PICK d \in Nat : j = i + 1 + d
    <3>1. j - i - 1 \in Nat /\ j = i + 1 + (j - i - 1)
      BY <1>5
    <3> QED
      BY <3>1
  <2> QED
    BY <1>4, <2>1
<1>6. ASSUME NEW i \in 1 .. n PROVE t[i].start >= Base /\ End(t[i]) <= Base + Length
  <2>1. 1 \in 1 .. n /\ n \in 1 .. n
    BY <1>1
  <2>2. i = 1 \/ End(t[1]) <= t[i].start
    BY <1>5, <2>1
  <2>3. i = n \/ End(t[i]) <= t[n].start
    BY <1>5, <2>1
  <2> QED
    BY <1>1, <2>1, <2>2, <2>3
<1> QED
  BY <1>5, <1>6 DEF Ordered

\* The entries in use are the first n.
LEMMA AreasUsed ==
  ASSUME NEW t, NEW n, Areas(t, n)
  PROVE  /\ Used(t) = 1 .. n /\ Free(t) = {i \in 1 .. n : t[i].nall = 0}
         /\ Full(t) <=> n = Ents
<1>1. /\ n \in 1 .. Ents /\ Ents \in Nat
      /\ \A i \in 1 .. n : t[i].start \in Int
      /\ \A i \in n + 1 .. Ents : t[i].start = 0
  BY DEF Areas, NoEnt, Table, Sat
<1>2. \A i \in 1 .. n : t[i].start # 0
  <2>1. \A i \in 1 .. n : t[i].start >= Base /\ t[i].start \in Int
    BY AreasOrdered, <1>1 DEF Ordered
  <2> QED
    BY <2>1
<1>3. Used(t) = 1 .. n
  <2>1. ASSUME NEW i \in Used(t) PROVE i \in 1 .. n
    BY <1>1, <2>1 DEF Used
  <2>2. ASSUME NEW i \in 1 .. n PROVE i \in Used(t)
    BY <1>1, <1>2 DEF Used
  <2> QED
    BY <2>1, <2>2
<1>4. Full(t) <=> n = Ents
  BY <1>1, <1>2 DEF Full
<1> QED
  BY <1>3, <1>4 DEF Free

----------------------------------------------------------------------------
(* What the operations on the table make of it.                             *)

\* The entries of segments.
Allocated(t) == {e \in {t[i] : i \in 1 .. Ents} : e.nall # 0}

LEMMA AllocatedIs ==
  ASSUME NEW t, NEW n, Areas(t, n)
  PROVE  \A e : e \in Allocated(t) <=> \E i \in 1 .. n : e = t[i] /\ t[i].nall # 0
<1>1. /\ n \in 1 .. Ents /\ Ents \in Nat
      /\ \A i \in n + 1 .. Ents : t[i].nall = 0
  BY DEF Areas, NoEnt
<1>2. \A i \in 1 .. Ents : i \in 1 .. n \/ i \in n + 1 .. Ents
  BY <1>1
<1>3. \A i \in 1 .. n : i \in 1 .. Ents
  BY <1>1
<1> QED
  BY <1>1, <1>2, <1>3 DEF Allocated

\* Entry e with another length or count.
Sized(e, k) == [start |-> e.start, length |-> k, nall |-> e.nall]
Counting(e, c) == [start |-> e.start, length |-> e.length, nall |-> c]
Behind(e, k) == [start |-> e.start + k, length |-> e.length - k, nall |-> 0]

\* u is t with its i-th entry cut at k.
Cut(t, n, i, k, u) ==
  \A j \in 1 .. n + 1 :
    u[j] = IF j < i THEN t[j] ELSE IF j = i THEN Sized(t[i], k)
           ELSE IF j = i + 1 THEN Behind(t[i], k) ELSE t[j - 1]

\* mau_split, with an entry that is not used.
LEMMA SplitAreas ==
  ASSUME NEW t, NEW n, Areas(t, n), n < Ents,
         NEW i \in 1 .. n, NEW k \in 1 .. t[i].length - 1,
         NEW u, u = Split(t, i, k)
  PROVE  Areas(u, n + 1) /\ Cut(t, n, i, k, u)
<1>0. /\ n \in Nat /\ n > 0 /\ Ents \in Nat
      /\ t \in [1 .. Ents -> Sat]
      /\ \A j \in 1 .. n : /\ t[j] \in Sat /\ t[j].start \in Nat /\ t[j].length \in Int
                           /\ t[j].nall \in Int /\ t[j].length > 0 /\ t[j].nall >= 0
      /\ \A j \in 1 .. n - 1 : t[j + 1].start = t[j].start + t[j].length
      /\ \A j \in n + 1 .. Ents : t[j] = NoEnt
      /\ t[1].start = Base /\ t[n].start + t[n].length = Base + Length
  BY AreasFacts
<1>1. /\ i \in Nat /\ i > 0 /\ i <= n /\ n + 1 \in 1 .. Ents /\ i \in 1 .. Ents
  BY <1>0
<1>2. k \in Nat /\ k > 0 /\ k < t[i].length
  BY <1>0, <1>1
<1>3. ~ Full(t)
  BY AreasUsed
<1> DEFINE cut == [t EXCEPT ![i].length = k]
<1>4. /\ cut[i] = Sized(t[i], k)
      /\ \A j \in 1 .. Ents : j # i => cut[j] = t[j]
  <2>1. cut[i] = [t[i] EXCEPT !.length = k] /\ t[i] \in Sat
    BY <1>0, <1>1
  <2>2. \A e \in Sat : [e EXCEPT !.length = k] = Sized(e, k)
    BY DEF Sat, Sized
  <2> QED
    BY <1>0, <2>1, <2>2
<1>5. Behind(t[i], k) \in Sat /\ Sized(t[i], k) \in Sat
  <2>1. /\ t[i].start \in Nat /\ t[i].length \in Int /\ t[i].nall \in Int /\ k \in Nat
        /\ t[i].start + k \in Nat /\ t[i].length - k \in Int
    BY <1>0, <1>2
  <2> QED
    BY <2>1 DEF Behind, Sized, Sat
<1>6. u = [j \in 1 .. Ents |-> IF j < i + 1 THEN cut[j]
                               ELSE IF j = i + 1 THEN Behind(t[i], k) ELSE cut[j - 1]]
  BY <1>3 DEF Split, Insert, Behind
<1> HIDE DEF cut
<1>7. \A j \in 1 .. Ents :
        u[j] = IF j < i THEN t[j] ELSE IF j = i THEN Sized(t[i], k)
               ELSE IF j = i + 1 THEN Behind(t[i], k) ELSE t[j - 1]
  <2> SUFFICES ASSUME NEW j \in 1 .. Ents
               PROVE  u[j] = IF j < i THEN t[j] ELSE IF j = i THEN Sized(t[i], k)
                             ELSE IF j = i + 1 THEN Behind(t[i], k) ELSE t[j - 1]
    OBVIOUS
  <2>1. CASE j <= i
    BY <1>0, <1>1, <1>4, <1>6, <2>1
  <2>2. CASE j = i + 1
    BY <1>0, <1>1, <1>6, <2>2
  <2>3. CASE j > i + 1
    <3>1. j - 1 \in 1 .. Ents /\ j - 1 # i
      BY <1>0, <1>1, <2>3
    <3> QED
      BY <1>0, <1>1, <1>4, <1>6, <2>3, <3>1
  <2> QED
    BY <1>0, <1>1, <2>1, <2>2, <2>3
<1>8. Cut(t, n, i, k, u)
  <2>1. \A j \in 1 .. n + 1 : j \in 1 .. Ents
    BY <1>0, <1>1
  <2> QED
    BY <1>7, <2>1 DEF Cut
<1>9. u \in Table
  <2>1. ASSUME NEW j \in 1 .. Ents PROVE u[j] \in Sat
    <3>1. j > i + 1 => j - 1 \in 1 .. Ents
      BY <1>0, <1>1
    <3>2. t[j] \in Sat /\ (j > i + 1 => t[j - 1] \in Sat)
      BY <1>0, <3>1
    <3>3. j \in Int /\ i \in Int
      BY <1>1
    <3>4. CASE j > i + 1
      BY <1>7, <3>2, <3>3, <3>4
    <3>5. CASE j <= i + 1
      BY <1>5, <1>7, <3>2, <3>3, <3>5
    <3> QED
      BY <3>3, <3>4, <3>5
  <2> QED
    BY <1>6, <2>1 DEF Table
<1>10. \A j \in (n + 1) + 1 .. Ents : u[j] = NoEnt
  <2> SUFFICES ASSUME NEW j \in (n + 1) + 1 .. Ents PROVE u[j] = NoEnt
    OBVIOUS
  <2>1. j \in 1 .. Ents /\ j - 1 \in n + 1 .. Ents /\ j > i + 1
    BY <1>0, <1>1
  <2> QED
    BY <1>0, <1>1, <1>7, <2>1
<1>11. ASSUME NEW j \in 1 .. n + 1
       PROVE  /\ u[j].length > 0 /\ u[j].nall >= 0
              /\ j # n + 1 => u[j + 1].start = u[j].start + u[j].length
              /\ j = 1 => u[j].start = Base
              /\ j = n + 1 => u[j].start + u[j].length = Base + Length
  <2>1. j \in 1 .. Ents /\ j \in Int
    BY <1>0, <1>1
  <2>2. CASE j < i
    <3>1. j \in 1 .. n /\ j \in 1 .. n - 1 /\ j + 1 <= i /\ j + 1 \in 1 .. Ents
      BY <1>0, <1>1, <2>2
    <3>2. u[j] = t[j] /\ u[j + 1].start = t[j + 1].start
      BY <1>0, <1>1, <1>7, <2>1, <2>2, <3>1 DEF Sized
    <3>3. j = 1 => t[j].start = Base
      BY <1>0
    <3>4. t[j + 1].start = t[j].start + t[j].length
      BY <1>0, <3>1
    <3>5. t[j].length > 0 /\ t[j].nall >= 0 /\ j # n + 1
      BY <1>0, <3>1
    <3> QED
      BY <3>2, <3>3, <3>4, <3>5
  <2>3. CASE j = i
    <3>1. j + 1 \in 1 .. Ents /\ j \in 1 .. n
      BY <1>0, <1>1, <2>3
    <3>2. u[j] = Sized(t[i], k) /\ u[j + 1] = Behind(t[i], k)
      BY <1>0, <1>1, <1>7, <2>1, <2>3, <3>1
    <3> QED
      BY <1>0, <1>1, <1>2, <2>3, <3>1, <3>2 DEF Sized, Behind
  <2>4. CASE j = i + 1
    <3>0. u[j] = Behind(t[i], k)
      BY <1>1, <1>7, <2>1, <2>4
    <3>1. u[j] = Behind(t[i], k) /\ t[i].start + t[i].length = u[j].start + u[j].length
      <4>1. u[j].start = t[i].start + k /\ u[j].length = t[i].length - k
        BY <3>0 DEF Behind
      <4>2. t[i].start \in Int /\ t[i].length \in Int /\ k \in Int
        BY <1>0, <1>2
      <4>3. t[i].start + t[i].length = (t[i].start + k) + (t[i].length - k)
        BY <4>2
      <4> QED
        BY <3>0, <4>1, <4>3
    <3>2. j # n + 1 => u[j + 1].start = t[i].start + t[i].length
      <4> SUFFICES ASSUME j # n + 1 PROVE u[j + 1].start = t[i].start + t[i].length
        OBVIOUS
      <4>1. j + 1 \in 1 .. Ents /\ (j + 1) - 1 = i + 1 /\ i \in 1 .. n - 1
            /\ ~ j + 1 < i /\ ~ j + 1 = i /\ ~ j + 1 = i + 1
        BY <1>0, <1>1, <2>4
      <4>2. u[j + 1] = t[i + 1]
        BY <1>7, <4>1
      <4> QED
        BY <1>0, <1>1, <4>1, <4>2
    <3>3. j = n + 1 => i = n
      BY <1>0, <1>1, <2>4
    <3> QED
      BY <1>0, <1>1, <1>2, <2>4, <3>1, <3>2, <3>3 DEF Behind
  <2>5. CASE j > i + 1
    <3>1. j - 1 \in 1 .. n /\ (j - 1) + 1 = j /\ j # 1
      BY <1>0, <1>1, <2>5
    <3>2. u[j] = t[j - 1]
      BY <1>0, <1>1, <1>7, <2>1, <2>5
    <3>3. j # n + 1 => u[j + 1].start = t[j - 1].start + t[j - 1].length
      <4> SUFFICES ASSUME j # n + 1
                   PROVE  u[j + 1].start = t[j - 1].start + t[j - 1].length
        OBVIOUS
      <4>1. /\ j + 1 \in 1 .. Ents /\ (j + 1) - 1 = j /\ j - 1 \in 1 .. n - 1
            /\ ~ j + 1 < i /\ ~ j + 1 = i /\ ~ j + 1 = i + 1
        BY <1>0, <1>1, <2>5
      <4>2. u[j + 1] = t[j]
        BY <1>7, <4>1
      <4> QED
        BY <1>0, <1>1, <3>1, <4>1, <4>2
    <3>4. j = n + 1 => j - 1 = n
      BY <1>0, <1>1
    <3> QED
      BY <1>0, <1>1, <3>1, <3>2, <3>3, <3>4
  <2> QED
    BY <1>0, <1>1, <2>1, <2>2, <2>3, <2>4, <2>5
<1>12. n + 1 \in 1 .. n + 1 /\ 1 \in 1 .. n + 1 /\ \A j \in 1 .. (n + 1) - 1 : j \in 1 .. n + 1 /\ j # n + 1
  BY <1>0, <1>1
<1> QED
  BY <1>0, <1>1, <1>8, <1>9, <1>10, <1>11, <1>12 DEF Areas, End

\* u is t with its entries i and i + 1 joined.
Joined(t, n, i, u) ==
  \A j \in 1 .. n - 1 :
    u[j] = IF j < i THEN t[j]
           ELSE IF j = i THEN Sized(t[i], t[i].length + t[i + 1].length) ELSE t[j + 1]

\* mau_collapse makes one entry of two.
LEMMA MergeAreas ==
  ASSUME NEW t, NEW n, Areas(t, n), NEW i \in 1 .. n - 1,
         NEW u, u = Merge(t, i).sat
  PROVE  Areas(u, n - 1) /\ Joined(t, n, i, u)
<1>0. /\ n \in Nat /\ n > 0 /\ n <= Ents /\ Ents \in Nat
      /\ t \in [1 .. Ents -> Sat]
      /\ \A j \in 1 .. n : /\ t[j] \in Sat /\ t[j].start \in Nat /\ t[j].length \in Int
                           /\ t[j].nall \in Int /\ t[j].length > 0 /\ t[j].nall >= 0
      /\ \A j \in 1 .. n - 1 : t[j + 1].start = t[j].start + t[j].length
      /\ \A j \in n + 1 .. Ents : t[j] = NoEnt
      /\ t[1].start = Base /\ t[n].start + t[n].length = Base + Length
  BY AreasFacts
<1>1. /\ i \in Nat /\ i > 0 /\ i <= n - 1 /\ i \in 1 .. n /\ i + 1 \in 1 .. n
      /\ i \in 1 .. Ents /\ i + 1 \in 1 .. Ents /\ n - 1 \in 1 .. Ents
  <2>1. n \in Nat /\ n <= Ents /\ Ents \in Nat
    BY <1>0
  <2> QED
    BY <2>1
<1> PICK both \in Int : both = t[i].length + t[i + 1].length
  <2>1. t[i].length \in Int /\ t[i + 1].length \in Int
    BY <1>0, <1>1
  <2> QED
    BY <2>1
<1>2. t[i + 1].start - t[i].start + t[i + 1].length = both
  <2>1. t[i + 1].start = t[i].start + t[i].length
    BY <1>0
  <2>2. t[i].start \in Int /\ t[i].length \in Int /\ t[i + 1].length \in Int
    BY <1>0, <1>1
  <2>3. t[i + 1].start - t[i].start = t[i].length
    BY <2>1, <2>2
  <2> QED
    BY <2>3
<1> DEFINE wide == [t EXCEPT ![i].length = both]
<1>4. /\ wide[i] = Sized(t[i], both)
      /\ \A j \in 1 .. Ents : j # i => wide[j] = t[j]
  <2>1. wide[i] = [t[i] EXCEPT !.length = both] /\ t[i] \in Sat
    BY <1>0, <1>1
  <2>2. \A e \in Sat : [e EXCEPT !.length = both] = Sized(e, both)
    BY DEF Sat, Sized
  <2> QED
    BY <1>0, <2>1, <2>2
<1>6. u = [j \in 1 .. Ents |-> IF j < i + 1 THEN wide[j]
                               ELSE IF j < Ents THEN wide[j + 1] ELSE NoEnt]
  BY <1>2 DEF Merge, Release
<1> HIDE DEF wide
<1>5. Sized(t[i], both) \in Sat /\ NoEnt \in Sat
  BY <1>0, <1>1 DEF Sized, Sat, NoEnt
<1>7. \A j \in 1 .. Ents :
        u[j] = IF j < i THEN t[j] ELSE IF j = i THEN Sized(t[i], both)
               ELSE IF j < Ents THEN t[j + 1] ELSE NoEnt
  <2> SUFFICES ASSUME NEW j \in 1 .. Ents
               PROVE  u[j] = IF j < i THEN t[j] ELSE IF j = i THEN Sized(t[i], both)
                             ELSE IF j < Ents THEN t[j + 1] ELSE NoEnt
    OBVIOUS
  <2>0. u[j] = IF j < i + 1 THEN wide[j] ELSE IF j < Ents THEN wide[j + 1] ELSE NoEnt
    BY <1>6
  <2>1. CASE j <= i
    BY <1>1, <1>4, <2>0, <2>1
  <2>2. CASE ~ j <= i
    <3>1. j < Ents => j + 1 \in 1 .. Ents /\ j + 1 # i
      BY <1>0, <1>1, <2>2
    <3>2. ~ j < i + 1 /\ ~ j < i /\ j # i
      BY <1>1, <2>2
    <3>3. j < Ents => wide[j + 1] = t[j + 1]
      BY <1>4, <3>1
    <3> QED
      BY <2>0, <3>2, <3>3
  <2> QED
    BY <2>1, <2>2
<1>8. Joined(t, n, i, u)
  <2>1. \A j \in 1 .. n - 1 : j \in 1 .. Ents /\ j < Ents
    BY <1>0
  <2> QED
    BY <1>7, <2>1 DEF Joined
<1>9. u \in Table
  <2>1. ASSUME NEW j \in 1 .. Ents PROVE u[j] \in Sat
    <3>1. j < Ents => j + 1 \in 1 .. Ents
      BY <1>0
    <3>2. t[j] \in Sat /\ (j < Ents => t[j + 1] \in Sat)
      BY <1>0, <3>1
    <3> QED
      BY <1>5, <1>7, <3>2
  <2> QED
    BY <1>6, <2>1 DEF Table
<1>10. \A j \in (n - 1) + 1 .. Ents : u[j] = NoEnt
  <2> SUFFICES ASSUME NEW j \in (n - 1) + 1 .. Ents PROVE u[j] = NoEnt
    OBVIOUS
  <2>1. j \in 1 .. Ents /\ ~ j < i /\ j # i /\ (j < Ents => j + 1 \in n + 1 .. Ents)
    BY <1>0, <1>1
  <2> QED
    BY <1>0, <1>7, <2>1
<1>11. ASSUME NEW j \in 1 .. n - 1
       PROVE  /\ u[j].length > 0 /\ u[j].nall >= 0
              /\ j # n - 1 => u[j + 1].start = u[j].start + u[j].length
              /\ j = 1 => u[j].start = Base
              /\ j = n - 1 => u[j].start + u[j].length = Base + Length
  <2>1. j \in 1 .. Ents /\ j \in Int /\ j < Ents /\ j \in 1 .. n /\ j + 1 \in 1 .. n
    BY <1>0
  <2>2. CASE j < i
    <3>1. j # n - 1 /\ j + 1 \in 1 .. Ents /\ (j + 1 < i \/ j + 1 = i)
      BY <1>0, <1>1, <2>2
    <3>2. u[j] = t[j] /\ u[j + 1].start = t[j + 1].start
      BY <1>7, <2>1, <2>2, <3>1 DEF Sized
    <3>3. j = 1 => t[j].start = Base
      BY <1>0
    <3>4. t[j + 1].start = t[j].start + t[j].length /\ t[j].length > 0 /\ t[j].nall >= 0
      BY <1>0, <2>1
    <3> QED
      BY <3>1, <3>2, <3>3, <3>4
  <2>3. CASE j = i
    <3>1. u[j].start = t[i].start /\ u[j].length = both /\ u[j].nall = t[i].nall
      BY <1>1, <1>7, <2>1, <2>3 DEF Sized
    <3>2. /\ t[i].start \in Int /\ t[i].length \in Int /\ t[i + 1].length \in Int
          /\ t[i].length > 0 /\ t[i + 1].length > 0 /\ t[i].nall >= 0
          /\ t[i + 1].start = t[i].start + t[i].length
      BY <1>0, <1>1
    <3>3. both > 0 /\ t[i].start + both = t[i + 1].start + t[i + 1].length
      BY <3>2
    <3>4. j # n - 1 => u[j + 1].start = t[i + 1].start + t[i + 1].length
      <4> SUFFICES ASSUME j # n - 1
                   PROVE  u[j + 1].start = t[i + 1].start + t[i + 1].length
        OBVIOUS
      <4>1. /\ j + 1 \in 1 .. Ents /\ j + 1 < Ents /\ ~ j + 1 < i /\ j + 1 # i
            /\ i + 1 \in 1 .. n - 1
        BY <1>0, <1>1, <2>3
      <4>2. u[j + 1] = t[(i + 1) + 1]
        BY <1>7, <2>3, <4>1
      <4> QED
        BY <1>0, <4>1, <4>2
    <3>5. j = n - 1 => i + 1 = n
      BY <1>0, <2>3
    <3>6. j = 1 => t[i].start = Base
      BY <1>0, <2>3
    <3> QED
      BY <1>0, <3>1, <3>2, <3>3, <3>4, <3>5, <3>6
  <2>4. CASE j > i
    <3>1. ~ j < i /\ j # i /\ j # 1 /\ j + 1 \in 1 .. n
      BY <1>1, <2>1, <2>4
    <3>2. u[j] = t[j + 1] /\ t[j + 1].length > 0 /\ t[j + 1].nall >= 0
      BY <1>0, <1>7, <2>1, <3>1
    <3>3. j # n - 1 => u[j + 1].start = t[j + 1].start + t[j + 1].length
      <4> SUFFICES ASSUME j # n - 1
                   PROVE  u[j + 1].start = t[j + 1].start + t[j + 1].length
        OBVIOUS
      <4>1. /\ j + 1 \in 1 .. Ents /\ j + 1 < Ents /\ ~ j + 1 < i /\ j + 1 # i
            /\ j + 1 \in 1 .. n - 1
        BY <1>0, <1>1, <2>4
      <4>2. u[j + 1] = t[(j + 1) + 1]
        BY <1>7, <4>1
      <4> QED
        BY <1>0, <4>1, <4>2
    <3>4. j = n - 1 => j + 1 = n
      BY <1>0
    <3> QED
      BY <1>0, <3>1, <3>2, <3>3, <3>4
  <2> QED
    BY <1>1, <2>1, <2>2, <2>3, <2>4
<1>12. /\ n - 1 \in 1 .. n - 1 /\ 1 \in 1 .. n - 1
       /\ \A j \in 1 .. (n - 1) - 1 : j \in 1 .. n - 1 /\ j # n - 1
  BY <1>0, <1>1
<1> QED
  BY <1>1, <1>8, <1>9, <1>10, <1>11, <1>12 DEF Areas, End

\* u is t with another count in its i-th entry.
Counted(t, n, i, c, u) ==
  \A j \in 1 .. n : u[j] = IF j = i THEN Counting(t[i], c) ELSE t[j]

LEMMA CountAreas ==
  ASSUME NEW t, NEW n, Areas(t, n), NEW i \in 1 .. n, NEW c \in Nat,
         NEW u, u = [t EXCEPT ![i].nall = c]
  PROVE  Areas(u, n) /\ Counted(t, n, i, c, u)
<1>0. /\ n \in Nat /\ n > 0 /\ n <= Ents /\ Ents \in Nat
      /\ t \in [1 .. Ents -> Sat]
      /\ \A j \in 1 .. n : /\ j \in 1 .. Ents /\ t[j] \in Sat /\ t[j].start \in Nat
                           /\ t[j].length \in Int
                           /\ t[j].nall \in Int /\ t[j].length > 0 /\ t[j].nall >= 0
  BY AreasFacts
<1>1. i \in 1 .. Ents
  BY <1>0
<1>2. /\ u[i] = Counting(t[i], c)
      /\ \A j \in 1 .. Ents : j # i => u[j] = t[j]
  <2>1. u[i] = [t[i] EXCEPT !.nall = c] /\ t[i] \in Sat
    BY <1>0, <1>1
  <2>2. \A e \in Sat : [e EXCEPT !.nall = c] = Counting(e, c)
    BY DEF Sat, Counting
  <2> QED
    BY <1>0, <2>1, <2>2
<1>3. u \in Table
  <2>1. Counting(t[i], c) \in Sat
    BY <1>0 DEF Counting, Sat
  <2> QED
    BY <1>0, <1>2, <2>1 DEF Table
<1>4. \A j \in 1 .. n :
        /\ u[j].start = t[j].start /\ u[j].length = t[j].length /\ u[j].nall >= 0
  BY <1>0, <1>2 DEF Counting
<1>5. \A j \in n + 1 .. Ents : u[j] = t[j]
  <2>1. \A j \in n + 1 .. Ents : j \in 1 .. Ents /\ j # i
    BY <1>0
  <2> QED
    BY <1>2, <2>1
<1>6. /\ 1 \in 1 .. n /\ n \in 1 .. n
      /\ \A j \in 1 .. n - 1 : j \in 1 .. n /\ j + 1 \in 1 .. n
  BY <1>0
<1>7. Areas(u, n)
  BY <1>3, <1>4, <1>5, <1>6 DEF Areas, End
<1>8. Counted(t, n, i, c, u)
  BY <1>0, <1>2 DEF Counted
<1> QED
  BY <1>7, <1>8

----------------------------------------------------------------------------
(* What they make of the segments.                                          *)

\* Different entries of a table start at different paragraphs.
LEMMA StartsDiffer ==
  ASSUME NEW t, NEW n, Areas(t, n)
  PROVE  \A i, j \in 1 .. n : t[i].start = t[j].start => i = j
<1> SUFFICES ASSUME NEW i \in 1 .. n, NEW j \in 1 .. n, i < j
             PROVE  t[i].start # t[j].start
  <2>1. n \in Int
    BY AreasFacts
  <2> QED
    BY <2>1
<1>1. End(t[i]) <= t[j].start
  BY AreasOrdered DEF Ordered
<1>2. t[i].start \in Int /\ t[i].length \in Int /\ t[i].length > 0 /\ t[j].start \in Int
  BY AreasFacts
<1> QED
  BY <1>1, <1>2 DEF End

\* A segment is what is cut: it loses its end.
LEMMA CutSegments ==
  ASSUME NEW t, NEW n, Areas(t, n), NEW i \in 1 .. n, NEW k,
         NEW u, Areas(u, n + 1), Cut(t, n, i, k, u)
  PROVE  Allocated(u) = IF t[i].nall = 0 THEN Allocated(t)
                        ELSE (Allocated(t) \ {t[i]}) \cup {Sized(t[i], k)}
<1>1. n \in Nat /\ i \in Nat /\ i <= n
  BY AreasFacts
<1>2. \A e : e \in Allocated(t) <=> \E j \in 1 .. n : e = t[j] /\ t[j].nall # 0
  BY AllocatedIs
<1>3. \A e : e \in Allocated(u) <=> \E j \in 1 .. n + 1 : e = u[j] /\ u[j].nall # 0
  BY AllocatedIs
<1>4. \A j \in 1 .. n : t[j] = t[i] => j = i
  BY StartsDiffer
<1>5. /\ \A j \in 1 .. n + 1 : j < i => u[j] = t[j]
      /\ u[i] = Sized(t[i], k) /\ u[i].nall = t[i].nall
      /\ u[i + 1].nall = 0
      /\ \A j \in 1 .. n + 1 : j > i + 1 => u[j] = t[j - 1]
  <2>1. i \in 1 .. n + 1 /\ i + 1 \in 1 .. n + 1 /\ ~ i + 1 < i /\ i + 1 # i
    BY <1>1
  <2>2. u[i + 1] = Behind(t[i], k) /\ u[i] = Sized(t[i], k)
    BY <1>1, <2>1 DEF Cut
  <2>3. \A j \in 1 .. n + 1 : j > i + 1 => ~ j < i /\ j # i /\ j # i + 1
    BY <1>1
  <2> QED
    BY <2>2, <2>3 DEF Cut, Behind, Sized
<1>6. ASSUME NEW e, e \in Allocated(u)
      PROVE  (e \in Allocated(t) /\ e # t[i]) \/ (t[i].nall # 0 /\ e = Sized(t[i], k))
  <2>1. PICK j \in 1 .. n + 1 : e = u[j] /\ u[j].nall # 0
    BY <1>3, <1>6
  <2>2. CASE j < i
    <3>1. j \in 1 .. n /\ j # i
      BY <1>1, <2>2
    <3> QED
      BY <1>2, <1>4, <1>5, <2>1, <2>2, <3>1
  <2>3. CASE j = i
    BY <1>5, <2>1, <2>3
  <2>4. CASE j > i + 1
    <3>1. j - 1 \in 1 .. n /\ j - 1 # i
      BY <1>1, <2>4
    <3> QED
      BY <1>2, <1>4, <1>5, <2>1, <2>4, <3>1
  <2>5. j # i + 1
    BY <1>5, <2>1
  <2> QED
    BY <1>1, <2>2, <2>3, <2>4, <2>5
<1>7. ASSUME NEW e, e \in Allocated(t), e # t[i]
      PROVE  e \in Allocated(u)
  <2>1. PICK j \in 1 .. n : e = t[j] /\ t[j].nall # 0 /\ j # i
    BY <1>2, <1>7
  <2>2. CASE j < i
    <3>1. j \in 1 .. n + 1
      BY <1>1
    <3> QED
      BY <1>3, <1>5, <2>1, <2>2, <3>1
  <2>3. CASE j > i
    <3>1. j + 1 \in 1 .. n + 1 /\ j + 1 > i + 1 /\ (j + 1) - 1 = j
      BY <1>1, <2>3
    <3>2. u[j + 1] = t[j]
      BY <1>5, <3>1
    <3> QED
      BY <1>3, <2>1, <3>1, <3>2
  <2> QED
    BY <1>1, <2>1, <2>2, <2>3
<1>8. t[i].nall # 0 => Sized(t[i], k) \in Allocated(u)
  <2>1. i \in 1 .. n + 1
    BY <1>1
  <2> QED
    BY <1>3, <1>5, <2>1
<1>9. t[i].nall = 0 => t[i] \notin Allocated(t)
  BY DEF Allocated
<1> QED
  BY <1>6, <1>7, <1>8, <1>9

\* Two entries that are joined are no segments.
LEMMA JoinedSegments ==
  ASSUME NEW t, NEW n, Areas(t, n), NEW i \in 1 .. n - 1,
         t[i].nall = 0, t[i + 1].nall = 0,
         NEW u, Areas(u, n - 1), Joined(t, n, i, u)
  PROVE  Allocated(u) = Allocated(t)
<1>1. n \in Nat /\ i \in Nat /\ i <= n - 1
  BY AreasFacts
<1>2. \A e : e \in Allocated(t) <=> \E j \in 1 .. n : e = t[j] /\ t[j].nall # 0
  BY AllocatedIs
<1>3. \A e : e \in Allocated(u) <=> \E j \in 1 .. n - 1 : e = u[j] /\ u[j].nall # 0
  BY AllocatedIs
<1>4. /\ \A j \in 1 .. n - 1 : j < i => u[j] = t[j]
      /\ u[i].nall = 0
      /\ \A j \in 1 .. n - 1 : j > i => u[j] = t[j + 1]
  <2>1. u[i] = Sized(t[i], t[i].length + t[i + 1].length)
    BY <1>1 DEF Joined
  <2>2. \A j \in 1 .. n - 1 : j > i => ~ j < i /\ j # i
    BY <1>1
  <2> QED
    BY <2>1, <2>2 DEF Joined, Sized
<1>5. ASSUME NEW e, e \in Allocated(u) PROVE e \in Allocated(t)
  <2>1. PICK j \in 1 .. n - 1 : e = u[j] /\ u[j].nall # 0
    BY <1>3, <1>5
  <2>2. j \in 1 .. n /\ j + 1 \in 1 .. n /\ (j < i \/ j = i \/ j > i)
    BY <1>1
  <2> QED
    BY <1>2, <1>4, <2>1, <2>2
<1>6. ASSUME NEW e, e \in Allocated(t) PROVE e \in Allocated(u)
  <2>1. PICK j \in 1 .. n : e = t[j] /\ t[j].nall # 0
    BY <1>2, <1>6
  <2>2. j # i /\ j # i + 1
    BY <2>1
  <2>3. CASE j < i
    <3>1. j \in 1 .. n - 1
      BY <1>1, <2>3
    <3> QED
      BY <1>3, <1>4, <2>1, <2>3, <3>1
  <2>4. CASE j > i + 1
    <3>1. j - 1 \in 1 .. n - 1 /\ j - 1 > i /\ (j - 1) + 1 = j
      BY <1>1, <2>4
    <3>2. u[j - 1] = t[j]
      BY <1>4, <3>1
    <3> QED
      BY <1>3, <2>1, <3>1, <3>2
  <2> QED
    BY <1>1, <2>2, <2>3, <2>4
<1> QED
  BY <1>5, <1>6

\* Segments A with c descriptors of segment e.
Recounted(A, e, c) ==
  IF c = 0 THEN A \ {e} ELSE (A \ {e}) \cup {Counting(e, c)}

\* A segment is what is counted.
LEMMA CountedSegments ==
  ASSUME NEW t, NEW n, Areas(t, n), NEW i \in 1 .. n, NEW c,
         NEW u, Areas(u, n), Counted(t, n, i, c, u)
  PROVE  Allocated(u) = Recounted(Allocated(t), t[i], c)
<1>1. \A e : e \in Allocated(t) <=> \E j \in 1 .. n : e = t[j] /\ t[j].nall # 0
  BY AllocatedIs
<1>2. \A e : e \in Allocated(u) <=> \E j \in 1 .. n : e = u[j] /\ u[j].nall # 0
  BY AllocatedIs
<1>3. \A j \in 1 .. n : t[j] = t[i] => j = i
  BY StartsDiffer
<1>4. /\ u[i] = Counting(t[i], c) /\ u[i].nall = c
      /\ \A j \in 1 .. n : j # i => u[j] = t[j]
  BY DEF Counted, Counting
<1> QED
  BY <1>1, <1>2, <1>3, <1>4 DEF Recounted

----------------------------------------------------------------------------
(* mau_collapse.                                                            *)

\* What holds of the table and the entry at the start of the loop, and after a
\* round if it did before, holds at the end.
LEMMA CollapseLoop ==
  ASSUME NEW t, NEW I, [sat |-> t, next |-> 1] \in I[0],
         \A k \in 0 .. 3 * Ents - 1 : \A c \in I[k] : CollapseNext(c) \in I[k + 1]
  PROVE  \E c \in I[3 * Ents] : Collapse(t) = c.sat
<1> PICK n \in Nat : n = 3 * Ents
  OBVIOUS
<1> PICK first \in I[0] : first = [sat |-> t, next |-> 1]
  OBVIOUS
<1> DEFINE Rounds(s, m) ==
      s = [k \in 0 .. m |-> IF k = 0 THEN first ELSE CollapseNext(s[k - 1])]
<1> DEFINE T == {m \in Nat : \E s : Rounds(s, m)}
<1>1. 0 \in T
  <2>1. Rounds([k \in 0 .. 0 |-> first], 0)
    OBVIOUS
  <2> QED
    BY <2>1
<1>2. ASSUME NEW m \in Nat, m \in T PROVE m + 1 \in T
  <2> HIDE DEF Rounds
  <2> SUFFICES \E s : Rounds(s, m + 1)
    OBVIOUS
  <2>1. PICK s : Rounds(s, m)
    BY <1>2
  <2> PICK r : r = [k \in 0 .. m + 1 |-> IF k <= m THEN s[k] ELSE CollapseNext(s[m])]
    OBVIOUS
  <2>3. s = [k \in 0 .. m |-> IF k = 0 THEN first ELSE CollapseNext(s[k - 1])]
    BY <2>1 DEF Rounds
  <2>4. ASSUME NEW k \in 0 .. m + 1
        PROVE  r[k] = IF k = 0 THEN first ELSE CollapseNext(r[k - 1])
    <3>1. CASE k = 0
      BY <2>3, <3>1
    <3>2. CASE k \in 1 .. m
      <4>1. k \in 0 .. m /\ k - 1 \in 0 .. m /\ k # 0 /\ k - 1 \in 0 .. m + 1 /\ k - 1 <= m
            /\ k <= m
        BY <3>2
      <4>2. r[k] = s[k] /\ r[k - 1] = s[k - 1]
        BY <4>1
      <4>3. s[k] = CollapseNext(s[k - 1])
        BY <2>3, <4>1
      <4> QED
        BY <4>1, <4>2, <4>3
    <3>3. CASE k = m + 1
      <4>1. k - 1 = m /\ m \in 0 .. m + 1 /\ ~ k <= m /\ k # 0 /\ m <= m
        BY <3>3
      <4>2. r[k] = CollapseNext(s[m]) /\ r[k - 1] = s[m]
        BY <4>1
      <4> QED
        BY <4>1, <4>2
    <3> QED
      BY <3>1, <3>2, <3>3
  <2>5. Rounds(r, m + 1)
    <3>1. DOMAIN r = 0 .. m + 1 /\ r = [k \in 0 .. m + 1 |-> r[k]]
      OBVIOUS
    <3> QED
      BY <2>4, <3>1 DEF Rounds
  <2> QED
    BY <2>5
<1>3. n \in T
  <2> HIDE DEF T
  <2> QED
    BY <1>1, <1>2, Lists!NumbersReached
<1>4. \E s : Rounds(s, n)
  BY <1>3
<1>5. PICK s : s = (CHOOSE g : Rounds(g, n)) /\ Collapse(t) = s[n].sat
  BY DEF Collapse
<1>6. Rounds(s, n)
  <2> HIDE DEF Rounds
  <2> QED
    BY <1>4, <1>5
<1>7. s[0] = first /\ \A k \in 1 .. n : s[k] = CollapseNext(s[k - 1])
  <2>1. 0 \in 0 .. n /\ \A k \in 1 .. n : k \in 0 .. n /\ k # 0
    OBVIOUS
  <2> QED
    BY <1>6, <2>1
<1> DEFINE U == {m \in Nat : m <= n => s[m] \in I[m]}
<1>8. 0 \in U
  BY <1>7
<1>9. ASSUME NEW m \in Nat, m \in U PROVE m + 1 \in U
  <2> SUFFICES ASSUME m + 1 <= n PROVE s[m + 1] \in I[m + 1]
    OBVIOUS
  <2>1. m + 1 \in 1 .. n /\ (m + 1) - 1 = m /\ s[m] \in I[m] /\ m \in 0 .. 3 * Ents - 1
    BY <1>9
  <2> QED
    BY <1>7, <2>1
<1>10. Nat \subseteq U
  <2> HIDE DEF U
  <2> QED
    BY <1>8, <1>9, Lists!NumbersReached
<1>11. s[n] \in I[n]
  BY <1>10
<1> QED
  BY <1>5, <1>11

\* Of the entries up to the i-th, no two that follow each other are free.
Coalesced(t, i) == \A j \in 1 .. i - 1 : t[j].nall = 0 => t[j + 1].nall # 0

\* Rounds of mau_collapse join free entries that follow each other, whatever the
\* partition: it stays covered, and the segments are as they were.  Each joins two
\* entries or goes on to the next, so the last one finds none left to join.
LEMMA CollapseKeeps ==
  ASSUME NEW t, NEW n, Areas(t, n)
  PROVE  \E m : /\ Areas(Collapse(t), m) /\ Coalesced(Collapse(t), m)
                /\ Allocated(Collapse(t)) = Allocated(t)
<1> DEFINE Reached(u, i, k, m) ==
             /\ Areas(u, m) /\ i \in 1 .. m /\ Coalesced(u, i)
             /\ Allocated(u) = Allocated(t)
             /\ i = m \/ m - i + k <= Ents
           I == [k \in 0 .. 3 * Ents |->
                   {c \in [sat : Table, next : 1 .. Ents] :
                      \E m : Reached(c.sat, c.next, k, m)}]
<1>0. ASSUME NEW k \in 0 .. 3 * Ents, NEW u, NEW i, NEW m, Reached(u, i, k, m)
      PROVE  [sat |-> u, next |-> i] \in I[k]
  <2>1. u \in Table /\ i \in 1 .. Ents
    BY <1>0, AreasFacts DEF Areas
  <2> HIDE DEF Reached
  <2> QED
    BY <1>0, <2>1
<1>1. [sat |-> t, next |-> 1] \in I[0]
  <2>1. n \in Nat /\ n > 0 /\ n <= Ents
    BY AreasFacts
  <2>2. Reached(t, 1, 0, n) /\ 0 \in 0 .. 3 * Ents
    BY <2>1 DEF Coalesced
  <2> HIDE DEF Reached, I
  <2> QED
    BY <1>0, <2>2
<1>2. ASSUME NEW k \in 0 .. 3 * Ents - 1, NEW c \in I[k] PROVE CollapseNext(c) \in I[k + 1]
  <2>0. k \in 0 .. 3 * Ents /\ k + 1 \in 0 .. 3 * Ents /\ k \in Nat
    OBVIOUS
  <2>1. c \in [sat : Table, next : 1 .. Ents] /\ \E m : Reached(c.sat, c.next, k, m)
    BY <2>0
  <2> PICK u \in Table, i \in 1 .. Ents : c = [sat |-> u, next |-> i]
    BY <2>1
  <2>2. PICK m : Reached(u, i, k, m)
    BY <2>1
  <2>3. m \in Nat /\ m <= Ents /\ Ents \in Nat /\ i \in Nat /\ i <= m /\ i > 0
    BY <2>2, AreasFacts
  <2>4. Areas(u, m) /\ Coalesced(u, i) /\ Allocated(u) = Allocated(t)
    BY <2>2
  <2>5. CASE i = m
    <3>1. i = Ents \/ u[i + 1].start = 0
      <4>1. \A j \in m + 1 .. Ents : u[j].start = 0
        BY <2>4, AreasFacts DEF NoEnt
      <4> QED
        BY <2>3, <2>5, <4>1
    <3>2. CollapseNext(c) = [sat |-> u, next |-> i]
      BY <3>1 DEF CollapseNext
    <3>3. Reached(u, i, k + 1, m)
      BY <2>3, <2>4, <2>5
    <3> HIDE DEF Reached, I
    <3> QED
      BY <1>0, <2>0, <3>2, <3>3
  <2>6. CASE i # m
    <3>1. i \in 1 .. m - 1 /\ i \in 1 .. m /\ i + 1 \in 1 .. m /\ m - i + k <= Ents
      BY <2>2, <2>3, <2>6
    <3>2. /\ u[i].start \in Int /\ u[i].length \in Int /\ u[i] \in Sat
          /\ u[i + 1].start = u[i].start + u[i].length
      BY <2>4, <3>1, AreasFacts
    <3>3. CollapseNext(c) = CollapseAt(u, i)
      <4>1. i # Ents
        BY <2>3, <2>6
      <4>2. u[i].start # 0 /\ u[i + 1].start # 0
        <5>1. \A j \in 1 .. m : u[j].start \in Int /\ u[j].start >= Base
          BY <2>4, AreasFacts, AreasOrdered DEF Ordered
        <5> QED
          BY <3>1, <5>1
      <4> QED
        BY <4>1, <4>2 DEF CollapseNext
    <3>4. CASE u[i].nall = 0 /\ u[i + 1].nall = 0
      <4>1. PICK w : w = Merge(u, i).sat
        OBVIOUS
      <4>2. CollapseAt(u, i) = [sat |-> w, next |-> i]
        BY <3>4, <4>1 DEF CollapseAt, Merge
      <4>3. Areas(w, m - 1) /\ Joined(u, m, i, w)
        BY <2>4, <3>1, <4>1, MergeAreas
      <4>4. Allocated(w) = Allocated(u)
        BY <2>4, <3>1, <3>4, <4>3, JoinedSegments
      <4>5. Coalesced(w, i)
        <5> SUFFICES ASSUME NEW j \in 1 .. i - 1, w[j].nall = 0 PROVE w[j + 1].nall # 0
          BY DEF Coalesced
        <5>1. j \in 1 .. m - 1 /\ j + 1 \in 1 .. m - 1 /\ j < i
          BY <2>3, <3>1
        <5>2. w[j] = u[j]
          BY <4>3, <5>1 DEF Joined
        <5>3. w[j + 1].nall = u[j + 1].nall
          BY <2>3, <4>3, <5>1 DEF Joined, Sized
        <5> QED
          BY <2>4, <5>2, <5>3 DEF Coalesced
      <4>6. Reached(w, i, k + 1, m - 1)
        BY <2>3, <2>4, <3>1, <4>3, <4>4, <4>5
      <4> HIDE DEF Reached, I
      <4> QED
        BY <1>0, <2>0, <3>3, <4>2, <4>6
    <3>5. CASE ~ (u[i].nall = 0 /\ u[i + 1].nall = 0)
      <4>1. CollapseAt(u, i) = [sat |-> u, next |-> i + 1]
        <5>1. CASE u[i].nall = 0
          <6>1. u[i + 1].start - u[i].start = u[i].length
            BY <3>2
          <6>2. [u EXCEPT ![i].length = u[i].length] = u
            <7>1. [u[i] EXCEPT !.length = u[i].length] = u[i]
              BY <3>2 DEF Sat
            <7> QED
              BY <7>1 DEF Table
          <6> QED
            BY <3>5, <5>1, <6>1, <6>2 DEF CollapseAt
        <5>2. CASE u[i].nall # 0
          BY <3>2, <5>2 DEF CollapseAt, End
        <5> QED
          BY <5>1, <5>2
      <4>2. Coalesced(u, i + 1)
        <5>1. \A j \in 1 .. (i + 1) - 1 : j = i \/ j \in 1 .. i - 1
          BY <2>3
        <5> QED
          BY <2>4, <3>5, <5>1 DEF Coalesced
      <4>3. Reached(u, i + 1, k + 1, m)
        BY <2>3, <2>4, <3>1, <4>2
      <4> HIDE DEF Reached, I
      <4> QED
        BY <1>0, <2>0, <3>3, <4>1, <4>3
    <3> QED
      BY <3>4, <3>5
  <2> QED
    BY <2>5, <2>6
<1>3. PICK c \in I[3 * Ents] : Collapse(t) = c.sat
  <2> HIDE DEF I
  <2> QED
    BY <1>1, <1>2, CollapseLoop
<1>4. PICK m : Reached(c.sat, c.next, 3 * Ents, m)
  <2>1. 3 * Ents \in 0 .. 3 * Ents
    OBVIOUS
  <2> HIDE DEF Reached
  <2> QED
    BY <1>3, <2>1
<1>5. c.next = m
  <2>1. m \in Nat /\ m > 0 /\ m <= Ents
    BY <1>4, AreasFacts
  <2> QED
    BY <1>4, <2>1
<1> QED
  BY <1>3, <1>4, <1>5

----------------------------------------------------------------------------
(* Segments and descriptors.                                                *)

\* Segments that a partition has room for: none begins where another does.
Starts(A) ==
  /\ A \subseteq Sat
  /\ \A e \in A : e.start # 0 /\ e.nall > 0
  /\ \A e, f \in A : e.start = f.start => e = f

LEMMA SegmentStarts ==
  ASSUME NEW t, NEW n, Areas(t, n)
  PROVE  Starts(Allocated(t))
<1>1. \A i \in 1 .. n : t[i] \in Sat /\ t[i].start # 0 /\ t[i].nall >= 0 /\ t[i].nall \in Int
  <2>1. \A i \in 1 .. n : t[i] \in Sat /\ t[i].nall >= 0 /\ t[i].nall \in Int
                          /\ t[i].start \in Int
    BY AreasFacts
  <2>2. \A i \in 1 .. n : t[i].start >= Base
    BY AreasOrdered DEF Ordered
  <2> QED
    BY <2>1, <2>2
<1>2. \A e : e \in Allocated(t) <=> \E i \in 1 .. n : e = t[i] /\ t[i].nall # 0
  BY AllocatedIs
<1>3. \A i, j \in 1 .. n : t[i].start = t[j].start => i = j
  BY StartsDiffer
<1>4. \A e \in Allocated(t) : e \in Sat /\ e.start # 0 /\ e.nall > 0
  BY <1>1, <1>2
<1>5. \A e, f \in Allocated(t) : e.start = f.start => e = f
  BY <1>2, <1>3
<1> QED
  BY <1>4, <1>5 DEF Starts

Holders(d, s) == {m \in MD : d[m].start = s}

\* Every descriptor stands for a segment, and a segment counts its descriptors.
Matches(A, d) ==
  /\ d \in [MD -> [pd : Owner \cup {NoOwner}, start : Nat, length : Int]]
  /\ \A m \in MD : d[m].pd = NoOwner => d[m] = NoSegment
  /\ \A m \in MD : d[m].pd # NoOwner =>
       \E e \in A : d[m].start = e.start /\ d[m].length = e.length
  /\ \A e \in A : e.nall = Cardinality(Holders(d, e.start))

\* Only one that stands for it starts where a segment does.
LEMMA HoldersHold ==
  ASSUME NEW A, NEW d, Starts(A), Matches(A, d)
  PROVE  /\ \A m \in MD : \A e \in A :
              d[m].start = e.start => d[m].pd # NoOwner /\ d[m].length = e.length
         /\ \A s : IsFiniteSet(Holders(d, s)) /\ Cardinality(Holders(d, s)) \in Nat
                   /\ Cardinality(Holders(d, s)) <= Cardinality(MD)
<1>1. ASSUME NEW m \in MD, NEW e \in A, d[m].start = e.start
      PROVE  d[m].pd # NoOwner /\ d[m].length = e.length
  <2>1. d[m] # NoSegment
    BY <1>1 DEF Starts, NoSegment
  <2>2. d[m].pd # NoOwner
    BY <2>1 DEF Matches
  <2>3. PICK f \in A : d[m].start = f.start /\ d[m].length = f.length
    BY <2>2 DEF Matches
  <2>4. f = e
    BY <1>1, <2>3 DEF Starts
  <2> QED
    BY <2>2, <2>3, <2>4
<1>2. ASSUME NEW s
      PROVE  /\ IsFiniteSet(Holders(d, s)) /\ Cardinality(Holders(d, s)) \in Nat
             /\ Cardinality(Holders(d, s)) <= Cardinality(MD)
  <2>1. Holders(d, s) \in SUBSET MD
    BY DEF Holders
  <2>2. IsFiniteSet(MD)
    BY MDAssumption
  <2>3. IsFiniteSet(Holders(d, s)) /\ Cardinality(Holders(d, s)) <= Cardinality(MD)
    BY <2>1, <2>2, FS_Subset
  <2> QED
    BY <2>3, FS_CardinalityType
<1> QED
  BY <1>1, <1>2

\* A segment of one descriptor that starts where none of A does.
NewIn(A, e) ==
  e \in Sat /\ e.nall = 1 /\ e.start # 0 /\ \A f \in A : f.start # e.start

\* malloc: a new segment, that one descriptor stands for.
LEMMA MatchesAllocated ==
  ASSUME NEW A, NEW d, Starts(A), Matches(A, d),
         NEW e, NewIn(A, e),
         NEW m \in MD, d[m].pd = NoOwner, NEW o \in Owner,
         NEW c, c = [d EXCEPT ![m] = [pd |-> o, start |-> e.start, length |-> e.length]]
  PROVE  Matches(A \cup {e}, c)
<1> USE DEF NewIn
<1>1. /\ c[m] = [pd |-> o, start |-> e.start, length |-> e.length]
      /\ \A x \in MD : x # m => c[x] = d[x]
  BY DEF Matches
<1>2. d[m] = NoSegment /\ d[m].start = 0
  BY DEF Matches, NoSegment
<1>3. c \in [MD -> [pd : Owner \cup {NoOwner}, start : Nat, length : Int]]
  <2>1. c[m] \in [pd : Owner \cup {NoOwner}, start : Nat, length : Int]
    BY <1>1 DEF Sat
  <2> QED
    BY <1>1, <2>1 DEF Matches
<1>4. o # NoOwner
  BY OwnerAssumption
<1>5. \A x \in MD : c[x].pd = NoOwner => c[x] = NoSegment
  BY <1>1, <1>4 DEF Matches
<1>6. \A x \in MD : c[x].pd # NoOwner =>
        \E f \in A \cup {e} : c[x].start = f.start /\ c[x].length = f.length
  BY <1>1 DEF Matches
<1>7. Holders(c, e.start) = {m}
  <2>1. ASSUME NEW x \in MD, x # m PROVE c[x].start # e.start
    <3>1. CASE d[x].pd = NoOwner
      BY <1>1, <2>1, <3>1 DEF Matches, NoSegment
    <3>2. CASE d[x].pd # NoOwner
      BY <1>1, <2>1, <3>2 DEF Matches
    <3> QED
      BY <3>1, <3>2
  <2> QED
    BY <1>1, <2>1 DEF Holders
<1>8. \A f \in A : Holders(c, f.start) = Holders(d, f.start)
  <2>1. \A f \in A : f.start # 0
    BY DEF Starts
  <2> QED
    BY <1>1, <1>2, <2>1 DEF Holders
<1>9. \A f \in A \cup {e} : f.nall = Cardinality(Holders(c, f.start))
  <2>1. e.nall = Cardinality(Holders(c, e.start))
    BY <1>7, FS_Singleton
  <2>2. \A f \in A : f.nall = Cardinality(Holders(c, f.start))
    BY <1>8 DEF Matches
  <2> QED
    BY <2>1, <2>2
<1> QED
  BY <1>3, <1>5, <1>6, <1>9 DEF Matches

\* share: one descriptor more.
LEMMA MatchesShared ==
  ASSUME NEW A, NEW d, Starts(A), Matches(A, d), NEW e \in A,
         NEW m \in MD, d[m].start = e.start,
         NEW x \in MD, d[x].pd = NoOwner, NEW o \in Owner,
         NEW c, c = [d EXCEPT ![x] = [d[m] EXCEPT !.pd = o]]
  PROVE  Matches((A \ {e}) \cup {Counting(e, e.nall + 1)}, c)
<1> DEFINE g == Counting(e, e.nall + 1)
<1>1. g.start = e.start /\ g.length = e.length /\ g.nall = e.nall + 1
  BY DEF Counting
<1>2. d[m].length = e.length /\ d[m].pd # NoOwner /\ x # m
  BY HoldersHold
<1>3. /\ c[x].pd = o /\ c[x].start = e.start /\ c[x].length = e.length
      /\ \A y \in MD : y # x => c[y] = d[y]
  BY <1>2 DEF Matches
<1>4. d[x] = NoSegment /\ d[x].start = 0
  BY DEF Matches, NoSegment
<1>5. c \in [MD -> [pd : Owner \cup {NoOwner}, start : Nat, length : Int]]
  <2>1. c[x] \in [pd : Owner \cup {NoOwner}, start : Nat, length : Int]
    BY DEF Matches
  <2> QED
    BY <1>3, <2>1 DEF Matches
<1>6. o # NoOwner
  BY OwnerAssumption
<1>7. \A y \in MD : c[y].pd = NoOwner => c[y] = NoSegment
  BY <1>3, <1>6 DEF Matches
<1>8. \A y \in MD : c[y].pd # NoOwner =>
        \E f \in (A \ {e}) \cup {g} : c[y].start = f.start /\ c[y].length = f.length
  <2>1. \A y \in MD : c[y].pd # NoOwner =>
          \E f \in A : c[y].start = f.start /\ c[y].length = f.length
    BY <1>3 DEF Matches
  <2> QED
    BY <1>1, <2>1
<1>9. Cardinality(Holders(c, e.start)) = e.nall + 1
  <2>1. Holders(c, e.start) = Holders(d, e.start) \cup {x}
    BY <1>3 DEF Holders
  <2>2. x \notin Holders(d, e.start)
    BY <1>4 DEF Holders, Starts
  <2>3. IsFiniteSet(Holders(d, e.start))
    BY HoldersHold
  <2>4. Cardinality(Holders(d, e.start)) = e.nall
    BY DEF Matches
  <2> QED
    BY <2>1, <2>2, <2>3, <2>4, FS_AddElement
<1>10. \A f \in A : f # e => Holders(c, f.start) = Holders(d, f.start)
  <2>1. \A f \in A : f # e => f.start # 0 /\ f.start # e.start
    BY DEF Starts
  <2> QED
    BY <1>3, <1>4, <2>1 DEF Holders
<1>11. \A f \in (A \ {e}) \cup {g} : f.nall = Cardinality(Holders(c, f.start))
  BY <1>1, <1>9, <1>10 DEF Matches
<1> QED
  BY <1>5, <1>7, <1>8, <1>11 DEF Matches

\* A segment of one descriptor has no other.
LEMMA OneHolder ==
  ASSUME NEW A, NEW d, Starts(A), Matches(A, d), NEW e \in A, e.nall = 1,
         NEW m \in MD, d[m].start = e.start
  PROVE  \A x \in MD : d[x].start = e.start => x = m
<1>1. Cardinality(Holders(d, e.start)) = 1 /\ IsFiniteSet(Holders(d, e.start))
  BY HoldersHold DEF Matches
<1>2. PICK y : Holders(d, e.start) = {y}
  BY <1>1, FS_Singleton
<1>3. m \in Holders(d, e.start)
  BY DEF Holders
<1>4. \A x \in MD : d[x].start = e.start => x \in Holders(d, e.start)
  BY DEF Holders
<1> QED
  BY <1>2, <1>3, <1>4

\* mfree: one descriptor less, and no segment if it was the last one.
LEMMA MatchesReleased ==
  ASSUME NEW A, NEW d, Starts(A), Matches(A, d), NEW e \in A,
         NEW m \in MD, d[m].start = e.start,
         NEW c, c = [d EXCEPT ![m] = NoSegment]
  PROVE  Matches(Recounted(A, e, e.nall - 1), c)
<1> USE DEF Recounted
<1> DEFINE g == Counting(e, e.nall - 1)
           B == IF e.nall - 1 = 0 THEN A \ {e} ELSE (A \ {e}) \cup {g}
<1>1. g.start = e.start /\ g.length = e.length /\ g.nall = e.nall - 1 /\ e.nall \in Int
  BY DEF Counting, Starts, Sat
<1>2. /\ c[m] = NoSegment
      /\ \A x \in MD : x # m => c[x] = d[x]
  BY DEF Matches
<1>3. c \in [MD -> [pd : Owner \cup {NoOwner}, start : Nat, length : Int]]
  BY DEF Matches, NoSegment
<1>4. \A x \in MD : c[x].pd = NoOwner => c[x] = NoSegment
  BY <1>2 DEF Matches
<1>5. ASSUME NEW x \in MD, c[x].pd # NoOwner
      PROVE  \E f \in B : c[x].start = f.start /\ c[x].length = f.length
  <2>1. x # m /\ c[x] = d[x]
    BY <1>2, <1>5 DEF NoSegment
  <2>2. PICK f \in A : d[x].start = f.start /\ d[x].length = f.length
    BY <1>5, <2>1 DEF Matches
  <2>3. CASE f # e
    BY <2>1, <2>2, <2>3
  <2>4. CASE f = e
    <3>1. e.nall # 1
      BY <2>1, <2>2, <2>4, OneHolder
    <3>2. g \in B
      BY <1>1, <3>1
    <3> QED
      BY <1>1, <2>1, <2>2, <2>4, <3>2
  <2> QED
    BY <2>3, <2>4
<1>6. Cardinality(Holders(c, e.start)) = e.nall - 1
  <2>1. Holders(c, e.start) = Holders(d, e.start) \ {m}
    BY <1>2 DEF Holders, Starts, NoSegment
  <2>2. m \in Holders(d, e.start)
    BY DEF Holders
  <2>3. IsFiniteSet(Holders(d, e.start))
    BY HoldersHold
  <2>4. Cardinality(Holders(d, e.start)) = e.nall
    BY DEF Matches
  <2> PICK H : H = Holders(d, e.start)
    OBVIOUS
  <2>5. Cardinality(H \ {m}) = Cardinality(H) - 1
    BY <2>2, <2>3, FS_RemoveElement
  <2> QED
    BY <2>1, <2>4, <2>5
<1>7. \A f \in A : f # e => Holders(c, f.start) = Holders(d, f.start)
  <2>1. \A f \in A : f # e => f.start # 0 /\ f.start # e.start
    BY DEF Starts
  <2>2. c[m].start = 0
    BY <1>2 DEF NoSegment
  <2> QED
    BY <1>2, <2>1, <2>2 DEF Holders
<1>8. \A f \in B : f.nall = Cardinality(Holders(c, f.start))
  BY <1>1, <1>6, <1>7 DEF Matches
<1> QED
  BY <1>3, <1>4, <1>5, <1>8 DEF Matches

\* mfree of the end of a segment that one descriptor stands for.
LEMMA MatchesShrunk ==
  ASSUME NEW A, NEW d, Starts(A), Matches(A, d), NEW e \in A, e.nall = 1,
         NEW m \in MD, d[m].start = e.start, NEW k \in Int,
         NEW c, c = [d EXCEPT ![m].length = k]
  PROVE  Matches((A \ {e}) \cup {Sized(e, k)}, c)
<1> DEFINE g == Sized(e, k)
<1>1. g.start = e.start /\ g.length = k /\ g.nall = e.nall
  BY DEF Sized
<1>2. /\ c[m].pd = d[m].pd /\ c[m].start = d[m].start /\ c[m].length = k
      /\ \A x \in MD : x # m => c[x] = d[x]
  BY DEF Matches
<1>3. c \in [MD -> [pd : Owner \cup {NoOwner}, start : Nat, length : Int]]
  BY DEF Matches
<1>4. d[m].pd # NoOwner
  BY HoldersHold
<1>5. \A x \in MD : c[x].pd = NoOwner => c[x] = NoSegment
  BY <1>2, <1>4 DEF Matches
<1>6. ASSUME NEW x \in MD, c[x].pd # NoOwner
      PROVE  \E f \in (A \ {e}) \cup {g} : c[x].start = f.start /\ c[x].length = f.length
  <2>1. CASE x = m
    BY <1>1, <1>2, <2>1
  <2>2. CASE x # m
    <3>1. c[x] = d[x]
      BY <1>2, <2>2
    <3>2. PICK f \in A : d[x].start = f.start /\ d[x].length = f.length
      BY <1>6, <3>1 DEF Matches
    <3>3. f # e
      BY <2>2, <3>2, OneHolder
    <3> QED
      BY <3>1, <3>2, <3>3
  <2> QED
    BY <2>1, <2>2
<1>7. \A s : Holders(c, s) = Holders(d, s)
  BY <1>2 DEF Holders
<1>8. \A f \in (A \ {e}) \cup {g} : f.nall = Cardinality(Holders(c, f.start))
  BY <1>1, <1>7 DEF Matches
<1> QED
  BY <1>3, <1>5, <1>6, <1>8 DEF Matches

----------------------------------------------------------------------------
(* The searches.                                                            *)

LEMMA LeastIn ==
  ASSUME NEW S \in SUBSET (1 .. Ents), S # {}
  PROVE  Least(S) \in S
<1>1. S \in SUBSET Nat
  OBVIOUS
<1>2. \E i \in S : \A j \in S : i <= j
  BY <1>1, Lists!LeastNumber
<1> QED
  BY <1>2 DEF Least

\* The entry that starts where the i-th does is the i-th.
LEMMA EntryAtIs ==
  ASSUME NEW t, NEW n, Areas(t, n), NEW i \in 1 .. n
  PROVE  EntryAt(t, t[i].start) = i
<1> DEFINE S == {j \in 1 .. Ents : t[j].start = t[i].start}
<1>1. t[i].start # 0 /\ i \in 1 .. Ents /\ n \in Nat
  <2>1. t[i].start >= Base /\ t[i].start \in Int
    BY AreasOrdered, AreasFacts DEF Ordered
  <2> QED
    BY <2>1, AreasFacts
<1>2. \A j \in 1 .. Ents : t[j].start = t[i].start => j = i
  <2>1. ASSUME NEW j \in 1 .. Ents, t[j].start = t[i].start PROVE j = i
    <3>1. CASE j \in 1 .. n
      BY <2>1, <3>1, StartsDiffer
    <3>2. CASE j \in n + 1 .. Ents
      <4>1. t[j] = NoEnt
        BY <3>2, AreasFacts
      <4> QED
        BY <1>1, <2>1, <4>1 DEF NoEnt
    <3> QED
      BY <1>1, <3>1, <3>2
  <2> QED
    BY <2>1
<1>3. S = {i}
  BY <1>1, <1>2
<1>4. Least(S) \in S
  BY <1>3, LeastIn
<1> QED
  BY <1>3, <1>4 DEF EntryAt

LEMMA FreshAreas == Areas(FreshTable, 1) /\ Allocated(FreshTable) = {}
<1>1. FreshTable \in Table
  BY DEF FreshTable, Table, Sat, NoEnt
<1>2. /\ FreshTable[1] = [start |-> Base, length |-> Length, nall |-> 0]
      /\ \A i \in 1 + 1 .. Ents : FreshTable[i] = NoEnt
      /\ \A i \in 1 .. Ents : FreshTable[i].nall = 0
  BY DEF FreshTable, NoEnt
<1>3. Areas(FreshTable, 1)
  BY <1>1, <1>2 DEF Areas, End
<1> QED
  BY <1>2, <1>3 DEF Allocated

\* An absolute request leaves the segments as they are.
LEMMA SplitAtKeeps ==
  ASSUME NEW t, NEW n, Areas(t, n), n < Ents, NEW at \in Int
  PROVE  /\ Allocated(SplitAt(t, at)) = Allocated(t)
         /\ Areas(SplitAt(t, at), n) \/ Areas(SplitAt(t, at), n + 1)
<1> DEFINE inside == {i \in Free(t) : t[i].start < at /\ at < End(t[i])}
<1>1. CASE at = 0 \/ inside = {}
  BY <1>1 DEF SplitAt
<1>2. CASE ~ (at = 0 \/ inside = {})
  <2> PICK i : i = Least(inside)
    OBVIOUS
  <2>1. Free(t) = {j \in 1 .. n : t[j].nall = 0}
    BY AreasUsed
  <2>2. i \in inside
    <3>1. inside \in SUBSET (1 .. Ents)
      BY <2>1, AreasFacts
    <3> QED
      BY <1>2, <3>1, LeastIn
  <2>3. i \in 1 .. n /\ t[i].nall = 0 /\ t[i].start < at /\ at < End(t[i])
    BY <2>1, <2>2
  <2> PICK k : k = at - t[i].start
    OBVIOUS
  <2>4. k \in 1 .. t[i].length - 1
    <3>1. t[i].start \in Int /\ t[i].length \in Int
      BY <2>3, AreasFacts
    <3> QED
      BY <2>3, <3>1 DEF End
  <2> PICK u : u = Split(t, i, k)
    OBVIOUS
  <2>5. SplitAt(t, at) = u
    BY <1>2 DEF SplitAt
  <2>6. Areas(u, n + 1) /\ Cut(t, n, i, k, u)
    BY <2>3, <2>4, SplitAreas
  <2>7. Allocated(u) = Allocated(t)
    BY <2>3, <2>6, CutSegments
  <2> QED
    BY <2>5, <2>6, <2>7
<1> QED
  BY <1>1, <1>2

\* What a request takes from a free entry is a segment.
LEMMA TakeSegment ==
  ASSUME NEW t, NEW n, Areas(t, n), n < Ents, NEW i \in Free(t), NEW max \in Nat \ {0},
         NEW u, u = Take(t, i, max)
  PROVE  /\ \E m : Areas(u, m)
         /\ Allocated(u) = Allocated(t) \cup {u[i]}
         /\ NewIn(Allocated(t), u[i])
<1>1. i \in 1 .. n /\ t[i].nall = 0
  BY AreasUsed
<1> PICK a : a = IF max < t[i].length THEN Split(t, i, max) ELSE t
  OBVIOUS
<1>2. PICK m : /\ Areas(a, m) /\ i \in 1 .. m /\ a[i].nall = 0 /\ a[i].start = t[i].start
               /\ Allocated(a) = Allocated(t)
  <2>1. CASE max < t[i].length
    <3>1. max \in 1 .. t[i].length - 1 /\ n \in Nat
      <4>1. t[i].length \in Int /\ n \in Nat
        BY <1>1, AreasFacts
      <4> QED
        BY <2>1, <4>1
    <3>2. a = Split(t, i, max)
      BY <2>1
    <3>3. Areas(a, n + 1) /\ Cut(t, n, i, max, a)
      BY <1>1, <3>1, <3>2, SplitAreas
    <3>4. Allocated(a) = Allocated(t)
      BY <1>1, <3>3, CutSegments
    <3>5. i \in 1 .. n + 1 /\ ~ i < i
      BY <1>1, <3>1
    <3>6. a[i] = Sized(t[i], max)
      BY <3>3, <3>5 DEF Cut
    <3> QED
      BY <1>1, <3>3, <3>4, <3>5, <3>6 DEF Sized
  <2>2. CASE ~ max < t[i].length
    BY <1>1, <2>2
  <2> QED
    BY <2>1, <2>2
<1>3. u = [a EXCEPT ![i].nall = 1]
  BY DEF Take
<1>4. Areas(u, m) /\ Counted(a, m, i, 1, u)
  BY <1>2, <1>3, CountAreas
<1>5. Allocated(u) = (Allocated(a) \ {a[i]}) \cup {Counting(a[i], 1)}
  BY <1>2, <1>4, CountedSegments DEF Recounted
<1>6. u[i] = Counting(a[i], 1)
  BY <1>2, <1>4 DEF Counted
<1>7. a[i] \notin Allocated(a)
  BY <1>2 DEF Allocated
<1>8. u[i] \in Sat /\ u[i].nall = 1 /\ u[i].start # 0
  <2>1. u[i] \in Sat
    BY <1>2, <1>4, AreasFacts
  <2>2. u[i].start >= Base /\ u[i].start \in Int
    BY <1>2, <1>4, AreasOrdered, AreasFacts DEF Ordered
  <2> QED
    BY <1>6, <2>1, <2>2 DEF Counting
<1>9. \A e \in Allocated(t) : e.start # u[i].start
  <2>1. ASSUME NEW e \in Allocated(t), e.start = u[i].start PROVE FALSE
    <3>1. PICK j \in 1 .. m : e = a[j] /\ a[j].nall # 0
      BY <1>2, AllocatedIs
    <3>2. a[j].start = a[i].start
      BY <1>6, <2>1, <3>1 DEF Counting
    <3>3. j = i
      BY <1>2, <3>2, StartsDiffer
    <3> QED
      BY <1>2, <3>1, <3>3
  <2> QED
    BY <2>1
<1> QED
  BY <1>2, <1>4, <1>5, <1>6, <1>7, <1>8, <1>9 DEF NewIn

----------------------------------------------------------------------------
(* The inductive invariant.                                                 *)

IInv ==
  /\ onMal \in BOOLEAN
  /\ \E n : Areas(sat, n)
  /\ Matches(Allocated(sat), md)
  /\ ~ onMal => FreeMD = MD

\* Two entries of the table are not used: a call that makes two finds room for both.
Roomy == Cardinality(Used(sat)) + 2 <= Ents

LEMMA RoomyAreas ==
  ASSUME NEW n, Areas(sat, n)
  PROVE  Cardinality(Used(sat)) = n /\ (Roomy => n + 2 <= Ents)
<1>1. n \in Nat /\ n > 0 /\ Used(sat) = 1 .. n
  BY AreasFacts, AreasUsed
<1>2. Cardinality(1 .. n) = n
  BY <1>1, FS_Interval
<1> QED
  BY <1>1, <1>2 DEF Roomy

LEMMA InitInv == Init => IInv
<1> SUFFICES ASSUME Init PROVE IInv
  OBVIOUS
<1>1. sat = FreshTable /\ onMal = FALSE /\ \A m \in MD : md[m] = NoSegment
  BY DEF Init
<1>2. md \in [MD -> [pd : Owner \cup {NoOwner}, start : Nat, length : Int]]
  BY DEF Init, NoSegment
<1>3. Areas(sat, 1) /\ Allocated(sat) = {}
  BY <1>1, FreshAreas
<1>4. \A m \in MD : md[m].pd = NoOwner
  BY <1>1 DEF NoSegment
<1>5. Matches({}, md)
  BY <1>1, <1>2, <1>4 DEF Matches
<1>6. FreeMD = MD
  BY <1>4 DEF FreeMD
<1> QED
  BY <1>1, <1>3, <1>5, <1>6 DEF IInv

\* A collapsed table is as good as the one before.
LEMMA Collapsed ==
  ASSUME NEW t, NEW n, Areas(t, n), Matches(Allocated(t), md'), sat' = Collapse(t)
  PROVE  (\E m : Areas(sat', m) /\ Coalesced(sat', m)) /\ Matches(Allocated(sat'), md')
         /\ Allocated(sat') = Allocated(t)
<1>1. PICK m : /\ Areas(Collapse(t), m) /\ Coalesced(Collapse(t), m)
               /\ Allocated(Collapse(t)) = Allocated(t)
  BY CollapseKeeps
<1> QED
  BY <1>1

\* A descriptor that was free has a segment that starts where no other does.
GotNew(o, m) ==
  /\ m \in FreeMD /\ md'[m].pd = o
  /\ md' = [md EXCEPT ![m] = [pd |-> o, start |-> md'[m].start, length |-> md'[m].length]]
  /\ \A x \in MD \ FreeMD : md[x].start # md'[m].start

LEMMA MallocStep ==
  ASSUME IInv, Roomy, NEW o \in Owner, NEW at \in Abs \cup {0},
         NEW min \in 1 .. Length, NEW max \in 1 .. Length, Malloc(o, at, min, max)
  PROVE  IInv' /\ (md' = md \/ \E m \in MD : GotNew(o, m))
<1> PICK s : s = IF onMal THEN sat ELSE FreshTable
  OBVIOUS
<1>1. PICK n : Areas(s, n) /\ n + 2 <= Ents /\ n \in Nat /\ Matches(Allocated(s), md)
  <2>1. PICK k : Areas(sat, k)
    BY DEF IInv
  <2>2. k + 2 <= Ents /\ k \in Nat /\ k > 0
    BY <2>1, RoomyAreas, AreasFacts
  <2>3. CASE onMal
    BY <2>1, <2>2, <2>3 DEF IInv
  <2>4. CASE ~ onMal
    <3>1. \A m \in MD : md[m].pd = NoOwner
      BY <2>4 DEF IInv, FreeMD
    <3>2. Matches({}, md)
      BY <3>1 DEF IInv, Matches
    <3>3. 1 + 2 <= Ents
      BY <2>2
    <3> QED
      BY <2>4, <3>2, <3>3, FreshAreas
  <2> QED
    BY <2>3, <2>4
<1> PICK t : t = SplitAt(s, at)
  OBVIOUS
<1>2. PICK k : Areas(t, k) /\ k < Ents /\ Allocated(t) = Allocated(s)
  <2>1. n < Ents /\ n + 1 < Ents /\ at \in Int
    BY <1>1, AbsAssumption
  <2> QED
    BY <1>1, <2>1, SplitAtKeeps
<1>3. Starts(Allocated(s)) /\ Matches(Allocated(t), md)
  BY <1>1, <1>2, SegmentStarts
<1> PICK fit : fit = Fits(t, at, min)
  OBVIOUS
<1>4. PICK m \in FreeMD :
        \/ /\ fit # {}
           /\ sat' = Collapse(Take(t, Least(fit), max))
           /\ md' = [md EXCEPT ![m] = [pd |-> o, start |-> Take(t, Least(fit), max)[Least(fit)].start,
                                       length |-> Take(t, Least(fit), max)[Least(fit)].length]]
           /\ onMal' = TRUE
        \/ /\ fit = {} /\ onMal
           /\ sat' = t
           /\ UNCHANGED <<onMal, md>>
  BY DEF Malloc
<1>5. CASE fit = {}
  BY <1>2, <1>3, <1>4, <1>5 DEF IInv, FreeMD
<1>6. CASE fit # {}
  <2> PICK i : i = Least(fit)
    OBVIOUS
  <2> PICK u : u = Take(t, i, max)
    OBVIOUS
  <2>1. i \in Free(t)
    <3>1. fit \subseteq Free(t)
      BY DEF Fits
    <3>2. Free(t) \in SUBSET (1 .. Ents)
      BY DEF Free, Used
    <3>3. i \in fit
      BY <1>6, <3>1, <3>2, LeastIn
    <3> QED
      BY <3>1, <3>3
  <2>2. max \in Nat \ {0}
    OBVIOUS
  <2>3. /\ \E j : Areas(u, j)
        /\ Allocated(u) = Allocated(t) \cup {u[i]}
        /\ NewIn(Allocated(t), u[i])
    BY <1>2, <2>1, <2>2, TakeSegment
  <2>4. /\ sat' = Collapse(u) /\ onMal' = TRUE
        /\ md' = [md EXCEPT ![m] = [pd |-> o, start |-> u[i].start, length |-> u[i].length]]
    BY <1>4, <1>6
  <2>5. md[m].pd = NoOwner /\ m \in MD
    BY DEF FreeMD
  <2>6. Matches(Allocated(u), md')
    <3>1. Starts(Allocated(t))
      BY <1>2, <1>3
    <3>2. Matches(Allocated(t) \cup {u[i]}, md')
      BY <1>3, <2>3, <2>4, <2>5, <3>1, MatchesAllocated
    <3> QED
      BY <2>3, <3>2
  <2>7. IInv'
    <3>1. (\E j : Areas(sat', j)) /\ Matches(Allocated(sat'), md')
      BY <2>3, <2>4, <2>6, Collapsed
    <3> QED
      BY <2>4, <3>1 DEF IInv
  <2>8. GotNew(o, m)
    <3>1. md'[m] = [pd |-> o, start |-> u[i].start, length |-> u[i].length]
      BY <1>3, <2>4, <2>5 DEF Matches
    <3>2. \A x \in MD \ FreeMD : md[x].start # u[i].start
      BY <1>3, <2>3 DEF Matches, FreeMD, NewIn
    <3>3. md'[m].pd = o /\ md'[m].start = u[i].start /\ md'[m].length = u[i].length
      BY <3>1
    <3>4. md' = [md EXCEPT ![m] =
                   [pd |-> o, start |-> md'[m].start, length |-> md'[m].length]]
      BY <2>4, <3>3
    <3> QED
      BY <3>2, <3>3, <3>4 DEF GotNew
  <2> QED
    BY <2>5, <2>7, <2>8
<1> QED
  BY <1>5, <1>6

\* The entry of a descriptor that is in use.
LEMMA HeldEntry ==
  ASSUME IInv, NEW m \in MD, md[m].pd # NoOwner
  PROVE  /\ onMal /\ Starts(Allocated(sat))
         /\ \E n : \E i \in 1 .. n :
              /\ Areas(sat, n) /\ EntryAt(sat, md[m].start) = i
              /\ sat[i] \in Allocated(sat) /\ sat[i].nall \in Nat \ {0}
              /\ sat[i].start = md[m].start /\ sat[i].length = md[m].length
<1>1. onMal
  BY DEF IInv, FreeMD
<1>2. PICK n : Areas(sat, n)
  BY DEF IInv
<1>3. Starts(Allocated(sat))
  BY <1>2, SegmentStarts
<1>4. PICK e \in Allocated(sat) : md[m].start = e.start /\ md[m].length = e.length
  BY DEF IInv, Matches
<1>5. PICK i \in 1 .. n : e = sat[i] /\ sat[i].nall # 0
  BY <1>2, <1>4, AllocatedIs
<1>6. EntryAt(sat, md[m].start) = i
  BY <1>2, <1>4, <1>5, EntryAtIs
<1>7. sat[i].nall \in Nat \ {0}
  BY <1>3, <1>4, <1>5 DEF Starts, Sat
<1> QED
  BY <1>1, <1>2, <1>3, <1>4, <1>5, <1>6, <1>7

LEMMA MfreeAllStep ==
  ASSUME IInv, NEW m \in MD, MfreeAll(m)
  PROVE  /\ IInv' /\ md' = [md EXCEPT ![m] = NoSegment]
         /\ \E k : Areas(sat', k) /\ Coalesced(sat', k)
<1>1. md[m].pd # NoOwner /\ md' = [md EXCEPT ![m] = NoSegment] /\ onMal' = ~ Empty(sat')
  BY DEF MfreeAll
<1>2. Starts(Allocated(sat)) /\ Matches(Allocated(sat), md)
  BY <1>1, HeldEntry DEF IInv
<1>3. PICK n : \E i \in 1 .. n :
        /\ Areas(sat, n) /\ EntryAt(sat, md[m].start) = i
        /\ sat[i] \in Allocated(sat) /\ sat[i].nall \in Nat \ {0}
        /\ sat[i].start = md[m].start
  BY <1>1, HeldEntry
<1>4. PICK i \in 1 .. n :
        /\ Areas(sat, n) /\ EntryAt(sat, md[m].start) = i
        /\ sat[i] \in Allocated(sat) /\ sat[i].nall \in Nat \ {0}
        /\ sat[i].start = md[m].start
  BY <1>3
<1> PICK c \in Nat : c = sat[i].nall - 1
  BY <1>4
<1> PICK u : u = [sat EXCEPT ![i].nall = c]
  OBVIOUS
<1>5. sat' = Collapse(u)
  BY <1>4 DEF MfreeAll
<1>6. Areas(u, n) /\ Counted(sat, n, i, c, u)
  BY <1>4, CountAreas
<1>7. Allocated(u) = Recounted(Allocated(sat), sat[i], c)
  <2>1. Areas(sat, n) /\ i \in 1 .. n
    BY <1>4
  <2> QED
    BY <1>6, <2>1, CountedSegments
<1>8. Matches(Allocated(u), md')
  <2>1. Matches(Recounted(Allocated(sat), sat[i], sat[i].nall - 1), md')
    BY <1>1, <1>2, <1>4, MatchesReleased
  <2> QED
    BY <1>7, <2>1
<1>9. PICK k : Areas(sat', k) /\ Coalesced(sat', k) /\ Matches(Allocated(sat'), md')
  BY <1>5, <1>6, <1>8, Collapsed
<1>10. ~ onMal' => FreeMD' = MD
  <2> SUFFICES ASSUME Empty(sat') PROVE FreeMD' = MD
    BY <1>1
  <2>1. \A j \in 1 .. k : sat'[j].nall = 0
    <3>1. Used(sat') = 1 .. k
      BY <1>9, AreasUsed
    <3> QED
      BY <3>1 DEF Empty
  <2>2. \A e : e \notin Allocated(sat')
    BY <1>9, <2>1, AllocatedIs
  <2>3. \A x \in MD : md'[x].pd = NoOwner
    BY <1>9, <2>2 DEF Matches
  <2> QED
    BY <2>3 DEF FreeMD
<1>11. onMal' \in BOOLEAN
  BY <1>1
<1> QED
  BY <1>1, <1>9, <1>10, <1>11 DEF IInv

\* The end of a segment that no other descriptor stands for.
LEMMA MfreeEndStep ==
  ASSUME IInv, Roomy, NEW m \in MD, NEW p \in Base .. Base + Length - 1, MfreeEnd(m, p)
  PROVE  /\ IInv' /\ (\E k : Areas(sat', k) /\ Coalesced(sat', k))
         /\ md[m].pd # NoOwner
         /\ md' = [md EXCEPT ![m].length = p - md[m].start]
         /\ 0 < p - md[m].start /\ p - md[m].start < md[m].length
         /\ \A x \in MD : md[x].start = md[m].start => x = m
<1>1. /\ md[m].pd # NoOwner /\ onMal' = onMal
      /\ md' = [md EXCEPT ![m].length = p - md[m].start]
      /\ 0 < p - md[m].start /\ p - md[m].start < md[m].length
  BY DEF MfreeEnd
<1>2. onMal /\ Starts(Allocated(sat)) /\ Matches(Allocated(sat), md)
  BY <1>1, HeldEntry DEF IInv
<1>3. PICK n : \E i \in 1 .. n :
        /\ Areas(sat, n) /\ EntryAt(sat, md[m].start) = i
        /\ sat[i] \in Allocated(sat) /\ sat[i].nall \in Nat \ {0}
        /\ sat[i].start = md[m].start /\ sat[i].length = md[m].length
  BY <1>1, HeldEntry
<1>4. PICK i \in 1 .. n :
        /\ Areas(sat, n) /\ EntryAt(sat, md[m].start) = i
        /\ sat[i] \in Allocated(sat) /\ sat[i].nall \in Nat \ {0}
        /\ sat[i].start = md[m].start /\ sat[i].length = md[m].length
  BY <1>3
<1> PICK k : k = p - md[m].start
  OBVIOUS
<1>5. k \in Int /\ k \in 1 .. sat[i].length - 1
  <2>1. sat[i].start \in Int /\ sat[i].length \in Int
    BY <1>4, AreasFacts
  <2>2. md[m].start \in Int /\ p \in Int
    BY <1>4, <2>1
  <2> QED
    BY <1>1, <1>4, <2>1, <2>2
<1>6. sat[i].nall = 1
  BY <1>4 DEF MfreeEnd, MaySplit
<1> PICK u : u = Split(sat, i, k)
  OBVIOUS
<1>7. sat' = Collapse(u)
  BY <1>4 DEF MfreeEnd
<1>8. n < Ents
  <2>1. n + 2 <= Ents /\ n \in Nat /\ Ents \in Nat
    BY <1>4, RoomyAreas, AreasFacts
  <2> QED
    BY <2>1
<1>9. Areas(u, n + 1) /\ Cut(sat, n, i, k, u)
  BY <1>4, <1>5, <1>8, SplitAreas
<1>10. Allocated(u) = (Allocated(sat) \ {sat[i]}) \cup {Sized(sat[i], k)}
  <2>1. sat[i].nall # 0
    BY <1>6
  <2> QED
    BY <1>4, <1>9, <2>1, CutSegments
<1>11. Matches(Allocated(u), md')
  <2>1. Matches((Allocated(sat) \ {sat[i]}) \cup {Sized(sat[i], k)}, md')
    BY <1>1, <1>2, <1>4, <1>5, <1>6, MatchesShrunk
  <2> QED
    BY <1>10, <2>1
<1>12. (\E j : Areas(sat', j) /\ Coalesced(sat', j)) /\ Matches(Allocated(sat'), md')
  BY <1>7, <1>9, <1>11, Collapsed
<1>13. \A x \in MD : md[x].start = md[m].start => x = m
  BY <1>2, <1>4, <1>6, OneHolder
<1> QED
  BY <1>1, <1>2, <1>12, <1>13 DEF IInv

LEMMA ShareStep ==
  ASSUME IInv, NEW m \in MD, NEW o \in Owner, Share(m, o)
  PROVE  /\ IInv' /\ md[m].pd # NoOwner
         /\ \E x \in FreeMD : md' = [md EXCEPT ![x] = [md[m] EXCEPT !.pd = o]]
<1>1. md[m].pd # NoOwner /\ onMal' = onMal
  BY DEF Share
<1>2. PICK x \in FreeMD : md' = [md EXCEPT ![x] = [md[m] EXCEPT !.pd = o]]
  BY DEF Share
<1>3. onMal /\ Starts(Allocated(sat)) /\ Matches(Allocated(sat), md)
  BY <1>1, HeldEntry DEF IInv
<1>4. PICK n : \E i \in 1 .. n :
        /\ Areas(sat, n) /\ EntryAt(sat, md[m].start) = i
        /\ sat[i] \in Allocated(sat) /\ sat[i].nall \in Nat \ {0}
        /\ sat[i].start = md[m].start
  BY <1>1, HeldEntry
<1>5. PICK i \in 1 .. n :
        /\ Areas(sat, n) /\ EntryAt(sat, md[m].start) = i
        /\ sat[i] \in Allocated(sat) /\ sat[i].nall \in Nat \ {0}
        /\ sat[i].start = md[m].start
  BY <1>4
<1> PICK c \in Nat : c = sat[i].nall + 1
  BY <1>5
<1> PICK u : u = [sat EXCEPT ![i].nall = c]
  OBVIOUS
<1>6. sat' = u
  BY <1>5 DEF Share, Shared
<1>7. Areas(u, n) /\ Counted(sat, n, i, c, u)
  BY <1>5, CountAreas
<1>8. Allocated(u) = (Allocated(sat) \ {sat[i]}) \cup {Counting(sat[i], c)}
  <2>1. c # 0
    BY <1>5
  <2> QED
    BY <1>5, <1>7, <2>1, CountedSegments DEF Recounted
<1>9. Matches(Allocated(u), md')
  <2>1. x \in MD /\ md[x].pd = NoOwner
    BY DEF FreeMD
  <2>2. Matches((Allocated(sat) \ {sat[i]}) \cup {Counting(sat[i], sat[i].nall + 1)}, md')
    BY <1>2, <1>3, <1>5, <2>1, MatchesShared
  <2> QED
    BY <1>8, <2>2
<1>10. IInv'
  BY <1>1, <1>3, <1>6, <1>7, <1>9 DEF IInv
<1> QED
  BY <1>1, <1>2, <1>10

----------------------------------------------------------------------------
(* The table and the descriptors agree.                                     *)

LEMMA InvSound == IInv => TableSound
<1> SUFFICES ASSUME IInv PROVE TableSound
  OBVIOUS
<1>1. PICK n : Areas(sat, n)
  BY DEF IInv
<1>2. Matches(Allocated(sat), md) /\ Starts(Allocated(sat))
  BY <1>1, SegmentStarts DEF IInv
<1>3. /\ n \in Nat /\ n > 0 /\ n <= Ents /\ Ents \in Nat /\ sat \in [1 .. Ents -> Sat]
      /\ \A i \in n + 1 .. Ents : sat[i] = NoEnt
      /\ \A i \in 1 .. n :
           /\ sat[i].start \in Int /\ sat[i].length \in Int /\ sat[i].nall \in Int
           /\ sat[i].length > 0 /\ sat[i].nall >= 0
           /\ sat[i].start >= Base /\ sat[i].start + sat[i].length <= Base + Length
  BY <1>1, AreasFacts, AreasOrdered DEF Ordered, End
<1>4. \A e : e \in Allocated(sat) <=> \E i \in 1 .. n : e = sat[i] /\ sat[i].nall # 0
  BY <1>1, AllocatedIs
<1>5. Cardinality(MD) \in Nat
  BY MDAssumption, FS_CardinalityType
<1>6. \A i \in 1 .. n :
        /\ sat[i].nall = Cardinality(Holders(md, sat[i].start))
        /\ sat[i].nall \in 0 .. Cardinality(MD)
  <2> SUFFICES ASSUME NEW i \in 1 .. n
               PROVE  /\ sat[i].nall = Cardinality(Holders(md, sat[i].start))
                      /\ sat[i].nall \in 0 .. Cardinality(MD)
    OBVIOUS
  <2>1. CASE sat[i].nall # 0
    <3>1. sat[i] \in Allocated(sat)
      BY <1>4, <2>1
    <3>2. sat[i].nall = Cardinality(Holders(md, sat[i].start))
      BY <1>2, <3>1 DEF Matches
    <3>3. Cardinality(Holders(md, sat[i].start)) <= Cardinality(MD)
      BY <1>2, HoldersHold
    <3> QED
      BY <1>3, <1>5, <3>2, <3>3
  <2>2. CASE sat[i].nall = 0
    <3>1. ASSUME NEW m \in MD, md[m].start = sat[i].start PROVE FALSE
      <4>1. md[m].start # 0
        BY <1>3, <3>1
      <4>2. md[m].pd # NoOwner
        BY <1>2, <4>1 DEF Matches, NoSegment
      <4>3. PICK j \in 1 .. n : md[m].start = sat[j].start /\ sat[j].nall # 0
        BY <1>2, <1>4, <4>2 DEF Matches
      <4>4. j = i
        BY <1>1, <3>1, <4>3, StartsDiffer
      <4> QED
        BY <2>2, <4>3, <4>4
    <3>2. Holders(md, sat[i].start) = {}
      BY <3>1 DEF Holders
    <3> QED
      BY <1>5, <2>2, <3>2, FS_EmptySet
  <2> QED
    BY <2>1, <2>2
<1>7. TypeOK
  <2>1. ASSUME NEW i \in 1 .. Ents
        PROVE  sat[i] \in [start : {0} \cup Base .. Base + Length - 1, length : 0 .. Length,
                           nall : 0 .. Cardinality(MD)]
    <3>1. sat[i] \in Sat
      BY <1>3
    <3>2. CASE i \in 1 .. n
      <4>1. /\ sat[i].start \in Base .. Base + Length - 1 /\ sat[i].length \in 0 .. Length
        BY <1>3, <3>2
      <4>2. sat[i].nall \in 0 .. Cardinality(MD)
        BY <1>6, <3>2
      <4> QED
        BY <3>1, <4>1, <4>2 DEF Sat
    <3>3. CASE i \in n + 1 .. Ents
      BY <1>3, <1>5, <3>3 DEF NoEnt
    <3> QED
      BY <1>3, <3>2, <3>3
  <2>2. ASSUME NEW m \in MD
        PROVE  md[m] \in [pd : Owner \cup {NoOwner}, start : 0 .. Base + Length,
                          length : 0 .. Length]
    <3>1. md[m] \in [pd : Owner \cup {NoOwner}, start : Nat, length : Int]
      BY <1>2 DEF Matches
    <3>2. md[m].start \in 0 .. Base + Length /\ md[m].length \in 0 .. Length
      <4>1. CASE md[m].pd = NoOwner
        <5>1. md[m].start = 0 /\ md[m].length = 0
          BY <1>2, <4>1 DEF Matches, NoSegment
        <5> QED
          BY <5>1
      <4>2. CASE md[m].pd # NoOwner
        <5>1. PICK i \in 1 .. n : md[m].start = sat[i].start /\ md[m].length = sat[i].length
          BY <1>2, <1>4, <4>2 DEF Matches
        <5> QED
          BY <1>3, <5>1
      <4> QED
        BY <4>1, <4>2
    <3> QED
      BY <3>1, <3>2
  <2>3. md \in [MD -> [pd : Owner \cup {NoOwner}, start : 0 .. Base + Length,
                       length : 0 .. Length]]
    BY <1>2, <2>2 DEF Matches
  <2>4. sat \in [1 .. Ents -> [start : {0} \cup Base .. Base + Length - 1, length : 0 .. Length,
                               nall : 0 .. Cardinality(MD)]]
    BY <1>3, <2>1
  <2> QED
    BY <2>3, <2>4 DEF TypeOK, IInv
<1>8. TableMatches
  <2>1. CASE ~ onMal
    BY <2>1 DEF TableMatches, IInv
  <2>2. CASE onMal
    <3>1. Cardinality(Used(sat)) = n
      BY <1>1, RoomyAreas
    <3>2. /\ sat[1].start = Base /\ End(sat[n]) = Base + Length
          /\ \A i \in 1 .. n - 1 : End(sat[i]) = sat[i + 1].start
      BY <1>1 DEF Areas
    <3>3. \A i \in 1 .. n :
            sat[i].nall = Cardinality({m \in MD : md[m].start = sat[i].start})
      BY <1>6 DEF Holders
    <3>4. \A m \in MD \ FreeMD :
            \E i \in 1 .. n : sat[i].start = md[m].start /\ sat[i].length = md[m].length
      <4>1. ASSUME NEW m \in MD, md[m].pd # NoOwner
            PROVE  \E i \in 1 .. n : sat[i].start = md[m].start /\ sat[i].length = md[m].length
        BY <1>2, <1>4, <4>1 DEF Matches
      <4> QED
        BY <4>1 DEF FreeMD
    <3> QED
      BY <2>2, <3>1, <3>2, <3>3, <3>4 DEF TableMatches
  <2> QED
    BY <2>1, <2>2
<1> QED
  BY <1>7, <1>8 DEF TableSound

LEMMA InvStep ==
  ASSUME IInv, Roomy, [Next]_vars
  PROVE  IInv'
<1>1. CASE UNCHANGED vars
  BY <1>1 DEF vars, IInv, FreeMD
<1>2. CASE Next
  <2>1. CASE \E o \in Owner, at \in Abs \cup {0}, min, max \in 1 .. Length :
               min <= max /\ Malloc(o, at, min, max)
    BY <2>1, MallocStep
  <2>2. CASE \E m \in MD : MfreeAll(m)
    BY <2>2, MfreeAllStep
  <2>3. CASE \E m \in MD, p \in Base .. Base + Length - 1 : MfreeEnd(m, p)
    BY <2>3, MfreeEndStep
  <2>4. CASE \E m \in MD, o \in Owner : Share(m, o)
    BY <2>4, ShareStep
  <2> QED
    BY <1>2, <2>1, <2>2, <2>3, <2>4 DEF Next
<1> QED
  BY <1>1, <1>2

LEMMA InvKept == Spec /\ []Roomy => []IInv
  BY InitInv, InvStep, PTL DEF Spec

\* mau.mem: "describes areas within it that are allocated or free".  Whatever is
\* allocated, shared, shortened and freed, the entries in use cover the partition
\* with no hole and no overlap, each counts the descriptors of its segment, and every
\* descriptor is as long as its entry, as long as two entries of the table are not
\* used when a call begins.
THEOREM TableKept == Spec /\ []Roomy => []TableSound
  BY InvKept, InvSound, PTL

----------------------------------------------------------------------------
(* The calls implement the service.                                         *)

\* The segments of descriptors lie in the partition, and are the same or apart.
Apart(d) ==
  /\ d \in [MD -> [pd : Owner \cup {NoOwner}, start : Nat, length : Int]]
  /\ \A m \in MD : d[m].pd = NoOwner => d[m].length = 0
  /\ \A m \in MD : d[m].pd # NoOwner =>
       /\ d[m].length > 0 /\ d[m].start >= Base
       /\ d[m].start + d[m].length <= Base + Length
  /\ \A m, x \in MD : d[m].pd # NoOwner /\ d[x].pd # NoOwner =>
       IF d[m].start = d[x].start THEN d[m].length = d[x].length
       ELSE \/ d[m].start + d[m].length <= d[x].start
            \/ d[x].start + d[x].length <= d[m].start

LEMMA MatchesApart ==
  ASSUME NEW t, NEW n, Areas(t, n), NEW d, Matches(Allocated(t), d)
  PROVE  Apart(d)
<1>1. /\ n \in Nat
      /\ \A i \in 1 .. n :
           /\ t[i].start \in Int /\ t[i].length \in Int
           /\ t[i].length > 0 /\ t[i].start >= Base
           /\ t[i].start + t[i].length <= Base + Length
      /\ \A i, j \in 1 .. n : i < j => t[i].start + t[i].length <= t[j].start
  BY AreasFacts, AreasOrdered DEF Ordered, End
<1>2. \A m \in MD : d[m].pd # NoOwner =>
        \E i \in 1 .. n : d[m].start = t[i].start /\ d[m].length = t[i].length
  <2>1. \A m \in MD : d[m].pd # NoOwner =>
          \E e \in Allocated(t) : d[m].start = e.start /\ d[m].length = e.length
    BY DEF Matches
  <2> QED
    BY <2>1, AllocatedIs
<1>3. \A m \in MD : d[m].pd = NoOwner => d[m].length = 0
  BY DEF Matches, NoSegment
<1>4. ASSUME NEW m \in MD, NEW x \in MD, d[m].pd # NoOwner, d[x].pd # NoOwner
      PROVE  IF d[m].start = d[x].start THEN d[m].length = d[x].length
             ELSE \/ d[m].start + d[m].length <= d[x].start
                  \/ d[x].start + d[x].length <= d[m].start
  <2>1. PICK i \in 1 .. n : d[m].start = t[i].start /\ d[m].length = t[i].length
    BY <1>2, <1>4
  <2>2. PICK j \in 1 .. n : d[x].start = t[j].start /\ d[x].length = t[j].length
    BY <1>2, <1>4
  <2>3. t[i].start = t[j].start => i = j
    BY StartsDiffer
  <2>4. i = j \/ i < j \/ j < i
    BY <1>1
  <2>5. i = j \/ t[i].start + t[i].length <= t[j].start
              \/ t[j].start + t[j].length <= t[i].start
    BY <1>1, <2>4
  <2> QED
    BY <2>1, <2>2, <2>3, <2>5
<1>5. \A m \in MD : d[m].pd # NoOwner =>
        /\ d[m].length > 0 /\ d[m].start >= Base
        /\ d[m].start + d[m].length <= Base + Length
  BY <1>1, <1>2
<1> QED
  BY <1>3, <1>4, <1>5 DEF Apart, Matches

\* The paragraphs of a segment.
Run(e) == e.start .. e.start + e.length - 1

LEMMA RunsApart ==
  ASSUME NEW d, Apart(d)
  PROVE  /\ \A m \in MD : d[m].pd = NoOwner => Run(d[m]) = {}
         /\ \A m \in MD : d[m].pd # NoOwner =>
              Run(d[m]) # {} /\ Run(d[m]) \subseteq Base .. Base + Length - 1
         /\ \A m, x \in MD : Run(d[m]) = Run(d[x]) \/ Run(d[m]) \cap Run(d[x]) = {}
         /\ \A m, x \in MD :
              d[m].start # d[x].start => Run(d[m]) \cap Run(d[x]) = {}
<1>1. \A m \in MD : d[m].start \in Nat /\ d[m].length \in Int
  BY DEF Apart
<1>2. \A m \in MD : d[m].pd = NoOwner => Run(d[m]) = {}
  <2> SUFFICES ASSUME NEW m \in MD, d[m].pd = NoOwner PROVE Run(d[m]) = {}
    OBVIOUS
  <2>1. d[m].length = 0 /\ d[m].start \in Int
    BY <1>1 DEF Apart
  <2> QED
    BY <2>1 DEF Run
<1>3. ASSUME NEW m \in MD, d[m].pd # NoOwner
      PROVE  Run(d[m]) # {} /\ Run(d[m]) \subseteq Base .. Base + Length - 1
  <2>1. /\ d[m].start \in Int /\ d[m].length \in Int
        /\ d[m].length > 0 /\ d[m].start >= Base
        /\ d[m].start + d[m].length <= Base + Length
    BY <1>1, <1>3 DEF Apart
  <2>2. d[m].start \in Run(d[m])
    BY <2>1 DEF Run
  <2>3. Run(d[m]) \subseteq Base .. Base + Length - 1
    BY <2>1 DEF Run
  <2> QED
    BY <2>2, <2>3
<1>4. ASSUME NEW m \in MD, NEW x \in MD
      PROVE  /\ Run(d[m]) = Run(d[x]) \/ Run(d[m]) \cap Run(d[x]) = {}
             /\ d[m].start # d[x].start => Run(d[m]) \cap Run(d[x]) = {}
  <2>1. CASE d[m].pd = NoOwner \/ d[x].pd = NoOwner
    BY <1>2, <2>1
  <2>2. CASE d[m].pd # NoOwner /\ d[x].pd # NoOwner
    <3>1. CASE d[m].start = d[x].start
      <4>1. d[m].length = d[x].length
        BY <2>2, <3>1 DEF Apart
      <4> QED
        BY <3>1, <4>1 DEF Run
    <3>2. CASE d[m].start # d[x].start
      <4>1. \/ d[m].start + d[m].length <= d[x].start
            \/ d[x].start + d[x].length <= d[m].start
        BY <2>2, <3>2 DEF Apart
      <4>2. \A p : ~ (p \in Run(d[m]) /\ p \in Run(d[x]))
        BY <1>1, <4>1 DEF Run
      <4> QED
        BY <4>2
    <3> QED
      BY <3>1, <3>2
  <2> QED
    BY <2>1, <2>2
<1> QED
  BY <1>2, <1>3, <1>4

LEMMA InvApart == IInv => Apart(md)
  BY MatchesApart DEF IInv

LEMMA InvApartNext == IInv' => Apart(md')
  BY MatchesApart DEF IInv

LEMMA ParagraphsAre == \A m \in MD : Paragraphs(m) = Run(md[m]) /\ Paragraphs(m)' = Run(md'[m])
  BY DEF Paragraphs, Run

\* What each descriptor stands for, before and after.
Held == [m \in MD |-> Paragraphs(m)]

\* malloc is Allocate.
LEMMA MallocAllocates ==
  ASSUME IInv, IInv', NEW o \in Owner, NEW m \in MD, GotNew(o, m)
  PROVE  Service!Allocate(m)
<1>1. Apart(md) /\ Apart(md')
  BY InvApart, InvApartNext
<1>2. md[m].pd = NoOwner /\ md'[m].pd # NoOwner
  BY OwnerAssumption DEF GotNew, FreeMD
<1>3. \A x \in MD : x # m => md'[x] = md[x]
  BY <1>1 DEF GotNew, Apart
<1> PICK lo \in Int, hi \in Int :
      lo = md'[m].start /\ hi = md'[m].start + md'[m].length - 1
  BY <1>1 DEF Apart
<1>4. Run(md'[m]) = lo .. hi
  BY DEF Run
<1>5. /\ lo \in Base .. Base + Length - 1 /\ hi \in Base .. Base + Length - 1 /\ lo <= hi
  <2>1. /\ md'[m].length > 0 /\ md'[m].start >= Base
        /\ md'[m].start + md'[m].length <= Base + Length
        /\ md'[m].start \in Int /\ md'[m].length \in Int
    BY <1>1, <1>2 DEF Apart
  <2> QED
    BY <2>1
<1>6. ASSUME NEW x \in MD PROVE (lo .. hi) \cap Held[x] = {}
  <2>1. Held[x] = Run(md[x])
    BY ParagraphsAre DEF Held
  <2>2. CASE md[x].pd = NoOwner
    BY <1>1, <2>1, <2>2, RunsApart
  <2>3. CASE md[x].pd # NoOwner
    <3>1. md[x].start # md'[m].start /\ x # m
      BY <1>2, <2>3 DEF GotNew, FreeMD
    <3>2. Run(md'[m]) \cap Run(md'[x]) = {}
      BY <1>1, <1>3, <3>1, RunsApart
    <3> QED
      BY <1>3, <1>4, <2>1, <3>1, <3>2
  <2> QED
    BY <2>2, <2>3
<1>7. Held[m] = {}
  BY <1>1, <1>2, RunsApart, ParagraphsAre DEF Held
<1>8. Held' = [Held EXCEPT ![m] = lo .. hi]
  <2>1. \A x \in MD : x # m => Paragraphs(x)' = Paragraphs(x)
    BY <1>3, ParagraphsAre
  <2>2. Paragraphs(m)' = lo .. hi
    BY <1>4, ParagraphsAre
  <2> QED
    BY <2>1, <2>2 DEF Held
<1>9. (lo .. hi) \cap UNION {Held[x] : x \in MD} = {}
  BY <1>6
<1> QED
  BY <1>5, <1>7, <1>8, <1>9 DEF Service!Allocate, Service!Taken, Held

\* mfree of a whole segment is Release.
LEMMA MfreeReleases ==
  ASSUME IInv, IInv', NEW m \in MD, md' = [md EXCEPT ![m] = NoSegment]
  PROVE  Service!Release(m)
<1>1. Apart(md) /\ Apart(md')
  BY InvApart, InvApartNext
<1>2. md'[m] = NoSegment /\ \A x \in MD : x # m => md'[x] = md[x]
  BY <1>1 DEF Apart
<1>3. Run(md'[m]) = {}
  <2>1. md'[m].pd = NoOwner
    BY <1>2 DEF NoSegment
  <2> QED
    BY <1>1, <2>1, RunsApart
<1>4. Held' = [Held EXCEPT ![m] = {}]
  BY <1>2, <1>3, ParagraphsAre DEF Held
<1> QED
  BY <1>4 DEF Service!Release, Held

\* mfree of the end of a segment is Shrink.
LEMMA MfreeShrinks ==
  ASSUME IInv, IInv', NEW m \in MD, NEW p \in Int, md[m].pd # NoOwner,
         md' = [md EXCEPT ![m].length = p - md[m].start],
         0 < p - md[m].start, p - md[m].start < md[m].length,
         \A x \in MD : md[x].start = md[m].start => x = m
  PROVE  Service!Shrink(m)
<1>1. Apart(md)
  BY InvApart
<1> PICK lo \in Int, k \in Int, hi \in Int :
      lo = md[m].start /\ k = md[m].length /\ hi = lo + k - 1
  BY <1>1 DEF Apart
<1>2. Run(md[m]) = lo .. hi /\ p \in lo .. hi
  BY DEF Run
<1>3. /\ md'[m].start = lo /\ md'[m].length = p - lo
      /\ \A x \in MD : x # m => md'[x] = md[x]
  BY <1>1 DEF Apart
<1>4. Run(md'[m]) = {y \in lo .. hi : y < p}
  <2>1. Run(md'[m]) = lo .. lo + (p - lo) - 1
    BY <1>3 DEF Run
  <2>2. \A y : y \in lo .. lo + (p - lo) - 1 <=> y \in lo .. hi /\ y < p
    BY <1>2
  <2> QED
    BY <2>1, <2>2
<1>5. Held' = [Held EXCEPT ![m] = {y \in Held[m] : y < p}]
  <2>1. Held[m] = lo .. hi
    BY <1>2, ParagraphsAre DEF Held
  <2> QED
    BY <1>3, <1>4, <2>1, ParagraphsAre DEF Held
<1>6. \A x \in MD \ {m} : Held[x] \cap Held[m] = {}
  <2>1. \A x \in MD : x # m => Run(md[x]) \cap Run(md[m]) = {}
    BY <1>1, RunsApart
  <2> QED
    BY <2>1, ParagraphsAre DEF Held
<1>7. p \in Held[m]
  BY <1>2, ParagraphsAre DEF Held
<1> QED
  BY <1>5, <1>6, <1>7 DEF Service!Shrink, Held

\* share is Share.
LEMMA ShareShares ==
  ASSUME IInv, IInv', NEW m \in MD, NEW o \in Owner, NEW x \in FreeMD, md[m].pd # NoOwner,
         md' = [md EXCEPT ![x] = [md[m] EXCEPT !.pd = o]]
  PROVE  x \in MD /\ Service!Share(x, m)
<1>1. Apart(md) /\ x \in MD /\ md[x].pd = NoOwner
  BY InvApart DEF FreeMD
<1>2. /\ md'[x].start = md[m].start /\ md'[x].length = md[m].length
      /\ \A y \in MD : y # x => md'[y] = md[y]
  BY <1>1 DEF Apart
<1>3. Run(md'[x]) = Run(md[m])
  BY <1>2 DEF Run
<1>4. Held' = [Held EXCEPT ![x] = Held[m]]
  <2>1. \A y \in MD : y # x => Paragraphs(y)' = Paragraphs(y)
    BY <1>2, ParagraphsAre
  <2>2. Paragraphs(x)' = Paragraphs(m)
    BY <1>1, <1>3, ParagraphsAre
  <2> QED
    BY <2>1, <2>2 DEF Held
<1>5. Held[x] = {} /\ Held[m] # {}
  BY <1>1, RunsApart, ParagraphsAre DEF Held
<1> QED
  BY <1>1, <1>4, <1>5 DEF Service!Share, Held

LEMMA ServiceInit == Init => Service!Init
<1> SUFFICES ASSUME Init PROVE Service!Init
  OBVIOUS
<1>1. Apart(md) /\ \A m \in MD : md[m].pd = NoOwner
  BY InitInv, InvApart DEF Init, NoSegment
<1>2. Held = [m \in MD |-> {}]
  BY <1>1, RunsApart, ParagraphsAre DEF Held
<1> QED
  BY <1>2 DEF Service!Init, Held

\* A call is a step of the service, or one that changes no segment.
LEMMA ServiceStep ==
  ASSUME IInv, IInv', Roomy, [Next]_vars
  PROVE  [Service!Next]_(Service!vars)
<1>1. CASE md' = md
  <2>1. Held' = Held
    BY <1>1, ParagraphsAre DEF Held
  <2> QED
    BY <2>1 DEF Service!vars, Held
<1>2. CASE md' # md
  <2>1. Next
    BY <1>2 DEF vars
  <2>2. CASE \E o \in Owner, at \in Abs \cup {0}, min, max \in 1 .. Length :
               min <= max /\ Malloc(o, at, min, max)
    <3>1. PICK o \in Owner, m \in MD : GotNew(o, m)
      BY <1>2, <2>2, MallocStep
    <3> QED
      BY <3>1, MallocAllocates DEF Service!Next
  <2>3. CASE \E m \in MD : MfreeAll(m)
    <3>1. PICK m \in MD : md' = [md EXCEPT ![m] = NoSegment]
      BY <2>3, MfreeAllStep
    <3> QED
      BY <3>1, MfreeReleases DEF Service!Next
  <2>4. CASE \E m \in MD, p \in Base .. Base + Length - 1 : MfreeEnd(m, p)
    <3>1. PICK m \in MD, p \in Base .. Base + Length - 1 : MfreeEnd(m, p)
      BY <2>4
    <3>2. /\ md[m].pd # NoOwner
          /\ md' = [md EXCEPT ![m].length = p - md[m].start]
          /\ 0 < p - md[m].start /\ p - md[m].start < md[m].length
          /\ \A x \in MD : md[x].start = md[m].start => x = m
      BY <3>1, MfreeEndStep
    <3>3. p \in Int
      OBVIOUS
    <3> QED
      BY <3>2, <3>3, MfreeShrinks DEF Service!Next
  <2>5. CASE \E m \in MD, o \in Owner : Share(m, o)
    <3>1. PICK m \in MD, o \in Owner : Share(m, o)
      BY <2>5
    <3>2. PICK x \in FreeMD : md[m].pd # NoOwner /\ md' = [md EXCEPT ![x] = [md[m] EXCEPT !.pd = o]]
      BY <3>1, ShareStep
    <3> QED
      BY <3>2, ShareShares DEF Service!Next
  <2> QED
    BY <2>1, <2>2, <2>3, <2>4, <2>5 DEF Next
<1> QED
  BY <1>1, <1>2

\* malloc, mfree and share never give a process a paragraph that another holds, for
\* any descriptors, processes, requests, partition and size of the table, as long as
\* two entries of the table are not used when a call begins.
THEOREM ServiceImplemented == Spec /\ []Roomy => Implements
<1>1. IInv /\ IInv' /\ Roomy /\ [Next]_vars => [Service!Next]_(Service!vars)
  BY ServiceStep
<1> QED
  BY <1>1, ServiceInit, InvKept, PTL DEF Spec, Implements, Service!Spec

----------------------------------------------------------------------------
(* What the service is worth by itself.                                     *)

\* Segments, as sets of paragraphs, of which two are the same or have nothing in common.
SameOrApart(h) ==
  /\ h = [m \in MD |-> h[m]]
  /\ \A m, n \in MD : h[m] = h[n] \/ h[m] \cap h[n] = {}

\* A segment that loses its end, or all of it, is nobody else's; new memory is
\* nobody's.
LEMMA ChangedApart ==
  ASSUME NEW h, SameOrApart(h), NEW m \in MD, NEW S,
         \A n \in MD \ {m} : S \cap h[n] = {}, NEW h2, h2 = [h EXCEPT ![m] = S]
  PROVE  SameOrApart(h2)
<1>1. h2 = [n \in MD |-> h2[n]] /\ h2[m] = S /\ \A n \in MD : n # m => h2[n] = h[n]
  BY DEF SameOrApart
<1> QED
  BY <1>1 DEF SameOrApart

\* A segment is shared as a whole.
LEMMA SharedApart ==
  ASSUME NEW h, SameOrApart(h), NEW m \in MD, NEW n \in MD, NEW h2, h2 = [h EXCEPT ![m] = h[n]]
  PROVE  SameOrApart(h2)
<1>1. h2 = [x \in MD |-> h2[x]] /\ h2[m] = h[n] /\ \A x \in MD : x # m => h2[x] = h[x]
  BY DEF SameOrApart
<1> QED
  BY <1>1 DEF SameOrApart

LEMMA ServiceKeeps == SameOrApart(Held) /\ [Service!Next]_(Service!vars) => SameOrApart(Held')
<1> SUFFICES ASSUME SameOrApart(Held), [Service!Next]_(Service!vars) PROVE SameOrApart(Held')
  OBVIOUS
<1> PICK h : h = Held
  OBVIOUS
<1> PICK h2 : h2 = Held'
  OBVIOUS
<1>1. SameOrApart(h)
  OBVIOUS
<1> SUFFICES SameOrApart(h2)
  OBVIOUS
<1>2. ASSUME NEW m \in MD, Service!Allocate(m) PROVE SameOrApart(h2)
  <2>1. PICK lo, hi \in Base .. Base + Length - 1 :
          (lo .. hi) \cap Service!Taken = {} /\ h2 = [h EXCEPT ![m] = lo .. hi]
    BY <1>2 DEF Service!Allocate, Held
  <2> PICK S : S = lo .. hi
    OBVIOUS
  <2>2. \A n \in MD : S \cap h[n] = {}
    BY <2>1 DEF Service!Taken, Held
  <2>3. h2 = [h EXCEPT ![m] = S] /\ \A n \in MD \ {m} : S \cap h[n] = {}
    BY <2>1, <2>2
  <2> QED
    BY <1>1, <2>3, ChangedApart
<1>3. ASSUME NEW m \in MD, Service!Shrink(m) PROVE SameOrApart(h2)
  <2>1. PICK hi \in h[m] : h2 = [h EXCEPT ![m] = {p \in h[m] : p < hi}]
    BY <1>3 DEF Service!Shrink, Held
  <2> PICK S : S = {p \in h[m] : p < hi}
    OBVIOUS
  <2>2. \A n \in MD \ {m} : h[n] \cap h[m] = {}
    BY <1>3 DEF Service!Shrink, Held
  <2>3. h2 = [h EXCEPT ![m] = S] /\ \A n \in MD \ {m} : S \cap h[n] = {}
    BY <2>1, <2>2
  <2> QED
    BY <1>1, <2>3, ChangedApart
<1>4. ASSUME NEW m \in MD, Service!Release(m) PROVE SameOrApart(h2)
  <2>1. h2 = [h EXCEPT ![m] = {}]
    BY <1>4 DEF Service!Release, Held
  <2>2. \A n \in MD \ {m} : {} \cap h[n] = {}
    OBVIOUS
  <2> QED
    BY <1>1, <2>1, <2>2, ChangedApart
<1>5. ASSUME NEW m \in MD, NEW n \in MD, Service!Share(m, n) PROVE SameOrApart(h2)
  <2>1. h2 = [h EXCEPT ![m] = h[n]]
    BY <1>5 DEF Service!Share, Held
  <2> QED
    BY <1>1, <2>1, SharedApart
<1>6. CASE Service!Next
  BY <1>2, <1>3, <1>4, <1>5, <1>6 DEF Service!Next
<1>7. CASE UNCHANGED Service!vars
  <2>1. h2 = h
    BY <1>7 DEF Service!vars, Held
  <2> QED
    BY <1>1, <2>1
<1> QED
  BY <1>6, <1>7

\* Under the service, however segments are allocated, shared, shortened and freed,
\* two descriptors stand for the same segment or have no paragraph in common.
LEMMA SegmentsExclusive == Service!Spec => []Exclusive
<1>1. Service!Init => SameOrApart(Held)
  BY DEF Service!Init, SameOrApart, Held
<1>2. SameOrApart(Held) => Exclusive
  <2> SUFFICES ASSUME SameOrApart(Held) PROVE Exclusive
    OBVIOUS
  <2>1. \A m \in MD : Held[m] = Paragraphs(m)
    BY DEF Held
  <2>2. \A m, n \in MD : Held[m] = Held[n] \/ Held[m] \cap Held[n] = {}
    BY DEF SameOrApart
  <2> QED
    BY <2>1, <2>2 DEF Exclusive, Service!Exclusive
<1>3. SameOrApart(Held) /\ [Service!Next]_(Service!vars) => SameOrApart(Held)'
  BY ServiceKeeps
<1> QED
  BY <1>1, <1>2, <1>3, PTL DEF Service!Spec

\* No paragraph is allocated twice, unless the segment is shared as a whole: what
\* the service promises, the calls keep.
THEOREM ExclusiveKept == Spec /\ []Roomy => []Exclusive
  BY ServiceImplemented, SegmentsExclusive, PTL DEF Implements

----------------------------------------------------------------------------
(* What is free is found.                                                   *)

\* When the partition is covered and no two free entries follow each other,
\* paragraphs that follow each other and are free are in one entry.
LEMMA FreeTogether ==
  ASSUME NEW t, NEW n, Areas(t, n), Coalesced(t, n), NEW d, Matches(Allocated(t), d),
         NEW k \in 1 .. Length, NEW p \in Base .. Base + Length - k,
         \A m \in MD : (p .. p + k - 1) \cap Run(d[m]) = {}
  PROVE  \E i \in 1 .. n : t[i].nall = 0 /\ t[i].length >= k
<1>1. /\ n \in Nat /\ n > 0 /\ Base \in Nat /\ Length \in Nat
      /\ \A j \in 1 .. n : /\ t[j].start \in Int /\ t[j].length \in Int /\ t[j].nall \in Int
                           /\ t[j].length > 0 /\ t[j].nall >= 0
      /\ \A j \in 1 .. n - 1 : t[j + 1].start = t[j].start + t[j].length
      /\ t[1].start = Base /\ t[n].start + t[n].length = Base + Length
  BY AreasFacts
<1>2. p \in Int /\ k \in Int /\ p >= Base /\ p + k <= Base + Length /\ k > 0
  BY <1>1
<1>3. ASSUME NEW i \in 1 .. n, NEW q \in p .. p + k - 1,
             t[i].start <= q, q < t[i].start + t[i].length
      PROVE  t[i].nall = 0
  <2> SUFFICES ASSUME t[i].nall # 0 PROVE FALSE
    OBVIOUS
  <2>1. t[i] \in Allocated(t) /\ t[i].start # 0 /\ t[i].nall > 0
    <3>1. t[i] \in Allocated(t)
      BY AllocatedIs
    <3> QED
      BY <3>1, SegmentStarts DEF Starts
  <2>2. t[i].nall = Cardinality(Holders(d, t[i].start))
    BY <2>1 DEF Matches
  <2>3. PICK m \in MD : d[m].start = t[i].start
    <3>1. Holders(d, t[i].start) # {}
      BY <2>1, <2>2, FS_EmptySet
    <3> QED
      BY <3>1 DEF Holders
  <2>4. d[m].length = t[i].length
    BY <2>1, <2>3, SegmentStarts, HoldersHold
  <2>5. q \in Run(d[m])
    BY <1>1, <1>2, <1>3, <2>3, <2>4 DEF Run
  <2> QED
    BY <2>5
\* The entry with the first of them: the last that does not begin behind it.
<1>4. PICK i \in 1 .. n : t[i].start <= p /\ p < t[i].start + t[i].length
  <2> DEFINE T == {j \in Nat : j + 1 <= n /\ p < t[j + 1].start + t[j + 1].length}
  <2>1. n - 1 \in T
    BY <1>1, <1>2
  <2>2. PICK j \in T : \A l \in T : j <= l
    <3>1. T \in SUBSET Nat /\ T # {}
      BY <2>1
    <3> HIDE DEF T
    <3> QED
      BY <3>1, Lists!LeastNumber
  <2>3. j + 1 \in 1 .. n /\ j \in Nat
    BY <1>1
  <2>4. t[j + 1].start <= p
    <3>1. CASE j = 0
      BY <1>1, <1>2, <3>1
    <3>2. CASE j # 0
      <4>1. j - 1 \notin T /\ j - 1 \in Nat /\ j \in 1 .. n - 1 /\ j \in 1 .. n
        BY <1>1, <2>2, <2>3, <3>2
      <4>2. ~ (p < t[j].start + t[j].length)
        BY <2>3, <4>1
      <4> QED
        BY <1>1, <1>2, <4>1, <4>2
    <3> QED
      BY <3>1, <3>2
  <2> QED
    BY <2>3, <2>4
<1>5. t[i].nall = 0
  BY <1>2, <1>3, <1>4
<1>6. p + k <= t[i].start + t[i].length
  <2> SUFFICES ASSUME t[i].start + t[i].length < p + k PROVE FALSE
    BY <1>1, <1>2
  <2>1. i \in 1 .. n - 1 /\ i + 1 \in 1 .. n
    BY <1>1, <1>2
  <2>2. t[i + 1].start = t[i].start + t[i].length /\ t[i + 1].start \in Int
        /\ t[i + 1].length > 0 /\ t[i + 1].length \in Int
    BY <1>1, <2>1
  <2>3. t[i + 1].start \in p .. p + k - 1 /\ t[i + 1].start < t[i + 1].start + t[i + 1].length
    BY <1>1, <1>2, <1>4, <2>2
  <2>4. t[i + 1].nall = 0
    BY <1>3, <2>1, <2>2, <2>3
  <2> QED
    BY <1>5, <2>1, <2>4 DEF Coalesced
<1> QED
  BY <1>1, <1>2, <1>4, <1>5, <1>6

\* Hence a request for as many is not refused.
LEMMA FreeFits ==
  ASSUME NEW t, NEW n, Areas(t, n), Coalesced(t, n), NEW d, Matches(Allocated(t), d),
         NEW k \in 1 .. Length, NEW p \in Base .. Base + Length - k,
         \A m \in MD : (p .. p + k - 1) \cap Run(d[m]) = {}
  PROVE  Fits(t, 0, k) # {}
<1>1. PICK i \in 1 .. n : t[i].nall = 0 /\ t[i].length >= k
  BY FreeTogether
<1>2. i \in Free(t)
  BY <1>1, AreasUsed
<1> QED
  BY <1>1, <1>2 DEF Fits

\* A descriptor that gets a segment is not shortened.
LEMMA NoneShortened ==
  ASSUME IInv, IInv', NEW m \in MD, md[m].pd = NoOwner,
         \A x \in MD : x # m => md'[x] = md[x]
  PROVE  \A x \in MD : ~ md'[x].length < md[x].length
<1>1. md[m].length = 0
  BY DEF IInv, Matches, NoSegment
<1>2. Apart(md) /\ Apart(md')
  BY InvApart, InvApartNext
<1>3. md'[m].length \in Int /\ md'[m].length >= 0
  BY <1>2 DEF Apart
<1>4. \A x \in MD : md[x].length \in Int
  BY <1>2 DEF Apart
<1> QED
  BY <1>1, <1>3, <1>4

\* A call that shortens or frees a segment leaves a table that is collapsed.
LEMMA FreeingCollapses ==
  ASSUME IInv, Roomy, Next, NEW m \in MD, md'[m].length < md[m].length
  PROVE  IInv' /\ \E n : Areas(sat', n) /\ Coalesced(sat', n)
<1>1. ASSUME NEW o \in Owner, NEW at \in Abs \cup {0}, NEW min \in 1 .. Length,
             NEW max \in 1 .. Length, Malloc(o, at, min, max)
      PROVE  FALSE
  <2>1. IInv' /\ (md' = md \/ \E x \in MD : GotNew(o, x))
    BY <1>1, MallocStep
  <2>2. CASE md' = md
    <3>1. md[m].length \in Int
      BY DEF IInv, Matches
    <3> QED
      BY <2>2, <3>1
  <2>3. CASE \E x \in MD : GotNew(o, x)
    <3>1. PICK x \in MD : GotNew(o, x)
      BY <2>3
    <3>2. md[x].pd = NoOwner /\ \A y \in MD : y # x => md'[y] = md[y]
      BY <3>1 DEF GotNew, FreeMD, IInv, Matches
    <3> QED
      BY <2>1, <3>2, NoneShortened
  <2> QED
    BY <2>1, <2>2, <2>3
<1>2. ASSUME NEW x \in MD, NEW o \in Owner, Share(x, o)
      PROVE  FALSE
  <2>1. IInv' /\ \E y \in FreeMD : md' = [md EXCEPT ![y] = [md[x] EXCEPT !.pd = o]]
    BY <1>2, ShareStep
  <2>2. PICK y \in MD : md[y].pd = NoOwner /\ md' = [md EXCEPT ![y] = [md[x] EXCEPT !.pd = o]]
    BY <2>1 DEF FreeMD
  <2>3. \A z \in MD : z # y => md'[z] = md[z]
    BY <2>2 DEF IInv, Matches
  <2> QED
    BY <2>1, <2>2, <2>3, NoneShortened
<1>3. ASSUME NEW x \in MD, MfreeAll(x)
      PROVE  IInv' /\ \E n : Areas(sat', n) /\ Coalesced(sat', n)
  BY <1>3, MfreeAllStep
<1>4. ASSUME NEW x \in MD, NEW p \in Base .. Base + Length - 1, MfreeEnd(x, p)
      PROVE  IInv' /\ \E n : Areas(sat', n) /\ Coalesced(sat', n)
  BY <1>4, MfreeEndStep
<1> QED
  BY <1>1, <1>2, <1>3, <1>4 DEF Next

\* mau_collapse: what a call frees becomes one area with what is free around it, so
\* that the next request is refused only if no free area is large enough, as long as
\* two entries of the table are not used when a call begins.
THEOREM FreedCollapses == Spec /\ []Roomy => FreeCollapses
<1> DEFINE Found == onMal' /\ (\E m \in MD : md'[m].length < md[m].length)
                      => \A n \in 1 .. Length : Finds(n)'
<1>1. IInv /\ Roomy /\ [Next]_vars => [Found]_vars
  <2> SUFFICES ASSUME IInv, Roomy, Next, NEW m \in MD, md'[m].length < md[m].length,
                      NEW k \in 1 .. Length
               PROVE  Finds(k)'
    OBVIOUS
  <2>1. PICK n : IInv' /\ Areas(sat', n) /\ Coalesced(sat', n)
    BY FreeingCollapses
  <2>2. Matches(Allocated(sat'), md')
    BY <2>1 DEF IInv
  <2>3. SUFFICES ASSUME NEW p \in Base .. Base + Length - k,
                        \A x \in MD : (p .. p + k - 1) \cap Paragraphs(x)' = {}
                 PROVE  Fits(sat', 0, k) # {}
    BY DEF Finds
  <2>4. \A x \in MD : (p .. p + k - 1) \cap Run(md'[x]) = {}
    BY <2>3, ParagraphsAre
  <2> QED
    BY <2>1, <2>2, <2>4, FreeFits
<1> QED
  BY <1>1, InvKept, PTL DEF Spec, FreeCollapses

=============================================================================
