-------------------------- MODULE DispatcherProofs --------------------------
(* The dispatcher keeps every process on the one list its status names, the  *)
(* ready list in order and the delays exact, as long as no interrupt comes   *)
(* while abort looks for its target.                                         *)
EXTENDS Dispatcher, ProcessListsProofs

----------------------------------------------------------------------------
(* The ticks along a delay list.                                            *)

\* TicksTo, of any list and any ticks.
SumTo(list, wait, i) ==
  LET t[j \in 0 .. Len(list)] == IF j = 0 THEN 0 ELSE t[j - 1] + wait[list[j]]
  IN  t[i]

\* On the delay list.
LEMMA TicksAreSums == \A i : TicksTo(i) = SumTo(dlr, p_wait, i)
  BY DEF TicksTo, SumTo

\* The sum up to a place is the sum up to the place before it, and its own ticks.
LEMMA SumSteps ==
  ASSUME NEW list \in Seq(Proc), NEW wait \in [Proc -> Int]
  PROVE  /\ SumTo(list, wait, 0) = 0
         /\ \A j \in 1 .. Len(list) :
              SumTo(list, wait, j) = SumTo(list, wait, j - 1) + wait[list[j]]
         /\ \A j \in 0 .. Len(list) : SumTo(list, wait, j) \in Int
<1> PICK n \in Nat : n = Len(list)
  OBVIOUS
<1> DEFINE Good(s, m) ==
      s = [j \in 0 .. m |-> IF j = 0 THEN 0 ELSE s[j - 1] + wait[list[j]]]
<1> DEFINE T == {m \in Nat : m <= n => \E s \in [0 .. m -> Int] : Good(s, m)}
<1>1. 0 \in T
  <2>1. Good([j \in 0 .. 0 |-> 0], 0) /\ [j \in 0 .. 0 |-> 0] \in [0 .. 0 -> Int]
    OBVIOUS
  <2> QED
    BY <2>1
<1>2. ASSUME NEW m \in Nat, m \in T PROVE m + 1 \in T
  <2> HIDE DEF Good
  <2> SUFFICES ASSUME m + 1 <= n
               PROVE  \E s \in [0 .. m + 1 -> Int] : Good(s, m + 1)
    OBVIOUS
  <2>1. PICK s \in [0 .. m -> Int] : Good(s, m)
    BY <1>2
  <2>2. m + 1 \in 1 .. n /\ wait[list[m + 1]] \in Int
    OBVIOUS
  <2> PICK r : r = [j \in 0 .. m + 1 |-> IF j <= m THEN s[j] ELSE s[m] + wait[list[m + 1]]]
    OBVIOUS
  <2> USE DEF Good
  <2>3. r \in [0 .. m + 1 -> Int]
    <3>1. m \in 0 .. m /\ s[m] \in Int
      OBVIOUS
    <3> QED
      BY <2>2, <3>1
  <2>4. ASSUME NEW j \in 0 .. m + 1
        PROVE  r[j] = IF j = 0 THEN 0 ELSE r[j - 1] + wait[list[j]]
    <3>1. CASE j = 0
      <4>1. s[0] = 0
        BY <2>1
      <4> QED
        BY <3>1, <4>1
    <3>2. CASE j \in 1 .. m
      <4>1. j \in 0 .. m /\ j - 1 \in 0 .. m /\ j # 0 /\ j - 1 \in 0 .. m + 1 /\ j - 1 <= m
            /\ j <= m
        BY <3>2
      <4>2. s[j] = s[j - 1] + wait[list[j]]
        BY <2>1, <4>1
      <4> QED
        BY <4>1, <4>2
    <3>3. CASE j = m + 1
      <4>1. j - 1 = m /\ m \in 0 .. m + 1 /\ ~ j <= m /\ j # 0
        BY <3>3
      <4> QED
        BY <3>3, <4>1
    <3> QED
      BY <3>1, <3>2, <3>3
  <2>5. Good(r, m + 1)
    BY <2>3, <2>4
  <2> HIDE DEF Good
  <2> QED
    BY <2>3, <2>5
<1>3. n \in T
  <2> HIDE DEF T
  <2> QED
    BY <1>1, <1>2, NumbersReached
<1>4. \E s : Good(s, n)
  BY <1>3
<1>5. PICK t : /\ t = CHOOSE g : Good(g, n)
               /\ \A i : SumTo(list, wait, i) = t[i]
  BY DEF SumTo
<1>6. Good(t, n)
  <2> HIDE DEF Good
  <2> QED
    BY <1>4, <1>5
<1>7. t[0] = 0 /\ \A j \in 1 .. n : t[j] = t[j - 1] + wait[list[j]]
  <2>1. 0 \in 0 .. n
    OBVIOUS
  <2>2. \A j \in 1 .. n : j \in 0 .. n /\ j # 0
    OBVIOUS
  <2> QED
    BY <1>6, <2>1, <2>2
<1> DEFINE U == {m \in Nat : m <= n => t[m] \in Int}
<1>8. 0 \in U
  BY <1>7
<1>9. ASSUME NEW m \in Nat, m \in U PROVE m + 1 \in U
  <2> SUFFICES ASSUME m + 1 <= n PROVE t[m + 1] \in Int
    OBVIOUS
  <2>1. m + 1 \in 1 .. n /\ (m + 1) - 1 = m /\ wait[list[m + 1]] \in Int
    OBVIOUS
  <2> QED
    BY <1>7, <1>9, <2>1
<1>10. Nat \subseteq U
  <2> HIDE DEF U
  <2> QED
    BY <1>8, <1>9, NumbersReached
<1>11. \A j \in 0 .. n : t[j] \in Int
  BY <1>10
<1> HIDE DEF Good
<1> QED
  BY <1>5, <1>7, <1>11

\* A function that steps like the sums is the sums.
LEMMA SumsAre ==
  ASSUME NEW list \in Seq(Proc), NEW wait \in [Proc -> Int],
         NEW s \in [0 .. Len(list) -> Int], s[0] = 0,
         \A j \in 1 .. Len(list) : s[j] = s[j - 1] + wait[list[j]]
  PROVE  \A j \in 0 .. Len(list) : SumTo(list, wait, j) = s[j]
<1> PICK n \in Nat : n = Len(list)
  OBVIOUS
<1> DEFINE T == {m \in Nat : m <= n => SumTo(list, wait, m) = s[m]}
<1>1. 0 \in T
  BY SumSteps
<1>2. ASSUME NEW m \in Nat, m \in T PROVE m + 1 \in T
  <2> SUFFICES ASSUME m + 1 <= n PROVE SumTo(list, wait, m + 1) = s[m + 1]
    OBVIOUS
  <2>1. m + 1 \in 1 .. n /\ (m + 1) - 1 = m /\ SumTo(list, wait, m) = s[m]
    BY <1>2
  <2>2. SumTo(list, wait, m + 1) = SumTo(list, wait, m) + wait[list[m + 1]]
    BY <2>1, SumSteps
  <2>3. s[m + 1] = s[m] + wait[list[m + 1]]
    BY <2>1
  <2> QED
    BY <2>1, <2>2, <2>3
<1>3. Nat \subseteq T
  <2> HIDE DEF T
  <2> QED
    BY <1>1, <1>2, NumbersReached
<1> QED
  BY <1>3

\* No ticks are negative: the sums do not fall along a list.
LEMMA SumsGrow ==
  ASSUME NEW list \in Seq(Proc), NEW wait \in [Proc -> Nat]
  PROVE  /\ \A j \in 0 .. Len(list) : SumTo(list, wait, j) \in Nat
         /\ \A i, j \in 0 .. Len(list) :
              i <= j => SumTo(list, wait, i) <= SumTo(list, wait, j)
<1> PICK n \in Nat : n = Len(list)
  OBVIOUS
<1>1. wait \in [Proc -> Int]
  OBVIOUS
<1>2. /\ SumTo(list, wait, 0) = 0
      /\ \A j \in 1 .. n : SumTo(list, wait, j) = SumTo(list, wait, j - 1) + wait[list[j]]
      /\ \A j \in 0 .. n : SumTo(list, wait, j) \in Int
  BY <1>1, SumSteps
<1>3. ASSUME NEW i \in 0 .. n
      PROVE  \A j \in 0 .. n : i <= j => SumTo(list, wait, i) <= SumTo(list, wait, j)
  <2> DEFINE T == {m \in Nat : i + m <= n =>
                                 SumTo(list, wait, i) <= SumTo(list, wait, i + m)}
  <2>1. 0 \in T
    BY <1>2
  <2>2. ASSUME NEW m \in Nat, m \in T PROVE m + 1 \in T
    <3> SUFFICES ASSUME i + (m + 1) <= n
                 PROVE  SumTo(list, wait, i) <= SumTo(list, wait, i + (m + 1))
      OBVIOUS
    <3> PICK k \in Int : k = i + (m + 1)
      OBVIOUS
    <3>1. k \in 1 .. n /\ k - 1 = i + m /\ k - 1 \in 0 .. n /\ wait[list[k]] \in Nat
      OBVIOUS
    <3>2. SumTo(list, wait, k) = SumTo(list, wait, k - 1) + wait[list[k]]
      BY <1>2, <3>1
    <3>3. SumTo(list, wait, i) <= SumTo(list, wait, k - 1)
      BY <2>2, <3>1
    <3>4. /\ SumTo(list, wait, i) \in Int /\ SumTo(list, wait, k - 1) \in Int
          /\ SumTo(list, wait, k) \in Int
      BY <1>2, <3>1
    <3> QED
      BY <3>1, <3>2, <3>3, <3>4
  <2>3. Nat \subseteq T
    <3> HIDE DEF T
    <3> QED
      BY <2>1, <2>2, NumbersReached
  <2>4. ASSUME NEW j \in 0 .. n, i <= j
        PROVE  SumTo(list, wait, i) <= SumTo(list, wait, j)
    <3>1. j - i \in T /\ i + (j - i) = j
      BY <2>3, <2>4
    <3> QED
      BY <3>1
  <2> QED
    BY <2>4
<1>4. ASSUME NEW j \in 0 .. n PROVE SumTo(list, wait, j) \in Nat
  <2>1. 0 \in 0 .. n /\ 0 <= j
    OBVIOUS
  <2>2. SumTo(list, wait, 0) <= SumTo(list, wait, j) /\ SumTo(list, wait, j) \in Int
    BY <1>2, <1>3, <2>1
  <2> QED
    BY <1>2, <2>2
<1> QED
  BY <1>3, <1>4

\* The places del_lp goes past for a delay of n.
LEMMA SumsPassed ==
  ASSUME NEW list \in Seq(Proc), NEW wait \in [Proc -> Nat], NEW n \in Nat,
         NEW S \in SUBSET (1 .. Len(list)),
         \A i \in 1 .. Len(list) : i \in S <=> SumTo(list, wait, i) <= n
  PROVE  LET k == Cardinality(S)
         IN  /\ k \in 0 .. Len(list)
             /\ SumTo(list, wait, k) <= n
             /\ k < Len(list) => SumTo(list, wait, k + 1) > n
<1> PICK m \in Nat : m = Len(list)
  OBVIOUS
<1>1. /\ \A j \in 0 .. m : SumTo(list, wait, j) \in Nat
      /\ \A i, j \in 0 .. m : i <= j => SumTo(list, wait, i) <= SumTo(list, wait, j)
  BY SumsGrow
<1>2. ASSUME NEW i \in S, NEW j \in 1 .. i PROVE j \in S
  <2>1. i \in 1 .. m /\ SumTo(list, wait, i) <= n
    OBVIOUS
  <2>2. j \in 1 .. m /\ i \in 0 .. m /\ j \in 0 .. m /\ j <= i
    BY <2>1
  <2>3. /\ SumTo(list, wait, j) <= SumTo(list, wait, i)
        /\ SumTo(list, wait, j) \in Nat /\ SumTo(list, wait, i) \in Nat
    BY <1>1, <2>2
  <2>4. SumTo(list, wait, j) <= n
    BY <2>1, <2>3
  <2> QED
    BY <2>2, <2>4
<1>3. PICK k \in 0 .. m : k = Cardinality(S) /\ S = 1 .. k
  BY <1>2, ScanFront
<1>4. SumTo(list, wait, k) <= n
  <2>1. CASE k = 0
    <3>1. SumTo(list, wait, 0) = 0
      <4>1. wait \in [Proc -> Int]
        OBVIOUS
      <4> QED
        BY <4>1, SumSteps
    <3> QED
      BY <2>1, <3>1
  <2>2. CASE k # 0
    <3>1. k \in 1 .. k
      BY <2>2
    <3>2. k \in S
      BY <1>3, <3>1
    <3> QED
      BY <3>2
  <2> QED
    BY <2>1, <2>2
<1>5. ASSUME k < m PROVE SumTo(list, wait, k + 1) > n
  <2>1. k + 1 \in 1 .. m /\ k + 1 \in 0 .. m /\ k + 1 \notin 1 .. k
    BY <1>5
  <2>2. ~ SumTo(list, wait, k + 1) <= n /\ SumTo(list, wait, k + 1) \in Nat
    BY <1>1, <1>3, <2>1
  <2> QED
    BY <2>2
<1> QED
  BY <1>3, <1>4, <1>5

\* A process put on the list, its ticks and those of the process behind it
\* made relative.
LEMMA SumsPlaced ==
  ASSUME NEW list \in Seq(Proc), Distinct(list), NEW wait \in [Proc -> Int],
         NEW p \in Proc, ~ IsOn(list, p), NEW k \in 0 .. Len(list),
         NEW after \in [Proc -> Int],
         \A x \in Proc :
           x # p => after[x] = IF k < Len(list) /\ x = list[k + 1]
                               THEN wait[x] - after[p] ELSE wait[x]
  PROVE  \A i \in 0 .. Len(list) + 1 :
           SumTo(Placed(list, k, p), after, i) =
             IF i <= k THEN SumTo(list, wait, i)
             ELSE IF i = k + 1 THEN SumTo(list, wait, k) + after[p]
             ELSE SumTo(list, wait, i - 1)
<1> PICK m \in Nat : m = Len(list)
  OBVIOUS
<1> PICK new : new = Placed(list, k, p)
  OBVIOUS
<1> PICK old : old = [i \in 0 .. m |-> SumTo(list, wait, i)]
  OBVIOUS
<1>1. /\ old \in [0 .. m -> Int] /\ old[0] = 0
      /\ \A j \in 1 .. m : old[j] = old[j - 1] + wait[list[j]]
      /\ \A j \in 0 .. m : old[j] \in Int /\ old[j] = SumTo(list, wait, j)
  <2>1. /\ SumTo(list, wait, 0) = 0
        /\ \A j \in 1 .. m :
             SumTo(list, wait, j) = SumTo(list, wait, j - 1) + wait[list[j]]
        /\ \A j \in 0 .. m : SumTo(list, wait, j) \in Int
    BY SumSteps
  <2>2. /\ \A j \in 1 .. m : j \in 0 .. m /\ j - 1 \in 0 .. m
        /\ 0 \in 0 .. m
    OBVIOUS
  <2> QED
    BY <2>1, <2>2
<1> PICK n \in Int : n = SumTo(list, wait, k) + after[p]
  BY <1>1
<1>2. /\ new \in Seq(Proc) /\ Len(new) = m + 1
      /\ \A j \in 1 .. m + 1 :
           new[j] = IF j <= k THEN list[j] ELSE IF j = k + 1 THEN p ELSE list[j - 1]
  BY PlacedAt
<1>3. \A j \in 1 .. m : list[j] \in Proc /\ list[j] # p
  BY DEF IsOn
<1>4. \A j \in 1 .. m : after[list[j]] =
         IF j = k + 1 THEN wait[list[j]] - (n - old[k]) ELSE wait[list[j]]
  <2> TAKE j \in 1 .. m
  <2>1. /\ list[j] \in Proc /\ list[j] # p /\ k \in 0 .. m /\ wait[list[j]] \in Int
        /\ old[k] = SumTo(list, wait, k) /\ old[k] \in Int /\ after[p] \in Int
    BY <1>1, <1>3
  <2>2. CASE j = k + 1
    <3>1. after[list[j]] = wait[list[j]] - after[p]
      BY <2>1, <2>2
    <3>2. after[p] = n - old[k]
      BY <2>1
    <3> QED
      BY <2>2, <3>1, <3>2
  <2>3. CASE j # k + 1
    <3>1. ~ (k < Len(list) /\ list[j] = list[k + 1])
      BY <2>3 DEF Distinct
    <3> QED
      BY <2>1, <2>3, <3>1
  <2> QED
    BY <2>2, <2>3
<1> PICK s : s = [i \in 0 .. m + 1 |->
                    IF i <= k THEN old[i] ELSE IF i = k + 1 THEN n ELSE old[i - 1]]
  OBVIOUS
<1>5. s[0] = 0
  BY <1>1
<1>6. ASSUME NEW j \in 1 .. m + 1 PROVE s[j] = s[j - 1] + after[new[j]]
  <2>1. CASE j <= k
    <3>1. /\ j \in 1 .. m /\ j - 1 \in 0 .. m + 1 /\ j - 1 <= k /\ j \in 0 .. m + 1
          /\ j # k + 1
      BY <2>1
    <3>2. new[j] = list[j] /\ after[list[j]] = wait[list[j]]
      BY <1>2, <1>4, <2>1, <3>1
    <3>3. s[j] = old[j] /\ s[j - 1] = old[j - 1]
      BY <2>1, <3>1
    <3>4. old[j] = old[j - 1] + wait[list[j]]
      BY <1>1, <3>1
    <3> QED
      BY <3>2, <3>3, <3>4
  <2>2. CASE j = k + 1
    <3>1. /\ new[j] = p /\ s[j] = n /\ s[j - 1] = old[k]
      BY <1>2, <2>2
    <3>2. after[p] = n - old[k] /\ old[k] \in Int
      BY <1>1
    <3> QED
      BY <3>1, <3>2
  <2>3. CASE j > k + 1
    <3> PICK i \in Int : i = j - 1
      OBVIOUS
    <3>1. i \in 1 .. m /\ i \in 0 .. m + 1 /\ j \in 0 .. m + 1 /\ i >= k + 1
          /\ ~ j <= k /\ j # k + 1 /\ ~ i <= k
      BY <2>3
    <3>2. new[j] = list[i] /\ s[j] = old[i]
      BY <1>2, <3>1
    <3>3. old[i] = old[i - 1] + wait[list[i]] /\ wait[list[i]] \in Int
          /\ old[i - 1] \in Int /\ old[k] \in Int
      <4>1. i - 1 \in 0 .. m /\ list[i] \in Proc
        BY <3>1
      <4> QED
        BY <1>1, <3>1, <4>1
    <3>4. CASE i = k + 1
      <4>1. s[i] = n /\ i - 1 = k
        BY <3>1, <3>4
      <4>2. after[list[i]] = wait[list[i]] - (n - old[k])
        BY <1>4, <3>1, <3>4
      <4> QED
        BY <3>2, <3>3, <4>1, <4>2
    <3>5. CASE i # k + 1
      <4>1. s[i] = old[i - 1] /\ after[list[i]] = wait[list[i]]
        BY <1>4, <3>1, <3>5
      <4> QED
        BY <3>2, <3>3, <4>1
    <3> QED
      BY <3>4, <3>5
  <2> QED
    BY <2>1, <2>2, <2>3
<1>7. \A i \in 0 .. m + 1 : SumTo(new, after, i) = s[i]
  <2>1. \A j \in 1 .. Len(new) : s[j] = s[j - 1] + after[new[j]]
    BY <1>2, <1>6
  <2>2. new \in Seq(Proc) /\ Len(new) = m + 1
    BY <1>2
  <2>3. \A i \in 0 .. Len(new) : SumTo(new, after, i) = s[i]
    <3>1. s \in [0 .. Len(new) -> Int]
      <4>1. \A i \in 0 .. m + 1 : i <= k \/ i = k + 1 \/ i - 1 \in 0 .. m
        OBVIOUS
      <4>2. k \in 0 .. m /\ \A i \in 0 .. m + 1 : i <= k => i \in 0 .. m
        OBVIOUS
      <4>3. n \in Int /\ \A i \in 0 .. m : old[i] \in Int
        BY <1>1
      <4>4. \A i \in 0 .. m + 1 : s[i] \in Int
        BY <4>1, <4>2, <4>3
      <4> QED
        BY <2>2, <4>4
    <3> QED
      BY <1>5, <2>1, <2>2, <3>1, SumsAre
  <2> QED
    BY <2>2, <2>3
<1>8. ASSUME NEW i \in 0 .. m + 1
      PROVE  s[i] = IF i <= k THEN SumTo(list, wait, i)
                    ELSE IF i = k + 1 THEN n ELSE SumTo(list, wait, i - 1)
  <2>1. i <= k => i \in 0 .. m
    OBVIOUS
  <2>2. ~ i <= k /\ i # k + 1 => i - 1 \in 0 .. m
    OBVIOUS
  <2> QED
    BY <1>1, <2>1, <2>2
<1>9. \A i \in 0 .. m + 1 :
        SumTo(new, after, i) = IF i <= k THEN SumTo(list, wait, i)
                               ELSE IF i = k + 1 THEN n ELSE SumTo(list, wait, i - 1)
  BY <1>7, <1>8
<1> QED
  BY <1>9

\* A process taken off the list, and its ticks added to those of the process
\* behind it.
LEMMA SumsSnipped ==
  ASSUME NEW list \in Seq(Proc), Distinct(list), NEW wait \in [Proc -> Int],
         NEW t \in Proc, NEW k \in 1 .. Len(list), list[k] = t,
         NEW after \in [Proc -> Int],
         \A x \in Proc :
           after[x] = IF k < Len(list) /\ x = list[k + 1] THEN wait[x] + wait[t]
                      ELSE wait[x]
  PROVE  \A i \in 0 .. Len(list) - 1 :
           SumTo(Snip(list, t), after, i) =
             IF i < k THEN SumTo(list, wait, i) ELSE SumTo(list, wait, i + 1)
<1> PICK m \in Nat : m = Len(list)
  OBVIOUS
<1> PICK new : new = Snip(list, t)
  OBVIOUS
<1> PICK old : old = [i \in 0 .. m |-> SumTo(list, wait, i)]
  OBVIOUS
<1>1. /\ old \in [0 .. m -> Int] /\ old[0] = 0
      /\ \A j \in 1 .. m : old[j] = old[j - 1] + wait[list[j]]
      /\ \A j \in 0 .. m : old[j] \in Int /\ old[j] = SumTo(list, wait, j)
  <2>1. /\ SumTo(list, wait, 0) = 0
        /\ \A j \in 1 .. m :
             SumTo(list, wait, j) = SumTo(list, wait, j - 1) + wait[list[j]]
        /\ \A j \in 0 .. m : SumTo(list, wait, j) \in Int
    BY SumSteps
  <2>2. /\ \A j \in 1 .. m : j \in 0 .. m /\ j - 1 \in 0 .. m
        /\ 0 \in 0 .. m
    OBVIOUS
  <2> QED
    BY <2>1, <2>2
<1>2. /\ new \in Seq(Proc) /\ Len(new) = m - 1
      /\ \A j \in 1 .. m - 1 : new[j] = IF j < k THEN list[j] ELSE list[j + 1]
  BY SnipAt
<1>3. \A j \in 1 .. m : list[j] \in Proc /\ wait[list[j]] \in Int
  OBVIOUS
<1>4. \A j \in 1 .. m : after[list[j]] =
         IF j = k + 1 THEN wait[list[j]] + wait[t] ELSE wait[list[j]]
  <2> TAKE j \in 1 .. m
  <2>1. list[j] \in Proc
    BY <1>3
  <2>2. CASE j = k + 1
    BY <2>1, <2>2
  <2>3. CASE j # k + 1
    <3>1. ~ (k < Len(list) /\ list[j] = list[k + 1])
      BY <2>3 DEF Distinct
    <3> QED
      BY <2>1, <2>3, <3>1
  <2> QED
    BY <2>2, <2>3
<1> PICK s : s = [i \in 0 .. m - 1 |-> IF i < k THEN old[i] ELSE old[i + 1]]
  OBVIOUS
<1>5. s[0] = 0
  BY <1>1
<1>6. ASSUME NEW j \in 1 .. m - 1 PROVE s[j] = s[j - 1] + after[new[j]]
  <2>1. CASE j < k
    <3>1. /\ j \in 1 .. m /\ j - 1 \in 0 .. m - 1 /\ j - 1 < k /\ j \in 0 .. m - 1
          /\ j # k + 1
      BY <2>1
    <3>2. new[j] = list[j] /\ after[list[j]] = wait[list[j]]
      BY <1>2, <1>4, <2>1, <3>1
    <3>3. s[j] = old[j] /\ s[j - 1] = old[j - 1]
      BY <2>1, <3>1
    <3>4. old[j] = old[j - 1] + wait[list[j]]
      BY <1>1, <3>1
    <3> QED
      BY <3>2, <3>3, <3>4
  <2>2. CASE j >= k
    <3> PICK i \in Int : i = j + 1
      OBVIOUS
    <3>1. i \in 1 .. m /\ j \in 1 .. m /\ j \in 0 .. m - 1 /\ j - 1 \in 0 .. m - 1 /\ ~ j < k
          /\ i - 1 = j
      BY <2>2
    <3>2. new[j] = list[i] /\ s[j] = old[i]
      BY <1>2, <3>1
    <3>3. /\ old[i] = old[j] + wait[list[i]] /\ wait[list[i]] \in Int
          /\ old[j] = old[j - 1] + wait[list[j]] /\ wait[list[j]] \in Int
          /\ old[j] \in Int /\ old[j - 1] \in Int
      <4>1. j - 1 \in 0 .. m /\ j \in 0 .. m
        BY <3>1
      <4> QED
        BY <1>1, <1>3, <3>1, <4>1
    <3>4. CASE j = k
      <4>1. s[j - 1] = old[j - 1] /\ after[list[i]] = wait[list[i]] + wait[list[j]]
        BY <1>4, <3>1, <3>4
      <4> QED
        <5> PICK a \in Int, b \in Int, c \in Int :
              a = wait[list[i]] /\ b = wait[list[j]] /\ c = old[j - 1]
          BY <3>3
        <5>1. s[j] = (c + b) + a
          BY <3>2, <3>3
        <5>2. s[j - 1] + after[new[j]] = c + (a + b)
          BY <3>2, <4>1
        <5> QED
          BY <5>1, <5>2
    <3>5. CASE j # k
      <4>1. s[j - 1] = old[j] /\ after[list[i]] = wait[list[i]]
        BY <1>4, <2>2, <3>1, <3>5
      <4> QED
        BY <3>2, <3>3, <4>1
    <3> QED
      BY <3>4, <3>5
  <2> QED
    BY <2>1, <2>2
<1>7. \A i \in 0 .. m - 1 : SumTo(new, after, i) = s[i]
  <2>1. \A j \in 1 .. Len(new) : s[j] = s[j - 1] + after[new[j]]
    BY <1>2, <1>6
  <2>2. new \in Seq(Proc) /\ Len(new) = m - 1
    BY <1>2
  <2>3. \A i \in 0 .. Len(new) : SumTo(new, after, i) = s[i]
    <3>1. s \in [0 .. Len(new) -> Int]
      <4>1. \A i \in 0 .. m - 1 : i \in 0 .. m /\ i + 1 \in 0 .. m
        OBVIOUS
      <4>2. \A i \in 0 .. m - 1 : s[i] \in Int
        BY <1>1, <4>1
      <4> QED
        BY <2>2, <4>2
    <3> QED
      BY <1>5, <2>1, <2>2, <3>1, SumsAre
  <2> QED
    BY <2>2, <2>3
<1>8. ASSUME NEW i \in 0 .. m - 1
      PROVE  s[i] = IF i < k THEN SumTo(list, wait, i) ELSE SumTo(list, wait, i + 1)
  <2>1. i \in 0 .. m /\ i + 1 \in 0 .. m
    OBVIOUS
  <2> QED
    BY <1>1, <2>1
<1> QED
  BY <1>7, <1>8

\* A tick: one from the head, and those whose ticks are over taken off.
LEMMA SumsTicked ==
  ASSUME NEW list \in Seq(Proc), Distinct(list), list # <<>>, NEW wait \in [Proc -> Int],
         NEW k \in 0 .. Len(list),
         k > 0 => wait[list[1]] = 1 /\ \A j \in 2 .. k : wait[list[j]] = 0,
         NEW after \in [Proc -> Int],
         \A x \in Proc : after[x] = IF x = list[1] THEN wait[x] - 1 ELSE wait[x]
  PROVE  /\ \A i \in 1 .. Len(list) - k :
              SumTo(SubSeq(list, k + 1, Len(list)), after, i) = SumTo(list, wait, k + i) - 1
         /\ \A i \in 1 .. k : SumTo(list, wait, i) = 1
<1> PICK m \in Nat : m = Len(list)
  OBVIOUS
<1> PICK new : new = SubSeq(list, k + 1, m)
  OBVIOUS
<1> PICK old : old = [i \in 0 .. m |-> SumTo(list, wait, i)]
  OBVIOUS
<1>1. /\ old \in [0 .. m -> Int] /\ old[0] = 0
      /\ \A j \in 1 .. m : old[j] = old[j - 1] + wait[list[j]]
      /\ \A j \in 0 .. m : old[j] \in Int /\ old[j] = SumTo(list, wait, j)
  <2>1. /\ SumTo(list, wait, 0) = 0
        /\ \A j \in 1 .. m :
             SumTo(list, wait, j) = SumTo(list, wait, j - 1) + wait[list[j]]
        /\ \A j \in 0 .. m : SumTo(list, wait, j) \in Int
    BY SumSteps
  <2>2. /\ \A j \in 1 .. m : j \in 0 .. m /\ j - 1 \in 0 .. m
        /\ 0 \in 0 .. m
    OBVIOUS
  <2> QED
    BY <2>1, <2>2
<1>2. /\ new \in Seq(Proc) /\ Len(new) = m - k
      /\ \A i \in 1 .. m - k : new[i] = list[k + i]
  BY BackMembers
<1>3. \A j \in 1 .. m : /\ list[j] \in Proc /\ wait[list[j]] \in Int
                        /\ after[list[j]] = IF j = 1 THEN wait[list[j]] - 1 ELSE wait[list[j]]
  <2> TAKE j \in 1 .. m
  <2>1. 1 \in 1 .. m /\ (list[j] = list[1] => j = 1)
    BY DEF Distinct
  <2> QED
    BY <2>1
<1>4. \A i \in 1 .. k : old[i] = 1
  <2> DEFINE T == {i \in Nat : i + 1 <= k => old[i + 1] = 1}
  <2>1. 0 \in T
    <3> SUFFICES ASSUME 1 <= k PROVE old[1] = 1
      OBVIOUS
    <3>1. 1 \in 1 .. m /\ 1 - 1 = 0
      OBVIOUS
    <3>2. old[1] = old[0] + wait[list[1]]
      BY <1>1, <3>1
    <3>3. wait[list[1]] = 1 /\ old[0] = 0
      BY <1>1
    <3> QED
      BY <3>2, <3>3
  <2>2. ASSUME NEW i \in Nat, i \in T PROVE i + 1 \in T
    <3> SUFFICES ASSUME (i + 1) + 1 <= k PROVE old[(i + 1) + 1] = 1
      OBVIOUS
    <3> PICK j \in Int : j = (i + 1) + 1
      OBVIOUS
    <3>1. j \in 2 .. k /\ j \in 1 .. m /\ j - 1 = i + 1 /\ i + 1 <= k
      OBVIOUS
    <3>2. old[j] = old[j - 1] + wait[list[j]]
      BY <1>1, <3>1
    <3>3. wait[list[j]] = 0
      BY <3>1
    <3>4. old[j - 1] = 1
      BY <2>2, <3>1
    <3> QED
      BY <3>2, <3>3, <3>4
  <2>3. Nat \subseteq T
    <3> HIDE DEF T
    <3> QED
      BY <2>1, <2>2, NumbersReached
  <2>4. ASSUME NEW i \in 1 .. k PROVE old[i] = 1
    <3>1. i - 1 \in Nat /\ (i - 1) + 1 = i
      OBVIOUS
    <3>2. i - 1 \in T
      BY <2>3, <3>1
    <3> QED
      BY <3>1, <3>2
  <2> QED
    BY <2>4
<1> PICK s : s = [i \in 0 .. m - k |-> IF i = 0 THEN 0 ELSE old[k + i] - 1]
  OBVIOUS
<1>5. s[0] = 0
  OBVIOUS
<1>6. ASSUME NEW i \in 1 .. m - k PROVE s[i] = s[i - 1] + after[new[i]]
  <2> PICK j \in Int : j = k + i
    OBVIOUS
  <2>1. j \in 1 .. m /\ i \in 0 .. m - k /\ i - 1 \in 0 .. m - k /\ j - 1 \in 0 .. m
    OBVIOUS
  <2>2. /\ new[i] = list[j] /\ s[i] = old[j] - 1
        /\ old[j] = old[j - 1] + wait[list[j]] /\ wait[list[j]] \in Int /\ old[j - 1] \in Int
        /\ after[list[j]] = IF j = 1 THEN wait[list[j]] - 1 ELSE wait[list[j]]
    <3>1. new[i] = list[j] /\ s[i] = old[j] - 1
      <4>1. new[i] = list[k + i]
        BY <1>2
      <4>2. s[i] = IF i = 0 THEN 0 ELSE old[k + i] - 1
        BY <2>1
      <4> QED
        BY <4>1, <4>2
    <3>2. old[j] = old[j - 1] + wait[list[j]] /\ old[j - 1] \in Int
      BY <1>1, <2>1
    <3> QED
      BY <1>3, <2>1, <3>1, <3>2
  <2>3. CASE i = 1
    <3>1. s[i - 1] = 0
      BY <2>3
    <3>2. CASE k = 0
      <4>1. j = 1 /\ old[j - 1] = 0
        BY <1>1, <2>3, <3>2
      <4> QED
        BY <2>2, <3>1, <4>1
    <3>3. CASE k # 0
      <4>1. j # 1 /\ j - 1 \in 1 .. k
        BY <2>3, <3>3
      <4>2. old[j - 1] = 1
        BY <1>4, <4>1
      <4> QED
        BY <2>2, <3>1, <4>1, <4>2
    <3> QED
      BY <3>2, <3>3
  <2>4. CASE i # 1
    <3>1. s[i - 1] = old[j - 1] - 1 /\ j # 1
      <4>1. i - 1 # 0 /\ k + (i - 1) = j - 1 /\ j # 1
        BY <2>1, <2>4
      <4> QED
        BY <2>1, <4>1
    <3> QED
      BY <2>2, <3>1
  <2> QED
    BY <2>3, <2>4
<1>7. \A i \in 0 .. m - k : SumTo(new, after, i) = s[i]
  <2>1. \A j \in 1 .. Len(new) : s[j] = s[j - 1] + after[new[j]]
    BY <1>2, <1>6
  <2>2. new \in Seq(Proc) /\ Len(new) = m - k
    BY <1>2
  <2>3. \A i \in 0 .. Len(new) : SumTo(new, after, i) = s[i]
    <3>1. s \in [0 .. Len(new) -> Int]
      <4>1. \A i \in 0 .. m - k : k + i \in 0 .. m
        OBVIOUS
      <4>2. \A i \in 0 .. m - k : s[i] \in Int
        BY <1>1, <4>1
      <4> QED
        BY <2>2, <4>2
    <3> QED
      <4>1. /\ new \in Seq(Proc) /\ after \in [Proc -> Int]
            /\ s \in [0 .. Len(new) -> Int] /\ s[0] = 0
            /\ \A j \in 1 .. Len(new) : s[j] = s[j - 1] + after[new[j]]
        BY <1>5, <2>1, <2>2, <3>1
      <4> QED
        BY <4>1, SumsAre
  <2> QED
    BY <2>2, <2>3
<1>8. ASSUME NEW i \in 1 .. m - k PROVE SumTo(new, after, i) = SumTo(list, wait, k + i) - 1
  <2>1. i \in 0 .. m - k /\ i # 0 /\ k + i \in 0 .. m
    OBVIOUS
  <2> QED
    BY <1>1, <1>7, <2>1
<1>9. \A i \in 1 .. k : SumTo(list, wait, i) = 1
  <2>1. \A i \in 1 .. k : i \in 0 .. m
    OBVIOUS
  <2> QED
    BY <1>1, <1>4, <2>1
<1> QED
  BY <1>8, <1>9
----------------------------------------------------------------------------
(* The inductive invariant.                                                 *)

\* TypeOK but for p_wait and the bound on flg_ignore.
Typed ==
  /\ rlr \in Seq(Proc) /\ drl \in Seq(Proc) /\ dlr \in Seq(Proc)
  /\ slist \in [SList -> Seq(Proc)] /\ tick \in BOOLEAN
  /\ flg_pd \in [Flag -> Proc \cup {FlagOff, FlagOn}]
  /\ flg_ignore \in [Flag -> Nat]
  /\ pending \in [Flag -> 0 .. MaxPending]
  /\ dev \in [Proc -> Flag \cup {NoFlag}]
  /\ p_stat \in [Proc -> Stat] /\ u_stat_sav \in [Proc -> Stat]
  /\ u_dparam \in [Proc -> SList \cup Flag \cup (0 .. MaxWait)]
  /\ p_prior \in [Proc -> Nat]
  /\ resource \subseteq Proc /\ u_in_int \subseteq Proc
  /\ pc \in [Proc -> PC] /\ cpu \in Cpu
  /\ target \in [Proc -> Proc \cup {NoProc}]
  /\ snip \in [pd : Proc \cup {NoProc}, stat : Stat, prev : Proc \cup {NoProc},
                list : {"none", "rlr", "drl", "dlr", "slist", "flag"},
                ticks : {snip.ticks}]

Gone == {"dead", "limbo"}

OnList(x) ==
  \/ IsOn(rlr, x) \/ IsOn(drl, x) \/ IsOn(dlr, x)
  \/ \E l \in SList : IsOn(slist[l], x)
  \/ \E f \in Flag : flg_pd[f] = x

\* A process that is neither dead nor being moved by an abort is on a list, and
\* on no other.
PlaceOK(x) ==
  /\ IsOn(rlr, x) =>
       /\ ~ IsOn(drl, x) /\ ~ IsOn(dlr, x)
       /\ p_stat[x] = "run" \/ (x = Running /\ cpu \in {"process", "dcont"})
  /\ IsOn(drl, x) => ~ IsOn(dlr, x)
  /\ IsOn(dlr, x) => p_stat[x] = "delay"
  /\ \A l \in SList : IsOn(slist[l], x) =>
       ~ IsOn(rlr, x) /\ ~ IsOn(drl, x) /\ p_stat[x] = "wait" /\ u_dparam[x] = l
  /\ \A f \in Flag : flg_pd[f] = x =>
       ~ IsOn(rlr, x) /\ ~ IsOn(drl, x) /\ p_stat[x] = "flagwait" /\ u_dparam[x] = f
  /\ OnList(x) <=> pc[x] \notin Gone

PlacesInv ==
  /\ Distinct(rlr) /\ Distinct(drl) /\ Distinct(dlr)
  /\ \A l \in SList : Distinct(slist[l])
  /\ \A x \in Proc : PlaceOK(x)

RunInv == cpu \in {"process", "dcont", "switch"} => rlr # <<>>

\* What p_stat is while a process is in context, and what it is left at for the
\* dispatcher.
StatOf(l) == IF l = "dsptch" THEN {"delay", "term"} ELSE {"run"}

StatInv ==
  /\ cpu = "process" => p_stat[Running] \in StatOf(pc[Running]) /\ Running \notin u_in_int
  /\ \A x \in u_in_int : pc[x] # "limbo" => u_stat_sav[x] \in StatOf(pc[x])
  /\ \A x \in Proc : pc[x] = "dsptch" => x \in u_in_int \/ (cpu = "process" /\ x = Running)
  /\ cpu = "dcont" => p_stat[Running] = "run" \/ pc[Running] = "user"

\* u_dparam is what p_stat needs.
ParamOK(s, d) ==
  /\ s = "flagwait" => d \in Flag
  /\ s \in {"wait", "sleep"} => d \in SList
  /\ s = "delay" => d \in 0 .. MaxWait

ParamInv ==
  /\ \A x \in Proc : ParamOK(p_stat[x], u_dparam[x])
  /\ \A x \in u_in_int : ParamOK(u_stat_sav[x], u_dparam[x])

\* What abort knows of its target: its place is not known to be the one found.
SnipInv ==
  /\ \A x \in Proc : pc[x] \in {"abtfind", "abtsnip"} => cpu = "process" /\ x = Running
  /\ \A x \in Proc : pc[x] = "abtfind" =>
       /\ snip.pd \in Proc \ {x} /\ ParamOK(snip.stat, u_dparam[snip.pd])
       /\ pc[snip.pd] \notin {"flagwait", "dead"}
  /\ \A x \in Proc : pc[x] = "abtsnip" =>
       /\ snip.pd \in Proc \ {x} /\ pc[snip.pd] \notin {"flagwait", "dead", "limbo"}

\* The target of an abort is in nobody else's hands.
TargetInv ==
  /\ \A x \in Proc : pc[x] = "abtput" => target[x] \in Proc /\ pc[target[x]] = "limbo"
  /\ \A x, y \in Proc :
       pc[x] = "abtput" /\ pc[y] = "abtput" /\ target[x] = target[y] => x = y

\* The process that waits for f is still with the dispatcher.
AtDcont(x, f) == cpu = "dcont" /\ x = Running /\ p_stat[x] = "flagwait" /\ u_dparam[x] = f

\* A device is used by the process that waits, or is about to wait, for its flag.
FlagInv ==
  /\ \A x, y \in Proc : dev[x] = dev[y] /\ dev[x] # NoFlag => x = y
  /\ \A x \in Proc, f \in Flag :
       /\ dev[x] = f => pc[x] = "flagwait" \/ AtDcont(x, f) \/ flg_pd[f] = x
       /\ flg_pd[f] = x \/ AtDcont(x, f) => dev[x] = f /\ pc[x] # "flagwait"
  /\ \A x \in Proc : pc[x] = "flagwait" => dev[x] \in Flag

FlagsCount ==
  \A f \in Flag :
    pending[f] + (IF flg_pd[f] = FlagOn THEN 1 ELSE 0)
      = flg_ignore[f] + (IF \E x \in Proc : dev[x] = f THEN 1 ELSE 0)

PriorInv == \A x \in Proc : MayWorsen(x) \/ p_prior[x] \in {Prior[x], AbtPrior}

IInv ==
  /\ Typed /\ PlacesInv /\ RunInv /\ StatInv /\ ParamInv /\ SnipInv /\ TargetInv
  /\ FlagInv /\ FlagsCount /\ PriorInv /\ RlrSorted

----------------------------------------------------------------------------
(* Processes an action leaves where they are.                               *)

\* Nothing that says where x is changes.
Stays(x) ==
  /\ IsOn(rlr', x) <=> IsOn(rlr, x)
  /\ IsOn(drl', x) <=> IsOn(drl, x)
  /\ IsOn(dlr', x) <=> IsOn(dlr, x)
  /\ \A l \in SList : IsOn(slist'[l], x) <=> IsOn(slist[l], x)
  /\ \A f \in Flag : flg_pd'[f] = x <=> flg_pd[f] = x
  /\ pc'[x] \in Gone <=> pc[x] \in Gone
  /\ IsOn(rlr, x) => p_stat'[x] = "run" \/ (x = Running' /\ cpu' \in {"process", "dcont"})
  /\ ~ IsOn(rlr, x) => p_stat'[x] = p_stat[x] /\ u_dparam'[x] = u_dparam[x]

\* Such a process stays where it should be.
LEMMA StaysOK ==
  ASSUME NEW x, PlaceOK(x), Stays(x)
  PROVE  PlaceOK(x)'
<1>1. OnList(x)' <=> OnList(x)
  BY DEF Stays, OnList
<1>2. (OnList(x) <=> pc[x] \notin Gone)'
  BY <1>1 DEF Stays, PlaceOK
<1>3. IsOn(rlr', x) =>
        /\ ~ IsOn(drl', x) /\ ~ IsOn(dlr', x)
        /\ p_stat'[x] = "run" \/ (x = Running' /\ cpu' \in {"process", "dcont"})
  BY DEF Stays, PlaceOK
<1>4. /\ IsOn(drl', x) => ~ IsOn(dlr', x)
      /\ IsOn(dlr', x) => p_stat'[x] = "delay"
  BY DEF Stays, PlaceOK
<1>5. ASSUME NEW l \in SList, IsOn(slist'[l], x)
      PROVE  ~ IsOn(rlr', x) /\ ~ IsOn(drl', x) /\ p_stat'[x] = "wait" /\ u_dparam'[x] = l
  BY <1>5 DEF Stays, PlaceOK
<1>6. ASSUME NEW f \in Flag, flg_pd'[f] = x
      PROVE  ~ IsOn(rlr', x) /\ ~ IsOn(drl', x) /\ p_stat'[x] = "flagwait" /\ u_dparam'[x] = f
  BY <1>6 DEF Stays, PlaceOK
<1> QED
  BY <1>2, <1>3, <1>4, <1>5, <1>6 DEF PlaceOK

\* The lists are as they were.
LEMMA AllStay ==
  ASSUME PlacesInv, UNCHANGED listVars, \A x \in Proc : Stays(x)
  PROVE  PlacesInv'
<1>1. \A x \in Proc : PlaceOK(x)'
  BY StaysOK DEF PlacesInv
<1> QED
  BY <1>1 DEF PlacesInv, listVars

\* The running process.
LEMMA RunningPlace ==
  ASSUME Typed, PlacesInv, rlr # <<>>
  PROVE  /\ Running \in Proc /\ IsOn(rlr, Running) /\ Running = rlr[1] /\ 1 \in 1 .. Len(rlr)
         /\ ~ IsOn(drl, Running) /\ ~ IsOn(dlr, Running)
         /\ \A l \in SList : ~ IsOn(slist[l], Running)
         /\ \A f \in Flag : flg_pd[f] # Running
         /\ pc[Running] \notin Gone
<1>1. rlr \in Seq(Proc) /\ rlr # <<>>
  BY DEF Typed
<1>2. Running = rlr[1] /\ rlr[1] \in Proc /\ 1 \in 1 .. Len(rlr)
  BY <1>1 DEF Running
<1>3. IsOn(rlr, Running)
  BY <1>2 DEF IsOn
<1>4. PlaceOK(Running)
  BY <1>2 DEF PlacesInv
<1> QED
  BY <1>2, <1>3, <1>4 DEF PlaceOK, OnList

\* A process that runs: where it is and what is known of it.
LEMMA HerePlace ==
  ASSUME IInv, NEW p \in Proc, NEW l, At(p, l)
  PROVE  /\ cpu = "process" /\ p = Running /\ pc[p] = l /\ rlr # <<>>
         /\ p = rlr[1] /\ 1 \in 1 .. Len(rlr)
         /\ IsOn(rlr, p) /\ ~ IsOn(drl, p) /\ ~ IsOn(dlr, p)
         /\ \A k \in SList : ~ IsOn(slist[k], p)
         /\ \A f \in Flag : flg_pd[f] # p
         /\ p_stat[p] \in StatOf(l) /\ p \notin u_in_int
         /\ \A x \in Proc : x # p /\ IsOn(rlr, x) => p_stat[x] = "run"
<1>1. cpu = "process" /\ p = Running /\ pc[p] = l
  BY DEF At
<1>2. rlr # <<>>
  BY <1>1 DEF IInv, RunInv
<1>3. p_stat[p] \in StatOf(l) /\ p \notin u_in_int
  BY <1>1 DEF IInv, StatInv
<1>4. ASSUME NEW x \in Proc, x # p, IsOn(rlr, x) PROVE p_stat[x] = "run"
  BY <1>1, <1>4 DEF IInv, PlacesInv, PlaceOK
<1> QED
  BY <1>1, <1>2, <1>3, <1>4, RunningPlace DEF IInv
----------------------------------------------------------------------------
(* Calls that change the running process only.                              *)

\* The rest of the invariant, when nobody is moved.
LEMMA OwnStep ==
  ASSUME IInv, NEW p \in Proc, At(p, pc[p]), UNCHANGED <<listVars, intVars, target>>,
         \A f \in Flag, x \in Proc : flg_pd'[f] = x <=> flg_pd[f] = x,
         \A x \in Proc : x # p => /\ pc'[x] = pc[x] /\ p_stat'[x] = p_stat[x]
                                  /\ u_dparam'[x] = u_dparam[x] /\ p_prior'[x] = p_prior[x],
         pc[p] # "abtput", pc'[p] \notin Gone \cup {"abtput"},
         cpu' \in {"process", "dcont"},
         cpu' = "process" => p_stat'[p] \in StatOf(pc'[p]),
         cpu' = "dcont" => pc'[p] = "user",
         ParamOK(p_stat'[p], u_dparam'[p]),
         MayWorsen(p) \/ (p_prior'[p] <= p_prior[p] /\ p_prior'[p] \in {Prior[p], AbtPrior})
  PROVE  /\ PlacesInv' /\ RunInv' /\ StatInv' /\ ParamInv' /\ TargetInv' /\ PriorInv'
         /\ RlrSorted'
<1>1. /\ cpu = "process" /\ p = Running /\ rlr # <<>>
      /\ p = rlr[1] /\ 1 \in 1 .. Len(rlr)
      /\ IsOn(rlr, p) /\ p \notin u_in_int
      /\ \A f \in Flag : flg_pd[f] # p
      /\ \A x \in Proc : x # p /\ IsOn(rlr, x) => p_stat[x] = "run"
  BY HerePlace
<1>2. /\ rlr' = rlr /\ drl' = drl /\ dlr' = dlr /\ slist' = slist
      /\ u_in_int' = u_in_int /\ u_stat_sav' = u_stat_sav /\ target' = target
      /\ Running' = Running
  BY DEF listVars, intVars, Running
<1>3. pc[p] \notin Gone
  BY <1>1, RunningPlace DEF IInv
<1>4. PlacesInv'
  <2>1. ASSUME NEW x \in Proc PROVE Stays(x)
    <3>1. CASE x = p
      BY <1>1, <1>2, <1>3, <3>1 DEF Stays
    <3>2. CASE x # p
      BY <1>1, <1>2, <3>2 DEF Stays
    <3> QED
      BY <3>1, <3>2
  <2> QED
    BY <2>1, AllStay DEF IInv
<1>5. RunInv'
  BY <1>1, <1>2 DEF RunInv
<1>6. StatInv'
  <2>1. cpu' = "process" => p_stat'[p] \in StatOf(pc'[p]) /\ p \notin u_in_int'
    BY <1>1, <1>2
  <2>2. ASSUME NEW x \in u_in_int', pc'[x] # "limbo" PROVE u_stat_sav'[x] \in StatOf(pc'[x])
    <3>1. x # p /\ x \in Proc /\ x \in u_in_int
      BY <1>1, <1>2, <2>2 DEF IInv, Typed
    <3>2. pc'[x] = pc[x]
      BY <3>1
    <3> QED
      BY <1>2, <2>2, <3>1, <3>2 DEF IInv, StatInv
  <2>3. ASSUME NEW x \in Proc, pc'[x] = "dsptch"
        PROVE  x \in u_in_int' \/ (cpu' = "process" /\ x = p)
    <3>1. CASE x = p
      BY <2>3, <3>1
    <3>2. CASE x # p
      BY <1>1, <1>2, <2>3, <3>2 DEF IInv, StatInv
    <3> QED
      BY <3>1, <3>2
  <2> QED
    BY <1>1, <1>2, <2>1, <2>2, <2>3 DEF StatInv
<1>7. ParamInv'
  <2>1. ASSUME NEW x \in Proc PROVE ParamOK(p_stat'[x], u_dparam'[x])
    BY DEF IInv, ParamInv
  <2>2. ASSUME NEW x \in u_in_int' PROVE ParamOK(u_stat_sav'[x], u_dparam'[x])
    <3>1. x # p /\ x \in Proc /\ x \in u_in_int
      BY <1>1, <1>2 DEF IInv, Typed
    <3>2. u_dparam'[x] = u_dparam[x]
      BY <3>1
    <3> QED
      BY <1>2, <3>1, <3>2 DEF IInv, ParamInv
  <2> QED
    BY <2>1, <2>2 DEF ParamInv
<1>8. TargetInv'
  <2>1. ASSUME NEW x \in Proc, pc'[x] = "abtput"
        PROVE  pc[x] = "abtput" /\ target[x] \in Proc /\ pc'[target[x]] = "limbo"
    <3>1. pc[x] = "abtput"
      BY <2>1
    <3>2. target[x] \in Proc /\ pc[target[x]] = "limbo"
      BY <3>1 DEF IInv, TargetInv
    <3> QED
      BY <1>3, <3>1, <3>2 DEF Gone
  <2> QED
    BY <1>2, <2>1 DEF IInv, TargetInv
<1>9. PriorInv'
  BY DEF IInv, PriorInv, MayWorsen
<1>10. RlrSorted'
  <2>1. ASSUME NEW i \in 1 .. Len(rlr), NEW j \in 1 .. Len(rlr), i < j
        PROVE  p_prior'[rlr[i]] <= p_prior'[rlr[j]] \/ (i = 1 /\ MayWorsen(p))
    <3>1. /\ p_prior[rlr[i]] <= p_prior[rlr[j]] \/ (i = 1 /\ MayWorsen(p))
      BY <1>1, <2>1 DEF IInv, RlrSorted
    <3>2. rlr[i] \in Proc /\ rlr[j] \in Proc /\ (rlr[i] = p => i = 1) /\ rlr[j] # p
      <4>1. rlr \in Seq(Proc) /\ Distinct(rlr)
        BY DEF IInv, Typed, PlacesInv
      <4> QED
        BY <1>1, <2>1, <4>1 DEF Distinct
    <3>3. CASE i = 1
      <4>1. /\ p_prior'[rlr[j]] = p_prior[rlr[j]] /\ rlr[i] = p
            /\ p_prior[rlr[j]] \in Nat /\ p_prior[p] \in Nat
        BY <1>1, <3>2, <3>3 DEF IInv, Typed
      <4>2. CASE MayWorsen(p)
        BY <3>3, <4>2
      <4>3. CASE ~ MayWorsen(p)
        <5>1. p_prior'[p] <= p_prior[p] /\ p_prior'[p] \in Nat
          BY <4>3, PriorAssumption DEF AbtPrior
        <5> QED
          BY <3>1, <4>1, <4>3, <5>1
      <4> QED
        BY <4>2, <4>3
    <3>4. CASE i # 1
      BY <3>1, <3>2, <3>4
    <3> QED
      BY <3>3, <3>4
  <2> QED
    BY <1>1, <1>2, <2>1 DEF RlrSorted, MayWorsen
<1> QED
  BY <1>4, <1>5, <1>6, <1>7, <1>8, <1>9, <1>10

\* The flags and what waits for them are as they were.
LEMMA FlagsStay ==
  ASSUME IInv, UNCHANGED flagVars, NEW p \in Proc, At(p, pc[p]), Running' = Running,
         \A x \in Proc : x # p => pc'[x] = pc[x],
         pc'[p] = "flagwait" <=> pc[p] = "flagwait",
         cpu' = "dcont" => p_stat'[p] # "flagwait"
  PROVE  FlagInv' /\ FlagsCount'
<1>1. cpu = "process" /\ p = Running
  BY HerePlace
<1>2. flg_pd' = flg_pd /\ flg_ignore' = flg_ignore /\ pending' = pending /\ dev' = dev
  BY DEF flagVars
<1>3. \A x \in Proc : pc'[x] = "flagwait" <=> pc[x] = "flagwait"
  OBVIOUS
<1>4. \A x \in Proc, f \in Flag : ~ AtDcont(x, f) /\ ~ AtDcont(x, f)'
  BY <1>1 DEF AtDcont
<1>5. FlagInv'
  BY <1>2, <1>3, <1>4 DEF IInv, FlagInv
<1>6. FlagsCount'
  BY <1>2 DEF IInv, FlagsCount
<1> QED
  BY <1>5, <1>6

\* Nobody looks for a target.
LEMMA NoSearch ==
  ASSUME IInv, cpu = "process" => pc[Running] \notin {"abtfind", "abtsnip"}
  PROVE  \A x \in Proc : pc[x] \notin {"abtfind", "abtsnip"}
  BY DEF IInv, SnipInv

\* Nor after a step that does not begin to look.
LEMMA NoSearchAfter ==
  ASSUME IInv, NEW p \in Proc, NEW l, At(p, l), \A x \in Proc : x # p => pc'[x] = pc[x],
         pc'[p] \notin {"abtfind", "abtsnip"}
  PROVE  SnipInv'
<1>1. cpu = "process" /\ p = Running
  BY HerePlace
<1>2. \A x \in Proc : pc'[x] \notin {"abtfind", "abtsnip"}
  BY <1>1 DEF IInv, SnipInv
<1> QED
  BY <1>2 DEF SnipInv

\* delay_entry, to the dispatcher.
LEMMA DelayStep ==
  ASSUME IInv, NEW p \in Proc, Delay(p)
  PROVE  IInv'
<1>1. /\ At(p, "user") /\ pc' = [pc EXCEPT ![p] = "dsptch"]
      /\ p_stat' = [p_stat EXCEPT ![p] = "delay"]
      /\ UNCHANGED <<listVars, tick, flagVars, p_prior, resource, intVars, abortVars, cpu>>
  BY DEF Delay, Goto, timeVars
<1>2. PICK n \in 0 .. MaxWait : u_dparam' = [u_dparam EXCEPT ![p] = n]
  BY DEF Delay
<1>3. pc[p] = "user" /\ At(p, pc[p]) /\ cpu = "process"
  BY <1>1 DEF At
<1>4. \A x \in Proc : /\ pc'[x] = IF x = p THEN "dsptch" ELSE pc[x]
                      /\ p_stat'[x] = IF x = p THEN "delay" ELSE p_stat[x]
                      /\ u_dparam'[x] = IF x = p THEN n ELSE u_dparam[x]
                      /\ p_prior'[x] = p_prior[x]
  BY <1>1, <1>2 DEF IInv, Typed
<1>5. Typed'
  BY <1>1, <1>2 DEF IInv, Typed, listVars, flagVars, intVars, abortVars, PC, Stat
<1>6. /\ PlacesInv' /\ RunInv' /\ StatInv' /\ ParamInv' /\ TargetInv' /\ PriorInv'
      /\ RlrSorted'
  <2>1. p_prior[p] \in Nat /\ (MayWorsen(p) \/ p_prior[p] \in {Prior[p], AbtPrior})
    BY DEF IInv, Typed, PriorInv
  <2> QED
    BY <1>1, <1>3, <1>4, <2>1, OwnStep DEF flagVars, abortVars, Gone, StatOf, ParamOK
<1>7. FlagInv' /\ FlagsCount'
  BY <1>1, <1>3, <1>4, FlagsStay DEF listVars, Running
<1>8. SnipInv'
  BY <1>1, <1>4, NoSearchAfter
<1> QED
  BY <1>5, <1>6, <1>7, <1>8 DEF IInv

\* dsptch, with p_stat as it was set.
LEMMA EnterDsptchStep ==
  ASSUME IInv, NEW p \in Proc, EnterDsptch(p)
  PROVE  IInv'
<1>1. /\ At(p, "dsptch") /\ pc' = [pc EXCEPT ![p] = "user"] /\ cpu' = "dcont"
      /\ UNCHANGED <<listVars, tick, flagVars, p_stat, u_dparam, p_prior, resource, intVars,
                     abortVars>>
  BY DEF EnterDsptch, Goto, timeVars
<1>2. pc[p] = "dsptch" /\ At(p, pc[p]) /\ cpu = "process"
  BY <1>1 DEF At
<1>3. \A x \in Proc : pc'[x] = IF x = p THEN "user" ELSE pc[x]
  BY <1>1 DEF IInv, Typed
<1>4. Typed'
  BY <1>1 DEF IInv, Typed, listVars, flagVars, intVars, abortVars, PC, Cpu
<1>5. p_stat[p] \in {"delay", "term"}
  BY <1>1, HerePlace DEF StatOf
<1>6. /\ PlacesInv' /\ RunInv' /\ StatInv' /\ ParamInv' /\ TargetInv' /\ PriorInv'
      /\ RlrSorted'
  <2>1. /\ p_prior[p] \in Nat /\ (MayWorsen(p) \/ p_prior[p] \in {Prior[p], AbtPrior})
        /\ ParamOK(p_stat[p], u_dparam[p])
    BY DEF IInv, Typed, PriorInv, ParamInv
  <2> QED
    BY <1>1, <1>2, <1>3, <2>1, OwnStep DEF flagVars, abortVars, Gone
<1>7. FlagInv' /\ FlagsCount'
  BY <1>1, <1>2, <1>3, <1>5, FlagsStay DEF listVars, Running
<1>8. SnipInv'
  BY <1>1, <1>3, NoSearchAfter
<1> QED
  BY <1>4, <1>6, <1>7, <1>8 DEF IInv

\* dispatch_entry and set_prior_entry.
LEMMA DispatchOrSetPriorStep ==
  ASSUME IInv, NEW p \in Proc, DispatchOrSetPrior(p)
  PROVE  IInv'
<1>1. /\ At(p, "user") /\ p_stat' = [p_stat EXCEPT ![p] = "run"]
      /\ cpu' \in {"process", "dcont"}
      /\ UNCHANGED <<listVars, tick, flagVars, u_dparam, resource, intVars, pc, abortVars>>
  BY DEF DispatchOrSetPrior, Pdisp, Dsptch, At, timeVars
<1>2. \/ p_prior' = p_prior
      \/ /\ MayWorsen(p)
         /\ \E n \in Nat : p_prior' = [p_prior EXCEPT ![p] = n]
  <2>1. ASSUME NEW c \in Calls[p], c[1] = "setprior" PROVE c[2] \in Nat
    <3>1. c \in Call
      BY CallsAssumption
    <3> QED
      BY <2>1, <3>1 DEF Call
  <2> QED
    BY <2>1 DEF DispatchOrSetPrior, MayWorsen
<1>3. pc[p] = "user" /\ At(p, pc[p]) /\ cpu = "process"
  BY <1>1 DEF At
<1>4. \A x \in Proc : /\ pc'[x] = pc[x] /\ u_dparam'[x] = u_dparam[x]
                      /\ p_stat'[x] = IF x = p THEN "run" ELSE p_stat[x]
                      /\ x # p => p_prior'[x] = p_prior[x]
  BY <1>1, <1>2 DEF IInv, Typed
<1>5. Typed'
  <2>1. p_prior' \in [Proc -> Nat]
    BY <1>2 DEF IInv, Typed
  <2> QED
    BY <1>1, <2>1 DEF IInv, Typed, listVars, flagVars, intVars, abortVars, Stat, Cpu
<1>6. /\ PlacesInv' /\ RunInv' /\ StatInv' /\ ParamInv' /\ TargetInv' /\ PriorInv'
      /\ RlrSorted'
  <2>1. MayWorsen(p) \/ (p_prior'[p] <= p_prior[p] /\ p_prior'[p] \in {Prior[p], AbtPrior})
    BY <1>2 DEF IInv, Typed, PriorInv
  <2> QED
    BY <1>1, <1>3, <1>4, <2>1, OwnStep DEF flagVars, abortVars, Gone, StatOf, ParamOK
<1>7. FlagInv' /\ FlagsCount'
  BY <1>1, <1>3, <1>4, FlagsStay DEF listVars, Running
<1>8. SnipInv'
  BY <1>1, <1>3, <1>4, NoSearchAfter
<1> QED
  BY <1>5, <1>6, <1>7, <1>8 DEF IInv

\* sleep_entry.
LEMMA SleepStep ==
  ASSUME IInv, NEW p \in Proc, Sleep(p)
  PROVE  IInv'
<1>1. /\ At(p, "user") /\ p_stat' = [p_stat EXCEPT ![p] = "sleep"] /\ cpu' = "dcont"
      /\ UNCHANGED <<listVars, tick, flagVars, p_prior, resource, intVars, pc, abortVars>>
  BY DEF Sleep, timeVars
<1>2. PICK l \in SList : u_dparam' = [u_dparam EXCEPT ![p] = l]
  BY DEF Sleep
<1>3. pc[p] = "user" /\ At(p, pc[p]) /\ cpu = "process"
  BY <1>1 DEF At
<1>4. \A x \in Proc : /\ pc'[x] = pc[x]
                      /\ p_stat'[x] = IF x = p THEN "sleep" ELSE p_stat[x]
                      /\ u_dparam'[x] = IF x = p THEN l ELSE u_dparam[x]
                      /\ p_prior'[x] = p_prior[x]
  BY <1>1, <1>2 DEF IInv, Typed
<1>5. Typed'
  BY <1>1, <1>2 DEF IInv, Typed, listVars, flagVars, intVars, abortVars, Stat, Cpu
<1>6. /\ PlacesInv' /\ RunInv' /\ StatInv' /\ ParamInv' /\ TargetInv' /\ PriorInv'
      /\ RlrSorted'
  <2>1. p_prior[p] \in Nat /\ (MayWorsen(p) \/ p_prior[p] \in {Prior[p], AbtPrior})
    BY DEF IInv, Typed, PriorInv
  <2> QED
    BY <1>1, <1>3, <1>4, <2>1, OwnStep DEF flagVars, abortVars, Gone, ParamOK
<1>7. FlagInv' /\ FlagsCount'
  BY <1>1, <1>3, <1>4, FlagsStay DEF listVars, Running
<1>8. SnipInv'
  BY <1>1, <1>3, <1>4, NoSearchAfter
<1> QED
  BY <1>5, <1>6, <1>7, <1>8 DEF IInv

\* The end of terminate_entry.
LEMMA TerminateStep ==
  ASSUME IInv, NEW p \in Proc, Terminate(p)
  PROVE  IInv'
<1>1. /\ At(p, pc[p]) /\ pc[p] \in {"user", "terminate"}
      /\ p_prior' = [p_prior EXCEPT ![p] = AbtPrior]
      /\ p_stat' = [p_stat EXCEPT ![p] = "term"] /\ pc' = [pc EXCEPT ![p] = "dsptch"]
      /\ UNCHANGED <<listVars, tick, flagVars, u_dparam, resource, intVars, abortVars, cpu>>
  BY DEF Terminate, Goto, timeVars, At
<1>2. cpu = "process"
  BY <1>1 DEF At
<1>3. \A x \in Proc : /\ pc'[x] = IF x = p THEN "dsptch" ELSE pc[x]
                      /\ p_stat'[x] = IF x = p THEN "term" ELSE p_stat[x]
                      /\ u_dparam'[x] = u_dparam[x]
                      /\ p_prior'[x] = IF x = p THEN AbtPrior ELSE p_prior[x]
  BY <1>1 DEF IInv, Typed
<1>4. Typed'
  <2>1. AbtPrior \in Nat
    BY DEF AbtPrior
  <2> QED
    BY <1>1, <2>1 DEF IInv, Typed, listVars, flagVars, intVars, abortVars, PC, Stat
<1>5. /\ PlacesInv' /\ RunInv' /\ StatInv' /\ ParamInv' /\ TargetInv' /\ PriorInv'
      /\ RlrSorted'
  <2>1. MayWorsen(p) \/ AbtPrior <= p_prior[p]
    <3> SUFFICES ASSUME ~ MayWorsen(p) PROVE AbtPrior <= p_prior[p]
      OBVIOUS
    <3>1. ~ Prior[p] < AbtPrior /\ Prior[p] \in Nat /\ AbtPrior \in Nat
      BY PriorAssumption DEF MayWorsen, AbtPrior
    <3>2. p_prior[p] \in {Prior[p], AbtPrior}
      BY DEF IInv, PriorInv
    <3> QED
      BY <3>1, <3>2
  <2> QED
    BY <1>1, <1>2, <1>3, <2>1, OwnStep DEF flagVars, abortVars, Gone, StatOf, ParamOK
<1>6. FlagInv' /\ FlagsCount'
  BY <1>1, <1>2, <1>3, FlagsStay DEF listVars, Running
<1>7. SnipInv'
  BY <1>1, <1>3, NoSearchAfter
<1> QED
  BY <1>4, <1>5, <1>6, <1>7 DEF IInv

\* The devices: who uses one is about to wait for it, or waits.
LEMMA StartIOStep ==
  ASSUME IInv, NEW p \in Proc, StartIO(p)
  PROVE  IInv'
<1>1. /\ At(p, "user") /\ pc' = [pc EXCEPT ![p] = "flagwait"]
      /\ UNCHANGED <<listVars, tick, flg_pd, flg_ignore, p_stat, u_dparam, p_prior, resource,
                     intVars, abortVars, cpu>>
  BY DEF StartIO, Goto, timeVars
<1>2. PICK f \in Flag : /\ \A x \in Proc : dev[x] # f
                        /\ pending[f] < MaxPending
                        /\ pending' = [pending EXCEPT ![f] = @ + 1]
                        /\ dev' = [dev EXCEPT ![p] = f]
  BY DEF StartIO
<1>3. pc[p] = "user" /\ At(p, pc[p]) /\ cpu = "process" /\ p = Running
  BY <1>1 DEF At
<1>4. /\ \A x \in Proc : /\ pc'[x] = IF x = p THEN "flagwait" ELSE pc[x]
                         /\ dev'[x] = IF x = p THEN f ELSE dev[x]
      /\ \A g \in Flag : pending'[g] = IF g = f THEN pending[f] + 1 ELSE pending[g]
  BY <1>1, <1>2 DEF IInv, Typed
<1>5. Typed'
  <2>1. pending[f] + 1 \in 0 .. MaxPending
    BY <1>2, BoundAssumption DEF IInv, Typed
  <2>2. pending' \in [Flag -> 0 .. MaxPending]
    BY <1>2, <2>1 DEF IInv, Typed
  <2> QED
    BY <1>1, <1>2, <2>2 DEF IInv, Typed, listVars, intVars, abortVars, PC
<1>6. /\ PlacesInv' /\ RunInv' /\ StatInv' /\ ParamInv' /\ TargetInv' /\ PriorInv'
      /\ RlrSorted'
  <2>1. /\ p_prior[p] \in Nat /\ (MayWorsen(p) \/ p_prior[p] \in {Prior[p], AbtPrior})
        /\ ParamOK(p_stat[p], u_dparam[p]) /\ p_stat[p] = "run"
    BY <1>1, HerePlace DEF IInv, Typed, PriorInv, ParamInv, StatOf
  <2> QED
    BY <1>1, <1>3, <1>4, <2>1, OwnStep DEF abortVars, Gone, StatOf
<1>7. f # NoFlag /\ dev[p] = NoFlag
  <2>1. \A g \in Flag : flg_pd[g] # p
    BY <1>1, HerePlace
  <2>2. \A g \in Flag : dev[p] # g
    BY <1>3, <2>1 DEF IInv, FlagInv, AtDcont
  <2>3. dev[p] \in Flag \cup {NoFlag}
    BY DEF IInv, Typed
  <2> QED
    BY <2>2, <2>3, FlagAssumption
<1>8. FlagInv'
  <2>1. \A x \in Proc, g \in Flag : ~ AtDcont(x, g) /\ ~ AtDcont(x, g)'
    BY <1>1, <1>3 DEF AtDcont
  <2>2. ASSUME NEW x \in Proc, NEW y \in Proc, dev'[x] = dev'[y], dev'[x] # NoFlag
        PROVE  x = y
    BY <1>2, <1>4, <2>2 DEF IInv, FlagInv
  <2>3. ASSUME NEW x \in Proc, NEW g \in Flag
        PROVE  /\ dev'[x] = g => pc'[x] = "flagwait" \/ flg_pd'[g] = x
               /\ flg_pd'[g] = x => dev'[x] = g /\ pc'[x] # "flagwait"
    <3>1. CASE x = p
      <4>1. flg_pd[g] # p
        BY <1>1, HerePlace
      <4> QED
        BY <1>1, <1>4, <3>1, <4>1
    <3>2. CASE x # p
      BY <1>1, <1>4, <2>1, <3>2 DEF IInv, FlagInv
    <3> QED
      BY <3>1, <3>2
  <2>4. \A x \in Proc : pc'[x] = "flagwait" => dev'[x] \in Flag
    BY <1>4 DEF IInv, FlagInv
  <2> QED
    BY <2>1, <2>2, <2>3, <2>4 DEF FlagInv
<1>9. FlagsCount'
  <2>1. ASSUME NEW g \in Flag, g # f
        PROVE  /\ pending'[g] = pending[g]
               /\ (\E x \in Proc : dev'[x] = g) <=> (\E x \in Proc : dev[x] = g)
    BY <1>4, <1>7, <2>1, FlagAssumption
  <2>2. /\ pending'[f] = pending[f] + 1 /\ pending[f] \in Nat /\ flg_ignore[f] \in Nat
        /\ ~ \E x \in Proc : dev[x] = f
        /\ \E x \in Proc : dev'[x] = f
    BY <1>2, <1>4, BoundAssumption DEF IInv, Typed
  <2>3. ASSUME NEW g \in Flag
        PROVE  pending'[g] + (IF flg_pd'[g] = FlagOn THEN 1 ELSE 0)
                 = flg_ignore'[g] + (IF \E x \in Proc : dev'[x] = g THEN 1 ELSE 0)
    <3>1. pending[g] + (IF flg_pd[g] = FlagOn THEN 1 ELSE 0)
            = flg_ignore[g] + (IF \E x \in Proc : dev[x] = g THEN 1 ELSE 0)
      BY DEF IInv, FlagsCount
    <3>2. CASE g = f
      BY <1>1, <2>2, <3>1, <3>2
    <3>3. CASE g # f
      BY <1>1, <2>1, <3>1, <3>3
    <3> QED
      BY <3>2, <3>3
  <2> QED
    BY <2>3 DEF FlagsCount
<1>10. SnipInv'
  BY <1>1, <1>4, NoSearchAfter
<1> QED
  BY <1>5, <1>6, <1>8, <1>9, <1>10 DEF IInv

\* The flag of a device whose only user takes it: the two sides of the count
\* lose one.
LEMMA FlagTaken ==
  ASSUME Typed, FlagsCount, NEW p \in Proc, NEW f \in Flag, dev[p] = f, flg_pd[f] = FlagOn,
         \A x \in Proc : dev[x] = f => x = p,
         dev' = [dev EXCEPT ![p] = NoFlag], flg_pd' = [flg_pd EXCEPT ![f] = FlagOff],
         UNCHANGED <<pending, flg_ignore>>
  PROVE  FlagsCount'
<1>1. /\ \A x \in Proc : dev'[x] = IF x = p THEN NoFlag ELSE dev[x]
      /\ \A g \in Flag : flg_pd'[g] = IF g = f THEN FlagOff ELSE flg_pd[g]
      /\ \A g \in Flag : pending[g] \in Int /\ flg_ignore[g] \in Int
  BY BoundAssumption DEF Typed
<1>2. f # NoFlag /\ FlagOff # FlagOn
  BY FlagAssumption
<1>3. ASSUME NEW g \in Flag
      PROVE  pending'[g] + (IF flg_pd'[g] = FlagOn THEN 1 ELSE 0)
               = flg_ignore'[g] + (IF \E x \in Proc : dev'[x] = g THEN 1 ELSE 0)
  <2>1. pending[g] + (IF flg_pd[g] = FlagOn THEN 1 ELSE 0)
          = flg_ignore[g] + (IF \E x \in Proc : dev[x] = g THEN 1 ELSE 0)
    BY DEF FlagsCount
  <2>2. CASE g = f
    <3>1. (\E x \in Proc : dev[x] = g) /\ ~ \E x \in Proc : dev'[x] = g
      BY <1>1, <1>2, <2>2
    <3>2. flg_pd[g] = FlagOn /\ flg_pd'[g] # FlagOn
      BY <1>1, <1>2, <2>2
    <3>3. pending'[g] = pending[g] /\ flg_ignore'[g] = flg_ignore[g]
      OBVIOUS
    <3>4. pending[g] + 1 = flg_ignore[g] + 1
      BY <2>1, <3>1, <3>2
    <3>5. pending[g] + 0 = flg_ignore[g] + 0
      BY <1>1, <3>4
    <3> QED
      BY <3>1, <3>2, <3>3, <3>5
  <2>3. CASE g # f
    <3>1. (\E x \in Proc : dev[x] = g) <=> \E x \in Proc : dev'[x] = g
      <4>1. g # NoFlag
        BY FlagAssumption
      <4> QED
        BY <1>1, <2>3, <4>1
    <3>2. /\ flg_pd'[g] = flg_pd[g] /\ pending'[g] = pending[g]
          /\ flg_ignore'[g] = flg_ignore[g]
      BY <1>1, <2>3
    <3> QED
      BY <2>1, <3>1, <3>2
  <2> QED
    BY <2>2, <2>3
<1> QED
  BY <1>3 DEF FlagsCount

\* flag_wait_entry.
LEMMA FlagWaitStep ==
  ASSUME IInv, NEW p \in Proc, FlagWait(p)
  PROVE  IInv'
<1> PICK f : f = dev[p]
  OBVIOUS
<1>1. /\ At(p, "flagwait") /\ pc' = [pc EXCEPT ![p] = "user"]
      /\ UNCHANGED <<listVars, tick, flg_ignore, pending, p_prior, resource, intVars,
                     abortVars>>
      /\ \/ /\ flg_pd[f] = FlagOn
            /\ flg_pd' = [flg_pd EXCEPT ![f] = FlagOff]
            /\ dev' = [dev EXCEPT ![p] = NoFlag]
            /\ UNCHANGED <<p_stat, u_dparam, cpu>>
         \/ /\ flg_pd[f] = FlagOff
            /\ p_stat' = [p_stat EXCEPT ![p] = "flagwait"]
            /\ u_dparam' = [u_dparam EXCEPT ![p] = f]
            /\ cpu' = "dcont"
            /\ UNCHANGED <<flg_pd, dev>>
         \/ /\ flg_pd[f] \in Proc
            /\ UNCHANGED <<flg_pd, dev, p_stat, u_dparam, cpu>>
  BY DEF FlagWait, Goto, timeVars
<1>2. pc[p] = "flagwait" /\ At(p, pc[p]) /\ cpu = "process" /\ p = Running
  BY <1>1 DEF At
<1>3. /\ f \in Flag /\ f # NoFlag
      /\ \A x \in Proc : dev[x] = f => x = p
      /\ \A g \in Flag : flg_pd[g] # p
      /\ p_stat[p] = "run"
  <2>1. f \in Flag
    BY <1>2 DEF IInv, FlagInv
  <2>2. f # NoFlag
    BY <2>1, FlagAssumption
  <2>3. \A x \in Proc : dev[x] = f => x = p
    BY <2>2 DEF IInv, FlagInv
  <2> QED
    BY <1>1, <2>1, <2>2, <2>3, HerePlace DEF StatOf
<1>4. flg_pd[f] \notin Proc
  BY <1>3 DEF IInv, FlagInv
<1>5. FlagOff \notin Proc /\ FlagOn \notin Proc /\ FlagOn # FlagOff
  BY FlagAssumption
<1>6. \A x \in Proc : pc'[x] = IF x = p THEN "user" ELSE pc[x]
  BY <1>1 DEF IInv, Typed
<1>7. SnipInv'
  BY <1>1, <1>6, NoSearchAfter
<1>8. p_prior[p] \in Nat /\ (MayWorsen(p) \/ p_prior[p] \in {Prior[p], AbtPrior})
  BY DEF IInv, Typed, PriorInv
<1>9. Running' = Running
  BY <1>1 DEF listVars, Running
<1>10. CASE /\ flg_pd[f] = FlagOn
            /\ flg_pd' = [flg_pd EXCEPT ![f] = FlagOff]
            /\ dev' = [dev EXCEPT ![p] = NoFlag]
            /\ UNCHANGED <<p_stat, u_dparam, cpu>>
  <2>1. /\ \A x \in Proc : dev'[x] = IF x = p THEN NoFlag ELSE dev[x]
        /\ \A g \in Flag : flg_pd'[g] = IF g = f THEN FlagOff ELSE flg_pd[g]
    BY <1>10 DEF IInv, Typed
  <2>2. Typed'
    BY <1>1, <1>10 DEF IInv, Typed, listVars, intVars, abortVars, PC
  <2>3. /\ PlacesInv' /\ RunInv' /\ StatInv' /\ ParamInv' /\ TargetInv' /\ PriorInv'
        /\ RlrSorted'
    <3>1. \A g \in Flag, x \in Proc : flg_pd'[g] = x <=> flg_pd[g] = x
      BY <1>5, <1>10, <2>1
    <3>2. ParamOK(p_stat'[p], u_dparam'[p])
      BY <1>10 DEF IInv, ParamInv
    <3> QED
      BY <1>1, <1>2, <1>3, <1>6, <1>8, <1>10, <3>1, <3>2, OwnStep
         DEF abortVars, Gone, StatOf
  <2>4. FlagInv'
    <3>1. \A x \in Proc, g \in Flag : ~ AtDcont(x, g) /\ ~ AtDcont(x, g)'
      BY <1>2, <1>10 DEF AtDcont
    <3>2. ASSUME NEW x \in Proc, NEW y \in Proc, dev'[x] = dev'[y], dev'[x] # NoFlag
          PROVE  x = y
      BY <2>1, <3>2 DEF IInv, FlagInv
    <3>3. ASSUME NEW x \in Proc, NEW g \in Flag
          PROVE  /\ dev'[x] = g => pc'[x] = "flagwait" \/ flg_pd'[g] = x
                 /\ flg_pd'[g] = x => dev'[x] = g /\ pc'[x] # "flagwait"
      <4>1. g # NoFlag
        BY FlagAssumption
      <4>2. CASE x = p
        BY <1>3, <1>5, <2>1, <4>1, <4>2
      <4>3. CASE x # p
        BY <1>3, <1>5, <1>6, <1>10, <2>1, <3>1, <4>3 DEF IInv, FlagInv
      <4> QED
        BY <4>2, <4>3
    <3>4. \A x \in Proc : pc'[x] = "flagwait" => dev'[x] \in Flag
      BY <1>6, <2>1 DEF IInv, FlagInv
    <3> QED
      BY <3>1, <3>2, <3>3, <3>4 DEF FlagInv
  <2>5. FlagsCount'
    BY <1>1, <1>3, <1>10, FlagTaken DEF IInv
  <2> QED
    BY <1>7, <2>2, <2>3, <2>4, <2>5 DEF IInv
<1>11. CASE /\ flg_pd[f] = FlagOff
            /\ p_stat' = [p_stat EXCEPT ![p] = "flagwait"]
            /\ u_dparam' = [u_dparam EXCEPT ![p] = f]
            /\ cpu' = "dcont"
            /\ UNCHANGED <<flg_pd, dev>>
  <2>1. \A x \in Proc : /\ p_stat'[x] = IF x = p THEN "flagwait" ELSE p_stat[x]
                        /\ u_dparam'[x] = IF x = p THEN f ELSE u_dparam[x]
    BY <1>11 DEF IInv, Typed
  <2>2. Typed'
    BY <1>1, <1>3, <1>11 DEF IInv, Typed, listVars, intVars, abortVars, PC, Stat, Cpu
  <2>3. /\ PlacesInv' /\ RunInv' /\ StatInv' /\ ParamInv' /\ TargetInv' /\ PriorInv'
        /\ RlrSorted'
    <3>1. ParamOK(p_stat'[p], u_dparam'[p])
      BY <1>3, <2>1 DEF ParamOK
    <3> QED
      BY <1>1, <1>2, <1>3, <1>6, <1>8, <1>11, <2>1, <3>1, OwnStep
         DEF abortVars, Gone, StatOf
  <2>4. FlagInv'
    <3>1. \A x \in Proc, g \in Flag : ~ AtDcont(x, g) /\ (AtDcont(x, g)' <=> x = p /\ g = f)
      BY <1>2, <1>9, <1>11, <2>1 DEF AtDcont
    <3>2. ASSUME NEW x \in Proc, NEW g \in Flag
          PROVE  /\ dev'[x] = g => pc'[x] = "flagwait" \/ AtDcont(x, g)' \/ flg_pd'[g] = x
                 /\ flg_pd'[g] = x \/ AtDcont(x, g)' => dev'[x] = g /\ pc'[x] # "flagwait"
      <4>1. CASE x = p
        BY <1>3, <1>6, <1>11, <3>1, <4>1
      <4>2. CASE x # p
        BY <1>6, <1>11, <3>1, <4>2 DEF IInv, FlagInv
      <4> QED
        BY <4>1, <4>2
    <3>3. \A x \in Proc : pc'[x] = "flagwait" => dev'[x] \in Flag
      BY <1>6, <1>11 DEF IInv, FlagInv
    <3> QED
      BY <1>11, <3>2, <3>3 DEF IInv, FlagInv
  <2>5. FlagsCount'
    BY <1>1, <1>11 DEF IInv, FlagsCount
  <2> QED
    BY <1>7, <2>2, <2>3, <2>4, <2>5 DEF IInv
<1> QED
  BY <1>1, <1>4, <1>10, <1>11

----------------------------------------------------------------------------
(* The search of an abort.                                                  *)

\* abort_spec_entry, to the look at the target's status.
LEMMA AbortStep ==
  ASSUME IInv, NEW p \in Proc, Abort(p)
  PROVE  IInv'
<1>1. /\ At(p, "user") /\ pc' = [pc EXCEPT ![p] = "abtfind"]
      /\ UNCHANGED <<listVars, tick, flagVars, p_stat, u_dparam, p_prior, resource, intVars,
                     target, cpu>>
  BY DEF Abort, Goto, timeVars
<1>2. PICK t \in Proc \ {p} : /\ pc[t] \notin {"flagwait", "dead"}
                              /\ snip' = [NoSnip EXCEPT !.pd = t, !.stat = p_stat[t]]
  BY DEF Abort
<1>3. pc[p] = "user" /\ At(p, pc[p]) /\ cpu = "process" /\ p = Running
  BY <1>1 DEF At
<1>4. \A x \in Proc : pc'[x] = IF x = p THEN "abtfind" ELSE pc[x]
  BY <1>1 DEF IInv, Typed
<1>5. snip' = [pd |-> t, stat |-> p_stat[t], prev |-> NoProc, list |-> "none",
               ticks |-> 0]
  BY <1>2 DEF NoSnip
<1>6. Typed'
  <2>1. p_stat[t] \in Stat
    BY DEF IInv, Typed
  <2> QED
    BY <1>1, <1>5, <2>1 DEF IInv, Typed, listVars, flagVars, intVars, PC
<1>7. /\ PlacesInv' /\ RunInv' /\ StatInv' /\ ParamInv' /\ TargetInv' /\ PriorInv'
      /\ RlrSorted'
  <2>1. /\ p_prior[p] \in Nat /\ (MayWorsen(p) \/ p_prior[p] \in {Prior[p], AbtPrior})
        /\ ParamOK(p_stat[p], u_dparam[p]) /\ p_stat[p] = "run"
    BY <1>1, HerePlace DEF IInv, Typed, PriorInv, ParamInv, StatOf
  <2> QED
    BY <1>1, <1>3, <1>4, <2>1, OwnStep DEF flagVars, Gone, StatOf
<1>8. FlagInv' /\ FlagsCount'
  BY <1>1, <1>3, <1>4, FlagsStay DEF listVars, Running
<1>9. SnipInv'
  <2>1. \A x \in Proc : pc[x] \notin {"abtfind", "abtsnip"}
    BY <1>3, NoSearch
  <2>2. \A x \in Proc : pc'[x] \in {"abtfind", "abtsnip"} => x = p
    BY <1>4, <2>1
  <2>3. cpu' = "process" /\ Running' = p
    BY <1>1, <1>3 DEF listVars, Running
  <2>4. /\ snip'.pd = t /\ ParamOK(snip'.stat, u_dparam'[t])
        /\ pc'[t] \notin {"flagwait", "dead"}
    BY <1>1, <1>2, <1>4, <1>5 DEF IInv, ParamInv
  <2> QED
    BY <1>4, <2>2, <2>3, <2>4 DEF SnipInv
<1> QED
  BY <1>6, <1>7, <1>8, <1>9 DEF IInv

\* Where find_pd finds a process, something is before it or it is the first.
LEMMA FoundFits ==
  ASSUME Typed, NEW t \in Proc, NEW list \in Seq(Proc),
         NEW name \in {"rlr", "drl", "dlr", "slist"}, Found(t, list, name) # NoSnip
  PROVE  /\ IsOn(list, t)
         /\ Found(t, list, name) =
              [pd |-> t, stat |-> snip.stat, list |-> name, prev |-> Prev(list, t),
               ticks |-> p_wait[t]]
         /\ Prev(list, t) \in Proc \cup {NoProc}
<1>1. IsOn(list, t)
  BY DEF Found
<1>2. PlaceOf(list, t) \in 1 .. Len(list) /\ list[PlaceOf(list, t)] = t
  BY <1>1 DEF PlaceOf, IsOn
<1>3. Head(list) = list[1]
  BY <1>2
<1>4. Head(list) # t => PlaceOf(list, t) - 1 \in 1 .. Len(list)
  BY <1>2, <1>3
<1>5. Prev(list, t) \in Proc \cup {NoProc}
  BY <1>4 DEF Prev
<1> QED
  BY <1>1, <1>5 DEF Found, Prev

\* What it finds is somewhere a process still is.
LEMMA AbortFindStep ==
  ASSUME IInv, NEW p \in Proc, AbortFind(p)
  PROVE  IInv'
<1> PICK t : t = snip.pd
  OBVIOUS
<1>1. /\ At(p, "abtfind") /\ (snip' = AbortTab(t) \/ snip' = NoSnip)
      /\ UNCHANGED <<listVars, tick, flagVars, u_dparam, p_prior, resource, intVars, target>>
      /\ \/ /\ snip' # NoSnip /\ pc' = [pc EXCEPT ![p] = "abtsnip"]
            /\ UNCHANGED <<p_stat, cpu>>
         \/ /\ snip' = NoSnip /\ pc' = [pc EXCEPT ![p] = "user"]
            /\ IF drl' = <<>> THEN UNCHANGED p_stat /\ UNCHANGED cpu
               ELSE p_stat' = [p_stat EXCEPT ![p] = "run"] /\ cpu' = "dcont"
  BY DEF AbortFind, Goto, OkDisp, timeVars, listVars
<1>2. pc[p] = "abtfind" /\ At(p, pc[p]) /\ cpu = "process" /\ p = Running
  BY <1>1 DEF At
<1>3. /\ t \in Proc \ {p} /\ ParamOK(snip.stat, u_dparam[t])
      /\ pc[t] \notin {"flagwait", "dead"}
  BY <1>2 DEF IInv, SnipInv
<1>4. p_stat[p] = "run"
  BY <1>1, HerePlace DEF StatOf
<1>5. \A x \in Proc : p_stat'[x] = p_stat[x]
  BY <1>1, <1>4 DEF IInv, Typed
<1>6. PICK l \in {"abtsnip", "user"} : pc' = [pc EXCEPT ![p] = l]
  BY <1>1
<1>7. \A x \in Proc : pc'[x] = IF x = p THEN l ELSE pc[x]
  BY <1>6 DEF IInv, Typed
<1>8. cpu' \in {"process", "dcont"}
  BY <1>1, <1>2
<1>9. \/ snip' = NoSnip
      \/ /\ snip' = [NoSnip EXCEPT !.pd = t, !.stat = "flagwait", !.list = "flag"]
         /\ snip.stat = "flagwait" /\ flg_pd[u_dparam[t]] = t
      \/ \E list \in Seq(Proc), name \in {"rlr", "drl", "dlr", "slist"} :
           /\ snip' = Found(t, list, name)
           /\ \/ name = "rlr" /\ list = rlr
              \/ name = "drl" /\ list = drl
              \/ name = "dlr" /\ list = dlr
              \/ name = "slist" /\ list = slist[u_dparam[t]] /\ snip.stat = "wait"
  <2>1. rlr \in Seq(Proc) /\ drl \in Seq(Proc) /\ dlr \in Seq(Proc)
    BY DEF IInv, Typed
  <2>2. snip.stat = "wait" => slist[u_dparam[t]] \in Seq(Proc)
    BY <1>3 DEF IInv, Typed, ParamOK
  <2> SUFFICES ASSUME snip' = AbortTab(t)
               PROVE  \/ snip' = NoSnip
                      \/ /\ snip' = [NoSnip EXCEPT !.pd = t, !.stat = "flagwait",
                                                   !.list = "flag"]
                         /\ snip.stat = "flagwait" /\ flg_pd[u_dparam[t]] = t
                      \/ \E list \in Seq(Proc), name \in {"rlr", "drl", "dlr", "slist"} :
                           /\ snip' = Found(t, list, name)
                           /\ \/ name = "rlr" /\ list = rlr
                              \/ name = "drl" /\ list = drl
                              \/ name = "dlr" /\ list = dlr
                              \/ /\ name = "slist" /\ list = slist[u_dparam[t]]
                                 /\ snip.stat = "wait"
    BY <1>1
  <2>3. CASE snip.stat \in {"run", "sleep"}
    <3>1. snip' = Found(t, rlr, "rlr") \/ snip' = Found(t, drl, "drl")
      BY <1>1, <2>3 DEF AbortTab
    <3> QED
      BY <2>1, <3>1
  <2>4. CASE snip.stat = "delay"
    <3>1. snip' = Found(t, dlr, "dlr")
      BY <1>1, <2>4 DEF AbortTab
    <3> QED
      BY <2>1, <3>1
  <2>5. CASE snip.stat = "wait"
    <3>1. snip' = Found(t, slist[u_dparam[t]], "slist")
      BY <1>1, <2>5 DEF AbortTab
    <3> QED
      BY <1>3, <2>2, <2>5, <3>1
  <2>6. CASE snip.stat \notin {"run", "sleep", "delay", "wait"}
    <3>1. \/ snip' = NoSnip
          \/ /\ snip' = [NoSnip EXCEPT !.pd = t, !.stat = "flagwait", !.list = "flag"]
             /\ snip.stat = "flagwait" /\ flg_pd[u_dparam[t]] = t
      BY <1>1, <2>6 DEF AbortTab
    <3> QED
      BY <1>3, <3>1
  <2> QED
    BY <2>3, <2>4, <2>5, <2>6
<1>10. snip' # NoSnip => /\ snip'.pd = t /\ pc[t] # "limbo"
                         /\ snip' \in [pd : Proc \cup {NoProc}, stat : Stat,
                                       prev : Proc \cup {NoProc},
                                       list : {"none", "rlr", "drl", "dlr", "slist", "flag"},
                                       ticks : {snip'.ticks}]
  <2> SUFFICES ASSUME snip' # NoSnip
               PROVE  /\ snip'.pd = t /\ pc[t] # "limbo"
                      /\ snip' \in [pd : Proc \cup {NoProc}, stat : Stat,
                                    prev : Proc \cup {NoProc},
                                    list : {"none", "rlr", "drl", "dlr", "slist", "flag"},
                                    ticks : {snip'.ticks}]
    OBVIOUS
  <2>2. PlaceOK(t) /\ ParamOK(snip.stat, u_dparam[t])
    BY <1>3 DEF IInv, PlacesInv
  <2>3. CASE /\ snip' = [NoSnip EXCEPT !.pd = t, !.stat = "flagwait", !.list = "flag"]
             /\ snip.stat = "flagwait" /\ flg_pd[u_dparam[t]] = t
    <3>1. snip' = [pd |-> t, stat |-> "flagwait", prev |-> NoProc, list |-> "flag",
                   ticks |-> 0]
      BY <2>3 DEF NoSnip
    <3>2. u_dparam[t] \in Flag
      BY <2>2, <2>3 DEF ParamOK
    <3>3. pc[t] # "limbo"
      BY <2>2, <2>3, <3>2 DEF PlaceOK, OnList, Gone
    <3>4. snip'.pd = t /\ snip'.list = "flag"
      BY <3>1
    <3>6. snip' \in [pd : Proc \cup {NoProc}, stat : Stat, prev : Proc \cup {NoProc},
                     list : {"none", "rlr", "drl", "dlr", "slist", "flag"},
                     ticks : {snip'.ticks}]
      BY <1>3, <3>1 DEF Stat
    <3> QED
      BY <3>3, <3>4, <3>6
  <2>4. ASSUME NEW list \in Seq(Proc), NEW name \in {"rlr", "drl", "dlr", "slist"},
               snip' = Found(t, list, name),
               \/ name = "rlr" /\ list = rlr
               \/ name = "drl" /\ list = drl
               \/ name = "dlr" /\ list = dlr
               \/ name = "slist" /\ list = slist[u_dparam[t]] /\ snip.stat = "wait"
        PROVE  /\ snip'.pd = t /\ pc[t] # "limbo"
               /\ snip' \in [pd : Proc \cup {NoProc}, stat : Stat,
                             prev : Proc \cup {NoProc},
                             list : {"none", "rlr", "drl", "dlr", "slist", "flag"},
                             ticks : {snip'.ticks}]
    <3>1. /\ IsOn(list, t)
          /\ snip' = [pd |-> t, stat |-> snip.stat, list |-> name, prev |-> Prev(list, t),
                     ticks |-> p_wait[t]]
          /\ Prev(list, t) \in Proc \cup {NoProc}
      BY <1>3, <2>4, FoundFits DEF IInv
    <3>2. snip.stat = "wait" => u_dparam[t] \in SList
      BY <2>2 DEF ParamOK
    <3>3. pc[t] # "limbo"
      BY <2>2, <2>4, <3>1, <3>2 DEF PlaceOK, OnList, Gone
    <3>4. snip.stat \in Stat
      BY <1>3 DEF IInv, Typed
    <3>5. snip'.pd = t /\ snip'.list = name /\ snip'.prev = Prev(list, t)
      BY <3>1
    <3> QED
      BY <1>3, <3>1, <3>3, <3>4, <3>5
  <2> QED
    BY <1>9, <2>3, <2>4
<1>11. Typed'
  <2>1. snip' \in [pd : Proc \cup {NoProc}, stat : Stat, prev : Proc \cup {NoProc},
                   list : {"none", "rlr", "drl", "dlr", "slist", "flag"},
                   ticks : {snip'.ticks}]
    <3>1. CASE snip' = NoSnip
      BY <3>1 DEF NoSnip, Stat
    <3> QED
      BY <1>10, <3>1
  <2>2. pc' \in [Proc -> PC] /\ p_stat' \in [Proc -> Stat] /\ cpu' \in Cpu
    BY <1>1, <1>6, <1>8 DEF IInv, Typed, PC, Stat, Cpu
  <2> QED
    BY <1>1, <2>1, <2>2 DEF IInv, Typed, listVars, flagVars, intVars
<1>12. /\ PlacesInv' /\ RunInv' /\ StatInv' /\ ParamInv' /\ TargetInv' /\ PriorInv'
       /\ RlrSorted'
  <2>1. /\ p_prior[p] \in Nat /\ (MayWorsen(p) \/ p_prior[p] \in {Prior[p], AbtPrior})
        /\ ParamOK(p_stat[p], u_dparam[p])
    BY DEF IInv, Typed, PriorInv, ParamInv
  <2>2. /\ pc'[p] \notin Gone \cup {"abtput", "dsptch"} /\ p_stat'[p] \in StatOf(pc'[p])
        /\ ParamOK(p_stat'[p], u_dparam'[p])
    BY <1>1, <1>4, <1>5, <1>7, <2>1 DEF Gone, StatOf
  <2>3. cpu' = "dcont" => pc'[p] = "user"
    BY <1>1, <1>2 DEF IInv, Typed
  <2> QED
    BY <1>1, <1>2, <1>5, <1>7, <1>8, <2>1, <2>2, <2>3, OwnStep DEF flagVars
<1>13. FlagInv' /\ FlagsCount'
  BY <1>1, <1>2, <1>4, <1>5, <1>7, FlagsStay DEF listVars, Running
<1>14. SnipInv'
  <2>1. CASE snip' = NoSnip /\ pc' = [pc EXCEPT ![p] = "user"]
    <3>1. pc'[p] = "user"
      BY <2>1 DEF IInv, Typed
    <3> QED
      BY <1>1, <1>7, <3>1, NoSearchAfter
  <2>2. CASE snip' # NoSnip /\ pc' = [pc EXCEPT ![p] = "abtsnip"] /\ UNCHANGED <<p_stat, cpu>>
    <3>1. pc'[p] = "abtsnip" /\ cpu' = "process" /\ Running' = p
      BY <1>1, <1>2, <2>2 DEF IInv, Typed, listVars, Running
    <3>2. \A x \in Proc : pc'[x] \in {"abtfind", "abtsnip"} => x = p
      BY <1>2, <1>7 DEF IInv, SnipInv
    <3>3. pc'[t] = pc[t]
      BY <1>3, <1>7
    <3> QED
      BY <1>3, <1>10, <2>2, <3>1, <3>2, <3>3 DEF SnipInv
  <2> QED
    BY <1>1, <2>1, <2>2
<1> QED
  BY <1>11, <1>12, <1>13, <1>14 DEF IInv
----------------------------------------------------------------------------
(* Processes put on the dispatch ready list.                                *)

\* A process put at an end of the DRL.
DrlGains(w) == drl' = <<w>> \o drl \/ drl' = drl \o <<w>>

\* A process at the front or the end of the DRL.
LEMMA DrlGainsOne ==
  ASSUME drl \in Seq(Proc), NEW w \in Proc, DrlGains(w)
  PROVE  /\ drl' \in Seq(Proc)
         /\ \A x : IsOn(drl', x) <=> x = w \/ IsOn(drl, x)
         /\ Distinct(drl) /\ ~ IsOn(drl, w) => Distinct(drl')
<1>1. CASE drl' = <<w>> \o drl
  BY <1>1, EndsMembers
<1>2. CASE drl' = drl \o <<w>>
  BY <1>2, EndsMembers
<1> QED
  BY <1>1, <1>2 DEF DrlGains

\* A process that sleeps is made ready by the running one.
LEMMA WakeStep ==
  ASSUME IInv, NEW p \in Proc, At(p, "user"), NEW l \in SList, slist[l] # <<>>,
         NEW w, w = Head(slist[l]),
         slist' = [slist EXCEPT ![l] = Tail(@)], DrlGains(w),
         p_stat' \in [Proc -> Stat],
         \A x \in Proc : p_stat'[x] = IF x = w THEN "run" ELSE p_stat[x],
         cpu' \in {"process", "dcont"},
         UNCHANGED <<rlr, dlr, tick, flagVars, u_dparam, p_prior, resource, intVars, pc,
                     abortVars>>
  PROVE  IInv'
<1>1. /\ rlr' = rlr /\ dlr' = dlr /\ flg_pd' = flg_pd /\ u_dparam' = u_dparam
      /\ flg_ignore' = flg_ignore /\ pending' = pending /\ dev' = dev
      /\ p_prior' = p_prior /\ u_in_int' = u_in_int /\ u_stat_sav' = u_stat_sav /\ pc' = pc
      /\ target' = target /\ snip' = snip /\ resource' = resource /\ tick' = tick
      /\ Running' = Running
  BY DEF flagVars, intVars, abortVars, Running
<1>2. /\ cpu = "process" /\ p = Running /\ pc[p] = "user" /\ rlr # <<>>
      /\ IsOn(rlr, p) /\ p_stat[p] \in StatOf("user") /\ p \notin u_in_int
      /\ \A x \in Proc : x # p /\ IsOn(rlr, x) => p_stat[x] = "run"
      /\ \A k \in SList : ~ IsOn(slist[k], p)
  BY HerePlace
<1>3. slist[l] \in Seq(Proc) /\ drl \in Seq(Proc) /\ Distinct(slist[l]) /\ Distinct(drl)
  BY DEF IInv, Typed, PlacesInv
<1>4. /\ w \in Proc /\ IsOn(slist[l], w) /\ Tail(slist[l]) \in Seq(Proc)
      /\ Distinct(Tail(slist[l]))
      /\ \A x : IsOn(Tail(slist[l]), x) <=> x # w /\ IsOn(slist[l], x)
  BY <1>3, TailMembers
<1>5. \A k \in SList : slist'[k] = IF k = l THEN Tail(slist[l]) ELSE slist[k]
  BY DEF IInv, Typed
<1>6. PlaceOK(w) /\ ~ IsOn(rlr, w) /\ ~ IsOn(drl, w) /\ p_stat[w] = "wait" /\ w # p
  BY <1>2, <1>4 DEF IInv, PlacesInv, PlaceOK
<1>7. /\ drl' \in Seq(Proc) /\ Distinct(drl')
      /\ \A x : IsOn(drl', x) <=> x = w \/ IsOn(drl, x)
  BY <1>3, <1>4, <1>6, DrlGainsOne
<1>8. Typed'
  <2>1. slist' \in [SList -> Seq(Proc)]
    BY <1>4 DEF IInv, Typed
  <2>2. cpu' \in Cpu
    BY DEF Cpu
  <2> QED
    BY <1>1, <1>7, <2>1, <2>2 DEF IInv, Typed
<1>9. PlacesInv'
  <2>1. ASSUME NEW x \in Proc, x # w PROVE PlaceOK(x)'
    <3>1. PlaceOK(x)
      BY DEF IInv, PlacesInv
    <3>2. IsOn(rlr, x) => p_stat'[x] = "run" \/ (x = Running' /\ cpu' \in {"process", "dcont"})
      BY <1>1, <1>2, <2>1
    <3>3. \A k \in SList : IsOn(slist'[k], x) <=> IsOn(slist[k], x)
      BY <1>4, <1>5, <2>1
    <3>4. Stays(x)
      BY <1>1, <1>7, <2>1, <3>2, <3>3 DEF Stays
    <3> QED
      BY <3>1, <3>4, StaysOK
  <2>2. PlaceOK(w)'
    <3>1. ~ IsOn(rlr', w) /\ IsOn(drl', w) /\ ~ IsOn(dlr', w)
      BY <1>1, <1>6, <1>7 DEF PlaceOK
    <3>2. \A k \in SList : ~ IsOn(slist'[k], w)
      BY <1>4, <1>5, <1>6 DEF PlaceOK
    <3>3. \A f \in Flag : flg_pd'[f] # w
      BY <1>1, <1>6 DEF PlaceOK
    <3>4. pc'[w] \notin Gone
      BY <1>1, <1>4, <1>6 DEF PlaceOK, OnList
    <3> QED
      BY <3>1, <3>2, <3>3, <3>4 DEF PlaceOK, OnList
  <2>3. \A k \in SList : Distinct(slist'[k])
    BY <1>4, <1>5 DEF IInv, PlacesInv
  <2> QED
    BY <1>1, <1>7, <2>1, <2>2, <2>3 DEF IInv, PlacesInv
<1>10. RunInv' /\ PriorInv'
  BY <1>1, <1>2 DEF IInv, RunInv, PriorInv, MayWorsen
<1>11. StatInv'
  <2>1. p_stat'[p] = p_stat[p]
    BY <1>6
  <2>2. \A x \in Proc : pc[x] = "dsptch" => x \in u_in_int
    BY <1>2 DEF IInv, StatInv
  <2> QED
    BY <1>1, <1>2, <2>1, <2>2 DEF IInv, StatInv
<1>12. ParamInv'
  BY <1>1 DEF IInv, ParamInv, ParamOK
<1>13. SnipInv'
  <2>1. \A x \in Proc : pc[x] \notin {"abtfind", "abtsnip"}
    BY <1>2, NoSearch
  <2> QED
    BY <1>1, <2>1 DEF SnipInv
<1>14. TargetInv'
  BY <1>1 DEF IInv, TargetInv
<1>15. FlagInv' /\ FlagsCount'
  <2>1. p_stat'[p] = "run"
    BY <1>2, <1>6 DEF StatOf
  <2>2. \A x \in Proc, f \in Flag : ~ AtDcont(x, f) /\ ~ AtDcont(x, f)'
    BY <1>1, <1>2, <2>1 DEF AtDcont
  <2>3. FlagInv'
    BY <1>1, <2>2 DEF IInv, FlagInv
  <2> QED
    BY <1>1, <2>3 DEF IInv, FlagsCount
<1>16. RlrSorted'
  BY <1>1, <1>2 DEF IInv, RlrSorted, MayWorsen
<1> QED
  BY <1>8, <1>9, <1>10, <1>11, <1>12, <1>13, <1>14, <1>15, <1>16 DEF IInv

\* wakeup_entry.
LEMMA WakeupStep ==
  ASSUME IInv, NEW p \in Proc, Wakeup(p)
  PROVE  IInv'
<1>1. PICK l \in SList : /\ slist[l] # <<>>
                         /\ slist' = [slist EXCEPT ![l] = Tail(@)]
                         /\ drl' = drl \o <<Head(slist[l])>>
                         /\ p_stat' = [p_stat EXCEPT ![Head(slist[l])] = "run", ![p] = "run"]
  BY DEF Wakeup
<1>2. At(p, "user") /\ cpu' = "dcont"
  BY DEF Wakeup
<1>3. p_stat[p] = "run"
  BY <1>2, HerePlace DEF StatOf
<1>4. /\ p_stat' \in [Proc -> Stat]
      /\ \A x \in Proc : p_stat'[x] = IF x = Head(slist[l]) THEN "run" ELSE p_stat[x]
  BY <1>1, <1>3 DEF IInv, Typed, Stat
<1>5. UNCHANGED <<rlr, dlr, tick, flagVars, u_dparam, p_prior, resource, intVars, pc,
                  abortVars>>
  BY DEF Wakeup, timeVars
<1>6. DrlGains(Head(slist[l]))
  BY <1>1 DEF DrlGains
<1> QED
  BY <1>1, <1>2, <1>4, <1>5, <1>6, WakeStep

\* unsync_entry's hand-over.
LEMMA UnsyncStep ==
  ASSUME IInv, NEW p \in Proc, Unsync(p)
  PROVE  IInv'
<1>1. PICK l \in SList : /\ slist[l] # <<>>
                         /\ slist' = [slist EXCEPT ![l] = Tail(@)]
                         /\ drl' = <<Head(slist[l])>> \o drl
                         /\ p_stat' = [p_stat EXCEPT ![Head(slist[l])] = "run"]
  BY DEF Unsync
<1>2. At(p, "user") /\ cpu' = "process"
  BY DEF Unsync, At
<1>3. /\ p_stat' \in [Proc -> Stat]
      /\ \A x \in Proc : p_stat'[x] = IF x = Head(slist[l]) THEN "run" ELSE p_stat[x]
  BY <1>1 DEF IInv, Typed, Stat
<1>4. UNCHANGED <<rlr, dlr, tick, flagVars, u_dparam, p_prior, resource, intVars, pc,
                  abortVars>>
  BY DEF Unsync, timeVars
<1>5. DrlGains(Head(slist[l]))
  BY <1>1 DEF DrlGains
<1> QED
  BY <1>1, <1>2, <1>3, <1>4, <1>5, WakeStep

\* A process that was on no list is put on the DRL by the running one.
LEMMA JoinStep ==
  ASSUME IInv, NEW p \in Proc, At(p, pc[p]), pc[p] \in {"user", "abtput"},
         NEW c \in Proc, pc[c] \in Gone, DrlGains(c), Typed', TargetInv',
         UNCHANGED <<rlr, dlr, slist, flagVars, u_dparam>>,
         \A x \in Proc \ {c} :
           /\ pc'[x] = IF x = p THEN "user" ELSE pc[x]
           /\ p_stat'[x] = p_stat[x] /\ p_prior'[x] = p_prior[x]
           /\ x \in u_in_int' <=> x \in u_in_int
           /\ u_stat_sav'[x] = u_stat_sav[x],
         pc'[c] \in {"user", "terminate"}, ParamOK(p_stat'[c], u_dparam[c]),
         c \in u_in_int' => u_stat_sav'[c] = "run", p_prior'[c] \in {Prior[c], AbtPrior},
         cpu' = "dcont"
  PROVE  IInv'
<1>1. /\ rlr' = rlr /\ dlr' = dlr /\ slist' = slist
      /\ flg_pd' = flg_pd /\ flg_ignore' = flg_ignore /\ pending' = pending /\ dev' = dev
      /\ u_dparam' = u_dparam /\ Running' = Running
  BY DEF flagVars, Running
<1>2. /\ cpu = "process" /\ p = Running /\ rlr # <<>>
      /\ IsOn(rlr, p) /\ p_stat[p] = "run" /\ p \notin u_in_int
      /\ \A x \in Proc : x # p /\ IsOn(rlr, x) => p_stat[x] = "run"
  BY HerePlace DEF StatOf
<1>3. PlaceOK(c) /\ ~ OnList(c) /\ c # p
  BY DEF IInv, PlacesInv, PlaceOK, Gone
<1>4. /\ drl' \in Seq(Proc) /\ Distinct(drl')
      /\ \A x : IsOn(drl', x) <=> x = c \/ IsOn(drl, x)
  <2>1. drl \in Seq(Proc) /\ Distinct(drl) /\ ~ IsOn(drl, c)
    BY <1>3 DEF IInv, Typed, PlacesInv, OnList
  <2> QED
    BY <2>1, DrlGainsOne
<1>5. PlacesInv'
  <2>1. ASSUME NEW x \in Proc, x # c PROVE PlaceOK(x)'
    <3>1. PlaceOK(x)
      BY DEF IInv, PlacesInv
    <3>2. IsOn(rlr, x) => p_stat'[x] = "run"
      BY <1>2, <2>1
    <3>3. pc'[x] \in Gone <=> pc[x] \in Gone
      BY <2>1 DEF Gone
    <3>4. Stays(x)
      BY <1>1, <1>4, <2>1, <3>2, <3>3 DEF Stays
    <3> QED
      BY <3>1, <3>4, StaysOK
  <2>2. PlaceOK(c)'
    <3>1. /\ ~ IsOn(rlr', c) /\ IsOn(drl', c) /\ ~ IsOn(dlr', c)
          /\ \A k \in SList : ~ IsOn(slist'[k], c)
          /\ \A f \in Flag : flg_pd'[f] # c
      BY <1>1, <1>3, <1>4 DEF OnList
    <3> QED
      BY <3>1 DEF PlaceOK, OnList, Gone
  <2> QED
    BY <1>1, <1>4, <2>1, <2>2 DEF IInv, PlacesInv
<1>6. RunInv'
  BY <1>1, <1>2 DEF RunInv
<1>7. PriorInv'
  BY DEF IInv, PriorInv, MayWorsen
<1>8. StatInv'
  <2>1. ASSUME NEW x \in u_in_int', pc'[x] # "limbo" PROVE u_stat_sav'[x] \in StatOf(pc'[x])
    <3>1. x \in Proc
      BY DEF Typed
    <3>2. CASE x = c
      BY <3>2 DEF StatOf
    <3>3. CASE x # c
      <4>1. x \in u_in_int /\ x # p
        BY <1>2, <3>1, <3>3
      <4> QED
        BY <2>1, <3>1, <3>3, <4>1 DEF IInv, StatInv
    <3> QED
      BY <3>2, <3>3
  <2>2. \A x \in Proc : pc'[x] = "dsptch" => x \in u_in_int'
    BY <1>2 DEF IInv, StatInv
  <2>3. p_stat'[Running'] = "run"
    BY <1>1, <1>2, <1>3
  <2> QED
    BY <2>1, <2>2, <2>3 DEF StatInv
<1>9. ParamInv'
  <2>1. ASSUME NEW x \in Proc PROVE ParamOK(p_stat'[x], u_dparam'[x])
    BY <1>1 DEF IInv, ParamInv
  <2>2. ASSUME NEW x \in u_in_int' PROVE ParamOK(u_stat_sav'[x], u_dparam'[x])
    <3>1. x \in Proc
      BY DEF Typed
    <3>2. CASE x = c
      BY <3>2 DEF ParamOK
    <3>3. CASE x # c
      BY <1>1, <3>1, <3>3 DEF IInv, ParamInv
    <3> QED
      BY <3>2, <3>3
  <2> QED
    BY <2>1, <2>2 DEF ParamInv
<1>10. SnipInv'
  <2>1. \A x \in Proc : pc[x] \notin {"abtfind", "abtsnip"}
    BY <1>2, NoSearch DEF At
  <2>2. \A x \in Proc : pc'[x] \notin {"abtfind", "abtsnip"}
    BY <2>1
  <2> QED
    BY <2>2 DEF SnipInv
<1>11. FlagInv' /\ FlagsCount'
  <2>1. \A x \in Proc, f \in Flag : ~ AtDcont(x, f) /\ ~ AtDcont(x, f)'
    BY <1>1, <1>2, <1>3 DEF AtDcont
  <2>2. \A x \in Proc : pc'[x] = "flagwait" <=> pc[x] = "flagwait"
    BY DEF Gone
  <2>3. FlagInv'
    BY <1>1, <2>1, <2>2 DEF IInv, FlagInv
  <2> QED
    BY <1>1, <2>3 DEF IInv, FlagsCount
<1>12. RlrSorted'
  <2>1. \A i \in 1 .. Len(rlr) : rlr[i] \in Proc /\ rlr[i] # c
    <3>1. rlr \in Seq(Proc) /\ ~ IsOn(rlr, c)
      BY <1>3 DEF IInv, Typed, OnList
    <3>2. \A i \in 1 .. Len(rlr) : rlr[i] # c
      BY <3>1 DEF IsOn
    <3> QED
      BY <3>1, <3>2
  <2>2. \A i \in 1 .. Len(rlr) : p_prior'[rlr[i]] = p_prior[rlr[i]]
    BY <2>1
  <2> QED
    BY <1>1, <1>2, <2>2 DEF IInv, RlrSorted, MayWorsen
<1> QED
  BY <1>5, <1>6, <1>7, <1>8, <1>9, <1>10, <1>11, <1>12 DEF IInv

\* proc_creat.
LEMMA CreateStep ==
  ASSUME IInv, NEW p \in Proc, Create(p)
  PROVE  IInv'
<1>1. PICK c \in Proc : /\ pc[c] = "dead"
                        /\ pc' = [pc EXCEPT ![c] = "user"]
                        /\ p_prior' = [p_prior EXCEPT ![c] = Prior[c]]
                        /\ p_stat' = [p_stat EXCEPT ![c] = "run", ![p] = "run"]
                        /\ u_in_int' = u_in_int \cup {c}
                        /\ u_stat_sav' = [u_stat_sav EXCEPT ![c] = "run"]
                        /\ drl' = <<c>> \o drl
  BY DEF Create
<1>2. /\ At(p, "user") /\ cpu' = "dcont" /\ resource' = resource \ {p}
      /\ UNCHANGED <<rlr, dlr, slist, tick, flagVars, u_dparam, abortVars>>
  BY DEF Create, timeVars
<1>3. pc[p] = "user" /\ At(p, pc[p])
  BY <1>2 DEF At
<1>4. p_stat[p] = "run"
  BY <1>2, HerePlace DEF StatOf
<1>5. \A x \in Proc : /\ pc'[x] = IF x = c THEN "user" ELSE pc[x]
                      /\ p_prior'[x] = IF x = c THEN Prior[c] ELSE p_prior[x]
                      /\ p_stat'[x] = IF x = c THEN "run" ELSE p_stat[x]
                      /\ u_stat_sav'[x] = IF x = c THEN "run" ELSE u_stat_sav[x]
  BY <1>1, <1>4 DEF IInv, Typed
<1>6. Typed'
  <2>1. drl' \in Seq(Proc)
    BY <1>1, EndsMembers DEF IInv, Typed
  <2>2. p_prior' \in [Proc -> Nat]
    BY <1>1, PriorAssumption DEF IInv, Typed
  <2>3. /\ pc' \in [Proc -> PC] /\ p_stat' \in [Proc -> Stat] /\ u_stat_sav' \in [Proc -> Stat]
        /\ cpu' \in Cpu /\ u_in_int' \subseteq Proc /\ resource' \subseteq Proc
    BY <1>1, <1>2 DEF IInv, Typed, PC, Stat, Cpu
  <2> QED
    BY <1>2, <2>1, <2>2, <2>3 DEF IInv, Typed, flagVars, abortVars
<1>7. TargetInv'
  <2>1. ASSUME NEW x \in Proc, pc'[x] = "abtput"
        PROVE  /\ pc[x] = "abtput" /\ target'[x] = target[x] /\ target[x] \in Proc
               /\ pc'[target[x]] = "limbo"
    <3>1. pc[x] = "abtput"
      BY <1>5, <2>1
    <3>2. target[x] \in Proc /\ pc[target[x]] = "limbo"
      BY <3>1 DEF IInv, TargetInv
    <3>3. target[x] # c
      BY <1>1, <3>2
    <3> QED
      BY <1>2, <1>5, <3>1, <3>2, <3>3 DEF abortVars
  <2> QED
    BY <2>1 DEF IInv, TargetInv
<1>8. DrlGains(c) /\ pc[c] \in Gone
  BY <1>1 DEF DrlGains, Gone
<1>9. ParamOK(p_stat'[c], u_dparam[c])
  BY <1>5 DEF ParamOK
<1>10. /\ c \in u_in_int' => u_stat_sav'[c] = "run"
       /\ p_prior'[c] \in {Prior[c], AbtPrior} /\ pc'[c] \in {"user", "terminate"}
       /\ \A x \in Proc \ {c} : x \in u_in_int' <=> x \in u_in_int
  BY <1>1, <1>5
<1>11. \A x \in Proc \ {c} : /\ pc'[x] = IF x = p THEN "user" ELSE pc[x]
                             /\ p_stat'[x] = p_stat[x] /\ p_prior'[x] = p_prior[x]
                             /\ u_stat_sav'[x] = u_stat_sav[x]
  BY <1>3, <1>5
<1> QED
  BY <1>2, <1>3, <1>6, <1>7, <1>8, <1>9, <1>10, <1>11, JoinStep

\* The end of abort_spec_entry.
LEMMA AbortPutStep ==
  ASSUME IInv, NEW p \in Proc, AbortPut(p)
  PROVE  IInv'
<1> PICK t : t = target[p]
  OBVIOUS
<1>1. /\ p_prior' = [p_prior EXCEPT ![t] = AbtPrior]
      /\ u_in_int' = u_in_int \ {t}
      /\ drl' = <<t>> \o drl
      /\ pc' = [pc EXCEPT ![p] = "user", ![t] = "terminate"]
      /\ target' = [target EXCEPT ![p] = NoProc]
      /\ p_stat' = [p_stat EXCEPT ![p] = "run"]
      /\ At(p, "abtput") /\ cpu' = "dcont"
      /\ UNCHANGED <<rlr, dlr, slist, tick, flagVars, u_dparam, resource, u_stat_sav, snip>>
  BY DEF AbortPut, timeVars
<1>2. pc[p] = "abtput" /\ At(p, pc[p])
  BY <1>1 DEF At
<1>3. p_stat[p] = "run"
  BY <1>1, HerePlace DEF StatOf
<1>4. t \in Proc /\ pc[t] = "limbo" /\ t # p
  BY <1>2 DEF IInv, TargetInv
<1>5. \A x \in Proc : /\ pc'[x] = IF x = t THEN "terminate" ELSE IF x = p THEN "user" ELSE pc[x]
                      /\ p_prior'[x] = IF x = t THEN AbtPrior ELSE p_prior[x]
                      /\ p_stat'[x] = p_stat[x]
                      /\ target'[x] = IF x = p THEN NoProc ELSE target[x]
                      /\ u_stat_sav'[x] = u_stat_sav[x]
  BY <1>1, <1>3, <1>4 DEF IInv, Typed
<1>6. Typed'
  <2>1. drl' \in Seq(Proc)
    BY <1>1, <1>4, EndsMembers DEF IInv, Typed
  <2>2. p_prior' \in [Proc -> Nat]
    BY <1>1 DEF IInv, Typed, AbtPrior
  <2>3. /\ pc' \in [Proc -> PC] /\ p_stat' \in [Proc -> Stat]
        /\ cpu' \in Cpu /\ u_in_int' \subseteq Proc
        /\ target' \in [Proc -> Proc \cup {NoProc}]
    BY <1>1 DEF IInv, Typed, PC, Stat, Cpu
  <2> QED
    BY <1>1, <2>1, <2>2, <2>3 DEF IInv, Typed, flagVars
<1>7. TargetInv'
  <2>1. ASSUME NEW x \in Proc, pc'[x] = "abtput"
        PROVE  /\ pc[x] = "abtput" /\ target'[x] = target[x] /\ target[x] \in Proc
               /\ pc'[target[x]] = "limbo"
    <3>1. pc[x] = "abtput" /\ x # p
      BY <1>5, <2>1
    <3>2. target[x] \in Proc /\ pc[target[x]] = "limbo" /\ target[x] # t
      BY <1>2, <3>1 DEF IInv, TargetInv
    <3>3. target[x] # p
      BY <1>2, <3>2
    <3> QED
      BY <1>5, <3>1, <3>2, <3>3
  <2> QED
    BY <2>1 DEF IInv, TargetInv
<1>8. DrlGains(t) /\ pc[t] \in Gone
  BY <1>1, <1>4 DEF DrlGains, Gone
<1>9. ParamOK(p_stat'[t], u_dparam[t])
  BY <1>4, <1>5 DEF IInv, ParamInv
<1>10. /\ t \in u_in_int' => u_stat_sav'[t] = "run"
       /\ p_prior'[t] \in {Prior[t], AbtPrior} /\ pc'[t] \in {"user", "terminate"}
       /\ \A x \in Proc \ {t} : x \in u_in_int' <=> x \in u_in_int
  BY <1>1, <1>4, <1>5
<1>11. \A x \in Proc \ {t} : /\ pc'[x] = IF x = p THEN "user" ELSE pc[x]
                             /\ p_stat'[x] = p_stat[x] /\ p_prior'[x] = p_prior[x]
                             /\ u_stat_sav'[x] = u_stat_sav[x]
  BY <1>5
<1> QED
  BY <1>1, <1>2, <1>4, <1>6, <1>7, <1>8, <1>9, <1>10, <1>11, JoinStep
----------------------------------------------------------------------------
(* A target is taken off where it was found.                                *)

\* Cutting a list behind the process before t, or at its root, takes t off it.
LEMMA SnipCuts ==
  ASSUME NEW list \in Seq(Proc), Distinct(list), NEW t \in Proc, IsOn(list, t)
  PROVE  \/ /\ Prev(list, t) = NoProc
            /\ Snip(list, t) = After(list, t)
         \/ /\ Prev(list, t) \in Proc /\ IsOn(list, Prev(list, t))
            /\ Snip(list, t) = UpTo(list, Prev(list, t)) \o After(list, t)
<1>1. NoProc \notin Proc
  BY ProcAssumption
<1> PICK n \in Nat : n = Len(list)
  OBVIOUS
<1> PICK k \in 1 .. n : k = PlaceOf(list, t) /\ list[k] = t
  <2>1. PlaceOf(list, t) \in 1 .. Len(list) /\ list[PlaceOf(list, t)] = t
    BY DEF PlaceOf, IsOn
  <2> QED
    BY <2>1
<1>2. After(list, t) = SubSeq(list, k + 1, n)
  BY DEF After
<1>3. Snip(list, t) = SubSeq(list, 1, k - 1) \o SubSeq(list, k + 1, n)
  BY SnipPlace
<1>4. Head(list) = list[1]
  OBVIOUS
<1>5. CASE k = 1
  <2>1. Prev(list, t) = NoProc
    BY <1>4, <1>5 DEF Prev
  <2>2. SubSeq(list, 1, k - 1) = <<>>
    BY <1>5
  <2>3. SubSeq(list, k + 1, n) \in Seq(Proc)
    BY BackMembers
  <2>4. <<>> \o SubSeq(list, k + 1, n) = SubSeq(list, k + 1, n)
    BY <2>3
  <2> QED
    BY <1>2, <1>3, <2>1, <2>2, <2>4
<1>6. CASE k # 1
  <2>1. k - 1 \in 1 .. n /\ 1 \in 1 .. n
    BY <1>6
  <2>2. list[1] # t /\ list[k - 1] \in Proc
    BY <1>6, <2>1 DEF Distinct
  <2>3. Prev(list, t) = list[k - 1]
    BY <1>4, <2>2 DEF Prev
  <2>4. PlaceOf(list, list[k - 1]) = k - 1 /\ IsOn(list, list[k - 1])
    BY <2>1 DEF PlaceOf, Distinct, IsOn
  <2>5. UpTo(list, list[k - 1]) = SubSeq(list, 1, k - 1)
    BY <2>4 DEF UpTo
  <2> QED
    BY <1>2, <1>3, <2>2, <2>3, <2>4, <2>5
<1> QED
  BY <1>5, <1>6

\* snip_it on the list t is on, and on one it is not on.
LEMMA SnipItCuts ==
  ASSUME NEW list \in Seq(Proc), Distinct(list), NEW t \in Proc, t = snip.pd, NEW name,
         \/ /\ snip.list = name /\ IsOn(list, t) /\ snip.prev = Prev(list, t)
            /\ LinkedAfter(t) = After(list, t)
         \/ /\ snip.list # name /\ ~ IsOn(list, t)
            /\ snip.prev = NoProc \/ ~ IsOn(list, snip.prev)
  PROVE  SnipIt(list, name) = Snip(list, t)
<1>1. NoProc \notin Proc
  BY ProcAssumption
<1>2. CASE /\ snip.list = name /\ IsOn(list, t) /\ snip.prev = Prev(list, t)
           /\ LinkedAfter(t) = After(list, t)
  <2>1. CASE Prev(list, t) = NoProc
    BY <1>1, <1>2, <2>1, SnipCuts DEF SnipIt
  <2>2. CASE Prev(list, t) # NoProc
    BY <1>1, <1>2, <2>2, SnipCuts DEF SnipIt
  <2> QED
    BY <2>1, <2>2
<1>3. CASE /\ snip.list # name /\ ~ IsOn(list, t)
           /\ snip.prev = NoProc \/ ~ IsOn(list, snip.prev)
  BY <1>3 DEF SnipIt, Snip
<1> QED
  BY <1>2, <1>3

\* The process before t on its list is on no other.
LEMMA PrevPlace ==
  ASSUME Typed, NEW list \in Seq(Proc), Distinct(list), NEW t \in Proc, IsOn(list, t)
  PROVE  Prev(list, t) = NoProc \/ (Prev(list, t) \in Proc /\ IsOn(list, Prev(list, t)))
  BY SnipCuts

\* Wherever t was found, the abort takes it off that list and leaves the others.
LEMMA AbortCuts ==
  ASSUME Typed, PlacesInv, NEW t \in Proc, t = snip.pd, StillThere(t), snip.list # "flag"
  PROVE  /\ SnipIt(rlr, "rlr") = Snip(rlr, t)
         /\ SnipIt(drl, "drl") = Snip(drl, t)
         /\ SnipIt(dlr, "dlr") = Snip(dlr, t)
         /\ snip.list = "slist" =>
              /\ u_dparam[t] \in SList /\ IsOn(slist[u_dparam[t]], t)
              /\ SnipIt(slist[u_dparam[t]], "slist") = Snip(slist[u_dparam[t]], t)
         /\ snip.list # "slist" => \A l \in SList : ~ IsOn(slist[l], t)
         /\ \A f \in Flag : flg_pd[f] # t
         /\ snip.list = "dlr" <=> IsOn(dlr, t)
         /\ IsOn(dlr, t) => LinkedAfter(t) = After(dlr, t)
<1>1. /\ rlr \in Seq(Proc) /\ drl \in Seq(Proc) /\ dlr \in Seq(Proc)
      /\ \A l \in SList : slist[l] \in Seq(Proc)
      /\ Distinct(rlr) /\ Distinct(drl) /\ Distinct(dlr)
      /\ \A l \in SList : Distinct(slist[l])
  BY DEF Typed, PlacesInv
<1>2. \A x \in Proc : PlaceOK(x)
  BY DEF PlacesInv
<1>3. CASE snip.list = "rlr" /\ IsOn(rlr, t) /\ snip.prev = Prev(rlr, t)
  <2>1. LinkedAfter(t) = After(rlr, t)
    BY <1>3 DEF LinkedAfter
  <2>2. /\ ~ IsOn(drl, t) /\ ~ IsOn(dlr, t) /\ \A l \in SList : ~ IsOn(slist[l], t)
        /\ \A f \in Flag : flg_pd[f] # t
    BY <1>2, <1>3 DEF PlaceOK
  <2>3. snip.prev = NoProc \/ (~ IsOn(drl, snip.prev) /\ ~ IsOn(dlr, snip.prev))
    BY <1>1, <1>2, <1>3, PrevPlace DEF PlaceOK
  <2>4. SnipIt(rlr, "rlr") = Snip(rlr, t)
    BY <1>1, <1>3, <2>1, SnipItCuts
  <2>5. SnipIt(drl, "drl") = Snip(drl, t) /\ SnipIt(dlr, "dlr") = Snip(dlr, t)
    BY <1>1, <1>3, <2>2, <2>3, SnipItCuts
  <2> QED
    BY <1>3, <2>2, <2>4, <2>5
<1>4. CASE snip.list = "drl" /\ IsOn(drl, t) /\ snip.prev = Prev(drl, t)
  <2>1. LinkedAfter(t) = After(drl, t)
    BY <1>2, <1>4 DEF LinkedAfter, PlaceOK
  <2>2. /\ ~ IsOn(rlr, t) /\ ~ IsOn(dlr, t) /\ \A l \in SList : ~ IsOn(slist[l], t)
        /\ \A f \in Flag : flg_pd[f] # t
    BY <1>2, <1>4 DEF PlaceOK
  <2>3. snip.prev = NoProc \/ (~ IsOn(rlr, snip.prev) /\ ~ IsOn(dlr, snip.prev))
    BY <1>1, <1>2, <1>4, PrevPlace DEF PlaceOK
  <2>4. SnipIt(drl, "drl") = Snip(drl, t)
    BY <1>1, <1>4, <2>1, SnipItCuts
  <2>5. SnipIt(rlr, "rlr") = Snip(rlr, t) /\ SnipIt(dlr, "dlr") = Snip(dlr, t)
    BY <1>1, <1>4, <2>2, <2>3, SnipItCuts
  <2> QED
    BY <1>4, <2>2, <2>4, <2>5
<1>5. CASE snip.list = "dlr" /\ IsOn(dlr, t) /\ snip.prev = Prev(dlr, t)
  <2>1. LinkedAfter(t) = After(dlr, t)
    BY <1>2, <1>5 DEF LinkedAfter, PlaceOK
  <2>2. /\ ~ IsOn(rlr, t) /\ ~ IsOn(drl, t) /\ \A l \in SList : ~ IsOn(slist[l], t)
        /\ \A f \in Flag : flg_pd[f] # t
    BY <1>2, <1>5 DEF PlaceOK
  <2>3. snip.prev = NoProc \/ (~ IsOn(rlr, snip.prev) /\ ~ IsOn(drl, snip.prev))
    BY <1>1, <1>2, <1>5, PrevPlace DEF PlaceOK
  <2>4. SnipIt(dlr, "dlr") = Snip(dlr, t)
    BY <1>1, <1>5, <2>1, SnipItCuts
  <2>5. SnipIt(rlr, "rlr") = Snip(rlr, t) /\ SnipIt(drl, "drl") = Snip(drl, t)
    BY <1>1, <1>5, <2>2, <2>3, SnipItCuts
  <2> QED
    BY <1>5, <2>1, <2>2, <2>4, <2>5
<1>6. CASE /\ snip.list = "slist" /\ u_dparam[t] \in SList
           /\ IsOn(slist[u_dparam[t]], t) /\ snip.prev = Prev(slist[u_dparam[t]], t)
  <2> PICK l \in SList : l = u_dparam[t]
    BY <1>6
  <2>1. /\ ~ IsOn(rlr, t) /\ ~ IsOn(drl, t) /\ ~ IsOn(dlr, t)
        /\ \A f \in Flag : flg_pd[f] # t
    BY <1>2, <1>6 DEF PlaceOK
  <2>2. LinkedAfter(t) = After(slist[l], t)
    BY <2>1 DEF LinkedAfter
  <2>3. \/ snip.prev = NoProc
        \/ ~ IsOn(rlr, snip.prev) /\ ~ IsOn(drl, snip.prev) /\ ~ IsOn(dlr, snip.prev)
    BY <1>1, <1>2, <1>6, PrevPlace DEF PlaceOK
  <2>4. SnipIt(slist[l], "slist") = Snip(slist[l], t)
    BY <1>1, <1>6, <2>2, SnipItCuts
  <2>5. /\ SnipIt(rlr, "rlr") = Snip(rlr, t) /\ SnipIt(drl, "drl") = Snip(drl, t)
        /\ SnipIt(dlr, "dlr") = Snip(dlr, t)
    BY <1>1, <1>6, <2>1, <2>3, SnipItCuts
  <2> QED
    BY <1>6, <2>1, <2>4, <2>5
<1> QED
  BY <1>3, <1>4, <1>5, <1>6 DEF StillThere

\* An abort that is not misled cuts its target off where it is, and has added the
\* ticks it still had.
LEMMA NotMisled ==
  ASSUME NEW p, AbortSnip(p), ~ misled', NEW t, t = snip.pd
  PROVE  /\ StillThere(t)
         /\ snip.list # "flag" => p_wait' = TicksAfterSnip(p_wait[t])
<1>1. CASE snip.list = "flag"
  BY <1>1 DEF AbortSnip
<1>2. CASE snip.list # "flag"
  <2>1. PICK n \in {p_wait[t], snip.ticks} :
          /\ p_wait' = TicksAfterSnip(n)
          /\ misled' = (~ StillThere(t) \/ (snip.list = "dlr" /\ n # p_wait[t]))
    BY <1>2 DEF AbortSnip
  <2>2. StillThere(t) /\ (snip.list = "dlr" => n = p_wait[t])
    BY <2>1
  <2>3. snip.list # "dlr" => TicksAfterSnip(n) = TicksAfterSnip(p_wait[t])
    BY DEF TicksAfterSnip
  <2> QED
    BY <2>1, <2>2, <2>3
<1> QED
  BY <1>1, <1>2

\* What the cut does to every list: t is on none of them.
LEMMA AbortSnipLists ==
  ASSUME IInv, NEW p \in Proc, AbortSnip(p), ~ misled', NEW t, t = snip.pd
  PROVE  /\ rlr' = Snip(rlr, t) /\ drl' = Snip(drl, t) /\ dlr' = Snip(dlr, t)
         /\ slist' \in [SList -> Seq(Proc)]
         /\ \A l \in SList : slist'[l] = Snip(slist[l], t)
         /\ flg_pd' \in [Flag -> Proc \cup {FlagOff, FlagOn}]
         /\ flg_ignore' \in [Flag -> Nat]
         /\ dev' \in [Proc -> Flag \cup {NoFlag}]
         /\ \A f \in Flag :
              /\ flg_pd'[f] = IF flg_pd[f] = t THEN FlagOff ELSE flg_pd[f]
              /\ flg_ignore'[f] = IF flg_pd[f] = t THEN flg_ignore[f] + 1 ELSE flg_ignore[f]
         /\ \A x \in Proc : dev'[x] = IF x = t THEN NoFlag ELSE dev[x]
<1>1. At(p, "abtsnip") /\ cpu = "process" /\ p = Running /\ pc[p] = "abtsnip"
  BY DEF AbortSnip, At
<1>2. /\ t \in Proc \ {p} /\ pc[t] \notin {"flagwait", "dead", "limbo"} /\ StillThere(t)
  BY <1>1, NotMisled DEF IInv, SnipInv
<1>3. /\ rlr \in Seq(Proc) /\ drl \in Seq(Proc) /\ dlr \in Seq(Proc)
      /\ slist \in [SList -> Seq(Proc)]
      /\ flg_pd \in [Flag -> Proc \cup {FlagOff, FlagOn}] /\ flg_ignore \in [Flag -> Nat]
      /\ dev \in [Proc -> Flag \cup {NoFlag}] /\ u_dparam \in [Proc -> SList \cup Flag \cup (0 .. MaxWait)]
  BY DEF IInv, Typed
<1>4. /\ Distinct(rlr) /\ Distinct(drl) /\ Distinct(dlr) /\ \A l \in SList : Distinct(slist[l])
      /\ PlaceOK(t)
  BY <1>2 DEF IInv, PlacesInv
<1>5. ASSUME NEW x \in Proc, NEW f \in Flag
      PROVE  /\ flg_pd[f] = x => dev[x] = f
             /\ dev[t] = f => flg_pd[f] = t
  BY <1>1, <1>2 DEF IInv, FlagInv, AtDcont
<1>6. CASE snip.list = "flag"
  <2> PICK f : f = u_dparam[t]
    OBVIOUS
  <2>1. /\ flg_ignore' = [flg_ignore EXCEPT ![f] = flg_ignore[f] + 1]
        /\ flg_pd' = [flg_pd EXCEPT ![f] = FlagOff]
        /\ dev' = [dev EXCEPT ![t] = NoFlag]
        /\ UNCHANGED <<rlr, drl, dlr, slist>>
    BY <1>6 DEF AbortSnip, IgnoreAfterSnip
  <2>2. f \in Flag /\ flg_pd[f] = t
    BY <1>2, <1>6 DEF StillThere
  <2>3. \A g \in Flag : flg_pd[g] = t <=> g = f
    BY <1>2, <1>5, <2>2
  <2>4. /\ ~ IsOn(rlr, t) /\ ~ IsOn(drl, t) /\ ~ IsOn(dlr, t)
        /\ \A l \in SList : ~ IsOn(slist[l], t)
    BY <1>4, <2>2 DEF PlaceOK
  <2>5. /\ Snip(rlr, t) = rlr /\ Snip(drl, t) = drl /\ Snip(dlr, t) = dlr
        /\ \A l \in SList : Snip(slist[l], t) = slist[l]
    BY <2>4 DEF Snip
  <2>6. /\ \A g \in Flag : flg_pd'[g] = IF g = f THEN FlagOff ELSE flg_pd[g]
        /\ \A g \in Flag : flg_ignore'[g] = IF g = f THEN flg_ignore[g] + 1 ELSE flg_ignore[g]
        /\ \A x \in Proc : dev'[x] = IF x = t THEN NoFlag ELSE dev[x]
    BY <1>3, <2>1
  <2>7. flg_pd' \in [Flag -> Proc \cup {FlagOff, FlagOn}]
    BY <1>3, <2>1
  <2>8. flg_ignore' \in [Flag -> Nat]
    <3>1. \A g \in Flag : flg_ignore[g] + 1 \in Nat
      BY <1>3
    <3> QED
      BY <1>3, <2>1, <2>2, <3>1
  <2>9. dev' \in [Proc -> Flag \cup {NoFlag}]
    BY <1>3, <2>1
  <2> QED
    BY <1>3, <2>1, <2>3, <2>5, <2>6, <2>7, <2>8, <2>9
<1>7. CASE snip.list # "flag"
  <2>1. /\ rlr' = SnipIt(rlr, "rlr") /\ drl' = SnipIt(drl, "drl") /\ dlr' = SnipIt(dlr, "dlr")
        /\ slist' = IF snip.list = "slist"
                    THEN [slist EXCEPT ![u_dparam[t]] = SnipIt(slist[u_dparam[t]], "slist")]
                    ELSE slist
        /\ flg_pd' = flg_pd /\ flg_ignore' = flg_ignore /\ dev' = dev
    BY <1>7 DEF AbortSnip
  <2>2. /\ SnipIt(rlr, "rlr") = Snip(rlr, t)
        /\ SnipIt(drl, "drl") = Snip(drl, t)
        /\ SnipIt(dlr, "dlr") = Snip(dlr, t)
        /\ snip.list = "slist" =>
             /\ u_dparam[t] \in SList /\ IsOn(slist[u_dparam[t]], t)
             /\ SnipIt(slist[u_dparam[t]], "slist") = Snip(slist[u_dparam[t]], t)
        /\ snip.list # "slist" => \A l \in SList : ~ IsOn(slist[l], t)
        /\ \A f \in Flag : flg_pd[f] # t
    BY <1>2, <1>7, AbortCuts DEF IInv
  <2>3. dev[t] = NoFlag
    BY <1>2, <1>3, <1>5, <2>2
  <2>4. slist' \in [SList -> Seq(Proc)] /\ \A l \in SList : slist'[l] = Snip(slist[l], t)
    <3>1. CASE snip.list = "slist"
      <4> PICK l \in SList : l = u_dparam[t]
        BY <2>2, <3>1
      <4>1. slist' = [slist EXCEPT ![l] = Snip(slist[l], t)]
        BY <2>1, <2>2, <3>1
      <4>2. Snip(slist[l], t) \in Seq(Proc)
        BY <1>3, SnipType
      <4>3. ASSUME NEW k \in SList, k # l PROVE Snip(slist[k], t) = slist[k]
        <5>1. ~ IsOn(slist[k], t)
          BY <1>4, <4>3 DEF PlaceOK
        <5> QED
          BY <5>1 DEF Snip
      <4> QED
        BY <1>3, <4>1, <4>2, <4>3
    <3>2. CASE snip.list # "slist"
      BY <1>3, <2>1, <2>2, <3>2 DEF Snip
    <3> QED
      BY <3>1, <3>2
  <2> QED
    BY <1>3, <2>1, <2>2, <2>3, <2>4
<1> QED
  BY <1>6, <1>7

\* The cut, in all.
LEMMA AbortSnipStep ==
  ASSUME IInv, NEW p \in Proc, AbortSnip(p), ~ misled'
  PROVE  IInv'
<1> PICK t : t = snip.pd
  OBVIOUS
<1>1. /\ At(p, "abtsnip")
      /\ target' = [target EXCEPT ![p] = t, ![t] = NoProc]
      /\ pc' = [pc EXCEPT ![p] = "abtput", ![t] = "limbo"]
      /\ snip' = NoSnip
      /\ \/ p_stat' = p_stat /\ cpu' = cpu
         \/ p_stat' = [p_stat EXCEPT ![p] = "run"] /\ cpu' = "dcont"
      /\ tick' = tick /\ pending' = pending /\ u_dparam' = u_dparam /\ p_prior' = p_prior
      /\ resource' = resource /\ u_in_int' = u_in_int /\ u_stat_sav' = u_stat_sav
  BY DEF AbortSnip, intVars
<1>2. /\ cpu = "process" /\ p = Running /\ pc[p] = "abtsnip" /\ rlr # <<>> /\ p = rlr[1]
      /\ 1 \in 1 .. Len(rlr) /\ IsOn(rlr, p) /\ p_stat[p] = "run" /\ p \notin u_in_int
      /\ \A x \in Proc : x # p /\ IsOn(rlr, x) => p_stat[x] = "run"
      /\ \A f \in Flag : flg_pd[f] # p
  BY <1>1, HerePlace DEF StatOf
<1>3. t \in Proc \ {p} /\ pc[t] \notin {"flagwait", "dead", "limbo"}
  BY <1>2 DEF IInv, SnipInv
<1>4. /\ rlr' = Snip(rlr, t) /\ drl' = Snip(drl, t) /\ dlr' = Snip(dlr, t)
      /\ slist' \in [SList -> Seq(Proc)]
      /\ \A l \in SList : slist'[l] = Snip(slist[l], t)
      /\ flg_pd' \in [Flag -> Proc \cup {FlagOff, FlagOn}]
      /\ flg_ignore' \in [Flag -> Nat]
      /\ dev' \in [Proc -> Flag \cup {NoFlag}]
      /\ \A f \in Flag :
           /\ flg_pd'[f] = IF flg_pd[f] = t THEN FlagOff ELSE flg_pd[f]
           /\ flg_ignore'[f] = IF flg_pd[f] = t THEN flg_ignore[f] + 1 ELSE flg_ignore[f]
      /\ \A x \in Proc : dev'[x] = IF x = t THEN NoFlag ELSE dev[x]
  BY AbortSnipLists
<1>5. /\ \A x \in Proc : /\ pc'[x] = IF x = t THEN "limbo" ELSE IF x = p THEN "abtput" ELSE pc[x]
                         /\ target'[x] = IF x = t THEN NoProc ELSE IF x = p THEN t ELSE target[x]
                         /\ p_stat'[x] = p_stat[x]
      /\ cpu' \in {"process", "dcont"}
  BY <1>1, <1>2, <1>3 DEF IInv, Typed
<1>6. /\ rlr \in Seq(Proc) /\ drl \in Seq(Proc) /\ dlr \in Seq(Proc)
      /\ \A l \in SList : slist[l] \in Seq(Proc)
      /\ Distinct(rlr) /\ Distinct(drl) /\ Distinct(dlr) /\ \A l \in SList : Distinct(slist[l])
  BY DEF IInv, Typed, PlacesInv
<1>7. /\ rlr' \in Seq(Proc) /\ drl' \in Seq(Proc) /\ dlr' \in Seq(Proc)
      /\ Distinct(rlr') /\ Distinct(drl') /\ Distinct(dlr')
      /\ \A l \in SList : Distinct(slist'[l])
  <2>1. /\ Snip(rlr, t) \in Seq(Proc) /\ Distinct(Snip(rlr, t))
        /\ Snip(drl, t) \in Seq(Proc) /\ Distinct(Snip(drl, t))
        /\ Snip(dlr, t) \in Seq(Proc) /\ Distinct(Snip(dlr, t))
    BY <1>6, SnipMembers
  <2>2. \A l \in SList : Distinct(Snip(slist[l], t))
    BY <1>6, SnipMembers
  <2> QED
    BY <1>4, <2>1, <2>2
<1>8. /\ \A x : IsOn(rlr', x) <=> x # t /\ IsOn(rlr, x)
      /\ \A x : IsOn(drl', x) <=> x # t /\ IsOn(drl, x)
      /\ \A x : IsOn(dlr', x) <=> x # t /\ IsOn(dlr, x)
      /\ \A l \in SList : \A x : IsOn(slist'[l], x) <=> x # t /\ IsOn(slist[l], x)
  BY <1>4, <1>6, SnipMembers
<1>9. rlr' # <<>> /\ Running' = p
  <2>1. Head(rlr) # t
    BY <1>2, <1>3 DEF Running
  <2> QED
    BY <1>2, <1>4, <1>6, <2>1, SnipMembers DEF Running
<1>10. FlagOff \notin Proc /\ FlagOn \notin Proc /\ FlagOff # FlagOn
  BY FlagAssumption
<1>11. Typed'
  <2>1. pc' \in [Proc -> PC] /\ p_stat' \in [Proc -> Stat] /\ cpu' \in Cpu
    BY <1>1, <1>5 DEF IInv, Typed, PC, Stat, Cpu
  <2>2. target' \in [Proc -> Proc \cup {NoProc}]
    BY <1>1, <1>3 DEF IInv, Typed
  <2>3. snip' \in [pd : Proc \cup {NoProc}, stat : Stat, prev : Proc \cup {NoProc},
                   list : {"none", "rlr", "drl", "dlr", "slist", "flag"},
                   ticks : {snip'.ticks}]
    BY <1>1 DEF NoSnip, Stat
  <2> QED
    BY <1>1, <1>4, <1>7, <2>1, <2>2, <2>3 DEF IInv, Typed
<1>12. PlacesInv'
  <2>1. ASSUME NEW x \in Proc, x # t PROVE PlaceOK(x)'
    <3>1. PlaceOK(x)
      BY DEF IInv, PlacesInv
    <3>2. IsOn(rlr, x) => p_stat'[x] = "run"
      BY <1>2, <1>5, <2>1
    <3>3. pc'[x] \in Gone <=> pc[x] \in Gone
      BY <1>2, <1>5, <2>1 DEF Gone
    <3>4. \A f \in Flag : flg_pd'[f] = x <=> flg_pd[f] = x
      BY <1>4, <1>10, <2>1
    <3>5. Stays(x)
      BY <1>1, <1>5, <1>8, <2>1, <3>2, <3>3, <3>4 DEF Stays
    <3> QED
      BY <3>1, <3>5, StaysOK
  <2>2. PlaceOK(t)'
    <3>1. /\ ~ IsOn(rlr', t) /\ ~ IsOn(drl', t) /\ ~ IsOn(dlr', t)
          /\ \A l \in SList : ~ IsOn(slist'[l], t)
      BY <1>8
    <3>2. \A f \in Flag : flg_pd'[f] # t
      BY <1>3, <1>4, <1>10
    <3>3. pc'[t] \in Gone
      BY <1>3, <1>5 DEF Gone
    <3> QED
      BY <3>1, <3>2, <3>3 DEF PlaceOK, OnList
  <2> QED
    BY <1>7, <2>1, <2>2 DEF PlacesInv
<1>13. RunInv' /\ PriorInv'
  BY <1>1, <1>9 DEF IInv, RunInv, PriorInv, MayWorsen
<1>14. StatInv'
  <2>1. ASSUME NEW x \in u_in_int', pc'[x] # "limbo" PROVE u_stat_sav'[x] \in StatOf(pc'[x])
    <3>1. x \in Proc /\ x # t /\ x # p /\ x \in u_in_int
      BY <1>1, <1>2, <1>5, <2>1 DEF IInv, Typed
    <3>2. pc'[x] = pc[x]
      BY <1>5, <3>1
    <3> QED
      BY <1>1, <2>1, <3>1, <3>2 DEF IInv, StatInv
  <2>2. \A x \in Proc : pc'[x] = "dsptch" => x \in u_in_int'
    BY <1>1, <1>2, <1>5 DEF IInv, StatInv
  <2>3. p_stat'[p] = "run" /\ pc'[p] = "abtput" /\ p \notin u_in_int'
    BY <1>1, <1>2, <1>3, <1>5
  <2> QED
    BY <1>9, <2>1, <2>2, <2>3 DEF StatInv, StatOf
<1>15. ParamInv'
  <2>1. u_in_int \subseteq Proc
    BY DEF IInv, Typed
  <2> QED
    BY <1>1, <1>5, <2>1 DEF IInv, ParamInv
<1>16. SnipInv'
  <2>1. \A x \in Proc : pc[x] \in {"abtfind", "abtsnip"} => x = p
    BY <1>2 DEF IInv, SnipInv
  <2>2. \A x \in Proc : pc'[x] \notin {"abtfind", "abtsnip"}
    BY <1>3, <1>5, <2>1
  <2> QED
    BY <2>2 DEF SnipInv
<1>17. TargetInv'
  <2>1. ASSUME NEW x \in Proc, pc'[x] = "abtput"
        PROVE  /\ target'[x] \in Proc /\ pc'[target'[x]] = "limbo"
               /\ x # p => pc[x] = "abtput" /\ target'[x] = target[x] /\ target'[x] # t
    <3>1. x # t
      BY <1>5, <2>1
    <3>2. CASE x = p
      BY <1>3, <1>5, <3>1, <3>2
    <3>3. CASE x # p
      <4>1. pc[x] = "abtput" /\ target'[x] = target[x]
        BY <1>5, <2>1, <3>1, <3>3
      <4>2. target[x] \in Proc /\ pc[target[x]] = "limbo"
        BY <4>1 DEF IInv, TargetInv
      <4>3. target[x] # t
        BY <1>3, <4>2
      <4>4. pc'[target[x]] = "limbo"
        BY <1>2, <1>5, <4>2, <4>3
      <4> QED
        BY <3>3, <4>1, <4>2, <4>3, <4>4
    <3> QED
      BY <3>2, <3>3
  <2>2. target'[p] = t
    BY <1>3, <1>5
  <2>3. ASSUME NEW x \in Proc, NEW y \in Proc, pc'[x] = "abtput", pc'[y] = "abtput",
               target'[x] = target'[y]
        PROVE  x = y
    <3>1. CASE x = p \/ y = p
      BY <2>1, <2>2, <2>3, <3>1
    <3>2. CASE x # p /\ y # p
      BY <2>1, <2>3, <3>2 DEF IInv, TargetInv
    <3> QED
      BY <3>1, <3>2
  <2> QED
    BY <2>1, <2>3 DEF TargetInv
<1>18. FlagInv'
  <2>1. \A x \in Proc, f \in Flag : ~ AtDcont(x, f) /\ ~ AtDcont(x, f)'
    BY <1>2, <1>5, <1>9 DEF AtDcont
  <2>2. ASSUME NEW x \in Proc, NEW f \in Flag
        PROVE  /\ dev'[x] = f => pc'[x] = "flagwait" \/ flg_pd'[f] = x
               /\ flg_pd'[f] = x => dev'[x] = f /\ pc'[x] # "flagwait"
    <3>1. /\ dev[x] = f => pc[x] = "flagwait" \/ flg_pd[f] = x
          /\ flg_pd[f] = x => dev[x] = f /\ pc[x] # "flagwait"
      BY <2>1 DEF IInv, FlagInv
    <3>2. f # NoFlag
      BY FlagAssumption
    <3>3. CASE x = t
      BY <1>3, <1>4, <1>10, <3>2, <3>3
    <3>4. CASE x # t
      <4>1. flg_pd'[f] = x <=> flg_pd[f] = x
        BY <1>4, <1>10, <3>4
      <4>2. dev'[x] = dev[x]
        BY <1>4, <3>4
      <4>3. pc[x] = "flagwait" <=> pc'[x] = "flagwait"
        BY <1>2, <1>5, <3>4
      <4> QED
        BY <3>1, <4>1, <4>2, <4>3
    <3> QED
      BY <3>3, <3>4
  <2>3. ASSUME NEW x \in Proc, pc'[x] = "flagwait" PROVE dev'[x] \in Flag
    <3>1. x # t /\ pc[x] = "flagwait"
      BY <1>5, <2>3
    <3> QED
      BY <1>4, <3>1 DEF IInv, FlagInv
  <2>4. ASSUME NEW x \in Proc, NEW y \in Proc, dev'[x] = dev'[y], dev'[x] # NoFlag
        PROVE  x = y
    BY <1>4, <2>4 DEF IInv, FlagInv
  <2> QED
    BY <2>1, <2>2, <2>3, <2>4 DEF FlagInv
<1>19. FlagsCount'
  <2>1. ASSUME NEW f \in Flag
        PROVE  pending'[f] + (IF flg_pd'[f] = FlagOn THEN 1 ELSE 0)
                 = flg_ignore'[f] + (IF \E x \in Proc : dev'[x] = f THEN 1 ELSE 0)
    <3>1. pending[f] + (IF flg_pd[f] = FlagOn THEN 1 ELSE 0)
            = flg_ignore[f] + (IF \E x \in Proc : dev[x] = f THEN 1 ELSE 0)
      BY DEF IInv, FlagsCount
    <3>2. pending'[f] = pending[f] /\ flg_ignore[f] \in Nat /\ f # NoFlag
      BY <1>1, FlagAssumption DEF IInv, Typed
    <3>3. dev[t] = f <=> flg_pd[f] = t
      BY <1>2, <1>3 DEF IInv, FlagInv, AtDcont
    <3>4. CASE flg_pd[f] = t
      <4>1. flg_pd[f] # FlagOn /\ flg_pd'[f] # FlagOn /\ flg_ignore'[f] = flg_ignore[f] + 1
        BY <1>3, <1>4, <1>10, <3>4
      <4>2. \E x \in Proc : dev[x] = f
        BY <1>3, <3>3, <3>4
      <4>3. ~ \E x \in Proc : dev'[x] = f
        BY <1>3, <1>4, <3>2, <3>3, <3>4 DEF IInv, FlagInv
      <4> QED
        BY <3>1, <3>2, <4>1, <4>2, <4>3
    <3>5. CASE flg_pd[f] # t
      <4>1. flg_pd'[f] = flg_pd[f] /\ flg_ignore'[f] = flg_ignore[f]
        BY <1>4, <3>5
      <4>2. \A x \in Proc : dev'[x] = f <=> dev[x] = f
        BY <1>4, <3>2, <3>3, <3>5
      <4> QED
        BY <3>1, <3>2, <4>1, <4>2
    <3> QED
      BY <3>4, <3>5
  <2> QED
    BY <2>1 DEF FlagsCount
<1>20. RlrSorted'
  <2>1. CASE ~ IsOn(rlr, t)
    <3>1. rlr' = rlr
      BY <1>4, <2>1 DEF Snip
    <3> QED
      BY <1>1, <1>2, <1>5, <1>9, <3>1 DEF IInv, RlrSorted, MayWorsen
  <2>2. CASE IsOn(rlr, t)
    <3> PICK n \in Nat : n = Len(rlr)
      BY <1>6
    <3>1. PICK k \in 1 .. n : rlr[k] = t
      BY <2>2 DEF IsOn
    <3>2. k # 1
      BY <1>2, <1>3, <3>1
    <3>3. /\ Len(rlr') = n - 1
          /\ \A j \in 1 .. n - 1 : rlr'[j] = IF j < k THEN rlr[j] ELSE rlr[j + 1]
      <4>1. rlr \in Seq(Proc) /\ Distinct(rlr) /\ k \in 1 .. Len(rlr)
        BY <1>6 DEF IInv, PlacesInv
      <4>2. /\ Len(Snip(rlr, t)) = Len(rlr) - 1
            /\ \A j \in 1 .. Len(rlr) - 1 :
                 Snip(rlr, t)[j] = IF j < k THEN rlr[j] ELSE rlr[j + 1]
        BY <3>1, <4>1, SnipAt
      <4> QED
        BY <1>4, <4>2
    <3>4. \A i, j \in 1 .. n : i < j =>
            \/ p_prior[rlr[i]] <= p_prior[rlr[j]]
            \/ i = 1 /\ MayWorsen(p)
      BY <1>2 DEF IInv, RlrSorted
    <3>5. ASSUME NEW i \in 1 .. n - 1, NEW j \in 1 .. n - 1, i < j
          PROVE  p_prior[rlr'[i]] <= p_prior[rlr'[j]] \/ (i = 1 /\ MayWorsen(p))
      <4> PICK a \in 1 .. n : a = IF i < k THEN i ELSE i + 1
        OBVIOUS
      <4> PICK b \in 1 .. n : b = IF j < k THEN j ELSE j + 1
        OBVIOUS
      <4>1. rlr'[i] = rlr[a] /\ rlr'[j] = rlr[b]
        BY <3>3
      <4>2. a < b /\ (a = 1 => i = 1)
        BY <3>2, <3>5
      <4> QED
        BY <3>4, <4>1, <4>2
    <3> QED
      BY <1>1, <1>5, <1>9, <3>3, <3>5 DEF RlrSorted, MayWorsen
  <2> QED
    BY <2>1, <2>2
<1> QED
  BY <1>11, <1>12, <1>13, <1>14, <1>15, <1>16, <1>17, <1>18, <1>19, <1>20 DEF IInv
----------------------------------------------------------------------------
(* Interrupts.                                                              *)

\* fdisp: it returns to the process that was interrupted, or takes it out of
\* context.
LEMMA FdispCases ==
  ASSUME NEW stat, Fdisp(stat)
  PROVE  \/ /\ p_stat' = stat /\ u_in_int' = u_in_int /\ u_stat_sav' = u_stat_sav
            /\ cpu' = cpu
         \/ /\ cpu = "process" /\ cpu' = "dcont"
            /\ pc[Running] \notin {"abtfind", "abtsnip"}
            /\ p_stat' = [stat EXCEPT ![Running] = "run"]
            /\ u_stat_sav' = [u_stat_sav EXCEPT ![Running] = stat[Running]]
            /\ u_in_int' = u_in_int \cup {Running}
<1> PICK skip : skip = SkipDispatch([stat EXCEPT ![Running] = "run"])
  OBVIOUS
<1>1. IF InDisp \/ skip
      THEN p_stat' = stat /\ UNCHANGED <<intVars, cpu>>
      ELSE /\ p_stat' = [stat EXCEPT ![Running] = "run"]
           /\ u_stat_sav' = [u_stat_sav EXCEPT ![Running] = stat[Running]]
           /\ u_in_int' = u_in_int \cup {Running}
           /\ cpu' = "dcont"
  BY DEF Fdisp
<1> QED
  BY <1>1 DEF InDisp, intVars

\* An interrupt routine makes those of W ready, which delayed or waited for a
\* flag, and calls the dispatcher.
LEMMA InterruptStep ==
  ASSUME IInv, NEW W \in SUBSET Proc, NEW stat \in [Proc -> Stat], Fdisp(stat),
         \A x \in Proc : stat[x] = IF x \in W THEN "run" ELSE p_stat[x],
         \A x \in W : IsOn(dlr, x) \/ \E f \in Flag : flg_pd[f] = x,
         drl' \in Seq(Proc), dlr' \in Seq(Proc), Distinct(drl'), Distinct(dlr'),
         \A x \in Proc : IsOn(drl', x) <=> x \in W \/ IsOn(drl, x),
         \A x \in Proc : IsOn(dlr', x) <=> x \notin W /\ IsOn(dlr, x),
         \A x \in Proc, f \in Flag : flg_pd'[f] = x <=> x \notin W /\ flg_pd[f] = x,
         tick' \in BOOLEAN, flg_pd' \in [Flag -> Proc \cup {FlagOff, FlagOn}],
         flg_ignore' \in [Flag -> Nat], pending' \in [Flag -> 0 .. MaxPending],
         dev' \in [Proc -> Flag \cup {NoFlag}], resource' \subseteq Proc,
         \A x \in Proc : dev'[x] = IF x \in W /\ \E f \in Flag : flg_pd[f] = x
                                   THEN NoFlag ELSE dev[x],
         FlagsCount', UNCHANGED <<rlr, slist, u_dparam, p_prior, pc, target, snip>>
  PROVE  IInv'
<1>1. /\ rlr' = rlr /\ slist' = slist /\ u_dparam' = u_dparam /\ p_prior' = p_prior
      /\ pc' = pc /\ target' = target /\ snip' = snip /\ Running' = Running
  BY DEF Running
<1>2. \/ /\ p_stat' = stat /\ u_in_int' = u_in_int /\ u_stat_sav' = u_stat_sav
         /\ cpu' = cpu
      \/ /\ cpu = "process" /\ cpu' = "dcont"
         /\ pc[Running] \notin {"abtfind", "abtsnip"}
         /\ p_stat' = [stat EXCEPT ![Running] = "run"]
         /\ u_stat_sav' = [u_stat_sav EXCEPT ![Running] = stat[Running]]
         /\ u_in_int' = u_in_int \cup {Running}
  BY FdispCases
<1>3. ASSUME cpu \in {"process", "dcont", "switch"}
      PROVE  rlr # <<>> /\ Running \in Proc /\ IsOn(rlr, Running) /\ Running \notin W
  <2>1. rlr # <<>>
    BY <1>3 DEF IInv, RunInv
  <2> QED
    BY <2>1, RunningPlace DEF IInv
<1>4. \A x \in Proc : PlaceOK(x)
  BY DEF IInv, PlacesInv
<1>5. \A x \in W : p_stat[x] # "run" /\ ~ IsOn(rlr, x) /\ ~ IsOn(drl, x)
                   /\ (\A l \in SList : ~ IsOn(slist[l], x)) /\ pc[x] \notin Gone
  <2> TAKE x \in W
  <2>1. PlaceOK(x) /\ OnList(x)
    BY <1>4 DEF OnList
  <2>2. CASE IsOn(dlr, x)
    BY <2>1, <2>2 DEF PlaceOK
  <2>3. CASE \E f \in Flag : flg_pd[f] = x
    BY <2>1, <2>3 DEF PlaceOK
  <2> QED
    BY <2>2, <2>3
<1>6. \A x \in Proc : \/ p_stat'[x] = IF x \in W THEN "run" ELSE p_stat[x]
                      \/ /\ x = Running /\ cpu = "process" /\ cpu' = "dcont"
                         /\ p_stat'[x] = "run"
  BY <1>2
<1>7. \A x \in Proc : \/ /\ x \in u_in_int' <=> x \in u_in_int
                         /\ u_stat_sav'[x] = u_stat_sav[x]
                      \/ /\ x = Running /\ cpu = "process" /\ cpu' = "dcont"
                         /\ x \in u_in_int' /\ u_stat_sav'[x] = p_stat[x]
  <2> TAKE x \in Proc
  <2>1. u_stat_sav \in [Proc -> Stat]
    BY DEF IInv, Typed
  <2> QED
    BY <1>2, <1>3, <2>1
<1>8. cpu' = cpu \/ (cpu = "process" /\ cpu' = "dcont")
  BY <1>2
<1>9. Typed'
  <2>1. p_stat' \in [Proc -> Stat] /\ u_stat_sav' \in [Proc -> Stat]
    <3>1. u_stat_sav \in [Proc -> Stat]
      BY DEF IInv, Typed
    <3>2. CASE /\ cpu = "process" /\ p_stat' = [stat EXCEPT ![Running] = "run"]
               /\ u_stat_sav' = [u_stat_sav EXCEPT ![Running] = stat[Running]]
      <4>1. Running \in Proc /\ stat[Running] \in Stat /\ "run" \in Stat
        BY <1>3, <3>2 DEF Stat
      <4> QED
        BY <3>1, <3>2, <4>1
    <3> QED
      BY <1>2, <3>1, <3>2
  <2>2. u_in_int' \subseteq Proc /\ cpu' \in Cpu
    BY <1>2, <1>3 DEF IInv, Typed, Cpu
  <2> QED
    BY <1>1, <2>1, <2>2 DEF IInv, Typed
<1>10. PlacesInv'
  <2>1. ASSUME NEW x \in Proc, x \notin W PROVE PlaceOK(x)'
    <3>1. PlaceOK(x)
      BY <1>4
    <3>2. IsOn(rlr, x) => p_stat'[x] = "run" \/ (x = Running' /\ cpu' \in {"process", "dcont"})
      BY <1>1, <1>6, <1>8, <2>1, <3>1 DEF PlaceOK
    <3>3. ~ IsOn(rlr, x) => p_stat'[x] = p_stat[x]
      BY <1>3, <1>6, <2>1
    <3>4. Stays(x)
      BY <1>1, <2>1, <3>2, <3>3 DEF Stays
    <3> QED
      BY <3>1, <3>4, StaysOK
  <2>2. ASSUME NEW x \in W PROVE PlaceOK(x)'
    <3>1. /\ ~ IsOn(rlr', x) /\ IsOn(drl', x) /\ ~ IsOn(dlr', x)
          /\ \A l \in SList : ~ IsOn(slist'[l], x)
          /\ \A f \in Flag : flg_pd'[f] # x
          /\ pc'[x] \notin Gone
      BY <1>1, <1>5
    <3> QED
      BY <3>1 DEF PlaceOK, OnList
  <2> QED
    BY <1>1, <2>1, <2>2 DEF IInv, PlacesInv
<1>11. RunInv' /\ PriorInv' /\ TargetInv'
  BY <1>1, <1>8 DEF IInv, RunInv, PriorInv, MayWorsen, TargetInv
<1>12. StatInv'
  <2>1. ASSUME cpu' = "process"
        PROVE  p_stat'[Running'] \in StatOf(pc'[Running']) /\ Running' \notin u_in_int'
    <3>1. cpu = "process"
      BY <1>8, <2>1
    <3>2. p_stat'[Running] = p_stat[Running] /\ Running \notin u_in_int'
      BY <1>3, <1>6, <1>7, <2>1, <3>1 DEF IInv, StatInv
    <3> QED
      BY <1>1, <3>1, <3>2 DEF IInv, StatInv
  <2>2. ASSUME NEW x \in u_in_int', pc'[x] # "limbo" PROVE u_stat_sav'[x] \in StatOf(pc'[x])
    <3>1. x \in Proc
      BY <1>9 DEF Typed
    <3> QED
      BY <1>1, <1>7, <2>2, <3>1 DEF IInv, StatInv
  <2>3. ASSUME NEW x \in Proc, pc'[x] = "dsptch"
        PROVE  x \in u_in_int' \/ (cpu' = "process" /\ x = Running')
    <3>1. x \in u_in_int \/ (cpu = "process" /\ x = Running)
      BY <1>1, <2>3 DEF IInv, StatInv
    <3>2. CASE x \in u_in_int
      BY <1>2, <3>2
    <3>3. CASE cpu = "process" /\ x = Running
      BY <1>1, <1>2, <3>3
    <3> QED
      BY <3>1, <3>2, <3>3
  <2>4. cpu' = "dcont" => p_stat'[Running'] = "run" \/ pc'[Running'] = "user"
    <3>1. CASE cpu = "dcont"
      <4>1. p_stat'[Running] = p_stat[Running]
        BY <1>3, <1>6, <3>1
      <4> QED
        BY <1>1, <3>1, <4>1 DEF IInv, StatInv
    <3>2. CASE cpu # "dcont"
      <4>1. cpu' = "dcont" => p_stat'[Running] = "run"
        BY <1>2, <1>3, <3>2
      <4> QED
        BY <1>1, <4>1
    <3> QED
      BY <3>1, <3>2
  <2> QED
    BY <2>1, <2>2, <2>3, <2>4 DEF StatInv
<1>13. ParamInv'
  <2>1. ASSUME NEW x \in Proc PROVE ParamOK(p_stat'[x], u_dparam'[x])
    <3>1. p_stat'[x] = "run" \/ p_stat'[x] = p_stat[x]
      BY <1>6
    <3> QED
      BY <1>1, <3>1 DEF IInv, ParamInv, ParamOK
  <2>2. ASSUME NEW x \in u_in_int' PROVE ParamOK(u_stat_sav'[x], u_dparam'[x])
    <3>1. x \in Proc
      BY <1>9 DEF Typed
    <3> QED
      BY <1>1, <1>7, <3>1 DEF IInv, ParamInv
  <2> QED
    BY <2>1, <2>2 DEF ParamInv
<1>14. SnipInv'
  <2>1. ASSUME NEW x \in Proc, pc[x] \in {"abtfind", "abtsnip"}
        PROVE  cpu' = "process" /\ x = Running'
    <3>1. cpu = "process" /\ x = Running
      BY <2>1 DEF IInv, SnipInv
    <3>2. cpu' = cpu
      BY <1>2, <2>1, <3>1
    <3> QED
      BY <1>1, <3>1, <3>2
  <2> QED
    BY <1>1, <2>1 DEF IInv, SnipInv
<1>15. FlagInv'
  <2>1. ASSUME NEW x \in Proc, NEW f \in Flag PROVE AtDcont(x, f)' <=> AtDcont(x, f)
    <3>1. CASE cpu = "dcont"
      <4>1. cpu' = "dcont" /\ p_stat'[Running] = p_stat[Running]
        BY <1>3, <1>6, <1>8, <3>1
      <4> QED
        BY <1>1, <3>1, <4>1 DEF AtDcont
    <3>2. CASE cpu # "dcont"
      <4>1. cpu' = "dcont" => p_stat'[Running] = "run"
        BY <1>2, <1>3, <3>2
      <4> QED
        BY <1>1, <3>2, <4>1 DEF AtDcont
    <3> QED
      BY <3>1, <3>2
  <2>2. ASSUME NEW x \in Proc, NEW f \in Flag
        PROVE  /\ dev[x] = f => pc[x] = "flagwait" \/ AtDcont(x, f) \/ flg_pd[f] = x
               /\ flg_pd[f] = x \/ AtDcont(x, f) => dev[x] = f /\ pc[x] # "flagwait"
    BY DEF IInv, FlagInv
  <2>3. ASSUME NEW x \in Proc, NEW f \in Flag, AtDcont(x, f) PROVE x \notin W
    BY <1>3, <2>3 DEF AtDcont
  <2>4. ASSUME NEW x \in Proc, NEW f \in Flag
        PROVE  /\ dev'[x] = f => pc[x] = "flagwait" \/ AtDcont(x, f) \/ flg_pd'[f] = x
               /\ flg_pd'[f] = x \/ AtDcont(x, f) => dev'[x] = f /\ pc[x] # "flagwait"
    <3>1. f # NoFlag
      BY FlagAssumption
    <3>2. CASE x \in W
      BY <2>2, <2>3, <3>1, <3>2
    <3>3. CASE x \notin W
      BY <2>2, <3>3
    <3> QED
      BY <3>2, <3>3
  <2>5. ASSUME NEW x \in Proc, pc[x] = "flagwait" PROVE dev'[x] \in Flag
    BY <2>2, <2>5 DEF IInv, FlagInv
  <2>6. ASSUME NEW x \in Proc, NEW y \in Proc, dev'[x] = dev'[y], dev'[x] # NoFlag
        PROVE  x = y
    <3>1. dev[x] = dev'[x] /\ dev[y] = dev'[y]
      BY <2>6
    <3>2. dev[x] = dev[y] /\ dev[x] # NoFlag
      BY <2>6, <3>1
    <3> QED
      BY <3>2 DEF IInv, FlagInv
  <2> QED
    BY <1>1, <2>1, <2>4, <2>5, <2>6 DEF FlagInv
<1>16. RlrSorted'
  BY <1>1, <1>8 DEF IInv, RlrSorted, MayWorsen
<1> QED
  BY <1>9, <1>10, <1>11, <1>12, <1>13, <1>14, <1>15, <1>16 DEF IInv

\* The processes that expire are the first on the delay list.
LEMMA ExpiredFront ==
  ASSUME dlr \in Seq(Proc), NEW k, k = Cardinality(Expired)
  PROVE  k \in 0 .. Len(dlr) /\ Expired = 1 .. k
<1>1. Len(dlr) \in Nat
  OBVIOUS
<1>2. Expired \in SUBSET (1 .. Len(dlr))
  BY DEF Expired
<1>3. ASSUME NEW i \in Expired, NEW j \in 1 .. i PROVE j \in Expired
  <2>1. /\ Expired = {m \in 1 .. Len(dlr) : \A n \in 2 .. m : p_wait[dlr[n]] = 0}
        /\ i \in 1 .. Len(dlr)
    BY DEF Expired
  <2>2. j \in 1 .. Len(dlr) /\ \A n \in 2 .. j : n \in 2 .. i
    BY <1>1, <2>1
  <2> QED
    BY <2>1, <2>2
<1> QED
  BY <1>1, <1>2, <1>3, ScanFront

\* The lists after the tick flag is set.
LEMMA TickLists ==
  ASSUME IInv, FlagSetTick
  PROVE  \E W \in SUBSET Proc :
           /\ drl' \in Seq(Proc) /\ dlr' \in Seq(Proc) /\ Distinct(drl') /\ Distinct(dlr')
           /\ \A x \in W : IsOn(dlr, x)
           /\ \A x \in Proc : IsOn(drl', x) <=> x \in W \/ IsOn(drl, x)
           /\ \A x \in Proc : IsOn(dlr', x) <=> x \notin W /\ IsOn(dlr, x)
           /\ Fdisp([x \in Proc |-> IF x \in W THEN "run" ELSE p_stat[x]])
<1> PICK n \in Nat : n = Len(dlr)
  <2>1. dlr \in Seq(Proc)
    BY DEF IInv, Typed
  <2> QED
    BY <2>1
<1>1. /\ dlr \in Seq(Proc) /\ drl \in Seq(Proc) /\ Distinct(dlr) /\ Distinct(drl)
      /\ \A i \in 1 .. n : dlr[i] \in Proc
  BY DEF IInv, Typed, PlacesInv
<1> PICK k \in 0 .. n : k = Cardinality(Expired)
  BY <1>1, ExpiredFront
<1> PICK front : front = [i \in 1 .. k |-> dlr[k + 1 - i]]
  OBVIOUS
<1>2. /\ drl' = front \o drl /\ dlr' = SubSeq(dlr, k + 1, n)
      /\ Fdisp([x \in Proc |-> IF \E i \in 1 .. k : x = dlr[i] THEN "run" ELSE p_stat[x]])
  BY DEF FlagSetTick
<1> PICK W \in SUBSET Proc : W = {x \in Proc : \E i \in 1 .. k : x = dlr[i]}
  OBVIOUS
<1>3. \A x \in Proc : x \in W <=> \E i \in 1 .. k : x = dlr[i]
  OBVIOUS
<1>4. [x \in Proc |-> IF \E i \in 1 .. k : x = dlr[i] THEN "run" ELSE p_stat[x]]
        = [x \in Proc |-> IF x \in W THEN "run" ELSE p_stat[x]]
  BY <1>3
<1>5. \A i \in 1 .. k : i \in 1 .. n
  OBVIOUS
<1>6. \A x \in W : IsOn(dlr, x)
  BY <1>3, <1>5 DEF IsOn
<1>7. /\ front \in Seq(Proc) /\ Distinct(front)
      /\ \A x : IsOn(front, x) <=> \E i \in 1 .. k : dlr[i] = x
  BY <1>1, ReversedMembers
<1>8. /\ dlr' \in Seq(Proc) /\ Distinct(dlr')
      /\ \A x : IsOn(dlr', x) <=> \E i \in k + 1 .. n : dlr[i] = x
  BY <1>1, <1>2, BackMembers
<1>9. \A x \in Proc : ~ (IsOn(front, x) /\ IsOn(drl, x))
  BY <1>3, <1>6, <1>7 DEF IInv, PlacesInv, PlaceOK
<1>10. /\ drl' \in Seq(Proc) /\ Distinct(drl')
       /\ \A x \in Proc : IsOn(drl', x) <=> x \in W \/ IsOn(drl, x)
  <2>1. /\ drl' \in Seq(Proc) /\ Distinct(drl')
        /\ \A x : IsOn(drl', x) <=> IsOn(front, x) \/ IsOn(drl, x)
    BY <1>1, <1>2, <1>7, <1>9, JoinMembers
  <2> QED
    BY <1>3, <1>7, <2>1
<1>11. ASSUME NEW x \in Proc PROVE IsOn(dlr', x) <=> x \notin W /\ IsOn(dlr, x)
  <2>1. ASSUME NEW i \in k + 1 .. n, dlr[i] = x PROVE x \notin W /\ IsOn(dlr, x)
    <3>1. i \in 1 .. n /\ \A j \in 1 .. k : j # i
      OBVIOUS
    <3>2. \A j \in 1 .. k : dlr[j] # x
      BY <1>1, <1>5, <2>1, <3>1 DEF Distinct
    <3> QED
      BY <1>3, <2>1, <3>1, <3>2 DEF IsOn
  <2>2. ASSUME NEW i \in 1 .. n, dlr[i] = x, x \notin W PROVE i \in k + 1 .. n
    BY <1>3, <2>2
  <2> QED
    BY <1>8, <2>1, <2>2 DEF IsOn
<1> QED
  BY <1>2, <1>4, <1>6, <1>8, <1>10, <1>11

\* The clock interrupt.
LEMMA ClockIntStep ==
  ASSUME IInv, ClockInt
  PROVE  IInv'
<1>2. /\ rlr' = rlr /\ slist' = slist /\ u_dparam' = u_dparam /\ p_prior' = p_prior
      /\ pc' = pc /\ target' = target /\ snip' = snip /\ resource' = resource
      /\ flg_pd' = flg_pd /\ flg_ignore' = flg_ignore /\ pending' = pending /\ dev' = dev
  BY DEF ClockInt, flagVars, abortVars
<1>3. FlagsCount'
  BY <1>2 DEF IInv, FlagsCount
<1>4. /\ flg_pd' \in [Flag -> Proc \cup {FlagOff, FlagOn}]
      /\ flg_ignore' \in [Flag -> Nat] /\ pending' \in [Flag -> 0 .. MaxPending]
      /\ dev' \in [Proc -> Flag \cup {NoFlag}] /\ resource' \subseteq Proc
      /\ p_stat \in [Proc -> Stat] /\ "run" \in Stat
  BY <1>2 DEF IInv, Typed, Stat
<1>5. \A x \in Proc, f \in Flag : IsOn(dlr, x) => flg_pd[f] # x
  BY DEF IInv, PlacesInv, PlaceOK
<1>6. CASE FlagSetTick
  <2>1. PICK W \in SUBSET Proc :
          /\ drl' \in Seq(Proc) /\ dlr' \in Seq(Proc) /\ Distinct(drl') /\ Distinct(dlr')
          /\ \A x \in W : IsOn(dlr, x)
          /\ \A x \in Proc : IsOn(drl', x) <=> x \in W \/ IsOn(drl, x)
          /\ \A x \in Proc : IsOn(dlr', x) <=> x \notin W /\ IsOn(dlr, x)
          /\ Fdisp([x \in Proc |-> IF x \in W THEN "run" ELSE p_stat[x]])
    BY <1>6, TickLists
  <2> PICK stat : stat = [x \in Proc |-> IF x \in W THEN "run" ELSE p_stat[x]]
    OBVIOUS
  <2>2. stat \in [Proc -> Stat] /\ Fdisp(stat)
        /\ \A x \in Proc : stat[x] = IF x \in W THEN "run" ELSE p_stat[x]
    BY <1>4, <2>1
  <2>3. \A x \in Proc, f \in Flag : flg_pd'[f] = x <=> x \notin W /\ flg_pd[f] = x
    BY <1>2, <1>5, <2>1
  <2>4. \A x \in Proc : dev'[x] = IF x \in W /\ \E f \in Flag : flg_pd[f] = x
                                  THEN NoFlag ELSE dev[x]
    BY <1>2, <1>5, <2>1
  <2>5. tick' \in BOOLEAN
    <3>1. tick' = (Cardinality(Expired) < Len(dlr))
      BY <1>6 DEF FlagSetTick
    <3> QED
      BY <3>1
  <2> QED
    BY <1>2, <1>3, <1>4, <2>1, <2>2, <2>3, <2>4, <2>5, InterruptStep
<1>7. CASE UNCHANGED <<drl, dlr, timeVars>> /\ Fdisp(p_stat)
  <2>1. /\ drl' = drl /\ dlr' = dlr /\ tick' = tick
        /\ drl \in Seq(Proc) /\ dlr \in Seq(Proc) /\ Distinct(drl) /\ Distinct(dlr)
        /\ tick \in BOOLEAN
    BY <1>7 DEF timeVars, IInv, Typed, PlacesInv
  <2> PICK W \in SUBSET Proc : W = {}
    OBVIOUS
  <2> QED
    BY <1>2, <1>3, <1>4, <1>7, <2>1, InterruptStep
<1> QED
  BY <1>6, <1>7 DEF ClockInt

\* The interrupt of a device.
LEMMA FlagIntStep ==
  ASSUME IInv, NEW f \in Flag, FlagInt(f)
  PROVE  IInv'
<1>2. /\ rlr' = rlr /\ slist' = slist /\ u_dparam' = u_dparam /\ p_prior' = p_prior
      /\ pc' = pc /\ target' = target /\ snip' = snip /\ dlr' = dlr /\ tick' = tick
      /\ pending[f] > 0 /\ pending' = [pending EXCEPT ![f] = @ - 1]
  BY DEF FlagInt, timeVars, abortVars
<1>3. /\ flg_pd \in [Flag -> Proc \cup {FlagOff, FlagOn}]
      /\ flg_ignore \in [Flag -> Nat] /\ pending \in [Flag -> 0 .. MaxPending]
      /\ dev \in [Proc -> Flag \cup {NoFlag}] /\ resource \subseteq Proc
      /\ p_stat \in [Proc -> Stat] /\ tick \in BOOLEAN /\ "run" \in Stat
      /\ drl \in Seq(Proc) /\ dlr \in Seq(Proc) /\ Distinct(drl) /\ Distinct(dlr)
  BY DEF IInv, Typed, Stat, PlacesInv
<1>4. /\ pending' \in [Flag -> 0 .. MaxPending] /\ pending[f] \in Nat
      /\ \A g \in Flag : pending'[g] = IF g = f THEN pending[f] - 1 ELSE pending[g]
  BY <1>2, <1>3, BoundAssumption
<1>5. FlagOff \notin Proc /\ FlagOn \notin Proc /\ FlagOff # FlagOn /\ f # NoFlag
  BY FlagAssumption
<1>6. \A g \in Flag : pending[g] + (IF flg_pd[g] = FlagOn THEN 1 ELSE 0)
                        = flg_ignore[g] + (IF \E x \in Proc : dev[x] = g THEN 1 ELSE 0)
  BY DEF IInv, FlagsCount
<1>7. ASSUME flg_pd' \in [Flag -> Proc \cup {FlagOff, FlagOn}],
             \A x \in Proc, g \in Flag : flg_pd'[g] = x <=> flg_pd[g] = x,
             flg_ignore' \in [Flag -> Nat], FlagsCount', Fdisp(p_stat),
             UNCHANGED <<drl, dev, resource>>
      PROVE  IInv'
  <2> PICK W \in SUBSET Proc : W = {}
    OBVIOUS
  <2>1. /\ drl' = drl /\ dev' = dev /\ resource' = resource
        /\ \A x \in Proc : x \notin W
    BY <1>7
  <2>2. /\ \A x \in Proc : IsOn(drl', x) <=> x \in W \/ IsOn(drl, x)
        /\ \A x \in Proc : IsOn(dlr', x) <=> x \notin W /\ IsOn(dlr, x)
        /\ \A x \in Proc, g \in Flag : flg_pd'[g] = x <=> x \notin W /\ flg_pd[g] = x
        /\ \A x \in Proc : dev'[x] = IF x \in W /\ \E g \in Flag : flg_pd[g] = x
                                    THEN NoFlag ELSE dev[x]
        /\ \A x \in Proc : p_stat[x] = IF x \in W THEN "run" ELSE p_stat[x]
        /\ \A x \in W : IsOn(dlr, x) \/ \E g \in Flag : flg_pd[g] = x
    BY <1>2, <1>7, <2>1
  <2>3. /\ drl' \in Seq(Proc) /\ dlr' \in Seq(Proc) /\ Distinct(drl') /\ Distinct(dlr')
        /\ tick' \in BOOLEAN /\ dev' \in [Proc -> Flag \cup {NoFlag}] /\ resource' \subseteq Proc
    BY <1>2, <1>3, <2>1
  <2> QED
    BY <1>2, <1>3, <1>4, <1>7, <2>2, <2>3, InterruptStep
<1>8. CASE /\ flg_ignore[f] > 0
           /\ flg_ignore' = [flg_ignore EXCEPT ![f] = @ - 1]
           /\ UNCHANGED <<drl, flg_pd, dev, resource>>
           /\ Fdisp(p_stat)
  <2>1. /\ flg_ignore' \in [Flag -> Nat]
        /\ \A g \in Flag : flg_ignore'[g] = IF g = f THEN flg_ignore[f] - 1 ELSE flg_ignore[g]
    BY <1>3, <1>8
  <2>2. FlagsCount'
    <3>1. ASSUME NEW g \in Flag
          PROVE  pending'[g] + (IF flg_pd[g] = FlagOn THEN 1 ELSE 0)
                   = flg_ignore'[g] + (IF \E x \in Proc : dev[x] = g THEN 1 ELSE 0)
      <4>1. /\ pending[g] + (IF flg_pd[g] = FlagOn THEN 1 ELSE 0)
                 = flg_ignore[g] + (IF \E x \in Proc : dev[x] = g THEN 1 ELSE 0)
            /\ flg_ignore[g] \in Nat /\ pending[g] \in Int
        BY <1>3, <1>6
      <4> QED
        BY <1>4, <2>1, <4>1
    <3> QED
      BY <1>8, <3>1 DEF FlagsCount
  <2> QED
    BY <1>3, <1>7, <1>8, <2>1, <2>2
<1>9. CASE /\ flg_ignore[f] = 0 /\ flg_pd[f] = FlagOff
           /\ flg_pd' = [flg_pd EXCEPT ![f] = FlagOn]
           /\ UNCHANGED <<drl, flg_ignore, dev, resource>>
           /\ Fdisp(p_stat)
  <2>1. /\ flg_pd' \in [Flag -> Proc \cup {FlagOff, FlagOn}]
        /\ \A g \in Flag : flg_pd'[g] = IF g = f THEN FlagOn ELSE flg_pd[g]
    BY <1>3, <1>9
  <2>2. \A x \in Proc, g \in Flag : flg_pd'[g] = x <=> flg_pd[g] = x
    BY <1>5, <1>9, <2>1
  <2>3. FlagsCount'
    <3>1. ASSUME NEW g \in Flag
          PROVE  pending'[g] + (IF flg_pd'[g] = FlagOn THEN 1 ELSE 0)
                   = flg_ignore[g] + (IF \E x \in Proc : dev[x] = g THEN 1 ELSE 0)
      <4>1. /\ pending[g] + (IF flg_pd[g] = FlagOn THEN 1 ELSE 0)
                 = flg_ignore[g] + (IF \E x \in Proc : dev[x] = g THEN 1 ELSE 0)
            /\ flg_ignore[g] \in Nat /\ pending[g] \in Int
        BY <1>3, <1>6
      <4>2. CASE g = f
        BY <1>4, <1>5, <1>9, <2>1, <4>1, <4>2
      <4>3. CASE g # f
        BY <1>4, <2>1, <4>1, <4>3
      <4> QED
        BY <4>2, <4>3
    <3> QED
      BY <1>9, <3>1 DEF FlagsCount
  <2> QED
    BY <1>3, <1>7, <1>9, <2>1, <2>2, <2>3
<1>10. flg_pd[f] # FlagOn \/ flg_ignore[f] # 0
  \* An overrun would need more interrupts than the device has to give.
  <2> SUFFICES ASSUME flg_pd[f] = FlagOn, flg_ignore[f] = 0 PROVE FALSE
    OBVIOUS
  <2>1. pending[f] + 1 = (IF \E x \in Proc : dev[x] = f THEN 1 ELSE 0)
    BY <1>6
  <2> QED
    BY <1>2, <1>4, <2>1
<1>11. CASE /\ flg_ignore[f] = 0 /\ flg_pd[f] \in Proc
            /\ drl' = <<flg_pd[f]>> \o drl
            /\ resource' = resource \cup {flg_pd[f]}
            /\ flg_pd' = [flg_pd EXCEPT ![f] = FlagOff]
            /\ dev' = [dev EXCEPT ![flg_pd[f]] = NoFlag]
            /\ UNCHANGED flg_ignore
            /\ Fdisp([p_stat EXCEPT ![flg_pd[f]] = "run"])
  <2> PICK w \in Proc : w = flg_pd[f]
    BY <1>11
  <2> PICK stat : stat = [p_stat EXCEPT ![w] = "run"]
    OBVIOUS
  <2>1. /\ stat \in [Proc -> Stat] /\ Fdisp(stat)
        /\ \A x \in Proc : stat[x] = IF x \in {w} THEN "run" ELSE p_stat[x]
    BY <1>3, <1>11
  <2>2. /\ flg_pd' \in [Flag -> Proc \cup {FlagOff, FlagOn}]
        /\ \A g \in Flag : flg_pd'[g] = IF g = f THEN FlagOff ELSE flg_pd[g]
    BY <1>3, <1>11
  <2>3. /\ dev' \in [Proc -> Flag \cup {NoFlag}] /\ resource' \subseteq Proc
        /\ \A x \in Proc : dev'[x] = IF x = w THEN NoFlag ELSE dev[x]
    BY <1>3, <1>11
  <2>4. /\ \A g \in Flag : flg_pd[g] = w => g = f
        /\ dev[w] = f /\ \A x \in Proc : dev[x] = f => x = w
    BY <1>5 DEF IInv, FlagInv
  <2>5. PlaceOK(w)
    BY DEF IInv, PlacesInv
  <2>6. ~ IsOn(drl, w) /\ ~ IsOn(dlr, w)
    BY <2>5 DEF PlaceOK
  <2>7. /\ drl' \in Seq(Proc) /\ Distinct(drl')
        /\ \A x : IsOn(drl', x) <=> x = w \/ IsOn(drl, x)
    BY <1>3, <1>11, <2>6, EndsMembers
  <2>8. \A x \in Proc, g \in Flag : flg_pd'[g] = x <=> x \notin {w} /\ flg_pd[g] = x
    BY <1>5, <2>2, <2>4
  <2>9. FlagsCount'
    <3>1. ASSUME NEW g \in Flag
          PROVE  pending'[g] + (IF flg_pd'[g] = FlagOn THEN 1 ELSE 0)
                   = flg_ignore[g] + (IF \E x \in Proc : dev'[x] = g THEN 1 ELSE 0)
      <4>1. /\ pending[g] + (IF flg_pd[g] = FlagOn THEN 1 ELSE 0)
                 = flg_ignore[g] + (IF \E x \in Proc : dev[x] = g THEN 1 ELSE 0)
            /\ flg_ignore[g] \in Nat /\ pending[g] \in Int
        BY <1>3, <1>6
      <4>2. CASE g = f
        <5>1. (\E x \in Proc : dev[x] = g) /\ ~ \E x \in Proc : dev'[x] = g
          BY <1>5, <2>3, <2>4, <4>2
        <5>2. flg_pd[g] # FlagOn /\ flg_pd'[g] # FlagOn
          BY <1>5, <1>11, <2>2, <4>2
        <5> QED
          BY <1>4, <4>1, <4>2, <5>1, <5>2
      <4>3. CASE g # f
        <5>1. \A x \in Proc : dev'[x] = g <=> dev[x] = g
          BY <2>3, <2>4, <4>3, FlagAssumption
        <5> QED
          BY <1>4, <2>2, <4>1, <4>3, <5>1
      <4> QED
        BY <4>2, <4>3
    <3> QED
      BY <1>11, <3>1 DEF FlagsCount
  <2>10. \A x \in Proc : dev'[x] = IF x \in {w} /\ \E g \in Flag : flg_pd[g] = x
                                   THEN NoFlag ELSE dev[x]
    BY <2>3
  <2>11. \A x \in Proc : IsOn(dlr', x) <=> x \notin {w} /\ IsOn(dlr, x)
    BY <1>2, <2>6
  <2>12. flg_ignore' \in [Flag -> Nat] /\ {w} \in SUBSET Proc
    BY <1>3, <1>11
  <2>13. \A x \in Proc : IsOn(drl', x) <=> x \in {w} \/ IsOn(drl, x)
    BY <2>7
  <2>14. /\ dlr' \in Seq(Proc) /\ Distinct(dlr') /\ tick' \in BOOLEAN
         /\ \A x \in {w} : IsOn(dlr, x) \/ \E g \in Flag : flg_pd[g] = x
    BY <1>2, <1>3
  <2>15. UNCHANGED <<rlr, slist, u_dparam, p_prior, pc, target, snip>>
    BY <1>2
  <2> PICK W \in SUBSET Proc : W = {w}
    OBVIOUS
  <2> QED
    BY <1>4, <2>1, <2>2, <2>3, <2>7, <2>8, <2>9, <2>10, <2>11, <2>12,
       <2>13, <2>14, <2>15, InterruptStep
<1> QED
  BY <1>8, <1>9, <1>10, <1>11 DEF FlagInt
----------------------------------------------------------------------------
(* The dispatcher.                                                          *)

Sorted(list) ==
  \A i, j \in 1 .. Len(list) : i < j => p_prior[list[i]] <= p_prior[list[j]]

\* Where insert_process stops.
LEMMA InsertStops ==
  ASSUME Typed, NEW list \in Seq(Proc), NEW p \in Proc
  PROVE  \E k \in 0 .. Len(list) :
           /\ InsertProcess(list, p) = Placed(list, k, p)
           /\ \A i \in 1 .. k : p_prior[list[i]] <= p_prior[p]
           /\ k < Len(list) => p_prior[p] <= p_prior[list[k + 1]]
<1> PICK n \in Nat : n = Len(list)
  OBVIOUS
<1> PICK S \in SUBSET (1 .. n) : S = Passed(list, p)
  BY DEF Passed
<1> PICK k : k = Cardinality(S)
  OBVIOUS
<1>1. S = {i \in 1 .. n :
             \A j \in 1 .. i : \/ p_prior[list[j]] < p_prior[p]
                               \/ p_prior[list[j]] = p_prior[p] /\ p \notin resource}
  BY DEF Passed
<1>2. ASSUME NEW i \in S, NEW j \in 1 .. i PROVE j \in S
  <2>1. i \in 1 .. n /\ j \in 1 .. n /\ \A m \in 1 .. j : m \in 1 .. i
    OBVIOUS
  <2> QED
    BY <1>1, <2>1
<1>3. k \in 0 .. n
  BY <1>2, ScanFront
<1>7. S = 1 .. k
  BY <1>2, ScanFront
<1>4. /\ \A i \in 1 .. n : p_prior[list[i]] \in Nat
      /\ p_prior[p] \in Nat
  BY DEF Typed
<1>5. ASSUME NEW i \in 1 .. k PROVE p_prior[list[i]] <= p_prior[p]
  <2>1. i \in 1 .. i /\ i \in 1 .. n
    BY <1>3
  <2>3. i \in S
    BY <1>7
  <2>2. \/ p_prior[list[i]] < p_prior[p]
        \/ p_prior[list[i]] = p_prior[p] /\ p \notin resource
    BY <1>1, <2>1, <2>3
  <2> QED
    BY <1>4, <2>1, <2>2
<1>6. ASSUME k < n PROVE p_prior[p] <= p_prior[list[k + 1]]
  <2> PICK m \in 1 .. n : m = k + 1
    BY <1>3, <1>6
  <2>1. m \notin S /\ \A j \in 1 .. m : j = m \/ j \in S
    <3>1. m \notin 1 .. k /\ \A j \in 1 .. m : j = m \/ j \in 1 .. k
      BY <1>3
    <3> QED
      BY <1>7, <3>1
  <2>2. \A j \in S : j \in 1 .. j
    BY <1>3
  <2>3. \A j \in 1 .. m : j # m => \/ p_prior[list[j]] < p_prior[p]
                                   \/ p_prior[list[j]] = p_prior[p] /\ p \notin resource
    BY <1>1, <2>1, <2>2
  <2>4. ~ p_prior[list[m]] < p_prior[p]
    <3>1. ~ \A j \in 1 .. m : \/ p_prior[list[j]] < p_prior[p]
                              \/ p_prior[list[j]] = p_prior[p] /\ p \notin resource
      BY <1>1, <2>1
    <3> QED
      BY <2>3, <3>1
  <2> QED
    BY <1>4, <2>4
<1> QED
  BY <1>3, <1>5, <1>6 DEF InsertProcess

\* The ready list stays in order.
LEMMA InsertSorted ==
  ASSUME Typed, NEW list \in Seq(Proc), NEW p \in Proc, Distinct(list), ~ IsOn(list, p),
         Sorted(list)
  PROVE  /\ InsertProcess(list, p) \in Seq(Proc)
         /\ Distinct(InsertProcess(list, p))
         /\ \A x : IsOn(InsertProcess(list, p), x) <=> x = p \/ IsOn(list, x)
         /\ Sorted(InsertProcess(list, p))
<1> PICK n \in Nat : n = Len(list)
  OBVIOUS
<1>1. PICK k \in 0 .. n : /\ InsertProcess(list, p) = Placed(list, k, p)
                          /\ \A i \in 1 .. k : p_prior[list[i]] <= p_prior[p]
                          /\ k < n => p_prior[p] <= p_prior[list[k + 1]]
  BY InsertStops
<1> PICK new : new = Placed(list, k, p)
  OBVIOUS
<1>2. /\ Len(new) = n + 1
      /\ \A j \in 1 .. n + 1 :
           new[j] = IF j <= k THEN list[j] ELSE IF j = k + 1 THEN p ELSE list[j - 1]
  BY PlacedAt
<1>3. /\ \A i \in 1 .. n : p_prior[list[i]] \in Nat
      /\ p_prior[p] \in Nat
      /\ \A i, j \in 1 .. n : i < j => p_prior[list[i]] <= p_prior[list[j]]
  BY DEF Typed, Sorted
<1>4. ASSUME NEW j \in k + 1 .. n PROVE p_prior[p] <= p_prior[list[j]]
  <2> PICK m \in 1 .. n : m = k + 1
    OBVIOUS
  <2>1. k < n /\ p_prior[p] <= p_prior[list[m]]
    BY <1>1
  <2>2. j \in 1 .. n /\ (j = m \/ m < j)
    OBVIOUS
  <2>3. p_prior[list[m]] <= p_prior[list[j]]
    BY <1>3, <2>2
  <2> QED
    BY <1>3, <2>1, <2>2, <2>3
<1>5. ASSUME NEW i \in 1 .. n + 1, NEW j \in 1 .. n + 1, i < j
      PROVE  p_prior[new[i]] <= p_prior[new[j]]
  <2>1. CASE j <= k
    <3>1. new[i] = list[i] /\ new[j] = list[j] /\ i \in 1 .. n /\ j \in 1 .. n
      BY <1>2, <1>5, <2>1
    <3> QED
      BY <1>3, <1>5, <3>1
  <2>2. CASE i <= k /\ j = k + 1
    <3>1. new[i] = list[i] /\ new[j] = p /\ i \in 1 .. k
      BY <1>2, <2>2
    <3> QED
      BY <1>1, <3>1
  <2>3. CASE i <= k /\ j > k + 1
    <3>1. new[i] = list[i] /\ new[j] = list[j - 1] /\ i \in 1 .. n /\ j - 1 \in 1 .. n /\ i < j - 1
      BY <1>2, <2>3
    <3> QED
      BY <1>3, <3>1
  <2>4. CASE i = k + 1
    <3>1. new[i] = p /\ new[j] = list[j - 1] /\ j - 1 \in k + 1 .. n
      BY <1>2, <1>5, <2>4
    <3> QED
      BY <1>4, <3>1
  <2>5. CASE i > k + 1
    <3>1. /\ new[i] = list[i - 1] /\ new[j] = list[j - 1]
          /\ i - 1 \in 1 .. n /\ j - 1 \in 1 .. n /\ i - 1 < j - 1
      BY <1>2, <1>5, <2>5
    <3> QED
      BY <1>3, <3>1
  <2> QED
    BY <1>5, <2>1, <2>2, <2>3, <2>4, <2>5
<1>6. Sorted(new)
  BY <1>2, <1>5 DEF Sorted
<1> QED
  BY <1>1, <1>6, PlacedMembers

\* The flags are as they were, and nobody is about to wait for one.
LEMMA DispatcherFlags ==
  ASSUME IInv, UNCHANGED <<flg_pd, flg_ignore, pending, dev>>,
         \A x \in Proc : pc'[x] = "flagwait" <=> pc[x] = "flagwait",
         cpu = "dcont" => p_stat[Running] # "flagwait",
         cpu' = "dcont" => p_stat'[Running'] # "flagwait"
  PROVE  FlagInv' /\ FlagsCount'
<1>1. \A x \in Proc, f \in Flag : ~ AtDcont(x, f) /\ ~ AtDcont(x, f)'
  BY DEF AtDcont
<1>2. FlagInv'
  BY <1>1 DEF IInv, FlagInv
<1> QED
  BY <1>2 DEF IInv, FlagsCount

\* The ready list without the process that was running.
LEMMA RestSorted ==
  ASSUME IInv, cpu = "dcont", NEW p, p = Running
  PROVE  /\ p \in Proc /\ IsOn(rlr, p) /\ ~ IsOn(drl, p) /\ ~ IsOn(dlr, p)
         /\ \A l \in SList : ~ IsOn(slist[l], p)
         /\ \A f \in Flag : flg_pd[f] # p
         /\ pc[p] \notin Gone
         /\ Tail(rlr) \in Seq(Proc) /\ Distinct(Tail(rlr)) /\ Sorted(Tail(rlr))
         /\ \A x : IsOn(Tail(rlr), x) <=> x # p /\ IsOn(rlr, x)
<1>1. rlr # <<>> /\ rlr \in Seq(Proc) /\ Distinct(rlr)
  BY DEF IInv, RunInv, Typed, PlacesInv
<1>2. /\ Len(Tail(rlr)) = Len(rlr) - 1 /\ Len(rlr) \in Nat \ {0} /\ Tail(rlr) \in Seq(Proc)
      /\ \A i \in 1 .. Len(rlr) - 1 : Tail(rlr)[i] = rlr[i + 1]
  BY <1>1, HeadTailProperties
<1>3. Sorted(Tail(rlr))
  <2>2. Len(rlr) - 1 \in Nat
    BY <1>2
  <2> PICK n \in Nat : n = Len(rlr) - 1
    BY <2>2
  <2> PICK t : t = Tail(rlr)
    OBVIOUS
  <2>1. ASSUME NEW i \in 1 .. n, NEW j \in 1 .. n, i < j PROVE p_prior[t[i]] <= p_prior[t[j]]
    <3>1. t[i] = rlr[i + 1] /\ t[j] = rlr[j + 1]
      BY <1>2
    <3>2. i + 1 \in 1 .. Len(rlr) /\ j + 1 \in 1 .. Len(rlr) /\ i + 1 < j + 1 /\ i + 1 # 1
      BY <1>2, <2>1
    <3> QED
      BY <3>1, <3>2 DEF IInv, RlrSorted
  <2> QED
    BY <1>2, <2>1 DEF Sorted
<1>4. /\ Distinct(Tail(rlr))
      /\ \A x : IsOn(Tail(rlr), x) <=> x # p /\ IsOn(rlr, x)
  BY <1>1, TailMembers DEF Running
<1> QED
  BY <1>1, <1>2, <1>3, <1>4, RunningPlace DEF IInv

\* The process that was running is put where its status says, if that is so.
LEMMA ActRest ==
  ASSUME IInv, cpu = "dcont", cpu' = "schedule", NEW p, p = Running,
         UNCHANGED <<drl, u_dparam, p_prior, intVars, abortVars>>,
         \A x \in Proc \ {p} :
           /\ IsOn(rlr', x) <=> IsOn(rlr, x)
           /\ IsOn(dlr', x) <=> IsOn(dlr, x)
           /\ \A l \in SList : IsOn(slist'[l], x) <=> IsOn(slist[l], x)
           /\ \A f \in Flag : flg_pd'[f] = x <=> flg_pd[f] = x
           /\ pc'[x] = pc[x] /\ p_stat'[x] = p_stat[x],
         Distinct(rlr'), Distinct(dlr'), \A l \in SList : Distinct(slist'[l]),
         PlaceOK(p)', ParamOK(p_stat'[p], u_dparam[p]),
         pc'[p] = pc[p] \/ (pc'[p] = "dead" /\ pc[p] = "user"),
         Typed', FlagInv', FlagsCount', Sorted(rlr')
  PROVE  IInv'
<1>1. /\ drl' = drl /\ u_dparam' = u_dparam /\ p_prior' = p_prior /\ u_in_int' = u_in_int
      /\ u_stat_sav' = u_stat_sav /\ target' = target /\ snip' = snip
  BY DEF intVars, abortVars
<1>2. p \in Proc /\ pc[p] \notin Gone
  BY RestSorted
<1>3. PlacesInv'
  <2>1. ASSUME NEW x \in Proc \ {p} PROVE PlaceOK(x)'
    <3>1. PlaceOK(x)
      BY DEF IInv, PlacesInv
    <3>2. IsOn(rlr, x) => p_stat'[x] = "run"
      BY <3>1 DEF PlaceOK
    <3>3. Stays(x)
      BY <1>1, <3>2 DEF Stays
    <3> QED
      BY <3>1, <3>3, StaysOK
  <2> QED
    BY <1>1, <2>1 DEF IInv, PlacesInv
<1>4. RunInv' /\ PriorInv'
  BY <1>1 DEF IInv, RunInv, PriorInv, MayWorsen
<1>5. StatInv'
  <2>1. ASSUME NEW x \in u_in_int', pc'[x] # "limbo" PROVE u_stat_sav'[x] \in StatOf(pc'[x])
    <3>1. x \in Proc /\ x \in u_in_int
      BY <1>1 DEF IInv, Typed
    <3>2. pc'[x] = pc[x] \/ (pc'[x] = "dead" /\ pc[x] = "user")
      BY <3>1
    <3>3. pc[x] # "limbo" => u_stat_sav[x] \in StatOf(pc[x])
      BY <3>1 DEF IInv, StatInv
    <3> QED
      BY <1>1, <2>1, <3>2, <3>3 DEF StatOf
  <2>2. ASSUME NEW x \in Proc, pc'[x] = "dsptch" PROVE x \in u_in_int'
    <3>1. pc[x] = "dsptch"
      BY <2>2
    <3> QED
      BY <1>1, <3>1 DEF IInv, StatInv
  <2> QED
    BY <2>1, <2>2 DEF StatInv
<1>6. ParamInv'
  <2>1. \A x \in Proc : ParamOK(p_stat'[x], u_dparam'[x])
    BY <1>1 DEF IInv, ParamInv
  <2> QED
    BY <1>1, <2>1 DEF IInv, ParamInv
<1>7. SnipInv'
  <2>1. \A x \in Proc : pc[x] \notin {"abtfind", "abtsnip"}
    BY NoSearch
  <2>2. \A x \in Proc : pc'[x] \notin {"abtfind", "abtsnip"}
    BY <2>1
  <2> QED
    BY <2>2 DEF SnipInv
<1>8. TargetInv'
  <2>1. ASSUME NEW x \in Proc, pc'[x] = "abtput"
        PROVE  pc[x] = "abtput" /\ target[x] \in Proc /\ pc'[target[x]] = "limbo"
    <3>1. pc[x] = "abtput"
      BY <2>1
    <3>2. target[x] \in Proc /\ pc[target[x]] = "limbo"
      BY <3>1 DEF IInv, TargetInv
    <3> QED
      BY <1>2, <3>1, <3>2 DEF Gone
  <2> QED
    BY <1>1, <2>1 DEF IInv, TargetInv
<1>9. RlrSorted'
  BY <1>1 DEF RlrSorted, Sorted
<1> QED
  BY <1>3, <1>4, <1>5, <1>6, <1>7, <1>8, <1>9 DEF IInv

\* dcont, for every status.
LEMMA ActStep ==
  ASSUME IInv, Act
  PROVE  IInv'
<1> PICK p : p = Running
  OBVIOUS
<1>1. /\ cpu = "dcont" /\ cpu' = "schedule"
      /\ UNCHANGED <<drl, flg_ignore, pending, u_dparam, p_prior, intVars, abortVars>>
      /\ flg_ignore' = flg_ignore /\ pending' = pending /\ u_dparam' = u_dparam
      /\ p_prior' = p_prior /\ drl' = drl /\ u_in_int' = u_in_int /\ u_stat_sav' = u_stat_sav
      /\ target' = target /\ snip' = snip
  BY DEF Act, intVars, abortVars
<1>2. /\ p \in Proc /\ IsOn(rlr, p) /\ ~ IsOn(drl, p) /\ ~ IsOn(dlr, p)
      /\ \A l \in SList : ~ IsOn(slist[l], p)
      /\ \A f \in Flag : flg_pd[f] # p
      /\ pc[p] \notin Gone
      /\ Tail(rlr) \in Seq(Proc) /\ Distinct(Tail(rlr)) /\ Sorted(Tail(rlr))
      /\ \A x : IsOn(Tail(rlr), x) <=> x # p /\ IsOn(rlr, x)
  BY <1>1, RestSorted
<1>3. /\ InsertProcess(Tail(rlr), p) \in Seq(Proc)
      /\ Distinct(InsertProcess(Tail(rlr), p))
      /\ \A x : IsOn(InsertProcess(Tail(rlr), p), x) <=> x = p \/ IsOn(rlr, x)
      /\ Sorted(InsertProcess(Tail(rlr), p))
  BY <1>2, InsertSorted DEF IInv
<1>4. ParamOK(p_stat[p], u_dparam[p])
  BY <1>2 DEF IInv, ParamInv
<1>5. /\ drl \in Seq(Proc) /\ dlr \in Seq(Proc) /\ Distinct(dlr)
      /\ slist \in [SList -> Seq(Proc)] /\ \A l \in SList : Distinct(slist[l])
      /\ tick \in BOOLEAN /\ resource \subseteq Proc
      /\ flg_pd \in [Flag -> Proc \cup {FlagOff, FlagOn}]
      /\ dev \in [Proc -> Flag \cup {NoFlag}]
      /\ p_stat \in [Proc -> Stat] /\ pc \in [Proc -> PC]
  BY DEF IInv, Typed, PlacesInv
<1>6. /\ flg_ignore' \in [Flag -> Nat] /\ pending' \in [Flag -> 0 .. MaxPending]
      /\ u_stat_sav' \in [Proc -> Stat]
      /\ u_dparam' \in [Proc -> SList \cup Flag \cup (0 .. MaxWait)]
      /\ p_prior' \in [Proc -> Nat] /\ u_in_int' \subseteq Proc /\ cpu' \in Cpu
      /\ target' \in [Proc -> Proc \cup {NoProc}]
      /\ snip' \in [pd : Proc \cup {NoProc}, stat : Stat, prev : Proc \cup {NoProc},
                    list : {"none", "rlr", "drl", "dlr", "slist", "flag"},
                    ticks : {snip'.ticks}]
      /\ drl' \in Seq(Proc)
  BY <1>1 DEF IInv, Typed, Cpu
<1>7. {"run", "wait", "sleep", "delay", "flagwait", "term"} \subseteq Stat /\ "dead" \in PC
  BY DEF Stat, PC
<1>8. CASE /\ p_stat[p] \in {"run", "wait"}
           /\ rlr' = InsertProcess(Tail(rlr), p)
           /\ resource' = resource \ {p}
           /\ p_stat' = [p_stat EXCEPT ![p] = "run"]
           /\ UNCHANGED <<dlr, slist, timeVars, flg_pd, dev, pc>>
  <2>1. \A x \in Proc : p_stat'[x] = IF x = p THEN "run" ELSE p_stat[x]
    BY <1>5, <1>8
  <2>2. Typed'
    BY <1>3, <1>5, <1>6, <1>7, <1>8 DEF Typed, timeVars
  <2>3. FlagInv' /\ FlagsCount'
    BY <1>1, <1>8, DispatcherFlags
  <2>4. PlaceOK(p)'
    <3>1. IsOn(rlr', p)
      BY <1>3, <1>8
    <3> QED
      BY <1>1, <1>2, <1>8, <2>1, <3>1 DEF PlaceOK, OnList
  <2>5. ParamOK(p_stat'[p], u_dparam[p])
    BY <1>2, <2>1 DEF ParamOK
  <2> QED
    BY <1>1, <1>3, <1>5, <1>8, <2>1, <2>2, <2>3, <2>4, <2>5, ActRest
<1>9. CASE /\ p_stat[p] = "sleep"
           /\ rlr' = Tail(rlr)
           /\ slist' = [slist EXCEPT ![u_dparam[p]] = InsertProcess(@, p)]
           /\ resource' = resource \cup {p}
           /\ p_stat' = [p_stat EXCEPT ![p] = "wait"]
           /\ UNCHANGED <<dlr, timeVars, flg_pd, dev, pc>>
  <2> PICK l \in SList : l = u_dparam[p]
    BY <1>4, <1>9 DEF ParamOK
  <2> PICK new : new = InsertProcess(slist[l], p)
    OBVIOUS
  <2>1. PICK k \in 0 .. Len(slist[l]) : new = Placed(slist[l], k, p)
    BY <1>2, <1>5, InsertStops DEF IInv
  <2>2. new \in Seq(Proc) /\ Distinct(new) /\ \A x : IsOn(new, x) <=> x = p \/ IsOn(slist[l], x)
    BY <1>2, <1>5, <2>1, PlacedMembers
  <2>3. /\ \A x \in Proc : p_stat'[x] = IF x = p THEN "wait" ELSE p_stat[x]
        /\ slist' \in [SList -> Seq(Proc)]
        /\ \A m \in SList : slist'[m] = IF m = l THEN new ELSE slist[m]
    BY <1>5, <1>9, <2>2
  <2>4. Typed'
    BY <1>2, <1>5, <1>6, <1>7, <1>9, <2>3 DEF Typed, timeVars
  <2>5. FlagInv' /\ FlagsCount'
    BY <1>1, <1>9, DispatcherFlags
  <2>6. PlaceOK(p)'
    <3>1. IsOn(slist'[l], p) /\ ~ IsOn(rlr', p) /\ \A m \in SList : m # l => ~ IsOn(slist'[m], p)
      BY <1>2, <1>9, <2>2, <2>3
    <3> QED
      BY <1>1, <1>2, <1>9, <2>3, <3>1 DEF PlaceOK, OnList
  <2>7. ParamOK(p_stat'[p], u_dparam[p])
    BY <1>2, <2>3 DEF ParamOK
  <2>8. /\ \A x \in Proc \ {p} : IsOn(rlr', x) <=> IsOn(rlr, x)
        /\ \A x \in Proc \ {p}, m \in SList : IsOn(slist'[m], x) <=> IsOn(slist[m], x)
        /\ \A m \in SList : Distinct(slist'[m])
    BY <1>2, <1>5, <1>9, <2>2, <2>3
  <2> QED
    BY <1>1, <1>2, <1>5, <1>9, <2>3, <2>4, <2>5, <2>6, <2>7, <2>8, ActRest
<1>10. CASE /\ p_stat[p] = "delay"
            /\ rlr' = Tail(rlr)
            /\ tick' = TRUE
            /\ DelayList(p, TicksOf(u_dparam[p]))
            /\ UNCHANGED <<slist, flg_pd, dev, p_stat, resource, pc>>
  <2> PICK S \in SUBSET (1 .. Len(dlr)) : S = NoLater(TicksOf(u_dparam[p]))
    BY DEF NoLater
  <2> PICK k \in 0 .. Len(dlr) : k = Cardinality(S)
    BY <1>5, PlacesBound
  <2>1. dlr' = Placed(dlr, k, p)
    BY <1>10 DEF DelayList
  <2>2. dlr' \in Seq(Proc) /\ Distinct(dlr') /\ \A x : IsOn(dlr', x) <=> x = p \/ IsOn(dlr, x)
    BY <1>2, <1>5, <2>1, PlacedMembers
  <2>3. Typed'
    BY <1>2, <1>5, <1>6, <1>10, <2>2 DEF Typed
  <2>4. FlagInv' /\ FlagsCount'
    BY <1>1, <1>10, DispatcherFlags
  <2>5. PlaceOK(p)'
    BY <1>1, <1>2, <1>10, <2>2 DEF PlaceOK, OnList
  <2>6. \A x \in Proc \ {p} : /\ IsOn(rlr', x) <=> IsOn(rlr, x)
                              /\ IsOn(dlr', x) <=> IsOn(dlr, x)
    BY <1>2, <1>10, <2>2
  <2> QED
    BY <1>1, <1>2, <1>4, <1>5, <1>10, <2>2, <2>3, <2>4, <2>5, <2>6, ActRest
<1>11. CASE /\ p_stat[p] = "flagwait"
            /\ FlagAct(p)
            /\ UNCHANGED <<dlr, slist, timeVars, pc>>
  <2> PICK f \in Flag : f = u_dparam[p]
    BY <1>4, <1>11 DEF ParamOK
  <2>1. AtDcont(p, f)
    BY <1>1, <1>11 DEF AtDcont
  <2>2. /\ dev[p] = f /\ pc[p] # "flagwait" /\ flg_pd[f] \notin Proc
        /\ \A x \in Proc : dev[x] = f => x = p
    BY <1>2, <2>1, FlagAssumption DEF IInv, FlagInv
  <2>3. /\ FlagOff \notin Proc /\ FlagOn \notin Proc /\ FlagOff # FlagOn /\ f # NoFlag
        /\ \A g \in Flag : g # NoFlag
    BY FlagAssumption
  <2>4. \A x \in Proc, g \in Flag : ~ AtDcont(x, g)' /\ (AtDcont(x, g) => x = p)
    BY <1>1 DEF AtDcont
  <2>5. \A x \in Proc, g \in Flag :
          /\ dev[x] = g => pc[x] = "flagwait" \/ AtDcont(x, g) \/ flg_pd[g] = x
          /\ flg_pd[g] = x => dev[x] = g /\ pc[x] # "flagwait"
    BY DEF IInv, FlagInv
  <2>6. CASE /\ flg_pd[f] = FlagOn
             /\ flg_pd' = [flg_pd EXCEPT ![f] = FlagOff]
             /\ dev' = [dev EXCEPT ![p] = NoFlag]
             /\ rlr' = InsertProcess(Tail(rlr), p)
             /\ resource' = resource \ {p}
             /\ p_stat' = [p_stat EXCEPT ![p] = "run"]
    <3>1. /\ \A x \in Proc : p_stat'[x] = IF x = p THEN "run" ELSE p_stat[x]
          /\ \A x \in Proc : dev'[x] = IF x = p THEN NoFlag ELSE dev[x]
          /\ \A g \in Flag : flg_pd'[g] = IF g = f THEN FlagOff ELSE flg_pd[g]
      BY <1>5, <2>6
    <3>2. /\ p_stat' \in [Proc -> Stat] /\ dev' \in [Proc -> Flag \cup {NoFlag}]
          /\ flg_pd' \in [Flag -> Proc \cup {FlagOff, FlagOn}]
      BY <1>5, <1>7, <2>6
    <3>3. Typed'
      BY <1>3, <1>5, <1>6, <1>11, <2>6, <3>2 DEF Typed, timeVars
    <3>4. FlagsCount'
      BY <1>1, <1>2, <2>2, <2>6, FlagTaken DEF IInv
    <3>5. FlagInv'
      <4>1. ASSUME NEW x \in Proc, NEW g \in Flag
            PROVE  /\ dev'[x] = g => pc'[x] = "flagwait" \/ flg_pd'[g] = x
                   /\ flg_pd'[g] = x => dev'[x] = g /\ pc'[x] # "flagwait"
        <5>1. CASE x = p
          BY <1>2, <2>3, <3>1, <5>1
        <5>2. CASE x # p
          BY <1>11, <2>2, <2>3, <2>4, <2>5, <3>1, <5>2
        <5> QED
          BY <5>1, <5>2
      <4>2. \A x \in Proc : pc'[x] = "flagwait" => dev'[x] \in Flag
        BY <1>11, <2>2, <3>1 DEF IInv, FlagInv
      <4>3. ASSUME NEW x \in Proc, NEW y \in Proc, dev'[x] = dev'[y], dev'[x] # NoFlag
            PROVE  x = y
        BY <3>1, <4>3 DEF IInv, FlagInv
      <4> QED
        BY <2>4, <4>1, <4>2, <4>3 DEF FlagInv
    <3>6. \A x \in Proc, g \in Flag : flg_pd'[g] = x <=> flg_pd[g] = x
      BY <2>2, <2>3, <3>1
    <3>7. PlaceOK(p)'
      <4>1. IsOn(rlr', p)
        BY <1>3, <2>6
      <4> QED
        BY <1>1, <1>2, <1>11, <3>1, <3>6, <4>1 DEF PlaceOK, OnList
    <3>8. ParamOK(p_stat'[p], u_dparam[p])
      BY <1>2, <3>1 DEF ParamOK
    <3> QED
      BY <1>1, <1>3, <1>5, <1>11, <2>6, <3>1, <3>3, <3>4, <3>5, <3>6, <3>7, <3>8, ActRest
  <2>7. CASE /\ flg_pd[f] # FlagOn
             /\ flg_pd' = [flg_pd EXCEPT ![f] = p]
             /\ rlr' = Tail(rlr)
             /\ UNCHANGED <<dev, p_stat, resource>>
    <3>1. /\ \A g \in Flag : flg_pd'[g] = IF g = f THEN p ELSE flg_pd[g]
          /\ flg_pd' \in [Flag -> Proc \cup {FlagOff, FlagOn}]
      BY <1>2, <1>5, <2>7
    <3>2. Typed'
      BY <1>2, <1>5, <1>6, <1>11, <2>7, <3>1 DEF Typed, timeVars
    <3>3. FlagsCount'
      <4>1. \A g \in Flag : flg_pd'[g] = FlagOn <=> flg_pd[g] = FlagOn
        BY <1>2, <2>3, <2>7, <3>1
      <4> QED
        BY <1>1, <2>7, <4>1 DEF IInv, FlagsCount
    <3>4. FlagInv'
      <4>1. ASSUME NEW x \in Proc, NEW g \in Flag
            PROVE  /\ dev'[x] = g => pc'[x] = "flagwait" \/ flg_pd'[g] = x
                   /\ flg_pd'[g] = x => dev'[x] = g /\ pc'[x] # "flagwait"
        <5>1. CASE x = p
          BY <1>2, <1>11, <2>2, <2>7, <3>1, <5>1
        <5>2. CASE x # p
          BY <1>11, <2>2, <2>4, <2>5, <2>7, <3>1, <5>2
        <5> QED
          BY <5>1, <5>2
      <4>2. \A x \in Proc : pc'[x] = "flagwait" => dev'[x] \in Flag
        BY <1>11, <2>7 DEF IInv, FlagInv
      <4> QED
        BY <2>4, <2>7, <4>1, <4>2 DEF IInv, FlagInv
    <3>5. \A x \in Proc \ {p} : /\ IsOn(rlr', x) <=> IsOn(rlr, x)
                                /\ \A g \in Flag : flg_pd'[g] = x <=> flg_pd[g] = x
      BY <1>2, <2>2, <2>7, <3>1
    <3>6. PlaceOK(p)'
      <4>1. /\ ~ IsOn(rlr', p) /\ p_stat'[p] = "flagwait" /\ flg_pd'[f] = p
            /\ \A g \in Flag : flg_pd'[g] = p => g = f
        BY <1>2, <1>11, <2>7, <3>1
      <4> QED
        BY <1>1, <1>2, <1>11, <4>1 DEF PlaceOK, OnList
    <3> QED
      BY <1>1, <1>2, <1>4, <1>5, <1>11, <2>7, <3>2, <3>3, <3>4, <3>5, <3>6, ActRest
  <2> QED
    BY <1>11, <2>6, <2>7 DEF FlagAct
<1>12. CASE /\ p_stat[p] = "term"
            /\ rlr' = Tail(rlr)
            /\ pc' = [pc EXCEPT ![p] = "dead"]
            /\ UNCHANGED <<dlr, slist, timeVars, flg_pd, dev, p_stat, resource>>
  <2>1. /\ \A x \in Proc : pc'[x] = IF x = p THEN "dead" ELSE pc[x]
        /\ pc' \in [Proc -> PC]
    BY <1>5, <1>7, <1>12
  <2>2. pc[p] = "user"
    BY <1>1, <1>12 DEF IInv, StatInv
  <2>3. Typed'
    BY <1>2, <1>5, <1>6, <1>12, <2>1 DEF Typed, timeVars
  <2>4. FlagInv' /\ FlagsCount'
    <3>1. \A x \in Proc : pc'[x] = "flagwait" <=> pc[x] = "flagwait"
      BY <2>1, <2>2
    <3> QED
      BY <1>1, <1>12, <3>1, DispatcherFlags
  <2>5. PlaceOK(p)'
    <3>1. ~ IsOn(rlr', p) /\ pc'[p] \in Gone
      BY <1>2, <1>12, <2>1 DEF Gone
    <3> QED
      BY <1>1, <1>2, <1>12, <3>1 DEF PlaceOK, OnList
  <2>6. \A x \in Proc \ {p} : IsOn(rlr', x) <=> IsOn(rlr, x)
    BY <1>2, <1>12
  <2>7. pc'[p] = "dead"
    BY <1>2, <2>1
  <2> QED
    BY <1>1, <1>2, <1>4, <1>5, <1>12, <2>1, <2>2, <2>3, <2>4, <2>5, <2>6, <2>7, ActRest
<1> QED
  BY <1>8, <1>9, <1>10, <1>11, <1>12 DEF Act, Goto

\* schedule and drltorlr: p, taken off the list it was on, goes on the RLR.
LEMMA ReadyStep ==
  ASSUME IInv, cpu \in {"schedule", "drltorlr"}, cpu' = "drltorlr",
         NEW p \in Proc, ~ IsOn(rlr, p), OnList(p), \A f \in Flag : flg_pd[f] # p,
         rlr' = InsertProcess(rlr, p), p_stat' = [p_stat EXCEPT ![p] = "run"],
         resource' = resource \ {p},
         drl' \in Seq(Proc), Distinct(drl'), slist' \in [SList -> Seq(Proc)],
         \A l \in SList : Distinct(slist'[l]),
         \A x : IsOn(drl', x) <=> x # p /\ IsOn(drl, x),
         \A l \in SList : \A x : IsOn(slist'[l], x) <=> x # p /\ IsOn(slist[l], x),
         ~ IsOn(dlr, p),
         UNCHANGED <<dlr, timeVars, flagVars, u_dparam, p_prior, intVars, pc, abortVars>>
  PROVE  IInv'
<1>1. /\ dlr' = dlr /\ tick' = tick /\ flg_pd' = flg_pd /\ flg_ignore' = flg_ignore
      /\ pending' = pending /\ dev' = dev /\ u_dparam' = u_dparam /\ p_prior' = p_prior
      /\ u_in_int' = u_in_int /\ u_stat_sav' = u_stat_sav /\ pc' = pc
      /\ target' = target /\ snip' = snip
  BY DEF timeVars, flagVars, intVars, abortVars
<1>2. rlr \in Seq(Proc) /\ Distinct(rlr) /\ Sorted(rlr)
  BY DEF IInv, Typed, PlacesInv, RlrSorted, Sorted
<1>3. /\ rlr' \in Seq(Proc) /\ Distinct(rlr') /\ Sorted(rlr')
      /\ \A x : IsOn(rlr', x) <=> x = p \/ IsOn(rlr, x)
  BY <1>2, InsertSorted DEF IInv
<1>4. /\ p_stat' \in [Proc -> Stat]
      /\ \A x \in Proc : p_stat'[x] = IF x = p THEN "run" ELSE p_stat[x]
  BY DEF IInv, Typed, Stat
<1>5. Typed'
  BY <1>1, <1>3, <1>4 DEF IInv, Typed, Cpu
<1>6. PlacesInv'
  <2>1. ASSUME NEW x \in Proc, x # p PROVE PlaceOK(x)'
    <3>1. PlaceOK(x)
      BY DEF IInv, PlacesInv
    <3>2. IsOn(rlr, x) => p_stat'[x] = "run"
      BY <1>4, <2>1, <3>1 DEF PlaceOK
    <3>3. Stays(x)
      BY <1>1, <1>3, <1>4, <2>1, <3>2 DEF Stays
    <3> QED
      BY <3>1, <3>3, StaysOK
  <2>2. PlaceOK(p)'
    <3>1. pc[p] \notin Gone
      BY DEF IInv, PlacesInv, PlaceOK
    <3>2. /\ IsOn(rlr', p) /\ ~ IsOn(drl', p) /\ ~ IsOn(dlr', p) /\ p_stat'[p] = "run"
          /\ \A l \in SList : ~ IsOn(slist'[l], p)
          /\ \A f \in Flag : flg_pd'[f] # p
      BY <1>1, <1>3, <1>4
    <3> QED
      BY <1>1, <3>1, <3>2 DEF PlaceOK, OnList
  <2> QED
    BY <1>1, <1>3, <2>1, <2>2 DEF IInv, PlacesInv
<1>7. RunInv' /\ PriorInv' /\ StatInv' /\ TargetInv'
  BY <1>1 DEF IInv, RunInv, PriorInv, MayWorsen, StatInv, TargetInv
<1>8. ParamInv'
  BY <1>1, <1>4 DEF IInv, ParamInv, ParamOK
<1>9. SnipInv'
  <2>1. \A x \in Proc : pc[x] \notin {"abtfind", "abtsnip"}
    BY NoSearch
  <2> QED
    BY <1>1, <2>1 DEF SnipInv
<1>10. FlagInv' /\ FlagsCount'
  BY <1>1, DispatcherFlags
<1>11. RlrSorted'
  BY <1>1, <1>3 DEF RlrSorted, Sorted
<1> QED
  BY <1>5, <1>6, <1>7, <1>8, <1>9, <1>10, <1>11 DEF IInv

\* The dispatcher goes on without moving a process.
LEMMA PassStep ==
  ASSUME IInv, cpu \in {"schedule", "drltorlr"}, cpu' \in {"schedule", "drltorlr", "switch"},
         cpu' = "switch" => rlr # <<>>,
         UNCHANGED <<listVars, timeVars, flagVars, p_stat, u_dparam, p_prior, resource,
                     intVars, pc, abortVars>>
  PROVE  IInv'
<1>1. /\ rlr' = rlr /\ drl' = drl /\ dlr' = dlr /\ slist' = slist /\ tick' = tick
      /\ flg_pd' = flg_pd /\ flg_ignore' = flg_ignore /\ pending' = pending /\ dev' = dev
      /\ p_stat' = p_stat /\ u_dparam' = u_dparam /\ p_prior' = p_prior
      /\ resource' = resource /\ u_in_int' = u_in_int /\ u_stat_sav' = u_stat_sav
      /\ pc' = pc /\ target' = target /\ snip' = snip
  BY DEF listVars, timeVars, flagVars, intVars, abortVars
<1>2. Typed'
  BY <1>1 DEF IInv, Typed, Cpu
<1>3. PlacesInv'
  <2>1. ASSUME NEW x \in Proc PROVE Stays(x)
    <3>1. IsOn(rlr, x) => p_stat[x] = "run"
      BY DEF IInv, PlacesInv, PlaceOK
    <3> QED
      BY <1>1, <3>1 DEF Stays
  <2> QED
    BY <2>1, AllStay DEF IInv
<1>4. RunInv' /\ PriorInv' /\ StatInv' /\ TargetInv' /\ ParamInv'
  BY <1>1 DEF IInv, RunInv, PriorInv, MayWorsen, StatInv, TargetInv, ParamInv
<1>5. SnipInv'
  <2>1. \A x \in Proc : pc[x] \notin {"abtfind", "abtsnip"}
    BY NoSearch
  <2> QED
    BY <1>1, <2>1 DEF SnipInv
<1>6. FlagInv' /\ FlagsCount'
  BY <1>1, DispatcherFlags
<1>7. RlrSorted'
  BY <1>1 DEF IInv, RlrSorted
<1> QED
  BY <1>2, <1>3, <1>4, <1>5, <1>6, <1>7 DEF IInv

\* schedule.
LEMMA ScheduleStep ==
  ASSUME IInv, Schedule
  PROVE  IInv'
<1>1. /\ cpu = "schedule" /\ cpu' = "drltorlr"
      /\ UNCHANGED <<drl, dlr, timeVars, flagVars, u_dparam, p_prior, intVars, pc, abortVars>>
  BY DEF Schedule
<1> PICK list : list = slist[PollList]
  OBVIOUS
<1>2. CASE \E i \in Polled :
             /\ slist' = [slist EXCEPT ![PollList] =
                            SubSeq(list, 1, i - 1) \o SubSeq(list, i + 1, Len(list))]
             /\ p_stat' = [p_stat EXCEPT ![list[i]] = "run"]
             /\ rlr' = InsertProcess(rlr, list[i])
             /\ resource' = resource \ {list[i]}
  <2>1. PICK i \in Polled :
          /\ slist' = [slist EXCEPT ![PollList] =
                         SubSeq(list, 1, i - 1) \o SubSeq(list, i + 1, Len(list))]
          /\ p_stat' = [p_stat EXCEPT ![list[i]] = "run"]
          /\ rlr' = InsertProcess(rlr, list[i])
          /\ resource' = resource \ {list[i]}
    BY <1>2
  <2>2. i \in 1 .. Len(list)
    BY DEF Polled
  <2>3. /\ PollList \in SList /\ list \in Seq(Proc) /\ Distinct(list)
        /\ slist \in [SList -> Seq(Proc)] /\ \A l \in SList : Distinct(slist[l])
        /\ drl \in Seq(Proc) /\ Distinct(drl)
    BY ListAssumption DEF IInv, Typed, PlacesInv
  <2> PICK p \in Proc : p = list[i]
    BY <2>2, <2>3
  <2>4. /\ SubSeq(list, 1, i - 1) \o SubSeq(list, i + 1, Len(list)) = Snip(list, p)
        /\ IsOn(list, p)
    BY <2>2, <2>3, SnipPlace
  <2>5. /\ Snip(list, p) \in Seq(Proc) /\ Distinct(Snip(list, p))
        /\ \A x : IsOn(Snip(list, p), x) <=> x # p /\ IsOn(list, x)
    BY <2>3, SnipMembers
  <2>6. PlaceOK(p)
    BY DEF IInv, PlacesInv
  <2>7. /\ ~ IsOn(rlr, p) /\ ~ IsOn(drl, p) /\ ~ IsOn(dlr, p) /\ OnList(p)
        /\ \A f \in Flag : flg_pd[f] # p
        /\ \A l \in SList : l # PollList => ~ IsOn(slist[l], p)
    BY <2>3, <2>4, <2>6 DEF PlaceOK, OnList
  <2>8. /\ slist' \in [SList -> Seq(Proc)]
        /\ \A l \in SList : slist'[l] = IF l = PollList THEN Snip(list, p) ELSE slist[l]
    BY <2>1, <2>3, <2>4, <2>5
  <2>9. \A l \in SList : Distinct(slist'[l])
    BY <2>3, <2>5, <2>8
  <2>10. ASSUME NEW l \in SList, NEW x PROVE IsOn(slist'[l], x) <=> x # p /\ IsOn(slist[l], x)
    BY <2>5, <2>7, <2>8
  <2>11. /\ drl' \in Seq(Proc) /\ Distinct(drl')
         /\ \A x : IsOn(drl', x) <=> x # p /\ IsOn(drl, x)
    BY <1>1, <2>3, <2>7
  <2> QED
    BY <1>1, <2>1, <2>7, <2>8, <2>9, <2>10, <2>11, ReadyStep
<1>3. CASE UNCHANGED <<slist, p_stat, rlr, resource>>
  BY <1>1, <1>3, PassStep DEF listVars
<1> QED
  BY <1>2, <1>3 DEF Schedule

\* drltorlr.
LEMMA DrlToRlrStep ==
  ASSUME IInv, DrlToRlr
  PROVE  IInv'
<1> PICK p : p = Head(drl)
  OBVIOUS
<1>1. /\ cpu = "drltorlr" /\ cpu' = "drltorlr" /\ drl # <<>> /\ drl' = Tail(drl)
      /\ p_stat' = [p_stat EXCEPT ![p] = "run"]
      /\ rlr' = InsertProcess(rlr, p) /\ resource' = resource \ {p} /\ slist' = slist
      /\ UNCHANGED <<dlr, timeVars, flagVars, u_dparam, p_prior, intVars, pc, abortVars>>
  BY DEF DrlToRlr
<1>2. /\ drl \in Seq(Proc) /\ Distinct(drl)
      /\ slist \in [SList -> Seq(Proc)] /\ \A l \in SList : Distinct(slist[l])
  BY DEF IInv, Typed, PlacesInv
<1>3. /\ p \in Proc /\ IsOn(drl, p) /\ Tail(drl) \in Seq(Proc) /\ Distinct(Tail(drl))
      /\ \A x : IsOn(Tail(drl), x) <=> x # p /\ IsOn(drl, x)
  BY <1>1, <1>2, TailMembers
<1>4. PlaceOK(p)
  BY <1>3 DEF IInv, PlacesInv
<1>5. /\ ~ IsOn(rlr, p) /\ ~ IsOn(dlr, p) /\ OnList(p)
      /\ \A f \in Flag : flg_pd[f] # p
      /\ \A l \in SList : ~ IsOn(slist[l], p)
  BY <1>3, <1>4 DEF PlaceOK, OnList
<1>6. /\ slist' \in [SList -> Seq(Proc)] /\ \A l \in SList : Distinct(slist'[l])
      /\ \A l \in SList : \A x : IsOn(slist'[l], x) <=> x # p /\ IsOn(slist[l], x)
  BY <1>1, <1>2, <1>5
<1> QED
  BY <1>1, <1>3, <1>5, <1>6, ReadyStep

\* switch.
LEMMA SwitchStep ==
  ASSUME IInv, Switch
  PROVE  IInv'
<1>1. /\ cpu = "drltorlr" /\ cpu' = IF rlr = <<>> THEN "schedule" ELSE "switch"
      /\ UNCHANGED <<listVars, timeVars, flagVars, p_stat, u_dparam, p_prior, resource,
                     intVars, pc, abortVars>>
  BY DEF Switch
<1> QED
  BY <1>1, PassStep

\* dext and int_disp_exit.
LEMMA ExitStep ==
  ASSUME IInv, Exit
  PROVE  IInv'
<1> PICK p : p = Running
  OBVIOUS
<1>1. /\ cpu = "switch"
      /\ rlr' = rlr /\ drl' = drl /\ dlr' = dlr /\ slist' = slist /\ tick' = tick
      /\ flg_pd' = flg_pd /\ flg_ignore' = flg_ignore /\ pending' = pending /\ dev' = dev
      /\ u_dparam' = u_dparam /\ p_prior' = p_prior /\ resource' = resource
      /\ u_stat_sav' = u_stat_sav /\ pc' = pc /\ target' = target /\ snip' = snip
      /\ Running' = p
  BY DEF Exit, listVars, timeVars, flagVars, intVars, abortVars, Running
<1>2. \/ /\ cpu' = "dcont" /\ p_stat' = [p_stat EXCEPT ![p] = "run"] /\ u_in_int' = u_in_int
      \/ /\ cpu' = "process" /\ p \in u_in_int
         /\ p_stat' = [p_stat EXCEPT ![p] = u_stat_sav[p]] /\ u_in_int' = u_in_int \ {p}
      \/ /\ cpu' = "process" /\ p \notin u_in_int
         /\ p_stat' = p_stat /\ u_in_int' = u_in_int
  BY DEF Exit
<1>3. /\ rlr # <<>> /\ p \in Proc /\ IsOn(rlr, p) /\ pc[p] \notin Gone /\ p_stat[p] = "run"
      /\ \A f \in Flag : flg_pd[f] # p
  <2>1. rlr # <<>>
    BY <1>1 DEF IInv, RunInv
  <2>2. /\ p \in Proc /\ IsOn(rlr, p) /\ pc[p] \notin Gone
        /\ \A f \in Flag : flg_pd[f] # p
    BY <2>1, RunningPlace DEF IInv
  <2>3. p_stat[p] = "run"
    BY <1>1, <2>2 DEF IInv, PlacesInv, PlaceOK
  <2> QED
    BY <2>1, <2>2, <2>3
<1>4. u_stat_sav[p] \in Stat /\ p_stat \in [Proc -> Stat] /\ u_in_int \subseteq Proc
  BY <1>3 DEF IInv, Typed
<1>5. /\ \A x \in Proc : p_stat'[x] = IF x = p THEN p_stat'[p] ELSE p_stat[x]
      /\ p_stat'[p] = IF cpu' = "process" /\ p \in u_in_int THEN u_stat_sav[p] ELSE "run"
      /\ p_stat' \in [Proc -> Stat]
      /\ u_in_int' \subseteq u_in_int
      /\ \A x \in u_in_int : x # p => x \in u_in_int'
      /\ cpu' = "process" => p \notin u_in_int'
      /\ cpu' = "dcont" => u_in_int' = u_in_int
      /\ cpu' \in {"process", "dcont"}
  BY <1>2, <1>3, <1>4
<1>6. Typed'
  BY <1>1, <1>4, <1>5 DEF IInv, Typed, Cpu
<1>7. PlacesInv'
  <2>1. ASSUME NEW x \in Proc PROVE Stays(x)
    <3>1. IsOn(rlr, x) => p_stat[x] = "run"
      BY <1>1 DEF IInv, PlacesInv, PlaceOK
    <3>2. CASE x = p
      BY <1>1, <1>3, <1>5, <3>2 DEF Stays
    <3>3. CASE x # p
      BY <1>1, <1>5, <3>1, <3>3 DEF Stays
    <3> QED
      BY <3>2, <3>3
  <2> QED
    BY <1>1, <2>1, AllStay DEF IInv, listVars
<1>8. RunInv' /\ PriorInv' /\ TargetInv'
  BY <1>1, <1>3 DEF IInv, RunInv, PriorInv, MayWorsen, TargetInv
<1>9. StatInv'
  <2>1. \A x \in Proc : pc[x] = "dsptch" => x \in u_in_int
    BY <1>1 DEF IInv, StatInv
  <2>2. \A x \in u_in_int : pc[x] # "limbo" => u_stat_sav[x] \in StatOf(pc[x])
    BY DEF IInv, StatInv
  <2>3. cpu' = "process" => p_stat'[p] \in StatOf(pc[p])
    <3>1. CASE p \in u_in_int
      BY <1>3, <1>5, <2>2, <3>1 DEF Gone
    <3>2. CASE p \notin u_in_int
      BY <1>3, <1>5, <2>1, <3>2 DEF StatOf
    <3> QED
      BY <3>1, <3>2
  <2>4. cpu' = "dcont" => p_stat'[p] = "run"
    BY <1>5
  <2>5. \A x \in Proc : pc[x] = "dsptch" => x \in u_in_int' \/ (cpu' = "process" /\ x = p)
    BY <1>5, <2>1
  <2> QED
    BY <1>1, <1>5, <2>2, <2>3, <2>4, <2>5 DEF StatInv
<1>10. ParamInv'
  <2>1. ASSUME NEW x \in Proc PROVE ParamOK(p_stat'[x], u_dparam[x])
    <3>1. CASE x = p
      BY <1>5, <3>1 DEF IInv, ParamInv, ParamOK
    <3>2. CASE x # p
      BY <1>5, <3>2 DEF IInv, ParamInv
    <3> QED
      BY <3>1, <3>2
  <2> QED
    BY <1>1, <1>5, <2>1 DEF IInv, ParamInv
<1>11. SnipInv'
  <2>1. \A x \in Proc : pc[x] \notin {"abtfind", "abtsnip"}
    BY <1>1, NoSearch
  <2> QED
    BY <1>1, <2>1 DEF SnipInv
<1>12. FlagInv' /\ FlagsCount'
  BY <1>1, <1>5, DispatcherFlags
<1>13. RlrSorted'
  BY <1>1 DEF IInv, RlrSorted
<1> QED
  BY <1>6, <1>7, <1>8, <1>9, <1>10, <1>11, <1>12, <1>13 DEF IInv
----------------------------------------------------------------------------
(* The invariant holds in the first state and after every step.             *)

\* As cold start leaves it.
LEMMA InitStep == Init => IInv
<1> SUFFICES ASSUME Init PROVE IInv
  OBVIOUS
<1>1. /\ rlr = <<Idle>> /\ dlr = <<>> /\ tick = FALSE
      /\ slist = [l \in SList |-> <<>>]
      /\ flg_pd = [f \in Flag |-> FlagOff] /\ flg_ignore = [f \in Flag |-> 0]
      /\ pending = [f \in Flag |-> 0] /\ dev = [p \in Proc |-> NoFlag]
      /\ p_stat = [p \in Proc |-> "run"] /\ u_dparam = [p \in Proc |-> 0]
      /\ p_prior = Prior /\ resource = {} /\ u_in_int = Proc \ {Idle}
      /\ u_stat_sav = [p \in Proc |-> "run"] /\ pc = [p \in Proc |-> "user"]
      /\ target = [p \in Proc |-> NoProc] /\ snip = NoSnip /\ cpu = "dcont"
  BY DEF Init
<1> PICK m : m = Cardinality(Proc) - 1
  OBVIOUS
<1> PICK T : T = Proc \ {Idle}
  OBVIOUS
<1>2. m \in Nat /\ IsFiniteSet(T) /\ Cardinality(T) = m
  <2>1. IsFiniteSet(Proc) /\ Idle \in Proc
    BY ProcAssumption
  <2>2. IsFiniteSet(T) /\ Cardinality(T) = m
    BY <2>1, FS_RemoveElement
  <2> QED
    BY <2>2, FS_CardinalityType
<1>3. drl \in [1 .. m -> T] /\ \A i, j \in 1 .. m : drl[i] = drl[j] => i = j
  <2>1. drl \in {s \in [1 .. m -> T] : \A i, j \in DOMAIN s : s[i] = s[j] => i = j}
    BY DEF Init
  <2> QED
    BY <2>1
<1>4. /\ drl \in Seq(Proc) /\ Len(drl) = m /\ Distinct(drl)
      /\ \A i \in 1 .. m : drl[i] \in T
  BY <1>2, <1>3 DEF Distinct
<1>5. \A x \in T : \E i \in 1 .. m : drl[i] = x
  <2>1. drl \in Injection(1 .. m, T)
    BY <1>3 DEF Injection, IsInjective
  <2>2. Cardinality(1 .. m) = m
    BY <1>2, FS_Interval
  <2>3. drl \in Surjection(1 .. m, T)
    BY <1>2, <2>1, <2>2, FS_Injection
  <2> QED
    BY <2>3 DEF Surjection
<1>6. \A x \in Proc : IsOn(drl, x) <=> x # Idle
  BY <1>4, <1>5 DEF IsOn
<1>7. /\ rlr \in Seq(Proc) /\ Distinct(rlr) /\ \A x : IsOn(rlr, x) <=> x = Idle
      /\ rlr # <<>> /\ Running = Idle /\ Len(rlr) = 1
  BY <1>1, ProcAssumption, OneMember DEF Running
<1>8. FlagOff \notin Proc /\ NoProc \notin Proc /\ NoFlag \notin Flag
      /\ FlagOff # FlagOn /\ Idle \in Proc
  BY FlagAssumption, ProcAssumption
<1>9. Typed
  <2>1. /\ pending \in [Flag -> 0 .. MaxPending] /\ flg_ignore \in [Flag -> Nat]
        /\ u_dparam \in [Proc -> SList \cup Flag \cup (0 .. MaxWait)]
    BY <1>1, BoundAssumption
  <2>2. p_prior \in [Proc -> Nat]
    BY <1>1, PriorAssumption
  <2>3. /\ p_stat \in [Proc -> Stat] /\ u_stat_sav \in [Proc -> Stat]
        /\ pc \in [Proc -> PC] /\ cpu \in Cpu
    BY <1>1 DEF Stat, PC, Cpu
  <2>4. dlr \in Seq(Proc) /\ slist \in [SList -> Seq(Proc)]
    BY <1>1
  <2>5. snip \in [pd : Proc \cup {NoProc}, stat : Stat, prev : Proc \cup {NoProc},
                  list : {"none", "rlr", "drl", "dlr", "slist", "flag"},
                  ticks : {snip.ticks}]
    BY <1>1 DEF NoSnip, Stat
  <2>6. target \in [Proc -> Proc \cup {NoProc}]
    BY <1>1
  <2>7. /\ tick \in BOOLEAN /\ flg_pd \in [Flag -> Proc \cup {FlagOff, FlagOn}]
        /\ dev \in [Proc -> Flag \cup {NoFlag}]
        /\ resource \subseteq Proc /\ u_in_int \subseteq Proc
    BY <1>1
  <2> QED
    BY <1>4, <1>7, <2>1, <2>2, <2>3, <2>4, <2>5, <2>6, <2>7 DEF Typed
<1>10. /\ \A x : ~ IsOn(dlr, x)
       /\ \A l \in SList : Distinct(slist[l]) /\ \A x : ~ IsOn(slist[l], x)
       /\ Distinct(dlr)
  BY <1>1, EmptyMembers
<1>11. PlacesInv
  <2>1. ASSUME NEW x \in Proc PROVE PlaceOK(x)
    <3>1. \A f \in Flag : flg_pd[f] # x
      BY <1>1, <1>8
    <3>2. pc[x] \notin Gone /\ p_stat[x] = "run"
      BY <1>1 DEF Gone
    <3>3. IsOn(rlr, x) \/ IsOn(drl, x)
      BY <1>6, <1>7
    <3> QED
      BY <1>6, <1>7, <1>10, <3>1, <3>2, <3>3 DEF PlaceOK, OnList
  <2> QED
    BY <1>4, <1>7, <1>10, <2>1 DEF PlacesInv
<1>12. RunInv
  BY <1>7 DEF RunInv
<1>13. StatInv
  BY <1>1, <1>7, <1>8 DEF StatInv, StatOf
<1>14. ParamInv
  BY <1>1 DEF ParamInv, ParamOK
<1>15. SnipInv /\ TargetInv
  BY <1>1 DEF SnipInv, TargetInv
<1>16. FlagInv
  <2>1. \A x \in Proc, f \in Flag : ~ AtDcont(x, f) /\ dev[x] # f /\ flg_pd[f] # x
    BY <1>1, <1>7, <1>8 DEF AtDcont
  <2> QED
    BY <1>1, <2>1 DEF FlagInv
<1>17. FlagsCount
  <2>1. \A x \in Proc, f \in Flag : dev[x] # f
    BY <1>1, <1>8
  <2> QED
    BY <1>1, <1>8, <2>1 DEF FlagsCount
<1>18. PriorInv /\ RlrSorted
  BY <1>1, <1>7 DEF PriorInv, RlrSorted
<1> QED
  BY <1>9, <1>11, <1>12, <1>13, <1>14, <1>15, <1>16, <1>17, <1>18 DEF IInv

\* A step that changes nothing.
LEMMA StutterStep ==
  ASSUME IInv, UNCHANGED vars
  PROVE  IInv'
<1>1. /\ rlr' = rlr /\ drl' = drl /\ dlr' = dlr /\ slist' = slist /\ tick' = tick
      /\ flg_pd' = flg_pd /\ flg_ignore' = flg_ignore /\ pending' = pending /\ dev' = dev
      /\ p_stat' = p_stat /\ u_dparam' = u_dparam /\ p_prior' = p_prior
      /\ resource' = resource /\ u_in_int' = u_in_int /\ u_stat_sav' = u_stat_sav
      /\ pc' = pc /\ target' = target /\ snip' = snip /\ cpu' = cpu
  BY DEF vars, listVars, timeVars, flagVars, intVars, abortVars
<1>2. Typed' /\ RunInv'
  BY <1>1 DEF IInv, Typed, RunInv
<1>3. PlacesInv'
  BY <1>1 DEF IInv, PlacesInv, PlaceOK, OnList, Running
<1>4. StatInv' /\ ParamInv' /\ TargetInv' /\ PriorInv'
  BY <1>1 DEF IInv, StatInv, ParamInv, TargetInv, PriorInv, Running, MayWorsen
<1>5. SnipInv'
  BY <1>1 DEF IInv, SnipInv, Running
<1>6. FlagInv' /\ FlagsCount'
  BY <1>1 DEF IInv, FlagInv, FlagsCount, AtDcont, Running
<1>7. RlrSorted'
  BY <1>1 DEF IInv, RlrSorted, Running, MayWorsen
<1> QED
  BY <1>2, <1>3, <1>4, <1>5, <1>6, <1>7 DEF IInv

\* Every step.
LEMMA NextStep ==
  ASSUME IInv, [Next]_vars, ~ misled'
  PROVE  IInv'
<1>1. CASE Dispatch
  BY <1>1, ActStep, ScheduleStep, DrlToRlrStep, SwitchStep, ExitStep DEF Dispatch
<1>2. CASE Interrupt
  BY <1>2, ClockIntStep, FlagIntStep DEF Interrupt
<1>3. ASSUME NEW p \in Proc, Process(p) PROVE IInv'
  <2>1. CASE Delay(p) \/ EnterDsptch(p) \/ DispatchOrSetPrior(p) \/ Sleep(p) \/ Wakeup(p)
    BY <2>1, DelayStep, EnterDsptchStep, DispatchOrSetPriorStep, SleepStep, WakeupStep
  <2>2. CASE Unsync(p) \/ Create(p) \/ StartIO(p) \/ FlagWait(p) \/ Terminate(p)
    BY <2>2, UnsyncStep, CreateStep, StartIOStep, FlagWaitStep, TerminateStep
  <2>3. CASE Abort(p) \/ AbortFind(p) \/ AbortSnip(p) \/ AbortPut(p)
    BY <2>3, AbortStep, AbortFindStep, AbortSnipStep, AbortPutStep
  <2> QED
    BY <1>3, <2>1, <2>2, <2>3 DEF Process
<1>4. CASE UNCHANGED vars
  BY <1>4, StutterStep
<1> QED
  BY <1>1, <1>2, <1>3, <1>4 DEF Next
----------------------------------------------------------------------------
(* The ticks each process on the delay list has left.                       *)

Left(list, wait, x) == IF IsOn(list, x) THEN SumTo(list, wait, PlaceOf(list, x)) ELSE 0

\* The ticks left of the process at a place are the sum up to it.
LEMMA LeftAt ==
  ASSUME NEW list \in Seq(Proc), Distinct(list), NEW wait \in [Proc -> Int]
  PROVE  /\ \A i \in 1 .. Len(list) :
              IsOn(list, list[i]) /\ Left(list, wait, list[i]) = SumTo(list, wait, i)
         /\ \A x : IsOn(list, x) => \E i \in 1 .. Len(list) :
              list[i] = x /\ Left(list, wait, x) = SumTo(list, wait, i)
<1>1. ASSUME NEW i \in 1 .. Len(list)
      PROVE  IsOn(list, list[i]) /\ Left(list, wait, list[i]) = SumTo(list, wait, i)
  <2>1. IsOn(list, list[i])
    BY DEF IsOn
  <2>2. PlaceOf(list, list[i]) = i
    BY DEF PlaceOf, Distinct
  <2> QED
    BY <2>1, <2>2 DEF Left
<1>2. ASSUME NEW x, IsOn(list, x)
      PROVE  \E i \in 1 .. Len(list) : list[i] = x /\ Left(list, wait, x) = SumTo(list, wait, i)
  <2>1. PICK i \in 1 .. Len(list) : list[i] = x
    BY <1>2 DEF IsOn
  <2> QED
    BY <1>1, <2>1
<1> QED
  BY <1>1, <1>2

\* DelayList: the ticks p adds before the process it is put in front of are taken
\* from that one's.
TicksPut(list, wait, p, k, after) ==
  \A x \in Proc :
    x # p => after[x] = IF k < Len(list) /\ x = list[k + 1]
                        THEN wait[x] - after[p] ELSE wait[x]

\* p has the ticks before it and its own left, every other process what it had.
LeftPut(list, wait, p, k, after) ==
  \A x \in Proc : Left(Placed(list, k, p), after, x) =
                    IF x = p THEN SumTo(list, wait, k) + after[p] ELSE Left(list, wait, x)

\* A process that starts to delay has its own ticks left, and the others theirs.
LEMMA LeftPlaced ==
  ASSUME NEW list \in Seq(Proc), Distinct(list), NEW wait \in [Proc -> Int],
         NEW p \in Proc, ~ IsOn(list, p), NEW k \in 0 .. Len(list),
         NEW after \in [Proc -> Int], TicksPut(list, wait, p, k, after)
  PROVE  LeftPut(list, wait, p, k, after)
<1>8. \A i \in 0 .. Len(list) + 1 :
        SumTo(Placed(list, k, p), after, i) =
          IF i <= k THEN SumTo(list, wait, i)
          ELSE IF i = k + 1 THEN SumTo(list, wait, k) + after[p]
          ELSE SumTo(list, wait, i - 1)
  BY SumsPlaced DEF TicksPut
<1> PICK m \in Nat : m = Len(list)
  OBVIOUS
<1> PICK new : new = Placed(list, k, p)
  OBVIOUS
<1> PICK n : n = SumTo(list, wait, k) + after[p]
  OBVIOUS
<1>1. /\ new \in Seq(Proc) /\ Len(new) = m + 1
      /\ \A j \in 1 .. m + 1 :
           new[j] = IF j <= k THEN list[j] ELSE IF j = k + 1 THEN p ELSE list[j - 1]
  BY PlacedAt
<1>2. /\ Distinct(new)
      /\ \A x : IsOn(new, x) <=> x = p \/ IsOn(list, x)
  BY PlacedMembers
<1>3. \A i \in 0 .. m + 1 :
        SumTo(new, after, i) = IF i <= k THEN SumTo(list, wait, i)
                               ELSE IF i = k + 1 THEN SumTo(list, wait, k) + after[p]
          ELSE SumTo(list, wait, i - 1)
  BY <1>8
<1>4. \A i \in 1 .. m + 1 : Left(new, after, new[i]) = SumTo(new, after, i)
  <2>1. \A i \in 1 .. Len(new) : Left(new, after, new[i]) = SumTo(new, after, i)
    <3>1. new \in Seq(Proc) /\ Distinct(new) /\ after \in [Proc -> Int]
      BY <1>1, <1>2
    <3> QED
      BY <3>1, LeftAt
  <2> QED
    BY <1>1, <2>1
<1>5. Left(new, after, p) = n
  <2>1. k + 1 \in 1 .. m + 1 /\ k + 1 \in 0 .. m + 1 /\ ~ k + 1 <= k
    OBVIOUS
  <2>2. new[k + 1] = p /\ SumTo(new, after, k + 1) = n
    BY <1>1, <1>3, <2>1
  <2> QED
    BY <1>4, <2>1, <2>2
<1>6. ASSUME NEW x \in Proc, x # p, IsOn(list, x)
      PROVE  Left(new, after, x) = Left(list, wait, x)
  <2>1. PICK i \in 1 .. m : list[i] = x /\ Left(list, wait, x) = SumTo(list, wait, i)
    <3>1. \A y : IsOn(list, y) => \E i \in 1 .. Len(list) :
            list[i] = y /\ Left(list, wait, y) = SumTo(list, wait, i)
      BY LeftAt
    <3>2. \E i \in 1 .. Len(list) :
            list[i] = x /\ Left(list, wait, x) = SumTo(list, wait, i)
      BY <1>6, <3>1, Zenon
    <3> QED
      BY <3>2
  <2>2. CASE i <= k
    <3>1. i \in 1 .. m + 1 /\ i \in 0 .. m + 1
      OBVIOUS
    <3> QED
      BY <1>1, <1>3, <1>4, <2>1, <2>2, <3>1
  <2>3. CASE ~ i <= k
    <3>1. /\ i + 1 \in 1 .. m + 1 /\ i + 1 \in 0 .. m + 1 /\ ~ i + 1 <= k
          /\ i + 1 # k + 1 /\ (i + 1) - 1 = i
      BY <2>3
    <3>2. new[i + 1] = x /\ SumTo(new, after, i + 1) = SumTo(list, wait, i)
      BY <1>1, <1>3, <2>1, <3>1
    <3> QED
      BY <1>4, <2>1, <3>1, <3>2
  <2> QED
    BY <2>2, <2>3
<1>7. ASSUME NEW x \in Proc, x # p, ~ IsOn(list, x)
      PROVE  Left(new, after, x) = Left(list, wait, x)
  BY <1>2, <1>7 DEF Left
<1> QED
  BY <1>5, <1>6, <1>7 DEF LeftPut

\* abtdly: the ticks of t go to the process behind it.
TicksCut(list, wait, t, k, after) ==
  \A x \in Proc :
    after[x] = IF k < Len(list) /\ x = list[k + 1] THEN wait[x] + wait[t] ELSE wait[x]

\* t has no ticks left, and every other process what it had.
LeftCut(list, wait, t, new, after) ==
  \A x \in Proc : Left(new, after, x) = IF x = t THEN 0 ELSE Left(list, wait, x)

\* A process taken off the delay list.
LEMMA LeftSnipped ==
  ASSUME NEW list \in Seq(Proc), Distinct(list), NEW wait \in [Proc -> Int],
         NEW t \in Proc, NEW k \in 1 .. Len(list), list[k] = t,
         NEW after \in [Proc -> Int], TicksCut(list, wait, t, k, after)
  PROVE  LeftCut(list, wait, t, Snip(list, t), after)
<1>7. \A i \in 0 .. Len(list) - 1 :
        SumTo(Snip(list, t), after, i) =
          IF i < k THEN SumTo(list, wait, i) ELSE SumTo(list, wait, i + 1)
  BY SumsSnipped DEF TicksCut
<1> PICK m \in Nat : m = Len(list)
  OBVIOUS
<1> PICK new : new = Snip(list, t)
  OBVIOUS
<1>1. /\ new \in Seq(Proc) /\ Len(new) = m - 1
      /\ \A j \in 1 .. m - 1 : new[j] = IF j < k THEN list[j] ELSE list[j + 1]
  BY SnipAt
<1>2. /\ Distinct(new)
      /\ \A x : IsOn(new, x) <=> x # t /\ IsOn(list, x)
  BY SnipMembers
<1>3. \A i \in 0 .. m - 1 :
        SumTo(new, after, i) = IF i < k THEN SumTo(list, wait, i)
                               ELSE SumTo(list, wait, i + 1)
  BY <1>7
<1>4. \A i \in 1 .. m - 1 : Left(new, after, new[i]) = SumTo(new, after, i)
  <2>1. \A i \in 1 .. Len(new) : Left(new, after, new[i]) = SumTo(new, after, i)
    BY <1>1, <1>2, LeftAt
  <2> QED
    BY <1>1, <2>1
<1>5. ASSUME NEW x \in Proc, x # t, IsOn(list, x)
      PROVE  Left(new, after, x) = Left(list, wait, x)
  <2>1. PICK i \in 1 .. m : list[i] = x /\ Left(list, wait, x) = SumTo(list, wait, i)
    BY <1>5, LeftAt
  <2>2. i # k
    BY <1>5, <2>1
  <2>3. CASE i < k
    <3>1. i \in 1 .. m - 1 /\ i \in 0 .. m - 1
      BY <2>3
    <3> QED
      BY <1>1, <1>3, <1>4, <2>1, <2>3, <3>1
  <2>4. CASE ~ i < k
    <3>1. /\ i - 1 \in 1 .. m - 1 /\ i - 1 \in 0 .. m - 1 /\ ~ i - 1 < k /\ (i - 1) + 1 = i
      BY <2>2, <2>4
    <3>2. new[i - 1] = x /\ SumTo(new, after, i - 1) = SumTo(list, wait, i)
      BY <1>1, <1>3, <2>1, <3>1
    <3> QED
      BY <1>4, <2>1, <3>1, <3>2
  <2> QED
    BY <2>3, <2>4
<1>6. ASSUME NEW x \in Proc, x = t \/ ~ IsOn(list, x)
      PROVE  Left(new, after, x) = 0 /\ (~ IsOn(list, x) => Left(list, wait, x) = 0)
  BY <1>2, <1>6 DEF Left
<1> QED
  BY <1>5, <1>6 DEF LeftCut

\* A tick leaves every process that delays with one tick less.
LEMMA LeftTicked ==
  ASSUME NEW list \in Seq(Proc), Distinct(list), list # <<>>, NEW wait \in [Proc -> Nat],
         NEW k \in 0 .. Len(list),
         k > 0 => wait[list[1]] = 1 /\ \A j \in 2 .. k : wait[list[j]] = 0,
         k = 0 => wait[list[1]] > 1,
         k > 0 /\ k < Len(list) => wait[list[k + 1]] # 0,
         NEW after \in [Proc -> Int],
         \A x \in Proc : after[x] = IF x = list[1] THEN wait[x] - 1 ELSE wait[x]
  PROVE  \A x \in Proc :
           /\ IsOn(list, x) => Left(list, wait, x) > 0
           /\ IsOn(SubSeq(list, k + 1, Len(list)), x) =>
                Left(SubSeq(list, k + 1, Len(list)), after, x) > 0
           /\ Left(SubSeq(list, k + 1, Len(list)), after, x) =
                IF Left(list, wait, x) = 0 THEN 0 ELSE Left(list, wait, x) - 1
<1>13. LET back == SubSeq(list, k + 1, Len(list))
       IN  /\ back \in Seq(Proc) /\ Len(back) = Len(list) - k /\ Distinct(back)
           /\ \A i \in 1 .. Len(list) - k : back[i] = list[k + i]
           /\ \A x : IsOn(back, x) <=> \E i \in k + 1 .. Len(list) : list[i] = x
  BY BackMembers
<1> PICK m \in Nat : m = Len(list)
  OBVIOUS
<1> PICK new : new = SubSeq(list, k + 1, m)
  OBVIOUS
<1>1. wait \in [Proc -> Int]
  OBVIOUS
<1>2. /\ \A i \in 1 .. m - k : SumTo(new, after, i) = SumTo(list, wait, k + i) - 1
      /\ \A i \in 1 .. k : SumTo(list, wait, i) = 1
  BY <1>1, SumsTicked
<1>3. /\ \A j \in 0 .. m : SumTo(list, wait, j) \in Nat
      /\ \A i, j \in 0 .. m : i <= j => SumTo(list, wait, i) <= SumTo(list, wait, j)
  BY SumsGrow
<1>4. /\ SumTo(list, wait, 0) = 0
      /\ \A j \in 1 .. m : SumTo(list, wait, j) = SumTo(list, wait, j - 1) + wait[list[j]]
  BY <1>1, SumSteps
<1>5. \A i \in 1 .. m : list[i] \in Proc /\ wait[list[i]] \in Nat
  OBVIOUS
<1>6. k < m => SumTo(list, wait, k + 1) > 1
  <2> SUFFICES ASSUME k < m PROVE SumTo(list, wait, k + 1) > 1
    OBVIOUS
  <2>1. k + 1 \in 1 .. m /\ (k + 1) - 1 = k /\ wait[list[k + 1]] \in Nat
    BY <1>5
  <2>2. SumTo(list, wait, k + 1) = SumTo(list, wait, k) + wait[list[k + 1]]
    BY <1>4, <2>1
  <2>3. CASE k = 0
    <3>1. SumTo(list, wait, k) = 0 /\ wait[list[k + 1]] > 1
      BY <1>4, <2>3
    <3> QED
      BY <2>1, <2>2, <3>1
  <2>4. CASE k > 0
    <3>1. k \in 1 .. k
      BY <2>4
    <3>2. SumTo(list, wait, k) = 1 /\ wait[list[k + 1]] # 0
      BY <1>2, <2>4, <3>1
    <3> QED
      BY <2>1, <2>2, <3>2
  <2> QED
    BY <2>3, <2>4
<1>7. ASSUME NEW i \in 1 .. m - k
      PROVE  /\ k + i \in 1 .. m /\ SumTo(list, wait, k + i) > 1
             /\ SumTo(list, wait, k + i) \in Nat
             /\ SumTo(new, after, i) = SumTo(list, wait, k + i) - 1
  <2>1. k < m /\ k + 1 \in 0 .. m /\ k + i \in 0 .. m /\ k + i \in 1 .. m /\ k + 1 <= k + i
    OBVIOUS
  <2>2. /\ SumTo(list, wait, k + 1) <= SumTo(list, wait, k + i)
        /\ SumTo(list, wait, k + 1) \in Nat /\ SumTo(list, wait, k + i) \in Nat
    BY <1>3, <2>1
  <2> QED
    BY <1>2, <1>6, <2>1, <2>2
<1>8. /\ new \in Seq(Proc) /\ Distinct(new) /\ Len(new) = m - k
      /\ \A i \in 1 .. m - k : new[i] = list[k + i]
      /\ \A x : IsOn(new, x) <=> \E i \in k + 1 .. m : list[i] = x
  BY <1>13
<1>9. ASSUME NEW i \in 1 .. k
      PROVE  /\ Left(list, wait, list[i]) = 1 /\ ~ IsOn(new, list[i])
             /\ Left(new, after, list[i]) = 0
  <2>1. i \in 1 .. m /\ \A j \in k + 1 .. m : j \in 1 .. m /\ j # i
    OBVIOUS
  <2>2. ~ IsOn(new, list[i])
    BY <1>8, <2>1 DEF Distinct
  <2>3. Left(list, wait, list[i]) = 1
    <3>1. Left(list, wait, list[i]) = SumTo(list, wait, i)
      BY <1>1, <2>1, LeftAt
    <3> QED
      BY <1>2, <3>1
  <2> QED
    BY <2>2, <2>3 DEF Left
<1>10. ASSUME NEW j \in k + 1 .. m
       PROVE  /\ Left(list, wait, list[j]) \in Nat /\ Left(list, wait, list[j]) > 1
              /\ Left(new, after, list[j]) = Left(list, wait, list[j]) - 1
  <2>1. j - k \in 1 .. m - k /\ k + (j - k) = j /\ j \in 1 .. m
    OBVIOUS
  <2>2. new[j - k] = list[j]
    BY <1>8, <2>1
  <2>3. Left(new, after, list[j]) = SumTo(new, after, j - k)
    <3>1. j - k \in 1 .. Len(new)
      BY <1>8, <2>1
    <3>2. Left(new, after, new[j - k]) = SumTo(new, after, j - k)
      <4>1. new \in Seq(Proc) /\ Distinct(new) /\ after \in [Proc -> Int]
        BY <1>8
      <4> QED
        BY <3>1, <4>1, LeftAt
    <3> QED
      BY <2>2, <3>2
  <2>4. Left(list, wait, list[j]) = SumTo(list, wait, j)
    BY <1>1, <2>1, LeftAt
  <2> QED
    BY <1>7, <2>1, <2>3, <2>4
<1>11. ASSUME NEW x \in Proc, IsOn(list, x)
       PROVE  /\ Left(list, wait, x) > 0
              /\ IsOn(new, x) => Left(new, after, x) > 0
              /\ Left(new, after, x) =
                   IF Left(list, wait, x) = 0 THEN 0 ELSE Left(list, wait, x) - 1
  <2>1. PICK i \in 1 .. m : list[i] = x
    BY <1>11 DEF IsOn
  <2>2. CASE i \in 1 .. k
    BY <1>9, <2>1, <2>2
  <2>3. CASE i \in k + 1 .. m
    <3>1. /\ Left(list, wait, x) \in Nat /\ Left(list, wait, x) > 1
          /\ Left(new, after, x) = Left(list, wait, x) - 1
      BY <1>10, <2>1, <2>3
    <3> QED
      BY <3>1
  <2> QED
    BY <2>2, <2>3
<1>12. ASSUME NEW x \in Proc, ~ IsOn(list, x)
       PROVE  /\ ~ IsOn(new, x) /\ Left(new, after, x) = 0 /\ Left(list, wait, x) = 0
  <2>1. ~ IsOn(new, x)
    <3>1. \A i \in k + 1 .. m : i \in 1 .. m
      OBVIOUS
    <3> QED
      BY <1>8, <1>12, <3>1 DEF IsOn
  <2> QED
    BY <1>12, <2>1 DEF Left
<1> QED
  BY <1>11, <1>12
----------------------------------------------------------------------------
(* The delay list.                                                          *)

\* No word overflows, and every process on the list has ticks left.
DelayInv ==
  /\ p_wait \in [Proc -> 0 .. MaxWait]
  /\ \A x \in Proc : IsOn(dlr, x) => Left(dlr, p_wait, x) \in 1 .. MaxWait

\* The sums along the delay list are those of its processes.
LEMMA DelaySums ==
  ASSUME IInv, DelayInv
  PROVE  /\ dlr \in Seq(Proc) /\ Distinct(dlr) /\ MaxWait \in Nat /\ MaxWait > 0
         /\ p_wait \in [Proc -> Nat] /\ p_wait \in [Proc -> Int]
         /\ \A x \in Proc : p_wait[x] \in 0 .. MaxWait
         /\ \A i \in 1 .. Len(dlr) :
              /\ SumTo(dlr, p_wait, i) \in 1 .. MaxWait
              /\ SumTo(dlr, p_wait, i) = Left(dlr, p_wait, dlr[i])
         /\ SumTo(dlr, p_wait, 0) = 0
         /\ \A j \in 1 .. Len(dlr) :
              SumTo(dlr, p_wait, j) = SumTo(dlr, p_wait, j - 1) + p_wait[dlr[j]]
<1>1. dlr \in Seq(Proc) /\ Distinct(dlr)
  BY DEF IInv, Typed, PlacesInv
<1>2. MaxWait \in Nat /\ MaxWait > 0
  BY BoundAssumption
<1>3. p_wait \in [Proc -> 0 .. MaxWait] /\ \A x \in Proc : p_wait[x] \in 0 .. MaxWait
  BY DEF DelayInv
<1>4. p_wait \in [Proc -> Nat] /\ p_wait \in [Proc -> Int]
  BY <1>2, <1>3
<1>5. ASSUME NEW i \in 1 .. Len(dlr)
      PROVE  /\ SumTo(dlr, p_wait, i) \in 1 .. MaxWait
             /\ SumTo(dlr, p_wait, i) = Left(dlr, p_wait, dlr[i])
  <2>1. IsOn(dlr, dlr[i]) /\ SumTo(dlr, p_wait, i) = Left(dlr, p_wait, dlr[i])
    BY <1>1, <1>4, LeftAt
  <2>2. dlr[i] \in Proc
    BY <1>1
  <2> QED
    BY <2>1, <2>2 DEF DelayInv
<1>6. /\ SumTo(dlr, p_wait, 0) = 0
      /\ \A j \in 1 .. Len(dlr) :
           SumTo(dlr, p_wait, j) = SumTo(dlr, p_wait, j - 1) + p_wait[dlr[j]]
  BY <1>1, <1>4, SumSteps
<1> QED
  BY <1>1, <1>2, <1>3, <1>4, <1>5, <1>6

\* The dispatcher puts the running process on the delay list.
LEMMA StartTicks ==
  ASSUME IInv, DelayInv, NEW p \in Proc, ~ IsOn(dlr, p), u_dparam[p] \in 0 .. MaxWait,
         DelayList(p, TicksOf(u_dparam[p]))
  PROVE  /\ DelayInv'
         /\ \E n \in 1 .. MaxWait : \A x \in Proc :
              Left(dlr', p_wait', x) = IF x = p THEN n ELSE Left(dlr, p_wait, x)
<1>1. /\ dlr \in Seq(Proc) /\ Distinct(dlr) /\ MaxWait \in Nat /\ MaxWait > 0
      /\ p_wait \in [Proc -> Nat] /\ p_wait \in [Proc -> Int]
      /\ \A x \in Proc : p_wait[x] \in 0 .. MaxWait
      /\ \A i \in 1 .. Len(dlr) : SumTo(dlr, p_wait, i) \in 1 .. MaxWait
      /\ SumTo(dlr, p_wait, 0) = 0
      /\ \A j \in 1 .. Len(dlr) :
           SumTo(dlr, p_wait, j) = SumTo(dlr, p_wait, j - 1) + p_wait[dlr[j]]
  BY DelaySums
<1> PICK n \in 1 .. MaxWait : n = TicksOf(u_dparam[p])
  BY <1>1 DEF TicksOf
<1> PICK m \in Nat : m = Len(dlr)
  BY <1>1
<1>2. n \in Nat /\ NoLater(n) \in SUBSET (1 .. Len(dlr))
      /\ \A i \in 1 .. Len(dlr) : i \in NoLater(n) <=> SumTo(dlr, p_wait, i) <= n
  BY TicksAreSums DEF NoLater
<1>3. LET k == Cardinality(NoLater(n))
      IN  /\ k \in 0 .. Len(dlr)
          /\ SumTo(dlr, p_wait, k) <= n
          /\ k < Len(dlr) => SumTo(dlr, p_wait, k + 1) > n
  BY <1>1, <1>2, SumsPassed
<1> PICK k \in 0 .. m : k = Cardinality(NoLater(n))
  BY <1>3
<1> PICK s : s = SumTo(dlr, p_wait, k)
  OBVIOUS
<1>4. s \in 0 .. n /\ (k < m => SumTo(dlr, p_wait, k + 1) > n)
  <2>1. s \in 0 .. MaxWait
    <3>1. CASE k = 0
      BY <1>1, <3>1
    <3>2. CASE k # 0
      <4>1. k \in 1 .. Len(dlr)
        BY <3>2
      <4> QED
        BY <1>1, <4>1
    <3> QED
      BY <3>1, <3>2
  <2> QED
    BY <1>1, <1>3, <2>1
<1>5. TicksTo(k) = s
  BY TicksAreSums
<1>6. /\ dlr' = Placed(dlr, k, p)
      /\ p_wait' = [x \in Proc |->
                      IF x = p THEN n - s
                      ELSE IF k < m /\ x = dlr[k + 1]
                           THEN p_wait[x] - (n - s)
                           ELSE p_wait[x]]
  BY <1>5 DEF DelayList
<1>7. n - s \in 0 .. MaxWait
  BY <1>1, <1>4
<1>8. k < m => p_wait[dlr[k + 1]] - (n - s) \in 0 .. MaxWait
  <2> SUFFICES ASSUME k < m PROVE p_wait[dlr[k + 1]] - (n - s) \in 0 .. MaxWait
    OBVIOUS
  <2>1. k + 1 \in 1 .. Len(dlr) /\ (k + 1) - 1 = k /\ dlr[k + 1] \in Proc
    BY <1>1
  <2>2. SumTo(dlr, p_wait, k + 1) = s + p_wait[dlr[k + 1]]
        /\ p_wait[dlr[k + 1]] \in 0 .. MaxWait
    BY <1>1, <2>1
  <2> PICK w \in 0 .. MaxWait : w = p_wait[dlr[k + 1]]
    BY <2>2
  <2>3. s + w > n
    BY <1>4, <2>2
  <2>4. MaxWait \in Nat /\ s \in 0 .. n
    BY <1>1, <1>4
  <2>5. w - (n - s) \in 0 .. MaxWait
    BY <2>3, <2>4
  <2> QED
    BY <2>5
<1>9. p_wait' \in [Proc -> 0 .. MaxWait]
  <2>1. ASSUME NEW x \in Proc PROVE p_wait'[x] \in 0 .. MaxWait
    BY <1>1, <1>6, <1>7, <1>8
  <2> QED
    BY <1>6, <2>1
<1>10. /\ p_wait' \in [Proc -> Int] /\ p_wait'[p] = n - s
       /\ \A x \in Proc : x # p => p_wait'[x] = IF k < Len(dlr) /\ x = dlr[k + 1]
                                                THEN p_wait[x] - p_wait'[p] ELSE p_wait[x]
  BY <1>1, <1>6, <1>9
<1> PICK after \in [Proc -> Int] : after = p_wait'
  BY <1>10
<1>11. \A x \in Proc : Left(Placed(dlr, k, p), after, x) =
                         IF x = p THEN SumTo(dlr, p_wait, k) + after[p]
                         ELSE Left(dlr, p_wait, x)
  <2>1. /\ dlr \in Seq(Proc) /\ Distinct(dlr) /\ p_wait \in [Proc -> Int]
        /\ ~ IsOn(dlr, p) /\ k \in 0 .. Len(dlr) /\ after \in [Proc -> Int]
        /\ TicksPut(dlr, p_wait, p, k, after)
    BY <1>1, <1>10 DEF TicksPut
  <2>2. LeftPut(dlr, p_wait, p, k, after)
    BY <2>1, LeftPlaced
  <2> QED
    BY <2>2 DEF LeftPut
<1>12. \A x \in Proc : Left(dlr', p_wait', x) = IF x = p THEN n ELSE Left(dlr, p_wait, x)
  BY <1>4, <1>6, <1>10, <1>11
<1>13. \A x \in Proc : IsOn(dlr', x) => x = p \/ IsOn(dlr, x)
  BY <1>1, <1>6, PlacedMembers
<1>14. DelayInv'
  BY <1>9, <1>12, <1>13 DEF DelayInv
<1> QED
  BY <1>12, <1>14

\* A tick.
LEMMA ElapseTicks ==
  ASSUME IInv, DelayInv, FlagSetTick
  PROVE  /\ DelayInv'
         /\ \A x \in Proc : Left(dlr', p_wait', x) =
              IF Left(dlr, p_wait, x) = 0 THEN 0 ELSE Left(dlr, p_wait, x) - 1
<1>1. /\ dlr \in Seq(Proc) /\ Distinct(dlr) /\ MaxWait \in Nat /\ MaxWait > 0
      /\ p_wait \in [Proc -> Nat] /\ p_wait \in [Proc -> Int]
      /\ \A x \in Proc : p_wait[x] \in 0 .. MaxWait
      /\ \A i \in 1 .. Len(dlr) : SumTo(dlr, p_wait, i) \in 1 .. MaxWait
      /\ SumTo(dlr, p_wait, 0) = 0
      /\ \A j \in 1 .. Len(dlr) :
           SumTo(dlr, p_wait, j) = SumTo(dlr, p_wait, j - 1) + p_wait[dlr[j]]
  BY DelaySums
<1> PICK m \in Nat : m = Len(dlr)
  BY <1>1
<1>2. Cardinality(Expired) \in 0 .. Len(dlr) /\ Expired = 1 .. Cardinality(Expired)
  BY <1>1, ExpiredFront
<1> PICK k \in 0 .. m : k = Cardinality(Expired)
  BY <1>2
<1>3. /\ dlr' = SubSeq(dlr, k + 1, Len(dlr))
      /\ p_wait' = IF dlr = <<>> THEN p_wait
                   ELSE [p_wait EXCEPT ![Head(dlr)] =
                           (p_wait[Head(dlr)] + MaxWait) % (MaxWait + 1)]
  BY DEF FlagSetTick
<1>4. CASE dlr = <<>>
  <2>1. \A x : ~ IsOn(dlr, x)
    BY <1>4, EmptyMembers
  <2>2. k = 0 /\ Len(dlr) = 0
    BY <1>4
  <2>3. dlr' = <<>>
    BY <1>3, <1>4, <2>2
  <2>4. \A x : ~ IsOn(dlr', x)
    BY <2>3, EmptyMembers
  <2>5. p_wait' = p_wait
    BY <1>3, <1>4
  <2> QED
    BY <2>1, <2>4, <2>5 DEF DelayInv, Left
<1>5. CASE dlr # <<>>
  <2>1. 1 \in 1 .. Len(dlr) /\ Head(dlr) = dlr[1] /\ dlr[1] \in Proc /\ m > 0
    BY <1>1, <1>5
  <2> PICK h \in Proc : h = dlr[1]
    BY <2>1
  <2>2. p_wait[h] \in 1 .. MaxWait
    <3>1. SumTo(dlr, p_wait, 1) = SumTo(dlr, p_wait, 0) + p_wait[dlr[1]]
      <4>1. 1 - 1 = 0
        OBVIOUS
      <4> QED
        BY <1>1, <2>1, <4>1
    <3> QED
      BY <1>1, <2>1, <3>1
  <2>3. (p_wait[h] + MaxWait) % (MaxWait + 1) = p_wait[h] - 1
    <3>1. p_wait[h] + MaxWait = (MaxWait + 1) + (p_wait[h] - 1)
          /\ p_wait[h] - 1 \in 0 .. MaxWait
      BY <1>1, <2>2
    <3> PICK N \in Nat : N = MaxWait + 1 /\ N > 0
      BY <1>1
    <3> PICK r \in 0 .. N - 1 : r = p_wait[h] - 1
      BY <1>1, <3>1
    <3>2. (N + r) % N = r
      BY Z3
    <3> QED
      BY <3>1, <3>2
  <2>4. p_wait' = [p_wait EXCEPT ![h] = p_wait[h] - 1]
    BY <1>3, <1>5, <2>1, <2>3
  <2>5. p_wait' \in [Proc -> 0 .. MaxWait]
    BY <1>1, <2>2, <2>4
  <2>6. \A x \in Proc : p_wait'[x] = IF x = dlr[1] THEN p_wait[x] - 1 ELSE p_wait[x]
    BY <1>1, <2>4
  <2>7. \A i \in 1 .. Len(dlr) :
          i \in 1 .. k <=> p_wait[h] = 1 /\ \A j \in 2 .. i : p_wait[dlr[j]] = 0
    <3>1. Expired = IF p_wait[h] # 1 THEN {}
                    ELSE {i \in 1 .. Len(dlr) : \A j \in 2 .. i : p_wait[dlr[j]] = 0}
      BY <1>5, <2>1 DEF Expired
    <3> QED
      BY <1>2, <3>1
  <2>8. k > 0 => p_wait[dlr[1]] = 1 /\ \A j \in 2 .. k : p_wait[dlr[j]] = 0
    <3> SUFFICES ASSUME k > 0 PROVE p_wait[h] = 1 /\ \A j \in 2 .. k : p_wait[dlr[j]] = 0
      OBVIOUS
    <3>1. k \in 1 .. Len(dlr) /\ k \in 1 .. k
      OBVIOUS
    <3> QED
      BY <2>7, <3>1
  <2>9. k = 0 => p_wait[dlr[1]] > 1
    <3> SUFFICES ASSUME k = 0 PROVE p_wait[h] > 1
      OBVIOUS
    <3>1. 1 \notin 1 .. k /\ \A j \in 2 .. 1 : p_wait[dlr[j]] = 0
      OBVIOUS
    <3>2. p_wait[h] # 1
      BY <2>1, <2>7, <3>1
    <3> QED
      BY <2>2, <3>2
  <2>10. k > 0 /\ k < Len(dlr) => p_wait[dlr[k + 1]] # 0
    <3> SUFFICES ASSUME k > 0, k < m, p_wait[dlr[k + 1]] = 0 PROVE FALSE
      OBVIOUS
    <3>1. k + 1 \in 1 .. Len(dlr) /\ k + 1 \notin 1 .. k
      OBVIOUS
    <3>2. \A j \in 2 .. k + 1 : j \in 2 .. k \/ j = k + 1
      OBVIOUS
    <3>3. p_wait[h] = 1 /\ \A j \in 2 .. k + 1 : p_wait[dlr[j]] = 0
      BY <2>8, <3>2
    <3> QED
      BY <2>7, <3>1, <3>3
  <2> PICK after \in [Proc -> Int] : after = p_wait'
    BY <1>1, <2>5
  <2>11. \A x \in Proc :
           /\ IsOn(dlr, x) => Left(dlr, p_wait, x) > 0
           /\ IsOn(SubSeq(dlr, k + 1, Len(dlr)), x) =>
                Left(SubSeq(dlr, k + 1, Len(dlr)), after, x) > 0
           /\ Left(SubSeq(dlr, k + 1, Len(dlr)), after, x) =
                IF Left(dlr, p_wait, x) = 0 THEN 0 ELSE Left(dlr, p_wait, x) - 1
    <3>1. /\ p_wait \in [Proc -> Nat] /\ k \in 0 .. Len(dlr)
          /\ \A x \in Proc : after[x] = IF x = dlr[1] THEN p_wait[x] - 1 ELSE p_wait[x]
      BY <1>1, <2>6
    <3> QED
      BY <1>1, <1>5, <2>8, <2>9, <2>10, <3>1, LeftTicked
  <2>12. \A x \in Proc :
           /\ IsOn(dlr', x) => Left(dlr', p_wait', x) > 0
           /\ Left(dlr', p_wait', x) =
                IF Left(dlr, p_wait, x) = 0 THEN 0 ELSE Left(dlr, p_wait, x) - 1
    BY <1>3, <2>11
  <2>13. ASSUME NEW x \in Proc, IsOn(dlr', x) PROVE Left(dlr', p_wait', x) \in 1 .. MaxWait
    <3>1. Left(dlr, p_wait, x) \in 0 .. MaxWait
      BY <1>1 DEF DelayInv, Left
    <3> QED
      <4> PICK a : a = Left(dlr', p_wait', x)
        OBVIOUS
      <4> PICK b \in 0 .. MaxWait : b = Left(dlr, p_wait, x)
        BY <3>1
      <4>1. a > 0 /\ a = IF b = 0 THEN 0 ELSE b - 1
        BY <2>12, <2>13
      <4>2. MaxWait \in Nat
        BY <1>1
      <4> QED
        BY <4>1, <4>2
  <2> QED
    BY <2>5, <2>12, <2>13 DEF DelayInv
<1> QED
  BY <1>4, <1>5

\* The ticks of two processes one behind the other are no more than those left of
\* the second.
LEMMA CutFits ==
  ASSUME MaxWait \in Nat, NEW list \in Seq(Proc), NEW wait \in [Proc -> Nat],
         SumTo(list, wait, 0) = 0,
         \A i \in 1 .. Len(list) :
           /\ SumTo(list, wait, i) \in 1 .. MaxWait
           /\ SumTo(list, wait, i) = SumTo(list, wait, i - 1) + wait[list[i]],
         NEW k \in 1 .. Len(list), k < Len(list)
  PROVE  wait[list[k + 1]] + wait[list[k]] \in 0 .. MaxWait
<1>1. /\ k + 1 \in 1 .. Len(list) /\ (k + 1) - 1 = k
      /\ wait[list[k + 1]] \in Nat /\ wait[list[k]] \in Nat
  OBVIOUS
<1>2. SumTo(list, wait, k - 1) \in Nat
  <2>1. CASE k = 1
    BY <2>1
  <2>2. CASE k # 1
    <3>1. k - 1 \in 1 .. Len(list)
      BY <2>2
    <3> QED
      BY <3>1
  <2> QED
    BY <2>1, <2>2
<1>3. /\ SumTo(list, wait, k + 1) = SumTo(list, wait, k) + wait[list[k + 1]]
      /\ SumTo(list, wait, k) = SumTo(list, wait, k - 1) + wait[list[k]]
      /\ SumTo(list, wait, k + 1) \in 1 .. MaxWait
  BY <1>1
<1> QED
  <2> PICK a \in Nat, b \in Nat, c \in Nat :
        a = wait[list[k + 1]] /\ b = wait[list[k]] /\ c = SumTo(list, wait, k - 1)
    BY <1>1, <1>2
  <2>1. (c + b) + a \in 1 .. MaxWait
    BY <1>3
  <2>2. ASSUME NEW i \in Nat, NEW j \in Nat, NEW h \in Nat, NEW m \in Nat,
               (h + j) + i \in 1 .. m
        PROVE  i + j \in 0 .. m
    BY <2>2
  <2>3. a + b \in 0 .. MaxWait
    BY <2>1, <2>2, Zenon
  <2> QED
    BY <2>3

\* An abort takes its target off the delay list, if it is there.
LEMMA CancelTicks ==
  ASSUME IInv, DelayInv, NEW p \in Proc, AbortSnip(p), ~ misled', NEW t, t = snip.pd
  PROVE  /\ DelayInv' /\ t \in Proc
         /\ \A x \in Proc : Left(dlr', p_wait', x) =
              IF x = t THEN 0 ELSE Left(dlr, p_wait, x)
<1>1. /\ dlr \in Seq(Proc) /\ Distinct(dlr) /\ MaxWait \in Nat /\ MaxWait > 0
      /\ p_wait \in [Proc -> Nat] /\ p_wait \in [Proc -> Int]
      /\ \A x \in Proc : p_wait[x] \in 0 .. MaxWait
      /\ \A i \in 1 .. Len(dlr) : SumTo(dlr, p_wait, i) \in 1 .. MaxWait
      /\ SumTo(dlr, p_wait, 0) = 0
      /\ \A j \in 1 .. Len(dlr) :
           SumTo(dlr, p_wait, j) = SumTo(dlr, p_wait, j - 1) + p_wait[dlr[j]]
  BY DelaySums
<1>2. t \in Proc /\ StillThere(t)
  BY NotMisled DEF AbortSnip, At, IInv, SnipInv
<1>3. dlr' = Snip(dlr, t)
  BY AbortSnipLists
<1>4. CASE ~ IsOn(dlr, t)
  <2>1. dlr' = dlr
    BY <1>3, <1>4 DEF Snip
  <2>2. p_wait' = p_wait
    <3>1. CASE snip.list = "flag"
      BY <3>1 DEF AbortSnip
    <3>2. CASE snip.list # "flag"
      <4>1. snip.list # "dlr"
        BY <1>2, <1>4, <3>2, AbortCuts DEF IInv
      <4> QED
        BY <3>2, <4>1, NotMisled DEF TicksAfterSnip
    <3> QED
      BY <3>1, <3>2
  <2>3. Left(dlr, p_wait, t) = 0
    BY <1>4 DEF Left
  <2> QED
    BY <1>2, <2>1, <2>2, <2>3 DEF DelayInv
<1>5. CASE IsOn(dlr, t)
  <2>1. snip.list # "flag"
    <3>1. \A f \in Flag : flg_pd[f] # t
      BY <1>2, <1>5 DEF IInv, PlacesInv, PlaceOK
    <3> QED
      BY <1>2, <3>1 DEF StillThere
  <2>2. snip.list = "dlr" /\ LinkedAfter(t) = After(dlr, t)
    BY <1>2, <1>5, <2>1, AbortCuts DEF IInv
  <2> PICK m \in Nat : m = Len(dlr)
    BY <1>1
  <2> PICK k \in 1 .. m : k = PlaceOf(dlr, t) /\ dlr[k] = t
    <3>1. PlaceOf(dlr, t) \in 1 .. Len(dlr) /\ dlr[PlaceOf(dlr, t)] = t
      BY <1>5 DEF PlaceOf, IsOn
    <3> QED
      BY <3>1
  <2> PICK rest : rest = SubSeq(dlr, k + 1, m)
    OBVIOUS
  <2>3. /\ rest \in Seq(Proc) /\ Len(rest) = m - k
        /\ \A i \in 1 .. m - k : rest[i] = dlr[k + i]
    <3>1. k \in 0 .. Len(dlr)
      OBVIOUS
    <3> QED
      BY <1>1, <3>1, BackMembers
  <2>4. p_wait' = IF rest = <<>> THEN p_wait
                  ELSE [p_wait EXCEPT ![Head(rest)] = p_wait[Head(rest)] + p_wait[t]]
    <3>1. LinkedAfter(t) = rest
      BY <2>2 DEF After
    <3>2. p_wait' = TicksAfterSnip(p_wait[t])
      BY <2>1, NotMisled
    <3> QED
      BY <2>2, <3>1, <3>2 DEF TicksAfterSnip
  <2>5. \A x \in Proc : p_wait'[x] = IF k < m /\ x = dlr[k + 1] THEN p_wait[x] + p_wait[t]
                                     ELSE p_wait[x]
    <3>1. CASE k = m
      <4>1. rest = <<>>
        BY <2>3, <3>1
      <4> QED
        BY <2>4, <3>1, <4>1
    <3>2. CASE k < m
      <4>1. 1 \in 1 .. m - k /\ rest # <<>> /\ Head(rest) = rest[1]
        BY <2>3, <3>2
      <4>2. Head(rest) = dlr[k + 1]
        BY <2>3, <4>1
      <4>3. p_wait' = [p_wait EXCEPT ![dlr[k + 1]] = p_wait[dlr[k + 1]] + p_wait[t]]
        BY <2>4, <4>1, <4>2
      <4> QED
        BY <1>1, <3>2, <4>3
    <3> QED
      BY <3>1, <3>2
  <2>6. k < m => p_wait[dlr[k + 1]] + p_wait[t] \in 0 .. MaxWait
    <3> SUFFICES ASSUME k < m PROVE p_wait[dlr[k + 1]] + p_wait[t] \in 0 .. MaxWait
      OBVIOUS
    <3>1. k \in 1 .. Len(dlr) /\ k < Len(dlr)
      OBVIOUS
    <3> QED
      BY <1>1, <3>1, CutFits
  <2>7. p_wait' \in [Proc -> 0 .. MaxWait]
    <3>1. \A x \in Proc : p_wait'[x] \in 0 .. MaxWait
      BY <1>1, <2>5, <2>6
    <3>2. CASE rest = <<>>
      BY <2>4, <3>2 DEF DelayInv
    <3>3. CASE rest # <<>>
      <4>1. p_wait' = [x \in Proc |-> p_wait'[x]]
        BY <1>1, <2>4, <3>3
      <4> QED
        BY <3>1, <4>1
    <3> QED
      BY <3>2, <3>3
  <2> PICK after \in [Proc -> Int] : after = p_wait'
    BY <2>7
  <2>8. \A x \in Proc : Left(Snip(dlr, t), after, x) = IF x = t THEN 0 ELSE Left(dlr, p_wait, x)
    <3>1. /\ dlr \in Seq(Proc) /\ Distinct(dlr) /\ p_wait \in [Proc -> Int]
          /\ t \in Proc /\ k \in 1 .. Len(dlr) /\ dlr[k] = t /\ after \in [Proc -> Int]
          /\ TicksCut(dlr, p_wait, t, k, after)
      BY <1>1, <1>2, <2>5 DEF TicksCut
    <3>2. LeftCut(dlr, p_wait, t, Snip(dlr, t), after)
      BY <3>1, LeftSnipped
    <3> QED
      BY <3>2 DEF LeftCut
  <2>9. \A x \in Proc : IsOn(dlr', x) <=> x # t /\ IsOn(dlr, x)
    BY <1>1, <1>3, SnipMembers
  <2> QED
    BY <1>2, <1>3, <2>7, <2>8, <2>9 DEF DelayInv
<1> QED
  BY <1>4, <1>5

\* No other step touches the delay list or its ticks.
LEMMA DelayListSteps ==
  ASSUME [Next]_vars
  PROVE  \/ dlr' = dlr /\ p_wait' = p_wait
         \/ /\ cpu = "dcont" /\ p_stat[Running] = "delay"
            /\ DelayList(Running, TicksOf(u_dparam[Running]))
         \/ FlagSetTick
         \/ \E p \in Proc : AbortSnip(p)
<1>1. CASE Act
  BY <1>1 DEF Act, timeVars
<1>2. CASE Schedule \/ DrlToRlr \/ Switch \/ Exit
  BY <1>2 DEF Schedule, DrlToRlr, Switch, Exit, listVars, timeVars
<1>3. CASE ClockInt
  BY <1>3 DEF ClockInt, timeVars
<1>4. ASSUME NEW f \in Flag, FlagInt(f) PROVE dlr' = dlr /\ p_wait' = p_wait
  BY <1>4 DEF FlagInt, timeVars
<1>5. ASSUME NEW p \in Proc, Process(p), ~ AbortSnip(p) PROVE dlr' = dlr /\ p_wait' = p_wait
  <2>1. CASE Delay(p) \/ EnterDsptch(p) \/ DispatchOrSetPrior(p) \/ Sleep(p) \/ Wakeup(p)
    BY <2>1 DEF Delay, EnterDsptch, DispatchOrSetPrior, Sleep, Wakeup, listVars, timeVars
  <2>2. CASE Unsync(p) \/ Create(p) \/ StartIO(p) \/ FlagWait(p) \/ Terminate(p)
    BY <2>2 DEF Unsync, Create, StartIO, FlagWait, Terminate, listVars, timeVars
  <2>3. CASE Abort(p) \/ AbortFind(p) \/ AbortPut(p)
    BY <2>3 DEF Abort, AbortFind, AbortPut, listVars, timeVars
  <2> QED
    BY <1>5, <2>1, <2>2, <2>3 DEF Process
<1>6. CASE UNCHANGED vars
  BY <1>6 DEF vars, listVars, timeVars
<1> QED
  BY <1>1, <1>2, <1>3, <1>4, <1>5, <1>6 DEF Next, Dispatch, Interrupt

\* A step starts a delay, is a tick, ends a delay or changes no ticks left.
LEMMA DelayNext ==
  ASSUME IInv, DelayInv, [Next]_vars, ~ misled'
  PROVE  /\ DelayInv'
         /\ \/ dlr' = dlr /\ p_wait' = p_wait
            \/ \E p \in Proc : \E n \in 1 .. MaxWait :
                 /\ Left(dlr, p_wait, p) = 0
                 /\ \A x \in Proc :
                      Left(dlr', p_wait', x) = IF x = p THEN n ELSE Left(dlr, p_wait, x)
            \/ \A x \in Proc : Left(dlr', p_wait', x) =
                 IF Left(dlr, p_wait, x) = 0 THEN 0 ELSE Left(dlr, p_wait, x) - 1
            \/ \E t \in Proc : \A x \in Proc :
                 Left(dlr', p_wait', x) = IF x = t THEN 0 ELSE Left(dlr, p_wait, x)
<1>1. CASE dlr' = dlr /\ p_wait' = p_wait
  BY <1>1 DEF DelayInv
<1>2. CASE /\ cpu = "dcont" /\ p_stat[Running] = "delay"
           /\ DelayList(Running, TicksOf(u_dparam[Running]))
  <2> PICK p : p = Running
    OBVIOUS
  <2>1. p \in Proc /\ ~ IsOn(dlr, p)
    BY <1>2, RestSorted
  <2>2. u_dparam[p] \in 0 .. MaxWait
    BY <1>2, <2>1 DEF IInv, ParamInv, ParamOK
  <2>3. DelayList(p, TicksOf(u_dparam[p]))
    BY <1>2
  <2>4. /\ DelayInv'
        /\ \E n \in 1 .. MaxWait : \A x \in Proc :
             Left(dlr', p_wait', x) = IF x = p THEN n ELSE Left(dlr, p_wait, x)
    BY <2>1, <2>2, <2>3, StartTicks
  <2>5. Left(dlr, p_wait, p) = 0
    BY <2>1 DEF Left
  <2> QED
    BY <2>1, <2>4, <2>5
<1>3. CASE FlagSetTick
  BY <1>3, ElapseTicks
<1>4. ASSUME NEW p \in Proc, AbortSnip(p)
      PROVE  /\ DelayInv'
             /\ \E t \in Proc : \A x \in Proc :
                  Left(dlr', p_wait', x) = IF x = t THEN 0 ELSE Left(dlr, p_wait, x)
  <2> PICK t : t = snip.pd
    OBVIOUS
  <2>1. /\ DelayInv' /\ t \in Proc
        /\ \A x \in Proc : Left(dlr', p_wait', x) =
             IF x = t THEN 0 ELSE Left(dlr, p_wait, x)
    BY <1>4, CancelTicks
  <2> QED
    BY <2>1
<1> QED
  BY <1>1, <1>2, <1>3, <1>4, DelayListSteps
----------------------------------------------------------------------------
(* The flags that are on.                                                   *)

\* No interrupt is to be ignored for a flag that is on.
OnInv == \A f \in Flag : flg_pd[f] = FlagOn => flg_ignore[f] = 0

\* No step turns on a flag with interrupts to ignore, nor ignores one for a flag on.
LEMMA OnNext ==
  ASSUME IInv, OnInv, [Next]_vars, ~ misled'
  PROVE  OnInv'
<1>1. /\ flg_pd \in [Flag -> Proc \cup {FlagOff, FlagOn}] /\ flg_ignore \in [Flag -> Nat]
      /\ FlagOff # FlagOn /\ FlagOn \notin Proc
  BY FlagAssumption DEF IInv, Typed
<1>2. CASE flg_pd' = flg_pd /\ flg_ignore' = flg_ignore
  BY <1>2 DEF OnInv
<1>3. CASE Act
  <2>1. flg_ignore' = flg_ignore
    BY <1>3 DEF Act
  <2>2. CASE flg_pd' = flg_pd
    BY <1>2, <2>1, <2>2
  <2>3. CASE FlagAct(Running)
    <3> PICK p : p = Running
      OBVIOUS
    <3>1. p \in Proc
      BY <1>3, RestSorted DEF Act
    <3>2. PICK v \in {FlagOff, p} : flg_pd' = [flg_pd EXCEPT ![u_dparam[p]] = v]
      BY <2>3 DEF FlagAct
    <3>3. v # FlagOn
      BY <1>1, <3>1
    <3>4. \A f \in Flag : flg_pd'[f] = FlagOn => flg_pd[f] = FlagOn
      BY <1>1, <3>2, <3>3
    <3> QED
      BY <2>1, <3>4 DEF OnInv
  <2> QED
    BY <1>3, <2>2, <2>3 DEF Act
<1>4. CASE Schedule \/ DrlToRlr \/ Switch \/ Exit
  BY <1>2, <1>4 DEF Schedule, DrlToRlr, Switch, Exit, flagVars
<1>5. CASE ClockInt
  BY <1>2, <1>5 DEF ClockInt, flagVars
<1>6. ASSUME NEW f \in Flag, FlagInt(f) PROVE OnInv'
  <2>1. CASE /\ flg_ignore[f] > 0
             /\ flg_ignore' = [flg_ignore EXCEPT ![f] = @ - 1]
             /\ flg_pd' = flg_pd
    <3>1. flg_pd[f] # FlagOn
      BY <1>1, <2>1 DEF OnInv
    <3> QED
      BY <1>1, <2>1, <3>1 DEF OnInv
  <2>2. CASE flg_ignore[f] = 0 /\ flg_ignore' = flg_ignore
             /\ \E v : flg_pd' = [flg_pd EXCEPT ![f] = v]
    BY <1>1, <2>2 DEF OnInv
  <2>3. CASE flg_pd' = flg_pd /\ flg_ignore' = flg_ignore
    BY <1>2, <2>3
  <2> QED
    BY <1>6, <2>1, <2>2, <2>3 DEF FlagInt
<1>7. ASSUME NEW p \in Proc, Process(p) PROVE OnInv'
  <2>1. CASE Delay(p) \/ EnterDsptch(p) \/ DispatchOrSetPrior(p) \/ Sleep(p) \/ Wakeup(p)
    BY <1>2, <2>1 DEF Delay, EnterDsptch, DispatchOrSetPrior, Sleep, Wakeup, flagVars
  <2>2. CASE Unsync(p) \/ Create(p) \/ StartIO(p) \/ Terminate(p)
    BY <1>2, <2>2 DEF Unsync, Create, StartIO, Terminate, flagVars
  <2>3. CASE Abort(p) \/ AbortFind(p) \/ AbortPut(p)
    BY <1>2, <2>3 DEF Abort, AbortFind, AbortPut, flagVars
  <2>4. CASE FlagWait(p)
    <3>1. flg_ignore' = flg_ignore
      BY <2>4 DEF FlagWait
    <3>2. flg_pd' = flg_pd \/ flg_pd' = [flg_pd EXCEPT ![dev[p]] = FlagOff]
      BY <2>4 DEF FlagWait
    <3> QED
      BY <1>1, <3>1, <3>2 DEF OnInv
  <2>5. CASE AbortSnip(p)
    <3> PICK t : t = snip.pd
      OBVIOUS
    <3>1. \A f \in Flag :
            /\ flg_pd'[f] = IF flg_pd[f] = t THEN FlagOff ELSE flg_pd[f]
            /\ flg_ignore'[f] = IF flg_pd[f] = t THEN flg_ignore[f] + 1 ELSE flg_ignore[f]
      BY <2>5, AbortSnipLists
    <3> QED
      BY <1>1, <3>1 DEF OnInv
  <2> QED
    BY <1>7, <2>1, <2>2, <2>3, <2>4, <2>5 DEF Process
<1>8. CASE UNCHANGED vars
  BY <1>2, <1>8 DEF vars, flagVars
<1> QED
  BY <1>3, <1>4, <1>5, <1>6, <1>7, <1>8 DEF Next, Dispatch, Interrupt
----------------------------------------------------------------------------
(* The ticks abort has read, and whether it was misled.                     *)

ReadInv == snip.ticks \in 0 .. MaxWait /\ misled \in BOOLEAN

\* Only the search of abort reads ticks, and only its cut can be misled.
LEMMA ReadNext ==
  ASSUME IInv, DelayInv, ReadInv, [Next]_vars
  PROVE  ReadInv'
<1>1. NoSnip.ticks = 0 /\ 0 \in 0 .. MaxWait
  BY BoundAssumption DEF NoSnip
<1>2. CASE snip' = snip /\ misled' = misled
  BY <1>2 DEF ReadInv
<1>3. CASE Dispatch
  BY <1>2, <1>3 DEF Dispatch, Act, Schedule, DrlToRlr, Switch, Exit, abortVars
<1>4. CASE Interrupt
  BY <1>2, <1>4 DEF Interrupt, ClockInt, FlagInt, abortVars
<1>5. ASSUME NEW p \in Proc, Process(p) PROVE ReadInv'
  <2>1. CASE Delay(p) \/ EnterDsptch(p) \/ DispatchOrSetPrior(p) \/ Sleep(p) \/ Wakeup(p)
    BY <1>2, <2>1 DEF Delay, EnterDsptch, DispatchOrSetPrior, Sleep, Wakeup, abortVars
  <2>2. CASE Unsync(p) \/ Create(p) \/ StartIO(p) \/ FlagWait(p) \/ Terminate(p)
    BY <1>2, <2>2 DEF Unsync, Create, StartIO, FlagWait, Terminate, abortVars
  <2>3. CASE AbortPut(p)
    BY <1>2, <2>3 DEF AbortPut
  <2>4. CASE Abort(p)
    <3>1. PICK t \in Proc : snip' = [NoSnip EXCEPT !.pd = t, !.stat = p_stat[t]]
      BY <2>4 DEF Abort
    <3>2. snip'.ticks = 0 /\ misled' = misled
      BY <2>4, <3>1 DEF Abort, NoSnip
    <3> QED
      BY <1>1, <3>2 DEF ReadInv
  <2>5. CASE AbortFind(p)
    <3> PICK t : t = snip.pd
      OBVIOUS
    <3>1. misled' = misled /\ (snip' = AbortTab(t) \/ snip' = NoSnip)
      BY <2>5 DEF AbortFind
    <3>2. t \in Proc /\ p_wait[t] \in 0 .. MaxWait
      BY <2>5 DEF AbortFind, At, IInv, SnipInv, DelayInv
    <3>3. \A list, name : Found(t, list, name).ticks \in 0 .. MaxWait
      BY <1>1, <3>2 DEF Found
    <3>4. [NoSnip EXCEPT !.pd = t, !.stat = "flagwait", !.list = "flag"].ticks = 0
      BY DEF NoSnip
    <3>5. AbortTab(t).ticks \in 0 .. MaxWait
      BY <1>1, <3>3, <3>4 DEF AbortTab
    <3> QED
      BY <1>1, <3>1, <3>5 DEF ReadInv
  <2>6. CASE AbortSnip(p)
    <3>1. snip' = NoSnip
      BY <2>6 DEF AbortSnip
    <3>2. misled' \in BOOLEAN
      BY <2>6 DEF AbortSnip
    <3> QED
      BY <1>1, <3>1, <3>2 DEF ReadInv
  <2> QED
    BY <1>5, <2>1, <2>2, <2>3, <2>4, <2>5, <2>6 DEF Process
<1>6. CASE UNCHANGED vars
  BY <1>2, <1>6 DEF vars, abortVars
<1> QED
  BY <1>3, <1>4, <1>5, <1>6 DEF Next
----------------------------------------------------------------------------
(* What the invariant says of the properties.                               *)

\* A flag is not set more often than its device interrupts.
LEMMA TypesKept ==
  ASSUME IInv, DelayInv, OnInv, ReadInv
  PROVE  TypeOK
<1>1. ASSUME NEW f \in Flag PROVE flg_ignore[f] \in 0 .. MaxPending
  <2>1. /\ pending[f] \in 0 .. MaxPending /\ flg_ignore[f] \in Nat
        /\ MaxPending \in Nat
    BY BoundAssumption DEF IInv, Typed
  <2>2. CASE flg_pd[f] = FlagOn
    BY <2>1, <2>2 DEF OnInv
  <2>3. CASE flg_pd[f] # FlagOn
    <3>1. pending[f] + 0 = flg_ignore[f] + (IF \E x \in Proc : dev[x] = f THEN 1 ELSE 0)
      BY <2>3 DEF IInv, FlagsCount
    <3> QED
      BY <2>1, <3>1
  <2> QED
    BY <2>2, <2>3
<1>2. flg_ignore \in [Flag -> 0 .. MaxPending]
  BY <1>1 DEF IInv, Typed
<1>3. snip \in [pd : Proc \cup {NoProc}, stat : Stat, prev : Proc \cup {NoProc},
                list : {"none", "rlr", "drl", "dlr", "slist", "flag"},
                ticks : 0 .. MaxWait]
  BY DEF IInv, Typed, ReadInv
<1> QED
  BY <1>2, <1>3 DEF IInv, Typed, DelayInv, ReadInv, TypeOK

\* A set with at most the one member e.
LEMMA AtMostOne ==
  ASSUME NEW S, NEW e, \A x \in S : x = e
  PROVE  Cardinality(S) = IF S = {} THEN 0 ELSE 1
<1>1. CASE S = {}
  BY <1>1, FS_EmptySet
<1>2. CASE S # {}
  <2>1. S = {e}
    BY <1>2
  <2> QED
    BY <1>2, <2>1, FS_Singleton
<1> QED
  BY <1>1, <1>2

\* A process is on one list, the one of its status.
LEMMA OnePlaceKept ==
  ASSUME IInv
  PROVE  OnePlace
<1> SUFFICES ASSUME NEW p \in Proc
             PROVE  /\ Count(rlr, p) + Count(drl, p) + Count(dlr, p)
                         + Cardinality({f \in Flag : flg_pd[f] = p})
                         + Cardinality({l \in SList : IsOn(slist[l], p)})
                         = IF pc[p] \in {"dead", "limbo"} THEN 0 ELSE 1
                    /\ \A l \in SList : Count(slist[l], p) <= 1
                    /\ IsOn(dlr, p) => p_stat[p] = "delay"
                    /\ \A l \in SList :
                         IsOn(slist[l], p) => p_stat[p] = "wait" /\ u_dparam[p] = l
                    /\ \A f \in Flag :
                         flg_pd[f] = p => p_stat[p] = "flagwait" /\ u_dparam[p] = f
                    /\ IsOn(rlr, p) =>
                         p_stat[p] = "run" \/ (p = Running /\ cpu \in {"process", "dcont"})
  BY DEF OnePlace
<1>1. PlaceOK(p)
  BY DEF IInv, PlacesInv
<1>2. /\ Count(rlr, p) = IF IsOn(rlr, p) THEN 1 ELSE 0
      /\ Count(drl, p) = IF IsOn(drl, p) THEN 1 ELSE 0
      /\ Count(dlr, p) = IF IsOn(dlr, p) THEN 1 ELSE 0
      /\ \A l \in SList : Count(slist[l], p) = IF IsOn(slist[l], p) THEN 1 ELSE 0
  BY CountMembers DEF IInv, Typed, PlacesInv
<1> PICK F : F = {f \in Flag : flg_pd[f] = p}
  OBVIOUS
<1> PICK L : L = {l \in SList : IsOn(slist[l], p)}
  OBVIOUS
<1>3. Cardinality(F) = IF F = {} THEN 0 ELSE 1
  <2>1. \A f \in F : f = u_dparam[p]
    BY <1>1 DEF PlaceOK
  <2> QED
    BY <2>1, AtMostOne
<1>4. Cardinality(L) = IF L = {} THEN 0 ELSE 1
  <2>1. \A l \in L : l = u_dparam[p]
    BY <1>1 DEF PlaceOK
  <2> QED
    BY <2>1, AtMostOne
<1>5. F # {} <=> \E f \in Flag : flg_pd[f] = p
  OBVIOUS
<1>6. L # {} <=> \E l \in SList : IsOn(slist[l], p)
  OBVIOUS
<1>7. /\ IsOn(rlr, p) => ~ IsOn(drl, p) /\ ~ IsOn(dlr, p) /\ F = {} /\ L = {}
      /\ IsOn(drl, p) => ~ IsOn(dlr, p) /\ F = {} /\ L = {}
      /\ IsOn(dlr, p) => F = {} /\ L = {}
      /\ F # {} => L = {}
      /\ IsOn(rlr, p) \/ IsOn(drl, p) \/ IsOn(dlr, p) \/ F # {} \/ L # {}
           <=> pc[p] \notin Gone
  BY <1>1, <1>5, <1>6 DEF PlaceOK, OnList
<1>8. Count(rlr, p) + Count(drl, p) + Count(dlr, p) + Cardinality(F) + Cardinality(L)
        = IF pc[p] \in {"dead", "limbo"} THEN 0 ELSE 1
  BY <1>2, <1>3, <1>4, <1>7 DEF Gone
<1>9. \A l \in SList : Count(slist[l], p) <= 1
  BY <1>2
<1> QED
  BY <1>1, <1>8, <1>9 DEF PlaceOK

\* Every interrupt is accounted for.
LEMMA FlagsMatchKept ==
  ASSUME IInv
  PROVE  FlagsMatch
<1> SUFFICES ASSUME NEW f \in Flag
             PROVE  pending[f] + (IF flg_pd[f] = FlagOn THEN 1 ELSE 0)
                      = flg_ignore[f] + Cardinality({p \in Proc : dev[p] = f})
  BY DEF FlagsMatch
<1> PICK S : S = {p \in Proc : dev[p] = f}
  OBVIOUS
<1>1. \E e : \A x \in S : x = e
  <2>1. f # NoFlag
    BY FlagAssumption
  <2>2. \A x, y \in S : x = y
    BY <2>1 DEF IInv, FlagInv
  <2> QED
    BY <2>2
<1>2. Cardinality(S) = IF S = {} THEN 0 ELSE 1
  BY <1>1, AtMostOne
<1>3. S = {} <=> ~ \E x \in Proc : dev[x] = f
  OBVIOUS
<1> QED
  BY <1>2, <1>3 DEF IInv, FlagsCount

\* All of PlacesSound.
LEMMA PlacesFollow ==
  ASSUME IInv, DelayInv, OnInv, ReadInv
  PROVE  PlacesSound
<1>1. StatKept
  BY DEF IInv, StatInv, StatOf, StatKept, At
<1> QED
  BY <1>1, TypesKept, OnePlaceKept, FlagsMatchKept DEF IInv, PlacesSound

\* Nobody delays in the first state, and no flag is on.
LEMMA InitDelays ==
  ASSUME Init
  PROVE  /\ DelayInv /\ OnInv /\ ReadInv
         /\ \A x \in Proc : Left(dlr, p_wait, x) = 0
<1>1. dlr = <<>> /\ p_wait = [p \in Proc |-> 0] /\ flg_ignore = [f \in Flag |-> 0]
  BY DEF Init
<1>2. \A x : ~ IsOn(dlr, x)
  BY <1>1, EmptyMembers
<1>3. 0 \in 0 .. MaxWait
  BY BoundAssumption
<1>4. ReadInv
  BY <1>3 DEF Init, ReadInv, NoSnip
<1> QED
  BY <1>1, <1>2, <1>3, <1>4 DEF DelayInv, OnInv, Left
----------------------------------------------------------------------------
(* The theorems.                                                            *)

AllInv == IInv /\ DelayInv /\ OnInv /\ ReadInv

\* The invariant of every state, until an interrupt has misled an abort.
LEMMA InvariantKept == Spec => [](misled \/ AllInv)
<1>1. Init => AllInv
  BY InitStep, InitDelays DEF AllInv
<1>2. ASSUME AllInv, [Next]_vars, ~ misled' PROVE AllInv'
  BY <1>2, NextStep, DelayNext, OnNext, ReadNext DEF AllInv
<1>3. misled /\ [Next]_vars => misled'
  BY DEF Next, vars, abortVars
<1>4. (misled \/ AllInv) /\ [Next]_vars => (misled \/ AllInv)'
  BY <1>2, <1>3
<1> QED
  BY <1>1, <1>4, PTL DEF Spec

\* dsptch.rtm, sysent.rtm, proc.rtm, flag.rtm and abort.rtm, with interrupts on in
\* abort's search: until one makes an abort cut its target off where it is no more,
\* every process is on the one list its status names, the ready list is in order of
\* priority, what a process has asked of the dispatcher is kept while it is
\* interrupted, and every interrupt is for the process that uses its device.
THEOREM PlacesKept == Spec => []PlacesSound
<1>1. misled \/ AllInv => PlacesSound
  BY PlacesFollow DEF AllInv, PlacesSound
<1> QED
  BY <1>1, InvariantKept, PTL

\* The refinement mapping, by the sums along the list.
LEMMA TicksAreLeft == TicksLeft = [x \in Proc |-> Left(dlr, p_wait, x)]
  BY TicksAreSums DEF TicksLeft, Left

\* A step of the system is a step of the countdowns.
LEMMA CountdownStep ==
  ASSUME IInv, DelayInv, [Next]_vars, ~ misled'
  PROVE  [Timers!Next]_(Timers!vars)
<1> PICK left : left = [x \in Proc |-> Left(dlr, p_wait, x)]
  OBVIOUS
<1> PICK after : after = [x \in Proc |-> Left(dlr', p_wait', x)]
  OBVIOUS
<1>1. TicksLeft = left /\ TicksLeft' = after
  <2>1. \A i : TicksTo(i)' = SumTo(dlr', p_wait', i)
    BY DEF TicksTo, SumTo
  <2>2. TicksLeft' = after
    BY <2>1 DEF TicksLeft, Left, PlaceOf
  <2> QED
    BY <2>2, TicksAreLeft
<1>2. CASE dlr' = dlr /\ p_wait' = p_wait
  <2>1. after = left
    BY <1>2
  <2> QED
    BY <1>1, <2>1 DEF Timers!vars
<1>3. ASSUME NEW p \in Proc, NEW n \in 1 .. MaxWait, Left(dlr, p_wait, p) = 0,
             \A x \in Proc : Left(dlr', p_wait', x) = IF x = p THEN n ELSE Left(dlr, p_wait, x)
      PROVE  Timers!Next
  <2>1. left[p] = 0 /\ after = [left EXCEPT ![p] = n]
    BY <1>3
  <2> QED
    BY <1>1, <2>1 DEF Timers!Next, Timers!Start
<1>4. ASSUME \A x \in Proc : Left(dlr', p_wait', x) =
                 IF Left(dlr, p_wait, x) = 0 THEN 0 ELSE Left(dlr, p_wait, x) - 1
      PROVE  Timers!Next
  <2>1. after = [p \in Proc |-> IF left[p] = 0 THEN 0 ELSE left[p] - 1]
    BY <1>4
  <2> QED
    BY <1>1, <2>1 DEF Timers!Next, Timers!Elapse
<1>5. ASSUME NEW t \in Proc,
             \A x \in Proc : Left(dlr', p_wait', x) = IF x = t THEN 0 ELSE Left(dlr, p_wait, x)
      PROVE  Timers!Next
  <2>1. after = [left EXCEPT ![t] = 0]
    BY <1>5
  <2> QED
    BY <1>1, <2>1 DEF Timers!Next, Timers!Cancel
<1> QED
  BY <1>2, <1>3, <1>4, <1>5, DelayNext

\* flag.rtm, dsptch.rtm and abort.rtm, with interrupts on in abort's search: until
\* one misleads an abort, the delay list, whose ticks are relative to one another, is
\* a countdown of its own for each process, also when another is put on it, taken off
\* or over.
THEOREM DelaysKept == Spec => DelaysExact
<1>1. Init => Timers!Init
  <2> SUFFICES ASSUME Init PROVE Timers!Init
    OBVIOUS
  <2>1. \A x \in Proc : Left(dlr, p_wait, x) = 0
    BY InitDelays
  <2>2. TicksLeft = [x \in Proc |-> 0]
    BY <2>1, TicksAreLeft
  <2> QED
    BY <2>2 DEF Timers!Init
<1>2. ASSUME misled \/ AllInv, [Next]_vars PROVE misled' \/ [Timers!Next]_(Timers!vars)
  <2>1. CASE misled
    <3>1. misled'
      BY <1>2, <2>1 DEF Next, vars, abortVars
    <3> QED
      BY <3>1
  <2>2. CASE AllInv
    BY <1>2, <2>2, CountdownStep DEF AllInv
  <2> QED
    BY <1>2, <2>1, <2>2
<1>3. (misled \/ AllInv) /\ [Next]_vars => [misled' \/ [Timers!Next]_(Timers!vars)]_vars
  BY <1>2
<1> QED
  BY <1>1, <1>3, InvariantKept, PTL DEF Spec, DelaysExact
=============================================================================
