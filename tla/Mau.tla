-------------------------------- MODULE Mau --------------------------------
(***************************************************************************)
(* A memory allocation unit (kernel/con/mau.mem): a partition described by *)
(* the suballocation table (SAT) at its start, with the calls that use it: *)
(* malloc and mfree of memory.mem and share of share.mem, restricted to    *)
(* one partition.  The memory module runs one call at a time, so a call is *)
(* one step.                                                               *)
(***************************************************************************)
EXTENDS Integers, Sequences, FiniteSets

CONSTANTS
  MD,      \* the memory descriptors of the p_mem lists
  Owner,   \* the processes they are on the list of
  NoOwner,
  Base,    \* the first paragraph after the SAT
  Length,  \* the number of paragraphs from there
  Ents,    \* sat1_ents, 31 in the code
  Abs      \* the paragraphs of absolute requests

ASSUME MDAssumption == IsFiniteSet(MD)
ASSUME SizeAssumption == Base \in Nat \ {0} /\ Length \in Nat \ {0} /\ Ents \in Nat \ {0}
ASSUME OwnerAssumption == NoOwner \notin Owner
ASSUME AbsAssumption == Abs \subseteq Base .. Base + Length - 1

VARIABLES
  sat,     \* the SAT: start, length and nall of each entry
  onMal,   \* the MAU is on the MAL; else its partition is on the MFL
  md       \* owner (pd), start and length of each descriptor

vars == <<sat, onMal, md>>

Sat == [start : Nat, length : Int, nall : Int]
Table == [1 .. Ents -> Sat]
NoEnt == [start |-> 0, length |-> 0, nall |-> 0]
NoSegment == [pd |-> NoOwner, start |-> 0, length |-> 0]

\* mla_initmau.
FreshTable ==
  [i \in 1 .. Ents |->
     IF i = 1 THEN [start |-> Base, length |-> Length, nall |-> 0] ELSE NoEnt]

Init == sat = FreshTable /\ onMal = FALSE /\ md = [m \in MD |-> NoSegment]

----------------------------------------------------------------------------
(* The table.                                                              *)

\* The entries before the first that is not used.
Used(t) == {i \in 1 .. Ents : \A j \in 1 .. i : t[j].start # 0}
Free(t) == {i \in Used(t) : t[i].nall = 0}
Least(S) == CHOOSE i \in S : \A j \in S : i <= j
End(e) == e.start + e.length

\* mau_insert: a new entry in front of the i-th, if the table is not full.
Full(t) == t[Ents].start # 0
Insert(t, i, e) ==
  [j \in 1 .. Ents |-> IF j < i THEN t[j] ELSE IF j = i THEN e ELSE t[j - 1]]

\* mau_release.
Release(t, i) ==
  [j \in 1 .. Ents |-> IF j < i THEN t[j] ELSE IF j < Ents THEN t[j + 1] ELSE NoEnt]

\* mau_split: the i-th entry keeps n paragraphs.  If the table is full the
\* others are in no entry.
Split(t, i, n) ==
  LET rest == [start |-> t[i].start + n, length |-> t[i].length - n, nall |-> 0]
      cut == [t EXCEPT ![i].length = n]
  IN  IF Full(t) THEN cut ELSE Insert(cut, i + 1, rest)

\* Bug: free neighbours stay apart.
BugMerge(t, i) == [sat |-> t, next |-> i + 1]
\* Two free entries become one.
Merge(t, i) ==
  [sat |-> Release([t EXCEPT ![i].length = t[i + 1].start - t[i].start + t[i + 1].length],
                   i + 1),
   next |-> i]

\* mauc_nsat: what is done at the i-th entry, and the entry to go on at.
CollapseAt(t, i) ==
  LET this == t[i]
      that == t[i + 1]
      gap == that.start - this.start
  IN  IF this.nall = 0 /\ that.nall = 0 THEN Merge(t, i)
      ELSE IF this.nall = 0
           THEN [sat |-> [t EXCEPT ![i].length = gap], next |-> i + 1]
      ELSE IF End(this) = that.start THEN [sat |-> t, next |-> i + 1]
      ELSE IF that.nall = 0                         \* mauc_nfhole
           THEN [sat |-> [t EXCEPT ![i + 1] =
                   [@ EXCEPT !.start = @ - gap, !.length = @ + gap]], next |-> i + 1]
      ELSE [sat |-> IF Full(t) THEN t ELSE Insert(t, i, NoEnt), next |-> i + 1]

\* mauc_nsat, until the next entry is not used.
CollapseNext(c) ==
  IF c.next = Ents \/ c.sat[c.next].start = 0 \/ c.sat[c.next + 1].start = 0 THEN c
  ELSE CollapseAt(c.sat, c.next)

\* mau_collapse.  It goes on to the next entry less than Ents times, and one that
\* goes away was in the table or has come into it on the way.
Collapse(t) ==
  LET c[k \in 0 .. 3 * Ents] ==
        IF k = 0 THEN [sat |-> t, next |-> 1] ELSE CollapseNext(c[k - 1])
  IN  c[3 * Ents].sat
Empty(t) == \A i \in Used(t) : t[i].nall = 0

----------------------------------------------------------------------------
(* maualloc.                                                               *)

\* An absolute request first makes an entry start where it does.
SplitAt(t, at) ==
  LET inside == {i \in Free(t) : t[i].start < at /\ at < End(t[i])}
  IN  IF at = 0 \/ inside = {} THEN t
      ELSE LET i == Least(inside) IN Split(t, i, at - t[i].start)

\* The entries that satisfy a request, once split; at = 0 for a relative one.
Fits(t, at, min) ==
  {i \in Free(t) : t[i].length >= min /\ (at # 0 => t[i].start = at)}

\* Bug: an entry of exactly the maximum is split as well.
BugTake(t, i, max) ==
  [IF max <= t[i].length THEN Split(t, i, max) ELSE t EXCEPT ![i].nall = 1]
Take(t, i, max) ==
  [IF max < t[i].length THEN Split(t, i, max) ELSE t EXCEPT ![i].nall = 1]

----------------------------------------------------------------------------
(* The calls.                                                              *)

FreeMD == {m \in MD : md[m].pd = NoOwner}

\* malloc of at least min and at most max, from the MAU if the process has a
\* segment of it.  A partition on the MFL becomes a MAU only if the request fits.
Malloc(o, at, min, max) ==
  /\ onMal => \E x \in MD : md[x].pd = o
  /\ \E m \in FreeMD :
       LET t == SplitAt(IF onMal THEN sat ELSE FreshTable, at)
           fit == Fits(t, at, min)
       IN  \/ /\ fit # {}
              /\ LET i == Least(fit)
                     taken == Take(t, i, max)
                 IN  /\ sat' = Collapse(taken)
                     /\ md' = [md EXCEPT ![m] = [pd |-> o, start |-> taken[i].start,
                                                 length |-> taken[i].length]]
              /\ onMal' = TRUE
           \/ /\ fit = {} /\ onMal
              /\ sat' = t
              /\ UNCHANGED <<onMal, md>>

EntryAt(t, start) == Least({i \in 1 .. Ents : t[i].start = start})

\* mfree of a whole segment.  The MAU goes back to the MFL when it is empty.
MfreeAll(m) ==
  /\ md[m].pd # NoOwner
  /\ sat' = Collapse([sat EXCEPT ![EntryAt(sat, md[m].start)].nall = @ - 1])
  /\ onMal' = ~Empty(sat')
  /\ md' = [md EXCEPT ![m] = NoSegment]

\* Bug: a shared segment is split.
BugMaySplit(e) == e.nall > 0
MaySplit(e) == e.nall = 1

\* mfree of the end of a segment, from paragraph p on.
MfreeEnd(m, p) ==
  LET i == EntryAt(sat, md[m].start)
      n == p - md[m].start
  IN  /\ md[m].pd # NoOwner
      /\ 0 < n /\ n < md[m].length
      /\ MaySplit(sat[i])
      /\ sat' = Collapse(Split(sat, i, n))
      /\ md' = [md EXCEPT ![m].length = n]
      /\ UNCHANGED onMal

\* Bug: share does not count the new owner.
BugShared(t, i) == t
Shared(t, i) == [t EXCEPT ![i].nall = @ + 1]

\* share, with o, of the segment of another process.
Share(m, o) ==
  /\ md[m].pd \notin {NoOwner, o}
  /\ \E new \in FreeMD : md' = [md EXCEPT ![new] = [md[m] EXCEPT !.pd = o]]
  /\ sat' = Shared(sat, EntryAt(sat, md[m].start))
  /\ UNCHANGED onMal

Next ==
  \/ \E o \in Owner, at \in Abs \cup {0}, min, max \in 1 .. Length :
       min <= max /\ Malloc(o, at, min, max)
  \/ \E m \in MD : MfreeAll(m)
  \/ \E m \in MD, p \in Base .. Base + Length - 1 : MfreeEnd(m, p)
  \/ \E m \in MD, o \in Owner : Share(m, o)

Spec == Init /\ [][Next]_vars

----------------------------------------------------------------------------
(* Properties.                                                             *)

TypeOK ==
  /\ sat \in [1 .. Ents -> [start : {0} \cup Base .. Base + Length - 1,
                            length : 0 .. Length, nall : 0 .. Cardinality(MD)]]
  /\ onMal \in BOOLEAN
  /\ md \in [MD -> [pd : Owner \cup {NoOwner}, start : 0 .. Base + Length,
                    length : 0 .. Length]]

\* The table and the descriptors agree: the entries in use cover the partition
\* with no hole and no overlap, nall counts the descriptors of each, and a
\* descriptor is as long as its entry.
TableMatches ==
  LET n == Cardinality(Used(sat))
  IN  IF ~onMal THEN FreeMD = MD
      ELSE /\ sat[1].start = Base /\ End(sat[n]) = Base + Length
           /\ \A i \in 1 .. n - 1 : End(sat[i]) = sat[i + 1].start
           /\ \A i \in 1 .. n :
                sat[i].nall = Cardinality({m \in MD : md[m].start = sat[i].start})
           /\ \A m \in MD \ FreeMD :
                \E i \in 1 .. n : sat[i].start = md[m].start /\ sat[i].length = md[m].length

\* The table is one, and it agrees with the descriptors.
TableSound == TypeOK /\ TableMatches

Paragraphs(m) == md[m].start .. md[m].start + md[m].length - 1

Service ==
  INSTANCE MauService WITH First <- Base, Last <- Base + Length - 1,
                           held <- [m \in MD |-> Paragraphs(m)]

\* malloc, mfree and share implement the service: they never give a process a
\* paragraph that another holds.
Implements == Service!Spec

\* mau.mem: "describes areas within it that are allocated or free".  No paragraph
\* is allocated twice.
Exclusive == Service!Exclusive

\* n paragraphs that follow each other are free, and a request for n finds them.
Finds(n) ==
  (\E p \in Base .. Base + Length - n :
     \A m \in MD : (p .. p + n - 1) \cap Paragraphs(m) = {})
  => Fits(sat, 0, n) # {}

\* mau_collapse: what a call frees becomes one area with what is free around it,
\* so that the next request is refused only if there is not enough memory.  (The
\* entries that an absolute request has split and then refused stay apart until
\* then.)
FreeCollapses ==
  [][onMal' /\ (\E m \in MD : md'[m].length < md[m].length)
       => \A n \in 1 .. Length : Finds(n)']_vars
=============================================================================
