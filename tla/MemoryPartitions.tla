------------------------- MODULE MemoryPartitions -------------------------
(***************************************************************************)
(* GENCCPM's memory partitions (src/commands/genccpm): the list the user   *)
(* edits (genc2.c), and what is made of it when the system is generated:   *)
(* the memory free list (MFL) and the unused memory descriptors (MDUL) of  *)
(* SYSDAT (genc3.c), written once before the size of the system is known   *)
(* and, if partitions collide with the system, once more over the first    *)
(* copy after they are trimmed (genc1.c).                                  *)
(*                                                                         *)
(* Addresses are paragraphs.  A partition list entry [first, last, size]   *)
(* stands for the partitions of `size' paragraphs from first up to, but    *)
(* without, last; the remainder goes to the last of them.                  *)
(***************************************************************************)
EXTENDS Integers, Sequences, SequencesExt, FiniteSets

CONSTANTS
  MemWord,        \* 2^16: unsigned arithmetic wraps around here
  MinMem,      \* MINKMEM, the least partition
  Inputs,      \* the <<first, last, size>> a user types
  Places,      \* the <<start, end>> the system may turn out to have
  XtraPds,     \* process descriptors asked for beside one per partition
  MaxEntries   \* bound: entries typed before the system is generated

ASSUME WordAssumption == /\ MemWord \in Nat \ {0}
                         /\ MinMem \in 3 .. MemWord - 1
                         /\ XtraPds \in Nat /\ MaxEntries \in Nat

VARIABLES
  memroot,   \* the partition list, in the order of its links
  md,        \* the memory descriptors in the file: [link, start, length]
  mfl, mdul, \* roots of the two lists of descriptors (0: empty)
  os,        \* <<*sd_mpmseg, *sd_endseg>>
  asked,     \* the list as it was when the first copy was written
  mphase      \* "edit", "tables" (first copy written), "done"

mvars == <<memroot, md, mfl, mdul, os, asked, mphase>>

Entry(f, l, s) == [first |-> f, last |-> l, size |-> s]
Minus(a, b) == (a - b + MemWord) % MemWord

-----------------------------------------------------------------------------
(* Editing the list. *)

\* The number of partitions of an entry: one division everywhere.
Nump(m) == Minus(m.last, m.first) \div m.size

\* addmem: what the typed values become.  A size that is too big is cut, and
\* the end is moved down to a multiple of the size.
Adjusted(f, l, s) ==
  LET size == IF s > l - f THEN l - f ELSE s
  IN  Entry(f, f + ((l - f) \div size) * size, size)

\* addmem: the entry is accepted.
Acceptable(f, l, s) ==
  /\ l > f /\ s # 0
  /\ (IF s > l - f THEN l - f ELSE s) >= MinMem

\* intomlist: before the first entry that does not start below it.
IntoMlist(list, m) ==
  LET at == SelectInSeq(list, LAMBDA n : n.first >= m.first)
  IN  IF at = 0 THEN Append(list, m) ELSE InsertAt(list, at, m)

\* cntmlist: two neighbours that it makes one.
Same(m, n) == m = n
Adjacent(m, n) == m.size = n.size /\ (m.last = n.first \/ m.last = n.first - 1)

\* cntmlist: one step of its loop, on the entries it has left behind.
CondenseStep(done, n) ==
  IF done # <<>> /\ (Same(Last(done), n) \/ Adjacent(Last(done), n))
  THEN Front(done) \o <<[Last(done) EXCEPT !.last = n.last]>>
  ELSE Append(done, n)

Condense(list) == FoldLeft(CondenseStep, <<>>, list)

Total(list) == FoldLeft(LAMBDA acc, m : acc + Nump(m), 0, list)

\* cntmlist: the number of partitions of the condensed list, 0 if it is bad.
Count(list) ==
  IF \/ \E i \in 1 .. Len(list) - 1 : list[i].last > list[i + 1].first
     \/ \E i \in 1 .. Len(list) : Nump(list[i]) = 0
  THEN 0
  ELSE Total(list)

-----------------------------------------------------------------------------
(* Generating the lists of descriptors. *)

\* genmfl: the descriptors of one entry.
Descriptors(m) ==
  [j \in 1 .. Nump(m) |->
     LET start == m.first + (j - 1) * m.size
     IN  [start |-> start,
          length |-> IF j = Nump(m) THEN Minus(m.last, start) ELSE m.size]]

\* genmfl: each descriptor is linked to the one that will follow it in the
\* file; only the last partition of the last ENTRY ends the list.
GenMfl(list) ==
  LET ds == FoldLeft(LAMBDA acc, m : acc \o Descriptors(m), <<>>, list)
      ends == list # <<>> /\ Nump(Last(list)) > 0
  IN  [i \in 1 .. Len(ds) |->
         [link |-> IF i = Len(ds) /\ ends THEN 0 ELSE i + 1,
          start |-> ds[i].start, length |-> ds[i].length]]

\* Bug: the first is linked like the others.
BugUnused(n, total) ==
  [i \in 1 .. total |-> [link |-> n + i - 1, start |-> 0, length |-> 0]]

\* gentables: the unused descriptors follow, the last written is the root.
Unused(n, total) ==
  [i \in 1 .. total |-> [link |-> IF i = 1 THEN 0 ELSE n + i - 1,
                         start |-> 0, length |-> 0]]

ByteAdjust(n) == IF n > 255 THEN 255 ELSE n

\* gentables: totmds - nmparts.
UnusedCount(nmparts) ==
  LET totpds == ByteAdjust(XtraPds + nmparts)
      totmds == ByteAdjust(3 * totpds + nmparts + nmparts \div 2)
  IN  IF totmds > nmparts THEN totmds - nmparts ELSE 0

\* The file after genmfl writes from the first descriptor on.
WriteOver(file, ds) ==
  ds \o (IF Len(ds) < Len(file) THEN SubSeq(file, Len(ds) + 1, Len(file)) ELSE <<>>)

-----------------------------------------------------------------------------
(* trimlist: the list according to the bounds of the system. *)

\* trimit: the size of a partition cut to start..last; 0 if nothing is left.
TrimIt(start, last, size) ==
  LET ss == Minus(last, start)
  IN  IF ss < MinMem THEN 0 ELSE IF ss < size THEN ss - 1 ELSE size

\* Bug: rounded down.
BugOnBounds(start, size, nst) ==
  IF start >= nst THEN start ELSE start + ((nst - start) \div size) * size

\* onbounds: the first multiple of size from start that is not below nst.
OnBounds(start, size, nst) ==
  IF start >= nst THEN start ELSE start + ((nst - start + size - 1) \div size) * size

\* An entry that starts inside the system.
TrimHigh(m, osend) ==
  IF m.last <= osend THEN <<>>
  ELSE LET ss == OnBounds(m.first, m.size, osend)
           low == TrimIt(osend, ss, m.size)
           high == TrimIt(ss, m.last, m.size)
       IN  (IF low > 0 THEN <<Entry(osend + 1, ss, low)>> ELSE <<>>)
           \o (IF high > 0 THEN <<Entry(ss, m.last, high)>> ELSE <<>>)

Inside(m, o) == m.first >= o[1] /\ m.first < o[2]
Crosses(m, o) == m.first < o[1] /\ m.last >= o[1]

\* An entry that starts below the system and runs into it; what is above is a
\* new entry, which the loop looks at next.
TrimCross(m, o) ==
  LET zz == TrimIt(m.first, o[1] - 1, m.size)
      rest == [m EXCEPT !.first = OnBounds(m.first, m.size, o[1])]
  IN  (IF zz > 0 THEN <<Entry(m.first, o[1] - 1, zz)>> ELSE <<>>)
      \o (IF m.last <= o[2] THEN <<>>
          ELSE IF Inside(rest, o) THEN TrimHigh(rest, o[2]) ELSE <<rest>>)

Trim(m, o) ==
  IF Crosses(m, o) THEN TrimCross(m, o)
  ELSE IF Inside(m, o) THEN TrimHigh(m, o[2]) ELSE <<m>>

TrimList(list, o) == FoldLeft(LAMBDA acc, m : acc \o Trim(m, o), <<>>, list)
Adjusts(list, o) == \E i \in 1 .. Len(list) : Crosses(list[i], o) \/ Inside(list[i], o)

-----------------------------------------------------------------------------
MemInit ==
  /\ memroot = <<>> /\ md = <<>> /\ mfl = 0 /\ mdul = 0
  /\ os = <<0, 0>> /\ asked = <<>> /\ mphase = "edit"

\* "add=first,last,size"
AddMem(f, l, s) ==
  /\ mphase = "edit" /\ Len(memroot) < MaxEntries
  /\ Acceptable(f, l, s)
  /\ memroot' = IntoMlist(memroot, Adjusted(f, l, s))
  /\ UNCHANGED <<md, mfl, mdul, os, asked, mphase>>

\* "delete=df-dl" and "delete=*"
DelMem(df, dl) ==
  /\ mphase = "edit"
  /\ df <= dl /\ dl <= Len(memroot)
  /\ memroot' = SubSeq(memroot, 1, df - 1) \o SubSeq(memroot, dl + 1, Len(memroot))
  /\ UNCHANGED <<md, mfl, mdul, os, asked, mphase>>

\* domem, sysvalid: the end of a command line condenses the list.
CheckList ==
  /\ mphase = "edit"
  /\ memroot' = Condense(memroot)
  /\ UNCHANGED <<md, mfl, mdul, os, asked, mphase>>

\* "gensys": sysvalid, then gentables up to the unused descriptors.
GenMds ==
  LET list == Condense(memroot)
      n == Count(list)
      unused == Unused(n, UnusedCount(n))
  IN  /\ mphase = "edit" /\ n > 0
      /\ memroot' = list /\ asked' = list
      /\ md' = GenMfl(list) \o unused
      /\ mfl' = 1
      /\ mdul' = IF unused = <<>> THEN 0 ELSE n + Len(unused)
      /\ mphase' = "tables" /\ UNCHANGED os

\* fixups: the size of the system is known, trimmed lists are written again.
FixMemory(o) ==
  LET list == TrimList(memroot, o)
  IN  /\ mphase = "tables"
      /\ os' = o
      /\ memroot' = list
      /\ md' = IF Adjusts(memroot, o) THEN WriteOver(md, GenMfl(list)) ELSE md
      /\ mphase' = "done" /\ UNCHANGED <<mfl, mdul, asked>>

MemDone == mphase = "done" /\ UNCHANGED mvars

MemNext ==
  \/ \E t \in Inputs : AddMem(t[1], t[2], t[3])
  \/ \E df, dl \in 1 .. MaxEntries : DelMem(df, dl)
  \/ CheckList
  \/ GenMds
  \/ \E o \in Places : FixMemory(o)
  \/ MemDone

MemSpec == MemInit /\ [][MemNext]_mvars

-----------------------------------------------------------------------------
(* Properties. *)

\* The descriptors the kernel finds when it follows a list from its root.
Chain(root) ==
  LET upto[n \in 0 .. Len(md) + 1] ==
        IF n = 0 THEN <<>>
        ELSE LET c == upto[n - 1]
                 next == IF c = <<>> THEN root ELSE md[Last(c)].link
             IN  IF next \in DOMAIN md THEN Append(c, next) ELSE c
  IN  upto[Len(md) + 1]

FreeList == Chain(mfl)
UnusedList == Chain(mdul)

Paragraphs(first, last) == first .. last - 1
Of(i) == Paragraphs(md[i].start, md[i].start + md[i].length)
Asked == UNION {Paragraphs(asked[i].first, asked[i].last) : i \in DOMAIN asked}

\* What is left of the list ends in a partition, so genmfl ends the free list.
EndsInPartition == memroot # <<>> /\ Nump(Last(memroot)) > 0

\* The partitions the kernel will hand out (the MFL as it is in the file) lie
\* in the memory that was asked for, clear of the system, and have nothing in
\* common, however entries were added, deleted, merged and trimmed.
FreeMemorySound ==
  mphase = "done" /\ EndsInPartition =>
    LET free == FreeList
        memory == Asked \ Paragraphs(os[1], os[2])
    IN  /\ \A n \in DOMAIN free : Of(free[n]) # {} /\ Of(free[n]) \subseteq memory
        /\ \A n, k \in DOMAIN free : n # k => Of(free[n]) \cap Of(free[k]) = {}

\* No descriptor is both on the free list and on the list of unused ones: the
\* second writing of the MFL, after trimming, does not run over its first copy
\* into the descriptors behind it, and both lists end.
ListsApart ==
  mphase # "edit" /\ (mphase = "done" => EndsInPartition) =>
    LET free == FreeList
        unused == UnusedList
    IN  /\ Range(free) \cap Range(unused) = {}
        /\ Len(free) <= Len(md) /\ IsInjective(free) /\ IsInjective(unused)
        /\ Len(unused) = UnusedCount(Count(asked))

\* Both lists of descriptors are what the kernel needs of them.
MemoryListsSound == FreeMemorySound /\ ListsApart

\* genmfl ends the free list with its last partition, whatever trimming left.
\* (genc3.c:263 "on the very last partition", genc3.c:264 "set end of list")
FreeListEnds ==
  mphase = "done" => Range(FreeList) \cap Range(UnusedList) = {}

=============================================================================
