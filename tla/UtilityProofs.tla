--------------------------- MODULE UtilityProofs ---------------------------
(* Theorems of the two utilities whose data hang together by links.          *)
(*                                                                           *)
(* SysImage, for any modules, RSPs, parameters and size of the disk:         *)
(* generating a system never leaves the disk without one, and as long as an  *)
(* overflow of the system data segment is noticed the image says of itself   *)
(* what is so.                                                               *)
(*                                                                           *)
(* TextStore, for any buffers, lines and size of the heap: the links are     *)
(* those of the sequences of lines the editor believes in, and the requests  *)
(* implement Lines.  They start at "The text store" below.                   *)
EXTENDS SysImage, TextStore, SequenceTheorems, FiniteSetTheorems, TLAPS

\* What is said there of numbers is said for no list in particular.
Numbers == INSTANCE ProcessListsProofs WITH Proc <- RspNames

\* The files of the disk, stage by stage.  NEWSYS is complete from the version
\* string on, and it is by then that the old system is touched.
DiskInv ==
  /\ disk \in [Names -> {"system", "none", "partial"}]
  /\ disk["SYSFILE"] # "partial" /\ disk["OLDSYS"] # "partial"
  /\ stage = "start" => \A n \in Names : disk[n] = "none"
  /\ stage = "menu" => disk["NEWSYS"] = "none"
  /\ stage \in {"written", "unlinked", "renamed"} => disk["NEWSYS"] = "system"
  /\ Written => file.len + VersionLen <= room

\* The first conjunct of SystemSurvives, of a step.
Survives == ~ par.clean /\ (\E n \in Names : disk[n] = "system") =>
              \E m \in Names : disk'[m] = "system"

\* Only five actions write to the directory.
DiskKept ==
  /\ disk' = disk
  /\ \/ stage' = stage /\ file' = file /\ room' = room
     \/ stage # "start" /\ stage' \in {"modules", "tables", "rsps", "generated", "fixed", "failed", "crashed"}
     \/ stage = "menu" /\ stage' = "menu"

LEMMA InitDisk == ImageInit => DiskInv
BY DEF ImageInit, DiskInv, Names, Written

\* A step that leaves the directory alone.
LEMMA KeptStep == DiskInv /\ DiskKept => DiskInv' /\ Survives
BY DEF DiskInv, DiskKept, Survives, Written

\* What each stage of the generation does to the directory.
LEMMA DiskStep == DiskInv /\ [ImageNext]_ivars => DiskInv' /\ Survives
<1> SUFFICES ASSUME DiskInv, [ImageNext]_ivars
             PROVE  DiskInv' /\ Survives
  OBVIOUS
<1>1. CASE StartGenccpm
  <2>1. disk' \in [Names -> {"system", "none", "partial"}]
    BY <1>1 DEF StartGenccpm, Names
  <2>2. stage' = "menu" /\ disk'["NEWSYS"] = "none"
    BY <1>1 DEF StartGenccpm
  <2>3. disk'["SYSFILE"] # "partial" /\ disk'["OLDSYS"] # "partial"
    BY <1>1 DEF StartGenccpm, Names
  <2>4. DiskInv'
    BY <2>1, <2>2, <2>3 DEF DiskInv, Written
  <2>5. Survives
    BY <1>1 DEF StartGenccpm, DiskInv, Survives
  <2> QED
    BY <2>4, <2>5
<1>2. CASE \E r \in RspNames : RspInclude(r) \/ RspExclude(r)
  <2>1. DiskKept
    BY <1>2 DEF RspInclude, RspExclude, DiskKept
  <2> QED
    BY <2>1, KeptStep
<1>3. CASE RspExcludeAll
  <2>1. DiskKept
    BY <1>3 DEF RspExcludeAll, DiskKept
  <2> QED
    BY <2>1, KeptStep
<1>4. CASE Gensys
  <2>1. /\ stage = "menu" /\ stage' = "modules"
        /\ disk' = [disk EXCEPT !["NEWSYS"] = "partial",
                                !["SYSFILE"] = IF par.clean THEN "none" ELSE @]
    BY <1>4 DEF Gensys
  <2> QED
    BY <2>1 DEF DiskInv, Survives, Written, Names
<1>5. CASE GenTables \/ GenQma \/ XferRsp \/ Reserve \/ FixImage
  <2>1. stage # "start" /\ disk' = disk
        /\ stage' \in {"modules", "tables", "rsps", "generated", "fixed", "failed"}
    BY <1>5 DEF GenTables, GenQma, XferRsp, Reserve, FixImage, Stop
  <2> QED
    BY <2>1, KeptStep DEF DiskKept
<1>6. CASE WriteVersion
  <2>1. CASE ~ Fits(VersionLen)
    <3>1. DiskKept
      BY <1>6, <2>1 DEF WriteVersion, Stop, DiskKept
    <3> QED
      BY <3>1, KeptStep
  <2>2. CASE Fits(VersionLen)
    <3>1. /\ stage' = "written" /\ file' = file /\ room' = room
          /\ disk' = [disk EXCEPT !["NEWSYS"] = "system"]
      BY <1>6, <2>2 DEF WriteVersion, image
    <3> QED
      BY <2>2, <3>1 DEF DiskInv, Survives, Written, Names, Fits
  <2> QED
    BY <2>1, <2>2
<1>7. CASE UnlinkOld
  <2>1. /\ stage = "written" /\ stage' = "unlinked" /\ file' = file /\ room' = room
        /\ disk' = [disk EXCEPT !["OLDSYS"] = "none"]
    BY <1>7 DEF UnlinkOld, image
  <2> QED
    BY <2>1 DEF DiskInv, Survives, Written, Names
<1>8. CASE RenameSys
  <2>1. /\ stage = "unlinked" /\ stage' = "renamed" /\ file' = file /\ room' = room
        /\ disk' = [disk EXCEPT !["OLDSYS"] = disk["SYSFILE"], !["SYSFILE"] = "none"]
    BY <1>8 DEF RenameSys, image
  <2> QED
    BY <2>1 DEF DiskInv, Survives, Written, Names
<1>9. CASE RenameNew
  <2>1. /\ stage = "renamed" /\ stage' = "done" /\ file' = file /\ room' = room
        /\ disk' = [disk EXCEPT !["SYSFILE"] = disk["NEWSYS"], !["NEWSYS"] = "none"]
    BY <1>9 DEF RenameNew, image
  <2> QED
    BY <2>1 DEF DiskInv, Survives, Written, Names
<1>10. CASE Crash
  <2>1. DiskKept
    BY <1>10 DEF Crash, DiskKept
  <2> QED
    BY <2>1, KeptStep
<1>11. CASE Halted \/ UNCHANGED ivars
  <2>1. DiskKept
    BY <1>11 DEF Halted, ivars, DiskKept
  <2> QED
    BY <2>1, KeptStep
<1> QED
  BY <1>1, <1>2, <1>3, <1>4, <1>5, <1>6, <1>7, <1>8, <1>9, <1>10, <1>11 DEF ImageNext

\* wrapup (genc1.c:516): wherever the generation is cut off and whenever the disk
\* is full, the disk has a complete system if it had one before, and what is not
\* complete gets no other name.
THEOREM SystemKept == ImageSpec => SystemSurvives
<1>1. DiskInv => /\ disk["SYSFILE"] # "partial" /\ disk["OLDSYS"] # "partial"
                 /\ (Written => file.len + VersionLen <= room)
  BY DEF DiskInv
<1>2. Survives => [Survives]_disk
  OBVIOUS
<1> QED
  BY <1>1, <1>2, InitDisk, DiskStep, PTL DEF ImageSpec, SystemSurvives, Survives

-----------------------------------------------------------------------------
(* Where things are.                                                       *)

LEMMA AlignFacts ==
  ASSUME NEW n \in Nat
  PROVE  /\ Align(n) \in Nat /\ n <= Align(n)
         /\ Align(n) \div 16 \in Nat /\ 16 * (Align(n) \div 16) = Align(n)
  BY DEF Align

\* An offset that fits in a word is what the word holds.
LEMMA InWord ==
  ASSUME NEW n \in Nat
  PROVE  /\ n % Word \in Nat /\ n % Word < Word /\ n % Word <= n
         /\ (n < Word => n % Word = n)
  BY ImageAssumption

\* A recursive function of numbers: there is one that takes the steps of F.
HasSteps(n, S, a, F) ==
  \E s \in [0 .. n -> S] : s[0] = a /\ \A k \in 1 .. n : s[k] = F[<<k, s[k - 1]>>]
LEMMA StepsTaken ==
  ASSUME NEW n \in Nat, NEW S, NEW a \in S, NEW F \in [(1 .. n) \X S -> S]
  PROVE  HasSteps(n, S, a, F)
<1> DEFINE Steps(s, m) == s[0] = a /\ \A k \in 1 .. m : s[k] = F[<<k, s[k - 1]>>]
           T == {m \in Nat : m <= n => \E s \in [0 .. m -> S] : Steps(s, m)}
<1>1. 0 \in T
  <2>1. [k \in 0 .. 0 |-> a] \in [0 .. 0 -> S] /\ Steps([k \in 0 .. 0 |-> a], 0)
    OBVIOUS
  <2> QED
    BY <2>1
<1>2. ASSUME NEW m \in Nat, m \in T PROVE m + 1 \in T
  <2> SUFFICES ASSUME m + 1 <= n PROVE \E s \in [0 .. m + 1 -> S] : Steps(s, m + 1)
    OBVIOUS
  <2>1. PICK s \in [0 .. m -> S] : Steps(s, m)
    BY <1>2
  <2>2. s[m] \in S /\ m + 1 \in 1 .. n
    OBVIOUS
  <2>3. F[<<m + 1, s[m]>>] \in S
    BY <2>2
  <2> PICK v \in S : v = F[<<m + 1, s[m]>>]
    BY <2>3
  <2> PICK r : r = [k \in 0 .. m + 1 |-> IF k <= m THEN s[k] ELSE v]
    OBVIOUS
  <2>4. r \in [0 .. m + 1 -> S]
    OBVIOUS
  <2>5. \A k \in 0 .. m : k \in 0 .. m + 1 /\ k <= m /\ r[k] = s[k]
    OBVIOUS
  <2>6. m + 1 \in 0 .. m + 1 /\ ~ m + 1 <= m /\ r[m + 1] = v
    OBVIOUS
  <2>7. ASSUME NEW k \in 1 .. m + 1 PROVE r[k] = F[<<k, r[k - 1]>>]
    <3>1. CASE k \in 1 .. m
      <4>1. k \in 0 .. m /\ k - 1 \in 0 .. m
        BY <3>1
      <4>2. r[k] = s[k] /\ r[k - 1] = s[k - 1]
        BY <2>5, <4>1
      <4> QED
        BY <2>1, <3>1, <4>2
    <3>2. CASE k = m + 1
      <4>1. k - 1 = m /\ m \in 0 .. m
        BY <3>2
      <4> QED
        BY <2>5, <2>6, <3>2, <4>1
    <3> QED
      BY <3>1, <3>2
  <2>8. r[0] = a
    BY <2>1, <2>5
  <2> QED
    BY <2>4, <2>7, <2>8
<1>3. n \in T
  <2> HIDE DEF T
  <2> QED
    BY <1>1, <1>2, Numbers!NumbersReached
<1> QED
  BY <1>3 DEF HasSteps

LEMMA SumIsNat == \A i \in 0 .. Len(ModLen) : SumTo(i) \in Nat
<1> PICK n \in Nat : n = Len(ModLen)
  BY ImageAssumption
<1> DEFINE Good(s) == s = [k \in 0 .. n |-> IF k = 0 THEN 0 ELSE s[k - 1] + ModLen[k]]
<1> PICK F : F = [x \in (1 .. n) \X Nat |-> x[2] + ModLen[x[1]]]
  OBVIOUS
<1>1. \A k \in 1 .. n : ModLen[k] \in Nat
  BY ImageAssumption
<1>2. F \in [(1 .. n) \X Nat -> Nat]
  BY <1>1
<1>3. PICK s \in [0 .. n -> Nat] : s[0] = 0 /\ \A k \in 1 .. n : s[k] = F[<<k, s[k - 1]>>]
  <2> PICK S : S = Nat
    OBVIOUS
  <2>1. 0 \in S /\ F \in [(1 .. n) \X S -> S]
    BY <1>2
  <2>2. HasSteps(n, S, 0, F)
    BY <2>1, StepsTaken
  <2> QED
    BY <2>2 DEF HasSteps
<1>4. ASSUME NEW k \in 1 .. n PROVE s[k] = s[k - 1] + ModLen[k]
  <2>1. k - 1 \in 0 .. n
    OBVIOUS
  <2>2. s[k - 1] \in Nat
    BY <2>1
  <2> QED
    BY <1>3, <2>2
<1>5. Good(s)
  <2>1. ASSUME NEW k \in 0 .. n PROVE s[k] = IF k = 0 THEN 0 ELSE s[k - 1] + ModLen[k]
    <3>1. k = 0 \/ k \in 1 .. n
      OBVIOUS
    <3> QED
      BY <1>3, <1>4, <3>1
  <2> QED
    BY <2>1
<1>6. PICK t : t = (CHOOSE g : Good(g)) /\ \A i : SumTo(i) = t[i]
  BY DEF SumTo
<1>7. Good(t)
  <2> HIDE DEF Good
  <2> QED
    BY <1>5, <1>6
<1>8. t[0] = 0 /\ \A k \in 1 .. n : t[k] = t[k - 1] + ModLen[k]
  <2>1. 0 \in 0 .. n /\ \A k \in 1 .. n : k \in 0 .. n /\ k # 0
    OBVIOUS
  <2> QED
    BY <1>7, <2>1
<1> DEFINE U == {k \in Nat : k <= n => t[k] \in Nat}
<1>9. 0 \in U
  BY <1>8
<1>10. ASSUME NEW k \in Nat, k \in U PROVE k + 1 \in U
  <2> SUFFICES ASSUME k + 1 <= n PROVE t[k + 1] \in Nat
    OBVIOUS
  <2>1. k + 1 \in 1 .. n /\ (k + 1) - 1 = k /\ t[k] \in Nat
    BY <1>10
  <2> QED
    BY <1>1, <1>8, <2>1
<1>11. Nat \subseteq U
  <2> HIDE DEF U
  <2> QED
    BY <1>9, <1>10, Numbers!NumbersReached
<1> QED
  <2>1. ASSUME NEW i \in 0 .. n PROVE t[i] \in Nat
    <3>1. i \in Nat /\ i <= n
      OBVIOUS
    <3> QED
      BY <1>11, <3>1
  <2> HIDE DEF Good, U
  <2> QED
    BY <1>6, <2>1

\* The code of the modules in front of the i-th.
LEMMA CodeBeforeIs ==
  ASSUME par \in Params
  PROVE  \A i \in 1 .. Len(ModLen) + 1 : CodeBefore(i) \in Nat
<1>1. Align(par.label) \div 16 \in Nat
  BY AlignFacts, ImageAssumption
<1>2. \A i \in 1 .. Len(ModLen) + 1 : i - 1 \in 0 .. Len(ModLen)
  BY ImageAssumption
<1>3. \A i \in 1 .. Len(ModLen) + 1 : SumTo(i - 1) \in Nat
  BY <1>2, SumIsNat
<1> QED
  BY <1>1, <1>3 DEF CodeBefore

\* The system data begins behind the modules, in the file and in memory.
LEMMA DataStart ==
  ASSUME par \in Params
  PROVE  /\ CodeTotal \in Nat /\ Dsstart = MpmSeg + CodeTotal /\ Fldstart = SecSiz + 16 * CodeTotal
         /\ \A i \in DOMAIN ModLen : SegAt(PosOf(i)) = MpmSeg + CodeBefore(i)
<1>1. Len(ModLen) \in Nat /\ DOMAIN ModLen = 1 .. Len(ModLen) /\ MpmSeg \in Nat
  BY ImageAssumption
<1>2. CodeTotal \in Nat
  BY <1>1, CodeBeforeIs DEF CodeTotal
<1>3. ASSUME NEW i \in DOMAIN ModLen PROVE SegAt(PosOf(i)) = MpmSeg + CodeBefore(i)
  <2>1. CodeBefore(i) \in Nat
    BY <1>1, CodeBeforeIs
  <2> QED
    BY <1>1, <2>1 DEF SegAt, PosOf, SecSiz
<1> QED
  BY <1>2, <1>3 DEF Dsstart, Fldstart

-----------------------------------------------------------------------------
(* The tables, from the offset where the modules' data ends.               *)

Base0 == 16 * (SysdatLen + XiosLen)
Tabs == Tables(Base0)
SatAt == Align(Tabs.end)
QbufAt == SatAt + SatLen * SatItems
QbufEnd == QbufAt + par.qbuf
TabEnd == Align(QbufEnd)

\* A list of n items from an offset.
RootAt(o, n, size) == IF n = 0 THEN 0 ELSE (o + (n - 1) * size) % Word

\* The tables follow one another.
LEMMA TablesFollow ==
  ASSUME par \in Params
  PROVE  /\ Base0 \in Nat /\ Tabs.md.at = Base0
         /\ Tabs.pd.at = Tabs.md.at + par.mds * MdLen /\ Tabs.md.end = Tabs.pd.at
         /\ Tabs.qcb.at = Tabs.pd.at + par.pds * PdLen /\ Tabs.pd.end = Tabs.qcb.at
         /\ Tabs.lock.at = Tabs.qcb.at + par.qcbs * QcbLen /\ Tabs.qcb.end = Tabs.lock.at
         /\ Tabs.flags = Tabs.lock.at + par.open * LockLen /\ Tabs.lock.end = Tabs.flags
         /\ Tabs.end = Tabs.flags + par.flags * FlagLen + par.xios
<1>1. Base0 \in Nat
  BY ImageAssumption DEF Base0
<1> QED
  BY <1>1 DEF Tabs, Tables, List

LEMMA TableRoots ==
  /\ Tabs.md.root = RootAt(Tabs.md.at, par.mds, MdLen)
  /\ Tabs.pd.root = RootAt(Tabs.pd.at, par.pds, PdLen)
  /\ Tabs.qcb.root = RootAt(Tabs.qcb.at, par.qcbs, QcbLen)
  /\ Tabs.lock.root = RootAt(Tabs.lock.at, par.open, LockLen)
  BY DEF Tabs, Tables, List, RootAt

\* Their order, up to the end of the data segment.
LEMMA TablesInOrder ==
  ASSUME par \in Params
  PROVE  /\ {Tabs.md.at, Tabs.pd.at, Tabs.qcb.at, Tabs.lock.at, Tabs.flags, Tabs.end} \subseteq Nat
         /\ {SatAt, QbufAt, QbufEnd, TabEnd} \subseteq Nat
         /\ Tabs.flags + par.flags * FlagLen + par.xios <= SatAt
         /\ Tabs.flags <= SatAt /\ SatAt <= QbufAt /\ QbufEnd <= TabEnd
         /\ 16 * (SatAt \div 16) = SatAt /\ 16 * (TabEnd \div 16) = TabEnd
<1>1. {par.mds, par.pds, par.qcbs, par.open, par.flags, par.qbuf, par.xios} \subseteq Nat
  BY ImageAssumption
<1>2. {Tabs.md.at, Tabs.pd.at, Tabs.qcb.at, Tabs.lock.at, Tabs.flags, Tabs.end} \subseteq Nat
      /\ Tabs.flags <= Tabs.end
  BY <1>1, TablesFollow DEF MdLen, PdLen, QcbLen, LockLen, FlagLen
<1>3. SatAt \in Nat /\ Tabs.end <= SatAt /\ 16 * (SatAt \div 16) = SatAt
  BY <1>2, AlignFacts DEF SatAt
<1>4. QbufAt \in Nat /\ QbufEnd \in Nat /\ SatAt <= QbufAt
  BY <1>1, <1>3 DEF QbufAt, QbufEnd, SatLen, SatItems
<1>5. TabEnd \in Nat /\ QbufEnd <= TabEnd /\ 16 * (TabEnd \div 16) = TabEnd
  BY <1>4, AlignFacts DEF TabEnd
<1>6. Tabs.flags + par.flags * FlagLen + par.xios <= SatAt
  BY <1>1, <1>2, <1>3, TablesFollow
<1> QED
  BY <1>2, <1>3, <1>4, <1>5, <1>6

\* Where each table is, and what is written there.
FirstTables == {"md", "pd", "qcb", "lock", "flags"}
AllTables == FirstTables \cup {"sat", "qbuf"}
TableAt ==
  [md |-> Tabs.md.at, pd |-> Tabs.pd.at, qcb |-> Tabs.qcb.at, lock |-> Tabs.lock.at,
   flags |-> Tabs.flags, sat |-> SatAt, qbuf |-> QbufAt]
TableItem(n) == [kind |-> "table", name |-> n, at |-> Fldstart + TableAt[n]]
HasTables(items, N) ==
  /\ \A n \in N : TableItem(n) \in items
  /\ \A x \in items : x.kind = "table" => x.name \in N /\ x = TableItem(x.name)

\* The modules, those that were told the system data segment among them.
HasModules(items) ==
  \A x \in items :
    /\ x.kind \in {"module", "fixed"} => x.name \in DOMAIN ModLen /\ x.at = PosOf(x.name)
    /\ x.kind = "fixed" => x.ds = Dsstart

\* Places depend on the parameters alone, which the user has left.
LEMMA PlacesStay ==
  ASSUME par' = par
  PROVE  /\ Tabs' = Tabs /\ SatAt' = SatAt /\ QbufAt' = QbufAt /\ QbufEnd' = QbufEnd
         /\ TabEnd' = TabEnd /\ CodeTotal' = CodeTotal /\ Dsstart' = Dsstart
         /\ Fldstart' = Fldstart /\ XiosFix' = XiosFix /\ SatItems' = SatItems
         /\ \A i : CodeBefore(i)' = CodeBefore(i) /\ PosOf(i)' = PosOf(i) /\ GenFix(i)' = GenFix(i)
         /\ \A n : TableItem(n)' = TableItem(n)
<1>1. \A i : CodeBefore(i)' = CodeBefore(i)
  BY DEF CodeBefore
<1>2. \A i : PosOf(i)' = PosOf(i)
  BY <1>1 DEF PosOf
<1>3. CodeTotal' = CodeTotal /\ Dsstart' = Dsstart /\ Fldstart' = Fldstart
  BY <1>1 DEF CodeTotal, Dsstart, Fldstart
<1>4. XiosFix' = XiosFix /\ \A i : GenFix(i)' = GenFix(i)
  BY <1>2, <1>3 DEF XiosFix, GenFix
<1>5. Tabs' = Tabs /\ SatItems' = SatItems
  BY DEF Tabs, Tables, SatItems
<1>6. SatAt' = SatAt
  BY <1>5 DEF SatAt
<1>7. QbufAt' = QbufAt
  BY <1>5, <1>6 DEF QbufAt
<1>8. QbufEnd' = QbufEnd
  BY <1>7 DEF QbufEnd
<1>9. TabEnd' = TabEnd
  BY <1>8 DEF TabEnd
<1>10. TableAt' = TableAt
  BY <1>5, <1>6, <1>7 DEF TableAt
<1>11. \A n : TableItem(n)' = TableItem(n)
  BY <1>3, <1>10 DEF TableItem
<1> QED
  BY <1>1, <1>2, <1>3, <1>4, <1>5, <1>6, <1>7, <1>8, <1>9, <1>11

LEMMA ItemsAre == ItemsOf(Tabs) = {TableItem(n) : n \in FirstTables}
<1>1. /\ TableAt["md"] = Tabs.md.at /\ TableAt["pd"] = Tabs.pd.at /\ TableAt["qcb"] = Tabs.qcb.at
      /\ TableAt["lock"] = Tabs.lock.at /\ TableAt["flags"] = Tabs.flags
  BY DEF TableAt
<1> QED
  BY <1>1 DEF ItemsOf, TableItem, FirstTables

\* Tables behind those there are.
LEMMA MoreTables ==
  ASSUME NEW items, NEW N, NEW more, NEW M, HasTables(items, N), HasModules(items),
         more = {TableItem(n) : n \in M}
  PROVE  HasTables(items \cup more, N \cup M) /\ HasModules(items \cup more)
<1>1. \A n : TableItem(n).kind = "table" /\ TableItem(n).name = n
  BY DEF TableItem
<1>2. ASSUME NEW x \in items \cup more, x.kind = "table"
      PROVE  x.name \in N \cup M /\ x = TableItem(x.name)
  BY <1>1, <1>2 DEF HasTables
<1>3. HasTables(items \cup more, N \cup M)
  BY <1>2 DEF HasTables
<1>4. ASSUME NEW x \in items \cup more, x.kind # "table" PROVE x \in items
  BY <1>1, <1>4
<1> QED
  BY <1>3, <1>4 DEF HasModules

\* Other things are no tables and no modules.
LEMMA OtherItems ==
  ASSUME NEW items, NEW N, NEW more, HasTables(items, N), HasModules(items),
         \A x \in more : x.kind \in {"rsp", "code"}
  PROVE  HasTables(items \cup more, N) /\ HasModules(items \cup more)
  BY DEF HasTables, HasModules

-----------------------------------------------------------------------------
(* What is so at each stage.                                               *)

FixedUp == {"fixed", "written", "unlinked", "renamed", "done"}
Ended == {"generated"} \cup FixedUp
Later == {"rsps"} \cup Ended
Live == {"modules", "tables"} \cup Later

UserInv == rsps \in Seq(RspNames) /\ (stage # "start" => par \in Params)

\* The fields that are written one by one.
ShapeInv ==
  /\ file = [len |-> file.len, items |-> file.items, fixes |-> file.fixes]
  /\ DOMAIN sd = DOMAIN NoSysdat

ModulesInv == stage \in Live =>
  /\ HasModules(file.items)
  /\ file.fixes = {GenFix(i) : i \in DOMAIN ModLen} \cup {XiosFix}
  /\ sd.eseg = [i \in DOMAIN ModLen |-> MpmSeg + CodeBefore(i)]

\* The offset is where the file is, up to the RSPs.
OffsetInv ==
  /\ stage = "modules" => off.whole = Base0 /\ file.len = Fldstart + Base0
  /\ stage = "tables" => off.whole = Tabs.end /\ file.len = Fldstart + Tabs.end
  /\ stage \in Later => off.whole = TabEnd

TablesInv ==
  /\ stage = "modules" => HasTables(file.items, {})
  /\ stage = "tables" => HasTables(file.items, FirstTables)
  /\ stage \in Later => HasTables(file.items, AllTables)

SysdatInv ==
  /\ stage \in {"tables"} \cup Later =>
       /\ sd.mdul = Tabs.md.root /\ sd.pul = Tabs.pd.root /\ sd.qul = Tabs.qcb.root
       /\ sd.lul = Tabs.lock.root /\ sd.flags = Tabs.flags % Word
       /\ sd.lists = <<Tabs.md, Tabs.pd, Tabs.qcb, Tabs.lock>>
  /\ stage \in Later =>
       /\ sd.qmastart = Dsstart + (SatAt % Word) \div 16 /\ sd.satheader = SatItems - 1
       /\ sd.satfirst = QbufAt % Word /\ sd.daend = (TabEnd % Word) \div 16

\* The segment of the next RSP goes with the place in the file.
RspsInv ==
  /\ stage \in Later =>
       /\ rspseg \in Int /\ file.len \in Int
       /\ 16 * (rspseg - Dsstart - sd.daend) = file.len - Fldstart - TabEnd
  /\ stage = "rsps" => todo \in Seq(RspNames)

EndInv ==
  /\ stage \in Ended =>
       /\ sd.rspseg = rsplast /\ sd.rsvd = rspseg /\ sd.xtalloc = rspseg + par.bufs
       /\ sd.endseg = rspseg + par.bufs + XiosAlloc /\ sd.dltotal = rspseg - Dsstart
  /\ stage \in FixedUp =>
       hdr = [clen |-> CodeTotal, cbase |-> MpmSeg, dlen |-> sd.dltotal, dbase |-> MpmSeg + CodeTotal]

ImageInv == /\ UserInv /\ ShapeInv /\ ModulesInv /\ OffsetInv
            /\ TablesInv /\ SysdatInv /\ RspsInv /\ EndInv

LEMMA InitImage == ImageInit => ImageInv
<1> SUFFICES ASSUME ImageInit PROVE ImageInv
  OBVIOUS
<1>1. stage = "start" /\ stage \notin Live /\ stage \notin Later /\ stage \notin Ended
  BY DEF ImageInit, Live, Later, Ended, FixedUp
<1>2. stage \notin {"tables"} \cup Later /\ stage \notin FixedUp
  BY <1>1 DEF ImageInit, Live, Later, Ended, FixedUp
<1>3. UserInv
  BY <1>1 DEF ImageInit, UserInv
<1>4. ShapeInv
  BY DEF ImageInit, ShapeInv
<1> QED
  BY <1>1, <1>2, <1>3, <1>4
     DEF ImageInv, ModulesInv, OffsetInv, TablesInv, SysdatInv, RspsInv, EndInv

\* Steps that leave the image alone: the user's, and those on the disk's names.
Left == stage' \notin Live /\ (stage' # "start" => par' \in Params)
Stayed == par' = par /\ (stage' = stage \/ (stage \in FixedUp /\ stage' \in FixedUp))
Quiet ==
  /\ UNCHANGED image /\ (Left \/ Stayed)
  /\ rsps' \in Seq(RspNames) /\ (stage \in Live => rsps' = rsps)

LEMMA QuietStep == ImageInv /\ Quiet => ImageInv'
<1> SUFFICES ASSUME ImageInv, Quiet PROVE ImageInv'
  OBVIOUS
<1>1. ShapeInv'
  BY DEF ImageInv, Quiet, ShapeInv, image
<1>2. CASE Left
  <2>1. stage' \notin Later /\ stage' \notin Ended /\ stage' \notin FixedUp
        /\ stage' \notin {"modules", "tables"}
    BY <1>2 DEF Left, Live, Later, Ended
  <2>2. UserInv'
    BY <1>2 DEF Left, Quiet, UserInv
  <2>3. stage' # "modules" /\ stage' # "tables" /\ stage' # "rsps"
        /\ stage' \notin {"tables"} \cup Later
    BY <2>1 DEF Later
  <2>4. ModulesInv' /\ OffsetInv' /\ TablesInv'
    BY <1>2, <2>1, <2>3 DEF Left, ModulesInv, OffsetInv, TablesInv
  <2>5. SysdatInv' /\ RspsInv' /\ EndInv'
    BY <2>1, <2>3 DEF SysdatInv, RspsInv, EndInv
  <2> QED
    BY <1>1, <2>2, <2>4, <2>5 DEF ImageInv
<1>3. CASE Stayed
  <2> USE <1>3 DEF Stayed
  <2>1. /\ Tabs' = Tabs /\ SatAt' = SatAt /\ QbufAt' = QbufAt /\ TabEnd' = TabEnd
        /\ CodeTotal' = CodeTotal /\ Dsstart' = Dsstart /\ Fldstart' = Fldstart
        /\ XiosFix' = XiosFix /\ SatItems' = SatItems
        /\ \A i : CodeBefore(i)' = CodeBefore(i) /\ PosOf(i)' = PosOf(i) /\ GenFix(i)' = GenFix(i)
        /\ \A n : TableItem(n)' = TableItem(n)
    BY PlacesStay
  <2>2. /\ stage' \in Live <=> stage \in Live
        /\ stage' \in Later <=> stage \in Later
        /\ stage' \in Ended <=> stage \in Ended
        /\ stage' \in FixedUp <=> stage \in FixedUp
        /\ stage' = "start" <=> stage = "start"
        /\ stage' = "modules" <=> stage = "modules"
        /\ stage' = "tables" <=> stage = "tables"
        /\ stage' = "rsps" <=> stage = "rsps"
    BY DEF Live, Later, Ended, FixedUp
  <2>3. /\ file' = file /\ off' = off /\ todo' = todo /\ rsplast' = rsplast
        /\ rspseg' = rspseg /\ sd' = sd /\ hdr' = hdr
    BY DEF Quiet, image
  <2>4. UserInv'
    BY <2>2 DEF ImageInv, Quiet, UserInv
  <2>5. ModulesInv'
    <3>1. HasModules(file.items) => HasModules(file.items)'
      BY <2>1, <2>3 DEF HasModules
    <3> QED
      BY <2>1, <2>2, <2>3, <3>1 DEF ImageInv, ModulesInv
  <2>6. OffsetInv'
    BY <2>1, <2>2, <2>3 DEF ImageInv, OffsetInv
  <2>7. TablesInv'
    <3>1. \A N : HasTables(file.items, N) => HasTables(file.items, N)'
      BY <2>1, <2>3 DEF HasTables
    <3> QED
      BY <2>2, <3>1 DEF ImageInv, TablesInv
  <2>8. SysdatInv'
    BY <2>1, <2>2, <2>3 DEF ImageInv, SysdatInv
  <2>9. RspsInv'
    BY <2>1, <2>2, <2>3 DEF ImageInv, RspsInv
  <2>10. EndInv'
    BY <2>1, <2>2, <2>3 DEF ImageInv, EndInv
  <2> QED
    BY <1>1, <2>4, <2>5, <2>6, <2>7, <2>8, <2>9, <2>10 DEF ImageInv
<1> QED
  BY <1>2, <1>3 DEF Quiet

\* gensys: the modules and the system data module.
LEMMA GensysStep == ImageInv /\ Gensys => ImageInv'
<1> SUFFICES ASSUME ImageInv, Gensys PROVE ImageInv'
  OBVIOUS
<1> DEFINE dlen == 16 * (SysdatLen + XiosLen)
           mods == {[kind |-> "module", name |-> i, at |-> PosOf(i)] : i \in DOMAIN ModLen}
<1>1. /\ stage = "menu" /\ stage' = "modules" /\ par' = par /\ rsps' = rsps
      /\ file' = [len |-> Fldstart + dlen, items |-> mods,
                  fixes |-> {GenFix(i) : i \in DOMAIN ModLen} \cup {XiosFix}]
      /\ sd' = [sd EXCEPT !.eseg = [i \in DOMAIN ModLen |-> MpmSeg + CodeBefore(i)]]
      /\ off' = [word |-> dlen % Word, whole |-> dlen]
  BY DEF Gensys
<1>2. stage' \in Live /\ stage' \notin Later /\ stage' \notin Ended /\ stage' \notin FixedUp
      /\ stage' # "start" /\ stage' # "tables" /\ stage' # "rsps"
      /\ stage' \notin {"tables"} \cup Later
  BY <1>1 DEF Live, Later, Ended, FixedUp
<1>3. /\ Fldstart' = Fldstart /\ XiosFix' = XiosFix
      /\ \A i : CodeBefore(i)' = CodeBefore(i) /\ PosOf(i)' = PosOf(i) /\ GenFix(i)' = GenFix(i)
  BY <1>1, PlacesStay
<1>4. UserInv'
  BY <1>1 DEF ImageInv, UserInv
<1>5. ShapeInv'
  BY <1>1 DEF ImageInv, ShapeInv
<1>6. ModulesInv'
  <2>1. sd'.eseg = [i \in DOMAIN ModLen |-> MpmSeg + CodeBefore(i)]
    <3>1. "eseg" \in DOMAIN sd
      BY DEF ImageInv, ShapeInv, NoSysdat
    <3> QED
      BY <1>1, <3>1
  <2>2. \A x \in mods : x.kind = "module" /\ x.name \in DOMAIN ModLen /\ x.at = PosOf(x.name)
    OBVIOUS
  <2>3. file'.items = mods /\ file'.fixes = {GenFix(i) : i \in DOMAIN ModLen} \cup {XiosFix}
    BY <1>1
  <2>4. HasModules(file.items)'
    BY <1>3, <2>2, <2>3 DEF HasModules
  <2> QED
    BY <1>3, <2>1, <2>3, <2>4 DEF ModulesInv
<1>7. OffsetInv'
  BY <1>1, <1>2, <1>3 DEF OffsetInv, Base0
<1>8. TablesInv'
  <2>1. file'.items = mods /\ \A x \in mods : x.kind = "module"
    BY <1>1
  <2>2. HasTables(file.items, {})'
    BY <2>1 DEF HasTables
  <2> QED
    BY <1>2, <2>2 DEF TablesInv
<1>9. SysdatInv' /\ RspsInv' /\ EndInv'
  BY <1>2 DEF SysdatInv, RspsInv, EndInv
<1> QED
  BY <1>4, <1>5, <1>6, <1>7, <1>8, <1>9 DEF ImageInv

\* The program stops.
LEMMA StopQuiet == ImageInv /\ stage # "start" /\ Stop => Quiet
<1> SUFFICES ASSUME ImageInv, stage # "start", Stop PROVE Quiet
  OBVIOUS
<1>1. stage' = "failed" /\ UNCHANGED image /\ rsps' = rsps /\ par' = par
  BY DEF Stop
<1>2. Left
  BY <1>1 DEF Left, ImageInv, UserInv, Live, Later, Ended, FixedUp
<1> QED
  BY <1>1, <1>2 DEF Quiet, ImageInv, UserInv

\* gentables: the tables up to the queue buffers.
LEMMA GenTablesStep == ImageInv /\ GenTables => ImageInv'
<1> SUFFICES ASSUME ImageInv, GenTables PROVE ImageInv'
  OBVIOUS
<1>1. stage = "modules" /\ off.whole = Base0 /\ file.len = Fldstart + Base0 /\ par \in Params
  BY DEF GenTables, ImageInv, OffsetInv, UserInv
<1>2. CASE Stop
  BY <1>1, <1>2, StopQuiet, QuietStep
<1>3. CASE ~ Stop
  <2>1. /\ stage' = "tables" /\ par' = par /\ rsps' = rsps
        /\ file' = [file EXCEPT !.len = @ + (Tabs.end - Base0), !.items = @ \cup ItemsOf(Tabs)]
        /\ off' = [word |-> Tabs.end % Word, whole |-> Tabs.end]
        /\ sd' = [sd EXCEPT !.mdul = Tabs.md.root, !.pul = Tabs.pd.root, !.qul = Tabs.qcb.root,
                            !.lul = Tabs.lock.root, !.flags = Tabs.flags % Word,
                            !.lists = <<Tabs.md, Tabs.pd, Tabs.qcb, Tabs.lock>>]
    BY <1>1, <1>3 DEF GenTables, Tabs
  <2>2. stage' \in Live /\ stage' \notin Later /\ stage' \notin Ended /\ stage' \notin FixedUp
        /\ stage' # "start" /\ stage' # "modules" /\ stage' # "rsps"
    BY <2>1 DEF Live, Later, Ended, FixedUp
  <2>3. /\ Tabs' = Tabs /\ Fldstart' = Fldstart /\ Dsstart' = Dsstart /\ XiosFix' = XiosFix
        /\ \A i : CodeBefore(i)' = CodeBefore(i) /\ PosOf(i)' = PosOf(i) /\ GenFix(i)' = GenFix(i)
        /\ \A n : TableItem(n)' = TableItem(n)
    BY <2>1, PlacesStay
  <2>4. /\ file' = [len |-> file'.len, items |-> file'.items, fixes |-> file'.fixes]
        /\ file'.len = Fldstart + Tabs.end /\ file'.items = file.items \cup ItemsOf(Tabs)
        /\ file'.fixes = file.fixes
    <3>1. file = [len |-> file.len, items |-> file.items, fixes |-> file.fixes]
      BY DEF ImageInv, ShapeInv
    <3>2. file' = [len |-> file.len + (Tabs.end - Base0), items |-> file.items \cup ItemsOf(Tabs),
                   fixes |-> file.fixes]
      BY <2>1, <3>1
    <3>3. Fldstart + Base0 + (Tabs.end - Base0) = Fldstart + Tabs.end
      BY <1>1, TablesFollow, TablesInOrder, DataStart DEF SecSiz
    <3> QED
      BY <1>1, <3>2, <3>3
  <2>5. /\ DOMAIN sd' = DOMAIN NoSysdat /\ sd'.eseg = sd.eseg
        /\ sd'.mdul = Tabs.md.root /\ sd'.pul = Tabs.pd.root /\ sd'.qul = Tabs.qcb.root
        /\ sd'.lul = Tabs.lock.root /\ sd'.flags = Tabs.flags % Word
        /\ sd'.lists = <<Tabs.md, Tabs.pd, Tabs.qcb, Tabs.lock>>
    BY <2>1 DEF ImageInv, ShapeInv, NoSysdat
  <2>6. HasTables(file'.items, FirstTables) /\ HasModules(file'.items)
    <3>1. HasTables(file.items, {}) /\ HasModules(file.items)
      BY <1>1 DEF ImageInv, TablesInv, ModulesInv, Live
    <3>2. HasTables(file.items \cup ItemsOf(Tabs), {} \cup FirstTables)
          /\ HasModules(file.items \cup ItemsOf(Tabs))
      BY <3>1, ItemsAre, MoreTables
    <3>3. {} \cup FirstTables = FirstTables
      OBVIOUS
    <3> QED
      BY <2>4, <3>2, <3>3
  <2>7. HasTables(file.items, FirstTables)' /\ HasModules(file.items)'
    BY <2>3, <2>6 DEF HasTables, HasModules
  <2>8. UserInv' /\ ShapeInv'
    <3>1. UserInv'
      BY <1>1, <2>1 DEF ImageInv, UserInv
    <3>2. ShapeInv'
      BY <2>4, <2>5 DEF ShapeInv
    <3> QED
      BY <3>1, <3>2
  <2>9. ModulesInv'
    <3>1. /\ file.fixes = {GenFix(i) : i \in DOMAIN ModLen} \cup {XiosFix}
          /\ sd.eseg = [i \in DOMAIN ModLen |-> MpmSeg + CodeBefore(i)]
      BY <1>1 DEF ImageInv, ModulesInv, Live
    <3> QED
      BY <2>3, <2>4, <2>5, <2>7, <3>1 DEF ModulesInv
  <2>10. OffsetInv'
    BY <2>1, <2>2, <2>3, <2>4 DEF OffsetInv
  <2>11. TablesInv'
    BY <2>2, <2>7 DEF TablesInv
  <2>12. SysdatInv'
    BY <2>2, <2>3, <2>5 DEF SysdatInv
  <2>13. RspsInv' /\ EndInv'
    BY <2>2 DEF RspsInv, EndInv
  <2> QED
    BY <2>8, <2>9, <2>10, <2>11, <2>12, <2>13 DEF ImageInv
<1> QED
  BY <1>2, <1>3

\* The queue buffers, and padding.
LEMMA GenQmaStep == ImageInv /\ GenQma => ImageInv'
<1> SUFFICES ASSUME ImageInv, GenQma PROVE ImageInv'
  OBVIOUS
<1>1. stage = "tables" /\ off.whole = Tabs.end /\ file.len = Fldstart + Tabs.end /\ par \in Params
  BY DEF GenQma, ImageInv, OffsetInv, UserInv
<1>2. CASE Stop
  BY <1>1, <1>2, StopQuiet, QuietStep
<1>3. CASE ~ Stop
  <2> DEFINE sat == [kind |-> "table", name |-> "sat", at |-> file.len + SatAt - Tabs.end]
             qbuf == [kind |-> "table", name |-> "qbuf", at |-> file.len + QbufAt - Tabs.end]
             daend == (TabEnd % Word) \div 16
  <2>1. /\ stage' = "rsps" /\ par' = par /\ rsps' = rsps
        /\ file' = [file EXCEPT !.len = @ + (TabEnd - Tabs.end), !.items = @ \cup {sat, qbuf}]
        /\ off' = [word |-> daend * 16, whole |-> TabEnd]
        /\ sd' = [sd EXCEPT !.qmastart = Dsstart + (SatAt % Word) \div 16,
                            !.qmalen = par.qbuf \div 16,
                            !.satheader = SatItems - 1, !.satfirst = QbufAt % Word,
                            !.daend = daend]
        /\ todo' = rsps /\ rspseg' = Dsstart + daend
    BY <1>1, <1>3 DEF GenQma, SatAt, QbufAt, QbufEnd, TabEnd
  <2>2. stage' \in Live /\ stage' \in Later /\ stage' \notin Ended /\ stage' \notin FixedUp
        /\ stage' # "start" /\ stage' # "modules" /\ stage' # "tables"
    BY <2>1 DEF Live, Later, Ended, FixedUp
  <2>3. /\ Tabs' = Tabs /\ SatAt' = SatAt /\ QbufAt' = QbufAt /\ TabEnd' = TabEnd
        /\ Fldstart' = Fldstart /\ Dsstart' = Dsstart /\ XiosFix' = XiosFix /\ SatItems' = SatItems
        /\ \A i : CodeBefore(i)' = CodeBefore(i) /\ PosOf(i)' = PosOf(i) /\ GenFix(i)' = GenFix(i)
        /\ \A n : TableItem(n)' = TableItem(n)
    BY <2>1, PlacesStay
  <2>4. /\ Fldstart \in Int /\ Dsstart \in Int /\ daend \in Int /\ TabEnd \in Int /\ Tabs.end \in Int
        /\ SatAt \in Int /\ QbufAt \in Int
    <3>1. Fldstart \in Int /\ Dsstart \in Int
      BY <1>1, DataStart, ImageAssumption DEF SecSiz
    <3>2. TabEnd \in Nat /\ Tabs.end \in Nat /\ SatAt \in Nat /\ QbufAt \in Nat
      BY <1>1, TablesInOrder
    <3>3. TabEnd % Word \in Nat
      BY <3>2, InWord
    <3> QED
      BY <3>1, <3>2, <3>3
  <2>5. /\ file' = [len |-> file'.len, items |-> file'.items, fixes |-> file'.fixes]
        /\ file'.len = Fldstart + TabEnd /\ file'.items = file.items \cup {sat, qbuf}
        /\ file'.fixes = file.fixes
    <3>1. file = [len |-> file.len, items |-> file.items, fixes |-> file.fixes]
      BY DEF ImageInv, ShapeInv
    <3>2. file' = [len |-> file.len + (TabEnd - Tabs.end), items |-> file.items \cup {sat, qbuf},
                   fixes |-> file.fixes]
      BY <2>1, <3>1
    <3>3. Fldstart + Tabs.end + (TabEnd - Tabs.end) = Fldstart + TabEnd
      BY <2>4
    <3> QED
      BY <1>1, <3>2, <3>3
  <2>6. /\ DOMAIN sd' = DOMAIN NoSysdat /\ sd'.eseg = sd.eseg
        /\ sd'.mdul = sd.mdul /\ sd'.pul = sd.pul /\ sd'.qul = sd.qul /\ sd'.lul = sd.lul
        /\ sd'.flags = sd.flags /\ sd'.lists = sd.lists
    BY <2>1 DEF ImageInv, ShapeInv, NoSysdat
  <2>7. /\ sd'.qmastart = Dsstart + (SatAt % Word) \div 16 /\ sd'.satheader = SatItems - 1
        /\ sd'.satfirst = QbufAt % Word /\ sd'.daend = daend
    BY <2>1 DEF ImageInv, ShapeInv, NoSysdat
  <2>8. HasTables(file'.items, AllTables) /\ HasModules(file'.items)
    <3>1. HasTables(file.items, FirstTables) /\ HasModules(file.items)
      BY <1>1 DEF ImageInv, TablesInv, ModulesInv, Live
    <3>2. TableAt["sat"] = SatAt /\ TableAt["qbuf"] = QbufAt
      BY DEF TableAt
    <3>3. sat = TableItem("sat") /\ qbuf = TableItem("qbuf")
      BY <1>1, <2>4, <3>2 DEF TableItem
    <3> PICK N : N = {"sat", "qbuf"}
      OBVIOUS
    <3>4. {sat, qbuf} = {TableItem(n) : n \in N}
      BY <3>3
    <3>5. HasTables(file.items \cup {sat, qbuf}, FirstTables \cup N)
          /\ HasModules(file.items \cup {sat, qbuf})
      BY <3>1, <3>4, MoreTables
    <3>6. FirstTables \cup N = AllTables
      BY DEF AllTables
    <3> QED
      BY <2>5, <3>5, <3>6
  <2>9. HasTables(file.items, AllTables)' /\ HasModules(file.items)'
    BY <2>3, <2>8 DEF HasTables, HasModules
  <2>10. UserInv'
    BY <1>1, <2>1 DEF ImageInv, UserInv
  <2>11. ShapeInv'
    BY <2>5, <2>6 DEF ShapeInv
  <2>12. ModulesInv'
    <3>1. /\ file.fixes = {GenFix(i) : i \in DOMAIN ModLen} \cup {XiosFix}
          /\ sd.eseg = [i \in DOMAIN ModLen |-> MpmSeg + CodeBefore(i)]
      BY <1>1 DEF ImageInv, ModulesInv, Live
    <3> QED
      BY <2>3, <2>5, <2>6, <2>9, <3>1 DEF ModulesInv
  <2>13. OffsetInv'
    BY <2>1, <2>2, <2>3 DEF OffsetInv
  <2>14. TablesInv'
    BY <2>2, <2>9 DEF TablesInv
  <2>15. SysdatInv'
    <3>1. /\ sd.mdul = Tabs.md.root /\ sd.pul = Tabs.pd.root /\ sd.qul = Tabs.qcb.root
          /\ sd.lul = Tabs.lock.root /\ sd.flags = Tabs.flags % Word
          /\ sd.lists = <<Tabs.md, Tabs.pd, Tabs.qcb, Tabs.lock>>
      BY <1>1 DEF ImageInv, SysdatInv
    <3> QED
      BY <2>3, <2>6, <2>7, <3>1 DEF SysdatInv
  <2>16. RspsInv'
    <3>1. rspseg' \in Int /\ file'.len \in Int
      BY <2>1, <2>4, <2>5
    <3>2. 16 * (Dsstart + daend - Dsstart - daend) = Fldstart + TabEnd - Fldstart - TabEnd
      BY <2>4
    <3>3. todo' \in Seq(RspNames)
      BY <2>1 DEF ImageInv, UserInv
    <3>4. /\ rspseg' = Dsstart + daend /\ Dsstart' = Dsstart /\ sd'.daend = daend
          /\ file'.len = Fldstart + TabEnd /\ Fldstart' = Fldstart /\ TabEnd' = TabEnd
      BY <2>1, <2>3, <2>5, <2>7
    <3>5. 16 * (rspseg' - Dsstart' - sd'.daend) = file'.len - Fldstart' - TabEnd'
      <4> HIDE DEF daend
      <4> QED
        BY <2>4, <3>1, <3>4
    <3> QED
      BY <3>1, <3>3, <3>5 DEF RspsInv
  <2>17. EndInv'
    BY <2>2 DEF EndInv
  <2> QED
    BY <2>10, <2>11, <2>12, <2>13, <2>14, <2>15, <2>16, <2>17 DEF ImageInv
<1> QED
  BY <1>2, <1>3

LEMMA FromZero ==
  ASSUME NEW n \in Int, n >= -1
  PROVE  IsFiniteSet(0 .. n) /\ Cardinality(0 .. n) = n + 1
<1> PICK a \in Int : a = 0
  OBVIOUS
<1>1. IsFiniteSet(a .. n) /\ Cardinality(a .. n) = IF a > n THEN 0 ELSE n - a + 1
  BY FS_Interval
<1> QED
  BY <1>1

\* An RSP is copied as often as it says, each copy a number of paragraphs.
LEMMA CopiesAre ==
  ASSUME NEW r \in RspNames
  PROVE  /\ Step(r) \in Nat /\ Taken(r) \in Nat /\ IsFiniteSet(Copies(r))
         /\ Kind(r) # "refused" => /\ Copies(r) = 0 .. Rsp[r].ncs
                                   /\ Cardinality(Copies(r)) = Rsp[r].ncs + 1 /\ Step(r) > 0
         /\ Kind(r) = "refused" => Copies(r) = {} /\ Taken(r) = 0
<1>1. /\ Rsp[r].data \in Nat /\ Rsp[r].code \in Nat /\ Rsp[r].code > 0
      /\ Rsp[r].ncs \in Int /\ Rsp[r].ncs >= -1 /\ Rsp[r].mem \in BOOLEAN
  BY ImageAssumption
<1>2. Kind(r) \in {"separate", "pure", "mixed", "refused"}
  BY DEF Kind
<1>3. Step(r) \in Nat /\ (Kind(r) # "refused" => Step(r) > 0)
  BY <1>1, <1>2 DEF Step, Kind
<1>4. CASE Kind(r) = "refused"
  <2>1. Copies(r) = {} /\ Step(r) = 0
    BY <1>4 DEF Copies, Step
  <2>2. IsFiniteSet(Copies(r)) /\ Cardinality(Copies(r)) = 0
    BY <2>1, FS_EmptySet
  <2>3. Taken(r) = 0
    BY <1>4, <2>1, <2>2 DEF Taken
  <2> QED
    BY <1>3, <1>4, <2>1, <2>2, <2>3
<1>5. CASE Kind(r) # "refused"
  <2>1. Copies(r) = 0 .. Rsp[r].ncs
    BY <1>5 DEF Copies
  <2>2. IsFiniteSet(0 .. Rsp[r].ncs) /\ Cardinality(0 .. Rsp[r].ncs) = Rsp[r].ncs + 1
    BY <1>1, FromZero
  <2>3. \A a, b \in Nat : a * b \in Nat
    OBVIOUS
  <2>4. (Rsp[r].ncs + 1) * Step(r) \in Nat
    BY <1>1, <1>3, <2>3
  <2>5. Taken(r) \in Nat
    BY <1>1, <2>1, <2>2, <2>4 DEF Taken
  <2> QED
    BY <1>3, <1>5, <2>1, <2>2, <2>5
<1> QED
  BY <1>4, <1>5

\* From gentables on: places are numbers.
LEMMA SegmentsAre ==
  ASSUME ImageInv, stage \in Later
  PROVE  /\ par \in Params /\ Dsstart \in Nat /\ Dsstart > 0 /\ Fldstart \in Nat
         /\ TabEnd \in Nat /\ sd.daend \in Nat
<1>1. stage # "start" /\ par \in Params
  BY DEF ImageInv, UserInv, Later, Ended, FixedUp
<1>2. Dsstart \in Nat /\ Dsstart > 0 /\ Fldstart \in Nat
  BY <1>1, DataStart, ImageAssumption DEF SecSiz
<1>3. TabEnd \in Nat
  BY <1>1, TablesInOrder
<1>4. TabEnd % Word \in Nat
  BY <1>3, InWord
<1>5. sd.daend = (TabEnd % Word) \div 16
  BY DEF ImageInv, SysdatInv
<1> QED
  BY <1>1, <1>2, <1>3, <1>4, <1>5

\* xfer_rsp: the next RSP, at rspseg and at the end of the file.
LEMMA XferRspStep == ImageInv /\ XferRsp => ImageInv'
<1> SUFFICES ASSUME ImageInv, XferRsp PROVE ImageInv'
  OBVIOUS
<1> PICK more :
      /\ \A x \in more : x.kind \in {"rsp", "code"}
      /\ file' = [file EXCEPT !.len = @ + 16 * Taken(Head(todo)), !.items = @ \cup more]
  <2> DEFINE r == Head(todo)
             seg(i) == rspseg + i * Step(r)
             header(i) == Header(r, Len(todo), i, seg(i), file.len + 16 * i * Step(r),
                                 CsOf(r, rspseg, i), IF i = 0 THEN rsplast ELSE seg(i - 1))
             more == CodesOf(r, Len(todo)) \cup {header(i) : i \in Copies(r)}
  <2>1. file' = [file EXCEPT !.len = @ + 16 * Taken(Head(todo)), !.items = @ \cup more]
    BY DEF XferRsp
  <2>2. ASSUME NEW x \in more PROVE x.kind \in {"rsp", "code"}
    BY DEF CodesOf, Code, Header
  <2> QED
    BY <2>1, <2>2
<1>1. /\ stage = "rsps" /\ stage' = stage /\ par' = par /\ rsps' = rsps /\ off' = off /\ sd' = sd
      /\ todo # <<>> /\ todo' = Tail(todo) /\ rspseg' = rspseg + Taken(Head(todo))
  BY DEF XferRsp
<1>2. /\ stage' \in Live /\ stage' \in Later /\ stage' \notin Ended /\ stage' \notin FixedUp
      /\ stage' # "start" /\ stage' # "modules" /\ stage' # "tables"
  BY <1>1 DEF Live, Later, Ended, FixedUp
<1>3. /\ Tabs' = Tabs /\ SatAt' = SatAt /\ QbufAt' = QbufAt /\ TabEnd' = TabEnd
      /\ Fldstart' = Fldstart /\ Dsstart' = Dsstart /\ XiosFix' = XiosFix /\ SatItems' = SatItems
      /\ \A i : CodeBefore(i)' = CodeBefore(i) /\ PosOf(i)' = PosOf(i) /\ GenFix(i)' = GenFix(i)
      /\ \A n : TableItem(n)' = TableItem(n)
  BY <1>1, PlacesStay
<1>4. todo \in Seq(RspNames) /\ Head(todo) \in RspNames /\ Tail(todo) \in Seq(RspNames)
  BY <1>1 DEF ImageInv, RspsInv
<1>5. Taken(Head(todo)) \in Nat
  BY <1>4, CopiesAre
<1>6. /\ file' = [len |-> file'.len, items |-> file'.items, fixes |-> file'.fixes]
      /\ file'.len = file.len + 16 * Taken(Head(todo)) /\ file'.items = file.items \cup more
      /\ file'.fixes = file.fixes
  <2>1. file = [len |-> file.len, items |-> file.items, fixes |-> file.fixes]
    BY DEF ImageInv, ShapeInv
  <2>2. file' = [len |-> file.len + 16 * Taken(Head(todo)), items |-> file.items \cup more,
                 fixes |-> file.fixes]
    BY <2>1
  <2> QED
    BY <2>2
<1>7. HasTables(file.items, AllTables)' /\ HasModules(file.items)'
  <2>1. HasTables(file.items, AllTables) /\ HasModules(file.items)
    BY <1>1, <1>2 DEF ImageInv, TablesInv, ModulesInv
  <2>2. HasTables(file'.items, AllTables) /\ HasModules(file'.items)
    BY <1>6, <2>1, OtherItems
  <2> QED
    BY <1>3, <2>2 DEF HasTables, HasModules
<1>8. UserInv'
  BY <1>1 DEF ImageInv, UserInv
<1>9. ShapeInv'
  BY <1>1, <1>6 DEF ImageInv, ShapeInv
<1>10. ModulesInv'
  <2>1. /\ file.fixes = {GenFix(i) : i \in DOMAIN ModLen} \cup {XiosFix}
        /\ sd.eseg = [i \in DOMAIN ModLen |-> MpmSeg + CodeBefore(i)]
    BY <1>1, <1>2 DEF ImageInv, ModulesInv
  <2> QED
    BY <1>1, <1>3, <1>6, <1>7, <2>1 DEF ModulesInv
<1>11. OffsetInv'
  BY <1>1, <1>2, <1>3 DEF ImageInv, OffsetInv
<1>12. TablesInv'
  BY <1>2, <1>7 DEF TablesInv
<1>13. SysdatInv'
  BY <1>1, <1>2, <1>3 DEF ImageInv, SysdatInv
<1>14. RspsInv'
  <2>1. /\ rspseg \in Int /\ file.len \in Int
        /\ 16 * (rspseg - Dsstart - sd.daend) = file.len - Fldstart - TabEnd
    BY <1>1, <1>2 DEF ImageInv, RspsInv
  <2>2. Dsstart \in Int /\ Fldstart \in Int /\ TabEnd \in Int /\ sd.daend \in Int
    BY <1>1, <1>2, SegmentsAre
  <2>3. 16 * (rspseg + Taken(Head(todo)) - Dsstart - sd.daend)
          = file.len + 16 * Taken(Head(todo)) - Fldstart - TabEnd
    BY <1>5, <2>1, <2>2
  <2>4. /\ rspseg' = rspseg + Taken(Head(todo)) /\ Dsstart' = Dsstart /\ sd'.daend = sd.daend
        /\ file'.len = file.len + 16 * Taken(Head(todo)) /\ Fldstart' = Fldstart /\ TabEnd' = TabEnd
    BY <1>1, <1>3, <1>6
  <2>5. rspseg' \in Int /\ file'.len \in Int
    BY <1>5, <2>1, <2>4
  <2>6. 16 * (rspseg' - Dsstart' - sd'.daend) = file'.len - Fldstart' - TabEnd'
    BY <1>5, <2>1, <2>2, <2>3, <2>4
  <2> QED
    BY <1>1, <1>4, <2>5, <2>6 DEF RspsInv
<1>15. EndInv'
  BY <1>2 DEF EndInv
<1> QED
  BY <1>8, <1>9, <1>10, <1>11, <1>12, <1>13, <1>14, <1>15 DEF ImageInv

\* The end of gentables: what is behind the RSPs.
LEMMA ReserveStep == ImageInv /\ Reserve => ImageInv'
<1> SUFFICES ASSUME ImageInv, Reserve PROVE ImageInv'
  OBVIOUS
<1>1. /\ stage = "rsps" /\ stage' = "generated" /\ par' = par /\ rsps' = rsps /\ off' = off
      /\ file' = file /\ rsplast' = rsplast /\ rspseg' = rspseg /\ hdr' = hdr
      /\ sd' = [sd EXCEPT !.rspseg = rsplast, !.rsvd = rspseg, !.xtalloc = rspseg + par.bufs,
                       !.endseg = rspseg + par.bufs + XiosAlloc,
                       !.dltotal = sd.daend + rspseg - (Dsstart + sd.daend)]
  BY DEF Reserve
<1>2. /\ stage' \in Live /\ stage' \in Later /\ stage' \in Ended /\ stage' \notin FixedUp
      /\ stage' # "start" /\ stage' # "modules" /\ stage' # "tables" /\ stage' # "rsps"
      /\ stage \in Live /\ stage \in Later
  BY <1>1 DEF Live, Later, Ended, FixedUp
<1>3. /\ Tabs' = Tabs /\ SatAt' = SatAt /\ QbufAt' = QbufAt /\ TabEnd' = TabEnd
      /\ Fldstart' = Fldstart /\ Dsstart' = Dsstart /\ XiosFix' = XiosFix /\ SatItems' = SatItems
      /\ \A i : CodeBefore(i)' = CodeBefore(i) /\ PosOf(i)' = PosOf(i) /\ GenFix(i)' = GenFix(i)
      /\ \A n : TableItem(n)' = TableItem(n)
  BY <1>1, PlacesStay
<1>4. /\ DOMAIN sd' = DOMAIN NoSysdat /\ sd'.eseg = sd.eseg
      /\ sd'.mdul = sd.mdul /\ sd'.pul = sd.pul /\ sd'.qul = sd.qul /\ sd'.lul = sd.lul
      /\ sd'.flags = sd.flags /\ sd'.lists = sd.lists
      /\ sd'.qmastart = sd.qmastart /\ sd'.satheader = sd.satheader
      /\ sd'.satfirst = sd.satfirst /\ sd'.daend = sd.daend
  BY <1>1 DEF ImageInv, ShapeInv, NoSysdat
<1>5. /\ sd'.rspseg = rsplast /\ sd'.rsvd = rspseg /\ sd'.xtalloc = rspseg + par.bufs
      /\ sd'.endseg = rspseg + par.bufs + XiosAlloc
      /\ sd'.dltotal = sd.daend + rspseg - (Dsstart + sd.daend)
  BY <1>1 DEF ImageInv, ShapeInv, NoSysdat
<1>6. sd.daend + rspseg - (Dsstart + sd.daend) = rspseg - Dsstart
  <2>1. rspseg \in Int
    BY <1>2 DEF ImageInv, RspsInv
  <2>2. Dsstart \in Int /\ sd.daend \in Int
    BY <1>1, <1>2, SegmentsAre
  <2> QED
    BY <2>1, <2>2
<1>7. UserInv' /\ ShapeInv'
  <2>1. UserInv'
    BY <1>1 DEF ImageInv, UserInv
  <2>2. ShapeInv'
    BY <1>1, <1>4 DEF ImageInv, ShapeInv
  <2> QED
    BY <2>1, <2>2
<1>8. HasTables(file.items, AllTables)' /\ HasModules(file.items)'
  <2>1. HasTables(file.items, AllTables) /\ HasModules(file.items)
    BY <1>2 DEF ImageInv, TablesInv, ModulesInv
  <2> QED
    BY <1>1, <1>3, <2>1 DEF HasTables, HasModules
<1>9. ModulesInv'
  <2>1. /\ file.fixes = {GenFix(i) : i \in DOMAIN ModLen} \cup {XiosFix}
        /\ sd.eseg = [i \in DOMAIN ModLen |-> MpmSeg + CodeBefore(i)]
    BY <1>2 DEF ImageInv, ModulesInv
  <2> QED
    BY <1>1, <1>3, <1>4, <1>8, <2>1 DEF ModulesInv
<1>10. OffsetInv'
  BY <1>1, <1>2, <1>3 DEF ImageInv, OffsetInv
<1>11. TablesInv'
  BY <1>2, <1>8 DEF TablesInv
<1>12. SysdatInv'
  BY <1>2, <1>3, <1>4 DEF ImageInv, SysdatInv
<1>13. RspsInv'
  BY <1>1, <1>2, <1>3, <1>4 DEF ImageInv, RspsInv
<1>14. EndInv'
  BY <1>1, <1>2, <1>3, <1>5, <1>6 DEF EndInv
<1> QED
  BY <1>7, <1>9, <1>10, <1>11, <1>12, <1>13, <1>14 DEF ImageInv

\* fixups.
LEMMA FixImageStep == ImageInv /\ FixImage => ImageInv'
<1> SUFFICES ASSUME ImageInv, FixImage PROVE ImageInv'
  OBVIOUS
<1> DEFINE fix(x) == IF x.kind = "module"
                     THEN [kind |-> "fixed", name |-> x.name, at |-> x.at,
                           ds |-> (CHOOSE f \in file.fixes : f.at = x.at + 6).to]
                     ELSE x
<1>1. /\ stage = "generated" /\ stage' = "fixed" /\ par' = par /\ rsps' = rsps /\ off' = off
      /\ sd' = sd /\ rsplast' = rsplast /\ rspseg' = rspseg
      /\ hdr' = [clen |-> CodeTotal, cbase |-> MpmSeg, dlen |-> sd.dltotal, dbase |-> MpmSeg + CodeTotal]
      /\ file' = [file EXCEPT !.items = {fix(x) : x \in file.items}]
  BY DEF FixImage
<1>2. /\ stage' \in Live /\ stage' \in Later /\ stage' \in Ended /\ stage' \in FixedUp
      /\ stage' # "start" /\ stage' # "modules" /\ stage' # "tables" /\ stage' # "rsps"
      /\ stage \in Live /\ stage \in Later /\ stage \in Ended
  BY <1>1 DEF Live, Later, Ended, FixedUp
<1>3. /\ Tabs' = Tabs /\ SatAt' = SatAt /\ QbufAt' = QbufAt /\ TabEnd' = TabEnd
      /\ CodeTotal' = CodeTotal
      /\ Fldstart' = Fldstart /\ Dsstart' = Dsstart /\ XiosFix' = XiosFix /\ SatItems' = SatItems
      /\ \A i : CodeBefore(i)' = CodeBefore(i) /\ PosOf(i)' = PosOf(i) /\ GenFix(i)' = GenFix(i)
      /\ \A n : TableItem(n)' = TableItem(n)
  BY <1>1, PlacesStay
<1>4. /\ file' = [len |-> file'.len, items |-> file'.items, fixes |-> file'.fixes]
      /\ file'.len = file.len /\ file'.items = {fix(x) : x \in file.items}
      /\ file'.fixes = file.fixes
  <2>1. file = [len |-> file.len, items |-> file.items, fixes |-> file.fixes]
    BY DEF ImageInv, ShapeInv
  <2>2. file' = [len |-> file.len, items |-> {fix(x) : x \in file.items}, fixes |-> file.fixes]
    BY <1>1, <2>1
  <2> QED
    BY <2>2
<1>5. HasTables(file.items, AllTables) /\ HasModules(file.items)
      /\ file.fixes = {GenFix(i) : i \in DOMAIN ModLen} \cup {XiosFix}
  BY <1>2 DEF ImageInv, TablesInv, ModulesInv
<1>6. \A f \in file.fixes : f.to = Dsstart
  BY <1>5 DEF GenFix, XiosFix
<1>7. ASSUME NEW x \in file.items
      PROVE  /\ x.kind = "table" <=> fix(x).kind = "table"
             /\ x.kind = "table" => fix(x) = x
             /\ fix(x).kind \in {"module", "fixed"} =>
                  fix(x).name \in DOMAIN ModLen /\ fix(x).at = PosOf(fix(x).name)
             /\ fix(x).kind = "fixed" => fix(x).ds = Dsstart
  <2>1. CASE x.kind = "module"
    <3>1. x.name \in DOMAIN ModLen /\ x.at = PosOf(x.name)
      BY <1>5, <2>1 DEF HasModules
    <3>2. GenFix(x.name) \in file.fixes /\ GenFix(x.name).at = x.at + 6
      BY <1>5, <3>1 DEF GenFix
    <3>3. (CHOOSE f \in file.fixes : f.at = x.at + 6) \in file.fixes
      BY <3>2
    <3>4. fix(x) = [kind |-> "fixed", name |-> x.name, at |-> x.at,
                    ds |-> (CHOOSE f \in file.fixes : f.at = x.at + 6).to]
      BY <2>1
    <3>5. fix(x).ds = Dsstart
      BY <1>6, <3>3, <3>4
    <3> QED
      BY <2>1, <3>1, <3>4, <3>5
  <2>2. CASE x.kind # "module"
    BY <1>5, <2>2 DEF HasModules
  <2> QED
    BY <2>1, <2>2
<1>8. HasTables(file.items, AllTables)' /\ HasModules(file.items)'
  <2> HIDE DEF fix
  <2>1. HasModules(file'.items)
    BY <1>4, <1>7 DEF HasModules
  <2>2. ASSUME NEW n \in AllTables PROVE TableItem(n) \in file'.items
    <3>1. TableItem(n) \in file.items /\ TableItem(n).kind = "table"
      BY <1>5 DEF HasTables, TableItem
    <3>2. fix(TableItem(n)) = TableItem(n)
      BY <1>7, <3>1
    <3> QED
      BY <1>4, <3>1, <3>2
  <2>3. ASSUME NEW y \in file'.items, y.kind = "table"
        PROVE  y.name \in AllTables /\ y = TableItem(y.name)
    <3>1. PICK x \in file.items : y = fix(x)
      BY <1>4
    <3>2. x.kind = "table" /\ y = x
      BY <1>7, <2>3, <3>1
    <3> QED
      BY <1>5, <3>2 DEF HasTables
  <2>4. HasTables(file'.items, AllTables)
    BY <2>2, <2>3 DEF HasTables
  <2> QED
    BY <1>3, <2>1, <2>4 DEF HasTables, HasModules
<1>9. UserInv' /\ ShapeInv'
  <2>1. UserInv'
    BY <1>1 DEF ImageInv, UserInv
  <2>2. ShapeInv'
    BY <1>1, <1>4 DEF ImageInv, ShapeInv
  <2> QED
    BY <2>1, <2>2
<1>10. ModulesInv'
  <2>1. sd.eseg = [i \in DOMAIN ModLen |-> MpmSeg + CodeBefore(i)]
    BY <1>2 DEF ImageInv, ModulesInv
  <2> QED
    BY <1>1, <1>3, <1>4, <1>5, <1>8, <2>1 DEF ModulesInv
<1>11. OffsetInv'
  BY <1>1, <1>2, <1>3 DEF ImageInv, OffsetInv
<1>12. TablesInv'
  BY <1>2, <1>8 DEF TablesInv
<1>13. SysdatInv'
  BY <1>1, <1>2, <1>3 DEF ImageInv, SysdatInv
<1>14. RspsInv'
  BY <1>1, <1>2, <1>3, <1>4 DEF ImageInv, RspsInv
<1>15. EndInv'
  BY <1>1, <1>2, <1>3 DEF ImageInv, EndInv
<1> QED
  BY <1>9, <1>10, <1>11, <1>12, <1>13, <1>14, <1>15 DEF ImageInv

\* A step is one of the generation or leaves the image alone.
Generates == Gensys \/ GenTables \/ GenQma \/ XferRsp \/ Reserve \/ FixImage

LEMMA StepCases == ImageInv /\ [ImageNext]_ivars => Generates \/ Quiet
<1> SUFFICES ASSUME ImageInv, [ImageNext]_ivars PROVE Generates \/ Quiet
  OBVIOUS
<1>0. rsps \in Seq(RspNames)
  BY DEF ImageInv, UserInv
<1>1. CASE StartGenccpm
  <2>1. stage' = "menu" /\ UNCHANGED image /\ rsps' = rsps /\ par' \in Params
    BY <1>1 DEF StartGenccpm
  <2>2. Left
    BY <2>1 DEF Left, Live, Later, Ended, FixedUp
  <2> QED
    BY <1>0, <2>1, <2>2 DEF Quiet
<1>2. ASSUME NEW r \in RspNames, RspInclude(r) \/ RspExclude(r) PROVE Quiet
  <2>1. UNCHANGED image /\ stage = "menu" /\ stage' = stage /\ par' = par
    BY <1>2 DEF RspInclude, RspExclude
  <2>2. rsps' \in Seq(RspNames)
    <3>1. CASE RspInclude(r)
      BY <1>0, <3>1 DEF RspInclude
    <3>2. CASE RspExclude(r)
      <4> PICK n \in Nat : n = Len(rsps)
        BY <1>0
      <4> DEFINE I == {i \in 1 .. n : rsps[i] = r}
      <4>1. PICK k : /\ k = SelectInSeq(rsps, LAMBDA x : x = r) /\ k # 0
                     /\ rsps' = SubSeq(rsps, 1, k - 1) \o SubSeq(rsps, k + 1, n)
        BY <3>2 DEF RspExclude, RemoveAt
      <4>2. I # {} /\ k = CHOOSE x \in I : \A y \in I : x <= y
        BY <4>1 DEF SelectInSeq, Min
      <4>3. \E x \in I : \A y \in I : x <= y
        <5>1. I \in SUBSET Nat /\ I # {}
          BY <4>2
        <5> HIDE DEF I
        <5> QED
          BY <5>1, Numbers!LeastNumber
      <4>4. k \in 1 .. n
        <5> HIDE DEF I
        <5>1. k \in I
          BY <4>2, <4>3
        <5> QED
          BY <5>1 DEF I
      <4>5. SubSeq(rsps, 1, k - 1) \in Seq(RspNames) /\ SubSeq(rsps, k + 1, n) \in Seq(RspNames)
        BY <1>0, <4>4
      <4>6. \A a, b \in Seq(RspNames) : a \o b \in Seq(RspNames)
        OBVIOUS
      <4> QED
        BY <4>1, <4>5, <4>6
    <3> QED
      BY <1>2, <3>1, <3>2
  <2>3. Stayed
    BY <2>1 DEF Stayed
  <2>4. stage \notin Live
    BY <2>1 DEF Live, Later, Ended, FixedUp
  <2> QED
    BY <2>1, <2>2, <2>3, <2>4 DEF Quiet
<1>3. CASE RspExcludeAll
  <2>1. /\ UNCHANGED image /\ stage = "menu" /\ stage' = stage /\ par' = par
        /\ rsps' \in Seq(RspNames)
    BY <1>3 DEF RspExcludeAll
  <2>2. Stayed
    BY <2>1 DEF Stayed
  <2>3. stage \notin Live
    BY <2>1 DEF Live, Later, Ended, FixedUp
  <2> QED
    BY <2>1, <2>2, <2>3 DEF Quiet
<1>4. CASE Gensys \/ GenTables \/ GenQma \/ XferRsp \/ Reserve \/ FixImage
  BY <1>4 DEF Generates
<1>5. CASE WriteVersion
  <2>1. CASE Stop
    <3>1. stage # "start"
      BY <1>5 DEF WriteVersion
    <3> QED
      BY <2>1, <3>1, StopQuiet
  <2>2. CASE ~ Stop
    <3>1. /\ stage = "fixed" /\ stage' = "written" /\ UNCHANGED image /\ rsps' = rsps /\ par' = par
      BY <1>5, <2>2 DEF WriteVersion
    <3>2. Stayed
      BY <3>1 DEF Stayed, FixedUp
    <3> QED
      BY <1>0, <3>1, <3>2 DEF Quiet
  <2> QED
    BY <2>1, <2>2
<1>6. CASE UnlinkOld \/ RenameSys \/ RenameNew
  <2>1. /\ UNCHANGED image /\ rsps' = rsps /\ par' = par
        /\ stage \in {"written", "unlinked", "renamed"}
        /\ stage' \in {"unlinked", "renamed", "done"}
    BY <1>6 DEF UnlinkOld, RenameSys, RenameNew
  <2>2. Stayed
    BY <2>1 DEF Stayed, FixedUp
  <2> QED
    BY <1>0, <2>1, <2>2 DEF Quiet
<1>7. CASE Crash
  <2>1. /\ UNCHANGED image /\ rsps' = rsps /\ par' = par /\ stage # "start" /\ stage' = "crashed"
    BY <1>7 DEF Crash
  <2>2. Left
    BY <2>1 DEF Left, Live, Later, Ended, FixedUp, ImageInv, UserInv
  <2> QED
    BY <1>0, <2>1, <2>2 DEF Quiet
<1>8. CASE Halted \/ UNCHANGED ivars
  <2>1. UNCHANGED image /\ stage' = stage /\ par' = par /\ rsps' = rsps
    BY <1>8 DEF Halted, ivars, image
  <2>2. Stayed
    BY <2>1 DEF Stayed
  <2> QED
    BY <1>0, <2>1, <2>2 DEF Quiet
<1> QED
  BY <1>1, <1>2, <1>3, <1>4, <1>5, <1>6, <1>7, <1>8 DEF ImageNext

LEMMA ImageStep == ImageInv /\ [ImageNext]_ivars => ImageInv'
  BY StepCases, QuietStep, GensysStep, GenTablesStep, GenQmaStep, XferRspStep, ReserveStep,
     FixImageStep DEF Generates

\* As long as the length of the tables is in the header as it is, offsets have not
\* wrapped around: nor has one before them.
LEMMA NothingWraps ==
  ASSUME ImageInv, Written, OverflowCaught
  PROVE  /\ 16 * sd.daend = TabEnd /\ TabEnd < Word
         /\ \A n \in 0 .. TabEnd : n % Word = n
<1>1. stage \in Later /\ off.whole = TabEnd /\ sd.daend = (TabEnd % Word) \div 16
  BY DEF ImageInv, OffsetInv, SysdatInv, Written, Later, Ended, FixedUp
<1>2. TabEnd \in Nat
  BY <1>1, SegmentsAre
<1>3. 16 * sd.daend = TabEnd
  BY <1>1 DEF OverflowCaught
<1>4. PICK w \in Nat : w = TabEnd % Word /\ w < Word
  BY <1>2, InWord
<1>5. 16 * (w \div 16) <= w
  BY <1>4
<1>6. TabEnd < Word
  BY <1>1, <1>2, <1>3, <1>4, <1>5, ImageAssumption
<1>7. ASSUME NEW n \in 0 .. TabEnd PROVE n % Word = n
  <2>1. n \in Nat /\ n < Word
    BY <1>2, <1>6, ImageAssumption
  <2> QED
    BY <2>1, InWord
<1> QED
  BY <1>3, <1>6, <1>7

\* What the system data page says of the tables.
LEMMA InvTables == ImageInv /\ OverflowCaught => TablesFound
<1> SUFFICES ASSUME ImageInv, OverflowCaught, Written PROVE TablesFound
  BY DEF TablesFound
<1> DEFINE Pos(t) == OffAt((CHOOSE x \in file.items : x.kind = "table" /\ x.name = t).at)
<1>1. stage \in Later /\ stage \in {"tables"} \cup Later
  BY DEF Written, Later, Ended, FixedUp
<1>2. par \in Params /\ Fldstart \in Nat /\ Dsstart \in Nat
  BY <1>1, SegmentsAre
<1>3. /\ {par.mds, par.pds, par.qcbs, par.open, par.flags, par.qbuf, par.xios} \subseteq Nat
  BY <1>2, ImageAssumption
<1>4. ASSUME NEW n \in AllTables, TableAt[n] \in Nat PROVE Pos(n) = TableAt[n]
  <2>1. HasTables(file.items, AllTables)
    BY <1>1 DEF ImageInv, TablesInv
  <2>2. TableItem(n) \in file.items /\ TableItem(n).kind = "table" /\ TableItem(n).name = n
    BY <2>1 DEF HasTables, TableItem
  <2> PICK y : y = CHOOSE x \in file.items : x.kind = "table" /\ x.name = n
    OBVIOUS
  <2>3. y \in file.items /\ y.kind = "table" /\ y.name = n
    BY <2>2
  <2>4. y = TableItem(n)
    BY <2>1, <2>3 DEF HasTables
  <2>5. y.at = Fldstart + TableAt[n]
    <3>1. TableItem(n).at = Fldstart + TableAt[n]
      BY DEF TableItem
    <3> QED
      BY <2>3, <2>4, <3>1
  <2>6. OffAt(y.at) = TableAt[n]
    BY <1>2, <1>4, <2>5 DEF OffAt
  <2> QED
    BY <2>6
<1>5. /\ Tabs.md.at \in Nat /\ Tabs.pd.at \in Nat /\ Tabs.qcb.at \in Nat /\ Tabs.lock.at \in Nat
      /\ Tabs.flags \in Nat /\ SatAt \in Nat /\ QbufAt \in Nat /\ QbufEnd \in Nat /\ TabEnd \in Nat
  BY <1>2, TablesInOrder
<1>6. /\ Pos("md") = Tabs.md.at /\ Pos("pd") = Tabs.pd.at /\ Pos("qcb") = Tabs.qcb.at
      /\ Pos("lock") = Tabs.lock.at /\ Pos("flags") = Tabs.flags
      /\ Pos("sat") = SatAt /\ Pos("qbuf") = QbufAt
  <2>1. /\ TableAt["md"] = Tabs.md.at /\ TableAt["pd"] = Tabs.pd.at /\ TableAt["qcb"] = Tabs.qcb.at
        /\ TableAt["lock"] = Tabs.lock.at /\ TableAt["flags"] = Tabs.flags
        /\ TableAt["sat"] = SatAt /\ TableAt["qbuf"] = QbufAt
    BY DEF TableAt
  <2> HIDE DEF Pos
  <2> QED
    BY <1>4, <1>5, <2>1 DEF AllTables, FirstTables
<1> HIDE DEF Pos
<1>7. /\ Tabs.pd.at = Tabs.md.at + par.mds * MdLen
      /\ Tabs.qcb.at = Tabs.pd.at + par.pds * PdLen
      /\ Tabs.lock.at = Tabs.qcb.at + par.qcbs * QcbLen
      /\ Tabs.flags = Tabs.lock.at + par.open * LockLen
      /\ Tabs.flags <= SatAt /\ SatAt <= QbufAt /\ QbufEnd <= TabEnd
      /\ Tabs.flags + par.flags * FlagLen + par.xios <= SatAt
      /\ QbufEnd = QbufAt + par.qbuf
  BY <1>2, TablesFollow, TablesInOrder DEF QbufEnd
<1>8. QbufAt <= TabEnd /\ SatAt <= TabEnd /\ Tabs.flags <= TabEnd
  BY <1>3, <1>5, <1>7
<1>9. ASSUME NEW o \in Nat, NEW n \in Nat, NEW size \in {MdLen, PdLen, QcbLen, LockLen},
             o + n * size <= Tabs.flags
      PROVE  RootAt(o, n, size) = IF n = 0 THEN 0 ELSE o + (n - 1) * size
  <2>1. CASE n = 0
    BY <2>1 DEF RootAt
  <2>2. CASE n # 0
    <3>1. o + (n - 1) * size \in 0 .. TabEnd
      BY <1>5, <1>8, <1>9, <2>2 DEF MdLen, PdLen, QcbLen, LockLen
    <3> PICK k \in 0 .. TabEnd : k = o + (n - 1) * size
      BY <3>1
    <3>2. k % Word = k
      BY NothingWraps
    <3> QED
      BY <2>2, <3>2 DEF RootAt
  <2> QED
    BY <2>1, <2>2
<1>10. /\ sd.mdul = IF par.mds = 0 THEN 0 ELSE Pos("md") + (par.mds - 1) * MdLen
       /\ sd.pul = IF par.pds = 0 THEN 0 ELSE Pos("pd") + (par.pds - 1) * PdLen
       /\ sd.qul = IF par.qcbs = 0 THEN 0 ELSE Pos("qcb") + (par.qcbs - 1) * QcbLen
       /\ sd.lul = IF par.open = 0 THEN 0 ELSE Pos("lock") + (par.open - 1) * LockLen
  <2>1. /\ Tabs.md.at + par.mds * MdLen <= Tabs.flags /\ Tabs.pd.at + par.pds * PdLen <= Tabs.flags
        /\ Tabs.qcb.at + par.qcbs * QcbLen <= Tabs.flags
        /\ Tabs.lock.at + par.open * LockLen <= Tabs.flags
    BY <1>3, <1>5, <1>7 DEF MdLen, PdLen, QcbLen, LockLen
  <2>2. /\ sd.mdul = RootAt(Tabs.md.at, par.mds, MdLen) /\ sd.pul = RootAt(Tabs.pd.at, par.pds, PdLen)
        /\ sd.qul = RootAt(Tabs.qcb.at, par.qcbs, QcbLen)
        /\ sd.lul = RootAt(Tabs.lock.at, par.open, LockLen)
    BY <1>1, TableRoots DEF ImageInv, SysdatInv
  <2> QED
    BY <1>3, <1>5, <1>6, <1>9, <2>1, <2>2
<1>11. \A i \in 1 .. 3 : sd.lists[i].end <= sd.lists[i + 1].at
  <2>1. sd.lists = <<Tabs.md, Tabs.pd, Tabs.qcb, Tabs.lock>>
    BY <1>1 DEF ImageInv, SysdatInv
  <2>2. Tabs.md.end = Tabs.pd.at /\ Tabs.pd.end = Tabs.qcb.at /\ Tabs.qcb.end = Tabs.lock.at
    BY <1>2, TablesFollow
  <2>3. Tabs.md.end <= Tabs.pd.at /\ Tabs.pd.end <= Tabs.qcb.at /\ Tabs.qcb.end <= Tabs.lock.at
    BY <1>5, <2>2
  <2>4. \A i \in 1 .. 3 : i = 1 \/ i = 2 \/ i = 3
    OBVIOUS
  <2> QED
    BY <2>1, <2>3, <2>4
<1>12. sd.flags = Pos("flags") /\ sd.flags >= Pos("lock") + par.open * LockLen
  <2>1. Tabs.flags \in 0 .. TabEnd
    BY <1>5, <1>8
  <2>2. sd.flags = Tabs.flags
    BY <1>1, <2>1, NothingWraps DEF ImageInv, SysdatInv
  <2> QED
    BY <1>5, <1>6, <1>7, <2>2
<1>13. 16 * (sd.qmastart - Dsstart) = Pos("sat")
  <2>1. SatAt \in 0 .. TabEnd
    BY <1>5, <1>8
  <2>2. sd.qmastart = Dsstart + SatAt \div 16
    BY <1>1, <2>1, NothingWraps DEF ImageInv, SysdatInv
  <2>3. 16 * (SatAt \div 16) = SatAt
    BY <1>2, TablesInOrder
  <2> QED
    BY <1>2, <1>5, <1>6, <2>2, <2>3
<1>14. Pos("sat") >= sd.flags + par.flags * FlagLen + par.xios
  BY <1>3, <1>5, <1>6, <1>7, <1>12
<1>15. /\ sd.satfirst = Pos("qbuf") /\ Pos("qbuf") = Pos("sat") + SatLen * (1 + sd.satheader)
  <2>1. QbufAt \in 0 .. TabEnd
    BY <1>5, <1>8
  <2>2. sd.satfirst = QbufAt /\ sd.satheader = SatItems - 1
    BY <1>1, <2>1, NothingWraps DEF ImageInv, SysdatInv
  <2>3. 1 + sd.satheader = SatItems
    BY <1>3, <2>2 DEF SatItems
  <2> QED
    BY <1>6, <2>2, <2>3 DEF QbufAt
<1>16. Pos("qbuf") + par.qbuf <= Word
  <2>1. Word \in Nat /\ TabEnd < Word
    BY NothingWraps, ImageAssumption
  <2>2. QbufEnd <= Word
    BY <1>5, <1>7, <2>1
  <2> QED
    BY <1>6, <1>7, <2>2
<1> USE DEF Pos
<1> QED
  BY <1>10, <1>11, <1>12, <1>13, <1>14, <1>15, <1>16 DEF TablesFound

\* What the header and the system data page say of the groups and of memory.
LEMMA InvCovers == ImageInv /\ OverflowCaught => ImageCovers
<1> SUFFICES ASSUME ImageInv, OverflowCaught, Written PROVE ImageCovers
  BY DEF ImageCovers
<1>1. stage \in Later /\ stage \in Ended /\ stage \in FixedUp /\ stage \in Live
  BY DEF Written, Later, Ended, FixedUp, Live
<1>2. /\ par \in Params /\ Dsstart \in Nat /\ Fldstart \in Nat /\ TabEnd \in Nat /\ sd.daend \in Nat
  BY <1>1, SegmentsAre
<1>3. CodeTotal \in Nat /\ Dsstart = MpmSeg + CodeTotal /\ Fldstart = SecSiz + 16 * CodeTotal
      /\ MpmSeg \in Nat
  BY <1>2, DataStart, ImageAssumption
<1>4. /\ rspseg \in Int /\ file.len \in Int
      /\ 16 * (rspseg - Dsstart - sd.daend) = file.len - Fldstart - TabEnd
  BY <1>1 DEF ImageInv, RspsInv
<1>5. 16 * sd.daend = TabEnd
  BY NothingWraps
<1>6. 16 * (rspseg - Dsstart) = file.len - Fldstart
  BY <1>2, <1>4, <1>5
<1>7. /\ sd.rsvd = rspseg /\ sd.xtalloc = rspseg + par.bufs
      /\ sd.endseg = rspseg + par.bufs + XiosAlloc /\ sd.dltotal = rspseg - Dsstart
      /\ hdr = [clen |-> CodeTotal, cbase |-> MpmSeg, dlen |-> sd.dltotal, dbase |-> MpmSeg + CodeTotal]
  BY <1>1 DEF ImageInv, EndInv
<1>8. SecSiz + 16 * (hdr.clen + hdr.dlen) = file.len
  <2>1. hdr.clen = CodeTotal /\ hdr.dlen = rspseg - Dsstart
    BY <1>7
  <2>2. SecSiz + 16 * (CodeTotal + (rspseg - Dsstart)) = file.len
    BY <1>2, <1>3, <1>4, <1>6 DEF SecSiz
  <2> QED
    BY <2>1, <2>2
<1>9. hdr.dbase = Dsstart /\ SegAt(Fldstart) = Dsstart
  BY <1>2, <1>3, <1>7 DEF SegAt, SecSiz
<1>10. ASSUME NEW x \in file.items, x.kind = "fixed"
       PROVE  x.ds = Dsstart /\ sd.eseg[x.name] = SegAt(x.at)
  <2>1. x.ds = Dsstart /\ x.name \in DOMAIN ModLen /\ x.at = PosOf(x.name)
    BY <1>1, <1>10 DEF ImageInv, ModulesInv, HasModules
  <2>2. sd.eseg = [i \in DOMAIN ModLen |-> MpmSeg + CodeBefore(i)]
    BY <1>1 DEF ImageInv, ModulesInv
  <2>3. sd.eseg[x.name] = MpmSeg + CodeBefore(x.name)
    BY <2>1, <2>2
  <2>4. SegAt(PosOf(x.name)) = MpmSeg + CodeBefore(x.name)
    BY <1>2, <2>1, DataStart
  <2> QED
    BY <2>1, <2>3, <2>4
<1>11. sd.rsvd = SegAt(file.len)
  <2>1. SegAt(file.len) = rspseg
    <3> PICK k \in Int : k = rspseg - MpmSeg
      BY <1>3, <1>4
    <3>1. file.len - SecSiz = 16 * k
      BY <1>3, <1>4, <1>6 DEF SecSiz
    <3>2. (16 * k) \div 16 = k
      OBVIOUS
    <3> QED
      BY <1>3, <1>4, <3>1, <3>2 DEF SegAt
  <2> QED
    BY <1>7, <2>1
<1>12. sd.xtalloc >= sd.rsvd + par.bufs /\ sd.endseg >= sd.xtalloc + XiosAlloc
  <2>1. par.bufs \in Nat /\ XiosAlloc \in Nat
    BY <1>2, ImageAssumption
  <2> QED
    BY <1>4, <1>7, <2>1
<1> QED
  BY <1>8, <1>9, <1>10, <1>11, <1>12 DEF ImageCovers

\* genccpm.c to genc3.c: for any modules, RSPs and parameters, what the image says of
\* its tables, groups, fixes and reserved memory is so, unless an overflow of the
\* system data segment was not noticed (genc3.c:56).
THEOREM ImageKept == ImageSpec => [](OverflowCaught => ImageSound)
<1>1. ImageInv => (OverflowCaught => ImageSound)
  BY InvTables, InvCovers DEF ImageSound
<1> QED
  BY <1>1, InitImage, ImageStep, PTL DEF ImageSpec

-----------------------------------------------------------------------------
(* The headers of the RSPs, from the last, which sd_rspseg is, to the      *)
(* first: in the order of their segments, each linked to the one before.   *)

HeadersOf(items) == {x \in items : x.kind = "rsp"}
CodeOf(items) == {x \in items : x.kind = "code"}

\* hs lists the headers H; all are below a segment.
InOrder(hs, n, H, below) ==
  /\ hs \in [1 .. n -> H] /\ \A x \in H : \E j \in 1 .. n : hs[j] = x
  /\ \A j \in 1 .. n : hs[j].ds \in Nat /\ hs[j].ds > 0 /\ hs[j].ds < below
  /\ \A i, j \in 1 .. n : i < j => hs[i].ds < hs[j].ds
InChain(hs, n, last) ==
  /\ \A j \in 1 .. n : hs[j].link = IF j = 1 THEN 0 ELSE hs[j - 1].ds
  /\ last = IF n = 0 THEN 0 ELSE hs[n].ds
ChainOf(H, last, below) ==
  /\ below \in Nat /\ below > 0
  /\ \E n \in Nat : \E hs : InOrder(hs, n, H, below) /\ InChain(hs, n, last)

\* A run of m headers, and the last header then.
RunOf(gs, m) == {gs[i] : i \in 0 .. m - 1}
LastOf(gs, m, last) == IF m = 0 THEN last ELSE gs[m - 1].ds

\* The headers that are added lie between two segments, and are linked to the last.
Added(gs, m, last, from, below) ==
  /\ \A i \in 0 .. m - 1 : gs[i].ds \in Nat /\ gs[i].ds >= from /\ gs[i].ds < below
  /\ \A i, j \in 0 .. m - 1 : i < j => gs[i].ds < gs[j].ds
  /\ \A i \in 0 .. m - 1 : gs[i].link = IF i = 0 THEN last ELSE gs[i - 1].ds

LEMMA NoChain ==
  ASSUME NEW below \in Nat, below > 0
  PROVE  ChainOf({}, 0, below)
<1>1. PICK hs : hs = [j \in 1 .. 0 |-> 0]
  OBVIOUS
<1>2. 1 .. 0 = {}
  OBVIOUS
<1>3. InOrder(hs, 0, {}, below) /\ InChain(hs, 0, 0)
  BY <1>1, <1>2 DEF InOrder, InChain
<1> QED
  BY <1>3 DEF ChainOf

\* Further copies behind those there are.
LEMMA ChainGrows ==
  ASSUME NEW H, NEW last, NEW from, ChainOf(H, last, from),
         NEW m \in Nat, NEW gs, NEW below \in Nat, from <= below,
         Added(gs, m, last, from, below)
  PROVE  ChainOf(H \cup RunOf(gs, m), LastOf(gs, m, last), below)
<1>0. from \in Nat /\ from > 0
  BY DEF ChainOf
<1> PICK n, hs : n \in Nat /\ InOrder(hs, n, H, from) /\ InChain(hs, n, last)
  BY DEF ChainOf
<1> DEFINE K == H \cup RunOf(gs, m)
           ks == [j \in 1 .. n + m |-> IF j <= n THEN hs[j] ELSE gs[j - n - 1]]
<1>1. ASSUME NEW j \in 1 .. n PROVE j \in 1 .. n + m /\ ks[j] = hs[j]
  OBVIOUS
<1>2. ASSUME NEW i \in 0 .. m - 1 PROVE n + i + 1 \in 1 .. n + m /\ ks[n + i + 1] = gs[i]
  <2>1. n + i + 1 \in 1 .. n + m /\ ~ n + i + 1 <= n /\ (n + i + 1) - n - 1 = i
    OBVIOUS
  <2> QED
    BY <2>1
<1>3. ASSUME NEW j \in 1 .. n + m
      PROVE  (j \in 1 .. n) \/ (\E i \in 0 .. m - 1 : j = n + i + 1)
  <2>1. CASE j <= n
    BY <2>1
  <2>2. CASE ~ j <= n
    <3>1. j - n - 1 \in 0 .. m - 1 /\ j = n + (j - n - 1) + 1
      BY <2>2
    <3> QED
      BY <3>1
  <2> QED
    BY <2>1, <2>2
<1> HIDE DEF ks, K
<1>4. /\ \A j \in 1 .. n : hs[j] \in H /\ hs[j].ds \in Nat /\ hs[j].ds > 0 /\ hs[j].ds < from
      /\ \A i, j \in 1 .. n : i < j => hs[i].ds < hs[j].ds
      /\ \A x \in H : \E j \in 1 .. n : hs[j] = x
  BY DEF InOrder
<1>5. /\ \A i \in 0 .. m - 1 : gs[i].ds \in Nat /\ gs[i].ds >= from /\ gs[i].ds < below
      /\ \A i, j \in 0 .. m - 1 : i < j => gs[i].ds < gs[j].ds
      /\ \A i \in 0 .. m - 1 : gs[i].link = IF i = 0 THEN last ELSE gs[i - 1].ds
  BY DEF Added
<1>6. /\ \A j \in 1 .. n : hs[j].link = IF j = 1 THEN 0 ELSE hs[j - 1].ds
      /\ last = IF n = 0 THEN 0 ELSE hs[n].ds
  BY DEF InChain
<1>7. InOrder(ks, n + m, K, below)
  <2>1. ks \in [1 .. n + m -> K]
    <3>1. ASSUME NEW j \in 1 .. n + m PROVE ks[j] \in K
      <4>1. CASE j \in 1 .. n
        BY <1>1, <1>4, <4>1 DEF K
      <4>2. ASSUME NEW i \in 0 .. m - 1, j = n + i + 1 PROVE ks[j] \in K
        BY <1>2, <4>2 DEF K, RunOf
      <4> QED
        BY <1>3, <4>1, <4>2
    <3>2. ks = [j \in 1 .. n + m |-> ks[j]]
      BY DEF ks
    <3> QED
      BY <3>1, <3>2
  <2>2. ASSUME NEW x \in K PROVE \E j \in 1 .. n + m : ks[j] = x
    <3>1. CASE x \in H
      BY <1>1, <1>4, <3>1
    <3>2. CASE x \in RunOf(gs, m)
      BY <1>2, <3>2 DEF RunOf
    <3> QED
      BY <3>1, <3>2 DEF K
  <2>3. ASSUME NEW j \in 1 .. n + m
        PROVE  ks[j].ds \in Nat /\ ks[j].ds > 0 /\ ks[j].ds < below
    <3>1. CASE j \in 1 .. n
      BY <1>0, <1>1, <1>4, <3>1
    <3>2. ASSUME NEW i \in 0 .. m - 1, j = n + i + 1
          PROVE  ks[j].ds \in Nat /\ ks[j].ds > 0 /\ ks[j].ds < below
      <4> PICK d \in Nat : d = gs[i].ds /\ d >= from /\ d < below
        BY <1>5
      <4>1. ks[j].ds = d
        BY <1>2, <3>2
      <4> QED
        BY <1>0, <4>1
    <3> QED
      BY <1>3, <3>1, <3>2
  <2>4. ASSUME NEW a \in 1 .. n + m, NEW b \in 1 .. n + m, a < b PROVE ks[a].ds < ks[b].ds
    <3>1. CASE b \in 1 .. n
      <4>1. a \in 1 .. n
        BY <2>4, <3>1
      <4> QED
        BY <1>1, <1>4, <2>4, <3>1, <4>1
    <3>2. ASSUME NEW j \in 0 .. m - 1, b = n + j + 1 PROVE ks[a].ds < ks[b].ds
      <4>1. CASE a \in 1 .. n
        <5> PICK c \in Nat : c = hs[a].ds /\ c < from
          BY <1>4, <4>1
        <5> PICK d \in Nat : d = gs[j].ds /\ d >= from
          BY <1>5
        <5>1. ks[a].ds = c /\ ks[b].ds = d
          BY <1>1, <1>2, <3>2, <4>1
        <5> QED
          BY <1>0, <5>1
      <4>2. ASSUME NEW i \in 0 .. m - 1, a = n + i + 1 PROVE ks[a].ds < ks[b].ds
        <5>1. i < j
          BY <2>4, <3>2, <4>2
        <5>2. gs[i].ds < gs[j].ds
          BY <1>5, <5>1
        <5> QED
          BY <1>2, <3>2, <4>2, <5>2
      <4> QED
        BY <1>3, <4>1, <4>2
    <3> QED
      BY <1>3, <3>1, <3>2
  <2> QED
    BY <2>1, <2>2, <2>3, <2>4 DEF InOrder
<1>8. InChain(ks, n + m, LastOf(gs, m, last))
  <2>1. ASSUME NEW j \in 1 .. n + m PROVE ks[j].link = IF j = 1 THEN 0 ELSE ks[j - 1].ds
    <3>1. CASE j \in 1 .. n
      <4>1. j # 1 => j - 1 \in 1 .. n
        BY <3>1
      <4> QED
        BY <1>1, <1>6, <3>1, <4>1
    <3>2. ASSUME NEW i \in 0 .. m - 1, j = n + i + 1
          PROVE  ks[j].link = IF j = 1 THEN 0 ELSE ks[j - 1].ds
      <4>1. CASE i = 0
        <5>1. j = n + 1 /\ ks[j].link = last /\ (n # 0 => n \in 1 .. n)
          BY <1>2, <1>5, <3>2, <4>1
        <5>2. CASE n = 0
          BY <1>6, <5>1, <5>2
        <5>3. CASE n # 0
          <6>1. j # 1 /\ j - 1 = n /\ ks[n] = hs[n]
            BY <1>1, <5>1, <5>3
          <6> QED
            BY <1>6, <5>1, <5>3, <6>1
        <5> QED
          BY <5>2, <5>3
      <4>2. CASE i # 0
        <5>1. i - 1 \in 0 .. m - 1 /\ j - 1 = n + (i - 1) + 1 /\ j # 1
          BY <3>2, <4>2
        <5>2. ks[j - 1] = gs[i - 1] /\ ks[j] = gs[i]
          BY <1>2, <3>2, <5>1
        <5> QED
          BY <1>5, <4>2, <5>1, <5>2
      <4> QED
        BY <4>1, <4>2
    <3> QED
      BY <1>3, <3>1, <3>2
  <2>2. CASE m = 0
    <3>1. n + m = n /\ (n # 0 => n \in 1 .. n)
      BY <2>2
    <3>2. n # 0 => ks[n] = hs[n]
      BY <1>1, <3>1
    <3> QED
      BY <1>6, <2>1, <2>2, <3>1, <3>2 DEF InChain, LastOf
  <2>3. CASE m # 0
    <3>1. m - 1 \in 0 .. m - 1 /\ n + m = n + (m - 1) + 1 /\ n + m # 0
      BY <2>3
    <3>2. ks[n + m] = gs[m - 1]
      BY <1>2, <3>1
    <3> QED
      BY <2>1, <2>3, <3>1, <3>2 DEF InChain, LastOf
  <2> QED
    BY <2>2, <2>3
<1>9. below > 0 /\ n + m \in Nat
  BY <1>0
<1>10. ChainOf(K, LastOf(gs, m, last), below)
  BY <1>7, <1>8, <1>9 DEF ChainOf
<1> QED
  BY <1>10 DEF K

\* From the last header the links go to each other once, and then to 0.
AtSeg(H, seg) == {x \in H : x.ds = seg}
Follows(f, n, H, last) ==
  f = [k \in 0 .. n |-> IF k = 0 THEN last ELSE (CHOOSE x \in AtSeg(H, f[k - 1]) : TRUE).link]
FoundBy(f, n, H) ==
  /\ \A k \in 0 .. n - 1 : Cardinality(AtSeg(H, f[k])) = 1
  /\ {f[k] : k \in 0 .. n - 1} = {x.ds : x \in H}
  /\ f[n] = 0

LEMMA ChainFollowed ==
  ASSUME NEW H, NEW last, NEW below, ChainOf(H, last, below)
  PROVE  /\ IsFiniteSet(H) /\ Cardinality(H) \in Nat
         /\ \E f : Follows(f, Cardinality(H), H, last)
         /\ \A f : Follows(f, Cardinality(H), H, last) => FoundBy(f, Cardinality(H), H)
<1> PICK n, hs : n \in Nat /\ InOrder(hs, n, H, below) /\ InChain(hs, n, last)
  BY DEF ChainOf
<1>1. /\ hs \in [1 .. n -> H] /\ \A x \in H : \E j \in 1 .. n : hs[j] = x
      /\ \A j \in 1 .. n : hs[j].ds \in Nat
      /\ \A i, j \in 1 .. n : i < j => hs[i].ds < hs[j].ds
      /\ \A j \in 1 .. n : hs[j].link = IF j = 1 THEN 0 ELSE hs[j - 1].ds
      /\ last = IF n = 0 THEN 0 ELSE hs[n].ds
  BY DEF InOrder, InChain
<1>2. ASSUME NEW i \in 1 .. n, NEW j \in 1 .. n, hs[i].ds = hs[j].ds PROVE i = j
  <2>1. ~ i < j /\ ~ j < i
    BY <1>1, <1>2
  <2> QED
    BY <2>1
<1>3. IsFiniteSet(H) /\ Cardinality(H) = n
  <2>1. hs \in Bijection(1 .. n, H)
    BY <1>1, <1>2 DEF Bijection, Injection, Surjection, IsInjective
  <2>2. IsFiniteSet(1 .. n) /\ Cardinality(1 .. n) = n
    <3> PICK a \in Int : a = 1
      OBVIOUS
    <3>1. IsFiniteSet(a .. n) /\ Cardinality(a .. n) = IF a > n THEN 0 ELSE n - a + 1
      BY FS_Interval
    <3> QED
      BY <3>1
  <2>3. ExistsBijection(1 .. n, H)
    BY <2>1 DEF ExistsBijection
  <2> QED
    BY <2>2, <2>3, FS_Bijection
<1>4. ASSUME NEW j \in 1 .. n PROVE AtSeg(H, hs[j].ds) = {hs[j]}
  <2>1. ASSUME NEW x \in H, x.ds = hs[j].ds PROVE x = hs[j]
    BY <1>1, <1>2, <2>1
  <2> QED
    BY <1>1, <2>1 DEF AtSeg
<1> DEFINE w == [k \in 0 .. n |-> IF k = n THEN 0 ELSE hs[n - k].ds]
<1>5. ASSUME NEW k \in 1 .. n PROVE (CHOOSE x \in AtSeg(H, hs[n - (k - 1)].ds) : TRUE).link = w[k]
  <2> PICK j \in 1 .. n : j = n - (k - 1)
    OBVIOUS
  <2>1. (CHOOSE x \in AtSeg(H, hs[j].ds) : TRUE) = hs[j]
    BY <1>4
  <2>2. hs[j].link = IF j = 1 THEN 0 ELSE hs[j - 1].ds
    BY <1>1
  <2>3. k \in 0 .. n /\ (j = 1 <=> k = n) /\ n - k = j - 1
    OBVIOUS
  <2>4. w[k] = IF k = n THEN 0 ELSE hs[n - k].ds
    BY <2>3
  <2> HIDE DEF w
  <2> QED
    BY <2>1, <2>2, <2>3, <2>4
<1>6. w[0] = last /\ w[n] = 0 /\ \A k \in 0 .. n - 1 : w[k] = hs[n - k].ds
  <2>1. 0 \in 0 .. n /\ n \in 0 .. n /\ \A k \in 0 .. n - 1 : k \in 0 .. n /\ k # n
    OBVIOUS
  <2>2. n - 0 = n
    OBVIOUS
  <2> QED
    BY <1>1, <2>1, <2>2
<1>7. w = [k \in 0 .. n |-> w[k]]
  OBVIOUS
<1> HIDE DEF w
<1>8. \A k \in 1 .. n : k - 1 \in 0 .. n - 1 /\ k # 0 /\ k \in 0 .. n
  OBVIOUS
<1>9. Follows(w, n, H, last)
  <2>1. ASSUME NEW k \in 0 .. n
        PROVE  w[k] = IF k = 0 THEN last ELSE (CHOOSE x \in AtSeg(H, w[k - 1]) : TRUE).link
    <3>1. CASE k = 0
      BY <1>6, <3>1
    <3>2. CASE k # 0
      <4>1. k \in 1 .. n
        BY <3>2
      <4>2. w[k - 1] = hs[n - (k - 1)].ds
        BY <1>6, <1>8, <4>1
      <4> QED
        BY <1>5, <3>2, <4>1, <4>2
    <3> QED
      BY <3>1, <3>2
  <2>2. [k \in 0 .. n |-> w[k]]
          = [k \in 0 .. n |-> IF k = 0 THEN last
                              ELSE (CHOOSE x \in AtSeg(H, w[k - 1]) : TRUE).link]
    BY <2>1
  <2> QED
    BY <1>7, <2>2 DEF Follows
<1>10. ASSUME NEW f, Follows(f, n, H, last) PROVE FoundBy(f, n, H)
  <2>1. \A k \in 0 .. n :
          f[k] = IF k = 0 THEN last ELSE (CHOOSE x \in AtSeg(H, f[k - 1]) : TRUE).link
    BY <1>10 DEF Follows
  <2> DEFINE T == {k \in Nat : k <= n => f[k] = w[k]}
  <2>2. 0 \in T
    BY <1>6, <2>1
  <2>3. ASSUME NEW k \in Nat, k \in T PROVE k + 1 \in T
    <3> SUFFICES ASSUME k + 1 <= n PROVE f[k + 1] = w[k + 1]
      OBVIOUS
    <3> PICK i \in 1 .. n : i = k + 1
      OBVIOUS
    <3>1. k = i - 1 /\ i \in 0 .. n /\ i # 0 /\ i - 1 \in 0 .. n - 1
      OBVIOUS
    <3>2. f[k] = hs[n - (i - 1)].ds
      BY <1>6, <2>3, <3>1
    <3>3. f[i] = (CHOOSE x \in AtSeg(H, f[k]) : TRUE).link
      BY <2>1, <3>1
    <3>4. f[i] = w[i]
      BY <1>5, <3>2, <3>3
    <3> QED
      BY <3>4
  <2>4. Nat \subseteq T
    <3> HIDE DEF T
    <3> QED
      BY <2>2, <2>3, Numbers!NumbersReached
  <2>5. \A k \in 0 .. n - 1 : f[k] = hs[n - k].ds /\ n - k \in 1 .. n
    BY <1>6, <2>4
  <2>6. f[n] = 0
    BY <1>6, <2>4
  <2>7. ASSUME NEW k \in 0 .. n - 1 PROVE Cardinality(AtSeg(H, f[k])) = 1
    <3> PICK j \in 1 .. n : j = n - k
      OBVIOUS
    <3>1. AtSeg(H, f[k]) = {hs[j]}
      BY <1>4, <2>5
    <3> QED
      BY <3>1, FS_Singleton
  <2>8. ASSUME NEW x \in H PROVE x.ds \in {f[k] : k \in 0 .. n - 1}
    <3> PICK j \in 1 .. n : hs[j] = x
      BY <1>1
    <3>1. n - j \in 0 .. n - 1 /\ n - (n - j) = j
      OBVIOUS
    <3>2. f[n - j] = x.ds
      BY <2>5, <3>1
    <3> QED
      BY <3>1, <3>2
  <2>9. ASSUME NEW k \in 0 .. n - 1 PROVE f[k] \in {x.ds : x \in H}
    BY <1>1, <2>5
  <2> QED
    BY <2>6, <2>7, <2>8, <2>9 DEF FoundBy
<1> QED
  BY <1>3, <1>9, <1>10

\* The copies that were asked for of the RSPs that are not waiting: n are.
Wanted(n) ==
  UNION {{<<num, i>> : i \in Copies(rsps[Len(rsps) + 1 - num])} : num \in n + 1 .. Len(rsps)}

\* There is one header for each of them.
Numbered(H, C, n) ==
  /\ {<<x.num, x.copy>> : x \in H} = Wanted(n)
  /\ \A x, y \in H : x.num = y.num /\ x.copy = y.copy => x = y
  /\ \A x \in H \cup C : x.num \in Nat /\ x.num > n

\* A header and its code are in the file where their segments will be.
LiesAt(H, C, shift) ==
  /\ \A x \in H : x.at = 16 * x.ds - shift
  /\ \A x \in H : \A c \in C :
       c.num = x.num /\ c.copy = x.copy => x.cs \in Int /\ c.at = 16 * x.cs - shift
Shift == 16 * (Dsstart + sd.daend) - Fldstart - TabEnd

\* The last RSPs of the list are waiting.
Waiting ==
  /\ todo \in Seq(RspNames) /\ Len(todo) <= Len(rsps)
  /\ \A i \in 1 .. Len(todo) : todo[i] = rsps[Len(rsps) - Len(todo) + i]

NoRsps(items) == \A x \in items : x.kind # "rsp" /\ x.kind # "code"
HeadersInv ==
  /\ stage \in {"modules", "tables"} => NoRsps(file.items)
  /\ stage \in Later =>
       /\ Waiting /\ ChainOf(HeadersOf(file.items), rsplast, rspseg)
       /\ Numbered(HeadersOf(file.items), CodeOf(file.items), Len(todo))
       /\ LiesAt(HeadersOf(file.items), CodeOf(file.items), Shift)
  /\ stage \in Ended => todo = <<>>

\* Steps that leave the image alone leave the headers.
LEMMA QuietHeaders == ImageInv /\ HeadersInv /\ Quiet => HeadersInv'
<1> SUFFICES ASSUME ImageInv, HeadersInv, Quiet PROVE HeadersInv'
  OBVIOUS
<1>1. CASE Left
  <2>1. stage' \notin Later /\ stage' \notin Ended /\ stage' \notin {"modules", "tables"}
    BY <1>1 DEF Left, Live, Later
  <2> QED
    BY <2>1 DEF HeadersInv
<1>2. CASE Stayed
  <2>1. Dsstart' = Dsstart /\ Fldstart' = Fldstart /\ TabEnd' = TabEnd
    BY <1>2, PlacesStay DEF Stayed
  <2>2. /\ stage' \in Later <=> stage \in Later
        /\ stage' \in Ended <=> stage \in Ended
        /\ stage' \in {"modules", "tables"} <=> stage \in {"modules", "tables"}
    BY <1>2 DEF Stayed, Later, Ended, FixedUp
  <2>3. file' = file /\ todo' = todo /\ rsplast' = rsplast /\ rspseg' = rspseg /\ sd' = sd
    BY DEF Quiet, image
  <2>4. Shift' = Shift
    BY <2>1, <2>3 DEF Shift
  <2>5. stage \in Later => rsps' = rsps
    BY DEF Quiet, Live
  <2>6. stage \in Later => \A n : Wanted(n)' = Wanted(n)
    BY <2>5 DEF Wanted
  <2>7. stage \in Later /\ Waiting => Waiting'
    BY <2>3, <2>5 DEF Waiting
  <2>8. stage \in Later /\ Numbered(HeadersOf(file.items), CodeOf(file.items), Len(todo))
          => Numbered(HeadersOf(file.items), CodeOf(file.items), Len(todo))'
    BY <2>3, <2>6 DEF Numbered
  <2>9. LiesAt(HeadersOf(file.items), CodeOf(file.items), Shift)
          => LiesAt(HeadersOf(file.items), CodeOf(file.items), Shift)'
    BY <2>3, <2>4 DEF LiesAt
  <2> QED
    BY <2>2, <2>3, <2>7, <2>8, <2>9 DEF HeadersInv
<1> QED
  BY <1>1, <1>2 DEF Quiet

\* The tables are no headers.
LEMMA TableHeaders ==
  ImageInv /\ HeadersInv /\ (Gensys \/ GenTables) => HeadersInv'
<1> SUFFICES ASSUME ImageInv, HeadersInv, Gensys \/ GenTables PROVE HeadersInv'
  OBVIOUS
<1>1. CASE Gensys
  <2>1. NoRsps(file'.items) /\ stage' = "modules"
    BY <1>1 DEF Gensys, NoRsps
  <2>2. stage' \notin Later /\ stage' \notin Ended
    BY <2>1 DEF Later, Ended, FixedUp
  <2> QED
    BY <2>1, <2>2 DEF HeadersInv, NoRsps
<1>2. CASE GenTables
  <2>1. CASE Stop
    <3>1. stage' = "failed"
      BY <2>1 DEF Stop
    <3>2. stage' \notin Later /\ stage' \notin Ended /\ stage' \notin {"modules", "tables"}
      BY <3>1 DEF Later, Ended, FixedUp
    <3> QED
      BY <3>2 DEF HeadersInv
  <2>2. CASE ~ Stop
    <3>1. /\ stage = "modules" /\ stage' = "tables"
          /\ \E n : file' = [file EXCEPT !.len = n, !.items = @ \cup ItemsOf(Tables(off.whole))]
      BY <1>2, <2>2 DEF GenTables
    <3>2. file'.items = file.items \cup ItemsOf(Tables(off.whole))
      BY <3>1 DEF ImageInv, ShapeInv
    <3>3. NoRsps(file.items)
      BY <3>1 DEF HeadersInv
    <3>4. \A x \in ItemsOf(Tables(off.whole)) : x.kind = "table"
      BY DEF ItemsOf
    <3>5. NoRsps(file'.items)
      BY <3>2, <3>3, <3>4 DEF NoRsps
    <3>6. stage' \notin Later /\ stage' \notin Ended
      BY <3>1 DEF Later, Ended, FixedUp
    <3> QED
      BY <3>5, <3>6 DEF HeadersInv, NoRsps
  <2> QED
    BY <2>1, <2>2
<1> QED
  BY <1>1, <1>2

\* Behind the tables nothing is there yet, and all RSPs are waiting.
LEMMA QmaHeaders == ImageInv /\ HeadersInv /\ GenQma => HeadersInv'
<1> SUFFICES ASSUME ImageInv, HeadersInv, GenQma PROVE HeadersInv'
  OBVIOUS
<1>0. ImageInv'
  BY GenQmaStep
<1>1. CASE Stop
  <2>1. stage' = "failed"
    BY <1>1 DEF Stop
  <2>2. stage' \notin Later /\ stage' \notin Ended /\ stage' \notin {"modules", "tables"}
    BY <2>1 DEF Later, Ended, FixedUp
  <2> QED
    BY <2>2 DEF HeadersInv
<1>2. CASE ~ Stop
  <2> PICK more :
        /\ \A x \in more : x.kind = "table"
        /\ \E n : file' = [file EXCEPT !.len = n, !.items = @ \cup more]
    <3> DEFINE start == Align(off.whole)
               buf == start + SatLen * SatItems
               more == {[kind |-> "table", name |-> "sat", at |-> file.len + start - off.whole],
                        [kind |-> "table", name |-> "qbuf", at |-> file.len + buf - off.whole]}
    <3>1. \E n : file' = [file EXCEPT !.len = n, !.items = @ \cup more]
      BY <1>2 DEF GenQma
    <3>2. \A x \in more : x.kind = "table"
      OBVIOUS
    <3> QED
      BY <3>1, <3>2
  <2>1. /\ stage = "tables" /\ stage' = "rsps" /\ todo' = rsps /\ rsps' = rsps /\ rsplast' = 0
        /\ rspseg' = Dsstart + sd'.daend /\ par' = par
    <3>1. DOMAIN sd = DOMAIN NoSysdat
      BY DEF ImageInv, ShapeInv
    <3>2. /\ stage = "tables" /\ stage' = "rsps" /\ todo' = rsps /\ rsps' = rsps /\ rsplast' = 0
          /\ par' = par
      BY <1>2 DEF GenQma
    <3> DEFINE start == Align(off.whole)
               buf == start + SatLen * SatItems
               daend == (Align(buf + par.qbuf) % Word) \div 16
    <3>3. /\ sd' = [sd EXCEPT !.qmastart = Dsstart + (start % Word) \div 16,
                              !.qmalen = par.qbuf \div 16,
                              !.satheader = SatItems - 1, !.satfirst = buf % Word,
                              !.daend = daend]
          /\ rspseg' = Dsstart + daend
      BY <1>2 DEF GenQma
    <3>4. "daend" \in DOMAIN sd
      BY <3>1 DEF NoSysdat
    <3> HIDE DEF start, buf, daend
    <3>5. sd'.daend = daend
      BY <3>3, <3>4
    <3> QED
      BY <3>2, <3>3, <3>5
  <2>2. file'.items = file.items \cup more
    BY DEF ImageInv, ShapeInv
  <2>3. HeadersOf(file'.items) = {} /\ CodeOf(file'.items) = {}
    <3>1. NoRsps(file.items)
      BY <2>1 DEF HeadersInv
    <3> QED
      BY <2>2, <3>1 DEF NoRsps, HeadersOf, CodeOf
  <2>4. stage' \in Later /\ stage' \notin Ended /\ stage' \notin {"modules", "tables"}
    BY <2>1 DEF Later, Ended, FixedUp
  <2>5. rspseg' \in Nat /\ rspseg' > 0
    <3>1. par \in Params
      BY <2>1 DEF ImageInv, UserInv
    <3>2. Dsstart \in Nat /\ Dsstart > 0 /\ TabEnd \in Nat
      <4>1. Dsstart = MpmSeg + CodeTotal /\ CodeTotal \in Nat /\ MpmSeg \in Nat /\ MpmSeg > 0
        BY <3>1, DataStart, ImageAssumption
      <4>2. Dsstart \in Nat /\ Dsstart > 0
        BY <4>1
      <4>3. TabEnd \in Nat
        BY <3>1, TablesInOrder
      <4> QED
        BY <4>2, <4>3
    <3>3. sd'.daend = (TabEnd % Word) \div 16
      <4>1. sd'.daend = (TabEnd' % Word) \div 16
        BY <1>0, <2>4 DEF ImageInv, SysdatInv
      <4> QED
        BY <2>1, <4>1, PlacesStay
    <3>4. TabEnd % Word \in Nat
      BY <3>2, InWord
    <3>5. sd'.daend \in Nat
      BY <3>3, <3>4
    <3> QED
      BY <2>1, <3>2, <3>5
  <2>6. rsps \in Seq(RspNames)
    BY DEF ImageInv, UserInv
  <2>7. Waiting'
    <3>1. \A i \in 1 .. Len(rsps) : Len(rsps) - Len(rsps) + i = i
      BY <2>6
    <3> QED
      BY <2>1, <2>6, <3>1 DEF Waiting
  <2>8. ChainOf(HeadersOf(file.items), rsplast, rspseg)'
    BY <2>1, <2>3, <2>5, NoChain
  <2>9. Numbered(HeadersOf(file.items), CodeOf(file.items), Len(todo))'
    <3>1. Len(rsps) + 1 .. Len(rsps) = {}
      BY <2>6
    <3>2. Wanted(Len(rsps))' = {}
      BY <2>1, <3>1 DEF Wanted
    <3> QED
      BY <2>1, <2>3, <3>2 DEF Numbered
  <2>10. LiesAt(HeadersOf(file.items), CodeOf(file.items), Shift)'
    BY <2>3 DEF LiesAt
  <2> QED
    BY <2>4, <2>7, <2>8, <2>9, <2>10 DEF HeadersInv
<1> QED
  BY <1>1, <1>2

\* The i-th copy of an RSP that is n-th from the end of the list.
NewHeader(r, n, i) ==
  Header(r, n, i, rspseg + i * Step(r), file.len + 16 * i * Step(r), CsOf(r, rspseg, i),
         IF i = 0 THEN rsplast ELSE rspseg + (i - 1) * Step(r))
NewHeaders(r, n) == {NewHeader(r, n, i) : i \in Copies(r)}

LEMMA StepsGrow ==
  ASSUME NEW s \in Nat, s > 0
  PROVE  /\ \A i \in Nat : i * s \in Nat
         /\ \A i, j \in Nat : i < j => i * s < j * s
<1>1. ASSUME NEW i \in Nat, NEW j \in Nat, i < j PROVE i * s < j * s
  <2> PICK d \in Nat : d = j - i - 1
    BY <1>1
  <2>1. j = i + 1 + d
    BY <1>1
  <2>2. d * s \in Nat
    OBVIOUS
  <2>3. j * s = i * s + s + d * s
    BY <2>1
  <2> QED
    BY <2>2, <2>3
<1> QED
  BY <1>1

\* m copies of the RSP that is transferred, one step after another.
LEMMA CopiesTaken ==
  ASSUME NEW r \in RspNames
  PROVE  \E m \in Nat : /\ Copies(r) = 0 .. m - 1 /\ Cardinality(Copies(r)) = m
                        /\ m > 0 => Step(r) > 0 /\ Rsp[r].ncs = m - 1
                        /\ Taken(r) \in Nat /\ m * Step(r) <= Taken(r)
<1>1. Step(r) \in Nat /\ Taken(r) \in Nat /\ Rsp[r].code \in Nat
  BY CopiesAre, ImageAssumption
<1>2. CASE Kind(r) = "refused"
  <2>1. Copies(r) = {} /\ Cardinality(Copies(r)) = 0
    BY <1>2, CopiesAre, FS_EmptySet
  <2>2. 0 .. 0 - 1 = {} /\ 0 * Step(r) = 0
    BY <1>1
  <2> QED
    BY <1>1, <2>1, <2>2
<1>3. CASE Kind(r) # "refused"
  <2>1. /\ Copies(r) = 0 .. Rsp[r].ncs /\ Cardinality(Copies(r)) = Rsp[r].ncs + 1 /\ Step(r) > 0
        /\ Rsp[r].ncs \in Int /\ Rsp[r].ncs >= -1
    BY <1>3, CopiesAre, ImageAssumption
  <2> PICK m \in Nat : m = Rsp[r].ncs + 1
    BY <2>1
  <2>2. Rsp[r].ncs = m - 1
    BY <2>1
  <2>3. PICK k \in Nat : k = m * Step(r)
    BY <1>1
  <2>4. Taken(r) = k + (IF Kind(r) = "pure" THEN Rsp[r].code ELSE 0)
    BY <2>1, <2>3 DEF Taken
  <2>5. m * Step(r) <= Taken(r)
    BY <1>1, <2>3, <2>4
  <2> QED
    BY <1>1, <2>1, <2>2, <2>5
<1> QED
  BY <1>2, <1>3

\* What is added to the file: the headers, and the code they are for.
LEMMA XferAdds ==
  ASSUME ImageInv, XferRsp
  PROVE  /\ Head(todo) \in RspNames /\ Len(todo) \in Nat /\ Len(todo) > 0
         /\ HeadersOf(file'.items) = HeadersOf(file.items) \cup NewHeaders(Head(todo), Len(todo))
         /\ CodeOf(file'.items) = CodeOf(file.items) \cup CodesOf(Head(todo), Len(todo))
<1> DEFINE r == Head(todo)
           n == Len(todo)
           seg(i) == rspseg + i * Step(r)
           header(i) == Header(r, n, i, seg(i), file.len + 16 * i * Step(r),
                               CsOf(r, rspseg, i), IF i = 0 THEN rsplast ELSE seg(i - 1))
<1>1. file' = [file EXCEPT !.len = @ + 16 * Taken(r),
                 !.items = @ \cup CodesOf(r, n) \cup {header(i) : i \in Copies(r)}]
  BY DEF XferRsp
<1>2. {header(i) : i \in Copies(r)} = NewHeaders(r, n)
  BY DEF NewHeaders, NewHeader
<1>3. todo \in Seq(RspNames) /\ todo # <<>>
  BY DEF ImageInv, RspsInv, XferRsp
<1>4. r \in RspNames /\ n \in Nat /\ n > 0
  BY <1>3
<1>5. \A x \in CodesOf(r, n) : x.kind = "code"
  BY DEF CodesOf, Code
<1>6. \A x \in NewHeaders(r, n) : x.kind = "rsp"
  BY DEF NewHeaders, NewHeader, Header
<1> HIDE DEF r, n, header
<1>7. file'.items = file.items \cup CodesOf(r, n) \cup NewHeaders(r, n)
  BY <1>1, <1>2 DEF ImageInv, ShapeInv
<1>8. HeadersOf(file'.items) = HeadersOf(file.items) \cup NewHeaders(r, n)
  BY <1>5, <1>6, <1>7 DEF HeadersOf
<1>9. CodeOf(file'.items) = CodeOf(file.items) \cup CodesOf(r, n)
  BY <1>5, <1>6, <1>7 DEF CodeOf
<1> QED
  BY <1>4, <1>8, <1>9 DEF r, n

LEMMA Difference ==
  \A q, l \in Int : \A k \in Nat :
    /\ q + k \in Int /\ l + 16 * k \in Int
    /\ (l + 16 * k) - l = 16 * ((q + k) - q)
  OBVIOUS

\* The place in the file that goes with a segment.
PlaceOf(g, l, z) == l = 16 * g - z
LEMMA PlaceBehind ==
  ASSUME NEW g \in Int, NEW l \in Int, NEW z \in Int, PlaceOf(g, l, z),
         NEW q \in Int, NEW a \in Int, a - l = 16 * (q - g)
  PROVE  a = 16 * q - z
  BY DEF PlaceOf
LEMMA PlaceIs ==
  ASSUME NEW g \in Int, NEW l \in Int, NEW b \in Int, NEW e \in Int, NEW f \in Int, NEW t \in Int,
         16 * (g - b - e) = l - f - t
  PROVE  16 * (b + e) - f - t \in Int /\ PlaceOf(g, l, 16 * (b + e) - f - t)
  BY DEF PlaceOf

\* The code is where the header of its copy says.
LEMMA CodeIsAt ==
  ASSUME NEW r \in RspNames, NEW n, NEW c \in CodesOf(r, n), rspseg \in Int, file.len \in Int
  PROVE  /\ c.num = n /\ c.copy \in Copies(r) /\ CsOf(r, rspseg, c.copy) \in Int
         /\ c.at \in Int /\ c.at - file.len = 16 * (CsOf(r, rspseg, c.copy) - rspseg)
<1>m. PICK m \in Nat : /\ Copies(r) = 0 .. m - 1 /\ Cardinality(Copies(r)) = m
                       /\ m > 0 => Rsp[r].ncs = m - 1
  BY CopiesTaken
<1>s. PICK s \in Nat : s = Step(r)
  BY CopiesAre
<1>d. PICK d \in Nat : d = Rsp[r].data
  BY ImageAssumption
<1>0. \A i \in Copies(r) : i \in Nat
  BY <1>m
<1>k. SUFFICES \E i \in Copies(r), k \in Nat :
        c.num = n /\ c.copy = i /\ c.at = file.len + 16 * k /\ CsOf(r, rspseg, i) = rspseg + k
  BY Difference
<1>1. CASE Kind(r) = "separate"
  <2>1. PICK i \in Copies(r) : c = Code(r, n, i, file.len + 16 * (i * Step(r) + Rsp[r].data))
    BY <1>1 DEF CodesOf
  <2>2. PICK p \in Nat : p = i * s
    BY <1>0
  <2>3. c.num = n /\ c.copy = i /\ c.at = file.len + 16 * (p + d)
    BY <1>s, <1>d, <2>1, <2>2 DEF Code
  <2>4. CsOf(r, rspseg, i) = rspseg + p + d
    BY <1>1, <1>s, <1>d, <2>2 DEF CsOf
  <2>5. p + d \in Nat /\ rspseg + p + d = rspseg + (p + d)
    OBVIOUS
  <2> QED
    BY <2>3, <2>4, <2>5
<1>2. CASE Kind(r) = "pure"
  <2>1. PICK i \in Copies(r) : c = Code(r, n, i, file.len + 16 * Cardinality(Copies(r)) * Step(r))
    BY <1>2 DEF CodesOf
  <2>2. Step(r) = d /\ 1 + Rsp[r].ncs = m
    BY <1>2, <1>m, <1>d DEF Step
  <2>3. PICK p \in Nat : p = m * d
    OBVIOUS
  <2>4. c.num = n /\ c.copy = i /\ c.at = file.len + 16 * p
    <3>1. c.num = n /\ c.copy = i /\ c.at = file.len + 16 * m * d
      BY <1>m, <2>1, <2>2 DEF Code
    <3>2. 16 * m * d = 16 * (m * d)
      OBVIOUS
    <3> QED
      BY <2>3, <3>1, <3>2
  <2>5. CsOf(r, rspseg, i) = rspseg + p
    BY <1>2, <1>d, <2>2, <2>3 DEF CsOf
  <2> QED
    BY <2>4, <2>5
<1>3. CASE Kind(r) # "separate" /\ Kind(r) # "pure"
  <2>1. PICK i \in Copies(r) : c = Code(r, n, i, file.len + 16 * i * Step(r))
    BY <1>3 DEF CodesOf
  <2>2. PICK p \in Nat : p = i * s
    BY <1>0
  <2>3. c.num = n /\ c.copy = i /\ c.at = file.len + 16 * p
    <3>1. c.num = n /\ c.copy = i /\ c.at = file.len + 16 * i * s
      BY <1>s, <2>1 DEF Code
    <3>2. 16 * i * s = 16 * (i * s)
      BY <1>0
    <3> QED
      BY <2>2, <3>1, <3>2
  <2>4. CsOf(r, rspseg, i) = rspseg + p
    BY <1>3, <1>s, <2>2 DEF CsOf
  <2> QED
    BY <2>3, <2>4
<1> QED
  BY <1>1, <1>2, <1>3

\* One RSP fewer is waiting.
LEMMA OneLess ==
  ASSUME rsps \in Seq(RspNames), Waiting, NEW n \in Nat, n = Len(todo), n > 0,
         rsps' = rsps, todo' = Tail(todo)
  PROVE  /\ Waiting' /\ Len(todo') = n - 1
         /\ Wanted(n - 1)' = Wanted(n) \cup {<<n, i>> : i \in Copies(Head(todo))}
<1>1. PICK l \in Nat : l = Len(rsps) /\ n <= l
  BY DEF Waiting
<1>2. todo \in Seq(RspNames) /\ \A i \in 1 .. n : todo[i] = rsps[l - n + i]
  BY <1>1 DEF Waiting
<1>3. /\ Tail(todo) \in Seq(RspNames) /\ Len(Tail(todo)) = n - 1
      /\ \A i \in 1 .. n - 1 : Tail(todo)[i] = todo[i + 1]
      /\ Head(todo) = todo[1]
  BY <1>1, <1>2
<1>4. Waiting'
  <2>1. ASSUME NEW i \in 1 .. n - 1 PROVE Tail(todo)[i] = rsps[l - (n - 1) + i]
    <3>1. i + 1 \in 1 .. n /\ l - n + (i + 1) = l - (n - 1) + i
      BY <1>1
    <3> QED
      BY <1>2, <1>3, <3>1
  <2> QED
    BY <1>1, <1>3, <2>1 DEF Waiting
<1>5. Head(todo) = rsps[l + 1 - n]
  <2>1. 1 \in 1 .. n /\ l - n + 1 = l + 1 - n
    BY <1>1
  <2> QED
    BY <1>2, <1>3, <2>1
<1>6. Wanted(n - 1)' = Wanted(n) \cup {<<n, i>> : i \in Copies(Head(todo))}
  <2>1. (n - 1) + 1 .. l = (n + 1 .. l) \cup {n}
    BY <1>1
  <2> DEFINE of(num) == {<<num, i>> : i \in Copies(rsps[l + 1 - num])}
  <2>2. Wanted(n - 1)' = UNION {of(num) : num \in (n - 1) + 1 .. l}
    BY <1>1 DEF Wanted
  <2>3. Wanted(n) = UNION {of(num) : num \in n + 1 .. l}
    BY <1>1 DEF Wanted
  <2>4. of(n) = {<<n, i>> : i \in Copies(Head(todo))}
    BY <1>5
  <2> HIDE DEF of
  <2> QED
    BY <2>1, <2>2, <2>3, <2>4
<1> QED
  BY <1>1, <1>3, <1>4, <1>6

\* xfer_rsp: its headers are linked to those before, and its code is where they say.
LEMMA XferHeaders == ImageInv /\ HeadersInv /\ XferRsp => HeadersInv'
<1> SUFFICES ASSUME ImageInv, HeadersInv, XferRsp PROVE HeadersInv'
  OBVIOUS
<1>1. /\ stage = "rsps" /\ stage' = stage /\ par' = par /\ rsps' = rsps /\ sd' = sd
      /\ todo # <<>> /\ todo' = Tail(todo) /\ rspseg' = rspseg + Taken(Head(todo))
      /\ rsplast' = IF Copies(Head(todo)) = {} THEN rsplast
                    ELSE rspseg + Rsp[Head(todo)].ncs * Step(Head(todo))
  BY DEF XferRsp
<1>2. stage \in Later /\ stage' \in Later /\ stage' \notin Ended
      /\ stage' \notin {"modules", "tables"}
  BY <1>1 DEF Later, Ended, FixedUp
<1> PICK r \in RspNames, n \in Nat :
      /\ r = Head(todo) /\ n = Len(todo) /\ n > 0
      /\ HeadersOf(file'.items) = HeadersOf(file.items) \cup NewHeaders(r, n)
      /\ CodeOf(file'.items) = CodeOf(file.items) \cup CodesOf(r, n)
  BY XferAdds
<1> DEFINE H == HeadersOf(file.items)
           C == CodeOf(file.items)
<1>3. Waiting /\ ChainOf(H, rsplast, rspseg) /\ Numbered(H, C, n) /\ LiesAt(H, C, Shift)
  BY <1>2 DEF HeadersInv
<1> HIDE DEF H, C
<1>4. /\ Waiting' /\ Len(todo') = n - 1
      /\ Wanted(n - 1)' = Wanted(n) \cup {<<n, i>> : i \in Copies(r)}
  <2>1. rsps \in Seq(RspNames)
    BY DEF ImageInv, UserInv
  <2> QED
    BY <1>1, <1>3, <2>1, OneLess
<1>m. PICK m \in Nat : /\ Copies(r) = 0 .. m - 1
                       /\ m > 0 => Step(r) > 0 /\ Rsp[r].ncs = m - 1
                       /\ Taken(r) \in Nat /\ m * Step(r) <= Taken(r)
  BY CopiesTaken
<1>s. PICK s \in Nat : s = Step(r)
  BY CopiesAre
<1>5. rspseg \in Nat /\ rspseg > 0
  BY <1>3 DEF ChainOf
<1> DEFINE gs == [i \in 0 .. m - 1 |-> NewHeader(r, n, i)]
<1>6. \A i \in 0 .. m - 1 : gs[i] = NewHeader(r, n, i)
  OBVIOUS
<1>7. NewHeaders(r, n) = RunOf(gs, m)
  BY <1>6, <1>m DEF NewHeaders, RunOf
<1> HIDE DEF gs
<1>8. ASSUME NEW i \in 0 .. m - 1
      PROVE  /\ gs[i].ds = rspseg + i * s /\ gs[i].num = n /\ gs[i].copy = i
             /\ gs[i].link = IF i = 0 THEN rsplast ELSE rspseg + (i - 1) * s
             /\ gs[i].at = file.len + 16 * i * s /\ gs[i].cs = CsOf(r, rspseg, i)
  <2>1. gs[i] = Header(r, n, i, rspseg + i * s, file.len + 16 * i * s, CsOf(r, rspseg, i),
                       IF i = 0 THEN rsplast ELSE rspseg + (i - 1) * s)
    BY <1>6, <1>s DEF NewHeader
  <2> QED
    BY <2>1 DEF Header
<1>9. ASSUME NEW i \in 0 .. m - 1
      PROVE  /\ s > 0 /\ i * s \in Nat /\ m * s \in Nat /\ i * s < m * s
             /\ \A j \in 0 .. m - 1 : i < j => j * s \in Nat /\ i * s < j * s
  <2>1. s > 0 /\ i \in Nat /\ i < m
    BY <1>m, <1>s
  <2>2. \A j \in 0 .. m - 1 : j \in Nat
    OBVIOUS
  <2> QED
    BY <2>1, <2>2, StepsGrow
<1>10. Added(gs, m, rsplast, rspseg, rspseg + Taken(r))
  <2>1. ASSUME NEW i \in 0 .. m - 1
        PROVE  gs[i].ds \in Nat /\ gs[i].ds >= rspseg /\ gs[i].ds < rspseg + Taken(r)
    <3>1. i * s \in Nat /\ m * s \in Nat /\ i * s < m * s
      BY <1>9
    <3> PICK k \in Nat : k = i * s /\ k < m * s
      BY <3>1
    <3> PICK p \in Nat : p = m * s
      BY <3>1
    <3>2. gs[i].ds = rspseg + k /\ k < p /\ p <= Taken(r) /\ Taken(r) \in Nat
      BY <1>8, <1>m, <1>s
    <3> QED
      BY <1>5, <3>2
  <2>2. ASSUME NEW i \in 0 .. m - 1, NEW j \in 0 .. m - 1, i < j PROVE gs[i].ds < gs[j].ds
    <3>1. i * s \in Nat /\ j * s \in Nat /\ i * s < j * s
      BY <1>9, <2>2
    <3> QED
      BY <1>5, <1>8, <3>1
  <2>3. ASSUME NEW i \in 0 .. m - 1
        PROVE  gs[i].link = IF i = 0 THEN rsplast ELSE gs[i - 1].ds
    <3>1. i # 0 => i - 1 \in 0 .. m - 1
      OBVIOUS
    <3> QED
      BY <1>8, <3>1
  <2> QED
    BY <2>1, <2>2, <2>3 DEF Added
<1>11. rsplast' = LastOf(gs, m, rsplast)
  <2>1. CASE m = 0
    <3>1. Copies(r) = {}
      BY <1>m, <2>1
    <3> QED
      BY <1>1, <2>1, <3>1 DEF LastOf
  <2>2. CASE m # 0
    <3>1. m - 1 \in 0 .. m - 1 /\ Rsp[r].ncs = m - 1
      BY <1>m, <2>2
    <3>2. Copies(r) # {}
      BY <1>m, <3>1
    <3>3. gs[m - 1].ds = rspseg + (m - 1) * s
      BY <1>8, <3>1
    <3> QED
      BY <1>1, <1>s, <2>2, <3>1, <3>2, <3>3 DEF LastOf
  <2> QED
    BY <2>1, <2>2
<1>12. ChainOf(HeadersOf(file.items), rsplast, rspseg)'
  <2>b. PICK b \in Nat : b = rspseg + Taken(r) /\ rspseg <= b
    BY <1>5, <1>m
  <2>1. Added(gs, m, rsplast, rspseg, b) /\ rspseg <= b
    BY <1>10, <2>b
  <2>2. ChainOf(H \cup RunOf(gs, m), LastOf(gs, m, rsplast), b)
    <3>1. ChainOf(H, rsplast, rspseg)
      BY <1>3
    <3> QED
      BY <2>1, <3>1, ChainGrows
  <2> QED
    BY <1>1, <1>7, <1>11, <2>b, <2>2 DEF H
<1>13. /\ rspseg \in Int /\ file.len \in Int /\ Shift \in Int
       /\ PlaceOf(rspseg, file.len, Shift)
  <2>1. /\ rspseg \in Int /\ file.len \in Int
        /\ 16 * (rspseg - Dsstart - sd.daend) = file.len - Fldstart - TabEnd
    BY <1>2 DEF ImageInv, RspsInv
  <2>2. Dsstart \in Int /\ Fldstart \in Int /\ TabEnd \in Int /\ sd.daend \in Int
    BY <1>2, SegmentsAre
  <2>3. /\ 16 * (Dsstart + sd.daend) - Fldstart - TabEnd \in Int
        /\ PlaceOf(rspseg, file.len, 16 * (Dsstart + sd.daend) - Fldstart - TabEnd)
    BY <2>1, <2>2, PlaceIs
  <2> QED
    BY <2>1, <2>3 DEF Shift
<1>14. Shift' = Shift
  <2>1. Dsstart' = Dsstart /\ Fldstart' = Fldstart /\ TabEnd' = TabEnd
    BY <1>1, PlacesStay
  <2> QED
    BY <1>1, <2>1 DEF Shift
<1>15. ASSUME NEW c \in CodesOf(r, n)
       PROVE  /\ c.num = n /\ c.copy \in 0 .. m - 1 /\ CsOf(r, rspseg, c.copy) \in Int
              /\ c.at = 16 * CsOf(r, rspseg, c.copy) - Shift
  <2>1. /\ c.num = n /\ c.copy \in Copies(r) /\ CsOf(r, rspseg, c.copy) \in Int
        /\ c.at \in Int /\ c.at - file.len = 16 * (CsOf(r, rspseg, c.copy) - rspseg)
    BY <1>13, CodeIsAt
  <2>2. c.at = 16 * CsOf(r, rspseg, c.copy) - Shift
    BY <1>13, <2>1, PlaceBehind
  <2> QED
    BY <1>m, <2>1, <2>2
<1>16. /\ {<<x.num, x.copy>> : x \in H} = Wanted(n)
       /\ \A x, y \in H : x.num = y.num /\ x.copy = y.copy => x = y
       /\ \A x \in H \cup C : x.num \in Nat /\ x.num > n
  BY <1>3 DEF Numbered
<1>17. Numbered(HeadersOf(file.items), CodeOf(file.items), Len(todo))'
  <2> DEFINE N == NewHeaders(r, n)
             D == CodesOf(r, n)
  <2>1. \A x \in N : x.num = n /\ x.copy \in 0 .. m - 1 /\ x = gs[x.copy]
    <3>1. ASSUME NEW x \in N PROVE x.num = n /\ x.copy \in 0 .. m - 1 /\ x = gs[x.copy]
      <4>1. PICK i \in 0 .. m - 1 : x = gs[i]
        BY <1>7 DEF RunOf
      <4>2. x.num = n /\ x.copy = i
        BY <1>8, <4>1
      <4> QED
        BY <4>1, <4>2
    <3> QED
      BY <3>1
  <2>2. {<<x.num, x.copy>> : x \in N} = {<<n, i>> : i \in 0 .. m - 1}
    <3>1. ASSUME NEW i \in 0 .. m - 1 PROVE \E x \in N : x.num = n /\ x.copy = i
      <4>1. gs[i] \in N /\ gs[i].num = n /\ gs[i].copy = i
        BY <1>7, <1>8 DEF RunOf
      <4> QED
        BY <4>1
    <3> HIDE DEF N
    <3> QED
      BY <2>1, <3>1
  <2>3. \A x \in D : x.num = n
    BY <1>15
  <2> HIDE DEF N, D
  <2>4. {<<x.num, x.copy>> : x \in H \cup N} = Wanted(n - 1)'
    <3>1. {<<x.num, x.copy>> : x \in H \cup N}
            = {<<x.num, x.copy>> : x \in H} \cup {<<x.num, x.copy>> : x \in N}
      OBVIOUS
    <3> QED
      BY <1>4, <1>16, <1>m, <2>2, <3>1
  <2>5. ASSUME NEW x \in H \cup N, NEW y \in H \cup N, x.num = y.num, x.copy = y.copy
        PROVE  x = y
    <3>1. CASE x \in H /\ y \in H
      BY <1>16, <2>5, <3>1
    <3>2. CASE x \in N /\ y \in N
      BY <2>1, <2>5, <3>2
    <3>3. \A z \in H : z.num # n
      <4>1. \A z \in H : z.num \in Nat /\ z.num > n
        BY <1>16
      <4> QED
        BY <4>1
    <3> QED
      BY <2>1, <2>5, <3>1, <3>2, <3>3
  <2>6. ASSUME NEW x \in (H \cup N) \cup (C \cup D) PROVE x.num \in Nat /\ x.num > n - 1
    <3>1. CASE x \in H \cup C
      <4>1. x.num \in Nat /\ x.num > n
        BY <1>16, <3>1
      <4> QED
        BY <4>1
    <3>2. CASE x \in N \cup D
      <4>1. x.num = n
        BY <2>1, <2>3, <3>2
      <4> QED
        BY <4>1
    <3> QED
      BY <3>1, <3>2
  <2>7. HeadersOf(file'.items) = H \cup N /\ CodeOf(file'.items) = C \cup D
    BY DEF H, C, N, D
  <2> QED
    BY <1>4, <2>4, <2>5, <2>6, <2>7 DEF Numbered
<1>18. LiesAt(HeadersOf(file.items), CodeOf(file.items), Shift)'
  <2> DEFINE N == NewHeaders(r, n)
             D == CodesOf(r, n)
  <2>1. /\ \A x \in H : x.at = 16 * x.ds - Shift
        /\ \A x \in H : \A c \in C :
             c.num = x.num /\ c.copy = x.copy => x.cs \in Int /\ c.at = 16 * x.cs - Shift
    BY <1>3 DEF LiesAt
  <2>2. \A z \in H \cup C : z.num # n
    <3>1. \A z \in H \cup C : z.num \in Nat /\ z.num > n
      BY <1>16
    <3> QED
      BY <3>1
  <2>3. ASSUME NEW x \in N
        PROVE  /\ x.num = n /\ x.copy \in 0 .. m - 1 /\ x.cs = CsOf(r, rspseg, x.copy)
               /\ x.at = 16 * x.ds - Shift
    <3>1. PICK i \in 0 .. m - 1 : x = gs[i]
      BY <1>7 DEF RunOf
    <3>2. /\ x.num = n /\ x.copy = i /\ x.cs = CsOf(r, rspseg, i)
          /\ x.ds = rspseg + i * s /\ x.at = file.len + 16 * i * s
      BY <1>8, <3>1
    <3>3. i * s \in Nat /\ 16 * i * s = 16 * (i * s)
      OBVIOUS
    <3> PICK k \in Nat : k = i * s
      BY <3>3
    <3>4. x.ds = rspseg + k /\ x.at = file.len + 16 * k
      BY <3>2, <3>3
    <3>5. x.ds \in Int /\ x.at \in Int /\ x.at - file.len = 16 * (x.ds - rspseg)
      <4> HIDE DEF N
      <4>1. /\ rspseg + k \in Int /\ file.len + 16 * k \in Int
            /\ (file.len + 16 * k) - file.len = 16 * ((rspseg + k) - rspseg)
        BY <1>13, Difference
      <4> QED
        BY <3>4, <4>1
    <3>6. x.at = 16 * x.ds - Shift
      BY <1>13, <3>5, PlaceBehind
    <3> QED
      BY <3>2, <3>6
  <2>4. \A c \in D : /\ c.num = n /\ CsOf(r, rspseg, c.copy) \in Int
                     /\ c.at = 16 * CsOf(r, rspseg, c.copy) - Shift
    BY <1>15
  <2> HIDE DEF N, D
  <2>5. \A x \in H \cup N : x.at = 16 * x.ds - Shift
    BY <2>1, <2>3
  <2>6. ASSUME NEW x \in H \cup N, NEW c \in C \cup D, c.num = x.num, c.copy = x.copy
        PROVE  x.cs \in Int /\ c.at = 16 * x.cs - Shift
    <3>1. CASE x \in H /\ c \in C
      BY <2>1, <2>6, <3>1
    <3>2. CASE x \in N /\ c \in D
      <4>1. x.cs = CsOf(r, rspseg, c.copy)
        BY <2>3, <2>6, <3>2
      <4> QED
        BY <2>4, <3>2, <4>1
    <3> QED
      BY <2>2, <2>3, <2>4, <2>6, <3>1, <3>2
  <2>7. HeadersOf(file'.items) = H \cup N /\ CodeOf(file'.items) = C \cup D
    BY DEF H, C, N, D
  <2> QED
    BY <1>14, <2>5, <2>6, <2>7 DEF LiesAt
<1> QED
  BY <1>2, <1>4, <1>12, <1>17, <1>18 DEF HeadersInv

\* The end of gentables, and fixups: the headers stay.
LEMMA EndHeaders == ImageInv /\ HeadersInv /\ (Reserve \/ FixImage) => HeadersInv'
<1> SUFFICES ASSUME ImageInv, HeadersInv, Reserve \/ FixImage PROVE HeadersInv'
  OBVIOUS
<1>1. /\ stage \in Later /\ stage' \in Ended /\ stage' \in Later
      /\ stage' \notin {"modules", "tables"}
      /\ par' = par /\ rsps' = rsps /\ todo' = todo /\ rsplast' = rsplast /\ rspseg' = rspseg
      /\ (stage = "rsps" /\ todo = <<>>) \/ stage \in Ended
  BY DEF Reserve, FixImage, Later, Ended, FixedUp
<1>2. sd'.daend = sd.daend
  <2>1. CASE Reserve
    <3>1. \E a, b, c, d, e : sd' = [sd EXCEPT !.rspseg = a, !.rsvd = b, !.xtalloc = c,
                                               !.endseg = d, !.dltotal = e]
      BY <2>1 DEF Reserve
    <3> QED
      BY <3>1
  <2>2. CASE FixImage
    BY <2>2 DEF FixImage
  <2> QED
    BY <2>1, <2>2
<1>3. HeadersOf(file'.items) = HeadersOf(file.items) /\ CodeOf(file'.items) = CodeOf(file.items)
  <2>1. CASE Reserve
    BY <2>1 DEF Reserve
  <2>2. CASE FixImage
    <3> DEFINE fixed(x) == [kind |-> "fixed", name |-> x.name, at |-> x.at,
                            ds |-> (CHOOSE f \in file.fixes : f.at = x.at + 6).to]
               new(x) == IF x.kind = "module" THEN fixed(x) ELSE x
    <3>1. file' = [file EXCEPT !.items = {new(x) : x \in file.items}]
      BY <2>2 DEF FixImage
    <3>2. file'.items = {new(x) : x \in file.items}
      BY <3>1 DEF ImageInv, ShapeInv
    <3>3. \A x : x.kind = "module" => new(x).kind = "fixed"
      OBVIOUS
    <3>4. \A x : x.kind # "module" => new(x) = x
      OBVIOUS
    <3> HIDE DEF new
    <3> QED
      BY <3>2, <3>3, <3>4 DEF HeadersOf, CodeOf
  <2> QED
    BY <2>1, <2>2
<1>4. Shift' = Shift
  <2>1. Dsstart' = Dsstart /\ Fldstart' = Fldstart /\ TabEnd' = TabEnd
    BY <1>1, PlacesStay
  <2> QED
    BY <1>2, <2>1 DEF Shift
<1>5. Waiting'
  BY <1>1 DEF HeadersInv, Waiting
<1>6. todo' = <<>>
  BY <1>1 DEF HeadersInv
<1>7. ChainOf(HeadersOf(file.items), rsplast, rspseg)'
  BY <1>1, <1>3 DEF HeadersInv
<1>8. Numbered(HeadersOf(file.items), CodeOf(file.items), Len(todo))'
  <2>1. \A n : Wanted(n)' = Wanted(n)
    BY <1>1 DEF Wanted
  <2>2. Numbered(HeadersOf(file.items), CodeOf(file.items), Len(todo))
    BY <1>1 DEF HeadersInv
  <2> QED
    BY <1>1, <1>3, <2>1, <2>2 DEF Numbered
<1>9. LiesAt(HeadersOf(file.items), CodeOf(file.items), Shift)'
  BY <1>1, <1>3, <1>4 DEF HeadersInv, LiesAt
<1> QED
  BY <1>1, <1>5, <1>6, <1>7, <1>8, <1>9 DEF HeadersInv

LEMMA HeadersStep == ImageInv /\ HeadersInv /\ [ImageNext]_ivars => HeadersInv'
  BY StepCases, QuietHeaders, TableHeaders, QmaHeaders, XferHeaders, EndHeaders DEF Generates

LEMMA InitHeaders == ImageInit => HeadersInv
<1> SUFFICES ASSUME ImageInit PROVE HeadersInv
  OBVIOUS
<1>1. stage \notin {"modules", "tables"} /\ stage \notin Later /\ stage \notin Ended
  BY DEF ImageInit, Later, Ended, FixedUp
<1> QED
  BY <1>1 DEF HeadersInv

\* The kernel finds the RSPs where they are.
LEMMA InvRsps == ImageInv /\ HeadersInv /\ OverflowCaught => RspsFound
<1> SUFFICES ASSUME ImageInv, HeadersInv, OverflowCaught, Written PROVE RspsFound
  BY DEF RspsFound
<1>1. stage \in Later /\ stage \in Ended
  BY DEF Written, Later, Ended, FixedUp
<1>2. /\ todo = <<>> /\ ChainOf(Headers, rsplast, rspseg)
      /\ Numbered(Headers, CodeOf(file.items), Len(todo))
      /\ LiesAt(Headers, CodeOf(file.items), Shift)
  BY <1>1 DEF HeadersInv, HeadersOf, Headers
<1>3. sd.rspseg = rsplast
  BY <1>1 DEF ImageInv, EndInv
<1>4. Shift \in Int /\ Shift = 16 * MpmSeg - SecSiz /\ MpmSeg \in Nat
  <2>1. par \in Params /\ Dsstart \in Nat /\ Fldstart \in Nat /\ TabEnd \in Nat /\ sd.daend \in Nat
    BY <1>1, SegmentsAre
  <2>2. CodeTotal \in Nat /\ Dsstart = MpmSeg + CodeTotal /\ Fldstart = SecSiz + 16 * CodeTotal
        /\ MpmSeg \in Nat
    BY <2>1, DataStart, ImageAssumption
  <2>3. 16 * sd.daend = TabEnd
    BY NothingWraps
  <2> QED
    BY <2>1, <2>2, <2>3 DEF Shift, SecSiz
<1>5. ASSUME NEW q \in Int PROVE SegAt(16 * q - Shift) = q
  <2> PICK k \in Int : k = q - MpmSeg
    BY <1>4
  <2>1. (16 * q - Shift) - SecSiz = 16 * k
    BY <1>4 DEF SecSiz
  <2>2. (16 * k) \div 16 = k
    OBVIOUS
  <2>3. SegAt(16 * q - Shift) = MpmSeg + (16 * k) \div 16
    BY <2>1 DEF SegAt
  <2> QED
    BY <1>4, <2>2, <2>3
<1>6. \A x \in Headers : x.ds \in Nat /\ x.ds = SegAt(x.at)
  <2>1. \A x \in Headers : x.ds \in Nat
    <3> PICK n, hs : n \in Nat /\ InOrder(hs, n, Headers, rspseg)
      BY <1>2 DEF ChainOf
    <3> QED
      BY DEF InOrder
  <2>2. \A x \in Headers : x.at = 16 * x.ds - Shift
    BY <1>2 DEF LiesAt
  <2> QED
    BY <1>5, <2>1, <2>2
<1>7. ASSUME NEW x \in Headers, NEW c \in file.items, c.kind = "code",
             c.num = x.num, c.copy = x.copy
      PROVE  x.cs = SegAt(c.at)
  <2>1. c \in CodeOf(file.items)
    BY <1>7 DEF CodeOf
  <2>2. x.cs \in Int /\ c.at = 16 * x.cs - Shift
    BY <1>2, <1>7, <2>1 DEF LiesAt
  <2> QED
    BY <1>5, <2>2
<1>8. {<<x.num, x.copy>> : x \in Headers} = Expected
      /\ \A x, y \in Headers : x.num = y.num /\ x.copy = y.copy => x = y
  <2>1. Len(todo) = 0 /\ 0 + 1 = 1
    BY <1>2
  <2>2. Wanted(0) = Expected
    BY <2>1 DEF Wanted, Expected
  <2> QED
    BY <1>2, <2>1, <2>2 DEF Numbered
<1>9. /\ IsFiniteSet(Headers) /\ Cardinality(Headers) \in Nat
      /\ \E f : Follows(f, Cardinality(Headers), Headers, rsplast)
      /\ \A f : Follows(f, Cardinality(Headers), Headers, rsplast)
                  => FoundBy(f, Cardinality(Headers), Headers)
  BY <1>2, ChainFollowed
<1>10. Cardinality(Headers) = Cardinality(Expected)
  <2> DEFINE b == [x \in Headers |-> <<x.num, x.copy>>]
  <2>1. b \in Bijection(Headers, Expected)
    BY <1>8 DEF Bijection, Injection, Surjection, IsInjective
  <2>2. ExistsBijection(Headers, Expected)
    BY <2>1 DEF ExistsBijection
  <2> QED
    BY <1>9, <2>2, FS_Bijection
<1> DEFINE There(seg) == {x \in Headers : SegAt(x.at) = seg}
           Good(f) == f = [k \in 0 .. Cardinality(Headers) |->
                             IF k = 0 THEN sd.rspseg ELSE (CHOOSE x \in There(f[k - 1]) : TRUE).link]
           From == CHOOSE f : Good(f)
<1>11. \A seg : There(seg) = AtSeg(Headers, seg)
  BY <1>6 DEF AtSeg
<1>12. \A f : Good(f) <=> Follows(f, Cardinality(Headers), Headers, rsplast)
  BY <1>3, <1>11 DEF Follows
<1>13. FoundBy(From, Cardinality(Headers), Headers)
  <2>1. \E f : Good(f)
    BY <1>9, <1>12
  <2> HIDE DEF Good
  <2>2. Good(From)
    BY <2>1
  <2> QED
    BY <1>9, <1>12, <2>2
<1>14. /\ \A k \in 0 .. Cardinality(Headers) - 1 : Cardinality(There(From[k])) = 1
       /\ {From[k] : k \in 0 .. Cardinality(Headers) - 1} = {x.ds : x \in Headers}
       /\ From[Cardinality(Headers)] = 0
  <2> HIDE DEF There, From
  <2> QED
    BY <1>11, <1>13 DEF FoundBy
<1>15. {x.ds : x \in Headers} = {SegAt(x.at) : x \in Headers}
  BY <1>6
<1>16. /\ \A k \in 0 .. Cardinality(Headers) - 1 : Cardinality(There(From[k])) = 1
       /\ {From[k] : k \in 0 .. Cardinality(Headers) - 1} = {SegAt(x.at) : x \in Headers}
       /\ From[Cardinality(Headers)] = 0
  BY <1>14, <1>15
<1>17. ASSUME NEW x \in Headers
       PROVE  /\ x.ds = SegAt(x.at)
              /\ \A c \in file.items :
                   c.kind = "code" /\ c.num = x.num /\ c.copy = x.copy => x.cs = SegAt(c.at)
  BY <1>6, <1>7
<1>18. {<<x.num, x.copy>> : x \in Headers} = Expected
  BY <1>8
<1> HIDE DEF There
<1> QED
  BY <1>10, <1>16, <1>17, <1>18 DEF RspsFound, There

\* xfer_rsp and the links from sd_rspseg: for any list of RSPs and any groups and
\* numbers of copies, the kernel comes once to every copy that was asked for and finds
\* its code, unless an overflow of the system data segment was not noticed.
THEOREM RspsKept == ImageSpec => [](OverflowCaught => RspsFound)
<1>1. ImageInv /\ HeadersInv => (OverflowCaught => RspsFound)
  BY InvRsps
<1> QED
  BY <1>1, InitImage, ImageStep, InitHeaders, HeadersStep, PTL DEF ImageSpec

\* The tables fit in the segment that their offsets are in.
TablesFit == TabEnd < Word

LEMMA FitIsCaught == ImageInv /\ TablesFit => OverflowCaught
<1> SUFFICES ASSUME ImageInv, TablesFit, Written PROVE 16 * sd.daend = off.whole
  BY DEF OverflowCaught
<1>1. stage \in Later /\ off.whole = TabEnd /\ sd.daend = (TabEnd % Word) \div 16
  BY DEF ImageInv, OffsetInv, SysdatInv, Written, Later, Ended, FixedUp
<1>2. TabEnd \in Nat /\ par \in Params
  BY <1>1, SegmentsAre
<1>3. TabEnd % Word = TabEnd
  BY <1>2, InWord DEF TablesFit
<1>4. 16 * (TabEnd \div 16) = TabEnd
  BY <1>2, TablesInOrder
<1> QED
  BY <1>1, <1>3, <1>4

\* genc3.c, genc1.c: whenever the tables that the parameters ask for fit in the
\* segment, the image is what its pages say, and the kernel finds the RSPs.
THEOREM FittingKept == ImageSpec => [](TablesFit => ImageSound /\ RspsFound)
<1>1. ImageInv /\ HeadersInv => (TablesFit => ImageSound /\ RspsFound)
  BY FitIsCaught, InvTables, InvCovers, InvRsps DEF ImageSound
<1> QED
  BY <1>1, InitImage, ImageStep, InitHeaders, HeadersStep, PTL DEF ImageSpec

----------------------------------------------------------------------------
(***************************************************************************)
(* The text store.                                                          *)
(***************************************************************************)

Lists == INSTANCE ProcessListsProofs WITH Proc <- Descs

----------------------------------------------------------------------------
(* The inductive invariant: there is a sequence of descriptors for each      *)
(* buffer that its links, its head, its tail and its current descriptor are  *)
(* those of, and the sequences share out the descriptors in use.             *)

Link == Descs \cup {Null}
Texts == Strings \cup {<<>>}
Record == [prev : Link, next : Link, text : Texts, room : Nat]

Heap(ds) ==
  /\ DOMAIN ds \subseteq Descs /\ ds \in [DOMAIN ds -> Record]
  /\ \A d \in DOMAIN ds : Len(ds[d].text) <= ds[d].room

PrevOf(c, i) == IF i = 1 THEN Null ELSE c[i - 1]
NextOf(c, i) == IF i = Len(c) THEN Null ELSE c[i + 1]

Linked(ds, c) ==
  /\ c \in Seq(Descs) /\ Len(c) > 0
  /\ \A i \in 1 .. Len(c) : c[i] \in DOMAIN ds
  /\ \A i, j \in 1 .. Len(c) : c[i] = c[j] => i = j
  /\ \A i \in 1 .. Len(c) : ds[c[i]].prev = PrevOf(c, i) /\ ds[c[i]].next = NextOf(c, i)

Placed(m, c) ==
  /\ m.curline \in 1 .. Len(c)
  /\ m = [head |-> c[1], tail |-> c[Len(c)], cur |-> c[m.curline],
          tailline |-> Len(c), curline |-> m.curline]

In(d, c) == \E i \in 1 .. Len(c) : c[i] = d

Chained(ds, mb, c) ==
  /\ Heap(ds)
  /\ mb = [b \in Bufs |-> mb[b]] /\ c \in [Bufs -> Seq(Descs)]
  /\ \A b \in Bufs : Linked(ds, c[b]) /\ Placed(mb[b], c[b])
  /\ \A d \in DOMAIN ds : \E b \in Bufs : In(d, c[b])
  /\ \A a, b \in Bufs : \A d : In(d, c[a]) /\ In(d, c[b]) => a = b

IInv == \E c \in [Bufs -> Seq(Descs)] : Chained(desc, mbuf, c)

----------------------------------------------------------------------------
(* Going along the links.                                                   *)

\* From line i, n links lead to line i + n.
LEMMA WalkFinds ==
  ASSUME NEW c, Linked(desc, c), NEW i \in 1 .. Len(c), NEW n \in Int, i + n \in 1 .. Len(c)
  PROVE  Walk(c[i], n) = c[i + n]
<1> PICK z \in Nat : z = Distance(0, n)
  BY DEF Distance
<1> DEFINE d == c[i]
           Good(at) == at = [k \in 0 .. Distance(0, n) |->
             IF k = 0 THEN d ELSE IF n > 0 THEN desc[at[k - 1]].next ELSE desc[at[k - 1]].prev]
<1>1. Len(c) \in Nat
  BY DEF Linked
<1>2. z = IF n > 0 THEN n ELSE 0 - n
  BY DEF Distance
<1> DEFINE w == [k \in 0 .. z |-> IF n > 0 THEN c[i + k] ELSE c[i - k]]
<1>3. ASSUME NEW k \in 0 .. z, k # 0
      PROVE  w[k] = IF n > 0 THEN desc[w[k - 1]].next ELSE desc[w[k - 1]].prev
  <2>1. CASE n > 0
    <3>1. k - 1 \in 0 .. z /\ i + (k - 1) \in 1 .. Len(c) /\ i + (k - 1) # Len(c)
          /\ (i + (k - 1)) + 1 = i + k
      BY <1>1, <1>2, <1>3, <2>1
    <3>2. desc[c[i + (k - 1)]].next = c[i + k]
      BY <3>1 DEF Linked, NextOf
    <3> QED
      BY <2>1, <3>1, <3>2
  <2>2. CASE ~ n > 0
    <3>1. k - 1 \in 0 .. z /\ i - (k - 1) \in 1 .. Len(c) /\ i - (k - 1) # 1
          /\ (i - (k - 1)) - 1 = i - k
      BY <1>1, <1>2, <1>3, <2>2
    <3>2. desc[c[i - (k - 1)]].prev = c[i - k]
      BY <3>1 DEF Linked, PrevOf
    <3> QED
      BY <2>2, <3>1, <3>2
  <2> QED
    BY <2>1, <2>2
<1>4. w[0] = d
  BY <1>1
<1>5. Good(w)
  <2>1. ASSUME NEW k \in 0 .. z
        PROVE  w[k] = IF k = 0 THEN d ELSE IF n > 0 THEN desc[w[k - 1]].next ELSE desc[w[k - 1]].prev
    BY <1>3, <1>4
  <2>2. w = [k \in 0 .. z |-> w[k]]
    OBVIOUS
  <2> HIDE DEF w, d
  <2>3. w = [k \in 0 .. z |->
          IF k = 0 THEN d ELSE IF n > 0 THEN desc[w[k - 1]].next ELSE desc[w[k - 1]].prev]
    BY <2>1, <2>2
  <2> QED
    BY <2>3
<1>6. PICK t : t = (CHOOSE at : Good(at)) /\ Walk(c[i], n) = t[Distance(0, n)]
  BY DEF Walk
<1>7. Good(t)
  <2> HIDE DEF Good, w
  <2> QED
    BY <1>5, <1>6
<1>8. \A k \in 0 .. z :
        t[k] = IF k = 0 THEN d ELSE IF n > 0 THEN desc[t[k - 1]].next ELSE desc[t[k - 1]].prev
  <2> HIDE DEF d
  <2> QED
    BY <1>7
<1> DEFINE U == {k \in Nat : k <= z => t[k] = w[k]}
<1>9. 0 \in U
  BY <1>4, <1>8
<1>10. ASSUME NEW k \in Nat, k \in U PROVE k + 1 \in U
  <2> SUFFICES ASSUME k + 1 <= z PROVE t[k + 1] = w[k + 1]
    OBVIOUS
  <2>1. k + 1 \in 0 .. z /\ (k + 1) - 1 = k /\ k + 1 # 0 /\ t[k] = w[k]
    BY <1>10
  <2> HIDE DEF w, d, Good, U
  <2> QED
    BY <1>3, <1>8, <2>1
<1>11. Nat \subseteq U
  <2> HIDE DEF U
  <2> QED
    BY <1>9, <1>10, Lists!NumbersReached
<1>12. t[z] = w[z]
  <2> HIDE DEF Good, w
  <2> QED
    BY <1>11
<1>13. w[z] = c[i + n]
  BY <1>1, <1>2
<1> QED
  <2> HIDE DEF Good, w, U
  <2> QED
    BY <1>6, <1>12, <1>13

\* However find goes, it gets to the line that is asked for.
LEMMA FindFinds ==
  ASSUME NEW b \in Bufs, NEW c, Linked(desc, c), Placed(mbuf[b], c), NEW lnum \in 1 .. Len(c)
  PROVE  Find(b, lnum) = c[lnum]
<1> DEFINE m == mbuf[b]
<1> PICK n \in Nat : n = Len(c) /\ n > 0
  BY DEF Linked
<1>1. /\ m.head = c[1] /\ m.tail = c[n] /\ m.cur = c[m.curline] /\ m.tailline = n
      /\ m.curline \in 1 .. n
  BY DEF Placed
<1> DEFINE byTail == Distance(lnum, m.tailline) < Distance(lnum, 1)
           from == IF byTail THEN m.tail ELSE m.head
           line == IF byTail THEN m.tailline ELSE 1
           byCur == Distance(lnum, m.curline) < Distance(lnum, line)
<1>2. line \in 1 .. n /\ from = c[line]
  BY <1>1
<1>3. Find(b, lnum) = IF byCur THEN Walk(m.cur, lnum - m.curline) ELSE Walk(from, lnum - line)
  BY DEF Find
<1>4. \A l \in 1 .. n : Walk(c[l], lnum - l) = c[lnum]
  <2> TAKE l \in 1 .. n
  <2>1. l \in 1 .. Len(c) /\ lnum - l \in Int /\ l + (lnum - l) = lnum /\ lnum \in 1 .. Len(c)
    OBVIOUS
  <2> QED
    BY <2>1, WalkFinds
<1> HIDE DEF byTail, byCur, from, line, m
<1> QED
  BY <1>1, <1>2, <1>3, <1>4

\* A sequence of descriptors that differ is not longer than the heap.
LEMMA LinkedBound ==
  ASSUME NEW c, Linked(desc, c)
  PROVE  Cardinality(Descs) \in Nat /\ Len(c) \in 1 .. Cardinality(Descs)
<1>1. Len(c) \in Nat /\ Len(c) > 0 /\ c \in [1 .. Len(c) -> Descs]
  BY DEF Linked
<1>2. c \in Injection(1 .. Len(c), Descs)
  BY <1>1 DEF Linked, Injection, IsInjective
<1>3. IsFiniteSet(Descs) /\ Cardinality(Descs) \in Nat
  BY StoreAssumption, FS_CardinalityType
<1>4. Cardinality(1 .. Len(c)) <= Cardinality(Descs)
  BY <1>2, <1>3, FS_Injection
<1>5. Cardinality(1 .. Len(c)) = Len(c)
  <2>1. 1 \in Int /\ Len(c) \in Int
    BY <1>1
  <2>2. Cardinality(1 .. Len(c)) = IF 1 > Len(c) THEN 0 ELSE Len(c) - 1 + 1
    BY <2>1, FS_Interval
  <2> QED
    BY <1>1, <2>2
<1> QED
  BY <1>1, <1>3, <1>4, <1>5

\* The first n descriptors, as many as there are.
Lead(c, n) == SubSeq(c, 1, IF n < Len(c) THEN n ELSE Len(c))

LEMMA FrontNext ==
  ASSUME NEW c, Linked(desc, c), NEW n \in Nat, n > 0
  PROVE  LET f == Lead(c, n)
             next == desc[Last(f)].next
         IN  Lead(c, n + 1) = IF next = Null THEN f ELSE Append(f, next)
<1> DEFINE k == IF n < Len(c) THEN n ELSE Len(c)
           f == SubSeq(c, 1, k)
<1>1. /\ Len(c) \in Nat /\ c \in Seq(Descs) /\ k \in 1 .. Len(c)
      /\ \A j \in 1 .. Len(c) : c[j] \in Descs
  BY DEF Linked
<1> PICK l : l = k
  OBVIOUS
<1> HIDE DEF k
<1>2. f \in Seq(Descs) /\ Len(f) = k /\ \A j \in 1 .. k : f[j] = c[j]
  <2>1. 1 \in Int /\ k \in Int /\ \A j \in 1 .. k : c[j] \in Descs
    BY <1>1
  <2> QED
    BY <1>1, <2>1, SubSeqProperties
<1>3. desc[Last(f)].next = NextOf(c, k)
  BY <1>1, <1>2 DEF Linked, Last
<1>4. CASE n < Len(c)
  <2>1. k = n /\ k + 1 \in 1 .. Len(c)
    BY <1>1, <1>4 DEF k
  <2>2. NextOf(c, k) = c[k + 1] /\ c[k + 1] \in Descs
    BY <1>1, <2>1 DEF NextOf
  <2>3. Lead(c, n + 1) = SubSeq(c, 1, k + 1)
    BY <1>1, <1>4, <2>1 DEF Lead
  <2>4. SubSeq(c, 1, k + 1) = Append(f, c[k + 1])
    <3>1. 1 \in Int /\ k + 1 \in Int /\ \A j \in 1 .. k + 1 : c[j] \in Descs
      BY <1>1, <2>1
    <3>2. /\ SubSeq(c, 1, k + 1) \in Seq(Descs) /\ Len(SubSeq(c, 1, k + 1)) = k + 1
          /\ \A j \in 1 .. k + 1 : SubSeq(c, 1, k + 1)[j] = c[j]
      BY <1>1, <3>1, SubSeqProperties
    <3>3. /\ Append(f, c[k + 1]) \in Seq(Descs) /\ Len(Append(f, c[k + 1])) = k + 1
          /\ \A j \in 1 .. k + 1 : Append(f, c[k + 1])[j] = c[j]
      BY <1>1, <1>2, <2>2
    <3> HIDE DEF f
    <3> QED
      BY <3>2, <3>3, SeqEqual
  <2>5. f = Lead(c, n)
    BY DEF Lead, k
  <2>6. NextOf(c, k) # Null
    BY <2>2, StoreAssumption
  <2> QED
    BY <1>3, <2>2, <2>3, <2>4, <2>5, <2>6
<1>5. CASE ~ n < Len(c)
  <2>1. k = Len(c) /\ NextOf(c, k) = Null
    BY <1>1, <1>5 DEF k, NextOf
  <2>2. f = Lead(c, n)
    BY DEF Lead, k
  <2>3. Lead(c, n + 1) = f
    BY <1>1, <1>5, <2>1 DEF Lead
  <2> QED
    BY <1>3, <2>1, <2>2, <2>3
<1> QED
  BY <1>4, <1>5

\* The list of a buffer is the sequence its links are those of.
LEMMA ChainIs ==
  ASSUME NEW b \in Bufs, NEW c, Linked(desc, c), Placed(mbuf[b], c)
  PROVE  Chain(b) = c
<1> PICK z \in Nat : z = Cardinality(Descs)
  BY LinkedBound
<1>1. Len(c) \in Nat /\ Len(c) \in 1 .. z /\ c \in Seq(Descs) /\ mbuf[b].head = c[1]
  <2>1. Len(c) \in 1 .. Cardinality(Descs)
    BY LinkedBound
  <2>2. c \in Seq(Descs) /\ Len(c) \in Nat
    BY DEF Linked
  <2>3. mbuf[b].head = c[1]
    BY DEF Placed
  <2> QED
    BY <2>1, <2>2, <2>3
<1> DEFINE Good(upto) == upto = [n \in 1 .. Cardinality(Descs) |->
             IF n = 1 THEN <<mbuf[b].head>>
             ELSE LET l == upto[n - 1]
                      next == desc[Last(l)].next
                  IN  IF next = Null THEN l ELSE Append(l, next)]
           w == [n \in 1 .. z |-> Lead(c, n)]
           After(l) == LET next == desc[Last(l)].next IN IF next = Null THEN l ELSE Append(l, next)
<1>2. Lead(c, 1) = <<c[1]>>
  <2>1. Lead(c, 1) = SubSeq(c, 1, 1)
    BY <1>1 DEF Lead
  <2>2. 1 \in Int /\ \A j \in 1 .. 1 : c[j] \in Descs
    BY <1>1
  <2>3. /\ SubSeq(c, 1, 1) \in Seq(Descs) /\ Len(SubSeq(c, 1, 1)) = 1
        /\ \A j \in 1 .. 1 : SubSeq(c, 1, 1)[j] = c[j]
    BY <2>2, SubSeqProperties
  <2>4. <<c[1]>> \in Seq(Descs) /\ Len(<<c[1]>>) = 1 /\ <<c[1]>>[1] = c[1]
    BY <2>2
  <2> QED
    BY <2>1, <2>3, <2>4, SeqEqual
<1>3. ASSUME NEW n \in 1 .. z, n # 1 PROVE w[n] = After(w[n - 1])
  <2>1. n - 1 \in Nat /\ n - 1 > 0 /\ (n - 1) + 1 = n /\ n - 1 \in 1 .. z
    BY <1>3
  <2> PICK m \in Nat : m = n - 1 /\ m > 0 /\ m + 1 = n
    BY <2>1
  <2>2. Lead(c, m + 1) = After(Lead(c, m))
    BY FrontNext
  <2> QED
    BY <2>1, <2>2
<1> HIDE DEF After
<1>4. w[1] = <<mbuf[b].head>>
  BY <1>1, <1>2
<1>5. Good(w)
  <2>1. ASSUME NEW n \in 1 .. z PROVE w[n] = IF n = 1 THEN <<mbuf[b].head>> ELSE After(w[n - 1])
    BY <1>3, <1>4
  <2>2. w = [n \in 1 .. z |-> w[n]]
    OBVIOUS
  <2> HIDE DEF w
  <2>3. w = [n \in 1 .. z |-> IF n = 1 THEN <<mbuf[b].head>> ELSE After(w[n - 1])]
    BY <2>1, <2>2
  <2> QED
    BY <2>3 DEF After
<1>6. PICK t : t = (CHOOSE upto : Good(upto)) /\ Chain(b) = t[Cardinality(Descs)]
  BY DEF Chain
<1>7. Good(t)
  <2> HIDE DEF Good, w
  <2> QED
    BY <1>5, <1>6
<1>8. \A n \in 1 .. z : t[n] = IF n = 1 THEN <<mbuf[b].head>> ELSE After(t[n - 1])
  BY <1>7 DEF After
<1> DEFINE U == {n \in Nat : n + 1 <= z => t[n + 1] = w[n + 1]}
<1> HIDE DEF Good, w
<1>9. 0 \in U
  <2>1. 0 + 1 = 1 /\ 1 \in 1 .. z
    BY <1>1
  <2> QED
    BY <1>4, <1>8, <2>1
<1>10. ASSUME NEW n \in Nat, n \in U PROVE n + 1 \in U
  <2> SUFFICES ASSUME (n + 1) + 1 <= z PROVE t[(n + 1) + 1] = w[(n + 1) + 1]
    OBVIOUS
  <2>1. (n + 1) + 1 \in 1 .. z /\ ((n + 1) + 1) - 1 = n + 1 /\ (n + 1) + 1 # 1 /\ t[n + 1] = w[n + 1]
    BY <1>10
  <2> HIDE DEF U
  <2> QED
    BY <1>3, <1>8, <2>1
<1>11. Nat \subseteq U
  <2> HIDE DEF U
  <2> QED
    BY <1>9, <1>10, Lists!NumbersReached
<1>12. t[z] = w[z]
  <2>1. z - 1 \in Nat /\ (z - 1) + 1 = z
    <3> HIDE DEF U
    <3>1. 1 <= z
      BY <1>1
    <3> QED
      BY <3>1
  <2> QED
    BY <1>11, <2>1
<1>13. w[z] = c
  <2>1. w[z] = SubSeq(c, 1, Len(c))
    BY <1>1 DEF w, Lead
  <2> QED
    BY <1>1, <2>1, SubSeqFull
<1> QED
  BY <1>6, <1>12, <1>13

----------------------------------------------------------------------------
(* What the requests do to the links.                                       *)

\* The links around a place, and nothing else, are made to point to x and y.
Spliced(g, f, p, y, n, x) ==
  /\ DOMAIN g = DOMAIN f
  /\ \A e \in DOMAIN f : /\ g[e].prev = IF e = n THEN x ELSE f[e].prev
                         /\ g[e].next = IF e = p THEN y ELSE f[e].next
                         /\ g[e].text = f[e].text /\ g[e].room = f[e].room
                         /\ e # n /\ e # p => g[e] = f[e]

\* The next link of p, if there is p, is y.
NextSet(g, f, D, p, y) ==
  /\ g \in [D -> Record]
  /\ \A e \in D : /\ g[e].next = IF e = p THEN y ELSE f[e].next
                  /\ g[e].prev = f[e].prev
                  /\ g[e].text = f[e].text /\ g[e].room = f[e].room
                  /\ e # p => g[e] = f[e]

LEMMA SetNextIs ==
  ASSUME NEW D \in SUBSET Descs, NEW f \in [D -> Record], NEW p \in D \cup {Null}, NEW y \in Link
  PROVE  NextSet(SetNext(p, y, f), f, D, p, y)
<1>1. Null \notin D
  BY StoreAssumption
<1>2. CASE p = Null
  BY <1>1, <1>2 DEF SetNext, NextSet
<1>3. CASE p \in D
  <2> PICK r : r = [f[p] EXCEPT !.next = y]
    OBVIOUS
  <2>1. f[p] \in Record
    BY <1>3
  <2>2. /\ r \in Record /\ r.next = y
        /\ r.prev = f[p].prev /\ r.text = f[p].text /\ r.room = f[p].room
    BY <2>1 DEF Record
  <2>3. SetNext(p, y, f) = [f EXCEPT ![p] = r]
    BY <1>1, <1>3 DEF SetNext
  <2> QED
    BY <1>3, <2>2, <2>3 DEF NextSet
<1> QED
  BY <1>2, <1>3

\* The prev link of p, if there is p, is y.
PrevSet(g, f, D, p, y) ==
  /\ g \in [D -> Record]
  /\ \A e \in D : /\ g[e].prev = IF e = p THEN y ELSE f[e].prev
                  /\ g[e].next = f[e].next
                  /\ g[e].text = f[e].text /\ g[e].room = f[e].room
                  /\ e # p => g[e] = f[e]

LEMMA SetPrevIs ==
  ASSUME NEW D \in SUBSET Descs, NEW f \in [D -> Record], NEW p \in D \cup {Null}, NEW y \in Link
  PROVE  PrevSet(SetPrev(p, y, f), f, D, p, y)
<1>1. Null \notin D
  BY StoreAssumption
<1>2. CASE p = Null
  BY <1>1, <1>2 DEF SetPrev, PrevSet
<1>3. CASE p \in D
  <2> PICK r : r = [f[p] EXCEPT !.prev = y]
    OBVIOUS
  <2>1. f[p] \in Record
    BY <1>3
  <2>2. /\ r \in Record /\ r.prev = y
        /\ r.next = f[p].next /\ r.text = f[p].text /\ r.room = f[p].room
    BY <2>1 DEF Record
  <2>3. SetPrev(p, y, f) = [f EXCEPT ![p] = r]
    BY <1>1, <1>3 DEF SetPrev
  <2> QED
    BY <1>3, <2>2, <2>3 DEF PrevSet
<1> QED
  BY <1>2, <1>3

\* In whichever order the two are set.
LEMMA Splices ==
  ASSUME NEW D \in SUBSET Descs, NEW f \in [D -> Record],
         NEW p \in D \cup {Null}, NEW n \in D \cup {Null}, NEW x \in Link, NEW y \in Link
  PROVE  /\ SetPrev(n, x, SetNext(p, y, f)) \in [D -> Record]
         /\ SetNext(p, y, SetPrev(n, x, f)) \in [D -> Record]
         /\ Spliced(SetPrev(n, x, SetNext(p, y, f)), f, p, y, n, x)
         /\ Spliced(SetNext(p, y, SetPrev(n, x, f)), f, p, y, n, x)
<1> PICK g : g = SetNext(p, y, f)
  OBVIOUS
<1> PICK h : h = SetPrev(n, x, f)
  OBVIOUS
<1>1. NextSet(g, f, D, p, y) /\ g \in [D -> Record]
  <2>1. NextSet(g, f, D, p, y)
    BY SetNextIs
  <2> QED
    BY <2>1 DEF NextSet
<1>2. PrevSet(h, f, D, n, x) /\ h \in [D -> Record]
  <2>1. PrevSet(h, f, D, n, x)
    BY SetPrevIs
  <2> QED
    BY <2>1 DEF PrevSet
<1> PICK g2 : g2 = SetPrev(n, x, g)
  OBVIOUS
<1> PICK h2 : h2 = SetNext(p, y, h)
  OBVIOUS
<1>3. PrevSet(g2, g, D, n, x)
  BY <1>1, SetPrevIs
<1>4. NextSet(h2, h, D, p, y)
  BY <1>2, SetNextIs
<1>5. g2 \in [D -> Record] /\ Spliced(g2, f, p, y, n, x)
  <2>1. DOMAIN f = D /\ DOMAIN g2 = D /\ g2 \in [D -> Record]
    BY <1>3 DEF PrevSet
  <2>2. ASSUME NEW e \in D
        PROVE  /\ g2[e].prev = IF e = n THEN x ELSE f[e].prev
               /\ g2[e].next = IF e = p THEN y ELSE f[e].next
               /\ g2[e].text = f[e].text /\ g2[e].room = f[e].room
               /\ e # n /\ e # p => g2[e] = f[e]
    <3>1. /\ g[e].next = IF e = p THEN y ELSE f[e].next
          /\ g[e].prev = f[e].prev
          /\ g[e].text = f[e].text /\ g[e].room = f[e].room
          /\ e # p => g[e] = f[e]
      BY <1>1 DEF NextSet
    <3>2. /\ g2[e].prev = IF e = n THEN x ELSE g[e].prev
          /\ g2[e].next = g[e].next
          /\ g2[e].text = g[e].text /\ g2[e].room = g[e].room
          /\ e # n => g2[e] = g[e]
      BY <1>3 DEF PrevSet
    <3> QED
      BY <3>1, <3>2, Zenon
  <2> QED
    BY <2>1, <2>2 DEF Spliced
<1>6. h2 \in [D -> Record] /\ Spliced(h2, f, p, y, n, x)
  <2>1. DOMAIN f = D /\ DOMAIN h2 = D /\ h2 \in [D -> Record]
    BY <1>4 DEF NextSet
  <2>2. ASSUME NEW e \in D
        PROVE  /\ h2[e].prev = IF e = n THEN x ELSE f[e].prev
               /\ h2[e].next = IF e = p THEN y ELSE f[e].next
               /\ h2[e].text = f[e].text /\ h2[e].room = f[e].room
               /\ e # n /\ e # p => h2[e] = f[e]
    <3>1. /\ h[e].prev = IF e = n THEN x ELSE f[e].prev
          /\ h[e].next = f[e].next
          /\ h[e].text = f[e].text /\ h[e].room = f[e].room
          /\ e # n => h[e] = f[e]
      BY <1>2 DEF PrevSet
    <3>2. /\ h2[e].next = IF e = p THEN y ELSE h[e].next
          /\ h2[e].prev = h[e].prev
          /\ h2[e].text = h[e].text /\ h2[e].room = h[e].room
          /\ e # p => h2[e] = h[e]
      BY <1>4 DEF NextSet
    <3> QED
      BY <3>1, <3>2, Zenon
  <2> QED
    BY <2>1, <2>2 DEF Spliced
<1> QED
  BY <1>5, <1>6

\* The texts of a list of descriptors.
TextsIn(ds, c) == [i \in 1 .. Len(c) |-> ds[c[i]].text]

\* The descriptors of the other buffers are left alone.
Kept(ds, c, ds2, c2) ==
  /\ \A e \in DOMAIN ds : ~ In(e, c) => e \in DOMAIN ds2 /\ ds2[e] = ds[e] /\ ~ In(e, c2)
  /\ \A e \in DOMAIN ds2 : In(e, c2) \/ (e \in DOMAIN ds /\ ~ In(e, c))

\* A sequence with one more after place k, and one without place k.
Inserted(c, k, d) ==
  [i \in 1 .. Len(c) + 1 |-> IF i <= k THEN c[i] ELSE IF i = k + 1 THEN d ELSE c[i - 1]]
Dropped(c, k) == [i \in 1 .. Len(c) - 1 |-> IF i < k THEN c[i] ELSE c[i + 1]]

IsInserted(c2, c, k, d) ==
  /\ Len(c2) = Len(c) + 1
  /\ \A i \in 1 .. Len(c) + 1 : c2[i] = IF i <= k THEN c[i] ELSE IF i = k + 1 THEN d ELSE c[i - 1]

IsDropped(c2, c, k) ==
  /\ Len(c2) = Len(c) - 1
  /\ \A i \in 1 .. Len(c) - 1 : c2[i] = IF i < k THEN c[i] ELSE c[i + 1]

LEMMA InsertedSeq ==
  ASSUME NEW S, NEW c \in Seq(S), NEW k \in 0 .. Len(c), NEW d \in S
  PROVE  Inserted(c, k, d) \in Seq(S) /\ IsInserted(Inserted(c, k, d), c, k, d)
<1>1. Len(c) \in Nat /\ \A i \in 1 .. Len(c) : c[i] \in S
  OBVIOUS
<1> PICK n \in Nat : n = Len(c) + 1
  BY <1>1
<1>2. \A i \in 1 .. n : (IF i <= k THEN c[i] ELSE IF i = k + 1 THEN d ELSE c[i - 1]) \in S
  <2> TAKE i \in 1 .. n
  <2>1. CASE i <= k
    BY <1>1, <2>1
  <2>2. CASE i > k /\ i # k + 1
    <3>1. i - 1 \in 1 .. Len(c)
      BY <1>1, <2>2
    <3> QED
      BY <1>1, <2>2, <3>1
  <2> QED
    BY <2>1, <2>2
<1>3. Inserted(c, k, d) \in [1 .. n -> S]
  BY <1>2 DEF Inserted
<1> QED
  BY <1>3 DEF Inserted, IsInserted

LEMMA DroppedSeq ==
  ASSUME NEW S, NEW c \in Seq(S), NEW k \in 1 .. Len(c)
  PROVE  Dropped(c, k) \in Seq(S) /\ IsDropped(Dropped(c, k), c, k)
<1>1. Len(c) \in Nat /\ \A i \in 1 .. Len(c) : c[i] \in S
  OBVIOUS
<1> PICK n \in Nat : n = Len(c) - 1
  BY <1>1
<1>2. \A i \in 1 .. n : (IF i < k THEN c[i] ELSE c[i + 1]) \in S
  BY <1>1
<1>3. Dropped(c, k) \in [1 .. n -> S]
  BY <1>2 DEF Dropped
<1> QED
  BY <1>3 DEF Dropped, IsDropped

Before(c, k) == IF k = 0 THEN Null ELSE c[k]
Behind(c, k) == IF k = Len(c) THEN Null ELSE c[k + 1]

PutBetween(ds, c, k, d, s) ==
  SetPrev(Behind(c, k), d, SetNext(Before(c, k), d,
    Put(d, [prev |-> Before(c, k), next |-> Behind(c, k), text |-> s, room |-> Len(s)], ds)))

\* A line is put after line k, or before the first.
LEMMA LinkInserted ==
  ASSUME NEW ds, Heap(ds), NEW c, Linked(ds, c), NEW d \in Descs, d \notin DOMAIN ds,
         NEW k \in 0 .. Len(c), NEW s \in Strings, NEW ds2,
         ds2 = PutBetween(ds, c, k, d, s)
  PROVE  /\ Heap(ds2) /\ Linked(ds2, Inserted(c, k, d)) /\ Kept(ds, c, ds2, Inserted(c, k, d))
         /\ TextsIn(ds2, Inserted(c, k, d)) = Inserted(TextsIn(ds, c), k, s)
<1> DEFINE p == Before(c, k)
           n == Behind(c, k)
           r == [prev |-> p, next |-> n, text |-> s, room |-> Len(s)]
           f == Put(d, r, ds)
<1> PICK D \in SUBSET Descs : D = DOMAIN ds \cup {d}
  BY DEF Heap
<1> PICK l \in Nat : l = Len(c) /\ l > 0
  BY DEF Linked
<1>1. /\ \A i \in 1 .. l : c[i] \in DOMAIN ds /\ c[i] \in D /\ c[i] # d
      /\ \A i, j \in 1 .. l : c[i] = c[j] => i = j
      /\ \A i \in 1 .. l : ds[c[i]].prev = PrevOf(c, i) /\ ds[c[i]].next = NextOf(c, i)
      /\ c \in Seq(Descs)
  BY DEF Linked
<1>2. p \in (D \ {d}) \cup {Null} /\ n \in (D \ {d}) \cup {Null}
  <2>1. k # 0 => k \in 1 .. l
    OBVIOUS
  <2>2. k # l => k + 1 \in 1 .. l
    OBVIOUS
  <2> QED
    BY <1>1, <2>1, <2>2 DEF Before, Behind
<1>3. r \in Record
  BY <1>2, StoreAssumption DEF Record, Link, Texts
<1>4. f \in [D -> Record] /\ f[d] = r /\ \A e \in DOMAIN ds : f[e] = ds[e]
  <2> HIDE DEF r
  <2>1. \A e \in DOMAIN ds : ds[e] \in Record
    BY DEF Heap
  <2>2. f = [e \in D |-> IF e = d THEN r ELSE ds[e]]
    BY DEF Put
  <2> QED
    BY <1>3, <2>1, <2>2
<1>5. d \in Link
  BY DEF Link
<1> HIDE DEF f
<1>6. ds2 \in [D -> Record] /\ Spliced(ds2, f, p, d, n, d)
  <2>1. ds2 = SetPrev(n, d, SetNext(p, d, f))
    BY DEF f, PutBetween
  <2>2. p \in D \cup {Null} /\ n \in D \cup {Null}
    BY <1>2
  <2> HIDE DEF p, n
  <2>3. SetPrev(n, d, SetNext(p, d, f)) \in [D -> Record] /\ Spliced(SetPrev(n, d, SetNext(p, d, f)), f, p, d, n, d)
    BY <1>4, <1>5, <2>2, Splices
  <2> QED
    BY <2>1, <2>3
<1>7. /\ DOMAIN ds2 = D
      /\ \A e \in D : /\ ds2[e].prev = IF e = n THEN d ELSE f[e].prev
                      /\ ds2[e].next = IF e = p THEN d ELSE f[e].next
                      /\ ds2[e].text = f[e].text /\ ds2[e].room = f[e].room
                      /\ e # n /\ e # p => ds2[e] = f[e]
  BY <1>4, <1>6 DEF Spliced
<1>8. /\ ds2[d].prev = p /\ ds2[d].next = n /\ ds2[d].text = s /\ ds2[d].room = Len(s)
  BY <1>2, <1>4, <1>7, StoreAssumption
<1>9. Heap(ds2)
  <2>1. ASSUME NEW e \in D PROVE Len(ds2[e].text) <= ds2[e].room
    <3>1. CASE e = d
      <4>1. Len(s) \in Nat
        BY StoreAssumption
      <4> QED
        BY <1>8, <3>1, <4>1
    <3>2. CASE e # d
      BY <1>4, <1>7, <3>2 DEF Heap
    <3> QED
      BY <3>1, <3>2
  <2> QED
    BY <1>6, <1>7, <2>1 DEF Heap
<1> DEFINE c2 == Inserted(c, k, d)
<1>10. /\ c2 \in Seq(Descs) /\ Len(c2) = l + 1
       /\ \A i \in 1 .. l + 1 : c2[i] = IF i <= k THEN c[i] ELSE IF i = k + 1 THEN d ELSE c[i - 1]
  <2>1. c \in Seq(Descs)
    BY <1>1
  <2>2. Inserted(c, k, d) \in Seq(Descs) /\ IsInserted(Inserted(c, k, d), c, k, d)
    BY <2>1, InsertedSeq
  <2> QED
    BY <2>2 DEF IsInserted
<1> HIDE DEF c2
<1>11. \A i \in 1 .. l + 1 : i <= k => i \in 1 .. l /\ c2[i] = c[i]
  BY <1>10
<1>12. \A i \in 1 .. l + 1 : i > k + 1 => i - 1 \in 1 .. l /\ c2[i] = c[i - 1]
  BY <1>10
<1>13. k + 1 \in 1 .. l + 1 /\ c2[k + 1] = d
  BY <1>10
<1>14. \A i \in 1 .. l + 1 : i <= k \/ i = k + 1 \/ i > k + 1
  OBVIOUS
<1>15. \A e : In(e, c2) <=> e = d \/ In(e, c)
  <2>1. ASSUME NEW e, In(e, c) PROVE In(e, c2)
    <3>1. PICK i \in 1 .. l : c[i] = e
      BY <2>1 DEF In
    <3>2. CASE i <= k
      <4>1. i \in 1 .. l + 1 /\ c2[i] = e
        BY <1>11, <3>1, <3>2
      <4> QED
        BY <1>10, <4>1 DEF In
    <3>3. CASE i > k
      <4>1. i + 1 \in 1 .. l + 1 /\ i + 1 > k + 1 /\ (i + 1) - 1 = i
        BY <3>3
      <4>2. c2[i + 1] = e
        BY <1>12, <3>1, <4>1
      <4> QED
        BY <1>10, <4>1, <4>2 DEF In
    <3> QED
      BY <3>2, <3>3
  <2>2. ASSUME NEW e, In(e, c2) PROVE e = d \/ In(e, c)
    BY <2>2, <1>10, <1>11, <1>12, <1>13, <1>14 DEF In
  <2>3. In(d, c2)
    BY <1>10, <1>13 DEF In
  <2> QED
    BY <2>1, <2>2, <2>3
<1>16. ~ In(d, c)
  BY <1>1 DEF In
<1>17. (p = Null \/ In(p, c)) /\ (n = Null \/ In(n, c))
  <2>1. k # 0 => k \in 1 .. l
    OBVIOUS
  <2>2. k # l => k + 1 \in 1 .. l
    OBVIOUS
  <2> QED
    BY <2>1, <2>2 DEF In, Before, Behind
<1>18. Kept(ds, c, ds2, c2)
  <2>1. Null \notin D
    BY StoreAssumption
  <2>2. \A e \in DOMAIN ds : ~ In(e, c) => e \in D /\ e # n /\ e # p /\ e # d
    BY <1>17, <2>1
  <2> HIDE DEF p, n
  <2> QED
    BY <1>4, <1>7, <1>15, <2>2 DEF Kept
<1>19. \A i, j \in 1 .. l + 1 : c2[i] = c2[j] => i = j
  <2> SUFFICES ASSUME NEW i \in 1 .. l + 1, NEW j \in 1 .. l + 1, c2[i] = c2[j] PROVE i = j
    OBVIOUS
  <2>1. \A x \in 1 .. l : c[x] # d
    BY <1>1
  <2>2. \A x, y \in 1 .. l : c[x] = c[y] => x = y
    BY <1>1
  <2> QED
    BY <1>10, <2>1, <2>2
<1>20. ASSUME NEW i \in 1 .. l + 1
       PROVE  /\ c2[i] \in D /\ ds2[c2[i]].prev = PrevOf(c2, i) /\ ds2[c2[i]].next = NextOf(c2, i)
              /\ ds2[c2[i]].text = IF i <= k THEN ds[c[i]].text
                                   ELSE IF i = k + 1 THEN s ELSE ds[c[i - 1]].text
  <2>1. CASE i <= k
    <3>1. i \in 1 .. l /\ c2[i] = c[i] /\ c[i] \in D /\ c[i] \in DOMAIN ds /\ f[c[i]] = ds[c[i]]
      BY <1>1, <1>4, <1>11, <2>1
    <3>2. c[i] # n
      <4>1. k + 1 \in 1 .. l => c[i] # c[k + 1]
        BY <1>1, <2>1
      <4> QED
        BY <1>1, <2>1, <3>1, <4>1, StoreAssumption DEF Behind
    <3>3. ds2[c2[i]].prev = PrevOf(c, i) /\ ds2[c2[i]].text = ds[c[i]].text
      BY <1>1, <1>7, <3>1, <3>2
    <3>4. PrevOf(c, i) = PrevOf(c2, i)
      <4>1. i # 1 => i - 1 \in 1 .. l + 1 /\ i - 1 <= k
        BY <2>1
      <4>2. i # 1 => c2[i - 1] = c[i - 1]
        BY <1>11, <4>1
      <4> QED
        BY <4>2 DEF PrevOf
    <3>5. ds2[c2[i]].next = NextOf(c2, i)
      <4>1. CASE i = k
        <5>1. p = c[i] /\ NextOf(c2, i) = d
          BY <1>10, <1>13, <3>1, <4>1 DEF Before, NextOf
        <5> QED
          BY <1>7, <3>1, <5>1
      <4>2. CASE i < k
        <5>1. k \in 1 .. l /\ c[i] # c[k]
          BY <1>1, <3>1, <4>2
        <5>2. c[i] # p
          BY <5>1 DEF Before
        <5>3. i + 1 \in 1 .. l + 1 /\ i + 1 <= k /\ i # l /\ i # l + 1
          BY <4>2
        <5>4. c2[i + 1] = c[i + 1]
          BY <1>11, <5>3
        <5>5. NextOf(c, i) = NextOf(c2, i)
          BY <1>10, <5>3, <5>4 DEF NextOf
        <5> QED
          BY <1>1, <1>7, <3>1, <5>2, <5>5
      <4> QED
        BY <2>1, <4>1, <4>2
    <3> QED
      BY <2>1, <3>1, <3>3, <3>4, <3>5
  <2>2. CASE i = k + 1
    <3>1. c2[i] = d
      BY <1>13, <2>2
    <3>2. PrevOf(c2, i) = p
      <4>1. k # 0 => k \in 1 .. l + 1 /\ c2[k] = c[k]
        BY <1>11
      <4> QED
        BY <2>2, <4>1 DEF PrevOf, Before
    <3>3. NextOf(c2, i) = n
      <4>1. k # l => i + 1 \in 1 .. l + 1 /\ i + 1 > k + 1 /\ (i + 1) - 1 = k + 1
        BY <2>2
      <4>2. k # l => c2[i + 1] = c[k + 1]
        BY <1>12, <4>1
      <4> QED
        BY <1>10, <2>2, <4>2 DEF NextOf, Behind
    <3> QED
      BY <1>8, <2>2, <3>1, <3>2, <3>3
  <2>3. CASE i > k + 1
    <3> PICK j \in 1 .. l : j = i - 1 /\ j > k
      BY <2>3
    <3>1. c2[i] = c[j] /\ c[j] \in D /\ c[j] \in DOMAIN ds /\ f[c[j]] = ds[c[j]]
      BY <1>1, <1>4, <1>12, <2>3
    <3>2. c[j] # p
      <4>1. k \in 1 .. l => c[j] # c[k]
        BY <1>1
      <4> QED
        BY <1>1, <3>1, <4>1, StoreAssumption DEF Before
    <3>3. ds2[c2[i]].next = NextOf(c, j) /\ ds2[c2[i]].text = ds[c[j]].text
      BY <1>1, <1>7, <3>1, <3>2
    <3>4. NextOf(c, j) = NextOf(c2, i)
      <4>1. j # l => i + 1 \in 1 .. l + 1 /\ i + 1 > k + 1 /\ (i + 1) - 1 = j + 1
        BY <2>3
      <4>2. j # l => c2[i + 1] = c[j + 1]
        BY <1>12, <4>1
      <4>3. j = l <=> i = l + 1
        OBVIOUS
      <4> QED
        BY <1>10, <4>2, <4>3 DEF NextOf
    <3>5. ds2[c2[i]].prev = PrevOf(c2, i)
      <4>1. CASE j = k + 1
        <5>1. n = c[j]
          BY <4>1 DEF Behind
        <5>2. PrevOf(c2, i) = d
          BY <1>13, <4>1 DEF PrevOf
        <5> QED
          BY <1>7, <3>1, <5>1, <5>2
      <4>2. CASE j > k + 1
        <5>1. k + 1 \in 1 .. l /\ c[j] # c[k + 1]
          BY <1>1, <4>2
        <5>2. c[j] # n
          BY <5>1 DEF Behind
        <5>3. j \in 1 .. l + 1 /\ j # 1 /\ i # 1 /\ i - 1 = j
          BY <4>2
        <5>4. c2[i - 1] = c[j - 1]
          BY <1>12, <4>2, <5>3
        <5>5. PrevOf(c, j) = PrevOf(c2, i)
          BY <5>3, <5>4 DEF PrevOf
        <5> QED
          BY <1>1, <1>7, <3>1, <5>2, <5>5
      <4> QED
        BY <4>1, <4>2
    <3>6. ~ i <= k /\ i # k + 1
      BY <2>3
    <3> QED
      BY <3>1, <3>3, <3>4, <3>5, <3>6
  <2> QED
    BY <1>14, <2>1, <2>2, <2>3
<1>21. Linked(ds2, c2)
  <2>1. Len(c2) = l + 1 /\ l + 1 > 0
    BY <1>10
  <2> QED
    BY <1>7, <1>10, <1>19, <1>20, <2>1 DEF Linked
<1>22. TextsIn(ds2, c2) = Inserted(TextsIn(ds, c), k, s)
  <2> PICK t : t = TextsIn(ds, c)
    OBVIOUS
  <2>1. Len(t) = l /\ \A i \in 1 .. l : t[i] = ds[c[i]].text
    <3>1. t = [i \in 1 .. l |-> ds[c[i]].text]
      BY DEF TextsIn
    <3> QED
      BY <3>1
  <2>2. \A i \in 1 .. l + 1 : (IF i <= k THEN ds[c[i]].text ELSE IF i = k + 1 THEN s ELSE ds[c[i - 1]].text)
                            = (IF i <= k THEN t[i] ELSE IF i = k + 1 THEN s ELSE t[i - 1])
    BY <2>1
  <2>3. TextsIn(ds2, c2) = [i \in 1 .. l + 1 |-> IF i <= k THEN t[i] ELSE IF i = k + 1 THEN s ELSE t[i - 1]]
    BY <1>10, <1>20, <2>2 DEF TextsIn
  <2> QED
    BY <2>1, <2>3 DEF Inserted
<1> QED
  BY <1>9, <1>18, <1>21, <1>22 DEF c2

TakeOut(ds, c, k) ==
  Without({c[k]}, SetPrev(NextOf(c, k), PrevOf(c, k), SetNext(PrevOf(c, k), NextOf(c, k), ds)))

\* The links of a line, if there is a line.
LEMMA LinksIn ==
  ASSUME NEW ds, NEW c, Linked(ds, c), NEW i \in 1 .. Len(c)
  PROVE  /\ PrevOf(c, i) \in (DOMAIN ds \ {c[i]}) \cup {Null}
         /\ NextOf(c, i) \in (DOMAIN ds \ {c[i]}) \cup {Null}
         /\ PrevOf(c, i) = Null \/ In(PrevOf(c, i), c)
         /\ NextOf(c, i) = Null \/ In(NextOf(c, i), c)
<1>1. /\ \A j \in 1 .. Len(c) : c[j] \in DOMAIN ds
      /\ \A j \in 1 .. Len(c) : c[j] = c[i] => j = i
      /\ Len(c) \in Nat
  BY DEF Linked
<1>2. i # 1 => i - 1 \in 1 .. Len(c) /\ i - 1 # i
  BY <1>1
<1>3. i # Len(c) => i + 1 \in 1 .. Len(c) /\ i + 1 # i
  BY <1>1
<1> QED
  BY <1>1, <1>2, <1>3 DEF PrevOf, NextOf, In

\* A line that is not the only one is taken out.
LEMMA LinkDropped ==
  ASSUME NEW ds, Heap(ds), NEW c, Linked(ds, c), Len(c) > 1,
         NEW k \in 1 .. Len(c), NEW ds2, ds2 = TakeOut(ds, c, k)
  PROVE  /\ Heap(ds2) /\ Linked(ds2, Dropped(c, k)) /\ Kept(ds, c, ds2, Dropped(c, k))
         /\ TextsIn(ds2, Dropped(c, k)) = Dropped(TextsIn(ds, c), k)
<1> DEFINE d == c[k]
           p == PrevOf(c, k)
           n == NextOf(c, k)
<1> PICK D \in SUBSET Descs : D = DOMAIN ds
  BY DEF Heap
<1> PICK l \in Nat : l = Len(c) /\ l > 1
  BY DEF Linked
<1>1. /\ \A i \in 1 .. l : c[i] \in D
      /\ \A i, j \in 1 .. l : c[i] = c[j] => i = j
      /\ \A i \in 1 .. l : ds[c[i]].prev = PrevOf(c, i) /\ ds[c[i]].next = NextOf(c, i)
      /\ c \in Seq(Descs) /\ ds \in [D -> Record] /\ d \in D
  BY DEF Linked, Heap
<1>2. /\ p \in (D \ {d}) \cup {Null} /\ n \in (D \ {d}) \cup {Null}
      /\ (p = Null \/ In(p, c)) /\ (n = Null \/ In(n, c))
  BY LinksIn
<1> PICK g : g = SetPrev(n, p, SetNext(p, n, ds))
  OBVIOUS
<1>3. g \in [D -> Record] /\ Spliced(g, ds, p, n, n, p)
  <2>1. p \in D \cup {Null} /\ n \in D \cup {Null} /\ p \in Link /\ n \in Link
    BY <1>2 DEF Link
  <2> HIDE DEF p, n
  <2>2. /\ SetPrev(n, p, SetNext(p, n, ds)) \in [D -> Record]
        /\ Spliced(SetPrev(n, p, SetNext(p, n, ds)), ds, p, n, n, p)
    BY <1>1, <2>1, Splices
  <2> QED
    BY <2>2
<1>4. DOMAIN ds2 = D \ {d} /\ ds2 \in [D \ {d} -> Record] /\ \A e \in D \ {d} : ds2[e] = g[e]
  <2>1. ds2 = Without({d}, g)
    BY DEF TakeOut
  <2>2. DOMAIN g \ {d} = D \ {d}
    BY <1>3
  <2>3. ds2 = [e \in D \ {d} |-> g[e]]
    BY <2>1, <2>2 DEF Without
  <2> QED
    BY <1>3, <2>3
<1>5. \A e \in D \ {d} : /\ ds2[e].prev = IF e = n THEN p ELSE ds[e].prev
                         /\ ds2[e].next = IF e = p THEN n ELSE ds[e].next
                         /\ ds2[e].text = ds[e].text /\ ds2[e].room = ds[e].room
                         /\ e # n /\ e # p => ds2[e] = ds[e]
  <2> HIDE DEF p, n, d
  <2> QED
    BY <1>1, <1>3, <1>4 DEF Spliced
<1>6. Heap(ds2)
  <2>1. \A e \in D \ {d} : Len(ds2[e].text) <= ds2[e].room
    BY <1>5 DEF Heap
  <2> QED
    BY <1>4, <2>1 DEF Heap
<1> DEFINE c2 == Dropped(c, k)
<1>10. /\ c2 \in Seq(Descs) /\ Len(c2) = l - 1
       /\ \A i \in 1 .. l - 1 : c2[i] = IF i < k THEN c[i] ELSE c[i + 1]
  <2>1. c \in Seq(Descs)
    BY <1>1
  <2>2. Dropped(c, k) \in Seq(Descs) /\ IsDropped(Dropped(c, k), c, k)
    BY <2>1, DroppedSeq
  <2> QED
    BY <2>2 DEF IsDropped
<1> HIDE DEF c2
<1>11. \A i \in 1 .. l - 1 : i < k => i \in 1 .. l /\ c2[i] = c[i] /\ c[i] # d
  BY <1>1, <1>10
<1>12. \A i \in 1 .. l - 1 : i >= k => i + 1 \in 1 .. l /\ c2[i] = c[i + 1] /\ c[i + 1] # d
  BY <1>1, <1>10
<1>13. \A e : In(e, c2) <=> e # d /\ In(e, c)
  <2>1. ASSUME NEW e, In(e, c), e # d PROVE In(e, c2)
    <3>1. PICK i \in 1 .. l : c[i] = e
      BY <2>1 DEF In
    <3>2. CASE i < k
      <4>1. i \in 1 .. l - 1
        BY <3>2
      <4> QED
        BY <1>10, <1>11, <3>1, <3>2, <4>1 DEF In
    <3>3. CASE i > k
      <4>1. i - 1 \in 1 .. l - 1 /\ i - 1 >= k /\ (i - 1) + 1 = i
        BY <3>3
      <4>2. c2[i - 1] = e
        BY <1>12, <3>1, <4>1
      <4> QED
        BY <1>10, <4>1, <4>2 DEF In
    <3> QED
      BY <2>1, <3>1, <3>2, <3>3
  <2>2. ASSUME NEW e, In(e, c2) PROVE e # d /\ In(e, c)
    <3>1. PICK i \in 1 .. l - 1 : c2[i] = e
      BY <1>10, <2>2 DEF In
    <3>2. i < k \/ i >= k
      OBVIOUS
    <3> QED
      BY <1>11, <1>12, <3>1, <3>2 DEF In
  <2> QED
    BY <2>1, <2>2
<1>14. Kept(ds, c, ds2, c2)
  <2>1. Null \notin D /\ In(d, c)
    BY StoreAssumption DEF In
  <2>2. \A e \in D : ~ In(e, c) => e \in D \ {d} /\ e # n /\ e # p
    BY <1>2, <2>1
  <2> HIDE DEF p, n, d
  <2> QED
    BY <1>4, <1>5, <1>13, <2>2 DEF Kept
<1>15. \A i, j \in 1 .. l - 1 : c2[i] = c2[j] => i = j
  <2> SUFFICES ASSUME NEW i \in 1 .. l - 1, NEW j \in 1 .. l - 1, c2[i] = c2[j] PROVE i = j
    OBVIOUS
  <2>1. \A x, y \in 1 .. l : c[x] = c[y] => x = y
    BY <1>1
  <2> QED
    BY <1>10, <2>1
<1>20. ASSUME NEW i \in 1 .. l - 1
       PROVE  /\ c2[i] \in D \ {d} /\ ds2[c2[i]].prev = PrevOf(c2, i) /\ ds2[c2[i]].next = NextOf(c2, i)
              /\ ds2[c2[i]].text = IF i < k THEN ds[c[i]].text ELSE ds[c[i + 1]].text
  <2>1. CASE i < k
    <3>1. i \in 1 .. l /\ c2[i] = c[i] /\ c[i] \in D \ {d}
      BY <1>1, <1>11, <2>1
    <3>2. c[i] # n
      <4>1. k + 1 \in 1 .. l => c[i] # c[k + 1]
        BY <1>1, <2>1
      <4>2. k # l => k + 1 \in 1 .. l
        OBVIOUS
      <4> QED
        BY <1>1, <3>1, <4>1, <4>2, StoreAssumption DEF NextOf
    <3>3. ds2[c2[i]].prev = PrevOf(c, i) /\ ds2[c2[i]].text = ds[c[i]].text
      BY <1>1, <1>5, <3>1, <3>2
    <3>4. PrevOf(c, i) = PrevOf(c2, i)
      <4>1. i # 1 => i - 1 \in 1 .. l - 1 /\ i - 1 < k
        BY <2>1
      <4>2. i # 1 => c2[i - 1] = c[i - 1]
        BY <1>11, <4>1
      <4> QED
        BY <4>2 DEF PrevOf
    <3>5. ds2[c2[i]].next = NextOf(c2, i)
      <4>1. CASE i = k - 1
        <5>1. p = c[i] /\ ds2[c2[i]].next = n
          <6>1. p = c[k - 1]
            BY <4>1 DEF PrevOf
          <6>2. p = c[i]
            BY <4>1, <6>1
          <6> QED
            BY <1>5, <3>1, <6>2
        <5>2. CASE k = l
          BY <1>10, <4>1, <5>1, <5>2 DEF NextOf
        <5>3. CASE k # l
          <6>1. k \in 1 .. l - 1 /\ i + 1 = k /\ i # l - 1
            BY <4>1, <5>3
          <6>2. c2[k] = c[k + 1]
            BY <1>12, <6>1
          <6>3. NextOf(c2, i) = c[k + 1]
            BY <1>10, <6>1, <6>2 DEF NextOf
          <6>4. n = c[k + 1]
            BY <5>3 DEF NextOf
          <6> QED
            BY <5>1, <6>3, <6>4
        <5> QED
          BY <5>2, <5>3
      <4>2. CASE i < k - 1
        <5>1. k # 1 /\ k - 1 \in 1 .. l /\ c[i] # c[k - 1]
          BY <1>1, <3>1, <4>2
        <5>2. c[i] # p
          BY <5>1 DEF PrevOf
        <5>3. i + 1 \in 1 .. l - 1 /\ i + 1 < k /\ i # l /\ i # l - 1
          BY <4>2
        <5>4. c2[i + 1] = c[i + 1]
          BY <1>11, <5>3
        <5>5. NextOf(c, i) = NextOf(c2, i)
          BY <1>10, <5>3, <5>4 DEF NextOf
        <5> QED
          BY <1>1, <1>5, <3>1, <5>2, <5>5
      <4> QED
        BY <2>1, <4>1, <4>2
    <3> QED
      BY <2>1, <3>1, <3>3, <3>4, <3>5
  <2>2. CASE i >= k
    <3> PICK j \in 1 .. l : j = i + 1 /\ j > k
      BY <2>2
    <3>1. c2[i] = c[j] /\ c[j] \in D \ {d}
      BY <1>1, <1>12, <2>2
    <3>2. c[j] # p
      <4>1. k - 1 \in 1 .. l => c[j] # c[k - 1]
        BY <1>1
      <4>2. k # 1 => k - 1 \in 1 .. l
        OBVIOUS
      <4> QED
        BY <1>1, <3>1, <4>1, <4>2, StoreAssumption DEF PrevOf
    <3>3. ds2[c2[i]].next = NextOf(c, j) /\ ds2[c2[i]].text = ds[c[j]].text
      BY <1>1, <1>5, <3>1, <3>2
    <3>4. NextOf(c, j) = NextOf(c2, i)
      <4>1. j # l => i + 1 \in 1 .. l - 1 /\ i + 1 >= k /\ (i + 1) + 1 = j + 1
        BY <2>2
      <4>2. j # l => c2[i + 1] = c[j + 1]
        BY <1>12, <4>1
      <4>3. j = l <=> i = l - 1
        OBVIOUS
      <4> QED
        BY <1>10, <4>2, <4>3 DEF NextOf
    <3>5. ds2[c2[i]].prev = PrevOf(c2, i)
      <4>1. CASE j = k + 1
        <5>1. n = c[j]
          BY <4>1 DEF NextOf
        <5>2. ds2[c2[i]].prev = p
          BY <1>5, <3>1, <5>1
        <5>3. k # 1 => k - 1 \in 1 .. l - 1 /\ k - 1 < k
          OBVIOUS
        <5>4. k # 1 => c2[k - 1] = c[k - 1]
          BY <1>11, <5>3
        <5>5. i = k
          BY <4>1
        <5> QED
          BY <5>2, <5>4, <5>5 DEF PrevOf
      <4>2. CASE j > k + 1
        <5>1. k # l /\ k + 1 \in 1 .. l /\ c[j] # c[k + 1]
          BY <1>1, <4>2
        <5>2. c[j] # n
          BY <5>1 DEF NextOf
        <5>3. j # 1 /\ i # 1 /\ i - 1 \in 1 .. l - 1 /\ i - 1 >= k /\ (i - 1) + 1 = j - 1
          BY <4>2
        <5>4. c2[i - 1] = c[j - 1]
          BY <1>12, <5>3
        <5>5. PrevOf(c, j) = PrevOf(c2, i)
          BY <5>3, <5>4 DEF PrevOf
        <5> QED
          BY <1>1, <1>5, <3>1, <5>2, <5>5
      <4> QED
        BY <4>1, <4>2
    <3>6. ~ i < k
      BY <2>2
    <3> QED
      BY <3>1, <3>3, <3>4, <3>5, <3>6
  <2> QED
    BY <2>1, <2>2
<1>21. Linked(ds2, c2)
  <2>1. Len(c2) = l - 1 /\ l - 1 > 0
    BY <1>10
  <2> HIDE DEF d
  <2> QED
    BY <1>4, <1>10, <1>15, <1>20, <2>1 DEF Linked
<1>22. TextsIn(ds2, c2) = Dropped(TextsIn(ds, c), k)
  <2> PICK t : t = TextsIn(ds, c)
    OBVIOUS
  <2>1. Len(t) = l /\ \A i \in 1 .. l : t[i] = ds[c[i]].text
    <3>1. t = [i \in 1 .. l |-> ds[c[i]].text]
      BY DEF TextsIn
    <3> QED
      BY <3>1
  <2>2. \A i \in 1 .. l - 1 : (IF i < k THEN ds[c[i]].text ELSE ds[c[i + 1]].text)
                            = (IF i < k THEN t[i] ELSE t[i + 1])
    BY <2>1
  <2>3. TextsIn(ds2, c2) = [i \in 1 .. l - 1 |-> IF i < k THEN t[i] ELSE t[i + 1]]
    BY <1>10, <1>20, <2>2 DEF TextsIn
  <2> QED
    BY <2>1, <2>3 DEF Dropped
<1> QED
  BY <1>6, <1>14, <1>21, <1>22 DEF c2

Exchange(ds, c, k, d, s, size) ==
  Without({c[k]}, SetNext(ds[c[k]].prev, d, SetPrev(ds[c[k]].next, d,
    Put(d, [ds[c[k]] EXCEPT !.text = s, !.room = size], ds))))

Replaced(c, k, d) == [i \in 1 .. Len(c) |-> IF i = k THEN d ELSE c[i]]

\* Another descriptor takes the place of that of line k.
LEMMA LinkExchanged ==
  ASSUME NEW ds, Heap(ds), NEW c, Linked(ds, c), NEW k \in 1 .. Len(c),
         NEW d \in Descs, d \notin DOMAIN ds, NEW s \in Strings,
         NEW size \in Nat, Len(s) <= size, NEW ds2, ds2 = Exchange(ds, c, k, d, s, size)
  PROVE  /\ Heap(ds2) /\ Linked(ds2, Replaced(c, k, d)) /\ Kept(ds, c, ds2, Replaced(c, k, d))
         /\ TextsIn(ds2, Replaced(c, k, d)) = Replaced(TextsIn(ds, c), k, s)
<1> DEFINE old == c[k]
           p == PrevOf(c, k)
           n == NextOf(c, k)
           r == [ds[old] EXCEPT !.text = s, !.room = size]
           f == Put(d, r, ds)
<1> PICK D \in SUBSET Descs : D = DOMAIN ds
  BY DEF Heap
<1> PICK l \in Nat : l = Len(c) /\ l > 0
  BY DEF Linked
<1>1. /\ \A i \in 1 .. l : c[i] \in D /\ c[i] # d
      /\ \A i, j \in 1 .. l : c[i] = c[j] => i = j
      /\ \A i \in 1 .. l : ds[c[i]].prev = PrevOf(c, i) /\ ds[c[i]].next = NextOf(c, i)
      /\ c \in Seq(Descs) /\ ds \in [D -> Record] /\ old \in D
  BY DEF Linked, Heap
<1>2. /\ p \in (D \ {old}) \cup {Null} /\ n \in (D \ {old}) \cup {Null}
      /\ (p = Null \/ In(p, c)) /\ (n = Null \/ In(n, c))
  BY LinksIn
<1>3. ds[old].prev = p /\ ds[old].next = n
  BY <1>1
<1>4. r \in Record /\ r.prev = p /\ r.next = n /\ r.text = s /\ r.room = size
  <2>1. ds[old] \in Record
    BY <1>1
  <2> HIDE DEF old, p, n
  <2> QED
    BY <1>3, <2>1 DEF Record, Texts
<1> PICK E \in SUBSET Descs : E = D \cup {d}
  OBVIOUS
<1>5. f \in [E -> Record] /\ f[d] = r /\ \A e \in D : f[e] = ds[e]
  <2> HIDE DEF r
  <2>1. f = [e \in E |-> IF e = d THEN r ELSE ds[e]]
    BY DEF Put
  <2> QED
    BY <1>1, <1>4, <2>1
<1> HIDE DEF f
<1> PICK g : g = SetNext(p, d, SetPrev(n, d, f))
  OBVIOUS
<1>6. g \in [E -> Record] /\ Spliced(g, f, p, d, n, d)
  <2>1. p \in E \cup {Null} /\ n \in E \cup {Null} /\ d \in Link
    BY <1>2 DEF Link
  <2> HIDE DEF p, n
  <2>2. /\ SetNext(p, d, SetPrev(n, d, f)) \in [E -> Record]
        /\ Spliced(SetNext(p, d, SetPrev(n, d, f)), f, p, d, n, d)
    BY <1>5, <2>1, Splices
  <2> QED
    BY <2>2
<1> PICK F \in SUBSET Descs : F = (D \cup {d}) \ {old}
  OBVIOUS
<1>7. DOMAIN ds2 = F /\ ds2 \in [F -> Record] /\ \A e \in F : ds2[e] = g[e]
  <2>1. ds2 = Without({old}, g)
    BY <1>3 DEF Exchange, f
  <2>2. DOMAIN g \ {old} = F
    BY <1>6
  <2>3. ds2 = [e \in F |-> g[e]]
    BY <2>1, <2>2 DEF Without
  <2>4. \A e \in F : g[e] \in Record
    BY <1>6
  <2> QED
    BY <2>3, <2>4
<1>8. \A e \in F : /\ ds2[e].prev = IF e = n THEN d ELSE f[e].prev
                   /\ ds2[e].next = IF e = p THEN d ELSE f[e].next
                   /\ ds2[e].text = f[e].text /\ ds2[e].room = f[e].room
                   /\ e # n /\ e # p => ds2[e] = f[e]
  <2>1. \A e \in F : e \in E
    OBVIOUS
  <2>2. DOMAIN f = E
    BY <1>5
  <2> HIDE DEF p, n, old
  <2> QED
    BY <1>6, <1>7, <2>1, <2>2 DEF Spliced
<1>9. d \notin D /\ d # old /\ d \in F /\ p # d /\ n # d
  BY <1>1, <1>2, StoreAssumption
<1>10. ds2[d].prev = p /\ ds2[d].next = n /\ ds2[d].text = s /\ ds2[d].room = size
  <2> HIDE DEF p, n, old, r
  <2> QED
    BY <1>4, <1>5, <1>8, <1>9
<1>11. Heap(ds2)
  <2>1. ASSUME NEW e \in F PROVE Len(ds2[e].text) <= ds2[e].room
    <3>1. CASE e = d
      BY <1>10, <3>1
    <3>2. CASE e # d
      <4>1. e \in D /\ f[e] = ds[e]
        BY <1>5, <3>2
      <4> QED
        BY <1>8, <4>1 DEF Heap
    <3> QED
      BY <3>1, <3>2
  <2> QED
    BY <1>7, <2>1 DEF Heap
<1> DEFINE c2 == Replaced(c, k, d)
<1>12. /\ c2 \in Seq(Descs) /\ Len(c2) = l
       /\ \A i \in 1 .. l : c2[i] = IF i = k THEN d ELSE c[i]
  <2>1. c2 = [i \in 1 .. l |-> IF i = k THEN d ELSE c[i]]
    BY DEF Replaced
  <2>2. \A i \in 1 .. l : c[i] \in Descs
    BY <1>1
  <2>3. c2 \in [1 .. l -> Descs]
    BY <2>1, <2>2
  <2> QED
    BY <2>1, <2>3
<1> HIDE DEF c2
<1>13. \A i \in 1 .. l : i # k => c[i] # old /\ c2[i] = c[i]
  BY <1>1, <1>12
<1>14. \A e : In(e, c2) <=> e = d \/ (e # old /\ In(e, c))
  <2>1. In(d, c2)
    BY <1>12 DEF In
  <2>2. ASSUME NEW e, e # old, In(e, c) PROVE In(e, c2)
    BY <1>12, <2>2 DEF In
  <2>3. ASSUME NEW e, In(e, c2) PROVE e = d \/ (e # old /\ In(e, c))
    BY <1>12, <1>13, <2>3 DEF In
  <2> QED
    BY <2>1, <2>2, <2>3
<1>15. Kept(ds, c, ds2, c2)
  <2>1. Null \notin D /\ In(old, c) /\ ~ In(d, c)
    BY <1>1, StoreAssumption DEF In
  <2>2. \A e \in D : ~ In(e, c) => e \in F /\ e # n /\ e # p /\ e # d
    BY <1>2, <1>9, <2>1
  <2> HIDE DEF p, n, old
  <2> QED
    BY <1>5, <1>7, <1>8, <1>14, <2>2 DEF Kept
<1>16. \A i, j \in 1 .. l : c2[i] = c2[j] => i = j
  BY <1>1, <1>12
<1>17. ASSUME NEW i \in 1 .. l
       PROVE  /\ c2[i] \in F /\ ds2[c2[i]].prev = PrevOf(c2, i) /\ ds2[c2[i]].next = NextOf(c2, i)
              /\ ds2[c2[i]].text = IF i = k THEN s ELSE ds[c[i]].text
  <2>1. CASE i = k
    <3>1. c2[i] = d
      BY <1>12, <2>1
    <3>2. PrevOf(c2, i) = p
      <4>1. k # 1 => k - 1 \in 1 .. l /\ k - 1 # k
        OBVIOUS
      <4> QED
        BY <1>12, <2>1, <4>1 DEF PrevOf
    <3>3. NextOf(c2, i) = n
      <4>1. k # l => k + 1 \in 1 .. l /\ k + 1 # k
        OBVIOUS
      <4> QED
        BY <1>12, <2>1, <4>1 DEF NextOf
    <3> QED
      BY <1>9, <1>10, <2>1, <3>1, <3>2, <3>3
  <2>2. CASE i # k
    <3>1. c2[i] = c[i] /\ c[i] \in D /\ c[i] # d /\ c[i] # old /\ c[i] \in F /\ f[c[i]] = ds[c[i]]
      BY <1>1, <1>5, <1>13, <2>2
    <3>2. ds2[c2[i]].prev = PrevOf(c2, i)
      <4>1. CASE i = k + 1
        <5>1. k # l /\ i # 1 /\ i - 1 = k
          BY <4>1
        <5>2. n = c[i] /\ PrevOf(c2, i) = d
          BY <1>12, <4>1, <5>1 DEF NextOf, PrevOf
        <5> QED
          BY <1>8, <3>1, <5>2
      <4>2. CASE i # k + 1
        <5>1. c[i] # n
          <6>1. k # l => k + 1 \in 1 .. l /\ c[i] # c[k + 1]
            BY <1>1, <4>2
          <6> QED
            BY <1>1, <6>1, StoreAssumption DEF NextOf
        <5>2. ds2[c2[i]].prev = PrevOf(c, i)
          BY <1>1, <1>8, <3>1, <5>1
        <5>3. i # 1 => i - 1 \in 1 .. l /\ i - 1 # k
          BY <4>2
        <5>4. PrevOf(c, i) = PrevOf(c2, i)
          BY <1>12, <5>3 DEF PrevOf
        <5> QED
          BY <5>2, <5>4
      <4> QED
        BY <4>1, <4>2
    <3>3. ds2[c2[i]].next = NextOf(c2, i)
      <4>1. CASE i = k - 1
        <5>1. k # 1 /\ i # l /\ i + 1 = k
          BY <4>1
        <5>2. p = c[k - 1] /\ NextOf(c2, i) = d
          BY <1>12, <5>1 DEF NextOf, PrevOf
        <5>3. p = c[i]
          BY <4>1, <5>2
        <5> QED
          BY <1>8, <3>1, <5>2, <5>3
      <4>2. CASE i # k - 1
        <5>1. c[i] # p
          <6>1. k # 1 => k - 1 \in 1 .. l /\ c[i] # c[k - 1]
            BY <1>1, <4>2
          <6> QED
            BY <1>1, <6>1, StoreAssumption DEF PrevOf
        <5>2. ds2[c2[i]].next = NextOf(c, i)
          BY <1>1, <1>8, <3>1, <5>1
        <5>3. i # l => i + 1 \in 1 .. l /\ i + 1 # k
          BY <4>2
        <5>4. NextOf(c, i) = NextOf(c2, i)
          BY <1>12, <5>3 DEF NextOf
        <5> QED
          BY <5>2, <5>4
      <4> QED
        BY <4>1, <4>2
    <3> QED
      BY <1>8, <2>2, <3>1, <3>2, <3>3
  <2> QED
    BY <2>1, <2>2
<1>18. Linked(ds2, c2)
  BY <1>7, <1>12, <1>16, <1>17 DEF Linked
<1>19. TextsIn(ds2, c2) = Replaced(TextsIn(ds, c), k, s)
  <2> PICK t : t = TextsIn(ds, c)
    OBVIOUS
  <2>1. Len(t) = l /\ \A i \in 1 .. l : t[i] = ds[c[i]].text
    <3>1. t = [i \in 1 .. l |-> ds[c[i]].text]
      BY DEF TextsIn
    <3> QED
      BY <3>1
  <2>2. TextsIn(ds2, c2) = [i \in 1 .. l |-> IF i = k THEN s ELSE t[i]]
    BY <1>12, <1>17, <2>1 DEF TextsIn
  <2> QED
    BY <2>1, <2>2 DEF Replaced
<1> QED
  BY <1>11, <1>15, <1>18, <1>19 DEF c2

\* Line k is changed in its place.
Rewritten(ds, c, k, s) == [ds EXCEPT ![c[k]].text = s]

LEMMA LinkRewritten ==
  ASSUME NEW ds, Heap(ds), NEW c, Linked(ds, c), NEW k \in 1 .. Len(c), NEW s \in Strings,
         Len(s) <= ds[c[k]].room, NEW ds2, ds2 = Rewritten(ds, c, k, s)
  PROVE  /\ Heap(ds2) /\ Linked(ds2, c) /\ Kept(ds, c, ds2, c)
         /\ TextsIn(ds2, c) = Replaced(TextsIn(ds, c), k, s)
<1> PICK D \in SUBSET Descs : D = DOMAIN ds /\ ds \in [D -> Record]
  BY DEF Heap
<1> PICK l \in Nat : l = Len(c) /\ l > 0
  BY DEF Linked
<1> PICK d \in D : d = c[k]
  BY DEF Linked
<1> PICK r : r = [ds[d] EXCEPT !.text = s]
  OBVIOUS
<1>1. /\ r \in Record /\ r.prev = ds[d].prev /\ r.next = ds[d].next
      /\ r.text = s /\ r.room = ds[d].room
  <2>1. ds[d] \in Record
    OBVIOUS
  <2> QED
    BY <2>1 DEF Record, Texts
<1>2. /\ DOMAIN ds2 = D /\ ds2 \in [D -> Record] /\ ds2[d] = r
      /\ \A e \in D : e # d => ds2[e] = ds[e]
  <2>1. ds2 = [ds EXCEPT ![d] = r]
    BY DEF Rewritten
  <2> QED
    BY <1>1, <2>1
<1>3. Heap(ds2)
  BY <1>1, <1>2 DEF Heap
<1>4. \A e \in D : ds2[e].prev = ds[e].prev /\ ds2[e].next = ds[e].next
  BY <1>1, <1>2
<1>5. Linked(ds2, c)
  BY <1>2, <1>4 DEF Linked
<1>6. Kept(ds, c, ds2, c)
  <2>1. In(d, c)
    BY DEF In
  <2> QED
    BY <1>2, <2>1 DEF Kept
<1>7. TextsIn(ds2, c) = Replaced(TextsIn(ds, c), k, s)
  <2> PICK t : t = TextsIn(ds, c)
    OBVIOUS
  <2>1. Len(t) = l /\ \A i \in 1 .. l : t[i] = ds[c[i]].text
    <3>1. t = [i \in 1 .. l |-> ds[c[i]].text]
      BY DEF TextsIn
    <3> QED
      BY <3>1
  <2>2. ASSUME NEW i \in 1 .. l PROVE ds2[c[i]].text = IF i = k THEN s ELSE t[i]
    <3>1. c[i] \in D /\ (i # k => c[i] # d)
      BY DEF Linked
    <3> QED
      BY <1>1, <1>2, <2>1, <3>1
  <2>3. TextsIn(ds2, c) = [i \in 1 .. l |-> IF i = k THEN s ELSE t[i]]
    BY <2>2 DEF TextsIn
  <2> QED
    BY <2>1, <2>3 DEF Replaced
<1> QED
  BY <1>3, <1>5, <1>6, <1>7

\* All lines are given back, and one that is empty is asked for.
LEMMA LinkReset ==
  ASSUME NEW ds, Heap(ds), NEW c, Linked(ds, c), NEW kept, kept = Without({c[i] : i \in 1 .. Len(c)}, ds),
         NEW d \in Descs \ DOMAIN kept, NEW ds2,
         ds2 = Put(d, [prev |-> Null, next |-> Null, text |-> <<>>, room |-> 0], kept)
  PROVE  /\ Heap(ds2) /\ Linked(ds2, <<d>>) /\ Kept(ds, c, ds2, <<d>>)
         /\ TextsIn(ds2, <<d>>) = << <<>> >>
<1> PICK D \in SUBSET Descs : D = DOMAIN ds /\ ds \in [D -> Record]
  BY DEF Heap
<1> PICK r : r = [prev |-> Null, next |-> Null, text |-> <<>>, room |-> 0]
  OBVIOUS
<1>1. /\ r \in Record /\ r.prev = Null /\ r.next = Null /\ r.text = <<>> /\ r.room = 0
  BY DEF Record, Texts, Link
<1> PICK E \in SUBSET D : E = {e \in D : ~ In(e, c)}
  OBVIOUS
<1>2. DOMAIN kept = E /\ \A e \in E : kept[e] = ds[e]
  <2>1. D \ {c[i] : i \in 1 .. Len(c)} = E
    BY DEF In
  <2>2. kept = [e \in E |-> ds[e]]
    BY <2>1 DEF Without
  <2> QED
    BY <2>2
<1>3. /\ d \notin E /\ DOMAIN ds2 = E \cup {d} /\ ds2 \in [E \cup {d} -> Record]
      /\ ds2[d] = r /\ \A e \in E : ds2[e] = ds[e]
  <2>1. ds2 = [e \in E \cup {d} |-> IF e = d THEN r ELSE kept[e]]
    BY <1>2 DEF Put
  <2>2. d \notin E
    BY <1>2
  <2>3. \A e \in E : kept[e] = ds[e] /\ ds[e] \in Record
    BY <1>2
  <2>4. DOMAIN ds2 = E \cup {d} /\ ds2[d] = r /\ \A e \in E : ds2[e] = ds[e]
    BY <2>1, <2>2, <2>3
  <2>5. ds2 = [e \in E \cup {d} |-> ds2[e]]
    BY <2>1
  <2>6. \A e \in E \cup {d} : ds2[e] \in Record
    BY <1>1, <2>3, <2>4
  <2> QED
    BY <2>2, <2>4, <2>5, <2>6
<1>4. Heap(ds2)
  <2>1. Len(<<>>) <= 0
    OBVIOUS
  <2>2. \A e \in E \cup {d} : Len(ds2[e].text) <= ds2[e].room
    BY <1>1, <1>3, <2>1 DEF Heap
  <2> QED
    BY <1>3, <2>2 DEF Heap
<1>5. /\ <<d>> \in Seq(Descs) /\ Len(<<d>>) = 1 /\ <<d>>[1] = d
      /\ \A i \in 1 .. Len(<<d>>) : i = 1
  OBVIOUS
<1> PICK c2 : c2 = <<d>>
  OBVIOUS
<1>6. Linked(ds2, c2)
  <2>1. PrevOf(c2, 1) = Null /\ NextOf(c2, 1) = Null
    BY <1>5 DEF PrevOf, NextOf
  <2>2. c2[1] = d /\ d \in DOMAIN ds2 /\ ds2[d].prev = Null /\ ds2[d].next = Null
    BY <1>1, <1>3, <1>5
  <2>3. c2 \in Seq(Descs) /\ Len(c2) = 1
    BY <1>5
  <2>4. \A i \in 1 .. Len(c2) : i = 1
    BY <1>5
  <2>5. \A i, j \in 1 .. Len(c2) : c2[i] = c2[j] => i = j
    BY <2>4
  <2>6. \A i \in 1 .. Len(c2) : /\ c2[i] \in DOMAIN ds2
                                /\ ds2[c2[i]].prev = PrevOf(c2, i) /\ ds2[c2[i]].next = NextOf(c2, i)
    BY <2>1, <2>2, <2>4
  <2> QED
    BY <2>3, <2>5, <2>6 DEF Linked
<1>7. \A e : In(e, c2) <=> e = d
  BY <1>5 DEF In
<1>8. Kept(ds, c, ds2, c2)
  BY <1>3, <1>7 DEF Kept
<1>9. TextsIn(ds2, c2) = << <<>> >>
  <2>1. TextsIn(ds2, c2) = [i \in 1 .. 1 |-> ds2[c2[i]].text]
    BY <1>5 DEF TextsIn
  <2>2. \A i \in 1 .. 1 : ds2[c2[i]].text = <<>>
    BY <1>1, <1>3, <1>5
  <2>3. << <<>> >> = [i \in 1 .. 1 |-> <<>>]
    OBVIOUS
  <2> QED
    BY <2>1, <2>2, <2>3
<1> QED
  BY <1>4, <1>6, <1>8, <1>9

----------------------------------------------------------------------------
(* The invariant.                                                           *)

\* A request to buffer b, that makes its list the list cb.
Served(b, c, cb) ==
  /\ cb \in Seq(Descs) /\ Heap(desc') /\ Linked(desc', cb) /\ Kept(desc, c[b], desc', cb)
  /\ \E m : mbuf' = [mbuf EXCEPT ![b] = m] /\ Placed(m, cb)

\* The other buffers keep their lists and their lines.
LEMMA OthersKept ==
  ASSUME NEW c, Chained(desc, mbuf, c), NEW b \in Bufs, NEW cb, Served(b, c, cb), NEW a \in Bufs, a # b
  PROVE  /\ mbuf'[a] = mbuf[a]
         /\ \A i \in 1 .. Len(c[a]) : /\ c[a][i] \in DOMAIN desc'
                                      /\ desc'[c[a][i]] = desc[c[a][i]] /\ ~ In(c[a][i], cb)
<1>1. mbuf'[a] = mbuf[a]
  BY DEF Served, Chained
<1>2. ASSUME NEW i \in 1 .. Len(c[a])
      PROVE  /\ c[a][i] \in DOMAIN desc'
             /\ desc'[c[a][i]] = desc[c[a][i]] /\ ~ In(c[a][i], cb)
  <2> PICK d : d = c[a][i]
    OBVIOUS
  <2>1. d \in DOMAIN desc /\ In(d, c[a])
    BY DEF Chained, Linked, In
  <2>2. ~ In(d, c[b])
    BY <2>1 DEF Chained
  <2>3. d \in DOMAIN desc' /\ desc'[d] = desc[d] /\ ~ In(d, cb)
    BY <2>1, <2>2 DEF Served, Kept
  <2> QED
    BY <2>3
<1> QED
  BY <1>1, <1>2

LEMMA ServedChained ==
  ASSUME NEW c, Chained(desc, mbuf, c), NEW b \in Bufs, NEW cb, Served(b, c, cb)
  PROVE  Chained(desc', mbuf', [c EXCEPT ![b] = cb])
<1> PICK m : mbuf' = [mbuf EXCEPT ![b] = m] /\ Placed(m, cb)
  BY DEF Served
<1> PICK e : e = [c EXCEPT ![b] = cb]
  OBVIOUS
<1>1. c \in [Bufs -> Seq(Descs)] /\ cb \in Seq(Descs) /\ mbuf = [x \in Bufs |-> mbuf[x]]
  BY DEF Chained, Served
<1>2. e \in [Bufs -> Seq(Descs)] /\ e[b] = cb /\ \A a \in Bufs : a # b => e[a] = c[a]
  BY <1>1
<1>3. /\ mbuf' = [x \in Bufs |-> mbuf'[x]] /\ mbuf'[b] = m
      /\ \A a \in Bufs : a # b => mbuf'[a] = mbuf[a]
  BY <1>1
<1>4. \A a \in Bufs : Linked(desc', e[a]) /\ Placed(mbuf'[a], e[a])
  <2> TAKE a \in Bufs
  <2>1. CASE a = b
    BY <1>2, <1>3, <2>1 DEF Served
  <2>2. CASE a # b
    <3>1. \A i \in 1 .. Len(c[a]) : c[a][i] \in DOMAIN desc' /\ desc'[c[a][i]] = desc[c[a][i]]
      BY <2>2, OthersKept
    <3>2. Linked(desc, c[a]) /\ Placed(mbuf[a], c[a])
      BY DEF Chained
    <3>3. Linked(desc', c[a])
      BY <3>1, <3>2 DEF Linked
    <3> QED
      BY <1>2, <1>3, <2>2, <3>2, <3>3
  <2> QED
    BY <2>1, <2>2
<1>5. \A d \in DOMAIN desc' : \E a \in Bufs : In(d, e[a])
  <2> TAKE d \in DOMAIN desc'
  <2>1. CASE In(d, cb)
    BY <1>2, <2>1
  <2>2. CASE ~ In(d, cb)
    <3>1. d \in DOMAIN desc /\ ~ In(d, c[b])
      BY <2>2 DEF Served, Kept
    <3>2. PICK a \in Bufs : In(d, c[a])
      BY <3>1 DEF Chained
    <3>3. a # b
      BY <3>1, <3>2
    <3> QED
      BY <1>2, <3>2, <3>3
  <2> QED
    BY <2>1, <2>2
<1>6. ASSUME NEW x \in Bufs, NEW y \in Bufs, NEW d, In(d, e[x]), In(d, e[y]) PROVE x = y
  <2>1. \A a \in Bufs : a # b /\ In(d, c[a]) => ~ In(d, cb)
    <3> SUFFICES ASSUME NEW a \in Bufs, a # b, In(d, c[a]) PROVE ~ In(d, cb)
      OBVIOUS
    <3>1. PICK i \in 1 .. Len(c[a]) : c[a][i] = d
      BY DEF In
    <3>2. ~ In(c[a][i], cb)
      BY OthersKept
    <3> QED
      BY <3>1, <3>2
  <2>2. \A u, v \in Bufs : In(d, c[u]) /\ In(d, c[v]) => u = v
    BY DEF Chained
  <2> QED
    BY <1>2, <1>6, <2>1, <2>2
<1> QED
  <2>1. Heap(desc')
    BY DEF Served
  <2> QED
    BY <1>2, <1>3, <1>4, <1>5, <1>6, <2>1 DEF Chained

\* What the operators on sequences of Lines do, place by place.
LEMMA InsertedIs ==
  ASSUME NEW S, NEW t \in Seq(S), NEW k \in 0 .. Len(t), NEW s \in S
  PROVE  Inserted(t, k, s) = Abstract!InsertAt(t, k + 1, s)
<1> PICK l \in Nat : l = Len(t)
  OBVIOUS
<1> DEFINE front == SubSeq(t, 1, k)
           back == SubSeq(t, k + 1, l)
<1>1. \A i \in 1 .. l : t[i] \in S
  OBVIOUS
<1>2. front \in Seq(S) /\ Len(front) = k /\ \A i \in 1 .. k : front[i] = t[i]
  <2>1. 1 \in Int /\ k \in Int /\ \A i \in 1 .. k : t[i] \in S
    BY <1>1
  <2> QED
    BY <2>1, SubSeqProperties
<1>3. back \in Seq(S) /\ Len(back) = l - k /\ \A i \in 1 .. l - k : back[i] = t[k + i]
  <2>1. k + 1 \in Int /\ l \in Int /\ \A i \in k + 1 .. l : t[i] \in S
    BY <1>1
  <2> QED
    BY <2>1, SubSeqProperties
<1> PICK u : u = Abstract!InsertAt(t, k + 1, s)
  OBVIOUS
<1>4. u = (front \o <<s>>) \o back
  <2>1. (k + 1) - 1 = k
    OBVIOUS
  <2> QED
    BY <2>1 DEF Abstract!InsertAt
<1> HIDE DEF front, back
<1>5. <<s>> \in Seq(S) /\ Len(<<s>>) = 1 /\ <<s>>[1] = s
  OBVIOUS
<1>13. PICK mid : mid = front \o <<s>>
  OBVIOUS
<1>6. /\ mid \in Seq(S) /\ Len(mid) = k + 1
      /\ \A i \in 1 .. k + 1 : mid[i] = IF i <= k THEN front[i] ELSE <<s>>[i - k]
  <2>1. /\ front \o <<s>> \in Seq(S) /\ Len(front \o <<s>>) = k + 1
        /\ \A i \in 1 .. k + 1 : (front \o <<s>>)[i] = IF i <= k THEN front[i] ELSE <<s>>[i - k]
    BY <1>2, <1>5, ConcatProperties
  <2> QED
    BY <1>13, <2>1
<1>7. /\ u \in Seq(S) /\ Len(u) = l + 1
      /\ \A i \in 1 .. l + 1 : u[i] = IF i <= k + 1 THEN mid[i] ELSE back[i - (k + 1)]
  <2>1. /\ mid \o back \in Seq(S) /\ Len(mid \o back) = Len(mid) + Len(back)
        /\ \A i \in 1 .. Len(mid) + Len(back) :
             (mid \o back)[i] = IF i <= Len(mid) THEN mid[i] ELSE back[i - Len(mid)]
    BY <1>3, <1>6, ConcatProperties
  <2>2. Len(mid) + Len(back) = l + 1
    BY <1>3, <1>6
  <2>3. u = mid \o back
    BY <1>4, <1>13
  <2> QED
    BY <1>6, <2>1, <2>2, <2>3
<1>8. ASSUME NEW i \in 1 .. l + 1
      PROVE  u[i] = IF i <= k THEN t[i] ELSE IF i = k + 1 THEN s ELSE t[i - 1]
  <2>1. CASE i <= k
    <3>1. i \in 1 .. k /\ i \in 1 .. k + 1 /\ i <= k + 1
      BY <2>1
    <3>2. u[i] = mid[i] /\ mid[i] = front[i] /\ front[i] = t[i]
      BY <1>2, <1>6, <1>7, <2>1, <3>1
    <3> QED
      BY <2>1, <3>2
  <2>2. CASE i = k + 1
    <3>1. i \in 1 .. k + 1 /\ i <= k + 1 /\ ~ i <= k /\ i - k = 1
      BY <2>2
    <3>2. u[i] = mid[i] /\ mid[i] = <<s>>[i - k]
      BY <1>6, <1>7, <3>1
    <3> QED
      BY <1>5, <2>2, <3>1, <3>2
  <2>3. CASE i > k + 1
    <3>1. i - (k + 1) \in 1 .. l - k /\ k + (i - (k + 1)) = i - 1
      BY <2>3
    <3> QED
      BY <1>3, <1>7, <2>3, <3>1
  <2> QED
    BY <2>1, <2>2, <2>3
<1>9. u = [i \in 1 .. l + 1 |-> u[i]]
  BY <1>7
<1> QED
  BY <1>8, <1>9 DEF Inserted

LEMMA DroppedIs ==
  ASSUME NEW S, NEW t \in Seq(S), NEW k \in 1 .. Len(t)
  PROVE  /\ Dropped(t, k) = Abstract!RemoveAt(t, k)
         /\ k = Len(t) => Dropped(t, k) = Abstract!Front(t)
<1> PICK l \in Nat : l = Len(t)
  OBVIOUS
<1> DEFINE front == SubSeq(t, 1, k - 1)
           back == SubSeq(t, k + 1, l)
<1>1. \A i \in 1 .. l : t[i] \in S
  OBVIOUS
<1>2. front \in Seq(S) /\ Len(front) = k - 1 /\ \A i \in 1 .. k - 1 : front[i] = t[i]
  <2>1. 1 \in Int /\ k - 1 \in Int /\ \A i \in 1 .. k - 1 : t[i] \in S
    BY <1>1
  <2> QED
    BY <2>1, SubSeqProperties
<1>3. back \in Seq(S) /\ Len(back) = l - k /\ \A i \in 1 .. l - k : back[i] = t[k + i]
  <2>1. k + 1 \in Int /\ l \in Int /\ \A i \in k + 1 .. l : t[i] \in S
    BY <1>1
  <2> QED
    BY <2>1, SubSeqProperties
<1> PICK u : u = Abstract!RemoveAt(t, k)
  OBVIOUS
<1>4. u = front \o back
  BY DEF Abstract!RemoveAt
<1>10. Abstract!Front(t) = SubSeq(t, 1, l - 1)
  BY DEF Abstract!Front
<1>11. k = l => Abstract!Front(t) = front
  BY <1>10
<1> HIDE DEF front, back
<1>7. /\ u \in Seq(S) /\ Len(u) = l - 1
      /\ \A i \in 1 .. l - 1 : u[i] = IF i <= k - 1 THEN front[i] ELSE back[i - (k - 1)]
  <2>1. /\ front \o back \in Seq(S) /\ Len(front \o back) = Len(front) + Len(back)
        /\ \A i \in 1 .. Len(front) + Len(back) :
             (front \o back)[i] = IF i <= Len(front) THEN front[i] ELSE back[i - Len(front)]
    BY <1>2, <1>3, ConcatProperties
  <2>2. Len(front) + Len(back) = l - 1
    BY <1>2, <1>3
  <2> QED
    BY <1>2, <1>4, <2>1, <2>2
<1>8. ASSUME NEW i \in 1 .. l - 1
      PROVE  u[i] = IF i < k THEN t[i] ELSE t[i + 1]
  <2>1. CASE i < k
    BY <1>2, <1>7, <2>1
  <2>2. CASE i >= k
    <3>1. i - (k - 1) \in 1 .. l - k /\ k + (i - (k - 1)) = i + 1
      BY <2>2
    <3> QED
      BY <1>3, <1>7, <2>2, <3>1
  <2> QED
    BY <2>1, <2>2
<1>9. u = [i \in 1 .. l - 1 |-> u[i]]
  BY <1>7
<1>12. Dropped(t, k) = u
  BY <1>8, <1>9 DEF Dropped
<1>13. ASSUME k = l PROVE Dropped(t, k) = front
  <2>1. front = [i \in 1 .. l - 1 |-> front[i]]
    BY <1>2, <1>13
  <2>2. \A i \in 1 .. l - 1 : front[i] = IF i < k THEN t[i] ELSE t[i + 1]
    BY <1>2, <1>13
  <2> QED
    BY <2>1, <2>2 DEF Dropped
<1> QED
  BY <1>11, <1>12, <1>13

\* The lines of a buffer are texts, as many as there are descriptors.
LEMMA TextsSeq ==
  ASSUME NEW ds, Heap(ds), NEW c, Linked(ds, c)
  PROVE  /\ TextsIn(ds, c) \in Seq(Texts) /\ Len(TextsIn(ds, c)) = Len(c)
         /\ \A i \in 1 .. Len(c) : TextsIn(ds, c)[i] = ds[c[i]].text
<1> PICK l \in Nat : l = Len(c)
  BY DEF Linked
<1>1. \A i \in 1 .. l : ds[c[i]].text \in Texts
  <2> TAKE i \in 1 .. l
  <2>1. ds[c[i]] \in Record
    BY DEF Linked, Heap
  <2> QED
    BY <2>1 DEF Record
<1>2. TextsIn(ds, c) = [i \in 1 .. l |-> ds[c[i]].text]
  BY DEF TextsIn
<1>3. TextsIn(ds, c) \in [1 .. l -> Texts]
  BY <1>1, <1>2
<1> QED
  BY <1>2, <1>3

----------------------------------------------------------------------------
(* The requests, one by one.                                                *)

\* What a request makes of the lines of its buffer is what Lines allows.
Answered(b, c, cb) ==
  Abstract!Request(TextsIn(desc, c[b]), TextsIn(desc', cb), mbuf'[b].curline)

LEMMA BufferFacts ==
  ASSUME NEW c, Chained(desc, mbuf, c), NEW b \in Bufs
  PROVE  /\ Heap(desc) /\ Linked(desc, c[b]) /\ Placed(mbuf[b], c[b])
         /\ c[b] \in Seq(Descs) /\ Len(c[b]) \in Nat /\ Len(c[b]) > 0
         /\ mbuf[b].head = c[b][1] /\ mbuf[b].tail = c[b][Len(c[b])]
         /\ mbuf[b].tailline = Len(c[b])
         /\ mbuf[b].curline \in 1 .. Len(c[b]) /\ mbuf[b].cur = c[b][mbuf[b].curline]
         /\ mbuf[b] = [head |-> c[b][1], tail |-> c[b][Len(c[b])], cur |-> mbuf[b].cur,
                       tailline |-> Len(c[b]), curline |-> mbuf[b].curline]
         /\ \A lnum \in 1 .. Len(c[b]) : Find(b, lnum) = c[b][lnum]
         /\ Chain(b) = c[b]
<1>1. Heap(desc) /\ Linked(desc, c[b]) /\ Placed(mbuf[b], c[b])
  BY DEF Chained
<1>2. c[b] \in Seq(Descs) /\ Len(c[b]) \in Nat /\ Len(c[b]) > 0
  BY <1>1 DEF Linked
<1>3. /\ mbuf[b].curline \in 1 .. Len(c[b])
      /\ mbuf[b] = [head |-> c[b][1], tail |-> c[b][Len(c[b])], cur |-> c[b][mbuf[b].curline],
                    tailline |-> Len(c[b]), curline |-> mbuf[b].curline]
  BY <1>1 DEF Placed
<1>4. \A lnum \in 1 .. Len(c[b]) : Find(b, lnum) = c[b][lnum]
  BY <1>1, FindFinds
<1>5. Chain(b) = c[b]
  BY <1>1, ChainIs
<1>6. /\ mbuf[b].head = c[b][1] /\ mbuf[b].tail = c[b][Len(c[b])]
      /\ mbuf[b].tailline = Len(c[b]) /\ mbuf[b].cur = c[b][mbuf[b].curline]
  <2> PICK n : n = mbuf[b].curline
    OBVIOUS
  <2>1. mbuf[b] = [head |-> c[b][1], tail |-> c[b][Len(c[b])], cur |-> c[b][n],
                   tailline |-> Len(c[b]), curline |-> n]
    BY <1>3
  <2> QED
    BY <2>1
<1> QED
  BY <1>1, <1>2, <1>3, <1>4, <1>5, <1>6

\* The function that is updated at one buffer.
LEMMA BufferUpdated ==
  ASSUME NEW c, Chained(desc, mbuf, c), NEW b \in Bufs, NEW m, mbuf' = [mbuf EXCEPT ![b] = m]
  PROVE  mbuf'[b] = m
  BY DEF Chained

\* The buffer when descriptor d, of line k, becomes the current one.
LEMMA AtIs ==
  ASSUME NEW m, NEW h, NEW t, NEW x, NEW n, NEW y, NEW d, NEW k,
         m = [head |-> h, tail |-> t, cur |-> x, tailline |-> n, curline |-> y]
  PROVE  At(m, d, k) = [head |-> h, tail |-> t, cur |-> d, tailline |-> n, curline |-> k]
<1>1. PICK e : e = [m EXCEPT !.cur = d]
  OBVIOUS
<1>2. e = [head |-> h, tail |-> t, cur |-> d, tailline |-> n, curline |-> y]
  BY <1>1
<1>3. [e EXCEPT !.curline = k] = [head |-> h, tail |-> t, cur |-> d, tailline |-> n, curline |-> k]
  BY <1>2
<1>4. At(m, d, k) = [e EXCEPT !.curline = k]
  BY <1>1, Zenon DEF At
<1> QED
  BY <1>3, <1>4

\* The buffer whose first or last descriptor may be the one that d replaces.
Ends(m, o, d) == [m EXCEPT !.head = IF @ = o THEN d ELSE @, !.tail = IF @ = o THEN d ELSE @]

LEMMA EndsAre ==
  ASSUME NEW m, NEW h, NEW t, NEW x, NEW n, NEW y, NEW o, NEW d,
         m = [head |-> h, tail |-> t, cur |-> x, tailline |-> n, curline |-> y]
  PROVE  Ends(m, o, d) =
           [head |-> IF h = o THEN d ELSE h, tail |-> IF t = o THEN d ELSE t,
            cur |-> x, tailline |-> n, curline |-> y]
<1>1. PICK u : u = IF h = o THEN d ELSE h
  OBVIOUS
<1>2. PICK v : v = IF t = o THEN d ELSE t
  OBVIOUS
<1>3. PICK e : e = [m EXCEPT !.head = u]
  OBVIOUS
<1>4. e = [head |-> u, tail |-> t, cur |-> x, tailline |-> n, curline |-> y]
  BY <1>3
<1>5. [e EXCEPT !.tail = v] = [head |-> u, tail |-> v, cur |-> x, tailline |-> n, curline |-> y]
  BY <1>4
<1>6. m.head = h /\ m.tail = t /\ e.tail = t
  BY <1>4
<1>7. e = [m EXCEPT !.head = IF @ = o THEN d ELSE @]
  BY <1>1, <1>3, <1>6, Zenon
<1>8. [e EXCEPT !.tail = IF @ = o THEN d ELSE @] = [e EXCEPT !.tail = v]
  BY <1>2, <1>6, Zenon
<1>9. [m EXCEPT !.head = IF @ = o THEN d ELSE @, !.tail = IF @ = o THEN d ELSE @] =
        [e EXCEPT !.tail = IF @ = o THEN d ELSE @]
  BY <1>2, <1>6, <1>7, <1>8, Zenon
<1> QED
  BY <1>1, <1>2, <1>5, <1>8, <1>9, Zenon DEF Ends

LEMMA MresetServed ==
  ASSUME NEW c, Chained(desc, mbuf, c), NEW b \in Bufs, Mreset(b)
  PROVE  \E cb : Served(b, c, cb) /\ Answered(b, c, cb)
<1>1. Heap(desc) /\ Linked(desc, c[b]) /\ Chain(b) = c[b] /\ c[b] \in Seq(Descs)
  BY BufferFacts
<1>2. Range(Chain(b)) = {c[b][i] : i \in 1 .. Len(c[b])}
  BY <1>1 DEF Range
<1>3. PICK kept : kept = Without({c[b][i] : i \in 1 .. Len(c[b])}, desc)
  OBVIOUS
<1>4. PICK d \in Descs \ DOMAIN kept :
        /\ desc' = Put(d, [prev |-> Null, next |-> Null, text |-> <<>>, room |-> 0], kept)
        /\ mbuf' = [mbuf EXCEPT ![b] = [head |-> d, tail |-> d, cur |-> d,
                                        tailline |-> 1, curline |-> 1]]
  BY <1>2, <1>3 DEF Mreset
<1>5. /\ Heap(desc') /\ Linked(desc', <<d>>) /\ Kept(desc, c[b], desc', <<d>>)
      /\ TextsIn(desc', <<d>>) = << <<>> >>
  <2> PICK ds2 : ds2 = desc'
    OBVIOUS
  <2> PICK cb : cb = c[b]
    OBVIOUS
  <2>1. kept = Without({cb[i] : i \in 1 .. Len(cb)}, desc) /\ Linked(desc, cb) /\ Heap(desc)
    BY <1>1, <1>3
  <2>2. ds2 = Put(d, [prev |-> Null, next |-> Null, text |-> <<>>, room |-> 0], kept)
    BY <1>4
  <2>3. /\ Heap(ds2) /\ Linked(ds2, <<d>>) /\ Kept(desc, cb, ds2, <<d>>)
        /\ TextsIn(ds2, <<d>>) = << <<>> >>
    BY <2>1, <2>2, LinkReset
  <2> QED
    BY <2>3
<1> PICK m : m = [head |-> d, tail |-> d, cur |-> d, tailline |-> 1, curline |-> 1]
  OBVIOUS
<1>6. mbuf' = [mbuf EXCEPT ![b] = m] /\ mbuf'[b] = m
  BY <1>4, BufferUpdated
<1>7. Placed(m, <<d>>)
  BY DEF Placed
<1>8. Served(b, c, <<d>>)
  <2>1. <<d>> \in Seq(Descs)
    OBVIOUS
  <2> QED
    BY <1>5, <1>6, <1>7, <2>1 DEF Served
<1>9. Answered(b, c, <<d>>)
  BY <1>5, <1>6 DEF Answered, Abstract!Request, Abstract!Reset
<1> QED
  BY <1>8, <1>9

\* A line was put after line k, and is current.
LEMMA AppServed ==
  ASSUME NEW c, Chained(desc, mbuf, c), NEW b \in Bufs, NEW d \in Descs, d \notin DOMAIN desc,
         NEW k \in 0 .. Len(c[b]), NEW s \in Strings,
         desc' = PutBetween(desc, c[b], k, d, s),
         NEW m, mbuf' = [mbuf EXCEPT ![b] = m],
         m = [head |-> IF k = 0 THEN d ELSE mbuf[b].head,
              tail |-> IF k = mbuf[b].tailline THEN d ELSE mbuf[b].tail, cur |-> d,
              tailline |-> mbuf[b].tailline + 1, curline |-> k + 1]
  PROVE  \E cb : Served(b, c, cb) /\ Answered(b, c, cb)
<1> PICK cb : cb = c[b]
  OBVIOUS
<1>1. /\ Heap(desc) /\ Linked(desc, cb) /\ cb \in Seq(Descs) /\ Len(cb) \in Nat /\ Len(cb) > 0
      /\ mbuf[b].head = cb[1] /\ mbuf[b].tail = cb[Len(cb)] /\ mbuf[b].tailline = Len(cb)
  <2>1. /\ Heap(desc) /\ Linked(desc, c[b]) /\ c[b] \in Seq(Descs)
        /\ Len(c[b]) \in Nat /\ Len(c[b]) > 0
    BY BufferFacts
  <2>2. /\ mbuf[b].head = c[b][1] /\ mbuf[b].tail = c[b][Len(c[b])]
        /\ mbuf[b].tailline = Len(c[b])
    BY BufferFacts, ZenonT(40)
  <2> QED
    BY <2>1, <2>2
<1> PICK l \in Nat : l = Len(cb) /\ l > 0
  BY <1>1
<1> PICK c2 : c2 = Inserted(cb, k, d)
  OBVIOUS
<1>2. /\ Heap(desc') /\ Linked(desc', c2) /\ Kept(desc, cb, desc', c2)
      /\ TextsIn(desc', c2) = Inserted(TextsIn(desc, cb), k, s)
  <2> PICK ds2 : ds2 = desc'
    OBVIOUS
  <2>1. ds2 = PutBetween(desc, cb, k, d, s) /\ k \in 0 .. Len(cb)
    OBVIOUS
  <2>2. /\ Heap(ds2) /\ Linked(ds2, Inserted(cb, k, d)) /\ Kept(desc, cb, ds2, Inserted(cb, k, d))
        /\ TextsIn(ds2, Inserted(cb, k, d)) = Inserted(TextsIn(desc, cb), k, s)
    BY <1>1, <2>1, LinkInserted
  <2> QED
    BY <2>2
<1>3. c2 \in Seq(Descs) /\ IsInserted(c2, cb, k, d)
  BY <1>1, InsertedSeq
<1>4. /\ Len(c2) = l + 1 /\ c2[k + 1] = d /\ k + 1 \in 1 .. l + 1
      /\ c2[1] = IF k = 0 THEN d ELSE cb[1]
      /\ c2[l + 1] = IF k = l THEN d ELSE cb[l]
  <2>1. Len(c2) = l + 1 /\ k + 1 \in 1 .. l + 1 /\ 1 \in 1 .. l + 1 /\ l + 1 \in 1 .. l + 1
    BY <1>3 DEF IsInserted
  <2>2. \A i \in 1 .. l + 1 : c2[i] = IF i <= k THEN cb[i] ELSE IF i = k + 1 THEN d ELSE cb[i - 1]
    BY <1>3 DEF IsInserted
  <2>3. c2[k + 1] = d
    BY <2>1, <2>2
  <2>4. c2[1] = IF k = 0 THEN d ELSE cb[1]
    BY <2>1, <2>2
  <2>5. c2[l + 1] = IF k = l THEN d ELSE cb[l]
    <3>1. (l + 1) - 1 = l /\ ~ l + 1 <= k /\ (l + 1 = k + 1 <=> k = l)
      OBVIOUS
    <3> QED
      BY <2>1, <2>2, <3>1
  <2> QED
    BY <2>1, <2>3, <2>4, <2>5
<1>5. Placed(m, c2)
  <2>1. m = [head |-> c2[1], tail |-> c2[l + 1], cur |-> d, tailline |-> l + 1, curline |-> k + 1]
    BY <1>1, <1>4
  <2> QED
    BY <1>4, <2>1 DEF Placed
<1>6. mbuf'[b] = m
  BY BufferUpdated
<1>7. Served(b, c, c2)
  BY <1>2, <1>3, <1>5 DEF Served
<1>8. Answered(b, c, c2)
  <2> PICK t : t = TextsIn(desc, cb)
    OBVIOUS
  <2>1. t \in Seq(Texts) /\ Len(t) = l
    BY <1>1, TextsSeq
  <2>2. k \in 0 .. Len(t) /\ s \in Texts /\ k + 1 \in 1 .. Len(t) + 1
    BY <2>1 DEF Texts
  <2>3. Inserted(t, k, s) = Abstract!InsertAt(t, k + 1, s)
    BY <2>1, <2>2, InsertedIs
  <2>4. mbuf'[b].curline = k + 1
    BY <1>6
  <2>5. Abstract!App(t, TextsIn(desc', c2), k + 1)
    <3>1. TextsIn(desc', c2) = Abstract!InsertAt(t, k + 1, s)
      BY <1>2, <2>3
    <3> QED
      BY <2>2, <3>1 DEF Abstract!App
  <2> QED
    BY <2>4, <2>5 DEF Answered, Abstract!Request
<1> QED
  BY <1>7, <1>8

LEMMA MappFirstServed ==
  ASSUME NEW c, Chained(desc, mbuf, c), NEW b \in Bufs, NEW s \in Strings, MappFirst(b, s)
  PROVE  \E cb : Served(b, c, cb) /\ Answered(b, c, cb)
<1> PICK cb : cb = c[b]
  OBVIOUS
<1>1. /\ Len(cb) \in Nat /\ Len(cb) > 0 /\ mbuf[b].head = cb[1] /\ mbuf[b].tailline = Len(cb)
      /\ mbuf[b] = [head |-> cb[1], tail |-> cb[Len(cb)], cur |-> mbuf[b].cur,
                    tailline |-> Len(cb), curline |-> mbuf[b].curline]
  BY BufferFacts
<1>2. PICK d \in FreeDescs :
        /\ desc' = SetPrev(mbuf[b].head, d,
                     Put(d, [prev |-> Null, next |-> mbuf[b].head, text |-> s, room |-> Len(s)], desc))
        /\ mbuf' = [mbuf EXCEPT ![b] = [At(mbuf[b], d, 1) EXCEPT !.head = d, !.tailline = @ + 1]]
  BY DEF MappFirst
<1>3. Before(cb, 0) = Null /\ Behind(cb, 0) = cb[1]
  BY <1>1 DEF Before, Behind
<1>4. desc' = PutBetween(desc, cb, 0, d, s)
  BY <1>1, <1>2, <1>3 DEF PutBetween, SetNext
<1> PICK m : m = [At(mbuf[b], d, 1) EXCEPT !.head = d, !.tailline = @ + 1]
  OBVIOUS
<1>5. m = [head |-> d, tail |-> mbuf[b].tail, cur |-> d, tailline |-> mbuf[b].tailline + 1, curline |-> 1]
  BY <1>1 DEF At
<1>6. m = [head |-> IF 0 = 0 THEN d ELSE mbuf[b].head,
           tail |-> IF 0 = mbuf[b].tailline THEN d ELSE mbuf[b].tail, cur |-> d,
           tailline |-> mbuf[b].tailline + 1, curline |-> 0 + 1]
  <2>1. 0 # mbuf[b].tailline /\ 0 + 1 = 1
    BY <1>1
  <2> QED
    BY <1>5, <2>1
<1>7. d \in Descs /\ d \notin DOMAIN desc /\ 0 \in 0 .. Len(c[b]) /\ mbuf' = [mbuf EXCEPT ![b] = m]
  BY <1>1, <1>2 DEF FreeDescs
<1>8. desc' = PutBetween(desc, c[b], 0, d, s)
  BY <1>4
<1> QED
  BY <1>6, <1>7, <1>8, AppServed

LEMMA MappServed ==
  ASSUME NEW c, Chained(desc, mbuf, c), NEW b \in Bufs, NEW s \in Strings,
         NEW lnum \in 1 .. mbuf[b].tailline, Mapp(b, lnum, s)
  PROVE  \E cb : Served(b, c, cb) /\ Answered(b, c, cb)
<1> PICK cb : cb = c[b]
  OBVIOUS
<1>1. /\ Len(cb) \in Nat /\ Len(cb) > 0 /\ mbuf[b].head = cb[1] /\ mbuf[b].tailline = Len(cb)
      /\ mbuf[b] = [head |-> cb[1], tail |-> cb[Len(cb)], cur |-> mbuf[b].cur,
                    tailline |-> Len(cb), curline |-> mbuf[b].curline]
      /\ Linked(desc, cb) /\ Heap(desc) /\ \A l \in 1 .. Len(cb) : Find(b, l) = cb[l]
  BY BufferFacts
<1>2. lnum \in 1 .. Len(cb) /\ lnum \in Nat /\ lnum # 0
  BY <1>1
<1>3. Find(b, lnum) = cb[lnum] /\ desc[cb[lnum]].next = NextOf(cb, lnum)
  BY <1>1, <1>2 DEF Linked
<1>4. PICK d \in FreeDescs :
        /\ desc' = SetPrev(NextOf(cb, lnum), d, SetNext(cb[lnum], d,
                     Put(d, [prev |-> cb[lnum], next |-> NextOf(cb, lnum), text |-> s, room |-> Len(s)], desc)))
        /\ mbuf' = [mbuf EXCEPT ![b] = [At(mbuf[b], d, lnum + 1) EXCEPT !.tailline = @ + 1,
                      !.tail = IF NextOf(cb, lnum) = Null THEN d ELSE @]]
  BY <1>3 DEF Mapp
<1>5. Before(cb, lnum) = cb[lnum] /\ Behind(cb, lnum) = NextOf(cb, lnum)
  BY <1>2 DEF Before, Behind, NextOf
<1>6. NextOf(cb, lnum) = Null <=> lnum = Len(cb)
  <2>1. lnum # Len(cb) => lnum + 1 \in 1 .. Len(cb)
    BY <1>2
  <2>2. \A i \in 1 .. Len(cb) : cb[i] # Null
    BY <1>1, StoreAssumption DEF Linked, Heap
  <2> QED
    BY <2>1, <2>2 DEF NextOf
<1>7. desc' = PutBetween(desc, c[b], lnum, d, s)
  BY <1>4, <1>5 DEF PutBetween
<1> PICK m : m = [At(mbuf[b], d, lnum + 1) EXCEPT !.tailline = @ + 1,
                      !.tail = IF NextOf(cb, lnum) = Null THEN d ELSE @]
  OBVIOUS
<1>8. m = [head |-> mbuf[b].head,
           tail |-> IF lnum = mbuf[b].tailline THEN d ELSE mbuf[b].tail, cur |-> d,
           tailline |-> mbuf[b].tailline + 1, curline |-> lnum + 1]
  BY <1>1, <1>6 DEF At
<1>9. m = [head |-> IF lnum = 0 THEN d ELSE mbuf[b].head,
           tail |-> IF lnum = mbuf[b].tailline THEN d ELSE mbuf[b].tail, cur |-> d,
           tailline |-> mbuf[b].tailline + 1, curline |-> lnum + 1]
  BY <1>2, <1>8
<1>10. d \in Descs /\ d \notin DOMAIN desc /\ lnum \in 0 .. Len(c[b]) /\ mbuf' = [mbuf EXCEPT ![b] = m]
  BY <1>2, <1>4 DEF FreeDescs
<1> QED
  BY <1>7, <1>9, <1>10, AppServed

LEMMA MgetServed ==
  ASSUME NEW c, Chained(desc, mbuf, c), NEW b \in Bufs,
         NEW lnum \in 1 .. mbuf[b].tailline, Mget(b, lnum)
  PROVE  \E cb : Served(b, c, cb) /\ Answered(b, c, cb)
<1> PICK cb : cb = c[b]
  OBVIOUS
<1>1. /\ Len(cb) \in Nat /\ Len(cb) > 0 /\ mbuf[b].tailline = Len(cb) /\ cb \in Seq(Descs)
      /\ mbuf[b] = [head |-> cb[1], tail |-> cb[Len(cb)], cur |-> mbuf[b].cur,
                    tailline |-> Len(cb), curline |-> mbuf[b].curline]
      /\ Linked(desc, cb) /\ Heap(desc) /\ \A l \in 1 .. Len(cb) : Find(b, l) = cb[l]
  BY BufferFacts
<1>2. lnum \in 1 .. Len(cb) /\ Find(b, lnum) = cb[lnum]
  BY <1>1
<1> PICK m : m = At(mbuf[b], cb[lnum], lnum)
  OBVIOUS
<1>3. mbuf' = [mbuf EXCEPT ![b] = m] /\ desc' = desc
  BY <1>2 DEF Mget
<1>4. m = [head |-> cb[1], tail |-> cb[Len(cb)], cur |-> cb[lnum], tailline |-> Len(cb), curline |-> lnum]
  <2>1. At(mbuf[b], cb[lnum], lnum) = [head |-> cb[1], tail |-> cb[Len(cb)], cur |-> cb[lnum],
                                       tailline |-> Len(cb), curline |-> lnum]
    BY <1>1, AtIs
  <2> QED
    BY <2>1
<1>5. Placed(m, cb)
  BY <1>2, <1>4 DEF Placed
<1>6. Kept(desc, cb, desc, cb)
  BY <1>1 DEF Kept, Linked, In
<1>7. Served(b, c, cb)
  BY <1>1, <1>3, <1>5, <1>6 DEF Served
<1>8. mbuf'[b].curline = lnum
  <2>1. mbuf'[b] = m
    BY <1>3, BufferUpdated
  <2> QED
    BY <1>4, <2>1
<1>9. Answered(b, c, cb)
  <2>1. DOMAIN TextsIn(desc, cb) = 1 .. Len(cb)
    BY DEF TextsIn
  <2>2. TextsIn(desc', cb) = TextsIn(desc, cb)
    BY <1>3
  <2>3. Abstract!Get(TextsIn(desc, cb), TextsIn(desc', cb), lnum)
    BY <1>2, <2>1, <2>2 DEF Abstract!Get
  <2> QED
    BY <1>8, <2>3 DEF Answered, Abstract!Request
<1> QED
  BY <1>7, <1>9

LEMMA MdelServed ==
  ASSUME NEW c, Chained(desc, mbuf, c), NEW b \in Bufs,
         NEW lnum \in 1 .. mbuf[b].tailline, Mdel(b, lnum)
  PROVE  mbuf[b].tailline > 1 => \E cb : Served(b, c, cb) /\ Answered(b, c, cb)
<1> PICK cb : cb = c[b]
  OBVIOUS
<1>1. /\ Len(cb) \in Nat /\ Len(cb) > 0 /\ mbuf[b].tailline = Len(cb) /\ cb \in Seq(Descs)
      /\ mbuf[b].head = cb[1] /\ mbuf[b].tail = cb[Len(cb)]
      /\ Linked(desc, cb) /\ Heap(desc) /\ \A l \in 1 .. Len(cb) : Find(b, l) = cb[l]
  <2>1. /\ Len(c[b]) \in Nat /\ Len(c[b]) > 0 /\ mbuf[b].tailline = Len(c[b]) /\ c[b] \in Seq(Descs)
        /\ mbuf[b].head = c[b][1] /\ mbuf[b].tail = c[b][Len(c[b])]
        /\ Linked(desc, c[b]) /\ Heap(desc)
    BY BufferFacts
  <2>3. Linked(desc, c[b]) /\ Placed(mbuf[b], c[b])
    BY BufferFacts
  <2>2. \A l \in 1 .. Len(c[b]) : Find(b, l) = c[b][l]
    BY <2>3, FindFinds
  <2> QED
    BY <2>1, <2>2
<1> HAVE mbuf[b].tailline > 1
<1> PICK l \in Nat : l = Len(cb) /\ l > 1
  BY <1>1
<1> PICK k \in 1 .. l : k = lnum
  BY <1>1
<1> PICK d : d = cb[k]
  OBVIOUS
<1> PICK p : p = PrevOf(cb, k)
  OBVIOUS
<1> PICK n : n = NextOf(cb, k)
  OBVIOUS
<1>2. Find(b, lnum) = d /\ desc[d].prev = p /\ desc[d].next = n
  BY <1>1 DEF Linked
<1>17. PICK m : m = [head |-> IF d = cb[1] THEN n ELSE cb[1],
                     tail |-> IF d = cb[l] THEN p ELSE cb[l],
                     cur |-> IF n # Null THEN n ELSE p,
                     tailline |-> l - 1,
                     curline |-> IF n # Null THEN k ELSE k - 1]
  OBVIOUS
<1>18. /\ m.head = (IF d = cb[1] THEN n ELSE cb[1]) /\ m.tail = (IF d = cb[l] THEN p ELSE cb[l])
       /\ m.cur = (IF n # Null THEN n ELSE p) /\ m.curline = (IF n # Null THEN k ELSE k - 1)
       /\ m = [head |-> m.head, tail |-> m.tail, cur |-> m.cur, tailline |-> l - 1, curline |-> m.curline]
  BY <1>17
<1>3. mbuf' = [mbuf EXCEPT ![b] = m] /\ desc' = TakeOut(desc, cb, k)
  BY <1>1, <1>2, <1>17 DEF Mdel, TakeOut
<1> PICK c2 : c2 = Dropped(cb, k)
  OBVIOUS
<1>4. /\ Heap(desc') /\ Linked(desc', c2) /\ Kept(desc, cb, desc', c2)
      /\ TextsIn(desc', c2) = Dropped(TextsIn(desc, cb), k)
  <2> PICK ds2 : ds2 = desc'
    OBVIOUS
  <2>1. ds2 = TakeOut(desc, cb, k) /\ k \in 1 .. Len(cb) /\ Len(cb) > 1
    BY <1>3
  <2>2. /\ Heap(ds2) /\ Linked(ds2, Dropped(cb, k)) /\ Kept(desc, cb, ds2, Dropped(cb, k))
        /\ TextsIn(ds2, Dropped(cb, k)) = Dropped(TextsIn(desc, cb), k)
    BY <1>1, <2>1, LinkDropped
  <2> QED
    BY <2>2
<1>5. c2 \in Seq(Descs) /\ IsDropped(c2, cb, k)
  BY <1>1, DroppedSeq
<1>6. /\ Len(c2) = l - 1
      /\ \A i \in 1 .. l - 1 : c2[i] = IF i < k THEN cb[i] ELSE cb[i + 1]
  BY <1>5 DEF IsDropped
<1>7. \A i, j \in 1 .. l : cb[i] = cb[j] => i = j
  BY <1>1 DEF Linked
<1>8. 1 \in 1 .. l /\ l \in 1 .. l /\ 1 \in 1 .. l - 1 /\ l - 1 \in 1 .. l - 1
  OBVIOUS
<1>9. m.head = c2[1]
  <2>1. CASE k = 1
    BY <1>6, <1>8, <1>18, <2>1 DEF NextOf
  <2>2. CASE k # 1
    <3>1. d # cb[1]
      BY <1>7, <1>8, <2>2
    <3> QED
      BY <1>6, <1>8, <1>18, <2>2, <3>1
  <2> QED
    BY <2>1, <2>2
<1>10. m.tail = c2[l - 1]
  <2>1. CASE k = l
    <3>1. p = cb[l - 1] /\ m.tail = p
      BY <1>18, <2>1 DEF PrevOf
    <3>2. c2[l - 1] = cb[l - 1]
      BY <1>6, <1>8, <2>1
    <3> QED
      BY <3>1, <3>2
  <2>2. CASE k # l
    <3>1. d # cb[l]
      BY <1>7, <1>8, <2>2
    <3>2. c2[l - 1] = cb[(l - 1) + 1]
      BY <1>6, <1>8, <2>2
    <3> QED
      BY <1>18, <3>1, <3>2
  <2> QED
    BY <2>1, <2>2
<1>11. n = Null <=> k = l
  <2>1. \A i \in 1 .. l : cb[i] # Null
    BY <1>1, StoreAssumption DEF Linked, Heap
  <2>2. k # l => k + 1 \in 1 .. l
    OBVIOUS
  <2> QED
    BY <2>1, <2>2 DEF NextOf
<1>12. m.curline \in 1 .. l - 1 /\ m.cur = c2[m.curline]
  <2>1. CASE k = l
    <3>1. m.curline = l - 1 /\ m.cur = p
      BY <1>11, <1>18, <2>1
    <3>2. p = cb[l - 1]
      BY <2>1 DEF PrevOf
    <3>3. c2[l - 1] = cb[l - 1]
      BY <1>6, <1>8, <2>1
    <3> QED
      BY <1>8, <3>1, <3>2, <3>3
  <2>2. CASE k # l
    <3>1. m.curline = k /\ m.cur = n /\ k \in 1 .. l - 1
      BY <1>11, <1>18, <2>2
    <3>2. c2[k] = cb[k + 1]
      BY <1>6, <3>1
    <3> QED
      BY <2>2, <3>1, <3>2 DEF NextOf
  <2> QED
    BY <2>1, <2>2
<1>13. Placed(m, c2)
  <2>1. m = [head |-> m.head, tail |-> m.tail, cur |-> m.cur, tailline |-> l - 1, curline |-> m.curline]
    BY <1>18
  <2>2. m.curline \in 1 .. Len(c2)
    BY <1>6, <1>12
  <2>3. m = [head |-> c2[1], tail |-> c2[Len(c2)], cur |-> c2[m.curline],
             tailline |-> Len(c2), curline |-> m.curline]
    BY <1>6, <1>9, <1>10, <1>12, <2>1, Zenon
  <2> QED
    BY <2>2, <2>3 DEF Placed
<1>14. mbuf'[b] = m
  <2>1. mbuf' = [mbuf EXCEPT ![b] = m]
    BY <1>3
  <2> QED
    BY <2>1, BufferUpdated
<1>15. Served(b, c, c2)
  BY <1>3, <1>4, <1>5, <1>13 DEF Served
<1>16. Answered(b, c, c2)
  <2> PICK t : t = TextsIn(desc, cb)
    OBVIOUS
  <2>1. t \in Seq(Texts) /\ Len(t) = l
    BY <1>1, TextsSeq
  <2>2. k \in 1 .. Len(t)
    BY <2>1
  <2>3. /\ Dropped(t, k) = Abstract!RemoveAt(t, k)
        /\ k = Len(t) => Dropped(t, k) = Abstract!Front(t)
    BY <2>1, <2>2, DroppedIs
  <2>4. TextsIn(desc', c2) = Dropped(t, k) /\ Len(t) > 1
    BY <1>4, <2>1
  <2>5. CASE k = l
    <3>1. m.curline = Len(t) - 1
      BY <1>11, <1>18, <2>1, <2>5
    <3>2. TextsIn(desc', c2) = Abstract!Front(t)
      BY <2>1, <2>3, <2>4, <2>5
    <3> QED
      BY <1>14, <2>4, <3>1, <3>2 DEF Answered, Abstract!Request, Abstract!Del
  <2>6. CASE k # l
    <3>1. m.curline = k /\ k < Len(t)
      BY <1>11, <1>18, <2>1, <2>6
    <3>2. TextsIn(desc', c2) = Abstract!RemoveAt(t, k)
      BY <2>3, <2>4
    <3> QED
      BY <1>14, <2>4, <3>1, <3>2 DEF Answered, Abstract!Request, Abstract!Del
  <2> QED
    BY <2>5, <2>6
<1> QED
  BY <1>15, <1>16

\* A change in place, or in another descriptor, is the change of one line.
LEMMA ChangeAnswered ==
  ASSUME NEW c, Chained(desc, mbuf, c), NEW b \in Bufs, NEW k \in 1 .. Len(c[b]), NEW s \in Strings,
         NEW cb, TextsIn(desc', cb) = Replaced(TextsIn(desc, c[b]), k, s), mbuf'[b].curline = k
  PROVE  Answered(b, c, cb)
<1> PICK t : t = TextsIn(desc, c[b])
  OBVIOUS
<1>1. Heap(desc) /\ Linked(desc, c[b])
  BY BufferFacts
<1>2. t \in Seq(Texts) /\ Len(t) = Len(c[b])
  BY <1>1, TextsSeq
<1>3. DOMAIN t = 1 .. Len(t) /\ k \in DOMAIN t
  BY <1>2
<1>4. Replaced(t, k, s) = [t EXCEPT ![k] = s]
  <2>1. t = [i \in 1 .. Len(t) |-> t[i]]
    BY <1>2
  <2> QED
    BY <1>3, <2>1 DEF Replaced
<1>5. Abstract!Change(t, TextsIn(desc', cb), k)
  BY <1>3, <1>4 DEF Abstract!Change
<1> QED
  BY <1>5 DEF Answered, Abstract!Request

LEMMA RewriteServed ==
  ASSUME NEW c, Chained(desc, mbuf, c), NEW b \in Bufs, NEW s \in Strings,
         NEW lnum \in 1 .. mbuf[b].tailline, Rewrite(b, lnum, s)
  PROVE  \E cb : Served(b, c, cb) /\ Answered(b, c, cb)
<1> PICK cb : cb = c[b]
  OBVIOUS
<1>1. /\ Len(cb) \in Nat /\ Len(cb) > 0 /\ mbuf[b].tailline = Len(cb) /\ cb \in Seq(Descs)
      /\ mbuf[b] = [head |-> cb[1], tail |-> cb[Len(cb)], cur |-> mbuf[b].cur,
                    tailline |-> Len(cb), curline |-> mbuf[b].curline]
      /\ Linked(desc, cb) /\ Heap(desc) /\ \A l \in 1 .. Len(cb) : Find(b, l) = cb[l]
  BY BufferFacts
<1>2. lnum \in 1 .. Len(cb) /\ Find(b, lnum) = cb[lnum]
  BY <1>1
<1> PICK m : m = At(mbuf[b], cb[lnum], lnum)
  OBVIOUS
<1>3. /\ mbuf' = [mbuf EXCEPT ![b] = m] /\ desc' = Rewritten(desc, cb, lnum, s)
      /\ Len(s) <= desc[cb[lnum]].room
  BY <1>2 DEF Rewrite, Rewritten
<1>4. m = [head |-> cb[1], tail |-> cb[Len(cb)], cur |-> cb[lnum], tailline |-> Len(cb), curline |-> lnum]
  <2>1. At(mbuf[b], cb[lnum], lnum) = [head |-> cb[1], tail |-> cb[Len(cb)], cur |-> cb[lnum],
                                       tailline |-> Len(cb), curline |-> lnum]
    BY <1>1, AtIs
  <2> QED
    BY <2>1
<1>5. Placed(m, cb)
  BY <1>2, <1>4 DEF Placed
<1>6. /\ Heap(desc') /\ Linked(desc', cb) /\ Kept(desc, cb, desc', cb)
      /\ TextsIn(desc', cb) = Replaced(TextsIn(desc, cb), lnum, s)
  <2> PICK ds2 : ds2 = desc'
    OBVIOUS
  <2>1. ds2 = Rewritten(desc, cb, lnum, s)
    BY <1>3
  <2>3. Heap(desc) /\ Linked(desc, cb) /\ lnum \in 1 .. Len(cb) /\ Len(s) <= desc[cb[lnum]].room
    BY <1>1, <1>2, <1>3
  <2> PICK ds : ds = desc
    OBVIOUS
  <2> PICK k : k = lnum
    OBVIOUS
  <2>4. /\ ds2 = Rewritten(ds, cb, k, s)
        /\ Heap(ds) /\ Linked(ds, cb) /\ k \in 1 .. Len(cb) /\ Len(s) <= ds[cb[k]].room
    BY <2>1, <2>3
  <2>2. /\ Heap(ds2) /\ Linked(ds2, cb) /\ Kept(ds, cb, ds2, cb)
        /\ TextsIn(ds2, cb) = Replaced(TextsIn(ds, cb), k, s)
    BY <2>4, LinkRewritten
  <2> QED
    BY <2>2
<1>7. Served(b, c, cb)
  BY <1>1, <1>3, <1>5, <1>6 DEF Served
<1>8. mbuf'[b].curline = lnum
  <2>1. mbuf'[b] = m
    BY <1>3, BufferUpdated
  <2> QED
    BY <1>4, <2>1
<1>9. Answered(b, c, cb)
  BY <1>2, <1>6, <1>8, ChangeAnswered
<1> QED
  BY <1>7, <1>9

LEMMA StretchServed ==
  ASSUME NEW c, Chained(desc, mbuf, c), NEW b \in Bufs, NEW s \in Strings,
         NEW lnum \in 1 .. mbuf[b].tailline, Stretch(b, lnum, s)
  PROVE  \E cb : Served(b, c, cb) /\ Answered(b, c, cb)
<1> PICK cb : cb = c[b]
  OBVIOUS
<1>1. /\ Len(cb) \in Nat /\ Len(cb) > 0 /\ mbuf[b].tailline = Len(cb) /\ cb \in Seq(Descs)
      /\ mbuf[b] = [head |-> cb[1], tail |-> cb[Len(cb)], cur |-> mbuf[b].cur,
                    tailline |-> Len(cb), curline |-> mbuf[b].curline]
      /\ Linked(desc, cb) /\ Heap(desc) /\ \A l \in 1 .. Len(cb) : Find(b, l) = cb[l]
  BY BufferFacts
<1> PICK l \in Nat : l = Len(cb) /\ l > 0
  BY <1>1
<1> PICK k \in 1 .. l : k = lnum
  BY <1>1
<1>2. k \in 1 .. Len(cb) /\ Find(b, lnum) = cb[k]
  BY <1>1
<1> PICK size : size = Larger(Len(s))
  OBVIOUS
<1>3. PICK d \in FreeDescs :
        /\ Len(s) < MaxPos
        /\ desc' = Exchange(desc, cb, k, d, s, size)
        /\ mbuf' = [mbuf EXCEPT ![b] = Ends(At(mbuf[b], d, k), cb[k], d)]
  BY <1>2 DEF Stretch, Exchange, Ends
<1>4. size \in Nat /\ Len(s) <= size /\ d \in Descs /\ d \notin DOMAIN desc
  <2>1. Len(s) \in Nat /\ Slop \in Nat /\ MaxPos \in Nat
    BY StoreAssumption
  <2> QED
    BY <1>3, <2>1 DEF Larger, FreeDescs
<1>14. PICK m : m = Ends(At(mbuf[b], d, k), cb[k], d)
  OBVIOUS
<1>5. m = [head |-> IF cb[1] = cb[k] THEN d ELSE cb[1], tail |-> IF cb[l] = cb[k] THEN d ELSE cb[l],
           cur |-> d, tailline |-> l, curline |-> k]
  <2>1. At(mbuf[b], d, k) = [head |-> cb[1], tail |-> cb[l], cur |-> d, tailline |-> l, curline |-> k]
    <3>1. At(mbuf[b], d, k) = [head |-> cb[1], tail |-> cb[Len(cb)], cur |-> d,
                               tailline |-> Len(cb), curline |-> k]
      BY <1>1, AtIs
    <3> QED
      BY <3>1
  <2>2. m = [head |-> IF cb[1] = cb[k] THEN d ELSE cb[1], tail |-> IF cb[l] = cb[k] THEN d ELSE cb[l],
             cur |-> d, tailline |-> l, curline |-> k]
    BY <1>14, <2>1, EndsAre
  <2> QED
    BY <2>2
<1> PICK c2 : c2 = Replaced(cb, k, d)
  OBVIOUS
<1>6. /\ Heap(desc') /\ Linked(desc', c2) /\ Kept(desc, cb, desc', c2)
      /\ TextsIn(desc', c2) = Replaced(TextsIn(desc, cb), k, s)
  <2> PICK ds2 : ds2 = desc'
    OBVIOUS
  <2>1. ds2 = Exchange(desc, cb, k, d, s, size)
    BY <1>3
  <2>2. /\ Heap(ds2) /\ Linked(ds2, Replaced(cb, k, d)) /\ Kept(desc, cb, ds2, Replaced(cb, k, d))
        /\ TextsIn(ds2, Replaced(cb, k, d)) = Replaced(TextsIn(desc, cb), k, s)
    BY <1>1, <1>2, <1>4, <2>1, LinkExchanged
  <2> QED
    BY <2>2
<1>7. Len(c2) = l /\ c2 \in Seq(Descs) /\ \A i \in 1 .. l : c2[i] = IF i = k THEN d ELSE cb[i]
  <2>1. c2 = [i \in 1 .. l |-> IF i = k THEN d ELSE cb[i]]
    BY DEF Replaced
  <2>2. c2 \in Seq(Descs)
    BY <1>6 DEF Linked
  <2> QED
    BY <2>1, <2>2
<1>8. \A i \in 1 .. l : cb[i] = cb[k] <=> i = k
  BY <1>1 DEF Linked
<1>9. Placed(m, c2)
  <2>1. 1 \in 1 .. l /\ l \in 1 .. l
    OBVIOUS
  <2>2. /\ c2[1] = (IF cb[1] = cb[k] THEN d ELSE cb[1])
        /\ c2[l] = (IF cb[l] = cb[k] THEN d ELSE cb[l]) /\ c2[k] = d
    BY <1>7, <1>8, <2>1
  <2>3. m = [head |-> c2[1], tail |-> c2[l], cur |-> c2[k], tailline |-> l, curline |-> k]
    BY <1>5, <2>2
  <2>4. m.curline = k
    BY <2>3
  <2>5. /\ m.curline \in 1 .. Len(c2)
        /\ m = [head |-> c2[1], tail |-> c2[Len(c2)], cur |-> c2[m.curline],
                tailline |-> Len(c2), curline |-> m.curline]
    BY <1>7, <2>3, <2>4, Zenon
  <2> QED
    BY <2>5 DEF Placed
<1>10. mbuf' = [mbuf EXCEPT ![b] = m]
  BY <1>3, <1>14
<1>11. mbuf'[b].curline = k
  <2>1. mbuf'[b] = m
    BY <1>10, BufferUpdated
  <2> QED
    BY <1>5, <2>1
<1>12. Served(b, c, c2)
  BY <1>6, <1>7, <1>9, <1>10 DEF Served
<1>13. Answered(b, c, c2)
  BY <1>2, <1>6, <1>11, ChangeAnswered
<1> QED
  BY <1>12, <1>13

LEMMA RefusedServed ==
  ASSUME NEW c, Chained(desc, mbuf, c), NEW b \in Bufs, NEW s \in Strings,
         NEW lnum \in 1 .. mbuf[b].tailline, Refused(b, lnum, s)
  PROVE  \E cb : Served(b, c, cb) /\ Answered(b, c, cb)
<1>1. Mget(b, lnum)
  BY DEF Refused
<1> QED
  BY <1>1, MgetServed

LEMMA StepServed ==
  ASSUME NEW c, Chained(desc, mbuf, c), Next
  PROVE  \E b \in Bufs : \E cb : Served(b, c, cb) /\ Answered(b, c, cb)
<1>1. PICK b \in Bufs :
        \/ Mreset(b)
        \/ \E s \in Strings : MappFirst(b, s)
        \/ \E lnum \in 1 .. mbuf[b].tailline :
             \/ \E s \in Strings : \/ Mapp(b, lnum, s)
                                   \/ Rewrite(b, lnum, s)
                                   \/ Stretch(b, lnum, s)
                                   \/ Refused(b, lnum, s)
             \/ Mget(b, lnum)
             \/ mbuf[b].tailline > 1 /\ Mdel(b, lnum)
  BY DEF Next
<1> SUFFICES \E cb : Served(b, c, cb) /\ Answered(b, c, cb)
  OBVIOUS
<1>2. CASE Mreset(b)
  BY <1>2, MresetServed
<1>3. CASE \E s \in Strings : MappFirst(b, s)
  BY <1>3, MappFirstServed
<1>4. ASSUME NEW lnum \in 1 .. mbuf[b].tailline,
             \/ \E s \in Strings : \/ Mapp(b, lnum, s)
                                   \/ Rewrite(b, lnum, s)
                                   \/ Stretch(b, lnum, s)
                                   \/ Refused(b, lnum, s)
             \/ Mget(b, lnum)
             \/ mbuf[b].tailline > 1 /\ Mdel(b, lnum)
      PROVE  \E cb : Served(b, c, cb) /\ Answered(b, c, cb)
  <2>1. ASSUME NEW s \in Strings, Mapp(b, lnum, s)
        PROVE  \E cb : Served(b, c, cb) /\ Answered(b, c, cb)
    BY <2>1, MappServed
  <2>2. ASSUME NEW s \in Strings, Rewrite(b, lnum, s)
        PROVE  \E cb : Served(b, c, cb) /\ Answered(b, c, cb)
    BY <2>2, RewriteServed
  <2>3. ASSUME NEW s \in Strings, Stretch(b, lnum, s)
        PROVE  \E cb : Served(b, c, cb) /\ Answered(b, c, cb)
    BY <2>3, StretchServed
  <2>4. ASSUME NEW s \in Strings, Refused(b, lnum, s)
        PROVE  \E cb : Served(b, c, cb) /\ Answered(b, c, cb)
    BY <2>4, RefusedServed
  <2>5. CASE Mget(b, lnum)
    BY <2>5, MgetServed
  <2>6. CASE mbuf[b].tailline > 1 /\ Mdel(b, lnum)
    BY <2>6, MdelServed
  <2> QED
    BY <1>4, <2>1, <2>2, <2>3, <2>4, <2>5, <2>6
<1> QED
  BY <1>1, <1>2, <1>3, <1>4

\* Before the first request, each buffer has the list of one empty line.
LEMMA InitChained == Init =>
  \E c : Chained(desc, mbuf, c) /\ \A b \in Bufs : TextsIn(desc, c[b]) = << <<>> >> /\ mbuf[b].curline = 1
<1> SUFFICES ASSUME Init PROVE
      \E c : Chained(desc, mbuf, c) /\ \A b \in Bufs : TextsIn(desc, c[b]) = << <<>> >> /\ mbuf[b].curline = 1
  OBVIOUS
<1> DEFINE empty == [prev |-> Null, next |-> Null, text |-> <<>>, room |-> 0]
<1>1. PICK name \in [Bufs -> Descs] :
        /\ \A a, b \in Bufs : a # b => name[a] # name[b]
        /\ desc = [d \in {name[b] : b \in Bufs} |-> empty]
        /\ mbuf = [b \in Bufs |-> [head |-> name[b], tail |-> name[b], cur |-> name[b],
                                   tailline |-> 1, curline |-> 1]]
  BY DEF Init
<1>2. empty \in Record /\ empty.prev = Null /\ empty.next = Null /\ empty.text = <<>> /\ empty.room = 0
  BY DEF Record, Link, Texts
<1> HIDE DEF empty
<1> PICK D : D = {name[b] : b \in Bufs}
  OBVIOUS
<1>3. D \subseteq Descs /\ desc = [d \in D |-> empty]
  BY <1>1
<1>4. Heap(desc)
  <2>1. Len(<<>>) <= 0
    OBVIOUS
  <2> QED
    BY <1>2, <1>3, <2>1 DEF Heap
<1> DEFINE one(b) == <<name[b]>>
<1>5. \A b \in Bufs : /\ one(b) \in Seq(Descs) /\ Len(one(b)) = 1 /\ one(b)[1] = name[b]
                      /\ \A i \in 1 .. 1 : one(b)[i] = name[b]
  OBVIOUS
<1> PICK c : c = [b \in Bufs |-> one(b)]
  OBVIOUS
<1> HIDE DEF one
<1>6. c \in [Bufs -> Seq(Descs)] /\ \A b \in Bufs : c[b] = one(b)
  BY <1>5
<1>7. ASSUME NEW b \in Bufs
      PROVE  /\ Linked(desc, c[b]) /\ Placed(mbuf[b], c[b])
             /\ TextsIn(desc, c[b]) = << <<>> >> /\ mbuf[b].curline = 1
  <2> PICK d \in D : d = name[b]
    OBVIOUS
  <2> PICK cb : cb = c[b]
    OBVIOUS
  <2>1. cb \in Seq(Descs) /\ Len(cb) = 1 /\ cb[1] = d /\ \A i \in 1 .. 1 : cb[i] = d
    BY <1>5, <1>6
  <2>8. 1 .. Len(cb) = 1 .. 1
    BY <2>1, Zenon
  <2>2. d \in DOMAIN desc /\ desc[d].prev = Null /\ desc[d].next = Null /\ desc[d].text = <<>>
    BY <1>2, <1>3
  <2>3. Linked(desc, cb)
    <3>1. \A i \in 1 .. 1 : PrevOf(cb, i) = Null /\ NextOf(cb, i) = Null
      BY <2>1 DEF PrevOf, NextOf
    <3>2. \A i \in 1 .. Len(cb) : i \in 1 .. 1 /\ i = 1 /\ cb[i] = d
      <4>1. \A i \in 1 .. 1 : i = 1
        OBVIOUS
      <4> QED
        BY <2>1, <2>8, <4>1, Zenon
    <3>3. \A i, j \in 1 .. Len(cb) : cb[i] = cb[j] => i = j
      BY <3>2
    <3>4. \A i \in 1 .. Len(cb) : desc[cb[i]].prev = PrevOf(cb, i) /\ desc[cb[i]].next = NextOf(cb, i)
      BY <2>2, <3>1, <3>2
    <3>5. \A i \in 1 .. Len(cb) : cb[i] \in DOMAIN desc
      BY <2>2, <3>2
    <3>6. cb \in Seq(Descs) /\ Len(cb) > 0
      <4>1. cb \in Seq(Descs) /\ Len(cb) = 1
        BY <2>1, Zenon
      <4>2. 1 > 0
        OBVIOUS
      <4> QED
        BY <4>1, <4>2, Zenon
    <3> QED
      BY <3>3, <3>4, <3>5, <3>6 DEF Linked
  <2>4. mbuf[b] = [head |-> d, tail |-> d, cur |-> d, tailline |-> 1, curline |-> 1]
    BY <1>1
  <2>5. mbuf[b].curline = 1
    BY <2>4
  <2>6. Placed(mbuf[b], cb)
    <3>1. mbuf[b] = [head |-> cb[1], tail |-> cb[Len(cb)], cur |-> cb[mbuf[b].curline],
                     tailline |-> Len(cb), curline |-> mbuf[b].curline]
      BY <2>1, <2>4, <2>5
    <3>2. mbuf[b].curline \in 1 .. Len(cb)
      <4>2. 1 \in 1 .. 1
        OBVIOUS
      <4>1. 1 \in 1 .. Len(cb)
        BY <2>8, <4>2, Zenon
      <4> QED
        BY <2>5, <4>1
    <3> QED
      BY <3>1, <3>2 DEF Placed
  <2>7. TextsIn(desc, cb) = << <<>> >>
    <3>1. TextsIn(desc, cb) = [i \in 1 .. 1 |-> <<>>]
      BY <2>1, <2>2 DEF TextsIn
    <3> QED
      BY <3>1
  <2> QED
    BY <2>3, <2>5, <2>6, <2>7
<1>8. \A b \in Bufs : \A d : In(d, c[b]) <=> d = name[b]
  BY <1>5, <1>6 DEF In
<1>9. Chained(desc, mbuf, c)
  <2>1. mbuf = [b \in Bufs |-> mbuf[b]]
    BY <1>1
  <2>2. \A d \in DOMAIN desc : \E b \in Bufs : In(d, c[b])
    BY <1>3, <1>8
  <2>3. \A a, b \in Bufs : \A d : In(d, c[a]) /\ In(d, c[b]) => a = b
    BY <1>1, <1>8
  <2> QED
    BY <1>4, <1>6, <1>7, <2>1, <2>2, <2>3 DEF Chained
<1> QED
  BY <1>7, <1>9

LEMMA InitInv == Init => IInv
<1>1. \A c : Chained(desc, mbuf, c) => c \in [Bufs -> Seq(Descs)]
  BY DEF Chained
<1> QED
  BY <1>1, InitChained DEF IInv

LEMMA StepInv == IInv /\ [Next]_vars => IInv'
<1> SUFFICES ASSUME IInv, [Next]_vars PROVE IInv'
  OBVIOUS
<1>1. PICK c \in [Bufs -> Seq(Descs)] : Chained(desc, mbuf, c)
  BY DEF IInv
<1>2. CASE Next
  <2>1. PICK b \in Bufs : \E cb : Served(b, c, cb)
    BY <1>1, <1>2, StepServed
  <2>2. PICK cb : Served(b, c, cb)
    BY <2>1
  <2>3. cb \in Seq(Descs)
    BY <2>2 DEF Served
  <2>4. Chained(desc', mbuf', [c EXCEPT ![b] = cb])
    BY <1>1, <2>2, ServedChained
  <2>5. [c EXCEPT ![b] = cb] \in [Bufs -> Seq(Descs)]
    BY <2>3
  <2> QED
    BY <2>4, <2>5 DEF IInv
<1>3. CASE UNCHANGED vars
  <2>1. desc' = desc /\ mbuf' = mbuf
    BY <1>3 DEF vars
  <2> QED
    BY <1>1, <2>1 DEF IInv
<1> QED
  BY <1>2, <1>3

\* emem.c: however lines are added, deleted, made larger and looked for, and
\* however full the heap is, the links in both directions agree, head, tail and
\* current descriptor are those of lines 1, tailline and curline, and every
\* descriptor in use is in one list, its line within its room.
THEOREM LinksKept == Spec => []LinksSound
<1>1. IInv => LinksSound
  <2> SUFFICES ASSUME IInv PROVE LinksSound
    OBVIOUS
  <2>1. PICK c \in [Bufs -> Seq(Descs)] : Chained(desc, mbuf, c)
    BY DEF IInv
  <2>2. \A b \in Bufs : Chain(b) = c[b]
    BY <2>1, BufferFacts
  <2>3. ASSUME NEW b \in Bufs
        PROVE  /\ Len(c[b]) = mbuf[b].tailline /\ c[b][Len(c[b])] = mbuf[b].tail
               /\ c[b][mbuf[b].curline] = mbuf[b].cur /\ desc[mbuf[b].head].prev = Null
               /\ \A i \in 2 .. Len(c[b]) : desc[c[b][i]].prev = c[b][i - 1]
    <3>1. /\ Len(c[b]) \in Nat /\ Len(c[b]) > 0 /\ Linked(desc, c[b])
          /\ mbuf[b].head = c[b][1] /\ mbuf[b].tail = c[b][Len(c[b])]
          /\ mbuf[b].tailline = Len(c[b]) /\ mbuf[b].cur = c[b][mbuf[b].curline]
      BY <2>1, BufferFacts
    <3>2. \A i \in 1 .. Len(c[b]) : desc[c[b][i]].prev = PrevOf(c[b], i)
      BY <3>1 DEF Linked
    <3>3. desc[c[b][1]].prev = Null
      BY <3>1, <3>2 DEF PrevOf
    <3>4. ASSUME NEW i \in 2 .. Len(c[b]) PROVE desc[c[b][i]].prev = c[b][i - 1]
      <4>1. i \in 1 .. Len(c[b]) /\ i # 1
        BY <3>1
      <4> QED
        BY <3>2, <4>1 DEF PrevOf
    <3> QED
      BY <3>1, <3>3, <3>4
  <2>4. ASSUME NEW b \in Bufs PROVE Range(Chain(b)) = {d \in DOMAIN desc : In(d, c[b])}
    <3>1. Linked(desc, c[b])
      BY <2>1 DEF Chained
    <3>2. \A d : In(d, c[b]) => d \in DOMAIN desc
      BY <3>1 DEF Linked, In
    <3>3. \A d : d \in Range(c[b]) <=> In(d, c[b])
      <4>1. DOMAIN c[b] = 1 .. Len(c[b])
        BY <2>1
      <4> QED
        BY <4>1 DEF Range, In
    <3> QED
      BY <2>2, <3>2, <3>3
  <2>5. UNION {[x \in Bufs |-> Range(Chain(x))][b] : b \in Bufs} = DOMAIN desc
    <3>1. \A d \in DOMAIN desc : \E b \in Bufs : In(d, c[b])
      BY <2>1 DEF Chained
    <3> QED
      BY <2>4, <3>1
  <2>6. ASSUME NEW a \in Bufs, NEW b \in Bufs, a # b
        PROVE  [x \in Bufs |-> Range(Chain(x))][a] \cap [x \in Bufs |-> Range(Chain(x))][b] = {}
    <3>1. \A d : ~ (In(d, c[a]) /\ In(d, c[b]))
      BY <2>1, <2>6 DEF Chained
    <3> QED
      BY <2>4, <3>1
  <2>7. \A d \in DOMAIN desc : Len(desc[d].text) <= desc[d].room
    BY <2>1 DEF Chained, Heap
  <2> QED
    BY <2>2, <2>3, <2>5, <2>6, <2>7 DEF LinksSound
<1> QED
  BY <1>1, InitInv, StepInv, PTL DEF Spec

----------------------------------------------------------------------------
(* The requests implement Lines.                                            *)

\* The lines that a list of links shows, and the text that the editor is given.
Shown == \A c : Chained(desc, mbuf, c) =>
  \A b \in Bufs : /\ TextOf(b) = TextsIn(desc, c[b])
                  /\ desc[mbuf[b].cur].text = TextsIn(desc, c[b])[mbuf[b].curline]

LEMMA LinesShown == Shown
<1> SUFFICES ASSUME NEW c, Chained(desc, mbuf, c), NEW b \in Bufs
             PROVE  /\ TextOf(b) = TextsIn(desc, c[b])
                    /\ desc[mbuf[b].cur].text = TextsIn(desc, c[b])[mbuf[b].curline]
  BY DEF Shown
<1>1. /\ Heap(desc) /\ Linked(desc, c[b]) /\ Chain(b) = c[b] /\ c[b] \in Seq(Descs)
      /\ mbuf[b].curline \in 1 .. Len(c[b]) /\ mbuf[b].cur = c[b][mbuf[b].curline]
  BY BufferFacts
<1>2. TextOf(b) = TextsIn(desc, c[b])
  <2>1. DOMAIN c[b] = 1 .. Len(c[b])
    BY <1>1
  <2> QED
    BY <1>1, <2>1 DEF TextOf, TextsIn
<1>3. desc[mbuf[b].cur].text = TextsIn(desc, c[b])[mbuf[b].curline]
  BY <1>1, TextsSeq
<1> QED
  BY <1>2, <1>3

LEMMA LinesShownNext == Shown'
  BY LinesShown, PTL

LEMMA InitLines == Init => Abstract!Init
<1> SUFFICES ASSUME Init PROVE Abstract!Init
  OBVIOUS
<1>1. PICK c : Chained(desc, mbuf, c) /\ \A b \in Bufs : TextsIn(desc, c[b]) = << <<>> >> /\ mbuf[b].curline = 1
  BY InitChained
<1>2. ASSUME NEW b \in Bufs
      PROVE  TextOf(b) = << <<>> >> /\ mbuf[b].curline = 1 /\ desc[mbuf[b].cur].text = <<>>
  <2>1. TextOf(b) = TextsIn(desc, c[b]) /\ desc[mbuf[b].cur].text = TextsIn(desc, c[b])[mbuf[b].curline]
    BY <1>1, LinesShown DEF Shown
  <2>2. << <<>> >>[1] = <<>>
    OBVIOUS
  <2> QED
    BY <1>1, <2>1, <2>2, Zenon
<1> QED
  BY <1>2 DEF Abstract!Init

\* What a request does to the buffers, in the words of Lines.
LEMMA RequestShown ==
  ASSUME NEW c, Chained(desc, mbuf, c), NEW b \in Bufs, NEW cb, Served(b, c, cb), Answered(b, c, cb)
  PROVE  /\ Abstract!Request(TextOf(b), TextOf(b)', mbuf'[b].curline)
         /\ desc'[mbuf'[b].cur].text = TextOf(b)'[mbuf'[b].curline]
         /\ \A a \in Bufs \ {b} : /\ TextOf(a)' = TextOf(a) /\ mbuf'[a].curline = mbuf[a].curline
                                  /\ desc'[mbuf'[a].cur].text = desc[mbuf[a].cur].text
<1> PICK e : e = [c EXCEPT ![b] = cb]
  OBVIOUS
<1>1. Chained(desc', mbuf', e)
  BY ServedChained
<1>2. e[b] = cb /\ \A a \in Bufs : a # b => e[a] = c[a]
  BY DEF Chained
<1>3. \A a \in Bufs : /\ TextOf(a) = TextsIn(desc, c[a])
                      /\ desc[mbuf[a].cur].text = TextsIn(desc, c[a])[mbuf[a].curline]
  BY LinesShown DEF Shown
<1>4. \A a \in Bufs : /\ TextOf(a)' = TextsIn(desc', e[a])
                      /\ desc'[mbuf'[a].cur].text = TextsIn(desc', e[a])[mbuf'[a].curline]
  BY <1>1, LinesShownNext DEF Shown
<1>5. Abstract!Request(TextOf(b), TextOf(b)', mbuf'[b].curline)
  <2>1. TextOf(b) = TextsIn(desc, c[b]) /\ TextOf(b)' = TextsIn(desc', cb)
    BY <1>2, <1>3, <1>4
  <2> QED
    BY <2>1 DEF Answered
<1>6. ASSUME NEW a \in Bufs, a # b
      PROVE  /\ TextOf(a)' = TextOf(a) /\ mbuf'[a].curline = mbuf[a].curline
             /\ desc'[mbuf'[a].cur].text = desc[mbuf[a].cur].text
  <2>1. mbuf'[a] = mbuf[a] /\ \A i \in 1 .. Len(c[a]) : desc'[c[a][i]] = desc[c[a][i]]
    BY <1>6, OthersKept
  <2>2. TextsIn(desc', c[a]) = TextsIn(desc, c[a])
    BY <2>1 DEF TextsIn
  <2>3. mbuf'[a].curline = mbuf[a].curline
    BY <2>1, Zenon
  <2>4. e[a] = c[a]
    BY <1>2, <1>6
  <2>5. TextOf(a)' = TextsIn(desc, c[a]) /\ desc'[mbuf'[a].cur].text = TextsIn(desc, c[a])[mbuf'[a].curline]
    BY <1>4, <2>2, <2>4, Zenon
  <2>6. TextOf(a) = TextsIn(desc, c[a]) /\ desc[mbuf[a].cur].text = TextsIn(desc, c[a])[mbuf[a].curline]
    BY <1>3, Zenon
  <2> QED
    BY <2>3, <2>5, <2>6, Zenon
<1> QED
  BY <1>4, <1>5, <1>6

\* emem.c: the lists of descriptors are the sequences of lines the editor believes
\* in: every request changes the lines as it says, leaves the other buffers alone,
\* and hands out the text of the line it was about; refused for want of memory, it
\* changes no line.
THEOREM LinesImplemented == Spec => Implements
<1>1. IInv /\ [Next]_vars => [Abstract!Next]_(Abstract!vars)
  <2> SUFFICES ASSUME IInv, [Next]_vars PROVE [Abstract!Next]_(Abstract!vars)
    OBVIOUS
  <2>1. PICK c \in [Bufs -> Seq(Descs)] : Chained(desc, mbuf, c)
    BY DEF IInv
  <2>2. CASE Next
    <3>1. PICK b \in Bufs : \E cb : Served(b, c, cb) /\ Answered(b, c, cb)
      BY <2>1, <2>2, StepServed
    <3>2. PICK cb : Served(b, c, cb) /\ Answered(b, c, cb)
      BY <3>1
    <3>3. /\ Abstract!Request(TextOf(b), TextOf(b)', mbuf'[b].curline)
          /\ desc'[mbuf'[b].cur].text = TextOf(b)'[mbuf'[b].curline]
          /\ \A a \in Bufs \ {b} : /\ TextOf(a)' = TextOf(a) /\ mbuf'[a].curline = mbuf[a].curline
                                   /\ desc'[mbuf'[a].cur].text = desc[mbuf[a].cur].text
      BY <2>1, <3>2, RequestShown
    <3> QED
      BY <3>3 DEF Abstract!Next
  <2>3. CASE UNCHANGED vars
    <3>1. desc' = desc /\ mbuf' = mbuf
      BY <2>3 DEF vars
    <3>2. ASSUME NEW b \in Bufs PROVE TextOf(b)' = TextOf(b)
      <4>1. Chained(desc', mbuf', c)
        BY <2>1, <3>1
      <4>2. TextOf(b) = TextsIn(desc, c[b])
        BY <2>1, LinesShown DEF Shown
      <4>3. TextOf(b)' = TextsIn(desc', c[b])
        BY <4>1, LinesShownNext DEF Shown
      <4> QED
        BY <3>1, <4>2, <4>3
    <3>3. [b \in Bufs |-> TextOf(b)]' = [b \in Bufs |-> TextOf(b)]
      BY <3>2
    <3> QED
      BY <3>1, <3>3 DEF Abstract!vars
  <2> QED
    BY <2>2, <2>3
<1> QED
  BY <1>1, InitLines, InitInv, StepInv, PTL DEF Spec, Implements, Abstract!Spec

=============================================================================
