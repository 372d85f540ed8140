---------------------------- MODULE DiskBuffers ----------------------------
(***************************************************************************)
(* GENCCPM's disk buffers (src/commands/genccpm/genc4.c): the questions    *)
(* about the directory and data buffers of each drive, which may be its    *)
(* own or shared with another drive, and genxios, which lays out checksum  *)
(* and allocation vectors, buffer control blocks (BCBs), buffers and hash  *)
(* tables; then the fixups of genc3.c that make the pointers absolute.     *)
(* The vectors, the BCBs and the directory buffers lie in the system data  *)
(* segment; the data buffers and hash tables in the area reserved behind   *)
(* the system, whose segment is known only at the end.                     *)
(***************************************************************************)
EXTENDS Integers, Sequences, SequencesExt, FiniteSets, Functions

CONSTANTS
  NDrives,          \* drives 0 .. NDrives - 1 have a disk parameter header
  BlkSize, CsvSize, AlvSize, HashSize,   \* by drive, in bytes (initxios_info)
  AskCsv, AskAlv, AskDir, AskDat, AskHash,  \* the drives with 0FFFFH there
  DirCounts, DatCounts,   \* <<buffers, maximum per process>> a user answers
  Start,            \* offset in the system data segment given to genxios
  RsvdSeg           \* segment of the reserved area, known when fixups run

BcbLen == 16
BcbhLen == 3
Drives == 0 .. NDrives - 1
DriveOrder == [i \in 1 .. NDrives |-> i - 1]

ASSUME DrivesAssumption ==
  /\ NDrives \in Nat \ {0} /\ Start \in Nat \ {0} /\ RsvdSeg \in Nat \ {0}
  /\ AskDir \subseteq Drives /\ AskDat \subseteq Drives /\ AskHash \subseteq Drives
  /\ \A d \in Drives : BlkSize[d] % 16 = 0 /\ HashSize[d] % 16 = 0

\* d_ndirbs, d_ndatbs: 0FFFFH, a number with its maximum, or a drive | SHRMSK.
Unasked == [kind |-> "ask"]
Own(n, pm) == [kind |-> "own", n |-> n, pm |-> pm]
Shares(d) == [kind |-> "share", with |-> d]

VARIABLES
  dir, dat,   \* d_ndirbs and d_ndatbs of each drive, with d_pmdirbs, d_pmdatbs
  hashing,    \* d_hashing
  gen,        \* what genxios has laid out: see Nothing
  dphase       \* "menu", "valid", "laid" (genxios done), "fixed"

dvars == <<dir, dat, hashing, gen, dphase>>

-----------------------------------------------------------------------------
(* The questions. *)

IsShared(a) == a.kind = "share"

\* asknd: the answers it accepts; only data may be refused buffers, and only
\* for a drive of single records.
ShareAnswers(asking, info) ==
  {Shares(v) : v \in {w \in asking : ~ IsShared(info[w])}}
DirAnswers == {Own(c[1], c[2]) : c \in DirCounts} \cup ShareAnswers(AskDir, dir)
DatAnswers(zeroOk) ==
  {Own(c[1], c[2]) : c \in DatCounts} \cup ShareAnswers(AskDat, dat)
    \cup (IF zeroOk THEN {Own(0, 0)} ELSE {})

\* Bug: the drives that share are forgotten.
BugUsers(info, asking, d) == {d}

\* dcalcsizes: the room of a buffer of drive d is the largest block of the
\* drives that say they use its buffers, its own included.
Users(info, asking, d) ==
  {e \in asking : \/ e = d /\ info[e].kind = "own"
                  \/ info[e] = Shares(d)}
Largest(S) == CHOOSE x \in S \cup {0} : \A y \in S : x >= y
BufSize(info, asking, d) == Largest({BlkSize[e] : e \in Users(info, asking, d)})

\* dspdsize: nothing can be asked of this drive.
AllFixed(d) == d \notin AskDir \cup AskDat \cup AskHash

\* xiosvalid: dspdsize is not -1 for any drive.
XiosValid ==
  /\ \A d \in AskDir : dir[d].kind # "ask"
  /\ \A d \in AskDat : dat[d].kind # "ask"

-----------------------------------------------------------------------------
(* genxios. *)

Nothing ==
  [off |-> Start,        \* doffset
   bufs |-> 0,           \* bufs_seg, from the reserved segment
   loc |-> 0,            \* locbufs_off
   locrsvd |-> 0,        \* locrsvd_off, 0 until it is known
   regions |-> {},       \* [at, len] of vectors, BCBs, headers and buffers
   bcb |-> {},           \* [at, link, ptr, room, fix] of each BCB, with
                         \* the variable fixlater has noted for its pointer
   header |-> {},        \* [at, lr, pm]
   dirhdr |-> [d \in Drives |-> -1],  \* dph_dirbcb; -1 stands for 0FFFFH
   dathdr |-> [d \in Drives |-> -1],
   hash |-> [d \in Drives |-> -1]]

Region(g, len) == [g EXCEPT !.off = @ + len,
                            !.regions = @ \cup {[at |-> g.off, len |-> len]}]

Csv(g, d) == IF d \in AskCsv /\ CsvSize[d] > 0 THEN Region(g, CsvSize[d]) ELSE g
Alv(g, d) == IF d \in AskAlv THEN Region(g, AlvSize[d]) ELSE g

\* n BCBs, each linked to the one before, and the header that is their root.
Bcbs(g, a, ptr, room, var) ==
  {[at |-> g.off + (j - 1) * BcbLen,
    link |-> IF j = 1 THEN 0 ELSE g.off + (j - 2) * BcbLen,
    ptr |-> ptr + (j - 1) * room, room |-> room, fix |-> var] : j \in 1 .. a.n}
HeaderAt(g, a) == g.off + a.n * BcbLen
WithBcbs(g, a, ptr, room, var) ==
  [Region(g, a.n * BcbLen + BcbhLen) EXCEPT
     !.bcb = @ \cup Bcbs(g, a, ptr, room, var),
     !.header = @ \cup {[at |-> HeaderAt(g, a), pm |-> a.pm,
                         lr |-> IF a.n = 0 THEN 0 ELSE HeaderAt(g, a) - BcbLen]}]

\* Directory buffers: pointers from the start of the local buffers.
DirBcbs(g, d) ==
  IF d \notin AskDir \/ IsShared(dir[d]) THEN g
  ELSE LET room == BufSize(dir, AskDir, d)
       IN  [WithBcbs(g, dir[d], g.loc, room, "locrsvd_off") EXCEPT
              !.loc = @ + dir[d].n * room, !.dirhdr[d] = HeaderAt(g, dir[d])]

\* Bug: room is left for one buffer.
BugDatBcbs(g, d) ==
  IF d \notin AskDat \/ IsShared(dat[d]) THEN g
  ELSE LET pgphs == BufSize(dat, AskDat, d) \div 16
       IN  [WithBcbs(g, dat[d], g.bufs, pgphs, "rsvd_seg") EXCEPT
              !.bufs = @ + pgphs, !.dathdr[d] = HeaderAt(g, dat[d])]

\* Data buffers: pointers in paragraphs from the reserved segment.
DatBcbs(g, d) ==
  IF d \notin AskDat \/ IsShared(dat[d]) THEN g
  ELSE LET room == BufSize(dat, AskDat, d)
           pgphs == room \div 16
       IN  [WithBcbs(g, dat[d], g.bufs, pgphs, "rsvd_seg") EXCEPT
              !.bufs = @ + dat[d].n * pgphs, !.dathdr[d] = HeaderAt(g, dat[d])]

DirBufs(g) == [Region(g, g.loc) EXCEPT !.locrsvd = g.off]

HashTab(g, d) ==
  IF d \notin AskHash THEN g
  ELSE IF ~ hashing[d] THEN [g EXCEPT !.hash[d] = 0]
  ELSE [g EXCEPT !.hash[d] = g.bufs, !.bufs = @ + HashSize[d] \div 16]

\* The drives are resolved in order, each from what the other has by then.
ResolveShared(g, d) ==
  LET g1 == IF d \in AskDir /\ IsShared(dir[d])
            THEN [g EXCEPT !.dirhdr[d] = g.dirhdr[dir[d].with]] ELSE g
  IN  IF d \in AskDat /\ IsShared(dat[d])
      THEN [g1 EXCEPT !.dathdr[d] = g1.dathdr[dat[d].with]] ELSE g1

ForEachDrive(Op(_, _), g) == FoldLeft(Op, g, DriveOrder)

Layout ==
  ForEachDrive(ResolveShared,
    ForEachDrive(HashTab,
      DirBufs(
        ForEachDrive(DatBcbs,
          ForEachDrive(DirBcbs,
            ForEachDrive(Alv,
              ForEachDrive(Csv, Nothing)))))))

\* fixfile: what is added to each word that fixlater has noted.
FixBcb(g, b) == [b EXCEPT !.ptr = @ + (IF b.fix = "locrsvd_off" THEN g.locrsvd ELSE RsvdSeg)]
Fixed(g) ==
  [g EXCEPT !.bcb = {FixBcb(g, b) : b \in g.bcb},
            !.hash = [d \in Drives |-> IF d \in AskHash /\ hashing[d]
                                       THEN g.hash[d] + RsvdSeg ELSE g.hash[d]]]

-----------------------------------------------------------------------------
DiskInit ==
  /\ dir = [d \in Drives |-> Unasked] /\ dat = [d \in Drives |-> Unasked]
  /\ hashing = [d \in Drives |-> TRUE]
  /\ gen = Nothing /\ dphase = "menu"

\* askabout: a drive is asked about everything it leaves open.
AskAbout(d, a, b, h) ==
  /\ dphase = "menu" /\ ~ AllFixed(d)
  /\ dir' = IF d \in AskDir THEN [dir EXCEPT ![d] = a] ELSE dir
  /\ dat' = IF d \in AskDat THEN [dat EXCEPT ![d] = b] ELSE dat
  /\ hashing' = IF d \in AskHash THEN [hashing EXCEPT ![d] = h] ELSE hashing
  /\ UNCHANGED <<gen, dphase>>

\* askstar: one answer for all drives that have not been answered yet.
AskStar(a, b, h) ==
  /\ dphase = "menu"
  /\ dir' = [d \in Drives |-> IF d \in AskDir /\ dir[d] = Unasked THEN a ELSE dir[d]]
  /\ dat' = [d \in Drives |-> IF d \in AskDat /\ dat[d] = Unasked THEN b ELSE dat[d]]
  /\ hashing' = [d \in Drives |-> IF d \in AskHash THEN h ELSE hashing[d]]
  /\ UNCHANGED <<gen, dphase>>

\* doxbufs: an empty line leaves the menu if everything is answered.
Leave == dphase = "menu" /\ XiosValid /\ dphase' = "valid" /\ UNCHANGED <<dir, dat, hashing, gen>>

GenXios == /\ dphase = "valid"
           /\ gen' = Layout
           /\ dphase' = "laid" /\ UNCHANGED <<dir, dat, hashing>>

\* fixups: fixupxios_info writes the DPHs, then fixfile adds to what is there.
FixBuffers == /\ dphase = "laid"
              /\ gen' = Fixed(gen)
              /\ dphase' = "fixed" /\ UNCHANGED <<dir, dat, hashing>>

DiskDone == dphase = "fixed" /\ UNCHANGED dvars

DiskNext ==
  \/ \E d \in Drives, a \in DirAnswers, h \in BOOLEAN :
       \E b \in DatAnswers(BlkSize[d] = 128) : AskAbout(d, a, b, h)
  \/ \E a \in DirAnswers, b \in DatAnswers(FALSE), h \in BOOLEAN : AskStar(a, b, h)
  \/ Leave
  \/ GenXios
  \/ FixBuffers
  \/ DiskDone

DiskSpec == DiskInit /\ [][DiskNext]_dvars

-----------------------------------------------------------------------------
(* Properties. *)

\* No drive shares the buffers of a drive that shares another's.
NoChain ==
  /\ \A d \in AskDir : IsShared(dir[d]) => ~ IsShared(dir[dir[d].with])
  /\ \A d \in AskDat : IsShared(dat[d]) => ~ IsShared(dat[dat[d].with])

\* The BCBs found from a header by their links.
ListFrom(hdr) ==
  LET At(a) == {b \in gen.bcb : b.at = a}
      First == At((CHOOSE x \in gen.header : x.at = hdr).lr)
  IN  FoldFunction(LAMBDA b, found : found \cup UNION {At(c.link) : c \in found},
                   First, [b \in gen.bcb |-> b])

DirList(d) == ListFrom(gen.dirhdr[d])
DatList(d) == ListFrom(gen.dathdr[d])
Owner(info, d) == IF IsShared(info[d]) THEN info[d].with ELSE d
Extent(at, len) == at .. at + len - 1

\* Every drive finds, through its DPH, as many buffers as were asked for, each
\* with room for a block of the drive, wherever the drive that owns them comes
\* in the order and in whatever order the questions were answered.
BuffersServe ==
  dphase = "fixed" /\ NoChain =>
    /\ \A d \in AskDir :
         /\ Cardinality(DirList(d)) = dir[Owner(dir, d)].n
         /\ \A b \in DirList(d) : b.room >= BlkSize[d]
    /\ \A d \in AskDat :
         /\ Cardinality(DatList(d)) = dat[Owner(dat, d)].n
         /\ \A b \in DatList(d) : 16 * b.room >= BlkSize[d]

\* After the fixups no two buffers, tables or control blocks overlap: the
\* directory buffers lie behind the tables in the system data segment, the
\* data buffers and hash tables in what the system reserves (bufs_seg).
NoOverlap ==
  dphase = "fixed" /\ NoChain =>
    LET dirs == UNION {DirList(d) : d \in AskDir}
        dats == UNION {DatList(d) : d \in AskDat}
        hashes == {d \in AskHash : hashing[d]}
        Apart(S, T) == S \cap T = {}
    IN  /\ \A b, c \in dirs : b # c => Apart(Extent(b.ptr, b.room), Extent(c.ptr, c.room))
        /\ \A b \in dirs : b.ptr + b.room <= gen.off
        /\ \A r \in gen.regions, b \in dirs :
             r.at # gen.locrsvd => Apart(Extent(r.at, r.len), Extent(b.ptr, b.room))
        /\ \A b, c \in dats : b # c => Apart(Extent(b.ptr, b.room), Extent(c.ptr, c.room))
        /\ \A d, e \in hashes :
             d # e => Apart(Extent(gen.hash[d], HashSize[d] \div 16),
                            Extent(gen.hash[e], HashSize[e] \div 16))
        /\ \A b \in dats, d \in hashes :
             Apart(Extent(b.ptr, b.room), Extent(gen.hash[d], HashSize[d] \div 16))
        /\ \A b \in dats : b.ptr >= RsvdSeg /\ b.ptr + b.room <= RsvdSeg + gen.bufs
        /\ \A d \in hashes : gen.hash[d] + HashSize[d] \div 16 <= RsvdSeg + gen.bufs

\* The buffers of all drives are there, are large enough and lie apart.
BuffersSound == BuffersServe /\ NoOverlap

\* The menu is left only when every drive will have buffers.
\* (genc4.c:208 "exits only when all data valid")
AllResolved ==
  dphase = "fixed" => \A d \in AskDir : gen.dirhdr[d] # -1

=============================================================================
