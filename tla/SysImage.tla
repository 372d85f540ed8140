------------------------------ MODULE SysImage ------------------------------
(***************************************************************************)
(* GENCCPM writes the system image CCPM.SYSFILE (src/commands/genccpm): the    *)
(* modules and the system data (gensys), the tables behind them and the    *)
(* RSPs behind those (gentables), the places that could only be known at   *)
(* the end (fixups), and the renaming of the finished file (wrapup).       *)
(*                                                                         *)
(* The program keeps two accounts of where it is: the offset in the system *)
(* data segment (a word) or the segment of the next RSP, which go into     *)
(* links and pointers, and the position in the file.  The file is the set  *)
(* of the things written to it, each with its position; `len' is where it  *)
(* would end, `room' where the disk is full.                               *)
(***************************************************************************)
EXTENDS Integers, Sequences, SequencesExt, FiniteSets

CONSTANTS
  Word,        \* 2^16
  MpmSeg,      \* *sd_mpmseg, paragraph the system starts at
  ModLen,      \* paragraphs of the modules, in their order in the file
  SysdatLen, XiosLen,   \* paragraphs of the SYSDAT and XIOS modules
  XiosAlloc,   \* xt_alloc, paragraphs the XIOS asks for
  Params,      \* [mds, pds, qcbs, open, flags, qbuf, xios, bufs, label, clean]
               \* a user may end up with: numbers of table entries, bytes of
               \* queue buffers, bytes and paragraphs of disk buffers, bytes
               \* of the OS label, doclean
  Rsp,         \* [data, code, ncs, mem] of each RSP file: paragraphs of its
               \* groups (data 0: none), copies beside the first, pd_mem # 0
  MaxRsps,     \* bound: RSPs on the list
  Rooms        \* sizes of the disk

SecSiz == 128
MdLen == 10
PdLen == 48
QcbLen == 28
LockLen == 10
FlagLen == 3
SatLen == 5
VersionLen == 32     \* the version string behind the image

RspNames == DOMAIN Rsp
ASSUME ImageAssumption ==
  /\ {Word, MpmSeg, SysdatLen, XiosLen} \subseteq Nat \ {0} /\ XiosAlloc \in Nat
  /\ ModLen \in Seq(Nat)
  /\ \A p \in Params : {p.mds, p.pds, p.qcbs, p.open, p.flags, p.qbuf, p.xios, p.bufs,
                        p.label} \subseteq Nat
  /\ \A r \in RspNames : /\ Rsp[r].data \in Nat /\ Rsp[r].code \in Nat \ {0}
                         /\ Rsp[r].ncs \in Int /\ Rsp[r].ncs >= -1 /\ Rsp[r].mem \in BOOLEAN

VARIABLES
  stage,
  rsps,     \* the RSP list, as the user leaves it
  par,      \* the parameters
  room,     \* bytes the disk has for the file
  file,     \* [len, items, fixes]
  off,      \* doffset, and what it would be in a word of any size
  oldladdr, \* the last offset chkaddr has seen
  todo,     \* RSPs that are still to be appended
  rsplast, rspseg,
  sd,       \* what goes into the system data page
  hdr,      \* the command header
  disk      \* the file under each name

ivars == <<stage, rsps, par, room, file, off, oldladdr, todo, rsplast, rspseg, sd, hdr, disk>>
image == <<file, off, oldladdr, todo, rsplast, rspseg, sd, hdr>>

Align(n) == ((n + 15) \div 16) * 16
SumTo(i) ==
  LET s[k \in 0 .. Len(ModLen)] == IF k = 0 THEN 0 ELSE s[k - 1] + ModLen[k] IN s[i]

\* What the program knows of the system data page before it has worked it out.
NoSysdat ==
  [eseg |-> <<>>, mdul |-> 0, pul |-> 0, qul |-> 0, lul |-> 0, flags |-> 0, lists |-> <<>>,
   qmastart |-> 0, qmalen |-> 0, satheader |-> 0, satfirst |-> 0, daend |-> 0,
   rspseg |-> 0, rsvd |-> 0, xtalloc |-> 0, endseg |-> 0, dltotal |-> 0]
NoHeader == [clen |-> 0, cbase |-> 0, dlen |-> 0, dbase |-> 0]

-----------------------------------------------------------------------------
(* The user's part. *)

Names == {"SYSFILE", "OLDSYS", "NEWSYS"}

ImageInit ==
  /\ stage = "start" /\ rsps = <<>> /\ par = (CHOOSE p \in Params : TRUE) /\ room = 0
  /\ file = [len |-> 0, items |-> {}, fixes |-> {}]
  /\ off = [word |-> 0, whole |-> 0] /\ oldladdr = 0
  /\ todo = <<>> /\ rsplast = 0 /\ rspseg = 0
  /\ sd = NoSysdat /\ hdr = NoHeader
  /\ disk = [n \in Names |-> "none"]

\* The program is started.  The disk holds an older system under its name, and
\* perhaps one before that.
StartGenccpm ==
  /\ stage = "start" /\ stage' = "menu"
  /\ par' \in Params /\ room' \in Rooms
  /\ disk' \in [Names -> {"system", "none"}] /\ disk'["NEWSYS"] = "none"
  /\ UNCHANGED rsps /\ UNCHANGED image

\* rspinclude, rspjoin: behind those on the list, once more if it is there.
RspInclude(r) ==
  /\ stage = "menu" /\ Len(rsps) < MaxRsps
  /\ rsps' = Append(rsps, r)
  /\ UNCHANGED <<stage, par, room, disk>> /\ UNCHANGED image

\* rspexclude, rspzap: the first of that name, or all.
RspExclude(r) ==
  LET at == SelectInSeq(rsps, LAMBDA x : x = r)
  IN  /\ stage = "menu" /\ at # 0
      /\ rsps' = RemoveAt(rsps, at)
      /\ UNCHANGED <<stage, par, room, disk>> /\ UNCHANGED image
RspExcludeAll ==
  /\ stage = "menu" /\ rsps # <<>>
  /\ rsps' = <<>>
  /\ UNCHANGED <<stage, par, room, disk>> /\ UNCHANGED image

-----------------------------------------------------------------------------
(* make_sysfile and gensys. *)

\* Position in the file of module i: the header, the modules before it, and the
\* label behind the first of them, padded to paragraphs.
CodeBefore(i) == SumTo(i - 1) + (IF i > 1 THEN Align(par.label) \div 16 ELSE 0)
PosOf(i) == SecSiz + 16 * CodeBefore(i)
CodeTotal == CodeBefore(Len(ModLen) + 1)
Fldstart == SecSiz + 16 * CodeTotal
Dsstart == MpmSeg + CodeTotal

\* genfix: each module, and the XIOS, is told the segment of the system data.
GenFix(i) == [at |-> PosOf(i) + 6, to |-> Dsstart]
XiosFix == [at |-> Fldstart + 16 * SysdatLen + 6, to |-> Dsstart]

\* The temporary file is made anew, the old system deleted first if the user
\* wants that.  The entry segment of a module is the one before plus its length.
Gensys ==
  LET dlen == 16 * (SysdatLen + XiosLen)
      mods == {[kind |-> "module", name |-> i, at |-> PosOf(i)] : i \in DOMAIN ModLen}
  IN  /\ stage = "menu"
      /\ stage' = "modules"
      /\ file' = [len |-> Fldstart + dlen, items |-> mods,
                  fixes |-> {GenFix(i) : i \in DOMAIN ModLen} \cup {XiosFix}]
      /\ sd' = [sd EXCEPT !.eseg = [i \in DOMAIN ModLen |-> MpmSeg + CodeBefore(i)]]
      /\ off' = [word |-> dlen % Word, whole |-> dlen]
      /\ oldladdr' = dlen % Word     \* chkaddr(doffset), "init the function"
      /\ disk' = [disk EXCEPT !["NEWSYS"] = "partial", !["SYSFILE"] = IF par.clean THEN "none" ELSE @]
      /\ UNCHANGED <<rsps, par, room, todo, rsplast, rspseg, hdr>>

-----------------------------------------------------------------------------
(* gentables. *)

\* datwrite: the program stops when a table does not fit on the disk.
Fits(n) == file.len + n <= room
Stop == stage' = "failed" /\ UNCHANGED <<rsps, par, room, disk>> /\ UNCHANGED image

\* chkaddr: an offset below the last one that was checked means an overflow.
GrownTooLarge(o) == o % Word < oldladdr

\* Bug: the root is one too far.
BugList(o, n, size) ==
  [root |-> (o + n * size) % Word, end |-> o + n * size, n |-> n, at |-> o, size |-> size]

\* A list of n items of a size from offset o, each linked to the one before it;
\* its root is the last (genmfl's list is linked forward from the first).
List(o, n, size) ==
  [root |-> IF n = 0 THEN 0 ELSE (o + (n - 1) * size) % Word,
   end |-> o + n * size, n |-> n, at |-> o, size |-> size]

\* The tables up to the flags, and what genxios puts behind them.
Tables(o) ==
  LET md == List(o, par.mds, MdLen)
      pd == List(md.end, par.pds, PdLen)
      qcb == List(pd.end, par.qcbs, QcbLen)
      lock == List(qcb.end, par.open, LockLen)
  IN  [md |-> md, pd |-> pd, qcb |-> qcb, lock |-> lock,
       flags |-> lock.end, xios |-> lock.end + par.flags * FlagLen,
       end |-> lock.end + par.flags * FlagLen + par.xios]

\* Offsets are pointers in words; a table is where the file was then.
ItemsOf(t) ==
  {[kind |-> "table", name |-> "md", at |-> Fldstart + t.md.at],
   [kind |-> "table", name |-> "pd", at |-> Fldstart + t.pd.at],
   [kind |-> "table", name |-> "qcb", at |-> Fldstart + t.qcb.at],
   [kind |-> "table", name |-> "lock", at |-> Fldstart + t.lock.at],
   [kind |-> "table", name |-> "flags", at |-> Fldstart + t.flags]}

GenTables ==
  LET t == Tables(off.whole)
      size == t.end - off.whole
  IN  /\ stage = "modules"
      /\ IF ~ Fits(size) \/ GrownTooLarge(t.end) THEN Stop
         ELSE /\ stage' = "tables"
              /\ file' = [file EXCEPT !.len = @ + size, !.items = @ \cup ItemsOf(t)]
              /\ off' = [word |-> t.end % Word, whole |-> t.end]
              /\ oldladdr' = t.end % Word
              /\ sd' = [sd EXCEPT !.mdul = t.md.root, !.pul = t.pd.root, !.qul = t.qcb.root,
                                   !.lul = t.lock.root, !.flags = t.flags % Word,
                                   !.lists = <<t.md, t.pd, t.qcb, t.lock>>]
              /\ UNCHANGED <<rsps, par, room, todo, rsplast, rspseg, hdr, disk>>

\* The queue buffers: padding to a paragraph, which makes the table of their
\* suballocation addressable by a segment; a header and the entries, for each
\* queue the worst case; the buffers; and padding again, not checked.
SatItems == 1 + 1 + 2 * par.qcbs
GenQma ==
  LET start == Align(off.whole)
      buf == start + SatLen * SatItems
      end == buf + par.qbuf
      daend == (Align(end) % Word) \div 16
      grown == Align(end) - off.whole
  IN  /\ stage = "tables"
      /\ IF ~ Fits(grown) \/ GrownTooLarge(end) THEN Stop
         ELSE /\ stage' = "rsps"
              /\ file' = [file EXCEPT !.len = @ + grown, !.items = @ \cup
                   {[kind |-> "table", name |-> "sat", at |-> file.len + start - off.whole],
                    [kind |-> "table", name |-> "qbuf", at |-> file.len + buf - off.whole]}]
              /\ off' = [word |-> daend * 16, whole |-> Align(end)]
              /\ oldladdr' = end % Word
              /\ sd' = [sd EXCEPT !.qmastart = Dsstart + (start % Word) \div 16,
                                   !.qmalen = par.qbuf \div 16,
                                   !.satheader = SatItems - 1, !.satfirst = buf % Word,
                                   !.daend = daend]
              /\ todo' = rsps /\ rsplast' = 0 /\ rspseg' = Dsstart + daend
              /\ UNCHANGED <<rsps, par, room, hdr, disk>>

\* Header copy i of an RSP at segment seg: its data segment, its code segment
\* and the link to the one before.  num tells two inclusions of one file apart.
Header(r, num, i, seg, at, cs, link) ==
  [kind |-> "rsp", name |-> r, num |-> num, copy |-> i, at |-> at,
   ds |-> seg, cs |-> cs, link |-> link]
Code(r, num, i, at) == [kind |-> "code", name |-> r, num |-> num, copy |-> i, at |-> at]

\* xfer_separate_rsp: each copy is data and code.  xfer_pure_rsp: the copies of
\* the data, then the code once.  xfer_mixed_rsp: copies of the one group.
Kind(r) == IF Rsp[r].data > 0 THEN (IF Rsp[r].mem THEN "pure" ELSE "separate")
           ELSE IF Rsp[r].mem THEN "refused" ELSE "mixed"
Step(r) == CASE Kind(r) = "separate" -> Rsp[r].data + Rsp[r].code
             [] Kind(r) = "pure" -> Rsp[r].data
             [] Kind(r) = "mixed" -> Rsp[r].code
             [] OTHER -> 0
Copies(r) == IF Kind(r) = "refused" THEN {} ELSE 0 .. Rsp[r].ncs
\* Bug: the code of a pure RSP is behind the first copy.
BugCsOf(r, seg, i) == seg + i * Step(r) + Rsp[r].data

CsOf(r, seg, i) == CASE Kind(r) = "separate" -> seg + i * Step(r) + Rsp[r].data
                     [] Kind(r) = "pure" -> seg + (1 + Rsp[r].ncs) * Rsp[r].data
                     [] OTHER -> seg + i * Step(r)

\* Paragraphs that go to the file.
Taken(r) == Cardinality(Copies(r)) * Step(r) + (IF Kind(r) = "pure" THEN Rsp[r].code ELSE 0)

CodesOf(r, num) ==
  CASE Kind(r) = "separate" ->
         {Code(r, num, i, file.len + 16 * (i * Step(r) + Rsp[r].data)) : i \in Copies(r)}
    [] Kind(r) = "pure" ->
         {Code(r, num, i, file.len + 16 * Cardinality(Copies(r)) * Step(r)) : i \in Copies(r)}
    [] OTHER -> {Code(r, num, i, file.len + 16 * i * Step(r)) : i \in Copies(r)}

\* xfer_rsp: its writes are not checked.
XferRsp ==
  LET r == Head(todo)
      num == Len(todo)
      seg(i) == rspseg + i * Step(r)
      header(i) == Header(r, num, i, seg(i), file.len + 16 * i * Step(r), CsOf(r, rspseg, i),
                          IF i = 0 THEN rsplast ELSE seg(i - 1))
  IN  /\ stage = "rsps" /\ todo # <<>>
      /\ file' = [file EXCEPT !.len = @ + 16 * Taken(r),
                    !.items = @ \cup CodesOf(r, num) \cup {header(i) : i \in Copies(r)}]
      /\ rsplast' = IF Copies(r) = {} THEN rsplast ELSE seg(Rsp[r].ncs)
      /\ rspseg' = rspseg + Taken(r)
      /\ todo' = Tail(todo)
      /\ UNCHANGED <<stage, rsps, par, room, off, oldladdr, sd, hdr, disk>>

\* Bug: the tables count twice.
BugReserve ==
  /\ stage = "rsps" /\ todo = <<>>
  /\ stage' = "generated"
  /\ sd' = [sd EXCEPT !.rspseg = rsplast, !.rsvd = rspseg, !.xtalloc = rspseg + par.bufs,
                       !.endseg = rspseg + par.bufs + XiosAlloc,
                       !.dltotal = sd.daend + rspseg - Dsstart]
  /\ UNCHANGED <<rsps, par, room, file, off, oldladdr, todo, rsplast, rspseg, hdr, disk>>

\* The end of gentables: the reserved area with the disk buffers, and behind
\* them what the XIOS has asked for; it is told by a fix.
Reserve ==
  /\ stage = "rsps" /\ todo = <<>>
  /\ stage' = "generated"
  /\ sd' = [sd EXCEPT !.rspseg = rsplast, !.rsvd = rspseg, !.xtalloc = rspseg + par.bufs,
                       !.endseg = rspseg + par.bufs + XiosAlloc,
                       !.dltotal = sd.daend + rspseg - (Dsstart + sd.daend)]
  /\ UNCHANGED <<rsps, par, room, file, off, oldladdr, todo, rsplast, rspseg, hdr, disk>>

-----------------------------------------------------------------------------
(* fixups and wrapup. *)

\* fixups: the command header, the system data page, the fixes.
FixImage ==
  /\ stage = "generated"
  /\ stage' = "fixed"
  /\ hdr' = [clen |-> CodeTotal, cbase |-> MpmSeg, dlen |-> sd.dltotal, dbase |-> MpmSeg + CodeTotal]
  /\ file' = [file EXCEPT !.items =
       {IF x.kind = "module"
        THEN [kind |-> "fixed", name |-> x.name, at |-> x.at,
              ds |-> (CHOOSE f \in file.fixes : f.at = x.at + 6).to]
        ELSE x : x \in file.items}]
  /\ UNCHANGED <<rsps, par, room, off, oldladdr, todo, rsplast, rspseg, sd, disk>>

\* Bug: nobody looks whether the version string was written.
BugWriteVersion ==
  /\ stage = "fixed" /\ stage' = "written"
  /\ disk' = [disk EXCEPT !["NEWSYS"] = IF Fits(VersionLen) THEN "system" ELSE "partial"]
  /\ UNCHANGED <<rsps, par, room>> /\ UNCHANGED image

\* wrapup: the version string shows whether the disk was full.
WriteVersion ==
  /\ stage = "fixed"
  /\ IF ~ Fits(VersionLen) THEN Stop
     ELSE /\ stage' = "written"
          /\ disk' = [disk EXCEPT !["NEWSYS"] = "system"]
          /\ UNCHANGED <<rsps, par, room>> /\ UNCHANGED image
UnlinkOld ==
  /\ stage = "written" /\ stage' = "unlinked"
  /\ disk' = [disk EXCEPT !["OLDSYS"] = "none"]
  /\ UNCHANGED <<rsps, par, room>> /\ UNCHANGED image
RenameSys ==
  /\ stage = "unlinked" /\ stage' = "renamed"
  /\ disk' = [disk EXCEPT !["OLDSYS"] = disk["SYSFILE"], !["SYSFILE"] = "none"]
  /\ UNCHANGED <<rsps, par, room>> /\ UNCHANGED image
RenameNew ==
  /\ stage = "renamed" /\ stage' = "done"
  /\ disk' = [disk EXCEPT !["SYSFILE"] = disk["NEWSYS"], !["NEWSYS"] = "none"]
  /\ UNCHANGED <<rsps, par, room>> /\ UNCHANGED image

\* The machine is switched off, or the user stops the program.
Crash ==
  /\ stage \notin {"start", "menu", "failed", "done", "crashed"}
  /\ stage' = "crashed"
  /\ UNCHANGED <<rsps, par, room, disk>> /\ UNCHANGED image

Halted == stage \in {"failed", "done", "crashed"} /\ UNCHANGED ivars

ImageNext ==
  \/ StartGenccpm
  \/ \E r \in RspNames : RspInclude(r) \/ RspExclude(r)
  \/ RspExcludeAll
  \/ Gensys \/ GenTables \/ GenQma \/ XferRsp \/ Reserve \/ FixImage
  \/ WriteVersion \/ UnlinkOld \/ RenameSys \/ RenameNew
  \/ Crash \/ Halted

ImageSpec == ImageInit /\ [][ImageNext]_ivars

-----------------------------------------------------------------------------
(* Properties. *)

Written == stage \in {"written", "unlinked", "renamed", "done"}

\* Where a position of the file is in memory when the image is loaded at MpmSeg.
SegAt(pos) == MpmSeg + (pos - SecSiz) \div 16
OffAt(pos) == pos - Fldstart

Headers == {x \in file.items : x.kind = "rsp"}
Expected ==
  UNION {{<<num, i>> : i \in Copies(rsps[Len(rsps) + 1 - num])} : num \in 1 .. Len(rsps)}

\* Following the links from sd_rspseg the kernel comes once to every copy of
\* every RSP that was asked for, finds the header where the image was loaded,
\* and there the segment that this copy's code is at: for separate, pure and
\* mixed groups, any number of copies, and files included twice.
RspsFound ==
  Written =>
    LET At(seg) == {x \in Headers : SegAt(x.at) = seg}
        From[k \in 0 .. Cardinality(Headers)] ==
          IF k = 0 THEN sd.rspseg ELSE (CHOOSE x \in At(From[k - 1]) : TRUE).link
    IN  /\ {<<x.num, x.copy>> : x \in Headers} = Expected
        /\ Cardinality(Headers) = Cardinality(Expected)
        /\ \A k \in 0 .. Cardinality(Headers) - 1 : Cardinality(At(From[k])) = 1
        /\ {From[k] : k \in 0 .. Cardinality(Headers) - 1} = {SegAt(x.at) : x \in Headers}
        /\ From[Cardinality(Headers)] = 0
        /\ \A x \in Headers :
             /\ x.ds = SegAt(x.at)
             /\ \A c \in file.items :
                  c.kind = "code" /\ c.num = x.num /\ c.copy = x.copy => x.cs = SegAt(c.at)

\* What the system data page says of the tables is where they are in the file, in
\* the order of the page: the root of each list is its last item, and no
\* table runs into the next or beyond the segment.
TablesFound ==
  Written =>
    LET Pos(t) == OffAt((CHOOSE x \in file.items : x.kind = "table" /\ x.name = t).at)
        RootIs(root, t, n, size) == root = IF n = 0 THEN 0 ELSE Pos(t) + (n - 1) * size
    IN  /\ RootIs(sd.mdul, "md", par.mds, MdLen) /\ RootIs(sd.pul, "pd", par.pds, PdLen)
        /\ RootIs(sd.qul, "qcb", par.qcbs, QcbLen) /\ RootIs(sd.lul, "lock", par.open, LockLen)
        /\ \A i \in 1 .. 3 : sd.lists[i].end <= sd.lists[i + 1].at
        /\ sd.flags = Pos("flags") /\ sd.flags >= Pos("lock") + par.open * LockLen
        /\ 16 * (sd.qmastart - Dsstart) = Pos("sat")
        /\ Pos("sat") >= sd.flags + par.flags * FlagLen + par.xios
        /\ sd.satfirst = Pos("qbuf") /\ Pos("qbuf") = Pos("sat") + SatLen * (1 + sd.satheader)
        /\ Pos("qbuf") + par.qbuf <= Word

\* The header's groups are the whole file, every module and the XIOS know the
\* system data segment, and memory is reserved for all that comes behind it.
ImageCovers ==
  Written =>
    /\ SecSiz + 16 * (hdr.clen + hdr.dlen) = file.len
    /\ hdr.dbase = Dsstart /\ SegAt(Fldstart) = Dsstart
    /\ \A x \in file.items :
         x.kind = "fixed" => x.ds = Dsstart /\ sd.eseg[x.name] = SegAt(x.at)
    /\ sd.rsvd = SegAt(file.len)
    /\ sd.xtalloc >= sd.rsvd + par.bufs /\ sd.endseg >= sd.xtalloc + XiosAlloc

\* The image as it is written to the disk: tables, groups, fixes, reserved memory.
ImageSound == TablesFound /\ ImageCovers

\* At no moment of the generation, wherever it is cut off and whenever the disk
\* is full, is the disk without a complete system if it had one (unless the user
\* has it deleted first); and a file that is not complete gets no other name.
SystemSurvives ==
  /\ [][~ par.clean /\ (\E n \in Names : disk[n] = "system") =>
          \E m \in Names : disk'[m] = "system"]_disk
  /\ [](disk["SYSFILE"] # "partial" /\ disk["OLDSYS"] # "partial")
  /\ [](Written => file.len + VersionLen <= room)

\* The length of the tables that goes on is their length: a segment that has
\* grown too large is noticed.
\* (genc3.c:56 "check for SYSDAT overflow")
OverflowCaught == Written => 16 * sd.daend = off.whole

=============================================================================
