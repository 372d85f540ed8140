------------------------------- MODULE HexCom -------------------------------
(***************************************************************************)
(* HEXCOM (src/commands/hexcom/hexcom.c): an Intel HEX file becomes a .COM *)
(* file.  The HEX file is parsed once to check it and find its addresses,  *)
(* then once for every window of the image that memory has room for.       *)
(*                                                                         *)
(* Radix is 16 in the code: a byte has two digits, an address four.  With  *)
(* a smaller one the whole address space can be gone through.              *)
(***************************************************************************)
EXTENDS Integers, Sequences, SequencesExt, FiniteSets

CONSTANTS
  Radix,         \* 16
  TPA, RecSz, WinSz,   \* 100h, 128, 4K
  Unsigned,      \* the range of an unsigned: AddrSp with the compiler of the Makefile
  Colon, CtrlZ, NewLine,
  Fill,          \* the byte 1Ah
  HexFiles,      \* what is meant by a file: sequences of [addr, tt, data]
  Digits         \* the digits that may come out wrong

ByteMax == Radix * Radix
AddrSp == ByteMax * ByteMax
Octets == 0 .. ByteMax - 1

ASSUME HexComAssumption ==
  /\ {Radix, TPA, RecSz, WinSz} \subseteq Nat \ {0}
  /\ Unsigned \in Nat /\ (Unsigned = AddrSp \/ Unsigned >= AddrSp + ByteMax)
  /\ Digits \subseteq 0 .. Radix - 1
  /\ {Colon, CtrlZ, NewLine} \cap (0 .. Radix - 1) = {} /\ Colon \notin {CtrlZ, NewLine} /\ NewLine # CtrlZ
  /\ \A f \in HexFiles : f \in Seq([addr : 0 .. AddrSp - 1, tt : Octets, data : Seq(Octets)])
                         /\ \A i \in DOMAIN f : Len(f[i].data) < ByteMax

VARIABLES
  recs,      \* what is meant by the file,
  src,       \* the file: a sequence of characters,
  wrong,     \* and the place of one that is not as meant, or 0
  nopad,     \* HEXCOM_NO_PAD
  pc,
  first, last,   \* first_addr, last_addr
  pos,       \* the next address to write
  com        \* the .COM file

hexvars == <<recs, src, wrong, nopad, pc, first, last, pos, com>>

-----------------------------------------------------------------------------
(* Writing a HEX file, as other programs do. *)

Sum(s) == LET sum[k \in 0 .. Len(s)] == IF k = 0 THEN 0 ELSE sum[k - 1] + s[k] IN sum[Len(s)]

\* The bytes of a record; the last makes their sum 0.
Summed(r) == <<Len(r.data), r.addr \div ByteMax, r.addr % ByteMax, r.tt>> \o r.data
Check(r) == CHOOSE c \in Octets : (Sum(Summed(r)) + c) % ByteMax = 0
InBytes(r) == Append(Summed(r), Check(r))
Encode(r) ==
  LET b == InBytes(r)
  IN  [k \in 1 .. 2 * Len(b) + 2 |->
         IF k = 1 THEN Colon ELSE IF k = 2 * Len(b) + 2 THEN NewLine
         ELSE IF k % 2 = 0 THEN b[k \div 2] \div Radix ELSE b[k \div 2] % Radix]
EncodeAll(f) == FlattenSeq([i \in DOMAIN f |-> Encode(f[i])])

-----------------------------------------------------------------------------
(* Parsing it. *)

\* hexval and rd_byte: the byte at place i, or -1.
Digit(s, i) == i <= Len(s) /\ s[i] \in 0 .. Radix - 1
Byte(s, i) == IF Digit(s, i) /\ Digit(s, i + 1) THEN s[i] * Radix + s[i + 1] ELSE -1

\* The record whose first digit is at place p: its bytes are summed up, the
\* checksum among them.
LengthAt(s, p) == Byte(s, p)
AddrAt(s, p) == Byte(s, p + 2) * ByteMax + Byte(s, p + 4)
TypeAt(s, p) == Byte(s, p + 6)
HeadBad(s, p) == -1 \in {Byte(s, p), Byte(s, p + 2), Byte(s, p + 4), Byte(s, p + 6)}
DataAt(s, p) == [k \in 1 .. LengthAt(s, p) |-> Byte(s, p + 6 + 2 * k)]
AllAt(s, p) == [k \in 1 .. LengthAt(s, p) + 5 |-> Byte(s, p + 2 * k - 2)]
After(s, p) == p + 10 + 2 * LengthAt(s, p)

DataBad(s, p) == \/ LengthAt(s, p) > 0 /\ AddrAt(s, p) < TPA
                 \/ -1 \in Range(AllAt(s, p))
                 \/ Sum(AllAt(s, p)) % ByteMax # 0

\* scan_hex from each place on: the places of the records it loads, and -1 behind
\* them if an error ends it.  What is no colon is skipped, and so is a record that
\* is not of data; the end record, or the end of the file, ends it.
Taken(s) ==
  LET from[i \in 1 .. Len(s) + 1] ==
        IF i > Len(s) \/ s[i] = CtrlZ THEN <<>>
        ELSE IF s[i] # Colon THEN from[i + 1]
        ELSE IF HeadBad(s, i + 1) THEN <<-1>>
        ELSE IF TypeAt(s, i + 1) = 1 THEN <<>>
        ELSE IF TypeAt(s, i + 1) # 0 THEN from[i + 9]
        ELSE IF DataBad(s, i + 1) THEN <<-1>>
        ELSE <<i + 1>> \o from[After(s, i + 1)]
  IN  from

\* first_addr, last_addr and have_first, the image by address, and whether an
\* error has stopped the program.
NothingRead == [first |-> 0, last |-> 0, have |-> FALSE, err |-> FALSE,
          image |-> [a \in 0 .. AddrSp - 1 |-> 0]]

\* What a good data record does to it; of the image only the window is kept.
LoadRecord(m, addr, d, base) ==
  IF d = <<>> THEN m
  ELSE LET end == (addr + Len(d) - 1) % Unsigned
           at(a) == ((a - addr) % AddrSp) + 1
       IN  [first |-> IF m.have THEN m.first ELSE addr, have |-> TRUE, err |-> FALSE,
            last |-> IF end > m.last THEN end ELSE m.last,
            image |-> [a \in DOMAIN m.image |->
                         IF at(a) <= Len(d) /\ a \in base .. base + WinSz - 1 THEN d[at(a)] ELSE m.image[a]]]

\* The two passes over the file differ in what is kept of it.
Scan(s, base) ==
  LET taken == Taken(s)[1]
      done[k \in 0 .. Len(taken)] ==
        IF k = 0 THEN NothingRead
        ELSE IF taken[k] = -1 THEN [done[k - 1] EXCEPT !.err = TRUE]
        ELSE LoadRecord(done[k - 1], AddrAt(s, taken[k]), DataAt(s, taken[k]), base)
  IN  done[Len(taken)]

-----------------------------------------------------------------------------
(* main. *)

HexInit ==
  /\ recs \in HexFiles
  /\ \/ wrong = 0 /\ src = EncodeAll(recs)
     \/ LET meant == EncodeAll(recs)
        IN  /\ wrong \in DOMAIN meant
            /\ \E d \in Digits : d # meant[wrong] /\ src = [meant EXCEPT ![wrong] = d]
  /\ nopad \in IF wrong = 0 THEN BOOLEAN ELSE {FALSE}
  /\ pc = "open" /\ first = 0 /\ last = 0 /\ pos = 0 /\ com = <<>>

Fail == pc' = "failed" /\ UNCHANGED <<recs, src, wrong, nopad, first, last, pos, com>>

\* What is written: from first_addr to last_addr, in whole records; and one byte
\* if nothing was loaded.
Span == IF last >= first THEN last - first + 1 ELSE 0
Padded == IF nopad THEN Span ELSE ((Span + RecSz - 1) \div RecSz) * RecSz
OutEnd == first + Padded

\* The source is opened and the .COM file made, before the first pass.
Open == /\ pc = "open"
        /\ \/ pc' = "check" /\ UNCHANGED <<recs, src, wrong, nopad, first, last, pos, com>>
           \/ Fail

\* The first pass.
CheckPass == /\ pc = "check"
             /\ UNCHANGED <<recs, src, wrong, nopad, com>>
             /\ \E m \in {Scan(src, AddrSp)} :
                  /\ first' = m.first /\ last' = m.last /\ pos' = m.first
                  /\ pc' = IF m.err \/ OutEnd' > AddrSp THEN "failed" ELSE "write"

\* Bug: the end of the last record is not filled.
BugWindow(base, end) ==
  LET image == Scan(src, base).image
  IN  [k \in 1 .. end - pos |-> image[pos + k - 1]]

\* A window: the source is opened and read again.
Window(base, end) ==
  LET image == Scan(src, base).image
  IN  [k \in 1 .. end - pos |-> IF pos + k - 1 >= first + Span THEN Fill ELSE image[pos + k - 1]]

WindowPass ==
  /\ pc = "write" /\ pos < OutEnd
  /\ LET base == pos - (pos % WinSz)
         end == IF base + WinSz > OutEnd THEN OutEnd ELSE base + WinSz
     IN  \/ com' = com \o Window(base, end) /\ pos' = end /\ pc' = pc
         \/ \* the disk is full, or the source cannot be opened
            /\ \E n \in 0 .. end - pos - 1 : com' = com \o SubSeq(Window(base, end), 1, n)
            /\ pos' = pos /\ pc' = "failed"
  /\ UNCHANGED <<recs, src, wrong, nopad, first, last>>

Close == /\ pc = "write" /\ pos >= OutEnd
         /\ pc' \in {"done", "failed"}
         /\ UNCHANGED <<recs, src, wrong, nopad, first, last, pos, com>>

Over == pc \in {"done", "failed"} /\ UNCHANGED hexvars

HexNext == Open \/ CheckPass \/ WindowPass \/ Close \/ Over

HexSpec == HexInit /\ [][HexNext]_hexvars

-----------------------------------------------------------------------------
(* Properties. *)

\* The records that count, and the byte the last of them puts at an address.
DataRecs == LET ends == {i \in DOMAIN recs : recs[i].tt = 1}
            IN  {i \in DOMAIN recs : recs[i].tt = 0 /\ recs[i].data # <<>> /\ \A e \in ends : i < e}
Covers(r, a) == a >= r.addr /\ a < r.addr + Len(r.data)
Loaded(a) == {i \in DataRecs : Covers(recs[i], a)}
ByteMeant(a) == LET i == CHOOSE x \in Loaded(a) : \A y \in Loaded(a) : y <= x
                IN  recs[i].data[a - recs[i].addr + 1]
AddrMeant == IF DataRecs = {} THEN 0 ELSE recs[CHOOSE i \in DataRecs : \A j \in DataRecs : i <= j].addr
LastMeant == LET ends == {recs[i].addr + Len(recs[i].data) - 1 : i \in DataRecs}
             IN  IF ends = {} THEN 0 ELSE CHOOSE x \in ends : \A y \in ends : y <= x

\* An unsigned holds where each record ends.
InRange == Unsigned > AddrSp \/ \A i \in DataRecs : recs[i].addr + Len(recs[i].data) <= AddrSp

\* However the windows fall, what is written is the memory from the address of the
\* first record on: the bytes of the records that lie there, later ones over
\* earlier ones, zeros between them and the fill behind the highest address; at
\* every moment a piece of it, and at the end up to that address.  What lies below
\* the first record is not in it: see FromLowest.  A record that runs past the end
\* of memory is refused, if an unsigned can tell.
ImageExact ==
  wrong = 0 /\ InRange =>
    /\ \A k \in DOMAIN com :
         LET a == AddrMeant + k - 1
         IN  com[k] = IF Loaded(a) # {} THEN ByteMeant(a) ELSE IF a > LastMeant THEN Fill ELSE 0
    /\ pc = "done" => /\ AddrMeant + Len(com) > LastMeant
                      /\ nopad => AddrMeant + Len(com) = LastMeant + 1
                      /\ ~ nopad => Len(com) % RecSz = 0 /\ AddrMeant + Len(com) - RecSz <= LastMeant

\* The wrong digit is in the address, the data or the checksum of a record.
InData == \E i \in DataRecs :
            LET s == Len(EncodeAll(SubSeq(recs, 1, i - 1)))
            IN  wrong \in s + 4 .. s + 7 \/ wrong \in s + 10 .. s + Len(Encode(recs[i])) - 1

\* A wrong digit in an address, in data or in a checksum is found, in whichever
\* record, before anything is written: the .COM file is left empty.
WrongDigitFound == wrong # 0 /\ InData => com = <<>> /\ pc # "done"

\* No byte of a record is missing from a .COM file, if no record lies below the first.
NoneMissing ==
  pc = "done" /\ wrong = 0 /\ InRange /\ (\A i \in DataRecs : recs[i].addr >= AddrMeant) =>
    \A i \in DataRecs : \A a \in recs[i].addr .. recs[i].addr + Len(recs[i].data) - 1 :
      /\ a - first + 1 \in DOMAIN com
      /\ com[a - first + 1] = ByteMeant(a)

\* A .COM file is the memory from its first record on, with all of the records if
\* that is the lowest; from a file with a wrong digit it is not made.
ImageSound == ImageExact /\ NoneMissing /\ WrongDigitFound

\* hexcom.c:20: the image goes from the lowest to the highest loaded address.  So no
\* record lies below the address it starts at.
FromLowest == pc = "done" /\ wrong = 0 /\ InRange => \A i \in DataRecs : recs[i].addr >= first

=============================================================================
