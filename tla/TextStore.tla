----------------------------- MODULE TextStore -----------------------------
(***************************************************************************)
(* The memory of DREDIX's text buffers (src/commands/dredix/emem.c): each  *)
(* buffer is a doubly linked list of line descriptors with a head, a tail  *)
(* and a current descriptor that remembers its line number, so that the    *)
(* next line is looked for from the nearest of the three.  Descriptors     *)
(* come from a heap that may be full; a line that grows beyond the room of *)
(* its descriptor is copied to a larger one.                               *)
(***************************************************************************)
EXTENDS Integers, Sequences, SequencesExt, FiniteSets

CONSTANTS
  Bufs,      \* the text buffers
  Strings,   \* lines the editor may store
  Descs,     \* the descriptors malloc can give: the heap
  Null,      \* NULL
  Slop,      \* SLOP, room to spare in a descriptor that was made larger
  MaxPos     \* MAXPOS, the longest line

ASSUME StoreAssumption ==
  /\ IsFiniteSet(Descs) /\ Cardinality(Descs) >= Cardinality(Bufs)
  /\ Null \notin Descs
  /\ Slop \in Nat /\ MaxPos \in Nat \ {0}
  /\ \A s \in Strings : Len(s) \in 0 .. MaxPos

VARIABLES
  desc,    \* allocated descriptors: [prev, next, text, room]; room is
           \* asize - LINKSIZE - 1, the characters that fit
  mbuf     \* TMBUF of each buffer: [head, tail, cur, tailline, curline]

vars == <<desc, mbuf>>

FreeDescs == Descs \ DOMAIN desc
HeapFull == FreeDescs = {}

Put(d, v, f) == [e \in DOMAIN f \cup {d} |-> IF e = d THEN v ELSE f[e]]
Without(S, f) == [e \in DOMAIN f \ S |-> f[e]]
SetNext(d, n, f) == IF d = Null THEN f ELSE [f EXCEPT ![d].next = n]
SetPrev(d, p, f) == IF d = Null THEN f ELSE [f EXCEPT ![d].prev = p]

Distance(x, y) == IF x < y THEN y - x ELSE x - y

\* n links forward (backward if n < 0) from d.
Walk(d, n) ==
  LET at[i \in 0 .. Distance(0, n)] ==
        IF i = 0 THEN d ELSE IF n > 0 THEN desc[at[i - 1]].next ELSE desc[at[i - 1]].prev
  IN  at[Distance(0, n)]

\* Bug: the current line is taken for the one that is looked for.
BugFind(b, lnum) == mbuf[b].cur

\* find: from the head, unless the tail is nearer, unless the current line is
\* nearer than that.
Find(b, lnum) ==
  LET m == mbuf[b]
      byTail == Distance(lnum, m.tailline) < Distance(lnum, 1)
      from == IF byTail THEN m.tail ELSE m.head
      line == IF byTail THEN m.tailline ELSE 1
      byCur == Distance(lnum, m.curline) < Distance(lnum, line)
  IN  IF byCur THEN Walk(m.cur, lnum - m.curline) ELSE Walk(from, lnum - line)

At(m, d, lnum) == [m EXCEPT !.cur = d, !.curline = lnum]

-----------------------------------------------------------------------------
(* The descriptors of a buffer in the order of their links. *)

Chain(b) ==
  LET upto[n \in 1 .. Cardinality(Descs)] ==
        IF n = 1 THEN <<mbuf[b].head>>
        ELSE LET c == upto[n - 1]
                 next == desc[Last(c)].next
             IN  IF next = Null THEN c ELSE Append(c, next)
  IN  upto[Cardinality(Descs)]

TextOf(b) == LET c == Chain(b) IN [i \in DOMAIN c |-> desc[c[i]].text]

-----------------------------------------------------------------------------
\* Binit: Mreset of every buffer.
Init ==
  \E name \in [Bufs -> Descs] :
    /\ \A b, c \in Bufs : b # c => name[b] # name[c]
    /\ desc = [d \in {name[b] : b \in Bufs} |-> [prev |-> Null, next |-> Null, text |-> <<>>, room |-> 0]]
    /\ mbuf = [b \in Bufs |-> [head |-> name[b], tail |-> name[b], cur |-> name[b],
                               tailline |-> 1, curline |-> 1]]

\* Mreset: the list is given back before the one empty line is asked for.
Mreset(b) ==
  LET kept == Without(Range(Chain(b)), desc)
  IN  \E d \in Descs \ DOMAIN kept :
        /\ desc' = Put(d, [prev |-> Null, next |-> Null, text |-> <<>>, room |-> 0], kept)
        /\ mbuf' = [mbuf EXCEPT ![b] = [head |-> d, tail |-> d, cur |-> d,
                                        tailline |-> 1, curline |-> 1]]

\* Mapp before the first line.
MappFirst(b, s) ==
  \E d \in FreeDescs :
    LET m == mbuf[b]
    IN  /\ desc' = SetPrev(m.head, d,
                     Put(d, [prev |-> Null, next |-> m.head, text |-> s, room |-> Len(s)], desc))
        /\ mbuf' = [mbuf EXCEPT ![b] = [At(m, d, 1) EXCEPT !.head = d, !.tailline = @ + 1]]

\* Mapp after line lnum.
Mapp(b, lnum, s) ==
  \E d \in FreeDescs :
    LET c == Find(b, lnum)
        n == desc[c].next
        m == At(mbuf[b], d, lnum + 1)
    IN  /\ desc' = SetPrev(n, d, SetNext(c, d,
                     Put(d, [prev |-> c, next |-> n, text |-> s, room |-> Len(s)], desc)))
        /\ mbuf' = [mbuf EXCEPT ![b] = [m EXCEPT !.tailline = @ + 1,
                                                !.tail = IF n = Null THEN d ELSE @]]

\* Mget
Mget(b, lnum) ==
  /\ mbuf' = [mbuf EXCEPT ![b] = At(@, Find(b, lnum), lnum)]
  /\ UNCHANGED desc

\* Bug: the tail is left alone.
BugMdel(b, lnum) ==
  LET d == Find(b, lnum)
      p == desc[d].prev
      n == desc[d].next
      m == mbuf[b]
  IN  /\ desc' = Without({d}, SetPrev(n, p, SetNext(p, n, desc)))
      /\ mbuf' = [mbuf EXCEPT ![b] =
           [m EXCEPT !.head = IF d = @ THEN n ELSE @, !.cur = IF n # Null THEN n ELSE p,
                     !.tailline = @ - 1, !.curline = IF n # Null THEN lnum ELSE lnum - 1]]

\* Mdel: the next line becomes current, or the one before if it was the last.
Mdel(b, lnum) ==
  LET d == Find(b, lnum)
      p == desc[d].prev
      n == desc[d].next
      m == mbuf[b]
  IN  /\ desc' = Without({d}, SetPrev(n, p, SetNext(p, n, desc)))
      /\ mbuf' = [mbuf EXCEPT ![b] =
           [head |-> IF d = m.head THEN n ELSE m.head,
            tail |-> IF d = m.tail THEN p ELSE m.tail,
            cur |-> IF n # Null THEN n ELSE p,
            tailline |-> m.tailline - 1,
            curline |-> IF n # Null THEN lnum ELSE lnum - 1]]

\* The editor changes line lnum to s, after Mneed if s is longer: there is
\* room already.
Rewrite(b, lnum, s) ==
  LET d == Find(b, lnum)
  IN  /\ Len(s) <= desc[d].room
      /\ desc' = [desc EXCEPT ![d].text = s]
      /\ mbuf' = [mbuf EXCEPT ![b] = At(@, d, lnum)]

Larger(size) == IF size + Slop > MaxPos THEN MaxPos ELSE size + Slop

\* Mneed, stretch: a larger descriptor takes the place of the old one.
Stretch(b, lnum, s) ==
  \E new \in FreeDescs :
    LET old == Find(b, lnum)
        o == desc[old]
        m == At(mbuf[b], new, lnum)
    IN  /\ Len(s) > o.room /\ Len(s) < MaxPos
        /\ desc' = Without({old}, SetNext(o.prev, new, SetPrev(o.next, new,
                     Put(new, [o EXCEPT !.text = s, !.room = Larger(Len(s))], desc))))
        /\ mbuf' = [mbuf EXCEPT ![b] = [m EXCEPT !.head = IF @ = old THEN new ELSE @,
                                                !.tail = IF @ = old THEN new ELSE @]]

\* Mneed refused: the heap is full or the line too long; find has been done.
Refused(b, lnum, s) ==
  /\ Len(s) > desc[Find(b, lnum)].room
  /\ Len(s) >= MaxPos \/ HeapFull
  /\ Mget(b, lnum)

Next ==
  \E b \in Bufs :
    \/ Mreset(b)
    \/ \E s \in Strings : MappFirst(b, s)
    \/ \E lnum \in 1 .. mbuf[b].tailline :
         \/ \E s \in Strings : \/ Mapp(b, lnum, s)
                               \/ Rewrite(b, lnum, s)
                               \/ Stretch(b, lnum, s)
                               \/ Refused(b, lnum, s)
         \/ Mget(b, lnum)
         \/ mbuf[b].tailline > 1 /\ Mdel(b, lnum)

Spec == Init /\ [][Next]_vars

-----------------------------------------------------------------------------
(* Properties. *)

\* However lines are added, deleted, made larger and looked for, the links in
\* both directions agree, head, tail and current descriptor are those of lines
\* 1, tailline and curline, and every descriptor of the heap that is not free
\* is in the list of exactly one buffer, within its room.
LinksSound ==
  /\ \A b \in Bufs :
       LET c == Chain(b)
           m == mbuf[b]
       IN  /\ Len(c) = m.tailline /\ c[Len(c)] = m.tail /\ c[m.curline] = m.cur
           /\ desc[m.head].prev = Null
           /\ \A i \in 2 .. Len(c) : desc[c[i]].prev = c[i - 1]
  /\ LET used == [b \in Bufs |-> Range(Chain(b))]
     IN  /\ UNION {used[b] : b \in Bufs} = DOMAIN desc
         /\ \A b, c \in Bufs : b # c => used[b] \cap used[c] = {}
  /\ \A d \in DOMAIN desc : Len(desc[d].text) <= desc[d].room

\* The lists are the sequences of lines the editor believes in: a line number
\* always means the same line, whichever way find went, and the pointer that is
\* handed out is to the text of that line.
Abstract == INSTANCE Lines WITH lines <- [b \in Bufs |-> TextOf(b)],
                                cur <- [b \in Bufs |-> mbuf[b].curline],
                                got <- [b \in Bufs |-> desc[mbuf[b].cur].text]
Implements == Abstract!Spec

=============================================================================
