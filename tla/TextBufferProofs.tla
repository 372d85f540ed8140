-------------------------- MODULE TextBufferProofs --------------------------
(* Theorems of TextBuffer, for any buffers, texts, sizes and keys: every     *)
(* cursor is in its text, the marks follow the lines they were put on, and    *)
(* what one key does another undoes.                                         *)
(* The invariant is AtRest, what the editor is between two keys; inside a    *)
(* command that copies or moves a block only part of it holds (Loose,        *)
(* Copied, Dropping).                                                        *)
EXTENDS TextBuffer, SequenceTheorems, FiniteSetTheorems, TLAPS

\* What is said there of numbers is said for no list in particular.
Numbers == INSTANCE ProcessListsProofs WITH Proc <- Bufs

----------------------------------------------------------------------------
(* Sequences with an element more or less.                                  *)

LEMMA Inserted ==
  ASSUME NEW S, NEW s \in Seq(S), NEW x \in S, NEW i \in 1 .. Len(s) + 1
  PROVE  /\ InsertAt(s, i, x) \in Seq(S)
         /\ Len(InsertAt(s, i, x)) = Len(s) + 1
         /\ \A k \in 1 .. Len(s) + 1 :
              InsertAt(s, i, x)[k] = IF k < i THEN s[k] ELSE IF k = i THEN x ELSE s[k - 1]
<1> PICK l \in Nat : l = Len(s)
  OBVIOUS
<1> DEFINE front == SubSeq(s, 1, i - 1)
           back == SubSeq(s, i, l)
<1>1. \A k \in 1 .. l : s[k] \in S
  OBVIOUS
<1>2. front \in Seq(S) /\ Len(front) = i - 1 /\ \A k \in 1 .. i - 1 : front[k] = s[k]
  <2>1. 1 \in Int /\ i - 1 \in Int /\ \A k \in 1 .. i - 1 : s[k] \in S
    BY <1>1
  <2> QED
    BY <2>1, SubSeqProperties
<1>3. back \in Seq(S) /\ Len(back) = l - i + 1 /\ \A k \in 1 .. l - i + 1 : back[k] = s[i + k - 1]
  <2>1. i \in Int /\ l \in Int /\ \A k \in i .. l : s[k] \in S
    BY <1>1
  <2> QED
    BY <2>1, SubSeqProperties
<1>10. PICK u : u = InsertAt(s, i, x)
  OBVIOUS
<1>4. u = (front \o <<x>>) \o back
  BY <1>10 DEF InsertAt
<1> HIDE DEF front, back
<1>5. <<x>> \in Seq(S) /\ Len(<<x>>) = 1 /\ <<x>>[1] = x
  OBVIOUS
<1>9. PICK mid : mid = front \o <<x>>
  OBVIOUS
<1>6. /\ mid \in Seq(S) /\ Len(mid) = i
      /\ \A k \in 1 .. i : mid[k] = IF k <= i - 1 THEN front[k] ELSE <<x>>[k - (i - 1)]
  <2>1. /\ front \o <<x>> \in Seq(S) /\ Len(front \o <<x>>) = i
        /\ \A k \in 1 .. i : (front \o <<x>>)[k] =
             IF k <= i - 1 THEN front[k] ELSE <<x>>[k - (i - 1)]
    BY <1>2, <1>5, ConcatProperties
  <2> QED
    BY <1>9, <2>1
<1>7. /\ u \in Seq(S) /\ Len(u) = l + 1
      /\ \A k \in 1 .. l + 1 : u[k] = IF k <= i THEN mid[k] ELSE back[k - i]
  <2>1. /\ mid \o back \in Seq(S) /\ Len(mid \o back) = Len(mid) + Len(back)
        /\ \A k \in 1 .. Len(mid) + Len(back) :
             (mid \o back)[k] = IF k <= Len(mid) THEN mid[k] ELSE back[k - Len(mid)]
    BY <1>3, <1>6, ConcatProperties
  <2>2. Len(mid) + Len(back) = l + 1
    BY <1>3, <1>6
  <2>3. u = mid \o back
    BY <1>4, <1>9
  <2> QED
    BY <1>6, <2>1, <2>2, <2>3
<1>8. ASSUME NEW k \in 1 .. l + 1
      PROVE  u[k] = IF k < i THEN s[k] ELSE IF k = i THEN x ELSE s[k - 1]
  <2>1. CASE k < i
    BY <1>2, <1>6, <1>7, <2>1
  <2>2. CASE k = i
    <3>1. k \in 1 .. i /\ k <= i /\ ~ k <= i - 1 /\ k - (i - 1) = 1 /\ ~ k < i
      BY <2>2
    <3>2. u[k] = mid[k] /\ mid[k] = <<x>>[k - (i - 1)]
      BY <1>6, <1>7, <3>1
    <3> QED
      BY <1>5, <2>2, <3>1, <3>2
  <2>3. CASE k > i
    <3>1. k - i \in 1 .. l - i + 1 /\ i + (k - i) - 1 = k - 1
      BY <2>3
    <3> QED
      BY <1>3, <1>7, <2>3, <3>1
  <2> QED
    BY <2>1, <2>2, <2>3
<1> QED
  BY <1>7, <1>8, <1>10

LEMMA Removed ==
  ASSUME NEW S, NEW s \in Seq(S), NEW i \in 1 .. Len(s)
  PROVE  /\ RemoveAt(s, i) \in Seq(S)
         /\ Len(RemoveAt(s, i)) = Len(s) - 1
         /\ \A k \in 1 .. Len(s) - 1 : RemoveAt(s, i)[k] = IF k < i THEN s[k] ELSE s[k + 1]
<1> PICK l \in Nat : l = Len(s)
  OBVIOUS
<1> DEFINE front == SubSeq(s, 1, i - 1)
           back == SubSeq(s, i + 1, l)
<1>1. \A k \in 1 .. l : s[k] \in S
  OBVIOUS
<1>2. front \in Seq(S) /\ Len(front) = i - 1 /\ \A k \in 1 .. i - 1 : front[k] = s[k]
  <2>1. 1 \in Int /\ i - 1 \in Int /\ \A k \in 1 .. i - 1 : s[k] \in S
    BY <1>1
  <2> QED
    BY <2>1, SubSeqProperties
<1>3. back \in Seq(S) /\ Len(back) = l - i /\ \A k \in 1 .. l - i : back[k] = s[i + k]
  <2>1. i + 1 \in Int /\ l \in Int /\ \A k \in i + 1 .. l : s[k] \in S
    BY <1>1
  <2> QED
    BY <2>1, SubSeqProperties
<1> PICK u : u = RemoveAt(s, i)
  OBVIOUS
<1>4. u = front \o back
  BY DEF RemoveAt
<1> HIDE DEF front, back
<1>5. /\ u \in Seq(S) /\ Len(u) = l - 1
      /\ \A k \in 1 .. l - 1 : u[k] = IF k <= i - 1 THEN front[k] ELSE back[k - (i - 1)]
  <2>1. /\ front \o back \in Seq(S) /\ Len(front \o back) = Len(front) + Len(back)
        /\ \A k \in 1 .. Len(front) + Len(back) :
             (front \o back)[k] = IF k <= Len(front) THEN front[k] ELSE back[k - Len(front)]
    BY <1>2, <1>3, ConcatProperties
  <2>2. Len(front) + Len(back) = l - 1
    BY <1>2, <1>3
  <2> QED
    BY <1>2, <1>4, <2>1, <2>2
<1>6. ASSUME NEW k \in 1 .. l - 1
      PROVE  u[k] = IF k < i THEN s[k] ELSE s[k + 1]
  <2>1. CASE k < i
    BY <1>2, <1>5, <2>1
  <2>2. CASE k >= i
    <3>1. k - (i - 1) \in 1 .. l - i /\ i + (k - (i - 1)) = k + 1
      BY <2>2
    <3> QED
      BY <1>3, <1>5, <2>2, <3>1
  <2> QED
    BY <2>1, <2>2
<1> QED
  BY <1>5, <1>6

LEMMA LeastIs ==
  ASSUME NEW S \in SUBSET Nat, S # {}
  PROVE  LeastOf(S) \in S /\ \A y \in S : LeastOf(S) <= y
  BY Numbers!LeastNumber DEF LeastOf

----------------------------------------------------------------------------
(* Columns.                                                                 *)

LEMMA TabValueIs ==
  ASSUME NEW col \in Nat \ {0} PROVE TabValue(col) \in Nat \ {0}
<1>1. TabWidth \in Nat \ {0} /\ MaxTab \in Nat
  BY BufferAssumption
<1>2. (col - 1) % TabWidth \in 0 .. TabWidth - 1
  BY <1>1
<1> QED
  BY <1>1, <1>2 DEF TabValue

LEMMA AdvanceIs ==
  ASSUME NEW col \in Nat \ {0}, NEW c
  PROVE  Advance(col, c) \in Nat \ {0} /\ Advance(col, c) > col
  BY TabValueIs DEF Advance

\* The column of a position, from left to right.
LEMMA TabColIs ==
  ASSUME NEW s \in Seq(Chars)
  PROVE  /\ TabCol(s, 1) = 1
         /\ \A p \in 1 .. Len(s) + 1 : TabCol(s, p) \in Nat \ {0}
         /\ \A p \in 1 .. Len(s) : TabCol(s, p + 1) = Advance(TabCol(s, p), s[p])
<1> PICK n \in Nat : n = Len(s)
  OBVIOUS
<1> DEFINE Cols(c, m) ==
      c = [p \in 1 .. m + 1 |-> IF p = 1 THEN 1 ELSE Advance(c[p - 1], s[p - 1])]
    T == {m \in Nat : \E c \in [1 .. m + 1 -> Nat \ {0}] : Cols(c, m)}
<1>1. 0 \in T
  <2>1. PICK c : c = [p \in 1 .. 0 + 1 |-> 1]
    OBVIOUS
  <2>2. c \in [1 .. 0 + 1 -> Nat \ {0}] /\ \A p \in 1 .. 0 + 1 : p = 1
    BY <2>1
  <2>3. Cols(c, 0)
    BY <2>1, <2>2
  <2> HIDE DEF Cols
  <2> QED
    BY <2>2, <2>3
<1>2. ASSUME NEW m \in Nat, m \in T PROVE m + 1 \in T
  <2> HIDE DEF Cols
  <2>1. PICK c \in [1 .. m + 1 -> Nat \ {0}] : Cols(c, m)
    BY <1>2
  <2> PICK x : x = Advance(c[m + 1], s[m + 1])
    OBVIOUS
  <2>2. x \in Nat \ {0}
    <3>1. c[m + 1] \in Nat \ {0}
      OBVIOUS
    <3> QED
      BY <3>1, AdvanceIs
  <2> PICK d : d = [p \in 1 .. (m + 1) + 1 |-> IF p <= m + 1 THEN c[p] ELSE x]
    OBVIOUS
  <2>3. d \in [1 .. (m + 1) + 1 -> Nat \ {0}]
    BY <2>2
  <2>4. \A p \in 1 .. m + 1 : c[p] = IF p = 1 THEN 1 ELSE Advance(c[p - 1], s[p - 1])
    BY <2>1 DEF Cols
  <2>5. ASSUME NEW p \in 1 .. (m + 1) + 1
        PROVE  d[p] = IF p = 1 THEN 1 ELSE Advance(d[p - 1], s[p - 1])
    <3>1. CASE p = 1
      BY <2>4, <3>1
    <3>2. CASE p \in 2 .. m + 1
      <4>1. p \in 1 .. m + 1 /\ p # 1 /\ p - 1 \in 1 .. m + 1 /\ p - 1 \in 1 .. (m + 1) + 1
            /\ p <= m + 1 /\ p - 1 <= m + 1
        BY <3>2
      <4>2. d[p] = c[p] /\ d[p - 1] = c[p - 1]
        BY <4>1
      <4> QED
        BY <2>4, <4>1, <4>2
    <3>3. CASE p = m + 2
      <4>1. p - 1 = m + 1 /\ m + 1 \in 1 .. (m + 1) + 1 /\ ~ p <= m + 1 /\ p # 1 /\ m + 1 <= m + 1
        BY <3>3
      <4>2. d[p] = x /\ d[p - 1] = c[m + 1]
        BY <4>1
      <4> QED
        BY <4>1, <4>2
    <3> QED
      BY <3>1, <3>2, <3>3
  <2>6. Cols(d, m + 1)
    <3>1. d = [p \in 1 .. (m + 1) + 1 |-> d[p]]
      OBVIOUS
    <3> QED
      BY <2>5, <3>1 DEF Cols
  <2> QED
    BY <2>3, <2>6, SMTT(30)
<1>3. n \in T
  <2> HIDE DEF T
  <2> QED
    BY <1>1, <1>2, Numbers!NumbersReached
<1>4. PICK d \in [1 .. n + 1 -> Nat \ {0}] : Cols(d, n)
  BY <1>3
<1> PICK c : c = CHOOSE g : Cols(g, n)
  OBVIOUS
<1>5. Cols(c, n)
  <2> HIDE DEF Cols
  <2> QED
    BY <1>4
<1>6. \A p \in 1 .. n + 1 : TabCol(s, p) = c[p]
  BY DEF TabCol
<1>7. \A p \in 1 .. n + 1 : c[p] = IF p = 1 THEN 1 ELSE Advance(c[p - 1], s[p - 1])
  BY <1>5
<1>8. \A p \in 1 .. n : c[p + 1] = Advance(c[p], s[p])
  <2> SUFFICES ASSUME NEW p \in 1 .. n PROVE c[p + 1] = Advance(c[p], s[p])
    OBVIOUS
  <2>1. p + 1 \in 1 .. n + 1 /\ p + 1 # 1 /\ (p + 1) - 1 = p
    OBVIOUS
  <2> QED
    BY <1>7, <2>1
<1>9. 1 \in 1 .. n + 1 /\ c[1] = 1
  BY <1>7
<1> DEFINE U == {m \in Nat : m + 1 <= n + 1 => c[m + 1] \in Nat \ {0}}
<1>10. 0 \in U
  BY <1>9
<1>11. ASSUME NEW m \in Nat, m \in U PROVE m + 1 \in U
  <2> SUFFICES ASSUME (m + 1) + 1 <= n + 1 PROVE c[(m + 1) + 1] \in Nat \ {0}
    OBVIOUS
  <2>1. m + 1 \in 1 .. n /\ c[m + 1] \in Nat \ {0}
    BY <1>11
  <2>2. c[(m + 1) + 1] = Advance(c[m + 1], s[m + 1])
    BY <1>8, <2>1
  <2> QED
    BY <2>1, <2>2, AdvanceIs
<1>12. Nat \subseteq U
  <2> HIDE DEF U
  <2> QED
    BY <1>10, <1>11, Numbers!NumbersReached
<1>13. \A p \in 1 .. n + 1 : c[p] \in Nat \ {0}
  <2> SUFFICES ASSUME NEW p \in 1 .. n + 1 PROVE c[p] \in Nat \ {0}
    OBVIOUS
  <2> PICK m \in Nat : m = p - 1
    OBVIOUS
  <2>1. m + 1 = p /\ m + 1 <= n + 1
    OBVIOUS
  <2>2. m \in U
    BY <1>12
  <2> QED
    BY <2>1, <2>2
<1>14. \A p \in 1 .. n : p \in 1 .. n + 1 /\ p + 1 \in 1 .. n + 1
  OBVIOUS
<1> HIDE DEF Cols
<1> QED
  BY <1>6, <1>8, <1>9, <1>13, <1>14

----------------------------------------------------------------------------
(* The editor, and what is so of it between any two steps of a command.     *)

Lines == [text : Seq(Chars), room : Nat, mark : {"no", "in", "new"}]
Spots == [line : Nat, pos : Nat, col : Nat, curcol : Nat]
Editor == [lines : [Bufs -> Seq(Lines)], at : [Bufs -> Spots], mod : [Bufs -> BOOLEAN],
           curbuf : Bufs, frombuf : Texts \cup {BNONE}, line1 : Nat, line2 : Nat,
           mkpos : Nat \ {0}, ismarked : BOOLEAN, bfull : BOOLEAN, exact : BOOLEAN]

\* No buffer is ever without a line.
Shaped(e) == e \in Editor /\ \A b \in Bufs : Len(e.lines[b]) >= 1

\* The cursor of a buffer is in its text.
OnText(e, b) ==
  /\ e.at[b].line \in 1 .. Len(e.lines[b])
  /\ e.at[b].pos \in 1 .. Len(e.lines[b][e.at[b].line].text) + 1
  /\ e.at[b].col = TabCol(e.lines[b][e.at[b].line].text, e.at[b].pos)

\* Two marks are in order, and without two marks no line is marked.
Ordered(e) ==
  /\ e.ismarked => e.frombuf \in Texts /\ 1 <= e.line1 /\ e.line1 <= e.line2
  /\ ~ e.ismarked => e.line2 = 0 /\ \A b \in Bufs : \A i \in 1 .. Len(e.lines[b]) :
                                      e.lines[b][i].mark # "in"
  /\ e.line1 # 0 => e.frombuf \in Texts

\* The marks are where the user put them, as far as they are followed.
Followed(e) == e.exact =>
  /\ e.line1 # 0 => e.line1 <= Len(e.lines[e.frombuf])
  /\ e.ismarked => e.line2 <= Len(e.lines[e.frombuf])
  /\ e.ismarked => \A b \in Bufs : \A i \in 1 .. Len(e.lines[b]) :
       e.lines[b][i].mark = "in" <=> b = e.frombuf /\ i \in e.line1 .. e.line2

\* A command may have lost the cursor of the buffer it works on.
Loose(e) == /\ Shaped(e) /\ Ordered(e) /\ Followed(e)
            /\ \A b \in Bufs \ {e.curbuf} : OnText(e, b)
Sound(e) == Loose(e) /\ OnText(e, e.curbuf)

\* Two editors with the same marks, and with as many lines as marked.
SameMarks(e, f) ==
  /\ f.frombuf = e.frombuf /\ f.line1 = e.line1 /\ f.line2 = e.line2
  /\ f.mkpos = e.mkpos /\ f.ismarked = e.ismarked /\ f.exact = e.exact
SameLines(e, f) ==
  \A b \in Bufs : /\ Len(f.lines[b]) = Len(e.lines[b])
                  /\ \A i \in 1 .. Len(e.lines[b]) : f.lines[b][i].mark = e.lines[b][i].mark
Alike(e, f) == SameMarks(e, f) /\ SameLines(e, f) /\ f.curbuf = e.curbuf

LEMMA AlikeFollowed ==
  ASSUME NEW e, NEW f, Shaped(e), Shaped(f), Ordered(e), Followed(e), Alike(e, f)
  PROVE  Ordered(f) /\ Followed(f)
<1>1. Ordered(f)
  BY DEF Shaped, Ordered, Alike, SameMarks, SameLines
<1>2. Followed(f)
  <2>1. f.line1 # 0 => f.frombuf \in Bufs
    BY DEF Ordered, Alike, SameMarks, Bufs
  <2>2. f.ismarked => f.frombuf \in Bufs
    BY DEF Ordered, Alike, SameMarks, Bufs
  <2> QED
    BY <2>1, <2>2 DEF Shaped, Followed, Alike, SameMarks, SameLines
<1> QED
  BY <1>1, <1>2

LEMMA TextIs ==
  ASSUME NEW e, Shaped(e), NEW n \in 1 .. Count(e)
  PROVE  /\ TextAt(e, n) \in Seq(Chars) /\ e.curbuf \in Bufs /\ Count(e) \in Nat \ {0}
         /\ e.lines[e.curbuf] \in Seq(Lines)
         /\ e.lines[e.curbuf][n] \in Lines
<1>1. e.curbuf \in Bufs /\ e.lines \in [Bufs -> Seq(Lines)] /\ Len(e.lines[e.curbuf]) >= 1
  BY DEF Shaped, Editor
<1> PICK t \in Seq(Lines) : t = e.lines[e.curbuf]
  BY <1>1
<1>2. n \in 1 .. Len(t) /\ Len(t) \in Nat \ {0}
  BY <1>1 DEF Count
<1>3. t[n] \in Lines
  BY <1>2
<1> QED
  BY <1>1, <1>2, <1>3 DEF TextAt, Count, Lines

LEMMA SoundHere ==
  ASSUME NEW e, Sound(e)
  PROVE  /\ Shaped(e) /\ Loose(e) /\ e.curbuf \in Bufs /\ Count(e) \in Nat \ {0}
         /\ Here(e).line \in 1 .. Count(e) /\ Here(e).line \in Nat
         /\ Text(e) \in Seq(Chars) /\ Len(Text(e)) \in Nat
         /\ Here(e).pos \in 1 .. Len(Text(e)) + 1 /\ Here(e).pos \in Nat
         /\ Here(e).col = TabCol(Text(e), Here(e).pos)
         /\ Here(e).curcol \in Nat
<1>1. Shaped(e) /\ Loose(e) /\ OnText(e, e.curbuf)
  BY DEF Sound, Loose
<1>2. e.curbuf \in Bufs /\ Count(e) \in Nat \ {0} /\ Here(e) \in Spots
  BY <1>1 DEF Shaped, Editor, Count, Here
<1>3. /\ Here(e).line \in 1 .. Count(e)
      /\ Here(e).pos \in 1 .. Len(Text(e)) + 1
      /\ Here(e).col = TabCol(Text(e), Here(e).pos)
  BY <1>1 DEF OnText, Here, Count, Text, TextAt
<1>4. Text(e) \in Seq(Chars)
  BY <1>1, <1>3, TextIs DEF Text
<1> QED
  BY <1>1, <1>2, <1>3, <1>4 DEF Spots

\* The cursor can go anywhere in the text, whatever the marks are.
LEMMA Placed ==
  ASSUME NEW e, Shaped(e), \A b \in Bufs \ {e.curbuf} : OnText(e, b),
         NEW n \in 1 .. Count(e), NEW p \in 1 .. Len(TextAt(e, n)) + 1
  PROVE  /\ Shaped(Move(e, n, p)) /\ Alike(e, Move(e, n, p))
         /\ \A b \in Bufs : OnText(Move(e, n, p), b)
         /\ Move(e, n, p).lines = e.lines /\ Move(e, n, p).bfull = e.bfull
         /\ Here(Move(e, n, p)).line = n /\ Here(Move(e, n, p)).pos = p
         /\ Here(Move(e, n, p)).col = TabCol(TextAt(e, n), p)
         /\ Here(Move(e, n, p)).curcol = Here(e).curcol
         /\ \A b \in Bufs : b # e.curbuf => Move(e, n, p).at[b] = e.at[b]
<1>1. Shaped(e) /\ e \in Editor
  BY DEF Shaped
<1> PICK f : f = Move(e, n, p)
  OBVIOUS
<1> PICK c : c = TabCol(TextAt(e, n), p)
  OBVIOUS
<1>2. n \in Nat /\ p \in Nat /\ c \in Nat
  <2>1. TextAt(e, n) \in Seq(Chars)
    BY <1>1, TextIs
  <2>2. c \in Nat
    BY <2>1, TabColIs
  <2>3. n \in Nat /\ p \in Nat
    OBVIOUS
  <2> QED
    BY <2>2, <2>3
<1>4. e.curbuf \in Bufs /\ e.at \in [Bufs -> Spots] /\ e.at[e.curbuf] \in Spots
  BY <1>1 DEF Editor
<1>5. PICK x : x = [e.at[e.curbuf] EXCEPT !.line = n, !.pos = p, !.col = c]
  OBVIOUS
<1>6. x \in Spots /\ x.line = n /\ x.pos = p /\ x.col = c /\ x.curcol = e.at[e.curbuf].curcol
  BY <1>2, <1>4, <1>5 DEF Spots
<1>7. f = [e EXCEPT !.at[e.curbuf] = x]
  BY <1>5 DEF Move
<1>8. /\ f \in Editor /\ f.lines = e.lines /\ f.curbuf = e.curbuf /\ SameMarks(e, f)
      /\ f.bfull = e.bfull /\ f.at = [e.at EXCEPT ![e.curbuf] = x]
  <2>1. f.at = [e.at EXCEPT ![e.curbuf] = x]
    BY <1>1, <1>7 DEF Editor
  <2>2. /\ f.lines = e.lines /\ f.curbuf = e.curbuf /\ SameMarks(e, f)
        /\ f.bfull = e.bfull /\ f.mod = e.mod
    BY <1>1, <1>7 DEF Editor, SameMarks
  <2>3. f.at \in [Bufs -> Spots]
    BY <1>4, <1>6, <2>1
  <2> QED
    BY <1>1, <1>7, <2>1, <2>2, <2>3 DEF Editor, SameMarks
<1>9. f.at[e.curbuf] = x /\ \A b \in Bufs : b # e.curbuf => f.at[b] = e.at[b]
  BY <1>4, <1>8
<1>10. Shaped(f) /\ Alike(e, f)
  BY <1>1, <1>8 DEF Shaped, Alike, SameLines
<1>12. \A b \in Bufs \ {e.curbuf} : OnText(f, b)
  BY <1>8, <1>9 DEF OnText
<1>13. OnText(f, e.curbuf)
  BY <1>6, <1>8, <1>9 DEF OnText, TextAt, Count
<1>14. Here(f) = x
  BY <1>8, <1>9 DEF Here
<1> QED
  BY <1>6, <1>8, <1>9, <1>10, <1>12, <1>13, <1>14 DEF Here

LEMMA Moved ==
  ASSUME NEW e, Loose(e), NEW n \in 1 .. Count(e), NEW p \in 1 .. Len(TextAt(e, n)) + 1
  PROVE  /\ Sound(Move(e, n, p)) /\ Alike(e, Move(e, n, p))
         /\ Move(e, n, p).lines = e.lines /\ Move(e, n, p).bfull = e.bfull
         /\ Here(Move(e, n, p)).line = n /\ Here(Move(e, n, p)).pos = p
         /\ Here(Move(e, n, p)).col = TabCol(TextAt(e, n), p)
         /\ Here(Move(e, n, p)).curcol = Here(e).curcol
         /\ \A b \in Bufs : b # e.curbuf => Move(e, n, p).at[b] = e.at[b]
<1>1. Shaped(e) /\ Ordered(e) /\ Followed(e) /\ \A b \in Bufs \ {e.curbuf} : OnText(e, b)
  BY DEF Loose
<1>2. /\ Shaped(Move(e, n, p)) /\ Alike(e, Move(e, n, p))
      /\ \A b \in Bufs : OnText(Move(e, n, p), b)
  BY <1>1, Placed
<1>3. Ordered(Move(e, n, p)) /\ Followed(Move(e, n, p))
  BY <1>1, <1>2, AlikeFollowed
<1>4. Move(e, n, p).curbuf \in Bufs
  BY <1>2 DEF Shaped, Editor
<1>5. Sound(Move(e, n, p))
  BY <1>2, <1>3, <1>4 DEF Sound, Loose
<1> QED
  BY <1>1, <1>2, <1>5, Placed

----------------------------------------------------------------------------
(* Moving about.                                                            *)

\* What a move changes: the place of one cursor.
Travels(e, f) ==
  /\ Sound(f) /\ Alike(e, f) /\ f.lines = e.lines /\ f.bfull = e.bfull
  /\ \A b \in Bufs : b # e.curbuf => f.at[b] = e.at[b]

LEMMA ClampIs ==
  ASSUME NEW e, Shaped(e), NEW n \in Nat \ {0}
  PROVE  Clamp(e, n) \in 1 .. Count(e) /\ (n <= Count(e) => Clamp(e, n) = n)
<1>1. Count(e) \in Nat \ {0}
  BY DEF Shaped, Editor, Count
<1> QED
  BY <1>1 DEF Clamp

LEMMA FirstInkIs ==
  ASSUME NEW s \in Seq(Chars) PROVE FirstInk(s) \in 1 .. Len(s) + 1
<1> PICK S : S = {p \in 1 .. Len(s) : ~ IsSpace(s[p])} \cup {Len(s) + 1}
  OBVIOUS
<1>1. S \in SUBSET (1 .. Len(s) + 1) /\ S \in SUBSET Nat /\ S # {}
  OBVIOUS
<1>2. LeastOf(S) \in S
  BY <1>1, LeastIs
<1> QED
  BY <1>1, <1>2 DEF FirstInk

LEMMA TabPosIs ==
  ASSUME NEW s \in Seq(Chars), NEW col PROVE TabPos(s, col) \in 1 .. Len(s) + 1
<1> PICK S : S = {p \in 1 .. Len(s) : TabCol(s, p) >= col} \cup {Len(s) + 1}
  OBVIOUS
<1>1. S \in SUBSET (1 .. Len(s) + 1) /\ S \in SUBSET Nat /\ S # {}
  OBVIOUS
<1>2. LeastOf(S) \in S
  BY <1>1, LeastIs
<1> QED
  BY <1>1, <1>2 DEF TabPos

LEMMA MoveTravels ==
  ASSUME NEW e, Loose(e), NEW n \in 1 .. Count(e), NEW p \in 1 .. Len(TextAt(e, n)) + 1
  PROVE  /\ Travels(e, Move(e, n, p))
         /\ Here(Move(e, n, p)).line = n /\ Here(Move(e, n, p)).pos = p
  BY Moved DEF Travels

LEMMA SeekLeftTravels ==
  ASSUME NEW e, Loose(e), NEW n \in Nat \ {0}
  PROVE  Travels(e, SeekLeft(e, n)) /\ Here(SeekLeft(e, n)).line = Clamp(e, n)
<1>1. Shaped(e) /\ Clamp(e, n) \in 1 .. Count(e)
  BY ClampIs DEF Loose
<1>2. FirstInk(TextAt(e, Clamp(e, n))) \in 1 .. Len(TextAt(e, Clamp(e, n))) + 1
  BY <1>1, TextIs, FirstInkIs
<1> QED
  BY <1>1, <1>2, MoveTravels DEF SeekLeft

LEMMA SeekRightTravels ==
  ASSUME NEW e, Loose(e), NEW n \in Nat \ {0}
  PROVE  Travels(e, SeekRight(e, n)) /\ Here(SeekRight(e, n)).line = Clamp(e, n)
<1>1. Shaped(e) /\ Clamp(e, n) \in 1 .. Count(e)
  BY ClampIs DEF Loose
<1>2. Len(TextAt(e, Clamp(e, n))) + 1 \in 1 .. Len(TextAt(e, Clamp(e, n))) + 1
  BY <1>1, TextIs
<1> QED
  BY <1>1, <1>2, MoveTravels DEF SeekRight

LEMMA SeekPosTravels ==
  ASSUME NEW e, Loose(e), NEW n \in Nat \ {0}, NEW p \in Nat \ {0}
  PROVE  Travels(e, Bseekpos(e, n, p))
<1> PICK m : m = Clamp(e, n)
  OBVIOUS
<1>1. Shaped(e) /\ m \in 1 .. Count(e)
  BY ClampIs DEF Loose
<1>2. Len(TextAt(e, m)) \in Nat
  BY <1>1, TextIs
<1> PICK l \in Nat \ {0} : l = Len(TextAt(e, m)) + 1
  BY <1>2
<1> PICK q : q = IF p > l THEN l ELSE p
  OBVIOUS
<1>3. q \in 1 .. l
  OBVIOUS
<1>4. Bseekpos(e, n, p) = Move(e, m, q)
  BY DEF Bseekpos
<1> QED
  BY <1>1, <1>3, <1>4, MoveTravels

\* The column that a run of vertical moves keeps.
LEMMA Columned ==
  ASSUME NEW e, Sound(e), NEW c \in Nat
  PROVE  /\ Travels(e, [e EXCEPT !.at[e.curbuf].curcol = c])
         /\ Here([e EXCEPT !.at[e.curbuf].curcol = c]) = [Here(e) EXCEPT !.curcol = c]
<1>1. Shaped(e) /\ e \in Editor /\ Loose(e) /\ OnText(e, e.curbuf)
  BY DEF Sound, Loose, Shaped
<1> PICK f : f = [e EXCEPT !.at[e.curbuf].curcol = c]
  OBVIOUS
<1>4. e.curbuf \in Bufs /\ e.at \in [Bufs -> Spots] /\ e.at[e.curbuf] \in Spots
  BY <1>1 DEF Editor
<1>5. PICK x : x = [e.at[e.curbuf] EXCEPT !.curcol = c]
  OBVIOUS
<1>6. /\ x \in Spots /\ x.line = e.at[e.curbuf].line /\ x.pos = e.at[e.curbuf].pos
      /\ x.col = e.at[e.curbuf].col
  BY <1>4, <1>5 DEF Spots
<1>7. f = [e EXCEPT !.at[e.curbuf] = x]
  BY <1>5
<1>8. /\ f \in Editor /\ f.lines = e.lines /\ f.curbuf = e.curbuf /\ SameMarks(e, f)
      /\ f.bfull = e.bfull /\ f.at = [e.at EXCEPT ![e.curbuf] = x]
  <2>1. f.at = [e.at EXCEPT ![e.curbuf] = x]
    BY <1>1, <1>7 DEF Editor
  <2>2. /\ f.lines = e.lines /\ f.curbuf = e.curbuf /\ SameMarks(e, f)
        /\ f.bfull = e.bfull /\ f.mod = e.mod
    BY <1>1, <1>7 DEF Editor, SameMarks
  <2>3. f.at \in [Bufs -> Spots]
    BY <1>4, <1>6, <2>1
  <2> QED
    BY <1>1, <1>7, <2>1, <2>2, <2>3 DEF Editor, SameMarks
<1>9. f.at[e.curbuf] = x /\ \A b \in Bufs : b # e.curbuf => f.at[b] = e.at[b]
  BY <1>4, <1>8
<1>10. Shaped(f) /\ Alike(e, f)
  BY <1>1, <1>8 DEF Shaped, Alike, SameLines
<1>11. Ordered(f) /\ Followed(f)
  BY <1>1, <1>10, AlikeFollowed DEF Loose
<1>12. \A b \in Bufs \ {f.curbuf} : OnText(f, b)
  BY <1>1, <1>8, <1>9 DEF Loose, OnText
<1>13. OnText(f, f.curbuf)
  BY <1>1, <1>6, <1>8, <1>9 DEF OnText
<1>14. Here(f) = x
  BY <1>8, <1>9 DEF Here
<1> QED
  BY <1>5, <1>8, <1>9, <1>10, <1>11, <1>12, <1>13, <1>14 DEF Sound, Loose, Here, Travels

LEMMA AlikeTwice ==
  ASSUME NEW e, NEW f, NEW g, Travels(e, f), Travels(f, g)
  PROVE  Travels(e, g)
  BY DEF Travels, Alike, SameMarks, SameLines

LEMMA VerticalTravels ==
  ASSUME NEW e, Sound(e), NEW n \in 1 .. Count(e)
  PROVE  Travels(e, Vertical(e, n))
<1> PICK want : want = IF Here(e).curcol = NoCurCol THEN Here(e).col ELSE Here(e).curcol
  OBVIOUS
<1>1. want \in Nat
  <2>1. Here(e) \in Spots
    BY DEF Sound, Loose, Shaped, Editor, Here
  <2> QED
    BY <2>1 DEF Spots
<1> PICK f : f = [e EXCEPT !.at[e.curbuf].curcol = want]
  OBVIOUS
<1>2. Travels(e, f) /\ Loose(f)
  <2>1. Travels(e, f)
    BY <1>1, Columned
  <2> QED
    BY <2>1 DEF Travels, Sound
<1>3. f.lines = e.lines /\ f.curbuf = e.curbuf /\ Count(f) = Count(e) /\ TextAt(f, n) = TextAt(e, n)
  BY <1>2 DEF Travels, Alike, Count, TextAt
<1>4. TextAt(e, n) \in Seq(Chars)
  BY TextIs DEF Sound, Loose
<1>5. Vertical(e, n) = Move(f, n, TabPos(TextAt(e, n), want))
  BY DEF Vertical
<1>6. Travels(f, Vertical(e, n))
  BY <1>2, <1>3, <1>4, <1>5, TabPosIs, MoveTravels
<1> QED
  BY <1>2, <1>6, AlikeTwice

LEMMA Stays == ASSUME NEW e, Sound(e) PROVE Travels(e, e)
  BY DEF Travels, Alike, SameMarks, SameLines

LEMMA UpDown ==
  ASSUME NEW e, Sound(e) PROVE Travels(e, Up(e)) /\ Travels(e, Down(e))
<1>1. Here(e).line \in 1 .. Count(e) /\ Count(e) \in Nat
  BY SoundHere
<1>2. Here(e).line # 1 => Here(e).line - 1 \in 1 .. Count(e)
  BY <1>1
<1>3. Here(e).line # Count(e) => Here(e).line + 1 \in 1 .. Count(e)
  BY <1>1
<1> QED
  BY <1>2, <1>3, VerticalTravels, Stays DEF Up, Down

LEMMA LeftRight ==
  ASSUME NEW e, Sound(e) PROVE Travels(e, Left(e)) /\ Travels(e, Right(e))
<1>1. /\ Here(e).line \in 1 .. Count(e) /\ Count(e) \in Nat /\ Loose(e) /\ Shaped(e)
      /\ Here(e).pos \in 1 .. Len(Text(e)) + 1 /\ Len(Text(e)) \in Nat
  BY SoundHere
<1>2. Travels(e, Left(e))
  <2>1. CASE AtStart(e)
    BY <2>1, Stays DEF Left
  <2>2. CASE ~ AtStart(e) /\ Here(e).pos = 1
    <3>1. Here(e).line - 1 \in Nat \ {0}
      BY <1>1, <2>2 DEF AtStart
    <3> QED
      BY <1>1, <2>2, <3>1, SeekRightTravels DEF Left
  <2>3. CASE ~ AtStart(e) /\ Here(e).pos # 1
    <3>1. Here(e).pos - 1 \in 1 .. Len(TextAt(e, Here(e).line)) + 1
      BY <1>1, <2>3 DEF Text
    <3> QED
      BY <1>1, <2>3, <3>1, MoveTravels DEF Left
  <2> QED
    BY <2>1, <2>2, <2>3
<1>3. Travels(e, Right(e))
  <2>1. CASE AtEnd(e)
    BY <2>1, Stays DEF Right
  <2>2. CASE ~ AtEnd(e) /\ Here(e).pos = Len(Text(e)) + 1
    <3>1. Here(e).line + 1 \in 1 .. Count(e)
      BY <1>1, <2>2 DEF AtEnd
    <3>2. 1 \in 1 .. Len(TextAt(e, Here(e).line + 1)) + 1
      BY <1>1, <3>1, TextIs
    <3> QED
      BY <1>1, <2>2, <3>1, <3>2, MoveTravels DEF Right
  <2>3. CASE ~ AtEnd(e) /\ Here(e).pos # Len(Text(e)) + 1
    <3>1. Here(e).pos + 1 \in 1 .. Len(TextAt(e, Here(e).line)) + 1
      BY <1>1, <2>3 DEF Text
    <3> QED
      BY <1>1, <2>3, <3>1, MoveTravels DEF Right
  <2> QED
    BY <2>1, <2>2, <2>3
<1> QED
  BY <1>2, <1>3

LEMMA LargestNumber ==
  ASSUME NEW m \in Nat, NEW T \in SUBSET (0 .. m), T # {}
  PROVE  \E n \in T : \A k \in T : k <= n
<1> DEFINE R == {m - k : k \in T}
<1>1. R \in SUBSET Nat /\ R # {}
  <2>1. \A k \in T : m - k \in Nat
    OBVIOUS
  <2> QED
    BY <2>1
<1>2. PICK r \in R : \A k \in R : r <= k
  BY <1>1, Numbers!LeastNumber
<1>3. PICK n \in T : r = m - n
  BY <1>2
<1>4. ASSUME NEW k \in T PROVE k <= n
  <2>1. k \in Int /\ n \in Int /\ m - k \in R
    OBVIOUS
  <2>2. m - n <= m - k
    BY <1>2, <1>3, <2>1
  <2> QED
    BY <2>1, <2>2
<1> QED
  BY <1>4

\* Of places in a text one is the first and one the last.
LEMMA PlacesEnds ==
  ASSUME NEW m \in Nat, NEW l \in [1 .. m -> Nat],
         NEW S \in SUBSET (UNION {{n} \X (1 .. l[n] + 1) : n \in 1 .. m}), S # {}
  PROVE  First(S) \in S /\ LastIn(S) \in S
<1>1. \A x \in S : /\ x[1] \in 1 .. m /\ x[2] \in 1 .. l[x[1]] + 1 /\ x = <<x[1], x[2]>>
                   /\ x[1] \in Nat /\ x[2] \in Nat
  OBVIOUS
<1>2. \E x \in S : \A y \in S : x = y \/ Before(x, y)
  <2> DEFINE R == {x[1] : x \in S}
  <2>1. R \in SUBSET Nat /\ R # {}
    BY <1>1
  <2>2. PICK n \in R : \A k \in R : n <= k
    BY <2>1, Numbers!LeastNumber
  <2> DEFINE C == {x[2] : x \in {y \in S : y[1] = n}}
  <2>3. C \in SUBSET Nat /\ C # {}
    BY <1>1, <2>2
  <2>4. PICK p \in C : \A k \in C : p <= k
    BY <2>3, Numbers!LeastNumber
  <2>5. PICK x \in S : x[1] = n /\ x[2] = p
    BY <2>4
  <2>6. ASSUME NEW y \in S PROVE x = y \/ Before(x, y)
    <3>1. y[1] \in R /\ n <= y[1] /\ n \in Nat /\ y[1] \in Nat
      BY <1>1, <2>1, <2>2
    <3>2. CASE y[1] = n
      <4>1. y[2] \in C /\ p <= y[2] /\ y[2] \in Nat /\ p \in Nat
        BY <1>1, <2>3, <2>4, <3>2
      <4>2. CASE y[2] = p
        BY <1>1, <2>5, <3>2, <4>2
      <4>3. CASE y[2] # p
        BY <2>5, <3>2, <4>1, <4>3 DEF Before
      <4> QED
        BY <4>2, <4>3
    <3>3. CASE y[1] # n
      BY <2>5, <3>1, <3>3 DEF Before
    <3> QED
      BY <3>2, <3>3
  <2> QED
    BY <2>6
<1>3. \E x \in S : \A y \in S : x = y \/ Before(y, x)
  <2> DEFINE R == {x[1] : x \in S}
  <2>1. R \in SUBSET (0 .. m) /\ R # {}
    BY <1>1
  <2>2. PICK n \in R : \A k \in R : k <= n
    BY <2>1, LargestNumber
  <2>8. n \in 1 .. m /\ l[n] + 1 \in Nat
    BY <1>1
  <2> DEFINE C == {x[2] : x \in {y \in S : y[1] = n}}
  <2>3. C \in SUBSET (0 .. l[n] + 1) /\ C # {}
    BY <1>1, <2>8
  <2>4. PICK p \in C : \A k \in C : k <= p
    BY <2>3, <2>8, LargestNumber
  <2>5. PICK x \in S : x[1] = n /\ x[2] = p
    BY <2>4
  <2>6. ASSUME NEW y \in S PROVE x = y \/ Before(y, x)
    <3>1. y[1] \in R /\ y[1] <= n /\ n \in Nat /\ y[1] \in Nat
      BY <1>1, <2>1, <2>2
    <3>2. CASE y[1] = n
      <4>1. y[2] \in C /\ y[2] <= p /\ y[2] \in Nat /\ p \in Nat
        BY <1>1, <2>4, <2>5, <3>2
      <4>2. CASE y[2] = p
        BY <1>1, <2>5, <3>2, <4>2
      <4>3. CASE y[2] # p
        BY <2>5, <3>2, <4>1, <4>3 DEF Before
      <4> QED
        BY <4>2, <4>3
    <3>3. CASE y[1] # n
      BY <2>5, <3>1, <3>3 DEF Before
    <3> QED
      BY <3>2, <3>3
  <2> QED
    BY <2>6
<1> QED
  BY <1>2, <1>3 DEF First, LastIn

LEMMA WordsTravel ==
  ASSUME NEW e, Sound(e) PROVE Travels(e, WordLeft(e)) /\ Travels(e, WordRight(e))
<1>1. Count(e) \in Nat \ {0} /\ Loose(e) /\ Shaped(e)
  BY SoundHere
<1> PICK m \in Nat \ {0} : m = Count(e)
  BY <1>1
<1> PICK l : l = [n \in 1 .. m |-> Len(TextAt(e, n))]
  OBVIOUS
<1>2. l \in [1 .. m -> Nat]
  BY <1>1, TextIs
<1>3. Positions(e) = UNION {{n} \X (1 .. l[n] + 1) : n \in 1 .. m}
  BY DEF Positions
<1>4. \A S \in SUBSET Positions(e) : S # {} => First(S) \in Positions(e) /\ LastIn(S) \in S
  <2> SUFFICES ASSUME NEW S \in SUBSET Positions(e), S # {}
               PROVE  First(S) \in S /\ LastIn(S) \in S
    OBVIOUS
  <2>1. S \in SUBSET (UNION {{n} \X (1 .. l[n] + 1) : n \in 1 .. m})
    BY <1>3
  <2>2. m \in Nat
    OBVIOUS
  <2> QED
    BY <1>2, <2>1, <2>2, PlacesEnds, SMTT(30)
<1>5. ASSUME NEW x \in Positions(e) PROVE Travels(e, Move(e, x[1], x[2]))
  <2>1. x[1] \in 1 .. m /\ x[2] \in 1 .. l[x[1]] + 1
    BY <1>3
  <2>2. l[x[1]] = Len(TextAt(e, x[1]))
    BY <2>1
  <2> QED
    BY <1>1, <2>1, <2>2, MoveTravels
<1>6. <<1, 1>> \in Positions(e)
  BY <1>2, <1>3
<1>7. Travels(e, WordRight(e))
  <2> DEFINE gap == First({x \in Positions(e) : ~ Before(x, Cursor(e)) /\ ~ InWord(e, x)})
             words == {x \in Positions(e) : Before(gap, x) /\ InWord(e, x)}
             x == IF words = {} THEN LastIn(Positions(e)) ELSE First(words)
  <2>1. x \in Positions(e)
    BY <1>4, <1>6
  <2>2. WordRight(e) = Move(e, x[1], x[2])
    BY DEF WordRight
  <2> HIDE DEF x
  <2> QED
    BY <1>5, <2>1, <2>2
<1>8. Travels(e, WordLeft(e))
  <2> DEFINE words == {x \in Positions(e) : Before(x, Cursor(e)) /\ InWord(e, x)}
             w == LastIn(words)
             S == {p \in 1 .. w[2] : \A q \in p .. w[2] : InWord(e, <<w[1], q>>)}
  <2>1. WordLeft(e) = IF words = {} THEN Move(e, 1, 1) ELSE Move(e, w[1], LeastOf(S))
    BY DEF WordLeft
  <2>2. CASE words = {}
    <3>1. <<1, 1>>[1] = 1 /\ <<1, 1>>[2] = 1
      OBVIOUS
    <3> QED
      BY <1>5, <1>6, <2>1, <2>2, <3>1
  <2>3. CASE words # {}
    <3>1. w \in words /\ w \in Positions(e) /\ InWord(e, w)
      BY <1>4, <2>3, SMTT(30)
    <3> HIDE DEF words, w
    <3>2. w[1] \in 1 .. m /\ w[2] \in 1 .. l[w[1]] + 1 /\ w = <<w[1], w[2]>> /\ w[2] \in Nat
      BY <1>3, <3>1
    <3>3. w[2] \in S /\ S \in SUBSET Nat
      <4>1. \A q \in w[2] .. w[2] : q = w[2]
        BY <3>2
      <4> QED
        BY <3>1, <3>2, <4>1
    <3>4. LeastOf(S) \in S
      BY <3>3, LeastIs
    <3>5. LeastOf(S) \in 1 .. l[w[1]] + 1
      BY <1>2, <3>2, <3>4
    <3>6. l[w[1]] = Len(TextAt(e, w[1]))
      BY <3>2
    <3> QED
      BY <1>1, <2>1, <2>3, <3>2, <3>5, <3>6, MoveTravels
  <2> QED
    BY <2>2, <2>3
<1> QED
  BY <1>7, <1>8

----------------------------------------------------------------------------
(* Changing the lines of a buffer.                                          *)

Put(e, t) == [e EXCEPT !.lines[e.curbuf] = t]
PutNoting(e, t) == [e EXCEPT !.bfull = FALSE, !.lines[e.curbuf] = t]

LEMMA LinesPut ==
  ASSUME NEW e, Shaped(e), NEW t \in Seq(Lines), Len(t) >= 1
  PROVE  /\ Shaped(Put(e, t)) /\ Put(e, t).curbuf = e.curbuf
         /\ Put(e, t).lines[e.curbuf] = t
         /\ \A b \in Bufs : b # e.curbuf => Put(e, t).lines[b] = e.lines[b]
         /\ SameMarks(e, Put(e, t)) /\ Put(e, t).at = e.at /\ Put(e, t).bfull = e.bfull
<1>1. e \in Editor /\ e.curbuf \in Bufs /\ e.lines \in [Bufs -> Seq(Lines)]
  BY DEF Shaped, Editor
<1>2. Put(e, t).lines = [e.lines EXCEPT ![e.curbuf] = t]
  BY <1>1 DEF Editor, Put
<1>3. /\ Put(e, t).at = e.at /\ Put(e, t).curbuf = e.curbuf /\ SameMarks(e, Put(e, t))
      /\ Put(e, t).bfull = e.bfull /\ Put(e, t).mod = e.mod
  BY <1>1 DEF Editor, Put, SameMarks
<1>4. Put(e, t).lines \in [Bufs -> Seq(Lines)]
  BY <1>1, <1>2
<1>5. Put(e, t) \in Editor
  BY <1>1, <1>2, <1>3, <1>4 DEF Editor, Put, SameMarks
<1>6. Put(e, t).lines[e.curbuf] = t /\ \A b \in Bufs : b # e.curbuf => Put(e, t).lines[b] = e.lines[b]
  BY <1>1, <1>2
<1>7. Shaped(Put(e, t))
  BY <1>5, <1>6 DEF Shaped
<1> QED
  BY <1>2, <1>3, <1>6, <1>7

LEMMA LinesPutFull ==
  ASSUME NEW e, Shaped(e), NEW t \in Seq(Lines), Len(t) >= 1
  PROVE  /\ Shaped(PutNoting(e, t)) /\ PutNoting(e, t).curbuf = e.curbuf
         /\ PutNoting(e, t).lines[e.curbuf] = t
         /\ \A b \in Bufs : b # e.curbuf => PutNoting(e, t).lines[b] = e.lines[b]
         /\ SameMarks(e, PutNoting(e, t)) /\ PutNoting(e, t).at = e.at /\ ~ PutNoting(e, t).bfull
<1>1. e \in Editor /\ e.curbuf \in Bufs /\ e.lines \in [Bufs -> Seq(Lines)]
  BY DEF Shaped, Editor
<1>2. PutNoting(e, t).lines = [e.lines EXCEPT ![e.curbuf] = t]
  BY <1>1 DEF Editor, PutNoting
<1>3. /\ PutNoting(e, t).at = e.at /\ PutNoting(e, t).curbuf = e.curbuf /\ SameMarks(e, PutNoting(e, t))
      /\ ~ PutNoting(e, t).bfull /\ PutNoting(e, t).mod = e.mod
  BY <1>1 DEF Editor, PutNoting, SameMarks
<1>4. PutNoting(e, t).lines \in [Bufs -> Seq(Lines)]
  BY <1>1, <1>2
<1>5. PutNoting(e, t) \in Editor
  BY <1>1, <1>2, <1>3, <1>4 DEF Editor, PutNoting, SameMarks
<1>6. PutNoting(e, t).lines[e.curbuf] = t /\ \A b \in Bufs : b # e.curbuf => PutNoting(e, t).lines[b] = e.lines[b]
  BY <1>1, <1>2
<1>7. Shaped(PutNoting(e, t))
  BY <1>5, <1>6 DEF Shaped
<1> QED
  BY <1>2, <1>3, <1>6, <1>7

\* A text of a line: the cursors elsewhere are in their texts as before.
LEMMA TextSet ==
  ASSUME NEW e, Loose(e), NEW n \in 1 .. Count(e), NEW s \in Seq(Chars)
  PROVE  /\ Loose(SetText(e, n, s)) /\ Alike(e, SetText(e, n, s))
         /\ SetText(e, n, s).at = e.at /\ SetText(e, n, s).bfull = e.bfull
         /\ SetText(e, n, s).lines[e.curbuf] \in Seq(Lines)
         /\ Len(SetText(e, n, s).lines[e.curbuf]) = Len(e.lines[e.curbuf])
         /\ SetText(e, n, s).lines[e.curbuf][n].text = s
         /\ \A i \in 1 .. Count(e) :
              i # n => SetText(e, n, s).lines[e.curbuf][i] = e.lines[e.curbuf][i]
         /\ \A b \in Bufs : b # e.curbuf => SetText(e, n, s).lines[b] = e.lines[b]
<1>1. Shaped(e) /\ e \in Editor
  BY DEF Loose, Shaped
<1>2. e.curbuf \in Bufs /\ e.lines[e.curbuf] \in Seq(Lines) /\ e.lines[e.curbuf][n] \in Lines
      /\ Count(e) \in Nat \ {0}
  BY <1>1, TextIs
<1>3. PICK x : x = [e.lines[e.curbuf][n] EXCEPT !.text = s]
  OBVIOUS
<1>4. x \in Lines /\ x.text = s /\ x.mark = e.lines[e.curbuf][n].mark
  BY <1>2, <1>3 DEF Lines
<1>5. PICK t : t = [e.lines[e.curbuf] EXCEPT ![n] = x]
  OBVIOUS
<1>6. /\ t \in Seq(Lines) /\ Len(t) = Count(e) /\ t[n] = x
      /\ \A i \in 1 .. Count(e) : i # n => t[i] = e.lines[e.curbuf][i]
  <2>1. \A u \in Seq(Lines) : n \in 1 .. Len(u) =>
           LET w == [u EXCEPT ![n] = x]
           IN  /\ w \in Seq(Lines) /\ Len(w) = Len(u) /\ w[n] = x
               /\ \A i \in 1 .. Len(u) : i # n => w[i] = u[i]
    BY <1>4
  <2> QED
    BY <1>2, <1>5, <2>1 DEF Count
<1>7. PICK f : f = Put(e, t)
  OBVIOUS
<1>8. SetText(e, n, s) = f
  BY <1>3, <1>5, <1>7 DEF SetText, Put
<1>9. /\ Shaped(f) /\ f.curbuf = e.curbuf
      /\ f.lines[e.curbuf] = t /\ \A b \in Bufs : b # e.curbuf => f.lines[b] = e.lines[b]
      /\ SameMarks(e, f) /\ f.at = e.at /\ f.bfull = e.bfull
  <2>1. Len(t) >= 1 /\ e.bfull \in BOOLEAN
    BY <1>1, <1>2, <1>6 DEF Editor
  <2>2. t \in Seq(Lines)
    BY <1>6
  <2> QED
    BY <1>1, <1>7, <2>1, <2>2, LinesPut
<1>10. \A i \in 1 .. Count(e) : t[i].mark = e.lines[e.curbuf][i].mark
  BY <1>4, <1>6
<1>11. Alike(e, f)
  BY <1>6, <1>9, <1>10 DEF Alike, SameLines, Count
<1>12. Ordered(f) /\ Followed(f)
  BY <1>1, <1>9, <1>11, AlikeFollowed DEF Loose
<1>13. Loose(f)
  BY <1>9, <1>12 DEF Loose, OnText
<1> QED
  BY <1>4, <1>6, <1>8, <1>9, <1>11, <1>13 DEF Count

LEMMA ModifiedTravels ==
  ASSUME NEW e, Sound(e)
  PROVE  /\ Travels(e, Modified(e)) /\ Modified(e).at = e.at
<1>1. Shaped(e) /\ e \in Editor
  BY DEF Sound, Loose, Shaped
<1>2. PICK f : f = Modified(e)
  OBVIOUS
<1>3. /\ f.at = e.at /\ f.curbuf = e.curbuf /\ SameMarks(e, f)
      /\ f.bfull = e.bfull /\ f.lines = e.lines
  BY <1>1, <1>2 DEF Editor, SameMarks, Modified
<1>4. f.mod \in [Bufs -> BOOLEAN]
  <2>1. e.mod \in [Bufs -> BOOLEAN] /\ f.mod = [e.mod EXCEPT ![e.curbuf] = TRUE]
    BY <1>1, <1>2 DEF Editor, Modified
  <2> QED
    BY <2>1
<1>5. f \in Editor
  BY <1>1, <1>2, <1>3, <1>4 DEF Editor, SameMarks, Modified
<1>6. Shaped(f) /\ Alike(e, f)
  BY <1>1, <1>3, <1>5 DEF Shaped, Alike, SameLines
<1>7. Ordered(f) /\ Followed(f)
  BY <1>1, <1>6, AlikeFollowed DEF Sound, Loose
<1>8. Sound(f)
  BY <1>3, <1>6, <1>7 DEF Sound, Loose, OnText
<1> QED
  BY <1>2, <1>3, <1>6, <1>8 DEF Travels

\* A note of the heap being full.
LEMMA FullNoted ==
  ASSUME NEW e, Sound(e), NEW v \in BOOLEAN
  PROVE  /\ Sound([e EXCEPT !.bfull = v]) /\ Alike(e, [e EXCEPT !.bfull = v])
         /\ [e EXCEPT !.bfull = v].lines = e.lines /\ [e EXCEPT !.bfull = v].at = e.at
         /\ [e EXCEPT !.bfull = v].bfull = v
<1>1. Shaped(e) /\ e \in Editor
  BY DEF Sound, Loose, Shaped
<1>2. PICK f : f = [e EXCEPT !.bfull = v]
  OBVIOUS
<1>3. /\ f.at = e.at /\ f.curbuf = e.curbuf /\ SameMarks(e, f) /\ f.mod = e.mod
      /\ f.bfull = v /\ f.lines = e.lines
  BY <1>1, <1>2 DEF Editor, SameMarks
<1>5. f \in Editor
  BY <1>1, <1>2, <1>3 DEF Editor, SameMarks
<1>6. Shaped(f) /\ Alike(e, f)
  BY <1>1, <1>3, <1>5 DEF Shaped, Alike, SameLines
<1>7. Ordered(f) /\ Followed(f)
  BY <1>1, <1>6, AlikeFollowed DEF Sound, Loose
<1>8. Sound(f)
  BY <1>3, <1>6, <1>7 DEF Sound, Loose, OnText
<1> QED
  BY <1>2, <1>3, <1>6, <1>8

\* The room of a line: nothing that is written in it changes.
SameTexts(e, f) ==
  \A b \in Bufs : /\ Len(f.lines[b]) = Len(e.lines[b])
                  /\ \A i \in 1 .. Len(e.lines[b]) : f.lines[b][i].text = e.lines[b][i].text

LEMMA SameTextsOn ==
  ASSUME NEW e, NEW f, NEW b \in Bufs, SameTexts(e, f), f.at[b] = e.at[b], OnText(e, b)
  PROVE  OnText(f, b)
  BY DEF SameTexts, OnText

LEMMA MneedIs ==
  ASSUME NEW e, Sound(e), NEW n \in 1 .. Count(e), NEW size \in Nat
  PROVE  /\ Mneed(e, n, size)[1] \in BOOLEAN
         /\ Sound(Mneed(e, n, size)[2]) /\ Alike(e, Mneed(e, n, size)[2])
         /\ SameTexts(e, Mneed(e, n, size)[2]) /\ Mneed(e, n, size)[2].at = e.at
<1>1. Shaped(e) /\ e \in Editor
  BY DEF Sound, Loose, Shaped
<1>2. e.curbuf \in Bufs /\ e.lines[e.curbuf] \in Seq(Lines) /\ e.lines[e.curbuf][n] \in Lines
      /\ Count(e) \in Nat \ {0}
  BY <1>1, TextIs
<1>3. CASE size <= e.lines[e.curbuf][n].room
  <2>1. Mneed(e, n, size) = <<TRUE, e>>
    BY <1>3 DEF Mneed
  <2> QED
    BY <2>1 DEF Alike, SameMarks, SameLines, SameTexts
<1>4. CASE ~ size <= e.lines[e.curbuf][n].room /\ size >= MaxPos
  <2>1. Mneed(e, n, size) = <<FALSE, e>>
    BY <1>4 DEF Mneed
  <2> QED
    BY <2>1 DEF Alike, SameMarks, SameLines, SameTexts
<1>5. CASE ~ size <= e.lines[e.curbuf][n].room /\ ~ size >= MaxPos /\ Full(e)
  <2>1. Mneed(e, n, size) = <<FALSE, [e EXCEPT !.bfull = TRUE]>>
    BY <1>5 DEF Mneed
  <2>2. PICK f : f = [e EXCEPT !.bfull = TRUE]
    OBVIOUS
  <2>3. Sound(f) /\ Alike(e, f) /\ f.lines = e.lines /\ f.at = e.at
    BY <2>2, FullNoted
  <2>4. SameTexts(e, f)
    BY <2>3 DEF SameTexts
  <2>5. Mneed(e, n, size)[1] \in BOOLEAN /\ Mneed(e, n, size)[2] = f
    BY <2>1, <2>2
  <2> QED
    BY <2>3, <2>4, <2>5
<1>6. CASE ~ size <= e.lines[e.curbuf][n].room /\ ~ size >= MaxPos /\ ~ Full(e)
  <2>1. PICK r : r = IF size + Slop > MaxPos THEN MaxPos ELSE size + Slop
    OBVIOUS
  <2>2. r \in Nat
    BY <2>1, BufferAssumption
  <2>3. PICK x : x = [e.lines[e.curbuf][n] EXCEPT !.room = r]
    OBVIOUS
  <2>4. /\ x \in Lines /\ x.text = e.lines[e.curbuf][n].text
        /\ x.mark = e.lines[e.curbuf][n].mark
    BY <1>2, <2>2, <2>3 DEF Lines
  <2>5. PICK t : t = [e.lines[e.curbuf] EXCEPT ![n] = x]
    OBVIOUS
  <2>6. /\ t \in Seq(Lines) /\ Len(t) = Count(e) /\ t[n] = x
        /\ \A i \in 1 .. Count(e) : i # n => t[i] = e.lines[e.curbuf][i]
    <3>1. \A u \in Seq(Lines) : n \in 1 .. Len(u) =>
             LET w == [u EXCEPT ![n] = x]
             IN  /\ w \in Seq(Lines) /\ Len(w) = Len(u) /\ w[n] = x
                 /\ \A i \in 1 .. Len(u) : i # n => w[i] = u[i]
      BY <2>4
    <3> QED
      BY <1>2, <2>5, <3>1 DEF Count
  <2>7. PICK f : f = PutNoting(e, t)
    OBVIOUS
  <2>8. Mneed(e, n, size) = <<TRUE, f>>
    BY <1>6, <2>1, <2>3, <2>5, <2>7 DEF Mneed, PutNoting
  <2>9. /\ Shaped(f) /\ f.curbuf = e.curbuf
        /\ f.lines[e.curbuf] = t /\ \A b \in Bufs : b # e.curbuf => f.lines[b] = e.lines[b]
        /\ SameMarks(e, f) /\ f.at = e.at
    <3>1. Len(t) >= 1
      BY <1>2, <2>6
    <3>2. t \in Seq(Lines)
      BY <2>6
    <3> QED
      BY <1>1, <2>7, <3>1, <3>2, LinesPutFull
  <2>10. \A i \in 1 .. Count(e) : /\ t[i].mark = e.lines[e.curbuf][i].mark
                                  /\ t[i].text = e.lines[e.curbuf][i].text
    BY <2>4, <2>6
  <2>11. Alike(e, f) /\ SameTexts(e, f)
    BY <2>6, <2>9, <2>10 DEF Alike, SameLines, SameTexts, Count
  <2>12. Ordered(f) /\ Followed(f)
    BY <1>1, <2>9, <2>11, AlikeFollowed DEF Sound, Loose
  <2>13. \A b \in Bufs : OnText(f, b)
    <3>1. \A b \in Bufs : OnText(e, b) /\ f.at[b] = e.at[b]
      BY <2>9 DEF Sound, Loose
    <3> QED
      BY <2>11, <3>1, SameTextsOn
  <2>14. Sound(f)
    BY <1>2, <2>9, <2>12, <2>13 DEF Sound, Loose
  <2>15. Mneed(e, n, size)[1] \in BOOLEAN /\ Mneed(e, n, size)[2] = f
    BY <2>8
  <2> QED
    BY <2>9, <2>11, <2>14, <2>15
<1> QED
  BY <1>3, <1>4, <1>5, <1>6

----------------------------------------------------------------------------
(* The marks.                                                               *)

NoneIn(e) == \A b \in Bufs : \A i \in 1 .. Len(e.lines[b]) : e.lines[b][i].mark # "in"

LEMMA Cleared ==
  ASSUME NEW e, Shaped(e), e.frombuf = e.curbuf
  PROVE  /\ Shaped(ClearMarks(e)) /\ Ordered(ClearMarks(e)) /\ Followed(ClearMarks(e))
         /\ SameTexts(e, ClearMarks(e)) /\ ClearMarks(e).at = e.at
         /\ ClearMarks(e).curbuf = e.curbuf /\ ClearMarks(e).bfull = e.bfull
         /\ ClearMarks(e).frombuf = BNONE /\ ClearMarks(e).line1 = 0
         /\ ClearMarks(e).line2 = 0 /\ ClearMarks(e).ismarked = FALSE
         /\ NoneIn(ClearMarks(e))
         /\ \A b \in Bufs : \A i \in 1 .. Len(e.lines[b]) :
              ClearMarks(e).lines[b][i].mark =
                IF e.lines[b][i].mark = "in" THEN "no" ELSE e.lines[b][i].mark
<1>1. e \in Editor
  BY DEF Shaped
<1>2. PICK f : f = ClearMarks(e)
  OBVIOUS
<1>3. PICK new : new = [b \in Bufs |-> [i \in DOMAIN e.lines[b] |->
                          [e.lines[b][i] EXCEPT !.mark = IF @ = "in" THEN "no" ELSE @]]]
  OBVIOUS
<1>4. f = [e EXCEPT !.frombuf = BNONE, !.line1 = 0, !.line2 = 0, !.ismarked = FALSE,
                    !.exact = TRUE, !.lines = new]
  BY <1>2, <1>3 DEF ClearMarks
<1>5. ASSUME NEW b \in Bufs
      PROVE  /\ new[b] \in Seq(Lines) /\ Len(new[b]) = Len(e.lines[b])
             /\ \A i \in 1 .. Len(e.lines[b]) :
                  /\ new[b][i].text = e.lines[b][i].text
                  /\ new[b][i].mark = IF e.lines[b][i].mark = "in" THEN "no" ELSE e.lines[b][i].mark
  <2>1. PICK t \in Seq(Lines) : t = e.lines[b]
    BY <1>1 DEF Editor
  <2>2. PICK n \in Nat : n = Len(t)
    BY <2>1
  <2>3. \A i \in 1 .. n : t[i] \in Lines
    BY <2>1, <2>2
  <2>4. new[b] = [i \in 1 .. n |-> [t[i] EXCEPT !.mark = IF @ = "in" THEN "no" ELSE @]]
    BY <1>3, <2>1, <2>2
  <2>5. \A i \in 1 .. n :
          LET x == [t[i] EXCEPT !.mark = IF @ = "in" THEN "no" ELSE @]
          IN  /\ x \in Lines /\ x.text = t[i].text
              /\ x.mark = IF t[i].mark = "in" THEN "no" ELSE t[i].mark
    BY <2>3 DEF Lines
  <2>6. new[b] \in [1 .. n -> Lines]
    BY <2>4, <2>5
  <2>7. new[b] \in Seq(Lines) /\ Len(new[b]) = n
    BY <2>2, <2>6, SeqDef
  <2>8. \A i \in 1 .. n : /\ new[b][i].text = t[i].text
                          /\ new[b][i].mark = IF t[i].mark = "in" THEN "no" ELSE t[i].mark
    BY <2>4, <2>5
  <2> QED
    BY <2>1, <2>2, <2>7, <2>8
<1>6. new \in [Bufs -> Seq(Lines)]
  <2>1. \A b \in Bufs : new[b] \in Seq(Lines)
    BY <1>5
  <2> QED
    BY <1>3, <2>1
<1>7. /\ f.lines = new /\ f.at = e.at /\ f.curbuf = e.curbuf /\ f.bfull = e.bfull
      /\ f.frombuf = BNONE /\ f.line1 = 0 /\ f.line2 = 0 /\ f.ismarked = FALSE
      /\ f.exact = TRUE /\ f.mod = e.mod /\ f.mkpos = e.mkpos
  BY <1>1, <1>4 DEF Editor
<1>8. f \in Editor
  BY <1>1, <1>4, <1>6, <1>7 DEF Editor
<1>9. Shaped(f)
  BY <1>5, <1>7, <1>8 DEF Shaped
<1>10. SameTexts(e, f)
  BY <1>5, <1>7 DEF SameTexts
<1>11. NoneIn(f)
  BY <1>5, <1>7 DEF NoneIn
<1>12. Ordered(f) /\ Followed(f)
  BY <1>7, <1>11 DEF Ordered, Followed, NoneIn
<1> QED
  BY <1>2, <1>5, <1>7, <1>9, <1>10, <1>11, <1>12

\* What a first mark alone means when a line comes or goes.
LEMMA UnfollowedIs ==
  ASSUME NEW e, Shaped(e)
  PROVE  /\ Shaped(Unfollowed(e)) /\ Unfollowed(e).lines = e.lines /\ Unfollowed(e).at = e.at
         /\ Unfollowed(e).curbuf = e.curbuf /\ Unfollowed(e).bfull = e.bfull
         /\ Unfollowed(e).frombuf = e.frombuf /\ Unfollowed(e).line1 = e.line1
         /\ Unfollowed(e).line2 = e.line2 /\ Unfollowed(e).ismarked = e.ismarked
         /\ Unfollowed(e).mkpos = e.mkpos
         /\ Unfollowed(e).exact =>
              e.exact /\ ~ (e.line1 # 0 /\ ~ e.ismarked /\ e.frombuf = e.curbuf)
         /\ e.ismarked => Unfollowed(e).exact = e.exact
<1>1. e \in Editor
  BY DEF Shaped
<1>2. CASE e.line1 # 0 /\ ~ e.ismarked /\ e.frombuf = e.curbuf
  <2>1. PICK f : f = [e EXCEPT !.exact = FALSE]
    OBVIOUS
  <2>2. Unfollowed(e) = f
    BY <1>2, <2>1 DEF Unfollowed
  <2>3. /\ f.lines = e.lines /\ f.at = e.at /\ f.curbuf = e.curbuf /\ f.bfull = e.bfull
        /\ f.frombuf = e.frombuf /\ f.line1 = e.line1 /\ f.line2 = e.line2
        /\ f.ismarked = e.ismarked /\ f.mkpos = e.mkpos /\ f.exact = FALSE /\ f.mod = e.mod
    BY <1>1, <2>1 DEF Editor
  <2>4. f \in Editor
    BY <1>1, <2>1, <2>3 DEF Editor
  <2>5. Shaped(f)
    BY <2>3, <2>4 DEF Shaped
  <2> QED
    BY <1>2, <2>2, <2>3, <2>5
<1>3. CASE ~ (e.line1 # 0 /\ ~ e.ismarked /\ e.frombuf = e.curbuf)
  <2>1. Unfollowed(e) = e
    BY <1>3 DEF Unfollowed
  <2> QED
    BY <1>3, <2>1
<1> QED
  BY <1>2, <1>3

Tracked(e) == e.ismarked /\ e.frombuf = e.curbuf

\* The marks put somewhere else.
SetMarks(e, l1, l2) == [e EXCEPT !.line1 = l1, !.line2 = l2]

LEMMA MarksSet ==
  ASSUME NEW e, Shaped(e), NEW l1 \in Nat, NEW l2 \in Nat
  PROVE  /\ Shaped(SetMarks(e, l1, l2)) /\ SetMarks(e, l1, l2).lines = e.lines
         /\ SetMarks(e, l1, l2).at = e.at /\ SetMarks(e, l1, l2).curbuf = e.curbuf
         /\ SetMarks(e, l1, l2).bfull = e.bfull /\ SetMarks(e, l1, l2).frombuf = e.frombuf
         /\ SetMarks(e, l1, l2).line1 = l1 /\ SetMarks(e, l1, l2).line2 = l2
         /\ SetMarks(e, l1, l2).ismarked = e.ismarked
         /\ SetMarks(e, l1, l2).mkpos = e.mkpos /\ SetMarks(e, l1, l2).exact = e.exact
<1>1. e \in Editor
  BY DEF Shaped
<1>2. PICK f : f = SetMarks(e, l1, l2)
  OBVIOUS
<1>3. /\ f.lines = e.lines /\ f.at = e.at /\ f.curbuf = e.curbuf /\ f.bfull = e.bfull
      /\ f.frombuf = e.frombuf /\ f.line1 = l1 /\ f.line2 = l2
      /\ f.ismarked = e.ismarked /\ f.mkpos = e.mkpos /\ f.exact = e.exact /\ f.mod = e.mod
  BY <1>1, <1>2 DEF Editor, SetMarks
<1>4. f \in Editor
  BY <1>1, <1>2, <1>3 DEF Editor, SetMarks
<1>5. Shaped(f)
  BY <1>3, <1>4 DEF Shaped
<1> QED
  BY <1>2, <1>3, <1>5

----------------------------------------------------------------------------
(* A line more.                                                             *)

Kind(e, n, m) == IF Between(e, n) THEN "in" ELSE m

\* The lines of f are those of e and one more, behind line n.
LinesUp(e, f, n, s, m) ==
  /\ \A b \in Bufs : b # e.curbuf => f.lines[b] = e.lines[b]
  /\ Len(f.lines[e.curbuf]) = Len(e.lines[e.curbuf]) + 1
  /\ \A k \in 1 .. n : f.lines[e.curbuf][k] = e.lines[e.curbuf][k]
  /\ f.lines[e.curbuf][n + 1].text = s /\ f.lines[e.curbuf][n + 1].mark = Kind(e, n, m)
  /\ \A k \in n + 1 .. Len(e.lines[e.curbuf]) :
       f.lines[e.curbuf][k + 1] = e.lines[e.curbuf][k]

LineMore(e, f, n, s, m) ==
  /\ Shaped(f) /\ f.curbuf = e.curbuf /\ f.at = e.at /\ ~ f.bfull
  /\ LinesUp(e, f, n, s, m)

LEMMA MappIs ==
  ASSUME NEW e, Shaped(e), NEW n \in 0 .. Count(e), NEW s \in Seq(Chars), NEW m \in {"no", "new"}
  PROVE  LineMore(e, Mapp(e, n, s, m), n, s, m) /\ SameMarks(e, Mapp(e, n, s, m))
<1>1. e \in Editor /\ e.curbuf \in Bufs /\ e.lines[e.curbuf] \in Seq(Lines)
  BY DEF Shaped, Editor
<1>2. PICK t \in Seq(Lines) : t = e.lines[e.curbuf]
  BY <1>1
<1>3. PICK l \in Nat : l = Len(t)
  BY <1>2
<1>4. n \in 0 .. l
  BY <1>2, <1>3 DEF Count
<1>5. PICK x : x = Line(s, Kind(e, n, m))
  OBVIOUS
<1>6. x \in Lines /\ x.text = s /\ x.mark = Kind(e, n, m)
  <2>1. Kind(e, n, m) \in {"no", "in", "new"} /\ Len(s) \in Nat
    BY DEF Kind
  <2> QED
    BY <1>5, <2>1 DEF Line, Lines
<1>7. PICK u : u = InsertAt(t, n + 1, x)
  OBVIOUS
<1>8. /\ u \in Seq(Lines) /\ Len(u) = l + 1
      /\ \A k \in 1 .. l + 1 : u[k] = IF k < n + 1 THEN t[k] ELSE IF k = n + 1 THEN x ELSE t[k - 1]
  <2>1. n + 1 \in 1 .. Len(t) + 1
    BY <1>3, <1>4
  <2>2. x \in Lines
    BY <1>6
  <2>3. /\ InsertAt(t, n + 1, x) \in Seq(Lines)
        /\ Len(InsertAt(t, n + 1, x)) = Len(t) + 1
        /\ \A k \in 1 .. Len(t) + 1 : InsertAt(t, n + 1, x)[k] =
             IF k < n + 1 THEN t[k] ELSE IF k = n + 1 THEN x ELSE t[k - 1]
    BY <2>1, <2>2, Inserted
  <2> QED
    BY <1>3, <1>7, <2>3
<1>9. /\ \A k \in 1 .. n : u[k] = t[k]
      /\ u[n + 1] = x
      /\ \A k \in n + 1 .. l : u[k + 1] = t[k]
  <2>1. \A k \in 1 .. n : k \in 1 .. l + 1 /\ k < n + 1
    BY <1>3, <1>4
  <2>2. n + 1 \in 1 .. l + 1 /\ ~ n + 1 < n + 1
    BY <1>3, <1>4
  <2>3. \A k \in n + 1 .. l : k + 1 \in 1 .. l + 1 /\ ~ k + 1 < n + 1 /\ k + 1 # n + 1 /\ (k + 1) - 1 = k
    BY <1>3, <1>4
  <2> QED
    BY <1>8, <2>1, <2>2, <2>3
<1>10. Mapp(e, n, s, m) = PutNoting(e, u)
  BY <1>2, <1>5, <1>7 DEF Mapp, Kind, PutNoting
<1>11. Len(u) >= 1
  BY <1>3, <1>8
<1>12. u \in Seq(Lines)
  BY <1>8
<1>13. /\ Shaped(PutNoting(e, u)) /\ PutNoting(e, u).curbuf = e.curbuf
       /\ PutNoting(e, u).lines[e.curbuf] = u
       /\ \A b \in Bufs : b # e.curbuf => PutNoting(e, u).lines[b] = e.lines[b]
       /\ SameMarks(e, PutNoting(e, u)) /\ PutNoting(e, u).at = e.at
       /\ ~ PutNoting(e, u).bfull
  BY <1>11, <1>12, LinesPutFull
<1> QED
  BY <1>2, <1>3, <1>6, <1>8, <1>9, <1>10, <1>13 DEF LineMore, LinesUp

\* The marks of f are those of e when a line has come behind line n.
MarksUp(e, f, n) ==
  /\ f.frombuf = e.frombuf /\ f.ismarked = e.ismarked /\ f.mkpos = e.mkpos
  /\ Tracked(e) => /\ f.line1 = IF e.line1 # 0 /\ n < e.line1 THEN e.line1 + 1 ELSE e.line1
                   /\ f.line2 = IF e.line2 # 0 /\ n < e.line2 THEN e.line2 + 1 ELSE e.line2
  /\ ~ Tracked(e) => f.line1 = e.line1 /\ f.line2 = e.line2
  /\ f.exact => e.exact /\ ~ (e.line1 # 0 /\ ~ e.ismarked /\ e.frombuf = e.curbuf)
  /\ e.ismarked => f.exact = e.exact

LEMMA AppFixIs ==
  ASSUME NEW e, Shaped(e), NEW n \in Nat
  PROVE  /\ Shaped(AppFix(e, n)) /\ AppFix(e, n).lines = e.lines /\ AppFix(e, n).at = e.at
         /\ AppFix(e, n).curbuf = e.curbuf /\ AppFix(e, n).bfull = e.bfull
         /\ MarksUp(e, AppFix(e, n), n)
<1>1. e.line1 \in Nat /\ e.line2 \in Nat
  BY DEF Shaped, Editor
<1>2. CASE Tracked(e)
  <2>1. PICK l1 \in Nat : l1 = IF e.line1 # 0 /\ n < e.line1 THEN e.line1 + 1 ELSE e.line1
    BY <1>1
  <2>2. PICK l2 \in Nat : l2 = IF e.line2 # 0 /\ n < e.line2 THEN e.line2 + 1 ELSE e.line2
    BY <1>1
  <2>3. AppFix(e, n) = SetMarks(e, l1, l2)
    BY <1>2, <2>1, <2>2 DEF AppFix, SetMarks, Tracked
  <2>4. e.ismarked
    BY <1>2 DEF Tracked
  <2>5. /\ Shaped(SetMarks(e, l1, l2)) /\ SetMarks(e, l1, l2).lines = e.lines
        /\ SetMarks(e, l1, l2).at = e.at /\ SetMarks(e, l1, l2).curbuf = e.curbuf
        /\ SetMarks(e, l1, l2).bfull = e.bfull /\ SetMarks(e, l1, l2).frombuf = e.frombuf
        /\ SetMarks(e, l1, l2).line1 = l1 /\ SetMarks(e, l1, l2).line2 = l2
        /\ SetMarks(e, l1, l2).ismarked = e.ismarked
        /\ SetMarks(e, l1, l2).mkpos = e.mkpos /\ SetMarks(e, l1, l2).exact = e.exact
    BY MarksSet
  <2> QED
    BY <1>2, <2>1, <2>2, <2>3, <2>4, <2>5 DEF MarksUp
<1>3. CASE ~ Tracked(e)
  <2>1. AppFix(e, n) = Unfollowed(e)
    BY <1>3 DEF AppFix, Tracked
  <2> QED
    BY <1>3, <2>1, UnfollowedIs DEF MarksUp
<1> QED
  BY <1>2, <1>3

\* The line put behind line n of the current buffer, and the marks with it.
Grown(e, n, s, m) == AppFix(Mapp(e, n, s, m), n)

LEMMA GrownIs ==
  ASSUME NEW e, Shaped(e), NEW n \in 0 .. Count(e), NEW s \in Seq(Chars), NEW m \in {"no", "new"}
  PROVE  LineMore(e, Grown(e, n, s, m), n, s, m) /\ MarksUp(e, Grown(e, n, s, m), n)
<1> DEFINE g == Mapp(e, n, s, m)
<1>1. LineMore(e, g, n, s, m) /\ SameMarks(e, g)
  BY MappIs
<1>2. n \in Nat
  BY DEF Shaped, Editor, Count
<1> DEFINE f == AppFix(g, n)
<1> HIDE DEF g
<1>3. Shaped(g)
  BY <1>1 DEF LineMore, LinesUp
<1>4. /\ Shaped(f) /\ f.lines = g.lines /\ f.at = g.at /\ f.curbuf = g.curbuf
      /\ f.bfull = g.bfull /\ MarksUp(g, f, n)
  BY <1>2, <1>3, AppFixIs
<1>5. f = Grown(e, n, s, m)
  BY DEF Grown, g
<1> HIDE DEF f
<1>6. LineMore(e, f, n, s, m)
  BY <1>1, <1>4 DEF LineMore, LinesUp
<1>7. MarksUp(e, f, n)
  BY <1>1, <1>4 DEF MarksUp, SameMarks, Tracked, LineMore, LinesUp
<1> QED
  BY <1>5, <1>6, <1>7

LEMMA NotBetween ==
  ASSUME NEW e, Shaped(e), NEW n \in 0 .. Count(e),
         \/ ~ e.ismarked /\ Ordered(e)
         \/ e.exact /\ e.ismarked /\ Followed(e) /\ e.frombuf # e.curbuf
         \/ e.exact /\ e.ismarked /\ Followed(e) /\ (n < e.line1 \/ n >= e.line2) /\ Ordered(e)
  PROVE  ~ Between(e, n)
<1> SUFFICES ASSUME Between(e, n) PROVE FALSE
  OBVIOUS
<1>1. e.curbuf \in Bufs /\ Count(e) = Len(e.lines[e.curbuf]) /\ Count(e) \in Nat
      /\ e.line1 \in Nat /\ e.line2 \in Nat
  BY DEF Shaped, Editor, Count
<1>2. /\ n \in 1 .. Len(e.lines[e.curbuf]) /\ n + 1 \in 1 .. Len(e.lines[e.curbuf])
      /\ e.lines[e.curbuf][n].mark = "in" /\ e.lines[e.curbuf][n + 1].mark = "in"
  BY <1>1 DEF Between
<1>3. CASE ~ e.ismarked /\ Ordered(e)
  BY <1>1, <1>2, <1>3 DEF Ordered
<1>4. CASE e.exact /\ e.ismarked /\ Followed(e) /\ e.frombuf # e.curbuf
  BY <1>1, <1>2, <1>4 DEF Followed
<1>5. CASE e.exact /\ e.ismarked /\ Followed(e) /\ (n < e.line1 \/ n >= e.line2)
  <2>1. n \in e.line1 .. e.line2 /\ n + 1 \in e.line1 .. e.line2
    BY <1>1, <1>2, <1>5 DEF Followed
  <2> QED
    BY <1>1, <1>5, <2>1
<1> QED
  BY <1>3, <1>4, <1>5

\* Wherever the line has come, the marks are where they were.
LEMMA GrownMarks ==
  ASSUME NEW e, NEW f, Shaped(e), NEW n \in 0 .. Count(e), NEW s \in Seq(Chars),
         NEW m \in {"no", "new"}, Ordered(e), Followed(e),
         LineMore(e, f, n, s, m), MarksUp(e, f, n)
  PROVE  Ordered(f) /\ Followed(f)
<1>1. /\ e.curbuf \in Bufs /\ Count(e) = Len(e.lines[e.curbuf]) /\ Count(e) \in Nat /\ n \in Nat
      /\ e.line1 \in Nat /\ e.line2 \in Nat
  BY DEF Shaped, Editor, Count
<1>2. PICK c \in Nat : c = Len(e.lines[e.curbuf])
  BY <1>1
<1>3. n \in 0 .. c /\ Len(f.lines[e.curbuf]) = c + 1
  BY <1>1, <1>2 DEF LineMore, LinesUp
<1>4. \A b \in Bufs : b # e.curbuf => f.lines[b] = e.lines[b]
  BY DEF LineMore, LinesUp
\* The marks of the lines of this buffer.
<1>5. /\ \A k \in 1 .. n : f.lines[e.curbuf][k].mark = e.lines[e.curbuf][k].mark
      /\ f.lines[e.curbuf][n + 1].mark = Kind(e, n, m)
      /\ \A k \in n + 2 .. c + 1 : f.lines[e.curbuf][k].mark = e.lines[e.curbuf][k - 1].mark
  <2>1. ASSUME NEW k \in n + 2 .. c + 1
        PROVE  f.lines[e.curbuf][k] = e.lines[e.curbuf][k - 1]
    <3>1. k - 1 \in n + 1 .. c /\ (k - 1) + 1 = k
      BY <1>3
    <3> QED
      BY <1>2, <3>1 DEF LineMore, LinesUp
  <2> QED
    BY <2>1 DEF LineMore, LinesUp
<1>6. ASSUME ~ Between(e, n), \A k \in 1 .. c : e.lines[e.curbuf][k].mark # "in"
      PROVE  \A k \in 1 .. c + 1 : f.lines[e.curbuf][k].mark # "in"
  <2> SUFFICES ASSUME NEW k \in 1 .. c + 1 PROVE f.lines[e.curbuf][k].mark # "in"
    OBVIOUS
  <2>1. CASE k <= n
    <3>1. k \in 1 .. n /\ k \in 1 .. c
      BY <1>3, <2>1
    <3> QED
      BY <1>5, <1>6, <3>1
  <2>2. CASE k = n + 1
    BY <1>5, <1>6, <2>2 DEF Kind
  <2>3. CASE k > n + 1
    <3>1. k \in n + 2 .. c + 1 /\ k - 1 \in 1 .. c
      BY <1>3, <2>3
    <3> QED
      BY <1>5, <1>6, <3>1
  <2> QED
    BY <1>3, <2>1, <2>2, <2>3
<1>7. Ordered(f)
  <2>1. ASSUME ~ f.ismarked
        PROVE  f.line2 = 0 /\ \A b \in Bufs : \A i \in 1 .. Len(f.lines[b]) : f.lines[b][i].mark # "in"
    <3>1. ~ e.ismarked /\ ~ Tracked(e)
      BY <2>1 DEF MarksUp, Tracked
    <3>2. ~ Between(e, n)
      BY <3>1, NotBetween
    <3>3. \A k \in 1 .. c + 1 : f.lines[e.curbuf][k].mark # "in"
      BY <1>1, <1>2, <1>6, <3>1, <3>2 DEF Ordered
    <3>4. \A b \in Bufs : \A i \in 1 .. Len(f.lines[b]) : f.lines[b][i].mark # "in"
      BY <1>3, <1>4, <3>1, <3>3 DEF Ordered
    <3>5. f.line2 = 0
      BY <3>1 DEF Ordered, MarksUp
    <3> QED
      BY <3>4, <3>5
  <2>2. ASSUME f.ismarked PROVE f.frombuf \in Texts /\ 1 <= f.line1 /\ f.line1 <= f.line2
    <3>1. /\ e.ismarked /\ e.frombuf \in Texts /\ 1 <= e.line1 /\ e.line1 <= e.line2
          /\ f.frombuf = e.frombuf
      BY <2>2 DEF Ordered, MarksUp
    <3>2. CASE Tracked(e)
      BY <1>1, <3>1, <3>2 DEF MarksUp
    <3>3. CASE ~ Tracked(e)
      BY <3>1, <3>3 DEF MarksUp
    <3> QED
      BY <3>2, <3>3
  <2>3. f.line1 # 0 => f.frombuf \in Texts
    <3>1. f.line1 # 0 => e.line1 # 0
      BY DEF MarksUp
    <3> QED
      BY <3>1 DEF Ordered, MarksUp
  <2> QED
    BY <2>1, <2>2, <2>3 DEF Ordered
<1>8. ASSUME f.exact
      PROVE  /\ f.line1 # 0 => f.line1 <= Len(f.lines[f.frombuf])
             /\ f.ismarked => f.line2 <= Len(f.lines[f.frombuf])
             /\ f.ismarked => \A b \in Bufs : \A i \in 1 .. Len(f.lines[b]) :
                  f.lines[b][i].mark = "in" <=> b = f.frombuf /\ i \in f.line1 .. f.line2
  <2>1. /\ e.exact /\ ~ (e.line1 # 0 /\ ~ e.ismarked /\ e.frombuf = e.curbuf)
        /\ f.frombuf = e.frombuf /\ f.ismarked = e.ismarked
    BY <1>8 DEF MarksUp
  <2>2. CASE ~ Tracked(e)
    <3>1. f.line1 = e.line1 /\ f.line2 = e.line2
      BY <2>2 DEF MarksUp
    <3>2. e.line1 # 0 => e.frombuf # e.curbuf /\ e.frombuf \in Bufs
      BY <2>1, <2>2 DEF Tracked, Ordered, Bufs
    <3>3. e.ismarked => e.frombuf # e.curbuf /\ e.frombuf \in Bufs
      BY <2>1, <2>2 DEF Tracked, Ordered, Bufs
    <3>4. f.line1 # 0 => f.line1 <= Len(f.lines[f.frombuf])
      BY <1>4, <2>1, <3>1, <3>2 DEF Followed
    <3>5. f.ismarked => f.line2 <= Len(f.lines[f.frombuf])
      BY <1>4, <2>1, <3>1, <3>3 DEF Followed
    <3>6. ASSUME f.ismarked, NEW b \in Bufs, NEW i \in 1 .. Len(f.lines[b])
          PROVE  f.lines[b][i].mark = "in" <=> b = f.frombuf /\ i \in f.line1 .. f.line2
      <4>1. CASE b # e.curbuf
        BY <1>4, <2>1, <3>1, <3>6, <4>1 DEF Followed
      <4>2. CASE b = e.curbuf
        <5>1. ~ Between(e, n)
          BY <2>1, <3>3, <3>6, NotBetween
        <5>2. \A k \in 1 .. c : e.lines[e.curbuf][k].mark # "in"
          BY <1>1, <1>2, <2>1, <3>3, <3>6 DEF Followed
        <5> QED
          BY <1>3, <1>6, <2>1, <3>3, <3>6, <4>2, <5>1, <5>2
      <4> QED
        BY <4>1, <4>2
    <3> QED
      BY <3>4, <3>5, <3>6
  <2>3. CASE Tracked(e)
    <3>1. /\ e.ismarked /\ e.frombuf = e.curbuf /\ 1 <= e.line1 /\ e.line1 <= e.line2 /\ e.line2 <= c
          /\ \A b \in Bufs : \A i \in 1 .. Len(e.lines[b]) :
               e.lines[b][i].mark = "in" <=> b = e.frombuf /\ i \in e.line1 .. e.line2
      BY <1>1, <1>2, <2>1, <2>3 DEF Tracked, Ordered, Followed
    <3>2. /\ f.line1 = IF n < e.line1 THEN e.line1 + 1 ELSE e.line1
          /\ f.line2 = IF n < e.line2 THEN e.line2 + 1 ELSE e.line2
      BY <1>1, <2>3, <3>1 DEF MarksUp
    <3>3. f.line1 <= c + 1 /\ f.line2 <= c + 1
      BY <1>1, <1>3, <3>1, <3>2
    <3>4. \A k \in 1 .. c : e.lines[e.curbuf][k].mark = "in" <=> k \in e.line1 .. e.line2
      BY <1>1, <1>2, <3>1
    <3>5. Kind(e, n, m) = "in" <=> e.line1 <= n /\ n < e.line2
      <4>1. CASE e.line1 <= n /\ n < e.line2
        <5>1. n \in 1 .. c /\ n + 1 \in 1 .. c /\ n \in e.line1 .. e.line2 /\ n + 1 \in e.line1 .. e.line2
          BY <1>1, <1>3, <3>1, <4>1
        <5>2. n >= 1 /\ n < Count(e)
          BY <1>1, <1>2, <5>1
        <5> QED
          BY <3>4, <4>1, <5>1, <5>2 DEF Kind, Between
      <4>2. CASE ~ (e.line1 <= n /\ n < e.line2)
        <5>1. n < e.line1 \/ n >= e.line2
          BY <1>1, <4>2
        <5>2. ~ Between(e, n)
          BY <2>1, <3>1, <5>1, NotBetween
        <5> QED
          BY <4>2, <5>2 DEF Kind
      <4> QED
        BY <4>1, <4>2
    <3>6. ASSUME NEW i \in 1 .. c + 1
          PROVE  f.lines[e.curbuf][i].mark = "in" <=> i \in f.line1 .. f.line2
      <4>1. CASE i <= n
        <5>1. i \in 1 .. n /\ i \in 1 .. c
          BY <1>3, <4>1
        <5>2. i \in e.line1 .. e.line2 <=> i \in f.line1 .. f.line2
          BY <1>1, <3>1, <3>2, <4>1
        <5> QED
          BY <1>5, <3>4, <5>1, <5>2
      <4>2. CASE i = n + 1
        <5>1. i \in f.line1 .. f.line2 <=> e.line1 <= n /\ n < e.line2
          BY <1>1, <3>1, <3>2, <4>2
        <5> QED
          BY <1>5, <3>5, <4>2, <5>1
      <4>3. CASE i > n + 1
        <5>1. i \in n + 2 .. c + 1 /\ i - 1 \in 1 .. c
          BY <1>1, <1>3, <4>3
        <5>2. i - 1 \in e.line1 .. e.line2 <=> i \in f.line1 .. f.line2
          BY <1>1, <3>1, <3>2, <4>3
        <5> QED
          BY <1>5, <3>4, <5>1, <5>2
      <4> QED
        BY <1>1, <4>1, <4>2, <4>3
    <3>7. ASSUME NEW b \in Bufs, NEW i \in 1 .. Len(f.lines[b])
          PROVE  f.lines[b][i].mark = "in" <=> b = f.frombuf /\ i \in f.line1 .. f.line2
      <4>1. CASE b # e.curbuf
        BY <1>4, <2>1, <3>1, <3>7, <4>1
      <4>2. CASE b = e.curbuf
        BY <1>3, <2>1, <3>1, <3>6, <4>2
      <4> QED
        BY <4>1, <4>2
    <3> QED
      BY <1>3, <2>1, <3>1, <3>3, <3>7
  <2> QED
    BY <2>2, <2>3
<1> QED
  BY <1>7, <1>8 DEF Followed

LEMMA GrownLoose ==
  ASSUME NEW e, Loose(e), NEW n \in 0 .. Count(e), NEW s \in Seq(Chars), NEW m \in {"no", "new"}
  PROVE  /\ Loose(Grown(e, n, s, m)) /\ LineMore(e, Grown(e, n, s, m), n, s, m)
         /\ MarksUp(e, Grown(e, n, s, m), n)
<1>1. Shaped(e) /\ Ordered(e) /\ Followed(e)
  BY DEF Loose
<1>2. LineMore(e, Grown(e, n, s, m), n, s, m) /\ MarksUp(e, Grown(e, n, s, m), n)
  BY <1>1, GrownIs
<1>3. Ordered(Grown(e, n, s, m)) /\ Followed(Grown(e, n, s, m))
  BY <1>1, <1>2, GrownMarks
<1>4. \A b \in Bufs \ {Grown(e, n, s, m).curbuf} : OnText(Grown(e, n, s, m), b)
  BY <1>2 DEF Loose, LineMore, LinesUp, OnText
<1> QED
  BY <1>2, <1>3, <1>4 DEF Loose, LineMore, LinesUp

\* A line put in, with the cursor at its start, or a heap that is full.
Added(e, f, n, s, m) ==
  /\ Sound(f) /\ f.curbuf = e.curbuf /\ ~ f.bfull
  /\ LinesUp(e, f, n, s, m) /\ MarksUp(e, f, n)
  /\ Here(f).line = n + 1 /\ Here(f).pos = 1
  /\ \A b \in Bufs : b # e.curbuf => f.at[b] = e.at[b]
OnlyFull(e, f) == Sound(f) /\ Alike(e, f) /\ f.lines = e.lines /\ f.at = e.at /\ f.bfull

LEMMA FullIs ==
  ASSUME NEW e, Sound(e) PROVE OnlyFull(e, [e EXCEPT !.bfull = TRUE])
<1>1. PICK v \in BOOLEAN : v = TRUE
  OBVIOUS
<1>2. PICK f : f = [e EXCEPT !.bfull = v]
  OBVIOUS
<1>3. Sound(f) /\ Alike(e, f) /\ f.lines = e.lines /\ f.at = e.at /\ f.bfull = v
  BY <1>2, FullNoted
<1> QED
  BY <1>1, <1>2, <1>3 DEF OnlyFull

LEMMA AddedIs ==
  ASSUME NEW e, Sound(e), NEW n \in 0 .. Count(e), NEW s \in Seq(Chars), NEW m \in {"no", "new"}
  PROVE  Added(e, Modified(Move(Grown(e, n, s, m), n + 1, 1)), n, s, m)
<1> DEFINE g == Grown(e, n, s, m)
           h == Move(g, n + 1, 1)
           f == Modified(h)
<1>1. Loose(e) /\ e.curbuf \in Bufs /\ Count(e) \in Nat \ {0} /\ Shaped(e)
  BY SoundHere
<1>2. Loose(g) /\ LineMore(e, g, n, s, m) /\ MarksUp(e, g, n)
  BY <1>1, GrownLoose
<1> HIDE DEF g
<1>3. n + 1 \in 1 .. Count(g) /\ 1 \in 1 .. Len(TextAt(g, n + 1)) + 1
  <2>1. Count(g) = Count(e) + 1 /\ n + 1 \in 1 .. Count(g)
    BY <1>1, <1>2 DEF LineMore, LinesUp, Count
  <2>2. TextAt(g, n + 1) \in Seq(Chars)
    BY <1>2, <2>1, TextIs DEF Loose
  <2> QED
    BY <2>1, <2>2
<1>4. Travels(g, h) /\ Here(h).line = n + 1 /\ Here(h).pos = 1
  BY <1>2, <1>3, MoveTravels
<1> HIDE DEF h
<1>5. Sound(h)
  BY <1>4 DEF Travels
<1>6. Travels(h, f) /\ f.at = h.at
  BY <1>5, ModifiedTravels
<1> HIDE DEF f
<1>7. Travels(g, f)
  BY <1>4, <1>6, AlikeTwice
<1>8. Here(f) = Here(h)
  BY <1>6 DEF Here, Travels, Alike
<1>9. f.lines = g.lines /\ f.curbuf = g.curbuf /\ g.curbuf = e.curbuf
  BY <1>2, <1>7 DEF Travels, Alike, LineMore
<1>10. LinesUp(e, f, n, s, m)
  BY <1>2, <1>9 DEF LineMore, LinesUp
<1>11. MarksUp(e, f, n)
  BY <1>2, <1>7, <1>9 DEF MarksUp, Travels, Alike, SameMarks
<1>12. ~ f.bfull /\ \A b \in Bufs : b # e.curbuf => f.at[b] = e.at[b]
  BY <1>2, <1>7, <1>9 DEF Travels, LineMore
<1>13. Sound(f)
  BY <1>7 DEF Travels
<1> QED
  BY <1>4, <1>8, <1>9, <1>10, <1>11, <1>12, <1>13 DEF Added, f, h, g

LEMMA BlappIs ==
  ASSUME NEW e, Sound(e), NEW s \in Seq(Chars), NEW m \in {"no", "new"}
  PROVE  /\ Full(e) => OnlyFull(e, Blapp(e, s, m))
         /\ ~ Full(e) => Added(e, Blapp(e, s, m), Here(e).line, s, m)
<1>1. Here(e).line \in 0 .. Count(e)
  BY SoundHere
<1>2. Full(e) => Blapp(e, s, m) = [e EXCEPT !.bfull = TRUE]
  BY DEF Blapp
<1>3. ~ Full(e) => Blapp(e, s, m) = Modified(Move(Grown(e, Here(e).line, s, m), Here(e).line + 1, 1))
  BY DEF Blapp, Grown
<1> QED
  BY <1>1, <1>2, <1>3, FullIs, AddedIs

LEMMA BlinsIs ==
  ASSUME NEW e, Sound(e), NEW s \in Seq(Chars)
  PROVE  /\ Full(e) => OnlyFull(e, Blins(e, s))
         /\ ~ Full(e) => Added(e, Blins(e, s), Here(e).line - 1, s, "no")
<1>1. Here(e).line - 1 \in 0 .. Count(e) /\ (Here(e).line - 1) + 1 = Here(e).line
  BY SoundHere
<1>2. Full(e) => Blins(e, s) = [e EXCEPT !.bfull = TRUE]
  BY DEF Blins
<1>3. ~ Full(e) => Blins(e, s) = Modified(Move(Grown(e, Here(e).line - 1, s, "no"), Here(e).line, 1))
  BY DEF Blins, Grown
<1>4. ~ Full(e) => Added(e, Modified(Move(Grown(e, Here(e).line - 1, s, "no"), (Here(e).line - 1) + 1, 1)),
                         Here(e).line - 1, s, "no")
  BY <1>1, AddedIs
<1> QED
  BY <1>1, <1>2, <1>3, <1>4, FullIs


----------------------------------------------------------------------------
(* A line less.                                                             *)

Shrunk(e) ==
  IF Count(e) = 1
  THEN [e EXCEPT !.lines[e.curbuf] = << [@[1] EXCEPT !.text = <<>>, !.mark = "no"] >>]
  ELSE [e EXCEPT !.lines[e.curbuf] = RemoveAt(@, Here(e).line)]

\* The lines of f are those of e without line n; the only line becomes empty.
LinesDown(e, f, n) ==
  /\ \A b \in Bufs : b # e.curbuf => f.lines[b] = e.lines[b]
  /\ Count(e) = 1 => /\ Len(f.lines[e.curbuf]) = 1
                     /\ f.lines[e.curbuf][1].text = <<>> /\ f.lines[e.curbuf][1].mark = "no"
  /\ Count(e) # 1 => /\ Len(f.lines[e.curbuf]) = Len(e.lines[e.curbuf]) - 1
                     /\ \A k \in 1 .. n - 1 : f.lines[e.curbuf][k] = e.lines[e.curbuf][k]
                     /\ \A k \in n .. Len(e.lines[e.curbuf]) - 1 :
                          f.lines[e.curbuf][k] = e.lines[e.curbuf][k + 1]

LineLess(e, f, n) ==
  /\ Shaped(f) /\ f.curbuf = e.curbuf /\ f.at = e.at /\ f.bfull = e.bfull /\ SameMarks(e, f)
  /\ LinesDown(e, f, n)

LEMMA ShrunkIs ==
  ASSUME NEW e, Shaped(e), Here(e).line \in 1 .. Count(e)
  PROVE  LineLess(e, Shrunk(e), Here(e).line)
<1>1. e \in Editor /\ e.curbuf \in Bufs /\ e.lines[e.curbuf] \in Seq(Lines)
      /\ Count(e) \in Nat \ {0} /\ Count(e) = Len(e.lines[e.curbuf])
  BY DEF Shaped, Editor, Count
<1>2. PICK t \in Seq(Lines) : t = e.lines[e.curbuf]
  BY <1>1
<1>3. PICK n : n = Here(e).line
  OBVIOUS
<1>4. n \in 1 .. Len(t) /\ Len(t) = Count(e)
  BY <1>1, <1>2, <1>3
<1>5. CASE Count(e) = 1
  <2>1. PICK x : x = [t[1] EXCEPT !.text = <<>>, !.mark = "no"]
    OBVIOUS
  <2>2. t[1] \in Lines
    <3>1. 1 \in 1 .. Len(t)
      BY <1>4, <1>5
    <3> QED
      BY <1>2, <3>1
  <2>3. x \in Lines /\ x.text = <<>> /\ x.mark = "no"
    <3>1. <<>> \in Seq(Chars)
      OBVIOUS
    <3> QED
      BY <2>1, <2>2, <3>1 DEF Lines
  <2>4. PICK u : u = <<x>>
    OBVIOUS
  <2>5. u \in Seq(Lines) /\ Len(u) = 1 /\ u[1] = x
    BY <2>3, <2>4
  <2>6. Shrunk(e) = Put(e, u)
    BY <1>2, <1>5, <2>1, <2>4 DEF Shrunk, Put
  <2>7. Len(u) >= 1 /\ u \in Seq(Lines)
    BY <2>5
  <2>8. /\ Shaped(Put(e, u)) /\ Put(e, u).curbuf = e.curbuf
        /\ Put(e, u).lines[e.curbuf] = u
        /\ \A b \in Bufs : b # e.curbuf => Put(e, u).lines[b] = e.lines[b]
        /\ SameMarks(e, Put(e, u)) /\ Put(e, u).at = e.at /\ Put(e, u).bfull = e.bfull
    BY <2>7, LinesPut
  <2> QED
    BY <1>3, <1>5, <2>3, <2>5, <2>6, <2>8 DEF LineLess, LinesDown
<1>6. CASE Count(e) # 1
  <2>1. PICK u : u = RemoveAt(t, n)
    OBVIOUS
  <2>2. /\ u \in Seq(Lines) /\ Len(u) = Len(t) - 1
        /\ \A k \in 1 .. Len(t) - 1 : u[k] = IF k < n THEN t[k] ELSE t[k + 1]
    BY <1>4, <2>1, Removed
  <2>3. Shrunk(e) = Put(e, u)
    BY <1>2, <1>3, <1>6, <2>1 DEF Shrunk, Put
  <2>4. Len(u) >= 1 /\ u \in Seq(Lines)
    <3>1. Len(t) \in Nat /\ Len(t) # 0 /\ Len(t) # 1
      BY <1>1, <1>4, <1>6
    <3>2. Len(u) = Len(t) - 1
      BY <2>2
    <3> QED
      BY <2>2, <3>1, <3>2
  <2>5. /\ Shaped(Put(e, u)) /\ Put(e, u).curbuf = e.curbuf
        /\ Put(e, u).lines[e.curbuf] = u
        /\ \A b \in Bufs : b # e.curbuf => Put(e, u).lines[b] = e.lines[b]
        /\ SameMarks(e, Put(e, u)) /\ Put(e, u).at = e.at /\ Put(e, u).bfull = e.bfull
    BY <2>4, LinesPut
  <2>6. /\ \A k \in 1 .. n - 1 : u[k] = t[k]
        /\ \A k \in n .. Len(t) - 1 : u[k] = t[k + 1]
    BY <1>4, <2>2
  <2> QED
    BY <1>2, <1>3, <1>6, <2>2, <2>3, <2>5, <2>6 DEF LineLess, LinesDown
<1> QED
  BY <1>5, <1>6

\* A line is the same but for the user's mark.
Twin(x, y) == y.text = x.text /\ (y.mark = "new" <=> x.mark = "new")
Twins(e, f) == \A b \in Bufs : /\ Len(f.lines[b]) = Len(e.lines[b])
                               /\ \A i \in 1 .. Len(e.lines[b]) : Twin(e.lines[b][i], f.lines[b][i])

Less1(g, n) == IF g.line1 # 0 /\ n < g.line1 THEN g.line1 - 1 ELSE g.line1
Less2(g, n) == IF g.line2 # 0 /\ n <= g.line2 THEN g.line2 - 1 ELSE g.line2

MarksDown(g, f, n) ==
  \/ ~ Tracked(g) /\ f.lines = g.lines /\ f.frombuf = g.frombuf /\ f.ismarked = g.ismarked
     /\ f.line1 = g.line1 /\ f.line2 = g.line2
     /\ (f.exact => g.exact /\ ~ (g.line1 # 0 /\ ~ g.ismarked /\ g.frombuf = g.curbuf))
  \/ Tracked(g) /\ f.lines = g.lines /\ f.frombuf = g.frombuf /\ f.ismarked
     /\ (f.exact => g.exact)
     /\ f.line1 = Less1(g, n) /\ f.line2 = Less2(g, n)
     /\ ~ (Less2(g, n) # g.line2 /\ Less2(g, n) < Less1(g, n))
  \/ Ordered(f) /\ Followed(f)

LEMMA DelFixIs ==
  ASSUME NEW g, Shaped(g), NEW n \in Nat \ {0}
  PROVE  /\ Shaped(DelFix(g, n)) /\ DelFix(g, n).at = g.at /\ DelFix(g, n).curbuf = g.curbuf
         /\ DelFix(g, n).bfull = g.bfull /\ Twins(g, DelFix(g, n)) /\ MarksDown(g, DelFix(g, n), n)
<1>1. g.line1 \in Nat /\ g.line2 \in Nat
  BY DEF Shaped, Editor
<1>2. CASE ~ Tracked(g)
  <2>1. DelFix(g, n) = Unfollowed(g)
    BY <1>2 DEF DelFix, Tracked
  <2>2. /\ Shaped(Unfollowed(g)) /\ Unfollowed(g).lines = g.lines /\ Unfollowed(g).at = g.at
        /\ Unfollowed(g).curbuf = g.curbuf /\ Unfollowed(g).bfull = g.bfull
        /\ Unfollowed(g).frombuf = g.frombuf /\ Unfollowed(g).line1 = g.line1
        /\ Unfollowed(g).line2 = g.line2 /\ Unfollowed(g).ismarked = g.ismarked
        /\ Unfollowed(g).exact =>
             g.exact /\ ~ (g.line1 # 0 /\ ~ g.ismarked /\ g.frombuf = g.curbuf)
    BY UnfollowedIs
  <2>3. Twins(g, Unfollowed(g))
    BY <2>2 DEF Twins, Twin
  <2> QED
    BY <1>2, <2>1, <2>2, <2>3 DEF MarksDown
<1>3. CASE Tracked(g)
  <2>1. PICK l1 \in Nat : l1 = Less1(g, n)
    BY <1>1 DEF Less1
  <2>2. PICK l2 \in Nat : l2 = Less2(g, n)
    BY <1>1 DEF Less2
  <2> DEFINE f == SetMarks(g, l1, l2)
  <2>3. DelFix(g, n) = IF l2 # g.line2 /\ l2 < l1 THEN ClearMarks(f) ELSE f
    BY <1>3, <2>1, <2>2 DEF DelFix, SetMarks, Tracked, Less1, Less2
  <2>4. /\ Shaped(f) /\ f.lines = g.lines /\ f.at = g.at /\ f.curbuf = g.curbuf
        /\ f.bfull = g.bfull /\ f.frombuf = g.frombuf
        /\ f.line1 = l1 /\ f.line2 = l2 /\ f.ismarked = g.ismarked /\ f.exact = g.exact
    BY MarksSet
  <2> HIDE DEF f
  <2>5. Twins(g, f)
    BY <2>4 DEF Twins, Twin
  <2>6. g.ismarked /\ f.frombuf = f.curbuf
    BY <1>3, <2>4 DEF Tracked
  <2>7. CASE l2 # g.line2 /\ l2 < l1
    <3>1. /\ Shaped(ClearMarks(f)) /\ Ordered(ClearMarks(f)) /\ Followed(ClearMarks(f))
          /\ SameTexts(f, ClearMarks(f)) /\ ClearMarks(f).at = f.at
          /\ ClearMarks(f).curbuf = f.curbuf /\ ClearMarks(f).bfull = f.bfull
          /\ \A b \in Bufs : \A i \in 1 .. Len(f.lines[b]) :
               ClearMarks(f).lines[b][i].mark =
                 IF f.lines[b][i].mark = "in" THEN "no" ELSE f.lines[b][i].mark
      BY <2>4, <2>6, Cleared
    <3>2. Twins(g, ClearMarks(f))
      BY <2>4, <3>1 DEF Twins, Twin, SameTexts
    <3> QED
      BY <2>3, <2>4, <2>7, <3>1, <3>2 DEF MarksDown
  <2>8. CASE ~ (l2 # g.line2 /\ l2 < l1)
    <3>1. DelFix(g, n) = f
      BY <2>3, <2>8
    <3> QED
      BY <1>3, <2>1, <2>2, <2>4, <2>5, <2>6, <2>8, <3>1 DEF MarksDown
  <2> QED
    BY <2>7, <2>8
<1> QED
  BY <1>2, <1>3


\* Wherever the line was, the marks are where they were.
LEMMA ShrunkMarks ==
  ASSUME NEW e, NEW g, NEW f, Shaped(e), NEW n \in 1 .. Count(e), Ordered(e), Followed(e),
         LinesDown(e, g, n), SameMarks(e, g), g.curbuf = e.curbuf, MarksDown(g, f, n)
  PROVE  Ordered(f) /\ Followed(f)
<1>1. /\ e.curbuf \in Bufs /\ Count(e) = Len(e.lines[e.curbuf]) /\ Count(e) \in Nat /\ n \in Nat
      /\ e.line1 \in Nat /\ e.line2 \in Nat
  BY DEF Shaped, Editor, Count
<1>2. PICK c \in Nat : c = Len(e.lines[e.curbuf])
  BY <1>1
<1>3. n \in 1 .. c /\ Count(e) = c
  BY <1>1, <1>2
<1>4. \A b \in Bufs : b # e.curbuf => g.lines[b] = e.lines[b]
  BY DEF LinesDown
<1>5. /\ g.frombuf = e.frombuf /\ g.line1 = e.line1 /\ g.line2 = e.line2
      /\ g.ismarked = e.ismarked /\ g.exact = e.exact /\ (Tracked(g) <=> Tracked(e))
  BY DEF SameMarks, Tracked
\* The marks of the lines of this buffer.
<1>6. PICK d \in Nat : d = Len(g.lines[e.curbuf])
  <2>1. CASE c = 1
    <3>1. Len(g.lines[e.curbuf]) = 1
      BY <1>3, <2>1 DEF LinesDown
    <3> QED
      BY <3>1
  <2>2. CASE c # 1
    <3>1. Len(g.lines[e.curbuf]) = c - 1
      BY <1>2, <1>3, <2>2 DEF LinesDown
    <3>2. c - 1 \in Nat
      BY <1>3
    <3> QED
      BY <3>1, <3>2
  <2> QED
    BY <2>1, <2>2
<1>7. /\ c = 1 => d = 1 /\ g.lines[e.curbuf][1].mark = "no"
      /\ c # 1 => /\ d = c - 1
                  /\ \A k \in 1 .. n - 1 : g.lines[e.curbuf][k].mark = e.lines[e.curbuf][k].mark
                  /\ \A k \in n .. c - 1 : g.lines[e.curbuf][k].mark = e.lines[e.curbuf][k + 1].mark
  BY <1>2, <1>3, <1>6 DEF LinesDown
<1>8. ASSUME \A k \in 1 .. c : e.lines[e.curbuf][k].mark # "in"
      PROVE  \A k \in 1 .. d : g.lines[e.curbuf][k].mark # "in"
  <2> SUFFICES ASSUME NEW k \in 1 .. d PROVE g.lines[e.curbuf][k].mark # "in"
    OBVIOUS
  <2>1. CASE c = 1
    <3>1. k = 1
      BY <1>7, <2>1
    <3> QED
      BY <1>7, <2>1, <3>1
  <2>2. CASE c # 1 /\ k < n
    <3>1. k \in 1 .. n - 1 /\ k \in 1 .. c
      BY <1>3, <2>2
    <3> QED
      BY <1>7, <1>8, <2>2, <3>1
  <2>3. CASE c # 1 /\ k >= n
    <3>1. k \in n .. c - 1 /\ k + 1 \in 1 .. c
      BY <1>3, <1>7, <2>3
    <3> QED
      BY <1>7, <1>8, <2>3, <3>1
  <2> QED
    BY <1>1, <2>1, <2>2, <2>3
<1>9. NoneIn(e) => NoneIn(g)
  BY <1>2, <1>4, <1>6, <1>8, <1>1 DEF NoneIn
<1>10. CASE /\ ~ Tracked(g) /\ f.lines = g.lines /\ f.frombuf = g.frombuf /\ f.ismarked = g.ismarked
            /\ f.line1 = g.line1 /\ f.line2 = g.line2
            /\ (f.exact => g.exact /\ ~ (g.line1 # 0 /\ ~ g.ismarked /\ g.frombuf = g.curbuf))
  <2>1. Ordered(f)
    BY <1>5, <1>9, <1>10 DEF Ordered, NoneIn
  <2>2. ASSUME f.exact
        PROVE  /\ f.line1 # 0 => f.line1 <= Len(f.lines[f.frombuf])
               /\ f.ismarked => f.line2 <= Len(f.lines[f.frombuf])
               /\ f.ismarked => \A b \in Bufs : \A i \in 1 .. Len(f.lines[b]) :
                    f.lines[b][i].mark = "in" <=> b = f.frombuf /\ i \in f.line1 .. f.line2
    <3>1. e.exact /\ ~ (e.line1 # 0 /\ ~ e.ismarked /\ e.frombuf = e.curbuf)
      BY <1>5, <1>10, <2>2
    <3>2. e.line1 # 0 => e.frombuf # e.curbuf /\ e.frombuf \in Bufs
      BY <1>5, <1>10, <3>1 DEF Tracked, Ordered, Bufs
    <3>3. e.ismarked => e.frombuf # e.curbuf /\ e.frombuf \in Bufs
      BY <1>5, <1>10, <3>1 DEF Tracked, Ordered, Bufs
    <3>4. f.line1 # 0 => f.line1 <= Len(f.lines[f.frombuf])
      BY <1>4, <1>5, <1>10, <3>1, <3>2 DEF Followed
    <3>5. f.ismarked => f.line2 <= Len(f.lines[f.frombuf])
      BY <1>4, <1>5, <1>10, <3>1, <3>3 DEF Followed
    <3>6. ASSUME f.ismarked, NEW b \in Bufs, NEW i \in 1 .. Len(f.lines[b])
          PROVE  f.lines[b][i].mark = "in" <=> b = f.frombuf /\ i \in f.line1 .. f.line2
      <4>1. CASE b # e.curbuf
        BY <1>4, <1>5, <1>10, <3>1, <3>6, <4>1 DEF Followed
      <4>2. CASE b = e.curbuf
        <5>1. \A k \in 1 .. c : e.lines[e.curbuf][k].mark # "in"
          BY <1>1, <1>2, <1>5, <1>10, <3>1, <3>3, <3>6 DEF Followed
        <5> QED
          BY <1>5, <1>6, <1>8, <1>10, <3>3, <3>6, <4>2, <5>1
      <4> QED
        BY <4>1, <4>2
    <3> QED
      BY <3>4, <3>5, <3>6
  <2> QED
    BY <2>1, <2>2 DEF Followed
<1>11. CASE /\ Tracked(g) /\ f.lines = g.lines /\ f.frombuf = g.frombuf /\ f.ismarked
            /\ (f.exact => g.exact)
            /\ f.line1 = Less1(g, n) /\ f.line2 = Less2(g, n)
            /\ ~ (Less2(g, n) # g.line2 /\ Less2(g, n) < Less1(g, n))
  <2>1. /\ e.ismarked /\ e.frombuf = e.curbuf /\ 1 <= e.line1 /\ e.line1 <= e.line2
        /\ e.frombuf \in Texts
    BY <1>5, <1>11 DEF Tracked, Ordered
  <2>2. /\ f.line1 = IF n < e.line1 THEN e.line1 - 1 ELSE e.line1
        /\ f.line2 = IF n <= e.line2 THEN e.line2 - 1 ELSE e.line2
        /\ ~ (f.line2 # e.line2 /\ f.line2 < f.line1)
    BY <1>1, <1>5, <1>11, <2>1 DEF Less1, Less2
  <2>3. 1 <= f.line1 /\ f.line1 <= f.line2 /\ f.line1 \in Nat /\ f.line2 \in Nat
    BY <1>1, <2>1, <2>2
  <2>4. Ordered(f)
    BY <1>5, <1>11, <2>1, <2>3 DEF Ordered
  <2>5. ASSUME f.exact
        PROVE  /\ f.line1 # 0 => f.line1 <= Len(f.lines[f.frombuf])
               /\ f.ismarked => f.line2 <= Len(f.lines[f.frombuf])
               /\ f.ismarked => \A b \in Bufs : \A i \in 1 .. Len(f.lines[b]) :
                    f.lines[b][i].mark = "in" <=> b = f.frombuf /\ i \in f.line1 .. f.line2
    <3>1. /\ e.line2 <= c
          /\ \A b \in Bufs : \A i \in 1 .. Len(e.lines[b]) :
               e.lines[b][i].mark = "in" <=> b = e.frombuf /\ i \in e.line1 .. e.line2
      BY <1>2, <1>5, <1>11, <2>1, <2>5 DEF Followed
    <3>2. c # 1
      <4> SUFFICES ASSUME c = 1 PROVE FALSE
        OBVIOUS
      <4>1. n = 1 /\ e.line1 = 1 /\ e.line2 = 1
        BY <1>1, <1>3, <2>1, <3>1
      <4> QED
        BY <2>2, <4>1
    <3>3. d = c - 1 /\ f.line2 <= d /\ f.line1 <= d
      BY <1>1, <1>3, <1>7, <2>1, <2>2, <2>3, <3>1, <3>2
    <3>4. \A k \in 1 .. c : e.lines[e.curbuf][k].mark = "in" <=> k \in e.line1 .. e.line2
      BY <1>1, <1>2, <2>1, <3>1
    <3>5. ASSUME NEW i \in 1 .. d
          PROVE  g.lines[e.curbuf][i].mark = "in" <=> i \in f.line1 .. f.line2
      <4>1. CASE i < n
        <5>1. i \in 1 .. n - 1 /\ i \in 1 .. c
          BY <1>3, <4>1
        <5>2. i \in e.line1 .. e.line2 <=> i \in f.line1 .. f.line2
          BY <1>1, <2>1, <2>2, <2>3, <4>1
        <5> QED
          BY <1>7, <3>2, <3>4, <5>1, <5>2
      <4>2. CASE i >= n
        <5>1. i \in n .. c - 1 /\ i + 1 \in 1 .. c
          BY <1>3, <3>3, <4>2
        <5>2. i + 1 \in e.line1 .. e.line2 <=> i \in f.line1 .. f.line2
          BY <1>1, <2>1, <2>2, <2>3, <4>2
        <5> QED
          BY <1>7, <3>2, <3>4, <5>1, <5>2
      <4> QED
        BY <1>1, <4>1, <4>2
    <3>6. ASSUME NEW b \in Bufs, NEW i \in 1 .. Len(f.lines[b])
          PROVE  f.lines[b][i].mark = "in" <=> b = f.frombuf /\ i \in f.line1 .. f.line2
      <4>1. CASE b # e.curbuf
        BY <1>4, <1>5, <1>11, <2>1, <3>1, <3>6, <4>1
      <4>2. CASE b = e.curbuf
        BY <1>5, <1>6, <1>11, <2>1, <3>5, <4>2
      <4> QED
        BY <4>1, <4>2
    <3> QED
      BY <1>5, <1>6, <1>11, <2>1, <3>3, <3>6
  <2> QED
    BY <2>4, <2>5 DEF Followed
<1> QED
  BY <1>10, <1>11 DEF MarksDown


\* A line taken away, with the cursor where it was: what other lines say is so.
Dropped(e, f, n) ==
  /\ Sound(f) /\ f.curbuf = e.curbuf /\ f.bfull = e.bfull
  /\ \A b \in Bufs : b # e.curbuf =>
       /\ f.at[b] = e.at[b] /\ Len(f.lines[b]) = Len(e.lines[b])
       /\ \A i \in 1 .. Len(e.lines[b]) : Twin(e.lines[b][i], f.lines[b][i])
  /\ Count(e) = 1 => /\ Len(f.lines[e.curbuf]) = 1
                     /\ f.lines[e.curbuf][1].text = <<>> /\ f.lines[e.curbuf][1].mark # "new"
  /\ Count(e) # 1 => /\ Len(f.lines[e.curbuf]) = Len(e.lines[e.curbuf]) - 1
                     /\ \A k \in 1 .. n - 1 : Twin(e.lines[e.curbuf][k], f.lines[e.curbuf][k])
                     /\ \A k \in n .. Len(e.lines[e.curbuf]) - 1 :
                          Twin(e.lines[e.curbuf][k + 1], f.lines[e.curbuf][k])
  /\ Here(f).line = Clamp(f, n) /\ Here(f).pos = 1

LEMMA DropLineIs ==
  ASSUME NEW e, Sound(e), ~ (Count(e) = 1 /\ Text(e) = <<>>)
  PROVE  Dropped(e, DropLine(e), Here(e).line)
<1> DEFINE n == Here(e).line
           g == Shrunk(e)
           h == Move(g, Clamp(g, n), 1)
           d == DelFix(h, n)
           f == Modified(d)
<1>1. Loose(e) /\ e.curbuf \in Bufs /\ Count(e) \in Nat \ {0} /\ Shaped(e) /\ n \in 1 .. Count(e)
      /\ n \in Nat \ {0}
  BY SoundHere
<1>2. LineLess(e, g, n)
  BY <1>1, ShrunkIs
<1>3. DropLine(e) = f
  BY DEF DropLine, Shrunk
<1> HIDE DEF g
<1>4. Shaped(g) /\ g.curbuf = e.curbuf /\ g.at = e.at
      /\ \A b \in Bufs \ {g.curbuf} : OnText(g, b)
  BY <1>1, <1>2 DEF LineLess, LinesDown, Loose, OnText
<1>5. Clamp(g, n) \in 1 .. Count(g) /\ 1 \in 1 .. Len(TextAt(g, Clamp(g, n))) + 1
  <2>1. Clamp(g, n) \in 1 .. Count(g)
    BY <1>1, <1>4, ClampIs
  <2> QED
    BY <1>4, <2>1, TextIs
<1>6. /\ Shaped(h) /\ Alike(g, h) /\ \A b \in Bufs : OnText(h, b)
      /\ h.lines = g.lines /\ h.bfull = g.bfull
      /\ Here(h).line = Clamp(g, n) /\ Here(h).pos = 1
      /\ \A b \in Bufs : b # g.curbuf => h.at[b] = g.at[b]
  BY <1>4, <1>5, Placed
<1> HIDE DEF h
<1>7. /\ Shaped(d) /\ d.at = h.at /\ d.curbuf = h.curbuf
      /\ d.bfull = h.bfull /\ Twins(h, d) /\ MarksDown(h, d, n)
  BY <1>1, <1>6, DelFixIs
<1> HIDE DEF d
<1>8. Ordered(d) /\ Followed(d)
  <2>1. LinesDown(e, h, n) /\ SameMarks(e, h) /\ h.curbuf = e.curbuf
    BY <1>2, <1>6 DEF LineLess, LinesDown, Alike, SameMarks
  <2>2. Ordered(e) /\ Followed(e)
    BY <1>1 DEF Loose
  <2> QED
    BY <1>1, <1>7, <2>1, <2>2, ShrunkMarks
<1>9. \A b \in Bufs : OnText(d, b)
  <2>1. SameTexts(h, d)
    BY <1>7 DEF Twins, Twin, SameTexts
  <2> QED
    BY <1>6, <1>7, <2>1, SameTextsOn
<1>10. Sound(d)
  <2>1. d.curbuf \in Bufs
    BY <1>7 DEF Shaped, Editor
  <2> QED
    BY <1>7, <1>8, <1>9, <2>1 DEF Sound, Loose
<1>11. Travels(d, f) /\ f.at = d.at
  BY <1>10, ModifiedTravels
<1> HIDE DEF f
<1>12. /\ Sound(f) /\ f.lines = d.lines /\ f.curbuf = e.curbuf /\ f.bfull = e.bfull
       /\ f.at = h.at /\ h.curbuf = e.curbuf
  BY <1>2, <1>6, <1>7, <1>11 DEF Travels, Alike, LineLess
<1>13. Here(f).line = Clamp(g, n) /\ Here(f).pos = 1
  BY <1>6, <1>12 DEF Here
<1>14. Count(f) = Count(g)
  BY <1>1, <1>4, <1>6, <1>7, <1>12 DEF Count, Twins
<1>15. Clamp(f, n) = Clamp(g, n)
  BY <1>14 DEF Clamp
<1>16. ASSUME NEW b \in Bufs, b # e.curbuf
       PROVE  /\ f.at[b] = e.at[b] /\ Len(f.lines[b]) = Len(e.lines[b])
              /\ \A i \in 1 .. Len(e.lines[b]) : Twin(e.lines[b][i], f.lines[b][i])
  <2>1. f.at[b] = e.at[b]
    BY <1>4, <1>6, <1>12, <1>16
  <2>2. h.lines[b] = e.lines[b]
    BY <1>2, <1>6, <1>16 DEF LineLess, LinesDown
  <2> QED
    BY <1>7, <1>12, <2>1, <2>2 DEF Twins
<1>17. ASSUME Count(e) = 1
       PROVE  /\ Len(f.lines[e.curbuf]) = 1
              /\ f.lines[e.curbuf][1].text = <<>> /\ f.lines[e.curbuf][1].mark # "new"
  <2>1. /\ Len(h.lines[e.curbuf]) = 1
        /\ h.lines[e.curbuf][1].text = <<>> /\ h.lines[e.curbuf][1].mark = "no"
    BY <1>2, <1>6, <1>17 DEF LineLess, LinesDown
  <2>2. 1 \in 1 .. Len(h.lines[e.curbuf])
    BY <2>1
  <2> QED
    BY <1>1, <1>7, <1>12, <2>1, <2>2 DEF Twins, Twin
<1>18. ASSUME Count(e) # 1
       PROVE  /\ Len(f.lines[e.curbuf]) = Len(e.lines[e.curbuf]) - 1
              /\ \A k \in 1 .. n - 1 : Twin(e.lines[e.curbuf][k], f.lines[e.curbuf][k])
              /\ \A k \in n .. Len(e.lines[e.curbuf]) - 1 :
                   Twin(e.lines[e.curbuf][k + 1], f.lines[e.curbuf][k])
  <2>1. PICK c \in Nat : c = Len(e.lines[e.curbuf])
    BY <1>1 DEF Count
  <2>2. /\ Len(h.lines[e.curbuf]) = c - 1
        /\ \A k \in 1 .. n - 1 : h.lines[e.curbuf][k] = e.lines[e.curbuf][k]
        /\ \A k \in n .. c - 1 : h.lines[e.curbuf][k] = e.lines[e.curbuf][k + 1]
    BY <1>2, <1>6, <1>18, <2>1 DEF LineLess, LinesDown
  <2>3. n \in 1 .. c
    BY <1>1, <2>1 DEF Count
  <2>4. /\ Len(f.lines[e.curbuf]) = c - 1
        /\ \A k \in 1 .. c - 1 : Twin(h.lines[e.curbuf][k], f.lines[e.curbuf][k])
    BY <1>1, <1>7, <1>12, <2>2 DEF Twins
  <2>5. ASSUME NEW k \in 1 .. n - 1 PROVE Twin(e.lines[e.curbuf][k], f.lines[e.curbuf][k])
    <3>1. k \in 1 .. c - 1
      BY <2>3
    <3> QED
      BY <2>2, <2>4, <3>1
  <2>6. ASSUME NEW k \in n .. c - 1 PROVE Twin(e.lines[e.curbuf][k + 1], f.lines[e.curbuf][k])
    <3>1. k \in 1 .. c - 1
      BY <2>3
    <3> QED
      BY <2>2, <2>4, <3>1
  <2> QED
    BY <2>1, <2>4, <2>5, <2>6
<1> HIDE DEF n
<1>19. Dropped(e, f, n)
  BY <1>12, <1>13, <1>15, <1>16, <1>17, <1>18 DEF Dropped
<1> QED
  BY <1>3, <1>19 DEF n


----------------------------------------------------------------------------
(* The commands at the cursor.                                              *)

NoNew(e) == \A b \in Bufs : \A i \in 1 .. Len(e.lines[b]) : e.lines[b][i].mark # "new"

\* What every command at the cursor keeps.
Keeps(e, f) == Sound(f) /\ f.curbuf = e.curbuf /\ (NoNew(e) => NoNew(f))

LEMMA KeepsTwice ==
  ASSUME NEW e, NEW f, NEW g, Keeps(e, f), Keeps(f, g) PROVE Keeps(e, g)
  BY DEF Keeps

LEMMA KeepsSelf == ASSUME NEW e, Sound(e) PROVE Keeps(e, e)
  BY DEF Keeps

LEMMA TravelsKeeps == ASSUME NEW e, NEW f, Travels(e, f) PROVE Keeps(e, f)
  BY DEF Keeps, Travels, Alike, NoNew

LEMMA AlikeKeeps == ASSUME NEW e, NEW f, Sound(f), Alike(e, f) PROVE Keeps(e, f)
  BY DEF Keeps, Alike, NoNew, SameLines

LEMMA FullKeeps == ASSUME NEW e, NEW f, OnlyFull(e, f) PROVE Keeps(e, f)
  BY AlikeKeeps DEF OnlyFull

LEMMA AddedKeeps ==
  ASSUME NEW e, NEW f, Shaped(e), NEW n \in 0 .. Count(e), NEW s, Added(e, f, n, s, "no")
  PROVE  Keeps(e, f)
<1>1. e.curbuf \in Bufs
  BY DEF Shaped, Editor
<1>2. PICK c \in Nat : c = Len(e.lines[e.curbuf])
  BY <1>1 DEF Shaped, Editor
<1>3. n \in 0 .. c
  BY <1>2 DEF Count
<1>4. ASSUME NoNew(e), NEW b \in Bufs, NEW i \in 1 .. Len(f.lines[b])
      PROVE  f.lines[b][i].mark # "new"
  <2>1. CASE b # e.curbuf
    BY <1>4, <2>1 DEF NoNew, Added, LinesUp
  <2>2. CASE b = e.curbuf
    <3>1. i \in 1 .. c + 1
      BY <1>2, <1>4, <2>2 DEF Added, LinesUp
    <3>2. CASE i <= n
      <4>1. i \in 1 .. n /\ i \in 1 .. c
        BY <1>3, <3>1, <3>2
      <4> QED
        BY <1>1, <1>2, <1>4, <2>2, <4>1 DEF NoNew, Added, LinesUp
    <3>3. CASE i = n + 1
      BY <2>2, <3>3 DEF Added, LinesUp, Kind
    <3>4. CASE i > n + 1
      <4>1. i - 1 \in n + 1 .. c /\ i - 1 \in 1 .. c /\ (i - 1) + 1 = i
        BY <1>3, <3>1, <3>4
      <4>2. f.lines[e.curbuf][(i - 1) + 1] = e.lines[e.curbuf][i - 1]
        BY <1>2, <4>1 DEF Added, LinesUp
      <4> QED
        BY <1>1, <1>2, <1>4, <2>2, <4>1, <4>2 DEF NoNew
    <3> QED
      BY <1>3, <3>1, <3>2, <3>3, <3>4
  <2> QED
    BY <2>1, <2>2
<1> QED
  BY <1>4 DEF Keeps, Added, NoNew

LEMMA BlappKeeps ==
  ASSUME NEW e, Sound(e), NEW s \in Seq(Chars) PROVE Keeps(e, Blapp(e, s, "no"))
<1>1. Shaped(e) /\ Here(e).line \in 0 .. Count(e)
  BY SoundHere
<1> QED
  BY <1>1, BlappIs, AddedKeeps, FullKeeps

LEMMA BlinsKeeps ==
  ASSUME NEW e, Sound(e), NEW s \in Seq(Chars) PROVE Keeps(e, Blins(e, s))
<1>1. Shaped(e) /\ Here(e).line - 1 \in 0 .. Count(e)
  BY SoundHere
<1> QED
  BY <1>1, BlinsIs, AddedKeeps, FullKeeps

LEMMA DropLineKeeps ==
  ASSUME NEW e, Sound(e) PROVE Keeps(e, DropLine(e))
<1>1. CASE Count(e) = 1 /\ Text(e) = <<>>
  <2>1. DropLine(e) = e
    BY <1>1 DEF DropLine
  <2> QED
    BY <2>1, KeepsSelf
<1>2. CASE ~ (Count(e) = 1 /\ Text(e) = <<>>)
  <2> DEFINE f == DropLine(e)
             n == Here(e).line
  <2>1. Dropped(e, f, n)
    BY <1>2, DropLineIs
  <2>2. n \in 1 .. Count(e) /\ e.curbuf \in Bufs /\ Count(e) \in Nat
    BY SoundHere
  <2> HIDE DEF f, n
  <2>3. PICK c \in Nat : c = Len(e.lines[e.curbuf])
    BY <2>2 DEF Count
  <2>4. ASSUME NoNew(e), NEW b \in Bufs, NEW i \in 1 .. Len(f.lines[b])
        PROVE  f.lines[b][i].mark # "new"
    <3>1. CASE b # e.curbuf
      BY <2>1, <2>4, <3>1 DEF NoNew, Dropped, Twin
    <3>2. CASE b = e.curbuf /\ c = 1
      <4>1. Count(e) = 1
        BY <2>3, <3>2 DEF Count
      <4>2. Len(f.lines[e.curbuf]) = 1 /\ f.lines[e.curbuf][1].mark # "new"
        BY <2>1, <4>1 DEF Dropped
      <4>3. i = 1
        BY <2>4, <3>2, <4>2
      <4> QED
        BY <3>2, <4>2, <4>3
    <3>3. CASE b = e.curbuf /\ c # 1
      <4>1. /\ Len(f.lines[e.curbuf]) = c - 1
            /\ \A k \in 1 .. n - 1 : Twin(e.lines[e.curbuf][k], f.lines[e.curbuf][k])
            /\ \A k \in n .. c - 1 : Twin(e.lines[e.curbuf][k + 1], f.lines[e.curbuf][k])
        BY <2>1, <2>3, <3>3 DEF Dropped, Count
      <4>2. i \in 1 .. c - 1 /\ n \in 1 .. c
        BY <2>2, <2>3, <2>4, <3>3, <4>1 DEF Count
      <4>3. CASE i < n
        <5>1. i \in 1 .. n - 1 /\ i \in 1 .. c
          BY <4>2, <4>3
        <5> QED
          BY <2>2, <2>3, <2>4, <3>3, <4>1, <5>1 DEF NoNew, Twin
      <4>4. CASE i >= n
        <5>1. i \in n .. c - 1 /\ i + 1 \in 1 .. c
          BY <4>2, <4>4
        <5> QED
          BY <2>2, <2>3, <2>4, <3>3, <4>1, <5>1 DEF NoNew, Twin
      <4> QED
        BY <4>2, <4>3, <4>4
    <3> QED
      BY <3>1, <3>2, <3>3
  <2>5. Keeps(e, f)
    BY <2>1, <2>4 DEF Keeps, Dropped, NoNew
  <2> QED
    BY <2>5 DEF f
<1> QED
  BY <1>1, <1>2

Switched(e, b) == [e EXCEPT !.curbuf = b]

LEMMA SwitchedIs ==
  ASSUME NEW e, Sound(e), NEW b \in Bufs
  PROVE  /\ Sound(Switched(e, b)) /\ Switched(e, b).curbuf = b
         /\ Switched(e, b).lines = e.lines /\ Switched(e, b).at = e.at
         /\ SameMarks(e, Switched(e, b)) /\ Switched(e, b).bfull = e.bfull
<1>1. Shaped(e) /\ e \in Editor /\ e.curbuf \in Bufs
  BY DEF Sound, Loose, Shaped, Editor
<1> DEFINE f == Switched(e, b)
<1>2. /\ f.curbuf = b /\ f.lines = e.lines /\ f.at = e.at /\ SameMarks(e, f)
      /\ f.bfull = e.bfull /\ f.mod = e.mod
  BY <1>1 DEF Editor, SameMarks, Switched
<1>3. f \in Editor
  BY <1>1, <1>2 DEF Editor, SameMarks, Switched
<1> HIDE DEF f
<1>4. Shaped(f)
  BY <1>1, <1>2, <1>3 DEF Shaped
<1>5. Ordered(f) /\ Followed(f)
  <2>1. Ordered(e) /\ Followed(e)
    BY DEF Sound, Loose
  <2>2. Ordered(f)
    BY <1>2, <2>1 DEF Ordered, SameMarks
  <2>3. Followed(f)
    BY <1>2, <2>1 DEF Followed, SameMarks
  <2> QED
    BY <2>2, <2>3
<1>6. \A a \in Bufs : OnText(f, a)
  <2>1. \A a \in Bufs : OnText(e, a)
    BY <1>1 DEF Sound, Loose
  <2> QED
    BY <1>2, <2>1 DEF OnText
<1>7. Sound(f)
  BY <1>2, <1>4, <1>5, <1>6 DEF Sound, Loose
<1> QED
  BY <1>2, <1>7 DEF f

LEMMA SwitchKeeps ==
  ASSUME NEW e, Sound(e), NEW b \in Bufs
  PROVE  Sound(Switched(e, b)) /\ (NoNew(e) <=> NoNew(Switched(e, b)))
         /\ Switched(e, b).curbuf = b
  BY SwitchedIs DEF NoNew

\* What is done in another buffer, and back.
LEMMA KeptAcross ==
  ASSUME NEW e, Sound(e), NEW f, Sound(f), NoNew(e) => NoNew(f)
  PROVE  Keeps(e, Switched(f, e.curbuf))
<1>1. e.curbuf \in Bufs
  BY SoundHere
<1> QED
  BY <1>1, SwitchKeeps DEF Keeps

LEMMA SeekLeftKeeps ==
  ASSUME NEW e, Sound(e), NEW n \in Nat \ {0} PROVE Keeps(e, SeekLeft(e, n))
<1>1. Loose(e)
  BY DEF Sound
<1> QED
  BY <1>1, SeekLeftTravels, TravelsKeeps

LEMMA DelPushKeeps ==
  ASSUME NEW e, Sound(e), NEW s \in Seq(Chars) PROVE Keeps(e, DelPush(e, s))
<1> DEFINE d == Switched(e, BD)
           top == SeekLeft(d, 1)
           low == DropLine(top)
           cut == IF Count(d) > MaxUndo THEN SeekLeft(low, Count(d)) ELSE d
           f == Blapp(cut, s, "no")
<1>1. Sound(d) /\ (NoNew(e) <=> NoNew(d)) /\ Count(d) \in Nat \ {0}
  <2>1. BD \in Bufs
    BY DEF Bufs
  <2> QED
    BY <2>1, SwitchKeeps, SoundHere
<1>2. DelPush(e, s) = Switched(f, e.curbuf)
  BY DEF DelPush, Switched
<1> HIDE DEF d
<1>3. Keeps(d, top)
  BY <1>1, SeekLeftKeeps
<1> HIDE DEF top
<1>4. Keeps(top, low)
  BY <1>3, DropLineKeeps DEF Keeps
<1> HIDE DEF low
<1>5. Keeps(low, SeekLeft(low, Count(d)))
  BY <1>1, <1>4, SeekLeftKeeps DEF Keeps
<1>6. Keeps(d, cut)
  BY <1>1, <1>3, <1>4, <1>5, KeepsTwice, KeepsSelf
<1> HIDE DEF cut
<1>7. Keeps(cut, f)
  BY <1>6, BlappKeeps DEF Keeps
<1> HIDE DEF f
<1>8. Sound(f) /\ (NoNew(e) => NoNew(f))
  BY <1>1, <1>6, <1>7 DEF Keeps
<1> QED
  BY <1>2, <1>8, KeptAcross

LEMMA BldelKeeps ==
  ASSUME NEW e, Sound(e), NEW stackok \in BOOLEAN PROVE Keeps(e, Bldel(e, stackok))
<1>1. Text(e) \in Seq(Chars)
  BY SoundHere
<1>2. Keeps(e, DropLine(e)) /\ Keeps(e, e)
  BY DropLineKeeps, KeepsSelf
<1>3. Keeps(e, DropLine(DelPush(e, Text(e))))
  <2>1. Keeps(e, DelPush(e, Text(e)))
    BY <1>1, DelPushKeeps
  <2>2. Sound(DelPush(e, Text(e)))
    BY <2>1 DEF Keeps
  <2> QED
    BY <2>1, <2>2, DropLineKeeps, KeepsTwice
<1> QED
  BY <1>2, <1>3 DEF Bldel

LEMMA BdelpopKeeps ==
  ASSUME NEW e, Sound(e) PROVE Keeps(e, Bdelpop(e))
<1>1. CASE Len(e.lines[BD]) = 1
  <2>1. Bdelpop(e) = e
    BY <1>1 DEF Bdelpop
  <2> QED
    BY <2>1, KeepsSelf
<1>2. CASE Len(e.lines[BD]) # 1
  <2> DEFINE d == Switched(e, BD)
             s == TextAt(d, e.at[BD].line)
             put == Blins(e, s)
             low == DropLine(Switched(put, BD))
  <2>1. BD \in Bufs
    BY DEF Bufs
  <2>2. Bdelpop(e) = Switched(low, e.curbuf)
    BY <1>2 DEF Bdelpop, Switched
  <2>3. s \in Seq(Chars)
    <3>1. Sound(d) /\ d.curbuf = BD /\ d.at = e.at
      BY <2>1, SwitchedIs
    <3> HIDE DEF d
    <3>2. e.at[BD].line = Here(d).line
      BY <3>1 DEF Here
    <3> QED
      BY <3>1, <3>2, SoundHere DEF Text
  <2> HIDE DEF s
  <2>4. Keeps(e, put)
    BY <2>3, BlinsKeeps
  <2> HIDE DEF put
  <2>5. Sound(Switched(put, BD)) /\ (NoNew(put) <=> NoNew(Switched(put, BD)))
    BY <2>1, <2>4, SwitchKeeps DEF Keeps
  <2>6. Keeps(Switched(put, BD), low)
    BY <2>5, DropLineKeeps
  <2> HIDE DEF low
  <2>7. Sound(low) /\ (NoNew(e) => NoNew(low))
    BY <2>4, <2>5, <2>6 DEF Keeps
  <2> QED
    BY <2>2, <2>7, KeptAcross
<1> QED
  BY <1>1, <1>2

----------------------------------------------------------------------------
(* Characters.                                                              *)

\* The column of a position depends on what is before it only.
LEMMA TabColPrefix ==
  ASSUME NEW s \in Seq(Chars), NEW t \in Seq(Chars),
         NEW p \in 1 .. Len(s) + 1, p <= Len(t) + 1, \A i \in 1 .. p - 1 : t[i] = s[i]
  PROVE  TabCol(t, p) = TabCol(s, p)
<1> DEFINE U == {m \in Nat : m + 1 <= p => TabCol(t, m + 1) = TabCol(s, m + 1)}
<1>1. 0 \in U
  BY TabColIs
<1>2. ASSUME NEW m \in Nat, m \in U PROVE m + 1 \in U
  <2> SUFFICES ASSUME (m + 1) + 1 <= p PROVE TabCol(t, (m + 1) + 1) = TabCol(s, (m + 1) + 1)
    OBVIOUS
  <2>1. Len(s) \in Nat /\ Len(t) \in Nat
    OBVIOUS
  <2>2. m + 1 \in 1 .. Len(s) /\ m + 1 \in 1 .. Len(t) /\ m + 1 \in 1 .. p - 1 /\ m + 1 <= p
    BY <2>1
  <2>3. TabCol(t, m + 1) = TabCol(s, m + 1) /\ t[m + 1] = s[m + 1]
    BY <1>2, <2>2
  <2>4. /\ TabCol(s, (m + 1) + 1) = Advance(TabCol(s, m + 1), s[m + 1])
        /\ TabCol(t, (m + 1) + 1) = Advance(TabCol(t, m + 1), t[m + 1])
    BY <2>2, TabColIs
  <2> QED
    BY <2>3, <2>4
<1>3. Nat \subseteq U
  <2> HIDE DEF U
  <2> QED
    BY <1>1, <1>2, Numbers!NumbersReached
<1> PICK m \in Nat : m = p - 1
  OBVIOUS
<1>4. m + 1 = p /\ m + 1 <= p /\ m \in U
  BY <1>3
<1> QED
  BY <1>4

\* A text that is the same up to the cursor.
LEMMA TextBehind ==
  ASSUME NEW e, Sound(e), NEW t \in Seq(Chars), Here(e).pos <= Len(t) + 1,
         \A i \in 1 .. Here(e).pos - 1 : t[i] = Text(e)[i]
  PROVE  Sound(SetText(e, Here(e).line, t)) /\ Alike(e, SetText(e, Here(e).line, t))
         /\ SetText(e, Here(e).line, t).at = e.at
<1> DEFINE n == Here(e).line
           f == SetText(e, n, t)
<1>1. /\ Loose(e) /\ e.curbuf \in Bufs /\ n \in 1 .. Count(e) /\ Text(e) \in Seq(Chars)
      /\ Here(e).pos \in 1 .. Len(Text(e)) + 1
      /\ Here(e).col = TabCol(Text(e), Here(e).pos)
  BY SoundHere
<1>2. /\ Loose(f) /\ Alike(e, f) /\ f.at = e.at
      /\ Len(f.lines[e.curbuf]) = Len(e.lines[e.curbuf])
      /\ f.lines[e.curbuf][n].text = t
  BY <1>1, TextSet
<1> HIDE DEF f
<1>3. f.curbuf = e.curbuf /\ f.at[f.curbuf] = Here(e)
  BY <1>2 DEF Alike, Here
<1>4. Here(e).col = TabCol(t, Here(e).pos)
  BY <1>1, TabColPrefix
<1>5. Here(e).pos \in 1 .. Len(t) + 1
  BY <1>1
<1>6. n \in 1 .. Len(f.lines[f.curbuf])
  BY <1>1, <1>2, <1>3 DEF Count
<1>7. OnText(f, f.curbuf)
  BY <1>2, <1>3, <1>4, <1>5, <1>6 DEF OnText
<1>8. Sound(f)
  BY <1>2, <1>7 DEF Sound
<1> QED
  BY <1>2, <1>8 DEF f

\* A text that is the same up to the cursor, and the cursor somewhere in it.
LEMMA TextWritten ==
  ASSUME NEW e, Sound(e), NEW n \in 1 .. Count(e), NEW t \in Seq(Chars), NEW p \in 1 .. Len(t) + 1
  PROVE  Keeps(e, Modified(Move(SetText(e, n, t), n, p)))
<1> DEFINE g == SetText(e, n, t)
           h == Move(g, n, p)
<1>1. Loose(e) /\ e.curbuf \in Bufs
  BY SoundHere
<1>2. /\ Loose(g) /\ Alike(e, g) /\ Len(g.lines[e.curbuf]) = Len(e.lines[e.curbuf])
      /\ g.lines[e.curbuf][n].text = t
  BY <1>1, TextSet
<1> HIDE DEF g
<1>3. n \in 1 .. Count(g) /\ TextAt(g, n) = t
  BY <1>2 DEF Count, TextAt, Alike
<1>4. Travels(g, h)
  BY <1>2, <1>3, MoveTravels
<1> HIDE DEF h
<1>5. Sound(h)
  BY <1>4 DEF Travels
<1>6. Travels(h, Modified(h))
  BY <1>5, ModifiedTravels
<1>7. Travels(g, Modified(h))
  BY <1>4, <1>6, AlikeTwice
<1>8. Sound(Modified(h)) /\ Alike(e, Modified(h))
  BY <1>2, <1>7 DEF Travels, Alike, SameMarks, SameLines
<1>9. Keeps(e, Modified(h))
  BY <1>8, AlikeKeeps
<1> QED
  BY <1>9 DEF h, g

LEMMA ModifiedKeeps ==
  ASSUME NEW e, NEW f, Keeps(e, f) PROVE Keeps(e, Modified(f))
<1>1. Sound(f)
  BY DEF Keeps
<1>2. Keeps(f, Modified(f))
  BY <1>1, ModifiedTravels, TravelsKeeps
<1> QED
  BY <1>2, KeepsTwice

\* What is in front of the cursor, and a part of what is behind it.
LEMMA TextParts ==
  ASSUME NEW s \in Seq(Chars), NEW p \in 1 .. Len(s) + 1, NEW q \in 1 .. Len(s) + 1
  PROVE  /\ SubSeq(s, 1, p - 1) \in Seq(Chars) /\ Len(SubSeq(s, 1, p - 1)) = p - 1
         /\ \A i \in 1 .. p - 1 : SubSeq(s, 1, p - 1)[i] = s[i]
         /\ SubSeq(s, q, Len(s)) \in Seq(Chars)
<1>1. \A k \in 1 .. Len(s) : s[k] \in Chars
  OBVIOUS
<1>2. Len(s) \in Nat
  OBVIOUS
<1>3. /\ SubSeq(s, 1, p - 1) \in Seq(Chars) /\ Len(SubSeq(s, 1, p - 1)) = p - 1
      /\ \A i \in 1 .. p - 1 : SubSeq(s, 1, p - 1)[i] = s[i]
  <2>1. 1 \in Int /\ p - 1 \in Int /\ \A k \in 1 .. p - 1 : s[k] \in Chars
    BY <1>1, <1>2
  <2> QED
    BY <1>2, <2>1, SubSeqProperties
<1>4. SubSeq(s, q, Len(s)) \in Seq(Chars)
  <2>1. q \in Int /\ Len(s) \in Int /\ \A k \in q .. Len(s) : s[k] \in Chars
    BY <1>1, <1>2
  <2> QED
    BY <2>1, SubSeqProperties
<1> QED
  BY <1>3, <1>4

LEMMA FancydelKeeps ==
  ASSUME NEW e, Sound(e) PROVE Keeps(e, Bfancydel(e))
<1> DEFINE t == SubSeq(Text(e), 1, Here(e).pos - 1)
           f == SetText(e, Here(e).line, t)
<1>1. Text(e) \in Seq(Chars) /\ Here(e).pos \in 1 .. Len(Text(e)) + 1 /\ Len(Text(e)) \in Nat
  BY SoundHere
<1>2. t \in Seq(Chars) /\ Len(t) = Here(e).pos - 1 /\ \A i \in 1 .. Here(e).pos - 1 : t[i] = Text(e)[i]
  BY <1>1, TextParts
<1> HIDE DEF t
<1>3. Here(e).pos <= Len(t) + 1
  BY <1>1, <1>2
<1>4. Sound(f) /\ Alike(e, f)
  BY <1>2, <1>3, TextBehind
<1>5. Bfancydel(e) = Modified(f)
  BY DEF Bfancydel, t
<1> HIDE DEF f
<1> QED
  BY <1>4, <1>5, AlikeKeeps, ModifiedKeeps

LEMMA SplitKeeps ==
  ASSUME NEW e, Sound(e) PROVE Keeps(e, Split(e))
<1> DEFINE s == Text(e)
           p == Here(e).pos
           from == IF p = 1 THEN 1
                   ELSE LeastOf({q \in p .. Len(s) : ~ IsSpace(s[q])} \cup {Len(s) + 1})
           cut == SubSeq(s, 1, p - 1)
           rest == SubSeq(s, from, Len(s))
           f == SetText(e, Here(e).line, cut)
           g == Blapp(f, rest, "no")
<1>1. s \in Seq(Chars) /\ p \in 1 .. Len(s) + 1 /\ Len(s) \in Nat
  BY SoundHere
<1>2. Split(e) = Modified(g)
  BY DEF Split
<1> HIDE DEF s, p
<1>3. from \in 1 .. Len(s) + 1
  <2> PICK S : S = {q \in p .. Len(s) : ~ IsSpace(s[q])} \cup {Len(s) + 1}
    OBVIOUS
  <2>1. S \in SUBSET (1 .. Len(s) + 1) /\ S \in SUBSET Nat /\ S # {}
    BY <1>1
  <2>2. LeastOf(S) \in S
    BY <2>1, LeastIs
  <2> QED
    BY <1>1, <2>1, <2>2
<1> HIDE DEF from
<1>4. /\ cut \in Seq(Chars) /\ Len(cut) = p - 1 /\ rest \in Seq(Chars)
      /\ \A i \in 1 .. p - 1 : cut[i] = s[i]
  BY <1>1, <1>3, TextParts
<1> HIDE DEF cut, rest
<1>5. Here(e).pos <= Len(cut) + 1 /\ \A i \in 1 .. Here(e).pos - 1 : cut[i] = Text(e)[i]
  BY <1>1, <1>4 DEF p, s
<1>6. Sound(f) /\ Alike(e, f)
  BY <1>4, <1>5, TextBehind
<1> HIDE DEF f
<1>7. Keeps(e, f) /\ Keeps(f, g)
  BY <1>4, <1>6, AlikeKeeps, BlappKeeps
<1> HIDE DEF g
<1> QED
  BY <1>2, <1>7, KeepsTwice, ModifiedKeeps

LEMMA BcinsKeeps ==
  ASSUME NEW e, Sound(e), NEW c \in Chars, NEW overtype \in BOOLEAN
  PROVE  Keeps(e, Bcins(e, c, overtype))
<1> DEFINE s == Text(e)
           p == Here(e).pos
           n == Here(e).line
           need == Mneed(e, n, Len(s) + 1)
<1>1. /\ s \in Seq(Chars) /\ p \in 1 .. Len(s) + 1 /\ Len(s) \in Nat /\ n \in 1 .. Count(e)
  BY SoundHere
<1>2. CASE overtype /\ p <= Len(s)
  <2> DEFINE t == [s EXCEPT ![p] = c]
  <2>1. Bcins(e, c, overtype) = Modified(Move(SetText(e, n, t), n, p + 1))
    BY <1>2 DEF Bcins
  <2> HIDE DEF s, p, n
  <2>2. t \in Seq(Chars) /\ Len(t) = Len(s)
    BY <1>1, <1>2
  <2>3. p + 1 \in 1 .. Len(t) + 1
    BY <1>1, <1>2, <2>2
  <2> QED
    BY <1>1, <2>1, <2>2, <2>3, TextWritten
<1>3. CASE ~ (overtype /\ p <= Len(s)) /\ ~ need[1]
  <2>1. Bcins(e, c, overtype) = need[2]
    BY <1>3 DEF Bcins
  <2> HIDE DEF s, p, n
  <2>2. Sound(need[2]) /\ Alike(e, need[2])
    <3>1. Len(s) + 1 \in Nat
      BY <1>1
    <3> QED
      BY <1>1, <3>1, MneedIs
  <2> QED
    BY <2>1, <2>2, AlikeKeeps
<1>4. CASE ~ (overtype /\ p <= Len(s)) /\ need[1]
  <2> DEFINE t == InsertAt(s, p, c)
  <2>1. Bcins(e, c, overtype) = Modified(Move(SetText(need[2], n, t), n, p + 1))
    BY <1>4 DEF Bcins
  <2> HIDE DEF s, p, n
  <2>2. t \in Seq(Chars) /\ Len(t) = Len(s) + 1
    BY <1>1, Inserted
  <2>3. p + 1 \in 1 .. Len(t) + 1
    BY <1>1, <2>2
  <2>4. Sound(need[2]) /\ Alike(e, need[2])
    <3>1. Len(s) + 1 \in Nat
      BY <1>1
    <3> QED
      BY <1>1, <3>1, MneedIs
  <2>5. n \in 1 .. Count(need[2])
    <3>1. e.curbuf \in Bufs
      BY SoundHere
    <3> QED
      BY <1>1, <2>4, <3>1 DEF Alike, SameLines, Count
  <2> HIDE DEF need, t
  <2>6. Keeps(need[2], Modified(Move(SetText(need[2], n, t), n, p + 1)))
    BY <2>2, <2>3, <2>4, <2>5, TextWritten
  <2> QED
    BY <2>1, <2>4, <2>6, AlikeKeeps, KeepsTwice
<1> QED
  BY <1>2, <1>3, <1>4


\* A command in one buffer leaves the cursors and the texts of the others.
Aside(e, f) ==
  /\ f.curbuf = e.curbuf
  /\ \A b \in Bufs : b # e.curbuf =>
       /\ f.at[b] = e.at[b] /\ Len(f.lines[b]) = Len(e.lines[b])
       /\ \A i \in 1 .. Len(e.lines[b]) : Twin(e.lines[b][i], f.lines[b][i])

LEMMA AsideTwice ==
  ASSUME NEW e, NEW f, NEW g, Aside(e, f), Aside(f, g) PROVE Aside(e, g)
  BY DEF Aside, Twin

LEMMA AsideSelf == ASSUME NEW e PROVE Aside(e, e)
  BY DEF Aside, Twin

LEMMA TravelsAside == ASSUME NEW e, NEW f, Travels(e, f) PROVE Aside(e, f)
  BY DEF Aside, Travels, Alike, Twin

LEMMA DropLineAside == ASSUME NEW e, Sound(e) PROVE Aside(e, DropLine(e))
<1>1. CASE Count(e) = 1 /\ Text(e) = <<>>
  <2>1. DropLine(e) = e
    BY <1>1 DEF DropLine
  <2> QED
    BY <2>1, AsideSelf
<1>2. CASE ~ (Count(e) = 1 /\ Text(e) = <<>>)
  <2>1. Dropped(e, DropLine(e), Here(e).line)
    BY <1>2, DropLineIs
  <2> QED
    BY <2>1 DEF Dropped, Aside
<1> QED
  BY <1>1, <1>2

LEMMA BlappAside ==
  ASSUME NEW e, Sound(e), NEW s \in Seq(Chars), NEW m \in {"no", "new"}
  PROVE  Aside(e, Blapp(e, s, m))
<1>1. CASE Full(e)
  <2>1. OnlyFull(e, Blapp(e, s, m))
    BY <1>1, BlappIs
  <2> QED
    BY <2>1 DEF OnlyFull, Alike, Aside, Twin
<1>2. CASE ~ Full(e)
  <2>1. Added(e, Blapp(e, s, m), Here(e).line, s, m)
    BY <1>2, BlappIs
  <2> QED
    BY <2>1 DEF Added, LinesUp, Aside, Twin
<1> QED
  BY <1>1, <1>2

\* What the undo stack takes leaves the text it is taken from.
Pushed(e, f) ==
  \A b \in Bufs : b # BD =>
    /\ f.at[b] = e.at[b] /\ Len(f.lines[b]) = Len(e.lines[b])
    /\ \A i \in 1 .. Len(e.lines[b]) : Twin(e.lines[b][i], f.lines[b][i])

LEMMA DelPushIs ==
  ASSUME NEW e, Sound(e), NEW s \in Seq(Chars) PROVE Pushed(e, DelPush(e, s))
<1> DEFINE d == Switched(e, BD)
           top == SeekLeft(d, 1)
           low == DropLine(top)
           cut == IF Count(d) > MaxUndo THEN SeekLeft(low, Count(d)) ELSE d
           f == Blapp(cut, s, "no")
           back == Switched(f, e.curbuf)
<1>1. Sound(d) /\ d.curbuf = BD /\ d.lines = e.lines /\ d.at = e.at /\ Count(d) \in Nat \ {0}
  <2>1. BD \in Bufs
    BY DEF Bufs
  <2> QED
    BY <2>1, SwitchedIs, SoundHere
<1>2. DelPush(e, s) = back
  BY DEF DelPush, Switched
<1> HIDE DEF d
<1>3. Travels(d, top) /\ Sound(top)
  BY <1>1, SeekLeftTravels DEF Sound, Travels
<1> HIDE DEF top
<1>4. Aside(top, low) /\ Sound(low)
  BY <1>3, DropLineAside, DropLineKeeps DEF Keeps
<1> HIDE DEF low
<1>5. Travels(low, SeekLeft(low, Count(d))) /\ Sound(SeekLeft(low, Count(d)))
  BY <1>1, <1>4, SeekLeftTravels DEF Sound, Travels
<1>6. Aside(d, cut) /\ Sound(cut)
  <2>1. Aside(d, SeekLeft(low, Count(d)))
    BY <1>3, <1>4, <1>5, AsideTwice, TravelsAside
  <2> QED
    BY <1>1, <1>5, <2>1, AsideSelf
<1> HIDE DEF cut
<1>7. Aside(cut, f) /\ Sound(f)
  BY <1>6, BlappAside, BlappKeeps DEF Keeps
<1> HIDE DEF f
<1>8. back.lines = f.lines /\ back.at = f.at
  <2>1. e.curbuf \in Bufs
    BY SoundHere
  <2> QED
    BY <1>7, <2>1, SwitchedIs
<1> HIDE DEF back
<1>9. Aside(d, f)
  BY <1>6, <1>7, AsideTwice
<1>10. Pushed(e, back)
  BY <1>1, <1>8, <1>9 DEF Aside, Pushed
<1> QED
  BY <1>2, <1>10

\* The bare next line behind this one and a space.
LEMMA TextsJoined ==
  ASSUME NEW s \in Seq(Chars), NEW t \in Seq(Chars)
  PROVE  /\ s \o <<Space>> \o t \in Seq(Chars)
         /\ Len(s \o <<Space>> \o t) = Len(s) + 1 + Len(t)
         /\ \A i \in 1 .. Len(s) : (s \o <<Space>> \o t)[i] = s[i]
<1>1. <<Space>> \in Seq(Chars) /\ Len(<<Space>>) = 1
  BY DEF Chars
<1> PICK u : u = s \o <<Space>>
  OBVIOUS
<1> PICK w : w = u \o t
  OBVIOUS
<1>2. u \in Seq(Chars) /\ Len(u) = Len(s) + 1 /\ \A i \in 1 .. Len(s) : u[i] = s[i]
  BY <1>1
<1>3. w \in Seq(Chars) /\ Len(w) = Len(s) + 1 + Len(t) /\ \A i \in 1 .. Len(s) : w[i] = s[i]
  BY <1>2
<1>4. w = s \o <<Space>> \o t
  OBVIOUS
<1> QED
  BY <1>3, <1>4

LEMMA JoinKeeps ==
  ASSUME NEW e, Sound(e), e.curbuf # BD, Here(e).pos = Len(Text(e)) + 1
  PROVE  Keeps(e, Join(e))
<1> DEFINE s == Text(e)
           n == Here(e).line
           p == Here(e).pos
           next == TextAt(e, n + 1)
           bare == SubSeq(next, FirstInk(next), Len(next))
           both == s \o <<Space>> \o bare
           need == Mneed(e, n, Len(s) + Len(next))
           f == need[2]
           g == SetText(f, n + 1, bare)
           h == SetText(g, n, both)
           m == Move(h, n + 1, 1)
           pushed == DelPush(m, Text(m))
           gone == DropLine(pushed)
           j == Modified(Move(gone, n, p))
<1>1. /\ Loose(e) /\ Shaped(e) /\ e.curbuf \in Bufs /\ Count(e) \in Nat \ {0}
      /\ n \in 1 .. Count(e) /\ s \in Seq(Chars) /\ Len(s) \in Nat
  BY SoundHere
<1>2. CASE n = Count(e)
  <2>1. Join(e) = e
    BY <1>2 DEF Join
  <2> QED
    BY <2>1, KeepsSelf
<1>3. CASE n # Count(e)
  <2>1. n + 1 \in 1 .. Count(e) /\ n \in Nat
    BY <1>1, <1>3
  <2>2. next \in Seq(Chars)
    BY <1>1, <2>1, TextIs
  <2>3. Join(e) = IF ~ need[1] THEN f ELSE Modified(Move(Bldel(m, TRUE), n, p))
    BY <1>3 DEF Join
  <2> HIDE DEF next
  <2>4. bare \in Seq(Chars)
    <3>1. FirstInk(next) \in 1 .. Len(next) + 1
      BY <2>2, FirstInkIs
    <3> QED
      BY <2>2, <3>1, TextParts
  <2> HIDE DEF bare
  <2>5. /\ Sound(f) /\ Alike(e, f) /\ SameTexts(e, f) /\ f.at = e.at
    <3>1. Len(s) + Len(next) \in Nat
      BY <1>1, <2>2
    <3> QED
      BY <1>1, <3>1, MneedIs
  <2> HIDE DEF need
  <2>6. f.curbuf = e.curbuf /\ Count(f) = Count(e) /\ TextAt(f, n) = s /\ Loose(f)
    <3>1. TextAt(f, n) = TextAt(e, n)
      BY <1>1, <2>5 DEF SameTexts, Alike, TextAt, Count
    <3> QED
      BY <1>1, <2>5, <3>1 DEF Alike, SameLines, Count, Text, Sound
  <2>7. /\ Loose(g) /\ Alike(f, g) /\ g.at = f.at
        /\ Len(g.lines[f.curbuf]) = Len(f.lines[f.curbuf])
        /\ \A i \in 1 .. Count(f) : i # n + 1 => g.lines[f.curbuf][i] = f.lines[f.curbuf][i]
    <3>1. n + 1 \in 1 .. Count(f) /\ Loose(f)
      BY <2>1, <2>6
    <3> PICK k : k = n + 1
      OBVIOUS
    <3> HIDE DEF f, n
    <3> QED
      BY <2>4, <3>1, TextSet
  <2>8. n \in 1 .. Count(g) /\ TextAt(g, n) = s /\ g.curbuf = e.curbuf /\ Count(g) = Count(e)
        /\ Here(g) = Here(e)
    <3>1. n # n + 1
      BY <2>1
    <3> QED
      BY <1>1, <2>5, <2>6, <2>7, <3>1 DEF Alike, Count, TextAt, Here
  <2> HIDE DEF g, f
  <2>9. Text(g) = s
    BY <2>8 DEF Text
  <2>10. both \in Seq(Chars) /\ Len(both) = Len(s) + 1 + Len(bare)
         /\ \A i \in 1 .. Len(s) : both[i] = s[i]
    BY <1>1, <2>4, TextsJoined
  <2> HIDE DEF both
  <2>11. Len(bare) \in Nat
    BY <2>4
  <2>12. p \in 1 .. Len(both) + 1
    BY <1>1, <2>10, <2>11
  <2>13. /\ Loose(h) /\ Alike(g, h) /\ h.at = g.at
         /\ Len(h.lines[g.curbuf]) = Len(g.lines[g.curbuf])
         /\ h.lines[g.curbuf][n].text = both
    BY <2>7, <2>8, <2>10, TextSet
  <2>14. n + 1 \in 1 .. Count(h) /\ h.curbuf = e.curbuf /\ Count(h) = Count(e) /\ TextAt(h, n) = both
    BY <2>1, <2>8, <2>13 DEF Alike, Count, TextAt
  <2> HIDE DEF h
  <2>15. Shaped(h)
    BY <2>13 DEF Loose
  <2>16. 1 \in 1 .. Len(TextAt(h, n + 1)) + 1
    BY <2>14, <2>15, TextIs
  <2>17. Travels(h, m) /\ Here(m).line = n + 1
    BY <2>13, <2>14, <2>16, MoveTravels
  <2>18. /\ Sound(m) /\ m.curbuf = e.curbuf /\ Count(m) = Count(e) /\ TextAt(m, n) = both
    BY <2>14, <2>17 DEF Travels, Alike, Count, TextAt
  <2>19. Alike(e, m)
    BY <2>5, <2>7, <2>13, <2>17 DEF Travels, Alike, SameMarks, SameLines
  <2> HIDE DEF m
  <2>20. Text(m) \in Seq(Chars)
    BY <2>18, SoundHere
  <2>21. Keeps(m, pushed) /\ Pushed(m, pushed)
    BY <2>18, <2>20, DelPushKeeps, DelPushIs
  <2>22. Bldel(m, TRUE) = gone
    <3>1. Count(m) # 1
      BY <1>1, <1>3, <2>18
    <3> QED
      BY <3>1 DEF Bldel
  <2> HIDE DEF pushed
  <2>23. /\ pushed.curbuf = e.curbuf /\ Count(pushed) = Count(e) /\ Here(pushed).line = n + 1
         /\ TextAt(pushed, n) = both /\ Sound(pushed)
    <3>1. pushed.curbuf = e.curbuf /\ Sound(pushed)
      BY <2>18, <2>21 DEF Keeps
    <3>2. pushed.at[e.curbuf] = m.at[e.curbuf] /\ Len(pushed.lines[e.curbuf]) = Len(m.lines[e.curbuf])
          /\ \A i \in 1 .. Len(m.lines[e.curbuf]) : Twin(m.lines[e.curbuf][i], pushed.lines[e.curbuf][i])
      BY <1>1, <2>18, <2>21 DEF Pushed
    <3> QED
      BY <1>1, <2>17, <2>18, <3>1, <3>2 DEF Count, Here, TextAt, Twin
  <2>24. Dropped(pushed, gone, n + 1)
    <3>1. Count(pushed) # 1
      BY <1>1, <1>3, <2>23
    <3> QED
      BY <2>23, <3>1, DropLineIs
  <2>25. Keeps(pushed, gone)
    BY <2>23, DropLineKeeps
  <2> HIDE DEF gone
  <2>26. n \in 1 .. Count(gone) /\ TextAt(gone, n) = both /\ Loose(gone)
    <3>1. gone.curbuf = e.curbuf /\ Loose(gone)
      BY <2>23, <2>24 DEF Dropped, Sound
    <3>2. Len(gone.lines[e.curbuf]) = Len(pushed.lines[e.curbuf]) - 1
          /\ \A k \in 1 .. (n + 1) - 1 : Twin(pushed.lines[e.curbuf][k], gone.lines[e.curbuf][k])
      BY <1>1, <1>3, <2>23, <2>24 DEF Dropped
    <3>3. n \in 1 .. (n + 1) - 1
      BY <1>1
    <3>4. Twin(pushed.lines[e.curbuf][n], gone.lines[e.curbuf][n])
      BY <3>2, <3>3
    <3>5. n \in 1 .. Count(gone)
      BY <1>1, <2>1, <2>23, <3>1, <3>2 DEF Count
    <3> QED
      BY <2>23, <3>1, <3>4, <3>5 DEF TextAt, Twin
  <2>27. Travels(gone, Move(gone, n, p))
    BY <2>12, <2>26, MoveTravels
  <2>28. Keeps(gone, j)
    BY <2>27, TravelsKeeps, ModifiedKeeps
  <2> HIDE DEF j
  <2>29. Keeps(e, m)
    BY <2>18, <2>19, AlikeKeeps
  <2>30. Keeps(e, j)
    BY <2>21, <2>25, <2>28, <2>29, KeepsTwice
  <2>31. Keeps(e, f)
    BY <2>5, AlikeKeeps
  <2> QED
    BY <2>3, <2>22, <2>30, <2>31 DEF j
<1> QED
  BY <1>2, <1>3

LEMMA BcdelKeeps ==
  ASSUME NEW e, Sound(e), e.curbuf # BD PROVE Keeps(e, Bcdel(e))
<1>1. CASE Text(e) = <<>>
  <2>1. Keeps(e, Bldel(e, TRUE))
    BY BldelKeeps
  <2> QED
    BY <1>1, <2>1 DEF Bcdel
<1>2. CASE Text(e) # <<>> /\ Here(e).pos = Len(Text(e)) + 1
  BY <1>2, JoinKeeps DEF Bcdel
<1>3. CASE Text(e) # <<>> /\ Here(e).pos # Len(Text(e)) + 1
  <2> DEFINE s == Text(e)
             p == Here(e).pos
             t == RemoveAt(s, p)
             f == SetText(e, Here(e).line, t)
  <2>1. s \in Seq(Chars) /\ p \in 1 .. Len(s) + 1 /\ Len(s) \in Nat
    BY SoundHere
  <2>2. Bcdel(e) = Modified(f)
    BY <1>3 DEF Bcdel
  <2>3. p \in 1 .. Len(s)
    BY <1>3, <2>1
  <2>4. t \in Seq(Chars) /\ Len(t) = Len(s) - 1
        /\ \A k \in 1 .. Len(s) - 1 : t[k] = IF k < p THEN s[k] ELSE s[k + 1]
    BY <2>1, <2>3, Removed
  <2> HIDE DEF t, s, p
  <2>5. ASSUME NEW i \in 1 .. p - 1 PROVE t[i] = s[i]
    <3>1. i \in 1 .. Len(s) - 1 /\ i < p
      BY <2>1, <2>3
    <3> QED
      BY <2>4, <3>1
  <2>6. p <= Len(t) + 1
    BY <2>1, <2>3, <2>4
  <2>7. Sound(f) /\ Alike(e, f)
    BY <2>4, <2>5, <2>6, TextBehind DEF s, p
  <2> HIDE DEF f
  <2> QED
    BY <2>2, <2>7, AlikeKeeps, ModifiedKeeps
<1> QED
  BY <1>1, <1>2, <1>3

LEMMA BackSpaceKeeps ==
  ASSUME NEW e, Sound(e), e.curbuf # BD PROVE Keeps(e, BackSpace(e))
<1>1. Keeps(e, Left(e)) /\ Sound(Left(e)) /\ Left(e).curbuf = e.curbuf
  BY LeftRight, TravelsKeeps DEF Keeps
<1>2. Keeps(Left(e), Bcdel(Left(e)))
  BY <1>1, BcdelKeeps
<1> QED
  BY <1>1, <1>2, KeepsSelf, KeepsTwice DEF BackSpace

----------------------------------------------------------------------------
(* The marks of the user.                                                   *)

LEMMA FirstMarkKeeps ==
  ASSUME NEW e, Sound(e), e.curbuf \in Texts, ~ e.ismarked PROVE Keeps(e, FirstMark(e))
<1> DEFINE n == Here(e).line
           p == Here(e).pos
           f == FirstMark(e)
<1>1. /\ Shaped(e) /\ e \in Editor /\ e.curbuf \in Bufs /\ n \in 1 .. Count(e) /\ p \in Nat \ {0}
      /\ Count(e) \in Nat
  <2>1. Len(Text(e)) \in Nat /\ p \in 1 .. Len(Text(e)) + 1
    BY SoundHere
  <2>2. p \in Nat \ {0}
    BY <2>1
  <2> QED
    BY <2>2, SoundHere DEF Shaped
<1>2. f = [e EXCEPT !.frombuf = e.curbuf, !.line1 = n, !.mkpos = p, !.exact = TRUE]
  BY DEF FirstMark
<1> HIDE DEF f, n, p
<1>3. /\ f.lines = e.lines /\ f.at = e.at /\ f.mod = e.mod /\ f.curbuf = e.curbuf
      /\ f.bfull = e.bfull /\ f.line2 = e.line2 /\ f.ismarked = e.ismarked
      /\ f.frombuf = e.curbuf /\ f.line1 = n /\ f.mkpos = p
  BY <1>1, <1>2 DEF Editor
<1>4. f \in Editor
  <2>1. n \in Nat /\ e.curbuf \in Texts \cup {BNONE} /\ p \in Nat \ {0} /\ TRUE \in BOOLEAN
    BY <1>1
  <2> QED
    BY <1>1, <1>2, <2>1 DEF Editor
<1>5. Shaped(f)
  BY <1>1, <1>3, <1>4 DEF Shaped
<1>6. Ordered(f)
  BY <1>3 DEF Ordered, Sound, Loose
<1>7. Followed(f)
  BY <1>1, <1>3 DEF Followed, Count
<1>8. \A b \in Bufs : OnText(f, b)
  <2>1. \A b \in Bufs : OnText(e, b)
    BY DEF Sound, Loose
  <2> QED
    BY <1>3, <2>1 DEF OnText
<1>9. Sound(f)
  BY <1>1, <1>3, <1>5, <1>6, <1>7, <1>8 DEF Sound, Loose
<1>10. Keeps(e, f)
  BY <1>3, <1>9 DEF Keeps, NoNew
<1> QED
  BY <1>10 DEF f

\* The lines of a text, with other marks.
Remark(t, m, u) == u = [i \in DOMAIN t |-> [t[i] EXCEPT !.mark = m[i]]]

LEMMA Remarked ==
  ASSUME NEW t \in Seq(Lines), NEW m \in [1 .. Len(t) -> {"no", "in", "new"}],
         NEW u, Remark(t, m, u)
  PROVE  /\ u \in Seq(Lines) /\ Len(u) = Len(t)
         /\ \A i \in 1 .. Len(t) : u[i].text = t[i].text /\ u[i].mark = m[i]
<1>1. PICK n \in Nat : n = Len(t)
  OBVIOUS
<1>2. u = [i \in 1 .. n |-> [t[i] EXCEPT !.mark = m[i]]]
  BY <1>1 DEF Remark
<1>3. \A i \in 1 .. n : t[i] \in Lines /\ m[i] \in {"no", "in", "new"}
  BY <1>1
<1>4. ASSUME NEW i \in 1 .. n
      PROVE  LET x == [t[i] EXCEPT !.mark = m[i]]
             IN  x \in Lines /\ x.text = t[i].text /\ x.mark = m[i]
  <2>1. PICK y \in Lines : y = t[i]
    BY <1>3
  <2>2. PICK k \in {"no", "in", "new"} : k = m[i]
    BY <1>3
  <2>3. [y EXCEPT !.mark = k] \in Lines /\ [y EXCEPT !.mark = k].text = y.text
        /\ [y EXCEPT !.mark = k].mark = k
    BY <2>1, <2>2 DEF Lines
  <2> QED
    BY <2>1, <2>2, <2>3
<1>5. u \in [1 .. n -> Lines]
  BY <1>2, <1>4
<1>6. u \in Seq(Lines) /\ Len(u) = n
  BY <1>5, SeqDef
<1> QED
  BY <1>1, <1>2, <1>4, <1>6

LEMMA SecondKeeps ==
  ASSUME NEW e, Sound(e), e.line1 # 0, ~ e.ismarked, e.frombuf = e.curbuf
  PROVE  Keeps(e, Second(e))
<1> DEFINE l == Here(e).line
           lo == IF l < e.line1 THEN l ELSE e.line1
           hi == IF l < e.line1 THEN e.line1 ELSE l
           mk == IF l < e.line1 THEN Here(e).pos ELSE e.mkpos
           t == e.lines[e.curbuf]
           m == [i \in 1 .. Len(t) |-> IF i \in lo .. hi THEN "in" ELSE "no"]
           u == [i \in DOMAIN t |-> [t[i] EXCEPT !.mark = m[i]]]
           f == Second(e)
<1>1. /\ Shaped(e) /\ e \in Editor /\ e.curbuf \in Bufs /\ l \in 1 .. Count(e)
      /\ Here(e).pos \in Nat \ {0} /\ Count(e) \in Nat /\ e.line1 \in Nat \ {0} /\ t \in Seq(Lines)
  <2>1. Len(Text(e)) \in Nat /\ Here(e).pos \in 1 .. Len(Text(e)) + 1
    BY SoundHere
  <2>2. Here(e).pos \in Nat \ {0}
    BY <2>1
  <2> QED
    BY <2>2, SoundHere DEF Shaped, Editor
<1>2. lo \in Nat /\ hi \in Nat /\ 1 <= lo /\ lo <= hi /\ mk \in Nat \ {0}
  <2>1. e.mkpos \in Nat \ {0} /\ l \in Nat /\ 1 <= l
    BY <1>1 DEF Editor
  <2> QED
    BY <1>1, <2>1
<1>3. PICK c \in Nat : c = Len(t)
  BY <1>1
<1>4. f = [e EXCEPT !.line1 = lo, !.line2 = hi, !.ismarked = TRUE, !.mkpos = mk,
                    !.lines[e.curbuf] = [i \in DOMAIN t |->
                       [t[i] EXCEPT !.mark = IF i \in lo .. hi THEN "in" ELSE "no"]]]
  BY DEF Second
<1>5. u = [i \in DOMAIN t |-> [t[i] EXCEPT !.mark = IF i \in lo .. hi THEN "in" ELSE "no"]]
  <2>1. DOMAIN t = 1 .. Len(t)
    BY <1>1
  <2> QED
    BY <2>1
<1>6. f = [e EXCEPT !.line1 = lo, !.line2 = hi, !.ismarked = TRUE, !.mkpos = mk,
                    !.lines[e.curbuf] = u]
  BY <1>4, <1>5
<1>7. /\ u \in Seq(Lines) /\ Len(u) = Len(t)
      /\ \A i \in 1 .. Len(t) : u[i].text = t[i].text /\ u[i].mark = m[i]
  <2>1. m \in [1 .. Len(t) -> {"no", "in", "new"}]
    OBVIOUS
  <2>2. Remark(t, m, u)
    BY DEF Remark
  <2> HIDE DEF m, t, u
  <2> QED
    <3>1. t \in Seq(Lines)
      BY <1>1
    <3> QED
      BY <2>1, <2>2, <3>1, Remarked
<1>8. /\ Len(u) = c
      /\ \A i \in 1 .. c : /\ u[i].text = e.lines[e.curbuf][i].text
                           /\ u[i].mark = IF i \in lo .. hi THEN "in" ELSE "no"
  BY <1>3, <1>7
<1> HIDE DEF u, m, f, lo, hi, mk
<1>9. /\ f.lines = [e.lines EXCEPT ![e.curbuf] = u] /\ f.at = e.at /\ f.mod = e.mod
      /\ f.curbuf = e.curbuf /\ f.bfull = e.bfull /\ f.line2 = hi /\ f.ismarked = TRUE
      /\ f.frombuf = e.frombuf /\ f.line1 = lo /\ f.mkpos = mk /\ f.exact = e.exact
  BY <1>1, <1>6 DEF Editor
<1>10. f.lines \in [Bufs -> Seq(Lines)]
  BY <1>1, <1>7, <1>9 DEF Editor
<1>11. f \in Editor
  BY <1>1, <1>2, <1>6, <1>9, <1>10 DEF Editor
<1>12. f.lines[e.curbuf] = u /\ \A b \in Bufs : b # e.curbuf => f.lines[b] = e.lines[b]
  BY <1>1, <1>9 DEF Editor
<1>13. c = Count(e)
  BY <1>3 DEF Count
<1>14. Shaped(f)
  BY <1>1, <1>8, <1>11, <1>12, <1>13 DEF Shaped, Count
<1>15. Ordered(f)
  <2>1. e.frombuf \in Texts
    BY DEF Sound, Loose, Ordered
  <2> QED
    BY <1>2, <1>9, <2>1 DEF Ordered
<1>16. Followed(f)
  <2> SUFFICES ASSUME e.exact
               PROVE  /\ lo <= c /\ hi <= c
                      /\ \A b \in Bufs : \A i \in 1 .. Len(f.lines[b]) :
                           f.lines[b][i].mark = "in" <=> b = e.curbuf /\ i \in lo .. hi
    BY <1>8, <1>9, <1>12 DEF Followed
  <2>1. e.line1 <= c
    BY <1>3 DEF Sound, Loose, Followed
  <2>2. lo <= c /\ hi <= c
    BY <1>1, <1>13, <2>1 DEF lo, hi
  <2>3. ASSUME NEW b \in Bufs, NEW i \in 1 .. Len(f.lines[b])
        PROVE  f.lines[b][i].mark = "in" <=> b = e.curbuf /\ i \in lo .. hi
    <3>1. CASE b = e.curbuf
      BY <1>8, <1>12, <2>3, <3>1
    <3>2. CASE b # e.curbuf
      <4>1. f.lines[b] = e.lines[b]
        BY <1>12, <3>2
      <4> QED
        BY <2>3, <3>2, <4>1 DEF Sound, Loose, Ordered
    <3> QED
      BY <3>1, <3>2
  <2> QED
    BY <2>2, <2>3
<1>17. SameTexts(e, f)
  BY <1>3, <1>8, <1>12 DEF SameTexts
<1>18. \A b \in Bufs : OnText(f, b)
  <2>1. \A b \in Bufs : OnText(e, b) /\ f.at[b] = e.at[b]
    BY <1>9 DEF Sound, Loose
  <2> QED
    BY <1>17, <2>1, SameTextsOn
<1>19. Sound(f)
  BY <1>1, <1>9, <1>14, <1>15, <1>16, <1>18 DEF Sound, Loose
<1>20. NoNew(e) => NoNew(f)
  BY <1>3, <1>8, <1>12 DEF NoNew
<1>21. Keeps(e, f)
  BY <1>9, <1>19, <1>20 DEF Keeps
<1> QED
  BY <1>21 DEF f

LEMMA ClearMarksKeeps == ASSUME NEW e, Sound(e) PROVE Keeps(e, ClearMarks(e))
<1>1. CASE e.frombuf # e.curbuf
  <2>1. ClearMarks(e) = e
    BY <1>1 DEF ClearMarks
  <2> QED
    BY <2>1, KeepsSelf
<1>2. CASE e.frombuf = e.curbuf
  <2> DEFINE f == ClearMarks(e)
  <2>1. Shaped(e) /\ e.curbuf \in Bufs
    BY SoundHere
  <2>2. /\ Shaped(f) /\ Ordered(f) /\ Followed(f)
        /\ SameTexts(e, f) /\ f.at = e.at /\ f.curbuf = e.curbuf
        /\ \A b \in Bufs : \A i \in 1 .. Len(e.lines[b]) :
             f.lines[b][i].mark = IF e.lines[b][i].mark = "in" THEN "no" ELSE e.lines[b][i].mark
    BY <1>2, <2>1, Cleared
  <2> HIDE DEF f
  <2>3. \A b \in Bufs : OnText(f, b)
    <3>1. \A b \in Bufs : OnText(e, b) /\ f.at[b] = e.at[b]
      BY <2>2 DEF Sound, Loose
    <3> QED
      BY <2>2, <3>1, SameTextsOn
  <2>4. Sound(f)
    BY <2>1, <2>2, <2>3 DEF Sound, Loose
  <2>5. NoNew(e) => NoNew(f)
    BY <2>2 DEF NoNew, SameTexts
  <2>6. Keeps(e, f)
    BY <2>2, <2>4, <2>5 DEF Keeps
  <2> QED
    BY <2>6 DEF f
<1> QED
  BY <1>1, <1>2

LEMMA MarkKeeps ==
  ASSUME NEW e, Sound(e), e.curbuf \in Texts PROVE Keeps(e, Mark(e))
<1>1. /\ e.line1 \in Nat /\ e.line2 \in Nat /\ Ordered(e)
      /\ e.frombuf \in Texts \cup {BNONE} /\ e.curbuf \in Texts
  BY DEF Sound, Loose, Shaped, Editor
<1>2. e.ismarked => e.line1 # 0 /\ e.line2 # 0
  BY <1>1 DEF Ordered
<1>3. CASE e.frombuf \notin {BNONE, e.curbuf}
  BY <1>2, <1>3, FirstMarkKeeps, KeepsSelf DEF Mark
<1>4. CASE e.frombuf \in {BNONE, e.curbuf}
  <2>1. CASE e.line1 = 0
    BY <1>2, <1>4, <2>1, FirstMarkKeeps DEF Mark
  <2>2. CASE e.line1 # 0 /\ e.line2 = 0
    <3>1. e.frombuf = e.curbuf
      BY <1>1, <1>4, <2>2, BufferAssumption DEF Ordered
    <3> QED
      BY <1>2, <1>4, <2>2, <3>1, SecondKeeps DEF Mark
  <2>3. CASE e.line1 # 0 /\ e.line2 # 0
    BY <1>4, <2>3, ClearMarksKeeps DEF Mark
  <2> QED
    BY <2>1, <2>2, <2>3
<1> QED
  BY <1>3, <1>4

----------------------------------------------------------------------------
(* Between the keys.                                                        *)

AtRest(e) == Sound(e) /\ e.curbuf \in Texts /\ NoNew(e)

LEMMA KeepsRest == ASSUME NEW e, NEW f, AtRest(e), Keeps(e, f) PROVE AtRest(f)
  BY DEF AtRest, Keeps

LEMMA TravelsRest == ASSUME NEW e, NEW f, AtRest(e), Travels(e, f) PROVE AtRest(f)
  BY TravelsKeeps, KeepsRest

LEMMA GoMarkRests == ASSUME NEW e, AtRest(e) PROVE AtRest(GoMark(e))
<1>1. CASE e.line1 = 0
  BY <1>1 DEF GoMark
<1>2. CASE e.line1 # 0
  <2> DEFINE d == Switched(e, e.frombuf)
             g == Bseekpos(d, e.line1, e.mkpos)
  <2>1. /\ Sound(e) /\ e.frombuf \in Texts /\ e.frombuf \in Bufs
        /\ e.line1 \in Nat \ {0} /\ e.mkpos \in Nat \ {0}
    <3>1. Sound(e) /\ e \in Editor /\ Ordered(e)
      BY DEF AtRest, Sound, Loose, Shaped
    <3> QED
      BY <1>2, <3>1 DEF Ordered, Editor, Bufs
  <2>2. GoMark(e) = ClearMarks(g)
    BY <1>2 DEF GoMark, Switched
  <2>3. AtRest(d)
    BY <2>1, SwitchKeeps DEF AtRest
  <2> HIDE DEF d
  <2>4. AtRest(g)
    <3>1. Loose(d)
      BY <2>3 DEF AtRest, Sound
    <3> QED
      BY <2>1, <2>3, <3>1, SeekPosTravels, TravelsRest
  <2> HIDE DEF g
  <2>5. AtRest(ClearMarks(g))
    BY <2>4, ClearMarksKeeps, KeepsRest DEF AtRest
  <2> QED
    BY <2>2, <2>5
<1> QED
  BY <1>1, <1>2

LEMMA ForgetRests == ASSUME NEW e, AtRest(e) PROVE AtRest(Forget(e))
<1> PICK c \in Nat : c = NoCurCol
  BY DEF NoCurCol
<1>1. Travels(e, [e EXCEPT !.at[e.curbuf].curcol = c])
  BY Columned DEF AtRest
<1>2. Forget(e) = [e EXCEPT !.at[e.curbuf].curcol = c]
  BY DEF Forget
<1> QED
  BY <1>1, <1>2, TravelsRest

----------------------------------------------------------------------------
(* The loops of the block commands.                                         *)

CopyFetch(f, i, junk) ==
  IF f.line1 + i > Len(f.lines[f.frombuf]) THEN junk ELSE f.lines[f.frombuf][f.line1 + i].text
CopyOne(a, i, junk) == IF a.bfull /\ i > 0 THEN a ELSE Blapp(a, CopyFetch(a, i, junk), "new")
CopyRun(e, junk, n) ==
  LET after[k \in 0 .. n] == IF k = 0 THEN e ELSE CopyOne(after[k - 1], k - 1, junk) IN after
DropRun(e, stackok, n) ==
  LET after[k \in 0 .. n] == IF k = 0 THEN e ELSE Bldel(after[k - 1], stackok) IN after

LEMMA CopyRunIs ==
  ASSUME NEW e, NEW junk, NEW n \in Nat
  PROVE  /\ CopyRun(e, junk, n)[0] = e
         /\ \A k \in 1 .. n : CopyRun(e, junk, n)[k] = CopyOne(CopyRun(e, junk, n)[k - 1], k - 1, junk)
<1> DEFINE Runs(c, m) ==
      c = [k \in 0 .. m |-> IF k = 0 THEN e ELSE CopyOne(c[k - 1], k - 1, junk)]
    T == {m \in Nat : \E c : Runs(c, m)}
<1>1. 0 \in T
  <2>1. PICK c : c = [k \in 0 .. 0 |-> e]
    OBVIOUS
  <2>2. \A k \in 0 .. 0 : k = 0
    OBVIOUS
  <2>3. Runs(c, 0)
    BY <2>1, <2>2
  <2> HIDE DEF Runs
  <2> QED
    BY <2>3
<1>2. ASSUME NEW m \in Nat, m \in T PROVE m + 1 \in T
  <2>1. PICK c : Runs(c, m)
    BY <1>2
  <2> PICK x : x = CopyOne(c[m], m, junk)
    OBVIOUS
  <2> PICK d : d = [k \in 0 .. m + 1 |-> IF k <= m THEN c[k] ELSE x]
    OBVIOUS
  <2>2. \A k \in 0 .. m : c[k] = IF k = 0 THEN e ELSE CopyOne(c[k - 1], k - 1, junk)
    BY <2>1
  <2> HIDE DEF Runs
  <2>3. ASSUME NEW k \in 0 .. m + 1
        PROVE  d[k] = IF k = 0 THEN e ELSE CopyOne(d[k - 1], k - 1, junk)
    <3>1. CASE k = 0
      BY <2>2, <3>1
    <3>2. CASE k \in 1 .. m
      <4>1. k \in 0 .. m /\ k # 0 /\ k - 1 \in 0 .. m /\ k - 1 \in 0 .. m + 1 /\ k <= m /\ k - 1 <= m
        BY <3>2
      <4>2. d[k] = c[k] /\ d[k - 1] = c[k - 1]
        BY <4>1
      <4> QED
        BY <2>2, <4>1, <4>2
    <3>3. CASE k = m + 1
      <4>1. k - 1 = m /\ m \in 0 .. m + 1 /\ ~ k <= m /\ k # 0 /\ m <= m
        BY <3>3
      <4>2. d[k] = x /\ d[m] = c[m]
        BY <4>1
      <4> QED
        BY <4>1, <4>2
    <3> QED
      BY <3>1, <3>2, <3>3
  <2>4. Runs(d, m + 1)
    <3>1. d = [k \in 0 .. m + 1 |-> d[k]]
      OBVIOUS
    <3> QED
      BY <2>3, <3>1 DEF Runs
  <2> QED
    BY <2>4
<1>3. n \in T
  <2> HIDE DEF T
  <2> QED
    BY <1>1, <1>2, Numbers!NumbersReached
<1>4. PICK d : Runs(d, n)
  BY <1>3
<1> PICK c : c = CHOOSE g : Runs(g, n)
  OBVIOUS
<1>5. Runs(c, n)
  <2> HIDE DEF Runs
  <2> QED
    BY <1>4
<1>6. CopyRun(e, junk, n) = c
  BY DEF CopyRun
<1>7. \A k \in 0 .. n : c[k] = IF k = 0 THEN e ELSE CopyOne(c[k - 1], k - 1, junk)
  BY <1>5
<1>8. 0 \in 0 .. n /\ \A k \in 1 .. n : k \in 0 .. n /\ k # 0
  OBVIOUS
<1> HIDE DEF Runs
<1> QED
  BY <1>6, <1>7, <1>8

LEMMA DropRunIs ==
  ASSUME NEW e, NEW stackok, NEW n \in Nat
  PROVE  /\ DropRun(e, stackok, n)[0] = e
         /\ \A k \in 1 .. n : DropRun(e, stackok, n)[k] = Bldel(DropRun(e, stackok, n)[k - 1], stackok)
<1> DEFINE Runs(c, m) ==
      c = [k \in 0 .. m |-> IF k = 0 THEN e ELSE Bldel(c[k - 1], stackok)]
    T == {m \in Nat : \E c : Runs(c, m)}
<1>1. 0 \in T
  <2>1. PICK c : c = [k \in 0 .. 0 |-> e]
    OBVIOUS
  <2>2. \A k \in 0 .. 0 : k = 0
    OBVIOUS
  <2>3. Runs(c, 0)
    BY <2>1, <2>2
  <2> HIDE DEF Runs
  <2> QED
    BY <2>3
<1>2. ASSUME NEW m \in Nat, m \in T PROVE m + 1 \in T
  <2>1. PICK c : Runs(c, m)
    BY <1>2
  <2> PICK x : x = Bldel(c[m], stackok)
    OBVIOUS
  <2> PICK d : d = [k \in 0 .. m + 1 |-> IF k <= m THEN c[k] ELSE x]
    OBVIOUS
  <2>2. \A k \in 0 .. m : c[k] = IF k = 0 THEN e ELSE Bldel(c[k - 1], stackok)
    BY <2>1
  <2> HIDE DEF Runs
  <2>3. ASSUME NEW k \in 0 .. m + 1
        PROVE  d[k] = IF k = 0 THEN e ELSE Bldel(d[k - 1], stackok)
    <3>1. CASE k = 0
      BY <2>2, <3>1
    <3>2. CASE k \in 1 .. m
      <4>1. k \in 0 .. m /\ k # 0 /\ k - 1 \in 0 .. m /\ k - 1 \in 0 .. m + 1 /\ k <= m /\ k - 1 <= m
        BY <3>2
      <4>2. d[k] = c[k] /\ d[k - 1] = c[k - 1]
        BY <4>1
      <4> QED
        BY <2>2, <4>1, <4>2
    <3>3. CASE k = m + 1
      <4>1. k - 1 = m /\ m \in 0 .. m + 1 /\ ~ k <= m /\ k # 0 /\ m <= m
        BY <3>3
      <4>2. d[k] = x /\ d[m] = c[m]
        BY <4>1
      <4> QED
        BY <4>1, <4>2
    <3> QED
      BY <3>1, <3>2, <3>3
  <2>4. Runs(d, m + 1)
    <3>1. d = [k \in 0 .. m + 1 |-> d[k]]
      OBVIOUS
    <3> QED
      BY <2>3, <3>1 DEF Runs
  <2> QED
    BY <2>4
<1>3. n \in T
  <2> HIDE DEF T
  <2> QED
    BY <1>1, <1>2, Numbers!NumbersReached
<1>4. PICK d : Runs(d, n)
  BY <1>3
<1> PICK c : c = CHOOSE g : Runs(g, n)
  OBVIOUS
<1>5. Runs(c, n)
  <2> HIDE DEF Runs
  <2> QED
    BY <1>4
<1>6. DropRun(e, stackok, n) = c
  BY DEF DropRun
<1>7. \A k \in 0 .. n : c[k] = IF k = 0 THEN e ELSE Bldel(c[k - 1], stackok)
  BY <1>5
<1>8. 0 \in 0 .. n /\ \A k \in 1 .. n : k \in 0 .. n /\ k # 0
  OBVIOUS
<1> HIDE DEF Runs
<1> QED
  BY <1>6, <1>7, <1>8

LEMMA CopyLinesIs ==
  ASSUME NEW e, NEW junk
  PROVE  CopyLines(e, junk) =
           SeekLeft(CopyRun(e, junk, e.line2 - e.line1 + 1)[e.line2 - e.line1 + 1], Here(e).line + 1)
  BY DEF CopyLines, CopyRun, CopyOne, CopyFetch

LEMMA DropBlockIs ==
  ASSUME NEW e, NEW stackok
  PROVE  DropBlock(e, stackok) =
           DropRun(SeekLeft(Switched(e, e.frombuf), e.line1), stackok,
                   e.line2 - e.line1 + 1)[e.line2 - e.line1 + 1]
  BY DEF DropBlock, DropRun, Switched


\* The marks of all lines changed by what they were.
Kinds == {"no", "in", "new"}
Relabelled(e, w) ==
  [b \in Bufs |-> [i \in DOMAIN e.lines[b] |->
     [e.lines[b][i] EXCEPT !.mark = w[e.lines[b][i].mark]]]]
Relabels(e, t, w) ==
  /\ t \in [Bufs -> Seq(Lines)]
  /\ \A b \in Bufs : /\ Len(t[b]) = Len(e.lines[b])
                     /\ \A i \in 1 .. Len(e.lines[b]) :
                          /\ t[b][i].text = e.lines[b][i].text
                          /\ t[b][i].mark = w[e.lines[b][i].mark]

LEMMA RelabelledIs ==
  ASSUME NEW e, Shaped(e), NEW w \in [Kinds -> Kinds]
  PROVE  Relabels(e, Relabelled(e, w), w)
<1>1. e.lines \in [Bufs -> Seq(Lines)]
  BY DEF Shaped, Editor
<1>2. PICK t : t = Relabelled(e, w)
  OBVIOUS
<1>3. ASSUME NEW b \in Bufs
      PROVE  /\ t[b] \in Seq(Lines) /\ Len(t[b]) = Len(e.lines[b])
             /\ \A i \in 1 .. Len(e.lines[b]) : /\ t[b][i].text = e.lines[b][i].text
                                                /\ t[b][i].mark = w[e.lines[b][i].mark]
  <2>1. PICK s \in Seq(Lines) : s = e.lines[b]
    BY <1>1
  <2>2. PICK n \in Nat : n = Len(s)
    BY <2>1
  <2>3. PICK m : m = [i \in 1 .. n |-> w[s[i].mark]]
    OBVIOUS
  <2>4. \A i \in 1 .. n : s[i].mark \in Kinds
    <3>1. \A i \in 1 .. n : s[i] \in Lines
      BY <2>1, <2>2
    <3> QED
      BY <3>1 DEF Lines, Kinds
  <2>5. m \in [1 .. Len(s) -> {"no", "in", "new"}]
    BY <2>2, <2>3, <2>4 DEF Kinds
  <2>6. t[b] = [i \in DOMAIN s |-> [s[i] EXCEPT !.mark = w[s[i].mark]]]
    BY <1>2, <2>1 DEF Relabelled
  <2>7. DOMAIN s = 1 .. n
    BY <2>1, <2>2
  <2>8. \A i \in 1 .. n : w[s[i].mark] = m[i]
    BY <2>3
  <2>9. t[b] = [i \in DOMAIN s |-> [s[i] EXCEPT !.mark = m[i]]]
    BY <2>6, <2>7, <2>8
  <2>10. Remark(s, m, t[b])
    BY <2>9 DEF Remark
  <2>11. PICK u : u = t[b]
    OBVIOUS
  <2>12. /\ u \in Seq(Lines) /\ Len(u) = Len(s)
         /\ \A i \in 1 .. Len(s) : u[i].text = s[i].text /\ u[i].mark = m[i]
    <3>1. s \in Seq(Lines)
      BY <2>1
    <3> QED
      BY <2>5, <2>10, <2>11, <3>1, Remarked
  <2> QED
    BY <2>1, <2>2, <2>8, <2>11, <2>12
<1>4. t \in [Bufs -> Seq(Lines)]
  <2>1. \A b \in Bufs : t[b] \in Seq(Lines)
    BY <1>3
  <2>2. t = [b \in Bufs |-> [i \in DOMAIN e.lines[b] |->
                [e.lines[b][i] EXCEPT !.mark = w[e.lines[b][i].mark]]]]
    BY <1>2 DEF Relabelled
  <2> QED
    BY <2>1, <2>2
<1> QED
  BY <1>2, <1>3, <1>4 DEF Relabels

LEMMA MarkKinds ==
  ASSUME NEW e, Shaped(e), NEW b \in Bufs, NEW i \in DOMAIN e.lines[b]
  PROVE  e.lines[b][i].mark \in Kinds
<1>1. PICK s \in Seq(Lines) : s = e.lines[b]
  BY DEF Shaped, Editor
<1>2. s[i] \in Lines
  BY <1>1
<1> QED
  BY <1>1, <1>2 DEF Lines, Kinds

SettledLines(e) ==
  [b \in Bufs |-> [i \in DOMAIN e.lines[b] |->
     [e.lines[b][i] EXCEPT !.mark = IF @ = "new" THEN "no" ELSE @]]]
ToNo == [m \in Kinds |-> IF m = "new" THEN "no" ELSE m]

LEMMA SettledRelabels ==
  ASSUME NEW e, Shaped(e) PROVE Relabels(e, SettledLines(e), ToNo)
<1>1. ToNo \in [Kinds -> Kinds]
  BY DEF ToNo, Kinds
<1>2. \A b \in Bufs : \A i \in DOMAIN e.lines[b] :
        ToNo[e.lines[b][i].mark] = IF e.lines[b][i].mark = "new" THEN "no" ELSE e.lines[b][i].mark
  BY MarkKinds DEF ToNo
<1>3. SettledLines(e) = Relabelled(e, ToNo)
  BY <1>2 DEF SettledLines, Relabelled
<1> QED
  BY <1>1, <1>3, RelabelledIs

\* After a copy.
LEMMA SettledRests ==
  ASSUME NEW e, Sound(e), e.curbuf \in Texts PROVE AtRest(Settled(e))
<1>1. PICK t : t = SettledLines(e)
  OBVIOUS
<1>2. Shaped(e) /\ e \in Editor /\ e.curbuf \in Bufs
  BY SoundHere DEF Shaped
<1>3. Relabels(e, t, ToNo)
  BY <1>1, <1>2, SettledRelabels
<1>4. PICK f : f = [e EXCEPT !.lines = t]
  OBVIOUS
<1>5. Settled(e) = f
  BY <1>1, <1>4 DEF Settled, SettledLines
<1>6. /\ f.lines = t /\ f.at = e.at /\ f.mod = e.mod /\ f.curbuf = e.curbuf
      /\ f.bfull = e.bfull /\ SameMarks(e, f)
  BY <1>2, <1>4 DEF Editor, SameMarks
<1>7. f \in Editor
  BY <1>2, <1>3, <1>4, <1>6 DEF Editor, SameMarks, Relabels
<1>8. SameTexts(e, f)
  BY <1>3, <1>6 DEF Relabels, SameTexts
<1>9. Shaped(f)
  BY <1>2, <1>7, <1>8 DEF Shaped, SameTexts
<1>10. \A b \in Bufs : \A i \in 1 .. Len(e.lines[b]) :
         /\ f.lines[b][i].mark = "in" <=> e.lines[b][i].mark = "in"
         /\ f.lines[b][i].mark # "new"
  <2> SUFFICES ASSUME NEW b \in Bufs, NEW i \in 1 .. Len(e.lines[b])
               PROVE  /\ f.lines[b][i].mark = "in" <=> e.lines[b][i].mark = "in"
                      /\ f.lines[b][i].mark # "new"
    OBVIOUS
  <2>1. i \in DOMAIN e.lines[b]
    BY <1>2 DEF Editor
  <2>2. e.lines[b][i].mark \in Kinds
    BY <1>2, <2>1, MarkKinds
  <2>3. f.lines[b][i].mark = ToNo[e.lines[b][i].mark]
    BY <1>3, <1>6 DEF Relabels
  <2> QED
    BY <2>2, <2>3 DEF ToNo, Kinds
<1>11. Ordered(f)
  BY <1>6, <1>8, <1>10 DEF Sound, Loose, Ordered, SameMarks, SameTexts
<1>12. Followed(f)
  <2> SUFFICES ASSUME f.exact PROVE
         /\ f.line1 # 0 => f.line1 <= Len(f.lines[f.frombuf])
         /\ f.ismarked => f.line2 <= Len(f.lines[f.frombuf])
         /\ f.ismarked => \A b \in Bufs : \A i \in 1 .. Len(f.lines[b]) :
              f.lines[b][i].mark = "in" <=> b = f.frombuf /\ i \in f.line1 .. f.line2
    BY DEF Followed
  <2>1. /\ e.line1 # 0 => e.line1 <= Len(e.lines[e.frombuf])
        /\ e.ismarked => e.line2 <= Len(e.lines[e.frombuf])
        /\ e.ismarked => \A b \in Bufs : \A i \in 1 .. Len(e.lines[b]) :
             e.lines[b][i].mark = "in" <=> b = e.frombuf /\ i \in e.line1 .. e.line2
    BY <1>6 DEF Sound, Loose, Followed, SameMarks
  <2>2. /\ e.line1 # 0 => e.frombuf \in Bufs
        /\ e.ismarked => e.frombuf \in Bufs
    BY DEF Sound, Loose, Ordered, Bufs
  <2> QED
    BY <1>6, <1>8, <1>10, <2>1, <2>2 DEF SameMarks, SameTexts
<1>13. \A b \in Bufs : OnText(f, b)
  <2>1. \A b \in Bufs : OnText(e, b) /\ f.at[b] = e.at[b]
    BY <1>6 DEF Sound, Loose
  <2> QED
    BY <1>8, <2>1, SameTextsOn
<1>14. Sound(f)
  BY <1>2, <1>6, <1>9, <1>11, <1>12, <1>13 DEF Sound, Loose
<1>15. NoNew(f)
  BY <1>8, <1>10 DEF NoNew, SameTexts
<1> QED
  BY <1>5, <1>6, <1>14, <1>15 DEF AtRest

----------------------------------------------------------------------------
(* The copies of a block.                                                   *)

\* What a copy keeps, whether its lines are followed or not.
Going(e, f) == Sound(f) /\ f.curbuf = e.curbuf /\ f.frombuf = e.frombuf /\ f.ismarked

LEMMA FetchIs ==
  ASSUME NEW a, Sound(a), a.ismarked, NEW i \in Nat, NEW junk \in Seq(Chars)
  PROVE  CopyFetch(a, i, junk) \in Seq(Chars)
<1>1. /\ a.frombuf \in Texts /\ a.frombuf \in Bufs /\ a.line1 \in Nat /\ 1 <= a.line1
  BY DEF Sound, Loose, Ordered, Shaped, Editor, Bufs
<1>2. PICK t \in Seq(Lines) : t = a.lines[a.frombuf]
  BY <1>1 DEF Sound, Loose, Shaped, Editor
<1>3. PICK k \in Nat : k = a.line1 + i /\ k >= 1
  BY <1>1
<1>4. CASE k > Len(t)
  BY <1>2, <1>3, <1>4 DEF CopyFetch
<1>5. CASE ~ k > Len(t)
  <2>1. k \in 1 .. Len(t)
    BY <1>2, <1>3, <1>5
  <2>2. t[k] \in Lines
    BY <2>1
  <2>3. t[k].text \in Seq(Chars)
    BY <2>2 DEF Lines
  <2> QED
    BY <1>2, <1>3, <1>5, <2>3 DEF CopyFetch
<1> QED
  BY <1>4, <1>5

LEMMA CopyOneGoing ==
  ASSUME NEW e, NEW a, Going(e, a), NEW i \in Nat, NEW junk \in Seq(Chars)
  PROVE  Going(e, CopyOne(a, i, junk))
<1>1. CASE a.bfull /\ i > 0
  BY <1>1 DEF CopyOne
<1>2. CASE ~ (a.bfull /\ i > 0)
  <2> DEFINE s == CopyFetch(a, i, junk)
             g == Blapp(a, s, "new")
  <2>1. s \in Seq(Chars)
    BY FetchIs DEF Going
  <2>2. CopyOne(a, i, junk) = g
    BY <1>2 DEF CopyOne
  <2> HIDE DEF s
  <2>3. Sound(a) /\ "new" \in {"no", "new"}
    BY DEF Going
  <2>4. (Full(a) => OnlyFull(a, g)) /\ (~ Full(a) => Added(a, g, Here(a).line, s, "new"))
    BY <2>1, <2>3, BlappIs
  <2> HIDE DEF g
  <2>5. Going(e, g)
    BY <2>4 DEF Going, OnlyFull, Alike, SameMarks, Added, MarksUp
  <2> QED
    BY <2>2, <2>5
<1> QED
  BY <1>1, <1>2

LEMMA CopyRunGoing ==
  ASSUME NEW e, Sound(e), e.ismarked, NEW junk \in Seq(Chars), NEW n \in Nat
  PROVE  Going(e, CopyRun(e, junk, n)[n])
<1> DEFINE run == CopyRun(e, junk, n)
           U == {m \in Nat : m <= n => Going(e, run[m])}
<1>1. run[0] = e /\ \A k \in 1 .. n : run[k] = CopyOne(run[k - 1], k - 1, junk)
  BY CopyRunIs
<1> HIDE DEF run
<1>2. 0 \in U
  BY <1>1 DEF Going
<1>3. ASSUME NEW m \in Nat, m \in U PROVE m + 1 \in U
  <2> SUFFICES ASSUME m + 1 <= n PROVE Going(e, run[m + 1])
    OBVIOUS
  <2>1. m + 1 \in 1 .. n /\ (m + 1) - 1 = m /\ Going(e, run[m])
    BY <1>3
  <2>2. run[m + 1] = CopyOne(run[m], m, junk)
    BY <1>1, <2>1
  <2> QED
    BY <2>1, <2>2, CopyOneGoing
<1>4. Nat \subseteq U
  <2> HIDE DEF U
  <2> QED
    BY <1>2, <1>3, Numbers!NumbersReached
<1>5. n \in U
  BY <1>4
<1> QED
  BY <1>5 DEF run

\* The length of a block.
LEMMA BlockLength ==
  ASSUME NEW e, Sound(e), e.ismarked
  PROVE  /\ e.line1 \in Nat \ {0} /\ e.line2 \in Nat \ {0} /\ e.line1 <= e.line2
         /\ e.line2 - e.line1 + 1 \in Nat \ {0}
         /\ e.frombuf \in Texts /\ e.frombuf \in Bufs
<1>1. e.line1 \in Nat /\ e.line2 \in Nat /\ e.frombuf \in Texts /\ 1 <= e.line1 /\ e.line1 <= e.line2
  BY DEF Sound, Loose, Ordered, Shaped, Editor
<1> QED
  BY <1>1 DEF Bufs

LEMMA CopyGoing ==
  ASSUME NEW e, Sound(e), e.ismarked, NEW junk \in Seq(Chars)
  PROVE  Going(e, CopyLines(e, junk))
<1> PICK n : n = e.line2 - e.line1 + 1
  OBVIOUS
<1> DEFINE a == CopyRun(e, junk, n)[n]
<1>1. n \in Nat
  BY BlockLength
<1>2. Going(e, a)
  BY <1>1, CopyRunGoing
<1>3. CopyLines(e, junk) = SeekLeft(a, Here(e).line + 1)
  BY CopyLinesIs
<1> HIDE DEF a
<1>4. Loose(a) /\ Here(e).line + 1 \in Nat \ {0}
  BY <1>2, SoundHere DEF Going, Sound
<1>5. Travels(a, SeekLeft(a, Here(e).line + 1))
  BY <1>4, SeekLeftTravels
<1> QED
  BY <1>2, <1>3, <1>5 DEF Going, Travels, Alike, SameMarks

LEMMA CopyRests ==
  ASSUME NEW e, AtRest(e), e.ismarked, NEW junk \in Seq(Chars)
  PROVE  AtRest(Settled(CopyLines(e, junk)))
<1>1. Going(e, CopyLines(e, junk))
  BY CopyGoing DEF AtRest
<1> QED
  BY <1>1, SettledRests DEF Going, AtRest

----------------------------------------------------------------------------
(* The lines of a block dropped.                                            *)

LEMMA DropRunKeeps ==
  ASSUME NEW e, Sound(e), NEW stackok \in BOOLEAN, NEW n \in Nat
  PROVE  Keeps(e, DropRun(e, stackok, n)[n])
<1> DEFINE run == DropRun(e, stackok, n)
           U == {m \in Nat : m <= n => Keeps(e, run[m])}
<1>1. run[0] = e /\ \A k \in 1 .. n : run[k] = Bldel(run[k - 1], stackok)
  BY DropRunIs
<1> HIDE DEF run
<1>2. 0 \in U
  BY <1>1, KeepsSelf
<1>3. ASSUME NEW m \in Nat, m \in U PROVE m + 1 \in U
  <2> SUFFICES ASSUME m + 1 <= n PROVE Keeps(e, run[m + 1])
    OBVIOUS
  <2>1. m + 1 \in 1 .. n /\ (m + 1) - 1 = m /\ Keeps(e, run[m])
    BY <1>3
  <2>2. run[m + 1] = Bldel(run[m], stackok)
    BY <1>1, <2>1
  <2>3. Sound(run[m])
    BY <2>1 DEF Keeps
  <2> QED
    BY <2>1, <2>2, <2>3, BldelKeeps, KeepsTwice
<1>4. Nat \subseteq U
  <2> HIDE DEF U
  <2> QED
    BY <1>2, <1>3, Numbers!NumbersReached
<1>5. n \in U
  BY <1>4
<1> QED
  BY <1>5 DEF run

LEMMA DropBlockSound ==
  ASSUME NEW e, Sound(e), e.ismarked, NEW stackok \in BOOLEAN
  PROVE  Sound(DropBlock(e, stackok)) /\ (NoNew(e) => NoNew(DropBlock(e, stackok)))
<1> PICK n : n = e.line2 - e.line1 + 1
  OBVIOUS
<1> DEFINE d == Switched(e, e.frombuf)
           there == SeekLeft(d, e.line1)
           f == DropRun(there, stackok, n)[n]
<1>1. n \in Nat /\ e.line1 \in Nat \ {0} /\ e.frombuf \in Bufs
  BY BlockLength
<1>2. DropBlock(e, stackok) = f
  BY DropBlockIs
<1>3. Sound(d) /\ (NoNew(e) <=> NoNew(d))
  BY <1>1, SwitchKeeps
<1> HIDE DEF d
<1>4. Keeps(d, there)
  BY <1>1, <1>3, SeekLeftKeeps
<1> HIDE DEF there
<1>5. Keeps(there, f)
  BY <1>1, <1>4, DropRunKeeps DEF Keeps
<1> HIDE DEF f
<1> QED
  BY <1>2, <1>3, <1>4, <1>5 DEF Keeps

LEMMA DeleteRests ==
  ASSUME NEW e, AtRest(e), e.ismarked PROVE AtRest(DeleteLines(e))
<1> PICK stackok \in BOOLEAN : stackok = TRUE
  OBVIOUS
<1> DEFINE f == DropBlock(e, stackok)
<1>1. Sound(f) /\ NoNew(f) /\ Sound(e)
  BY DropBlockSound DEF AtRest
<1>2. DeleteLines(e) = Switched(f, e.curbuf)
  BY DEF DeleteLines, Switched
<1> HIDE DEF f
<1>3. Keeps(e, Switched(f, e.curbuf))
  BY <1>1, KeptAcross
<1> QED
  BY <1>2, <1>3, KeepsRest


----------------------------------------------------------------------------
(* The block moved: its copies are followed from the one place to the other. *)

\* The lines lo .. hi of buffer c are copies, and no others.
NewAt(f, c, lo, hi) ==
  \A b \in Bufs : \A i \in 1 .. Len(f.lines[b]) :
    f.lines[b][i].mark = "new" <=> b = c /\ i \in lo .. hi

LEMMA AddedNew ==
  ASSUME NEW a, NEW g, Shaped(a), NEW n \in 0 .. Count(a), NEW s, NEW lo \in Nat, lo <= n + 1,
         Added(a, g, n, s, "new"), NewAt(a, a.curbuf, lo, n), ~ Between(a, n)
  PROVE  NewAt(g, a.curbuf, lo, n + 1)
<1>1. a.curbuf \in Bufs
  BY DEF Shaped, Editor
<1>2. PICK c \in Nat : c = Len(a.lines[a.curbuf])
  BY <1>1 DEF Shaped, Editor
<1>3. n \in 0 .. c
  BY <1>2 DEF Count
<1>4. ASSUME NEW b \in Bufs, NEW i \in 1 .. Len(g.lines[b])
      PROVE  g.lines[b][i].mark = "new" <=> b = a.curbuf /\ i \in lo .. n + 1
  <2>1. CASE b # a.curbuf
    <3>1. g.lines[b] = a.lines[b]
      BY <2>1 DEF Added, LinesUp
    <3> QED
      BY <1>4, <2>1, <3>1 DEF NewAt
  <2>2. CASE b = a.curbuf
    <3>1. i \in 1 .. c + 1
      BY <1>2, <1>4, <2>2 DEF Added, LinesUp
    <3>2. CASE i <= n
      <4>1. i \in 1 .. n /\ i \in 1 .. c
        BY <1>3, <3>1, <3>2
      <4>2. g.lines[b][i] = a.lines[b][i]
        BY <2>2, <4>1 DEF Added, LinesUp
      <4>3. a.lines[b][i].mark = "new" <=> i \in lo .. n
        BY <1>1, <1>2, <2>2, <4>1 DEF NewAt
      <4>4. i \in lo .. n <=> i \in lo .. n + 1
        BY <1>3, <3>1, <3>2
      <4> QED
        BY <2>2, <4>2, <4>3, <4>4
    <3>3. CASE i = n + 1
      <4>1. g.lines[b][i].mark = "new"
        BY <2>2, <3>3 DEF Added, LinesUp, Kind
      <4>2. i \in lo .. n + 1
        BY <1>3, <3>3
      <4> QED
        BY <2>2, <4>1, <4>2
    <3>4. CASE i > n + 1
      <4>1. i - 1 \in n + 1 .. c /\ i - 1 \in 1 .. c /\ (i - 1) + 1 = i
        BY <1>3, <3>1, <3>4
      <4>2. g.lines[b][i] = a.lines[b][i - 1]
        BY <1>2, <2>2, <4>1 DEF Added, LinesUp
      <4>3. a.lines[b][i - 1].mark = "new" <=> i - 1 \in lo .. n
        BY <1>1, <1>2, <2>2, <4>1 DEF NewAt
      <4>4. i - 1 \notin lo .. n /\ i \notin lo .. n + 1
        BY <1>3, <3>1, <3>4
      <4> QED
        BY <2>2, <4>2, <4>3, <4>4
    <3> QED
      BY <1>3, <3>1, <3>2, <3>3, <3>4
  <2> QED
    BY <2>1, <2>2
<1> QED
  BY <1>4 DEF NewAt

BlockLen(e) == e.line2 - e.line1 + 1
Shift(e, k) == IF e.frombuf = e.curbuf /\ Here(e).line < e.line1 THEN k ELSE 0

\* The first k lines of the block of e have been copied.
Copied(e, a, k) ==
  /\ Going(e, a) /\ a.exact /\ NewAt(a, e.curbuf, Here(e).line + 1, Here(e).line + k)
  /\ Count(a) = Count(e) + k
  /\ a.line1 = e.line1 + Shift(e, k) /\ a.line2 = e.line2 + Shift(e, k)

LEMMA CopyOneCopied ==
  ASSUME NEW e, Sound(e), MayCopy(e), NEW k \in Nat, NEW a, Copied(e, a, k),
         Here(a).line = Here(e).line + k, k = 0 \/ ~ a.bfull, NEW junk \in Seq(Chars)
  PROVE  \/ CopyOne(a, k, junk).bfull
         \/ Copied(e, CopyOne(a, k, junk), k + 1) /\ ~ CopyOne(a, k, junk).bfull
            /\ Here(CopyOne(a, k, junk)).line = Here(e).line + (k + 1)
<1> DEFINE s == CopyFetch(a, k, junk)
           g == Blapp(a, s, "new")
<1> PICK h : h = Here(e).line
  OBVIOUS
<1> PICK n : n = h + k
  OBVIOUS
<1>1. CopyOne(a, k, junk) = g
  BY DEF CopyOne
<1>2. s \in Seq(Chars) /\ Sound(a) /\ a.ismarked /\ a.exact
  BY FetchIs DEF Copied, Going
<1> HIDE DEF s
<1>3. (Full(a) => OnlyFull(a, g)) /\ (~ Full(a) => Added(a, g, Here(a).line, s, "new"))
  <2>1. "new" \in {"no", "new"}
    OBVIOUS
  <2> QED
    BY <1>2, <2>1, BlappIs
<1> HIDE DEF g
<1>4. CASE Full(a)
  BY <1>1, <1>3, <1>4 DEF OnlyFull
<1>5. CASE ~ Full(a)
  <2>1. Added(a, g, n, s, "new") /\ Here(a).line = n
    BY <1>3, <1>5
  <2>2. h \in Nat /\ n \in 0 .. Count(a) /\ n \in Nat /\ Count(a) \in Nat /\ a.curbuf = e.curbuf
        /\ a.frombuf = e.frombuf /\ a.curbuf \in Bufs
        /\ Count(e) \in Nat /\ Shaped(a)
    <3>1. h \in Nat /\ Count(e) \in Nat
      BY SoundHere
    <3>2. Here(a).line \in 1 .. Count(a) /\ Count(a) \in Nat /\ Shaped(a) /\ a.curbuf \in Bufs
      BY <1>2, SoundHere
    <3> QED
      BY <2>1, <3>1, <3>2 DEF Copied, Going
  <2>3. /\ e.line1 \in Nat /\ e.line2 \in Nat /\ 1 <= e.line1 /\ e.line1 <= e.line2
    BY BlockLength DEF MayCopy
  <2>4. e.frombuf = e.curbuf => h < e.line1 \/ h >= e.line2
    BY <2>2, <2>3 DEF MayCopy, BadTarget
  <2>5. /\ a.line1 = e.line1 + Shift(e, k) /\ a.line2 = e.line2 + Shift(e, k)
    BY DEF Copied
  <2>6. e.frombuf # e.curbuf \/ n < a.line1 \/ n >= a.line2
    <3>1. CASE e.frombuf = e.curbuf /\ h < e.line1
      BY <2>2, <2>3, <2>5, <3>1 DEF Shift
    <3>2. CASE e.frombuf = e.curbuf /\ ~ h < e.line1
      BY <2>2, <2>3, <2>4, <2>5, <3>2 DEF Shift
    <3> QED
      BY <3>1, <3>2
  <2>7. ~ Between(a, n)
    <3>1. Ordered(a) /\ Followed(a)
      BY <1>2 DEF Sound, Loose
    <3> QED
      BY <1>2, <2>2, <2>6, <3>1, NotBetween
  <2>8. NewAt(a, a.curbuf, h + 1, n)
    BY <2>2 DEF Copied
  <2>9. NewAt(g, a.curbuf, h + 1, n + 1)
    <3>1. h + 1 \in Nat /\ h + 1 <= n + 1
      BY <2>2
    <3> QED
      BY <2>1, <2>2, <2>7, <2>8, <3>1, AddedNew
  <2>10. n + 1 = h + (k + 1)
    BY <2>2, SMTT(30)
  <2>11. /\ Sound(g) /\ g.curbuf = a.curbuf /\ ~ g.bfull /\ Here(g).line = n + 1
         /\ Len(g.lines[a.curbuf]) = Len(a.lines[a.curbuf]) + 1 /\ MarksUp(a, g, n)
    BY <2>1 DEF Added, LinesUp
  <2>12. g.frombuf = a.frombuf /\ g.ismarked /\ g.exact
    BY <1>2, <2>11 DEF MarksUp
  <2>13. Count(g) = Count(e) + (k + 1)
    <3>1. Count(a) = Count(e) + k
      BY DEF Copied
    <3>2. Count(g) = Count(a) + 1
      BY <2>11 DEF Count
    <3> QED
      BY <2>2, <3>1, <3>2
  <2>14. g.line1 = e.line1 + Shift(e, k + 1) /\ g.line2 = e.line2 + Shift(e, k + 1)
    <3>1. CASE e.frombuf # e.curbuf
      <4>1. ~ Tracked(a)
        BY <2>2, <3>1 DEF Tracked
      <4> QED
        BY <2>5, <2>11, <3>1, <4>1 DEF MarksUp, Shift
    <3>2. CASE e.frombuf = e.curbuf /\ h < e.line1
      <4>1. Tracked(a)
        BY <1>2, <2>2, <3>2 DEF Tracked
      <4>2. a.line1 = e.line1 + k /\ a.line2 = e.line2 + k
        BY <2>5, <3>2 DEF Shift
      <4>3. a.line1 # 0 /\ n < a.line1 /\ a.line2 # 0 /\ n < a.line2
        BY <2>2, <2>3, <3>2, <4>2, SMTT(30)
      <4>4. g.line1 = a.line1 + 1 /\ g.line2 = a.line2 + 1
        BY <2>11, <4>1, <4>3 DEF MarksUp
      <4>5. Shift(e, k + 1) = k + 1
        BY <3>2 DEF Shift
      <4> QED
        BY <2>3, <4>2, <4>4, <4>5
    <3>3. CASE e.frombuf = e.curbuf /\ ~ h < e.line1
      <4>1. Tracked(a)
        BY <1>2, <2>2, <3>3 DEF Tracked
      <4>2. a.line1 = e.line1 /\ a.line2 = e.line2
        BY <2>3, <2>5, <3>3 DEF Shift
      <4>3. ~ n < a.line1 /\ ~ n < a.line2
        BY <2>2, <2>3, <2>4, <3>3, <4>2
      <4>4. g.line1 = a.line1 /\ g.line2 = a.line2
        BY <2>11, <4>1, <4>3 DEF MarksUp
      <4>5. Shift(e, k + 1) = 0
        BY <3>3 DEF Shift
      <4> QED
        BY <2>3, <4>2, <4>4, <4>5
    <3> QED
      BY <3>1, <3>2, <3>3
  <2>15. Going(e, g)
    BY <2>2, <2>11, <2>12 DEF Going
  <2>16. Copied(e, g, k + 1)
    BY <2>2, <2>9, <2>10, <2>12, <2>13, <2>14, <2>15 DEF Copied
  <2> QED
    BY <1>1, <2>10, <2>11, <2>16
<1> QED
  BY <1>4, <1>5

\* A copy that has not run out of memory is one of the whole block.
LEMMA CopyCopied ==
  ASSUME NEW e, AtRest(e), e.exact, MayCopy(e), NEW junk \in Seq(Chars),
         ~ CopyLines(e, junk).bfull
  PROVE  Copied(e, CopyLines(e, junk), BlockLen(e))
<1> PICK n : n = BlockLen(e)
  OBVIOUS
<1> DEFINE run == CopyRun(e, junk, n)
           V(m) == \/ m > 0 /\ run[m].bfull
                   \/ /\ Copied(e, run[m], m) /\ Here(run[m]).line = Here(e).line + m
                      /\ m = 0 \/ ~ run[m].bfull
           U == {m \in Nat : m <= n => V(m)}
<1>1. Sound(e) /\ NoNew(e) /\ e.ismarked /\ n \in Nat \ {0}
  BY BlockLength DEF AtRest, MayCopy, BlockLen
<1>2. run[0] = e /\ \A k \in 1 .. n : run[k] = CopyOne(run[k - 1], k - 1, junk)
  BY <1>1, CopyRunIs
<1>3. CopyLines(e, junk) = SeekLeft(run[n], Here(e).line + 1)
  BY CopyLinesIs DEF BlockLen
<1> HIDE DEF run
<1>4. Here(e).line \in Nat /\ Count(e) \in Nat /\ e.line1 \in Nat /\ e.line2 \in Nat
  BY <1>1, SoundHere, BlockLength
<1>5. 0 \in U
  <2>1. Shift(e, 0) = 0
    BY DEF Shift
  <2>2. Going(e, e)
    BY <1>1 DEF Going
  <2>3. NewAt(e, e.curbuf, Here(e).line + 1, Here(e).line + 0)
    BY <1>1, <1>4 DEF NewAt, NoNew
  <2>4. Count(e) = Count(e) + 0 /\ e.line1 = e.line1 + 0 /\ e.line2 = e.line2 + 0
        /\ Here(e).line = Here(e).line + 0
    BY <1>4
  <2>5. Copied(e, e, 0)
    BY <2>1, <2>2, <2>3, <2>4 DEF Copied
  <2> QED
    BY <1>2, <2>4, <2>5
<1>6. ASSUME NEW m \in Nat, m \in U PROVE m + 1 \in U
  <2> SUFFICES ASSUME m + 1 <= n PROVE V(m + 1)
    OBVIOUS
  <2>1. m + 1 \in 1 .. n /\ (m + 1) - 1 = m /\ V(m) /\ m + 1 > 0
    <3>1. m + 1 \in 1 .. n /\ (m + 1) - 1 = m /\ m <= n /\ m + 1 > 0
      BY <1>1
    <3> HIDE DEF V
    <3> QED
      BY <1>6, <3>1
  <2>2. run[m + 1] = CopyOne(run[m], m, junk)
    BY <1>2, <2>1
  <2>3. CASE m > 0 /\ run[m].bfull
    BY <2>1, <2>2, <2>3 DEF CopyOne
  <2>4. CASE /\ Copied(e, run[m], m) /\ Here(run[m]).line = Here(e).line + m
             /\ m = 0 \/ ~ run[m].bfull
    <3>1. \/ CopyOne(run[m], m, junk).bfull
          \/ Copied(e, CopyOne(run[m], m, junk), m + 1) /\ ~ CopyOne(run[m], m, junk).bfull
             /\ Here(CopyOne(run[m], m, junk)).line = Here(e).line + (m + 1)
      BY <1>1, <2>4, CopyOneCopied
    <3> QED
      BY <2>1, <2>2, <3>1
  <2> QED
    BY <2>1, <2>3, <2>4
<1>7. Nat \subseteq U
  <2> HIDE DEF U
  <2> QED
    BY <1>5, <1>6, Numbers!NumbersReached
<1>8. V(n)
  BY <1>1, <1>7
<1> PICK a : a = run[n]
  OBVIOUS
<1> PICK c : c = CopyLines(e, junk)
  OBVIOUS
<1>9. Going(e, a)
  BY <1>1, CopyRunGoing DEF run
<1>10. Travels(a, c)
  <2>1. Loose(a) /\ Here(e).line + 1 \in Nat \ {0}
    BY <1>4, <1>9 DEF Going, Sound
  <2> QED
    BY <1>3, <2>1, SeekLeftTravels
<1>11. c.bfull = a.bfull
  BY <1>10 DEF Travels
<1>12. Copied(e, a, n)
  BY <1>1, <1>8, <1>11
<1>13. Copied(e, c, n)
  <2>1. Going(e, c) /\ c.exact /\ c.line1 = a.line1 /\ c.line2 = a.line2
    BY <1>10, <1>12 DEF Copied, Going, Travels, Alike, SameMarks
  <2>2. c.lines = a.lines /\ c.curbuf = a.curbuf
    BY <1>10 DEF Travels, Alike
  <2> QED
    BY <1>12, <2>1, <2>2 DEF Copied, NewAt, Count
<1> QED
  BY <1>13


LEMMA DroppedElsewhere ==
  ASSUME NEW a, Shaped(a), NEW g, NEW n \in 1 .. Count(a), Dropped(a, g, n),
         NEW c, c # a.curbuf, NEW lo, NEW hi, NewAt(a, c, lo, hi)
  PROVE  NewAt(g, c, lo, hi)
<1>1. a.curbuf \in Bufs
  BY DEF Shaped, Editor
<1>2. PICK l \in Nat : l = Len(a.lines[a.curbuf])
  BY <1>1 DEF Shaped, Editor
<1>3. n \in 1 .. l
  BY <1>2 DEF Count
<1>4. ASSUME NEW b \in Bufs, NEW i \in 1 .. Len(g.lines[b])
      PROVE  g.lines[b][i].mark = "new" <=> b = c /\ i \in lo .. hi
  <2>1. CASE b # a.curbuf
    <3>1. i \in 1 .. Len(a.lines[b]) /\ Twin(a.lines[b][i], g.lines[b][i])
      BY <1>4, <2>1 DEF Dropped
    <3> QED
      BY <3>1 DEF NewAt, Twin
  <2>2. CASE b = a.curbuf /\ l = 1
    <3>1. Count(a) = 1
      BY <1>2, <2>2 DEF Count
    <3>2. Len(g.lines[a.curbuf]) = 1 /\ g.lines[a.curbuf][1].mark # "new"
      BY <3>1 DEF Dropped
    <3>3. i = 1
      BY <1>4, <2>2, <3>2
    <3> QED
      BY <2>2, <3>2, <3>3
  <2>3. CASE b = a.curbuf /\ l # 1
    <3>1. /\ Len(g.lines[a.curbuf]) = l - 1
          /\ \A k \in 1 .. n - 1 : Twin(a.lines[a.curbuf][k], g.lines[a.curbuf][k])
          /\ \A k \in n .. l - 1 : Twin(a.lines[a.curbuf][k + 1], g.lines[a.curbuf][k])
      BY <1>2, <2>3 DEF Dropped, Count
    <3>2. i \in 1 .. l - 1
      BY <1>4, <2>3, <3>1
    <3>3. CASE i < n
      <4>1. i \in 1 .. n - 1 /\ i \in 1 .. l
        BY <1>3, <3>2, <3>3
      <4> QED
        BY <1>1, <1>2, <2>3, <3>1, <4>1 DEF NewAt, Twin
    <3>4. CASE i >= n
      <4>1. i \in n .. l - 1 /\ i + 1 \in 1 .. l
        BY <1>3, <3>2, <3>4
      <4> QED
        BY <1>1, <1>2, <2>3, <3>1, <4>1 DEF NewAt, Twin
    <3> QED
      BY <1>3, <3>2, <3>3, <3>4
  <2> QED
    BY <2>1, <2>2, <2>3
<1> QED
  BY <1>4 DEF NewAt

\* Without line n, what has been lo .. hi is lo2 .. hi2.
Closes(n, lo, hi, lo2, hi2) ==
  /\ \A i \in 1 .. n - 1 : i \in lo .. hi <=> i \in lo2 .. hi2
  /\ \A i \in Nat : i >= n => (i + 1 \in lo .. hi <=> i \in lo2 .. hi2)

LEMMA DroppedHere ==
  ASSUME NEW a, Shaped(a), NEW g, NEW n \in 1 .. Count(a), Count(a) # 1, Dropped(a, g, n),
         NEW lo \in Nat, NEW hi \in Nat, NEW lo2 \in Nat, NEW hi2 \in Nat,
         NewAt(a, a.curbuf, lo, hi), Closes(n, lo, hi, lo2, hi2)
  PROVE  NewAt(g, a.curbuf, lo2, hi2)
<1>1. a.curbuf \in Bufs
  BY DEF Shaped, Editor
<1>2. PICK l \in Nat : l = Len(a.lines[a.curbuf])
  BY <1>1 DEF Shaped, Editor
<1>3. n \in 1 .. l /\ n \in Nat
  BY <1>2 DEF Count
<1>4. ASSUME NEW b \in Bufs, NEW i \in 1 .. Len(g.lines[b])
      PROVE  g.lines[b][i].mark = "new" <=> b = a.curbuf /\ i \in lo2 .. hi2
  <2>1. CASE b # a.curbuf
    <3>1. i \in 1 .. Len(a.lines[b]) /\ Twin(a.lines[b][i], g.lines[b][i])
      BY <1>4, <2>1 DEF Dropped
    <3> QED
      BY <2>1, <3>1 DEF NewAt, Twin
  <2>3. CASE b = a.curbuf
    <3>1. /\ Len(g.lines[a.curbuf]) = l - 1
          /\ \A k \in 1 .. n - 1 : Twin(a.lines[a.curbuf][k], g.lines[a.curbuf][k])
          /\ \A k \in n .. l - 1 : Twin(a.lines[a.curbuf][k + 1], g.lines[a.curbuf][k])
      BY <1>2, <2>3 DEF Dropped, Count
    <3>2. i \in 1 .. l - 1
      BY <1>4, <2>3, <3>1
    <3>3. CASE i < n
      <4>1. i \in 1 .. n - 1 /\ i \in 1 .. l
        BY <1>3, <3>2, <3>3
      <4>2. a.lines[a.curbuf][i].mark = "new" <=> i \in lo .. hi
        BY <1>1, <1>2, <4>1 DEF NewAt
      <4> QED
        BY <2>3, <3>1, <4>1, <4>2 DEF Twin, Closes
    <3>4. CASE i >= n
      <4>1. i \in n .. l - 1 /\ i + 1 \in 1 .. l /\ i \in Nat
        BY <1>3, <3>2, <3>4
      <4>2. a.lines[a.curbuf][i + 1].mark = "new" <=> i + 1 \in lo .. hi
        BY <1>1, <1>2, <4>1 DEF NewAt
      <4>3. i + 1 \in lo .. hi <=> i \in lo2 .. hi2
        BY <3>4, <4>1 DEF Closes
      <4> QED
        BY <2>3, <3>1, <4>1, <4>2, <4>3 DEF Twin
    <3> QED
      BY <1>3, <3>2, <3>3, <3>4
  <2> QED
    BY <2>1, <2>3
<1> QED
  BY <1>4 DEF NewAt

\* The first line of the copies when j lines of the block are gone.
Lo(e, j) == IF e.frombuf = e.curbuf /\ Here(e).line > e.line2
            THEN Here(e).line + 1 - j ELSE Here(e).line + 1

Dropping(e, a, j) ==
  /\ Sound(a) /\ a.curbuf = e.frombuf
  /\ NewAt(a, e.curbuf, Lo(e, j), Lo(e, j) + BlockLen(e) - 1)
  /\ e.frombuf # e.curbuf => Len(a.lines[e.curbuf]) = Count(e) + BlockLen(e)
  /\ e.frombuf = e.curbuf =>
       /\ Len(a.lines[e.curbuf]) = Count(e) + BlockLen(e) - j
       /\ j < BlockLen(e) => Here(a).line = e.line1 + Shift(e, BlockLen(e))

LEMMA DroppingStep ==
  ASSUME NEW e, Sound(e), e.exact, MayMove(e), NEW j \in Nat, j < BlockLen(e),
         NEW a, Dropping(e, a, j), NEW stackok, ~ stackok
  PROVE  Dropping(e, Bldel(a, stackok), j + 1)
<1> DEFINE g == DropLine(a)
<1> PICK h : h = Here(e).line
  OBVIOUS
<1> PICK n : n = Here(a).line
  OBVIOUS
<1> PICK k : k = BlockLen(e)
  OBVIOUS
<1> PICK c : c = Count(e)
  OBVIOUS
<1>1. /\ Sound(a) /\ Shaped(a) /\ a.curbuf = e.frombuf /\ a.curbuf \in Bufs
      /\ n \in 1 .. Count(a) /\ Count(a) \in Nat /\ n \in Nat
  BY SoundHere DEF Dropping
<1>2. /\ h \in 1 .. c /\ c \in Nat /\ h \in Nat /\ e.curbuf \in Bufs
  BY SoundHere
<1>3. /\ e.line1 \in Nat \ {0} /\ e.line2 \in Nat \ {0} /\ e.line1 <= e.line2
      /\ k = e.line2 - e.line1 + 1 /\ k \in Nat \ {0} /\ e.ismarked
  BY BlockLength DEF MayMove, MayCopy, BlockLen
<1>4. Bldel(a, stackok) = IF Count(a) = 1 /\ Text(a) = <<>> THEN a ELSE g
  BY DEF Bldel
<1>5. ~ (Count(a) = 1 /\ Text(a) = <<>>) => Dropped(a, g, n)
  BY <1>1, DropLineIs
<1> HIDE DEF g
<1>6. NewAt(a, e.curbuf, Lo(e, j), Lo(e, j) + k - 1)
  BY DEF Dropping
<1>7. CASE e.frombuf # e.curbuf
  <2>1. Lo(e, j + 1) = Lo(e, j) /\ Len(a.lines[e.curbuf]) = c + k
    BY <1>7 DEF Dropping, Lo
  <2>2. CASE Count(a) = 1 /\ Text(a) = <<>>
    BY <1>1, <1>4, <1>6, <1>7, <2>1, <2>2 DEF Dropping
  <2>3. CASE ~ (Count(a) = 1 /\ Text(a) = <<>>)
    <3>1. Dropped(a, g, n)
      BY <1>5, <2>3
    <3>2. NewAt(g, e.curbuf, Lo(e, j), Lo(e, j) + k - 1)
      <4> PICK lo : lo = Lo(e, j)
        OBVIOUS
      <4> PICK hi : hi = lo + k - 1
        OBVIOUS
      <4>1. NewAt(a, e.curbuf, lo, hi) /\ e.curbuf # a.curbuf
        BY <1>1, <1>6, <1>7
      <4>2. NewAt(g, e.curbuf, lo, hi)
        BY <1>1, <3>1, <4>1, DroppedElsewhere
      <4> QED
        BY <4>2
    <3>3. Len(g.lines[e.curbuf]) = c + k /\ Sound(g) /\ g.curbuf = e.frombuf
      BY <1>1, <1>2, <1>7, <2>1, <3>1 DEF Dropped
    <3> QED
      BY <1>4, <1>7, <2>1, <2>3, <3>2, <3>3 DEF Dropping
  <2> QED
    BY <2>2, <2>3
<1>8. CASE e.frombuf = e.curbuf
  <2>1. Count(a) = c + k - j /\ n = e.line1 + Shift(e, k)
    BY <1>1, <1>8 DEF Dropping, Count
  <2>2. j < k /\ e.line2 <= c
    BY <1>3, <1>8 DEF Sound, Loose, Followed, Count
  <2>3. Count(a) # 1
    BY <1>2, <1>3, <2>1, <2>2
  <2>4. Dropped(a, g, n) /\ Bldel(a, stackok) = g
    BY <1>4, <1>5, <2>3
  <2>5. h < e.line1 \/ h > e.line2
    BY <1>2, <1>3, <1>8 DEF MayMove, MayCopy, BadTarget
  <2>6. /\ Sound(g) /\ g.curbuf = e.frombuf /\ Count(g) = c + k - (j + 1)
        /\ Here(g).line = Clamp(g, n)
    <3>1. Count(g) = Count(a) - 1
      BY <2>3, <2>4 DEF Dropped, Count
    <3> QED
      BY <1>1, <1>2, <1>3, <2>1, <2>4, <3>1 DEF Dropped
  <2>7. NewAt(g, e.curbuf, Lo(e, j + 1), Lo(e, j + 1) + k - 1)
    <3>1. CASE h > e.line2
      <4>1. Lo(e, j) = h + 1 - j /\ Lo(e, j + 1) = h - j /\ n = e.line1
        <5>1. Lo(e, j + 1) = h + 1 - (j + 1) /\ Lo(e, j) = h + 1 - j
          BY <1>8, <3>1 DEF Lo
        <5>2. Shift(e, k) = 0
          BY <1>2, <1>3, <1>8, <3>1 DEF Shift
        <5> QED
          BY <1>2, <1>3, <2>1, <5>1, <5>2
      <4> PICK lo : lo = h + 1 - j
        OBVIOUS
      <4> PICK hi : hi = h - j + k
        OBVIOUS
      <4>2. lo \in Nat /\ hi \in Nat /\ lo - 1 \in Nat /\ hi - 1 \in Nat /\ n < lo - 1
        BY <1>2, <1>3, <2>2, <3>1, <4>1
      <4>3. /\ Lo(e, j) = lo /\ Lo(e, j) + k - 1 = hi
            /\ Lo(e, j + 1) = lo - 1 /\ Lo(e, j + 1) + k - 1 = hi - 1
        BY <1>2, <1>3, <4>1
      <4>4. \A i \in 1 .. n - 1 : i \in lo .. hi <=> i \in lo - 1 .. hi - 1
        BY <1>1, <4>2
      <4>5. \A i \in Nat : i >= n => (i + 1 \in lo .. hi <=> i \in lo - 1 .. hi - 1)
        BY <1>1, <4>2
      <4>6. NewAt(a, a.curbuf, lo, hi)
        BY <1>1, <1>6, <1>8, <4>3
      <4>7. NewAt(g, a.curbuf, lo - 1, hi - 1)
        <5> PICK lo2 \in Nat : lo2 = lo - 1
          BY <4>2
        <5> PICK hi2 \in Nat : hi2 = hi - 1
          BY <4>2
        <5>1. Closes(n, lo, hi, lo2, hi2)
          BY <4>4, <4>5 DEF Closes
        <5>2. lo \in Nat /\ hi \in Nat
          BY <4>2
        <5>3. NewAt(g, a.curbuf, lo2, hi2)
          BY <1>1, <2>3, <2>4, <4>6, <5>1, <5>2, DroppedHere
        <5> QED
          BY <5>3
      <4> QED
        BY <1>1, <1>8, <4>3, <4>7
    <3>2. CASE h < e.line1
      <4>1. Lo(e, j) = h + 1 /\ Lo(e, j + 1) = h + 1 /\ n = e.line1 + k
        <5>1. ~ h > e.line2
          BY <1>2, <1>3, <3>2
        <5>2. Shift(e, k) = k
          BY <1>8, <3>2 DEF Shift
        <5> QED
          BY <2>1, <5>1, <5>2 DEF Lo
      <4> PICK lo : lo = h + 1
        OBVIOUS
      <4> PICK hi : hi = h + k
        OBVIOUS
      <4>2. lo \in Nat /\ hi \in Nat /\ hi < n
        BY <1>2, <1>3, <3>2, <4>1
      <4>3. Lo(e, j) = lo /\ Lo(e, j + 1) = lo /\ lo + k - 1 = hi
        BY <1>2, <1>3, <4>1
      <4>4. Closes(n, lo, hi, lo, hi)
        BY <1>1, <4>2 DEF Closes
      <4>5. NewAt(a, a.curbuf, lo, hi)
        BY <1>1, <1>6, <1>8, <4>3
      <4>6. NewAt(g, a.curbuf, lo, hi)
        BY <1>1, <2>3, <2>4, <4>2, <4>4, <4>5, DroppedHere
      <4> QED
        BY <1>1, <1>8, <4>3, <4>6
    <3> QED
      BY <2>5, <3>1, <3>2
  <2>8. j + 1 < k => Here(g).line = n
    <3> SUFFICES ASSUME j + 1 < k PROVE n <= Count(g)
      <4>1. Count(g) \in Nat
        BY <2>6, SoundHere
      <4> QED
        BY <1>1, <2>6, <4>1 DEF Clamp
    <3>1. CASE h > e.line2
      <4>1. Shift(e, k) = 0
        BY <1>2, <1>3, <1>8, <3>1 DEF Shift
      <4> QED
        BY <1>2, <1>3, <2>1, <2>2, <2>6, <4>1
    <3>2. CASE h < e.line1
      <4>1. Shift(e, k) = k
        BY <1>8, <3>2 DEF Shift
      <4> QED
        BY <1>2, <1>3, <2>1, <2>2, <2>6, <4>1
    <3> QED
      BY <2>5, <3>1, <3>2
  <2>9. Len(g.lines[e.curbuf]) = c + k - (j + 1)
    BY <1>8, <2>6 DEF Count
  <2> QED
    BY <1>8, <2>1, <2>4, <2>6, <2>7, <2>8, <2>9 DEF Dropping
<1> QED
  BY <1>7, <1>8


LEMMA BlockDropping ==
  ASSUME NEW e, AtRest(e), e.exact, MayMove(e), NEW c, Copied(e, c, BlockLen(e)),
         NEW stackok, ~ stackok
  PROVE  Dropping(e, DropBlock(c, stackok), BlockLen(e))
<1> PICK n : n = BlockLen(e)
  OBVIOUS
<1> DEFINE d == Switched(c, c.frombuf)
           there == SeekLeft(d, c.line1)
           run == DropRun(there, stackok, n)
           U == {m \in Nat : m <= n => Dropping(e, run[m], m)}
<1>1. /\ Sound(e) /\ e.line1 \in Nat \ {0} /\ e.line2 \in Nat \ {0} /\ e.line1 <= e.line2
      /\ n = e.line2 - e.line1 + 1 /\ n \in Nat \ {0}
      /\ e.frombuf \in Bufs /\ Here(e).line \in Nat /\ Count(e) \in Nat /\ e.curbuf \in Bufs
  BY BlockLength, SoundHere DEF AtRest, MayMove, MayCopy, BlockLen
<1>2. /\ Sound(c) /\ c.ismarked /\ c.exact /\ c.frombuf = e.frombuf /\ c.curbuf = e.curbuf
      /\ c.line1 = e.line1 + Shift(e, n) /\ c.line2 = e.line2 + Shift(e, n)
      /\ Len(c.lines[e.curbuf]) = Count(e) + n
      /\ NewAt(c, e.curbuf, Here(e).line + 1, Here(e).line + n)
  BY DEF Copied, Going, Count
<1>3. Shift(e, n) \in Nat
  BY <1>1 DEF Shift
<1>4. c.line1 \in Nat \ {0} /\ c.line1 <= c.line2 /\ c.line2 - c.line1 + 1 = n
  <2>1. PICK l1 \in Nat \ {0} : l1 = e.line1
    BY <1>1
  <2>2. PICK l2 \in Nat \ {0} : l2 = e.line2
    BY <1>1
  <2>3. PICK t \in Nat : t = Shift(e, n)
    BY <1>3
  <2>4. c.line1 = l1 + t /\ c.line2 = l2 + t /\ l1 <= l2 /\ n = l2 - l1 + 1
    BY <1>1, <1>2, <2>1, <2>2, <2>3
  <2> QED
    BY <2>4
<1>5. DropBlock(c, stackok) = run[n]
  BY <1>4, DropBlockIs
<1>6. Sound(d) /\ d.curbuf = e.frombuf /\ d.lines = c.lines
  BY <1>1, <1>2, SwitchedIs
<1> HIDE DEF d
<1>7. Travels(d, there) /\ Here(there).line = Clamp(d, c.line1)
  BY <1>4, <1>6, SeekLeftTravels DEF Sound
<1> HIDE DEF there
<1>8. Here(there).line = c.line1
  <2>1. c.line2 <= Len(c.lines[c.frombuf])
    BY <1>2 DEF Sound, Loose, Followed
  <2>2. c.line2 <= Count(d) /\ Count(d) \in Nat /\ c.line2 \in Nat
    BY <1>2, <1>6, <2>1, SoundHere DEF Count, Sound, Loose, Shaped, Editor
  <2>3. c.line1 <= Count(d)
    BY <1>4, <2>2
  <2> QED
    BY <1>4, <1>7, <2>2, <2>3 DEF Clamp
<1>9. there.lines = c.lines /\ there.curbuf = e.frombuf /\ Sound(there)
  BY <1>6, <1>7 DEF Travels, Alike
<1>10. Dropping(e, there, 0)
  <2>1. Lo(e, 0) = Here(e).line + 1 /\ Lo(e, 0) + n - 1 = Here(e).line + n
    BY <1>1 DEF Lo
  <2>2. NewAt(there, e.curbuf, Lo(e, 0), Lo(e, 0) + n - 1)
    BY <1>2, <1>9, <2>1 DEF NewAt
  <2>3. Len(there.lines[e.curbuf]) = Count(e) + n /\ Count(e) + n = Count(e) + n - 0
    BY <1>1, <1>2, <1>9
  <2> QED
    BY <1>2, <1>8, <1>9, <2>2, <2>3 DEF Dropping
<1>11. run[0] = there /\ \A k \in 1 .. n : run[k] = Bldel(run[k - 1], stackok)
  BY <1>1, DropRunIs
<1> HIDE DEF run
<1>12. 0 \in U
  BY <1>10, <1>11
<1>13. ASSUME NEW m \in Nat, m \in U PROVE m + 1 \in U
  <2> SUFFICES ASSUME m + 1 <= n PROVE Dropping(e, run[m + 1], m + 1)
    OBVIOUS
  <2>1. m + 1 \in 1 .. n /\ (m + 1) - 1 = m /\ m < BlockLen(e) /\ Dropping(e, run[m], m)
    BY <1>1, <1>13
  <2>2. run[m + 1] = Bldel(run[m], stackok)
    BY <1>11, <2>1
  <2> QED
    BY <1>1, <2>1, <2>2, DroppingStep
<1>14. Nat \subseteq U
  <2> HIDE DEF U
  <2> QED
    BY <1>12, <1>13, Numbers!NumbersReached
<1>15. n \in U
  BY <1>1, <1>14
<1> QED
  BY <1>1, <1>5, <1>15

MovedLines(e) ==
  [b \in Bufs |-> [i \in DOMAIN e.lines[b] |->
     [e.lines[b][i] EXCEPT !.mark = IF @ = "new" THEN "in" ELSE "no"]]]
ToIn == [m \in Kinds |-> IF m = "new" THEN "in" ELSE "no"]

LEMMA MovedRelabels ==
  ASSUME NEW e, Shaped(e) PROVE Relabels(e, MovedLines(e), ToIn)
<1>1. ToIn \in [Kinds -> Kinds]
  BY DEF ToIn, Kinds
<1>2. \A b \in Bufs : \A i \in DOMAIN e.lines[b] :
        ToIn[e.lines[b][i].mark] = IF e.lines[b][i].mark = "new" THEN "in" ELSE "no"
  BY MarkKinds DEF ToIn
<1>3. MovedLines(e) = Relabelled(e, ToIn)
  BY <1>2 DEF MovedLines, Relabelled
<1> QED
  BY <1>1, <1>3, RelabelledIs

\* The copies taken for the block: c is the buffer, behind line h, k the length.
Taken(e, c, h, k, x) ==
  [e EXCEPT !.curbuf = c, !.frombuf = c, !.ismarked = TRUE, !.line1 = h + 1, !.line2 = h + k,
            !.exact = x, !.lines = MovedLines(e)]

LEMMA TakenRests ==
  ASSUME NEW e, Sound(e), NEW c \in Texts, NEW h \in Nat, NEW k \in Nat \ {0}, NEW x \in BOOLEAN,
         x => NewAt(e, c, h + 1, h + k) /\ h + k <= Len(e.lines[c])
  PROVE  AtRest(Taken(e, c, h, k, x)) /\ Taken(e, c, h, k, x).curbuf = c
<1>1. PICK t : t = MovedLines(e)
  OBVIOUS
<1>2. PICK l1 \in Nat : l1 = h + 1
  OBVIOUS
<1>3. PICK l2 \in Nat : l2 = h + k
  OBVIOUS
<1>4. 1 <= l1 /\ l1 <= l2
  BY <1>2, <1>3
<1>5. PICK f : f = [e EXCEPT !.curbuf = c, !.frombuf = c, !.ismarked = TRUE, !.line1 = l1, !.line2 = l2,
                             !.exact = x, !.lines = t]
  OBVIOUS
<1>6. Taken(e, c, h, k, x) = f
  BY <1>1, <1>2, <1>3, <1>5 DEF Taken
<1>7. Shaped(e) /\ e \in Editor /\ c \in Bufs
  BY SoundHere DEF Shaped, Bufs
<1>8. Relabels(e, t, ToIn)
  BY <1>1, <1>7, MovedRelabels
<1>9. /\ f.lines = t /\ f.at = e.at /\ f.mod = e.mod /\ f.curbuf = c /\ f.frombuf = c
      /\ f.bfull = e.bfull /\ f.ismarked = TRUE /\ f.line1 = l1 /\ f.line2 = l2
      /\ f.exact = x /\ f.mkpos = e.mkpos
  BY <1>5, <1>7 DEF Editor
<1>10. f \in Editor
  BY <1>5, <1>7, <1>8, <1>9 DEF Editor, Relabels
<1>11. SameTexts(e, f)
  BY <1>8, <1>9 DEF Relabels, SameTexts
<1>12. Shaped(f)
  BY <1>7, <1>10, <1>11 DEF Shaped, SameTexts
<1>13. \A b \in Bufs : \A i \in 1 .. Len(e.lines[b]) :
         /\ f.lines[b][i].mark = "in" <=> e.lines[b][i].mark = "new"
         /\ f.lines[b][i].mark # "new"
  <2> SUFFICES ASSUME NEW b \in Bufs, NEW i \in 1 .. Len(e.lines[b])
               PROVE  /\ f.lines[b][i].mark = "in" <=> e.lines[b][i].mark = "new"
                      /\ f.lines[b][i].mark # "new"
    OBVIOUS
  <2>1. i \in DOMAIN e.lines[b]
    BY <1>7 DEF Editor
  <2>2. e.lines[b][i].mark \in Kinds
    BY <1>7, <2>1, MarkKinds
  <2>3. f.lines[b][i].mark = ToIn[e.lines[b][i].mark]
    BY <1>8, <1>9 DEF Relabels
  <2> QED
    BY <2>2, <2>3 DEF ToIn, Kinds
<1>14. Ordered(f)
  BY <1>4, <1>9 DEF Ordered
<1>15. Followed(f)
  <2> SUFFICES ASSUME x
               PROVE  /\ l1 <= Len(f.lines[c]) /\ l2 <= Len(f.lines[c])
                      /\ \A b \in Bufs : \A i \in 1 .. Len(f.lines[b]) :
                           f.lines[b][i].mark = "in" <=> b = c /\ i \in l1 .. l2
    BY <1>9 DEF Followed
  <2>1. NewAt(e, c, l1, l2) /\ l2 <= Len(e.lines[c])
    BY <1>2, <1>3
  <2>2. Len(f.lines[c]) = Len(e.lines[c]) /\ Len(e.lines[c]) \in Nat
    BY <1>7, <1>11 DEF SameTexts, Editor
  <2>3. l1 <= Len(f.lines[c]) /\ l2 <= Len(f.lines[c])
    BY <1>4, <2>1, <2>2
  <2> QED
    BY <1>11, <1>13, <2>1, <2>3 DEF NewAt, SameTexts
<1>16. \A b \in Bufs : OnText(f, b)
  <2>1. \A b \in Bufs : OnText(e, b) /\ f.at[b] = e.at[b]
    BY <1>9 DEF Sound, Loose
  <2> QED
    BY <1>11, <2>1, SameTextsOn
<1>17. Sound(f)
  BY <1>7, <1>9, <1>12, <1>14, <1>15, <1>16 DEF Sound, Loose
<1>18. NoNew(f)
  BY <1>11, <1>13 DEF NoNew, SameTexts
<1> QED
  BY <1>6, <1>9, <1>17, <1>18 DEF AtRest

LEMMA MoveRests ==
  ASSUME NEW e, AtRest(e), MayMove(e), NEW junk \in Seq(Chars)
  PROVE  AtRest(MoveLines(e, junk))
<1> PICK k : k = BlockLen(e)
  OBVIOUS
<1> PICK stackok \in BOOLEAN : stackok = FALSE
  OBVIOUS
<1> PICK h : h = IF e.frombuf = e.curbuf /\ Here(e).line > e.line2
                 THEN Here(e).line - k ELSE Here(e).line
  OBVIOUS
<1> DEFINE copied == CopyLines(e, junk)
           dropped == DropBlock(copied, stackok)
           back == IF copied.line1 > 1 THEN SeekLeft(dropped, copied.line1 - 1) ELSE dropped
           x == e.exact /\ ~ copied.bfull
           moved == Taken(back, e.curbuf, h, k, x)
<1>1. /\ Sound(e) /\ e.line1 \in Nat \ {0} /\ e.line2 \in Nat \ {0} /\ e.line1 <= e.line2
      /\ k = e.line2 - e.line1 + 1 /\ k \in Nat \ {0} /\ e.ismarked
      /\ e.frombuf \in Bufs /\ Here(e).line \in 1 .. Count(e) /\ Count(e) \in Nat
      /\ e.curbuf \in Bufs /\ e.curbuf \in Texts
  BY BlockLength, SoundHere DEF AtRest, MayMove, MayCopy, BlockLen
<1>2. h \in Nat /\ h + 1 \in Nat \ {0}
  <2>1. CASE e.frombuf = e.curbuf /\ Here(e).line > e.line2
    <3>1. h = Here(e).line - k
      BY <2>1
    <3> QED
      BY <1>1, <2>1, <3>1
  <2>2. CASE ~ (e.frombuf = e.curbuf /\ Here(e).line > e.line2)
    <3>1. h = Here(e).line
      BY <2>2
    <3> QED
      BY <1>1, <3>1
  <2> QED
    BY <2>1, <2>2
<1>3. MoveLines(e, junk) = SeekLeft(moved, h + 1)
  BY DEF MoveLines, Taken, MovedLines, BlockLen
<1>4. Going(e, copied)
  BY <1>1, CopyGoing
<1>5. ASSUME x PROVE Copied(e, copied, k)
  BY <1>5, CopyCopied DEF MayMove
<1>11. x \in BOOLEAN
  <2>1. e.exact \in BOOLEAN
    BY <1>1 DEF Sound, Loose, Shaped, Editor
  <2> QED
    BY <2>1
<1>12. x => e.exact
  OBVIOUS
<1> HIDE DEF x, copied
<1>6. Sound(dropped) /\ Sound(copied)
  BY <1>4, DropBlockSound DEF Going
<1>7. ASSUME x PROVE Dropping(e, dropped, k)
  BY <1>5, <1>7, <1>12, BlockDropping
<1> HIDE DEF dropped
<1>8. Sound(back) /\ back.lines = dropped.lines
  <2>1. CASE copied.line1 > 1
    <3>1. copied.line1 \in Nat
      BY <1>6 DEF Sound, Loose, Shaped, Editor
    <3>2. copied.line1 - 1 \in Nat \ {0}
      BY <2>1, <3>1
    <3>3. Travels(dropped, SeekLeft(dropped, copied.line1 - 1))
      BY <1>6, <3>2, SeekLeftTravels DEF Sound
    <3> QED
      BY <2>1, <3>3 DEF Travels
  <2>2. CASE ~ copied.line1 > 1
    BY <1>6, <2>2
  <2> QED
    BY <2>1, <2>2
<1> HIDE DEF back
<1>9. ASSUME x PROVE NewAt(back, e.curbuf, h + 1, h + k) /\ h + k <= Len(back.lines[e.curbuf])
  <2>1. Dropping(e, dropped, k)
    BY <1>7, <1>9
  <2>2. Lo(e, k) = h + 1 /\ Lo(e, k) + k - 1 = h + k
    BY <1>1, SMTT(30) DEF Lo
  <2>3. NewAt(back, e.curbuf, h + 1, h + k)
    BY <1>8, <2>1, <2>2 DEF Dropping, NewAt
  <2>4. h + k <= Len(back.lines[e.curbuf])
    <3>1. CASE e.frombuf # e.curbuf
      <4>1. Len(back.lines[e.curbuf]) = Count(e) + k /\ h = Here(e).line
        BY <1>8, <2>1, <3>1 DEF Dropping
      <4> QED
        BY <1>1, <4>1
    <3>2. CASE e.frombuf = e.curbuf
      <4>1. Len(back.lines[e.curbuf]) = Count(e) + k - k
        BY <1>8, <2>1, <3>2 DEF Dropping
      <4>2. e.line2 <= Count(e)
        BY <1>1, <1>9, <1>12, <3>2 DEF Sound, Loose, Followed, Count
      <4>3. Here(e).line < e.line1 \/ Here(e).line > e.line2
        BY <1>1, <3>2 DEF MayMove, MayCopy, BadTarget
      <4>4. CASE Here(e).line > e.line2
        <5>1. h + k = Here(e).line
          BY <1>1, <3>2, <4>4
        <5> QED
          BY <1>1, <4>1, <5>1
      <4>5. CASE Here(e).line < e.line1
        <5>1. h = Here(e).line
          BY <1>1, <4>5
        <5> QED
          <6>1. PICK l1 \in Nat \ {0} : l1 = e.line1
            BY <1>1
          <6>2. PICK l2 \in Nat \ {0} : l2 = e.line2
            BY <1>1
          <6>3. PICK c \in Nat : c = Count(e)
            BY <1>1
          <6>4. h < l1 /\ k = l2 - l1 + 1 /\ l2 <= c
            BY <1>1, <4>2, <4>5, <5>1, <6>1, <6>2, <6>3
          <6>5. h + k <= c /\ c + k - k = c
            BY <1>1, <1>2, <6>4
          <6> QED
            BY <4>1, <6>3, <6>5
      <4> QED
        BY <4>3, <4>4, <4>5
    <3> QED
      BY <3>1, <3>2
  <2> QED
    BY <2>3, <2>4
<1>10. AtRest(moved)
  BY <1>1, <1>2, <1>8, <1>9, <1>11, TakenRests
<1> HIDE DEF moved
<1>13. Keeps(moved, SeekLeft(moved, h + 1))
  BY <1>2, <1>10, SeekLeftKeeps DEF AtRest
<1> QED
  BY <1>3, <1>10, <1>13, KeepsRest


----------------------------------------------------------------------------
(* The keys.                                                                *)

LEMMA InitRests ==
  ASSUME NEW load \in [Texts -> Loaded] PROVE AtRest(InitEd(load))
<1> PICK cur : cur = CHOOSE b \in Texts : TRUE
  OBVIOUS
<1> DEFINE t == [b \in Bufs |-> IF b = BD THEN <<Line(<<>>, "no")>>
                                ELSE [i \in DOMAIN load[b] |-> Line(load[b][i], "no")]]
           a == [b \in Bufs |-> [line |-> 1, pos |-> 1, col |-> 1, curcol |-> NoCurCol]]
           m == [b \in Bufs |-> FALSE]
           f == [lines |-> t, at |-> a, mod |-> m, curbuf |-> cur, frombuf |-> BNONE,
                 line1 |-> 0, line2 |-> 0, mkpos |-> 1, ismarked |-> FALSE, bfull |-> FALSE,
                 exact |-> TRUE]
<1>1. cur \in Texts /\ cur \in Bufs
  BY BufferAssumption DEF Bufs
<1>2. InitEd(load) = f
  BY DEF InitEd
<1>3. ASSUME NEW s \in Seq(Chars)
      PROVE  /\ Line(s, "no") \in Lines /\ Line(s, "no").text = s /\ Line(s, "no").mark = "no"
  BY DEF Line, Lines
<1>4. ASSUME NEW b \in Bufs
      PROVE  /\ t[b] \in Seq(Lines) /\ Len(t[b]) >= 1
             /\ \A i \in 1 .. Len(t[b]) : t[b][i].mark = "no" /\ t[b][i].text \in Seq(Chars)
  <2>1. CASE b = BD
    <3>1. <<>> \in Seq(Chars)
      OBVIOUS
    <3>2. PICK x : x = Line(<<>>, "no")
      OBVIOUS
    <3>3. x \in Lines /\ x.text = <<>> /\ x.mark = "no"
      BY <1>3, <3>1, <3>2
    <3>4. PICK u : u = <<x>>
      OBVIOUS
    <3>5. t[b] = u
      BY <2>1, <3>2, <3>4
    <3>6. u \in Seq(Lines) /\ Len(u) = 1 /\ u[1] = x
      BY <3>3, <3>4
    <3>7. ASSUME NEW i \in 1 .. Len(u) PROVE u[i] = x
      BY <3>6
    <3>8. PICK w : w = t[b]
      OBVIOUS
    <3>9. w \in Seq(Lines) /\ Len(w) = 1 /\ \A i \in 1 .. Len(w) : w[i] = x
      BY <3>5, <3>6, <3>7, <3>8
    <3> HIDE DEF t
    <3>10. \A i \in 1 .. Len(w) : w[i].mark = "no" /\ w[i].text \in Seq(Chars)
      BY <3>1, <3>3, <3>9
    <3> QED
      BY <3>8, <3>9, <3>10
  <2>2. CASE b # BD
    <3>1. load[b] \in Loaded
      BY <2>2 DEF Bufs
    <3>2. load[b] # <<>> /\ load[b] \in Seq(Seq({Alnum, Space, Tab}))
      BY <3>1, BufferAssumption
    <3>3. PICK s \in Seq(Seq(Chars)) : s = load[b] /\ s # <<>>
      BY <3>2 DEF Chars
    <3>4. PICK n \in Nat : n = Len(s)
      BY <3>3
    <3>5. n >= 1
      BY <3>3, <3>4
    <3>6. PICK u : u = [i \in 1 .. n |-> Line(s[i], "no")]
      OBVIOUS
    <3>7. t[b] = u
      BY <2>2, <3>3, <3>4, <3>6
    <3>8. \A i \in 1 .. n : s[i] \in Seq(Chars)
      BY <3>3, <3>4
    <3>9. \A i \in 1 .. n : u[i] \in Lines /\ u[i].text \in Seq(Chars) /\ u[i].mark = "no"
      BY <1>3, <3>6, <3>8
    <3>10. u \in [1 .. n -> Lines]
      BY <3>6, <3>9
    <3>11. u \in Seq(Lines) /\ Len(u) = n
      BY <3>10, SeqDef
    <3> QED
      BY <3>5, <3>7, <3>9, <3>11
  <2> QED
    BY <2>1, <2>2
<1>5. t \in [Bufs -> Seq(Lines)]
  <2>1. \A b \in Bufs : t[b] \in Seq(Lines)
    BY <1>4
  <2>2. PICK u : u = t
    OBVIOUS
  <2>3. DOMAIN u = Bufs /\ u = [b \in Bufs |-> u[b]]
    BY <2>2
  <2> HIDE DEF t
  <2> QED
    BY <2>1, <2>2, <2>3
<1>6. a \in [Bufs -> Spots] /\ m \in [Bufs -> BOOLEAN]
  BY DEF Spots, NoCurCol
<1> HIDE DEF t
<1>7. \A b \in Bufs : a[b].line = 1 /\ a[b].pos = 1 /\ a[b].col = 1
  OBVIOUS
<1> HIDE DEF a, m
<1>8. f \in Editor
  BY <1>1, <1>5, <1>6 DEF Editor
<1>9. /\ f.lines = t /\ f.at = a /\ f.curbuf = cur /\ f.frombuf = BNONE /\ f.line1 = 0
      /\ f.line2 = 0 /\ ~ f.ismarked
  OBVIOUS
<1> HIDE DEF f
<1>10. Shaped(f)
  BY <1>4, <1>8, <1>9 DEF Shaped
<1>11. Ordered(f) /\ Followed(f) /\ NoNew(f)
  BY <1>4, <1>9 DEF Ordered, Followed, NoNew
<1>12. ASSUME NEW b \in Bufs PROVE OnText(f, b)
  <2>1. Len(t[b]) >= 1 /\ Len(t[b]) \in Nat
    BY <1>4
  <2>2. 1 \in 1 .. Len(t[b])
    BY <2>1
  <2>3. t[b][1].text \in Seq(Chars)
    BY <1>4, <2>2
  <2>4. TabCol(t[b][1].text, 1) = 1 /\ 1 \in 1 .. Len(t[b][1].text) + 1
    BY <2>3, TabColIs
  <2> QED
    BY <1>7, <1>9, <2>2, <2>4 DEF OnText
<1>13. Sound(f)
  BY <1>1, <1>9, <1>10, <1>11, <1>12 DEF Sound, Loose
<1>14. AtRest(f)
  BY <1>1, <1>9, <1>11, <1>13 DEF AtRest
<1> QED
  BY <1>2, <1>14

\* Every key leaves the editor at rest.
LEMMA KeysRest ==
  ASSUME AtRest(ed), Next PROVE AtRest(ed')
<1> DEFINE e == Forget(ed)
<1>1. Sound(ed)
  BY DEF AtRest
<1>2. AtRest(e)
  BY ForgetRests
<1> HIDE DEF e
<1>3. Sound(e) /\ e.curbuf \in Texts /\ e.curbuf # BD
  BY <1>2, BufferAssumption DEF AtRest
<1>4. Loose(e) /\ Here(e).line \in Nat \ {0} /\ Count(e) \in Nat \ {0}
  <2>1. Here(e).line \in 1 .. Count(e) /\ Count(e) \in Nat \ {0}
    BY <1>3, SoundHere
  <2> QED
    BY <1>3, <2>1 DEF Sound
<1>5. Count(ed) \in Nat \ {0} /\ Here(ed).line \in Nat \ {0}
  <2>1. Here(ed).line \in 1 .. Count(ed) /\ Count(ed) \in Nat \ {0}
    BY <1>1, SoundHere
  <2> QED
    BY <2>1
<1>6. ASSUME NEW s \in {<<>>, <<Alnum>>} PROVE s \in Seq(Chars)
  <2>1. Alnum \in Chars
    BY DEF Chars
  <2>2. <<Alnum>> \in Seq(Chars)
    BY <2>1
  <2>3. <<>> \in Seq(Chars)
    OBVIOUS
  <2> QED
    BY <2>2, <2>3
<1>10. CASE KUp \/ KDown
  <2>1. ed' = Up(ed) \/ ed' = Down(ed)
    BY <1>10 DEF KUp, KDown
  <2> QED
    BY <1>1, <2>1, UpDown, TravelsRest
<1>11. CASE KLeft \/ KRight
  <2>1. ed' = Left(e) \/ ed' = Right(e)
    BY <1>11 DEF KLeft, KRight, e
  <2> QED
    BY <1>2, <1>3, <2>1, LeftRight, TravelsRest
<1>12. CASE KLWord \/ KRWord
  <2>1. ed' = WordLeft(e) \/ ed' = WordRight(e)
    BY <1>12 DEF KLWord, KRWord, e
  <2> QED
    BY <1>2, <1>3, <2>1, WordsTravel, TravelsRest
<1>13. CASE KHome \/ KBgn
  <2>1. PICK n \in Nat \ {0} : ed' = SeekLeft(e, n)
    BY <1>5, <1>13 DEF KHome, KBgn, e
  <2> QED
    BY <1>2, <1>4, <2>1, SeekLeftTravels, TravelsRest
<1>14. CASE KDownHome \/ KEnd
  <2>1. PICK n \in Nat \ {0} : ed' = SeekRight(e, n)
    BY <1>5, <1>14 DEF KDownHome, KEnd, e
  <2> QED
    BY <1>2, <1>4, <2>1, SeekRightTravels, TravelsRest
<1>15. CASE KGo
  <2>1. (\E n \in 1 .. Count(ed) : ed' = SeekLeft(e, n)) \/ ed' = GoMark(e)
    BY <1>15 DEF KGo, e
  <2>2. ASSUME NEW n \in 1 .. Count(ed), ed' = SeekLeft(e, n) PROVE AtRest(ed')
    <3>1. n \in Nat \ {0}
      BY <1>5
    <3> QED
      BY <1>2, <1>4, <2>2, <3>1, SeekLeftTravels, TravelsRest
  <2> QED
    BY <1>2, <2>1, <2>2, GoMarkRests
<1>16. CASE KBuf
  <2>1. PICK b \in Texts : ed' = Switched(e, b)
    BY <1>16 DEF KBuf, e, Switched
  <2>2. b \in Bufs
    BY DEF Bufs
  <2> QED
    BY <1>2, <1>3, <2>1, <2>2, SwitchKeeps DEF AtRest
<1>17. CASE KDc
  <2>1. ed' = Bcdel(e)
    BY <1>17 DEF KDc, e
  <2> QED
    BY <1>2, <1>3, <2>1, BcdelKeeps, KeepsRest
<1>18. CASE KDl
  <2>1. PICK stackok \in BOOLEAN : ed' = Bldel(e, stackok)
    BY <1>18 DEF KDl, e
  <2> QED
    BY <1>2, <1>3, <2>1, BldelKeeps, KeepsRest
<1>19. CASE KApp \/ KIns
  <2>1. PICK s \in Seq(Chars) : ed' = Blapp(e, s, "no") \/ ed' = Blins(e, s)
    BY <1>6, <1>19 DEF KApp, KIns, e
  <2> QED
    BY <1>2, <1>3, <2>1, BlappKeeps, BlinsKeeps, KeepsRest
<1>20. CASE KUndo
  <2>1. ed' = Bdelpop(e)
    BY <1>20 DEF KUndo, e
  <2> QED
    BY <1>2, <1>3, <2>1, BdelpopKeeps, KeepsRest
<1>21. CASE KDle
  <2>1. ed' = Bfancydel(e)
    BY <1>21 DEF KDle, e
  <2> QED
    BY <1>2, <1>3, <2>1, FancydelKeeps, KeepsRest
<1>22. CASE KEnter
  <2>1. ed' = Split(e)
    BY <1>22 DEF KEnter, e
  <2> QED
    BY <1>2, <1>3, <2>1, SplitKeeps, KeepsRest
<1>23. CASE KBackSpace
  <2>1. ed' = BackSpace(e)
    BY <1>23 DEF KBackSpace, e
  <2> QED
    BY <1>2, <1>3, <2>1, BackSpaceKeeps, KeepsRest
<1>24. CASE KLit
  <2>1. PICK c \in Chars, overtype \in BOOLEAN : ed' = Bcins(e, c, overtype)
    BY <1>24 DEF KLit, e
  <2> QED
    BY <1>2, <1>3, <2>1, BcinsKeeps, KeepsRest
<1>25. CASE KMark
  <2>1. ed' = Mark(e)
    BY <1>25 DEF KMark, e
  <2> QED
    BY <1>2, <1>3, <2>1, MarkKeeps, KeepsRest
<1> DEFINE same == /\ e.ismarked = ed.ismarked /\ e.curbuf = ed.curbuf /\ e.frombuf = ed.frombuf
                   /\ e.line1 = ed.line1 /\ e.line2 = ed.line2 /\ Here(e).line = Here(ed).line
<1>26. same
  <2> PICK c \in Nat : c = NoCurCol
    BY DEF NoCurCol
  <2>1. e = [ed EXCEPT !.at[ed.curbuf].curcol = c]
    BY DEF e, Forget
  <2>2. Travels(ed, e) /\ Here(e) = [Here(ed) EXCEPT !.curcol = c]
    BY <1>1, <2>1, Columned
  <2>3. Here(ed) \in Spots
    BY <1>1 DEF Sound, Loose, Shaped, Editor, Here
  <2>4. Here(e).line = Here(ed).line
    BY <2>2, <2>3 DEF Spots
  <2> QED
    BY <2>2, <2>4 DEF Travels, Alike, SameMarks
<1>27. MayCopy(ed) = MayCopy(e) /\ MayMove(ed) = MayMove(e)
  BY <1>26 DEF MayCopy, MayMove, BadTarget
<1>28. CASE KCopy
  <2>1. CASE MayCopy(ed)
    <3>1. PICK junk \in {<<>>, <<Alnum>>} : ed' = Settled(CopyLines(e, junk))
      BY <1>28, <2>1 DEF KCopy, e
    <3>2. e.ismarked
      BY <1>26, <2>1 DEF MayCopy
    <3> QED
      BY <1>2, <1>6, <3>1, <3>2, CopyRests
  <2>2. CASE ~ MayCopy(ed)
    <3>1. ed' = e
      BY <1>28, <2>2 DEF KCopy, e
    <3> QED
      BY <1>2, <3>1
  <2> QED
    BY <2>1, <2>2
<1>29. CASE KMove
  <2>1. CASE MayMove(ed)
    <3>1. PICK junk \in {<<>>, <<Alnum>>} : ed' = MoveLines(e, junk)
      BY <1>29, <2>1 DEF KMove, e
    <3>2. MayMove(e)
      BY <1>27, <2>1
    <3> QED
      BY <1>2, <1>6, <3>1, <3>2, MoveRests
  <2>2. CASE ~ MayMove(ed)
    <3>1. ed' = e
      BY <1>29, <2>2 DEF KMove, e
    <3> QED
      BY <1>2, <3>1
  <2> QED
    BY <2>1, <2>2
<1>30. CASE KBDel
  <2>1. ed' = IF ed.ismarked THEN DeleteLines(e) ELSE e
    BY <1>30 DEF KBDel, e
  <2> QED
    BY <1>2, <1>26, <2>1, DeleteRests
<1>31. CASE Enough
  BY <1>31 DEF Enough, vars
<1> QED
  BY <1>10, <1>11, <1>12, <1>13, <1>14, <1>15, <1>16, <1>17, <1>18, <1>19, <1>20, <1>21,
     <1>22, <1>23, <1>24, <1>25, <1>28, <1>29, <1>30, <1>31 DEF Next

\* The invariant: between two keys every cursor is in its text, the marks are in
\* order and on the lines that are marked, and no line is half copied.
LEMMA EditorRests == Spec => []AtRest(ed)
<1>1. Init => AtRest(ed)
  BY InitRests DEF Init
<1>2. AtRest(ed) /\ [Next]_vars => AtRest(ed)'
  <2>1. CASE Next
    BY <2>1, KeysRest DEF AtRest, Sound, Loose, Shaped, Ordered, Followed, OnText, NoNew
  <2>2. CASE UNCHANGED vars
    BY <2>2 DEF vars
  <2> QED
    BY <2>1, <2>2
<1> QED
  BY <1>1, <1>2, PTL DEF Spec

\* The cursor of every buffer is in its text, at the column that the display shows,
\* whatever keys are hit and whichever buffer they change.
THEOREM CursorsInText == Spec => []CursorInText
<1>1. AtRest(ed) => CursorInText
  <2> SUFFICES ASSUME Sound(ed), NEW b \in Bufs, NEW e, e = [ed EXCEPT !.curbuf = b]
               PROVE  /\ Here(e).line \in 1 .. Count(e)
                      /\ Here(e).pos \in 1 .. Len(Text(e)) + 1
                      /\ Here(e).col = TabCol(Text(e), Here(e).pos)
    BY DEF AtRest, CursorInText
  <2>1. e = Switched(ed, b)
    BY DEF Switched
  <2>2. Sound(e)
    BY <2>1, SwitchedIs
  <2> QED
    BY <2>2, SoundHere
<1> QED
  BY <1>1, EditorRests, PTL

\* As long as the marks are followed, the lines between them are those the user has
\* marked, and no others, whatever has been put in, taken away, copied or moved.
THEOREM MarksOnTheirLines == Spec => []MarksFollow
<1>1. AtRest(ed) => MarksFollow
  <2> SUFFICES ASSUME Sound(ed), ed.exact, NEW b \in Bufs, NEW i \in DOMAIN ed.lines[b]
               PROVE  (ed.lines[b][i].mark = "in") <=>
                        (ed.ismarked /\ b = ed.frombuf /\ i \in ed.line1 .. ed.line2)
    BY DEF AtRest, MarksFollow
  <2>1. i \in 1 .. Len(ed.lines[b])
    BY DEF Sound, Loose, Shaped, Editor
  <2>2. CASE ed.ismarked
    BY <2>1, <2>2 DEF Sound, Loose, Followed
  <2>3. CASE ~ ed.ismarked
    BY <2>1, <2>3 DEF Sound, Loose, Ordered
  <2> QED
    BY <2>2, <2>3
<1> QED
  BY <1>1, EditorRests, PTL

----------------------------------------------------------------------------
(* What one key does, another undoes.                                       *)

\* Columns grow with positions, so that a column has one position.
LEMMA ColsGrow ==
  ASSUME NEW s \in Seq(Chars), NEW p \in 1 .. Len(s) + 1, NEW q \in 1 .. Len(s) + 1, p < q
  PROVE  TabCol(s, p) < TabCol(s, q)
<1> PICK l \in Nat : l = Len(s)
  OBVIOUS
<1> PICK c : c = [i \in 1 .. l + 1 |-> TabCol(s, i)]
  OBVIOUS
<1>1. /\ \A i \in 1 .. l + 1 : c[i] \in Nat \ {0}
      /\ \A i \in 1 .. l : c[i] < c[i + 1]
  <2>1. ASSUME NEW i \in 1 .. l + 1 PROVE c[i] \in Nat \ {0} /\ c[i] = TabCol(s, i)
    BY TabColIs
  <2>2. ASSUME NEW i \in 1 .. l PROVE c[i] < c[i + 1]
    <3>1. i \in 1 .. l + 1 /\ i + 1 \in 1 .. l + 1
      OBVIOUS
    <3>2. TabCol(s, i + 1) = Advance(TabCol(s, i), s[i])
      BY TabColIs
    <3>3. TabCol(s, i) \in Nat \ {0}
      BY <2>1, <3>1
    <3> QED
      BY <2>1, <3>1, <3>2, <3>3, AdvanceIs
  <2> QED
    BY <2>1, <2>2
<1> DEFINE U == {m \in Nat : p + m + 1 <= l + 1 => c[p] < c[p + m + 1]}
<1>2. 0 \in U
  <2> SUFFICES ASSUME p + 0 + 1 <= l + 1 PROVE c[p] < c[p + 0 + 1]
    OBVIOUS
  <2>1. p \in 1 .. l /\ p + 0 + 1 = p + 1
    OBVIOUS
  <2> QED
    BY <1>1, <2>1
<1>3. ASSUME NEW m \in Nat, m \in U PROVE m + 1 \in U
  <2> SUFFICES ASSUME p + (m + 1) + 1 <= l + 1 PROVE c[p] < c[p + (m + 1) + 1]
    OBVIOUS
  <2> PICK k \in Nat : k = p + m + 1
    OBVIOUS
  <2>1. k \in 1 .. l /\ k \in 1 .. l + 1 /\ k + 1 \in 1 .. l + 1 /\ p + (m + 1) + 1 = k + 1
    OBVIOUS
  <2>2. c[p] < c[k]
    BY <1>3, <2>1
  <2>3. c[k] < c[k + 1]
    BY <1>1, <2>1
  <2>4. c[p] \in Nat /\ c[k] \in Nat /\ c[k + 1] \in Nat
    BY <1>1, <2>1
  <2>5. c[p] < c[k + 1]
    BY <2>2, <2>3, <2>4
  <2> QED
    BY <2>1, <2>5
<1>4. Nat \subseteq U
  <2> HIDE DEF U
  <2> QED
    BY <1>2, <1>3, Numbers!NumbersReached
<1> PICK m \in Nat : m = q - p - 1
  OBVIOUS
<1>5. q = p + m + 1 /\ p + m + 1 <= l + 1
  OBVIOUS
<1>6. c[p] < c[q]
  <2>1. m \in U
    BY <1>4
  <2> QED
    BY <1>5, <2>1
<1> QED
  BY <1>6

LEMMA TabPosOfCol ==
  ASSUME NEW s \in Seq(Chars), NEW p \in 1 .. Len(s) + 1
  PROVE  TabPos(s, TabCol(s, p)) = p
<1> PICK l \in Nat : l = Len(s)
  OBVIOUS
<1> PICK S : S = {q \in 1 .. l : TabCol(s, q) >= TabCol(s, p)} \cup {l + 1}
  OBVIOUS
<1>1. S \in SUBSET Nat /\ S # {}
  OBVIOUS
<1>2. LeastOf(S) \in S /\ \A y \in S : LeastOf(S) <= y
  BY <1>1, LeastIs
<1>3. p \in S
  <2>1. TabCol(s, p) \in Nat
    BY TabColIs
  <2> QED
    BY <2>1
<1>4. ASSUME NEW q \in S, q < p PROVE FALSE
  <2>1. q \in 1 .. l /\ TabCol(s, q) >= TabCol(s, p)
    BY <1>4
  <2>2. q \in 1 .. l + 1 /\ TabCol(s, q) < TabCol(s, p)
    BY <1>4, <2>1, ColsGrow
  <2>3. TabCol(s, q) \in Nat /\ TabCol(s, p) \in Nat
    BY <2>2, TabColIs
  <2> QED
    BY <2>1, <2>2, <2>3
<1>5. LeastOf(S) = p
  BY <1>1, <1>2, <1>3, <1>4
<1> QED
  BY <1>5 DEF TabPos

\* Where the cursor is says at which column it is.
LEMMA SamePlaceIs ==
  ASSUME NEW e, NEW f, Sound(e), Sound(f), Here(f).line = Here(e).line,
         Here(f).pos = Here(e).pos, Text(f) = Text(e)
  PROVE  SamePlace(f, e)
<1>1. Here(e).col = TabCol(Text(e), Here(e).pos) /\ Here(f).col = TabCol(Text(f), Here(f).pos)
  BY SoundHere
<1> QED
  BY <1>1 DEF SamePlace, Cursor

LEMMA TravelsSame ==
  ASSUME NEW e, NEW f, Sound(e), Travels(e, f), Here(f).line = Here(e).line,
         Here(f).pos = Here(e).pos
  PROVE  SamePlace(f, e)
<1>1. Sound(f) /\ Text(f) = Text(e)
  BY DEF Travels, Alike, Text, TextAt
<1> QED
  BY <1>1, SamePlaceIs

LEMMA TravelsTexts ==
  ASSUME NEW e, NEW f, Travels(e, f)
  PROVE  /\ Sound(f) /\ Loose(f) /\ Count(f) = Count(e) /\ f.lines = e.lines
         /\ \A n : TextAt(f, n) = TextAt(e, n)
  BY DEF Travels, Alike, Count, TextAt, Sound

\* Right and left.
LEMMA LeftOfRight ==
  ASSUME NEW e, Sound(e), ~ AtEnd(e) PROVE SamePlace(Left(Right(e)), e)
<1> DEFINE r == Right(e)
           f == Left(r)
<1>1. /\ Here(e).line \in 1 .. Count(e) /\ Count(e) \in Nat /\ Loose(e) /\ Shaped(e)
      /\ Here(e).pos \in 1 .. Len(Text(e)) + 1 /\ Len(Text(e)) \in Nat
  BY SoundHere
<1>2. Travels(e, r) /\ Sound(r) /\ Count(r) = Count(e) /\ \A n : TextAt(r, n) = TextAt(e, n)
  BY LeftRight, TravelsTexts
<1>3. Travels(r, f)
  BY <1>2, LeftRight
<1>4. Travels(e, f)
  BY <1>2, <1>3, AlikeTwice
<1>5. Loose(r) /\ Shaped(r)
  BY <1>2 DEF Sound, Loose
<1>6. ASSUME Here(e).pos = Len(Text(e)) + 1 PROVE SamePlace(f, e)
  <2>1. Here(e).line + 1 \in 1 .. Count(e)
    BY <1>1, <1>6 DEF AtEnd
  <2>2. 1 \in 1 .. Len(TextAt(e, Here(e).line + 1)) + 1
    BY <1>1, <2>1, TextIs
  <2>3. r = Move(e, Here(e).line + 1, 1)
    BY <1>6 DEF Right
  <2>4. Here(r).line = Here(e).line + 1 /\ Here(r).pos = 1
    BY <1>1, <2>1, <2>2, <2>3, MoveTravels
  <2> HIDE DEF r
  <2>5. Here(r).line - 1 = Here(e).line /\ Here(r).line # 1
    BY <1>1, <2>4
  <2>6. f = SeekRight(r, Here(e).line)
    BY <2>4, <2>5 DEF Left, AtStart
  <2>7. Clamp(r, Here(e).line) = Here(e).line
    BY <1>1, <1>2 DEF Clamp
  <2>8. f = Move(r, Here(e).line, Len(Text(e)) + 1)
    BY <1>2, <2>6, <2>7 DEF SeekRight, Text
  <2>9. Len(Text(e)) + 1 \in 1 .. Len(TextAt(r, Here(e).line)) + 1 /\ Here(e).line \in 1 .. Count(r)
    BY <1>1, <1>2 DEF Text
  <2>10. Here(f).line = Here(e).line /\ Here(f).pos = Here(e).pos
    BY <1>5, <1>6, <2>8, <2>9, MoveTravels
  <2> HIDE DEF f
  <2> QED
    BY <1>4, <2>10, TravelsSame
<1>7. ASSUME Here(e).pos # Len(Text(e)) + 1 PROVE SamePlace(f, e)
  <2>1. Here(e).pos + 1 \in 1 .. Len(TextAt(e, Here(e).line)) + 1
    BY <1>1, <1>7 DEF Text
  <2>2. r = Move(e, Here(e).line, Here(e).pos + 1)
    BY <1>7 DEF Right
  <2>3. Here(r).line = Here(e).line /\ Here(r).pos = Here(e).pos + 1
    BY <1>1, <2>1, <2>2, MoveTravels
  <2> HIDE DEF r
  <2>4. Here(r).pos # 1 /\ Here(r).pos - 1 = Here(e).pos
    BY <1>1, <2>3
  <2>5. f = Move(r, Here(e).line, Here(e).pos)
    BY <2>3, <2>4 DEF Left, AtStart
  <2>6. Here(e).pos \in 1 .. Len(TextAt(r, Here(e).line)) + 1 /\ Here(e).line \in 1 .. Count(r)
    BY <1>1, <1>2 DEF Text
  <2>7. Here(f).line = Here(e).line /\ Here(f).pos = Here(e).pos
    BY <1>5, <2>5, <2>6, MoveTravels
  <2> HIDE DEF f
  <2> QED
    BY <1>4, <2>7, TravelsSame
<1> QED
  BY <1>6, <1>7 DEF f, r

\* Up and down.
LEMMA VerticalIs ==
  ASSUME NEW e, Sound(e), NEW n \in 1 .. Count(e), NEW want \in Nat,
         want = IF Here(e).curcol = NoCurCol THEN Here(e).col ELSE Here(e).curcol
  PROVE  /\ Here(Vertical(e, n)).line = n /\ Here(Vertical(e, n)).curcol = want
         /\ Here(Vertical(e, n)).pos = TabPos(TextAt(e, n), want)
<1> PICK f : f = [e EXCEPT !.at[e.curbuf].curcol = want]
  OBVIOUS
<1>1. Travels(e, f) /\ Here(f) = [Here(e) EXCEPT !.curcol = want]
  BY Columned
<1>2. Loose(f) /\ Count(f) = Count(e) /\ TextAt(f, n) = TextAt(e, n)
  BY <1>1, TravelsTexts
<1>3. TextAt(e, n) \in Seq(Chars)
  BY TextIs DEF Sound, Loose
<1>4. Vertical(e, n) = Move(f, n, TabPos(TextAt(e, n), want))
  BY DEF Vertical
<1>5. TabPos(TextAt(e, n), want) \in 1 .. Len(TextAt(f, n)) + 1
  BY <1>2, <1>3, TabPosIs
<1>6. Here(f).curcol = want
  <2>1. Here(e) \in Spots
    BY DEF Sound, Loose, Shaped, Editor, Here
  <2> QED
    BY <1>1, <2>1 DEF Spots
<1> QED
  BY <1>2, <1>4, <1>5, <1>6, Moved

\* A line away and back, the column kept.
LEMMA VerticalBack ==
  ASSUME NEW e, Sound(e), Here(e).curcol = NoCurCol, NEW n \in 1 .. Count(e)
  PROVE  SamePlace(Vertical(Vertical(e, n), Here(e).line), e)
<1> DEFINE f == Vertical(e, n)
           g == Vertical(f, Here(e).line)
<1>1. /\ Here(e).line \in 1 .. Count(e) /\ Text(e) \in Seq(Chars)
      /\ Here(e).pos \in 1 .. Len(Text(e)) + 1 /\ Here(e).col = TabCol(Text(e), Here(e).pos)
  BY SoundHere
<1> PICK want \in Nat \ {0} : want = Here(e).col
  BY <1>1, TabColIs
<1>2. Travels(e, f) /\ Sound(f) /\ Count(f) = Count(e) /\ \A k : TextAt(f, k) = TextAt(e, k)
  BY VerticalTravels, TravelsTexts
<1>3. Here(f).curcol = want
  BY VerticalIs
<1> HIDE DEF f
<1>4. want = IF Here(f).curcol = NoCurCol THEN Here(f).col ELSE Here(f).curcol
  BY <1>3 DEF NoCurCol
<1>5. Here(g).line = Here(e).line /\ Here(g).pos = TabPos(TextAt(f, Here(e).line), want)
  BY <1>1, <1>2, <1>4, VerticalIs
<1>6. Travels(f, g)
  BY <1>1, <1>2, VerticalTravels
<1> HIDE DEF g
<1>7. Here(g).pos = Here(e).pos
  BY <1>1, <1>2, <1>5, TabPosOfCol DEF Text
<1>8. SamePlace(g, e)
  BY <1>2, <1>5, <1>6, <1>7, AlikeTwice, TravelsSame
<1> QED
  BY <1>8 DEF g, f

LEMMA UpAndDown ==
  ASSUME NEW e, Sound(e), Here(e).curcol = NoCurCol
  PROVE  /\ Here(e).line < Count(e) => SamePlace(Up(Down(e)), e)
         /\ Here(e).line > 1 => SamePlace(Down(Up(e)), e)
<1>1. Here(e).line \in 1 .. Count(e) /\ Count(e) \in Nat /\ Here(e).line \in Nat
  BY SoundHere
<1>2. ASSUME NEW n \in 1 .. Count(e)
      PROVE  Here(Vertical(e, n)).line = n /\ Count(Vertical(e, n)) = Count(e)
  <2>1. Here(e).col \in Nat /\ Here(e).curcol \in Nat
    BY DEF Sound, Loose, Shaped, Editor, Spots, Here
  <2> QED
    BY <2>1, VerticalIs, VerticalTravels, TravelsTexts
<1>3. ASSUME Here(e).line < Count(e) PROVE SamePlace(Up(Down(e)), e)
  <2> PICK n \in Nat : n = Here(e).line + 1
    BY <1>1
  <2>1. n \in 1 .. Count(e) /\ n # 1 /\ n - 1 = Here(e).line /\ Here(e).line # Count(e)
    BY <1>1, <1>3
  <2> PICK f : f = Vertical(e, n)
    OBVIOUS
  <2>2. Down(e) = f
    BY <2>1 DEF Down
  <2>3. Up(f) = Vertical(f, Here(e).line)
    BY <1>2, <2>1 DEF Up
  <2> QED
    BY <2>1, <2>2, <2>3, VerticalBack
<1>4. ASSUME Here(e).line > 1 PROVE SamePlace(Down(Up(e)), e)
  <2> PICK n \in Nat : n = Here(e).line - 1
    BY <1>1, <1>4
  <2>1. n \in 1 .. Count(e) /\ n # Count(e) /\ n + 1 = Here(e).line /\ Here(e).line # 1
    BY <1>1, <1>4
  <2> PICK f : f = Vertical(e, n)
    OBVIOUS
  <2>2. Up(e) = f
    BY <2>1 DEF Up
  <2>3. Down(f) = Vertical(f, Here(e).line)
    BY <1>2, <2>1 DEF Down
  <2> QED
    BY <2>1, <2>2, <2>3, VerticalBack
<1> QED
  BY <1>3, <1>4

\* The texts of a buffer are those it had.
TextsKept(e, f, b) ==
  /\ Len(f.lines[b]) = Len(e.lines[b])
  /\ \A i \in 1 .. Len(e.lines[b]) : f.lines[b][i].text = e.lines[b][i].text

LEMMA TextsRestored ==
  ASSUME NEW e, NEW f, Shaped(e), Shaped(f), NEW b \in Bufs, TextsKept(e, f, b)
  PROVE  TextsOf(f, b) = TextsOf(e, b)
<1> PICK x \in Seq(Lines) : x = e.lines[b]
  BY DEF Shaped, Editor
<1> PICK y \in Seq(Lines) : y = f.lines[b]
  BY DEF Shaped, Editor
<1>1. DOMAIN x = 1 .. Len(x) /\ DOMAIN y = 1 .. Len(x) /\ \A i \in 1 .. Len(x) : y[i].text = x[i].text
  BY DEF TextsKept
<1> QED
  BY <1>1 DEF TextsOf

LEMMA TextsKeptTwice ==
  ASSUME NEW e, NEW f, NEW g, NEW b, TextsKept(e, f, b), TextsKept(f, g, b)
  PROVE  TextsKept(e, g, b)
  BY DEF TextsKept

\* A line for which there is no room stays as it is.
LEMMA NoRoom ==
  ASSUME NEW e, Sound(e), NEW n, NEW size, ~ Mneed(e, n, size)[1]
  PROVE  Mneed(e, n, size)[2].lines = e.lines
<1>1. PICK v \in BOOLEAN : v = TRUE
  OBVIOUS
<1>2. PICK f : f = [e EXCEPT !.bfull = v]
  OBVIOUS
<1>3. f.lines = e.lines
  BY <1>2, FullNoted
<1>4. Mneed(e, n, size)[2] = e \/ Mneed(e, n, size)[2] = f
  BY <1>1, <1>2 DEF Mneed
<1> QED
  BY <1>3, <1>4

\* A character typed, and where the cursor then is.
Typed(e, f, c) ==
  /\ Sound(f) /\ f.curbuf = e.curbuf
  /\ Here(f).line = Here(e).line /\ Here(f).pos = Here(e).pos + 1
  /\ Text(f) = InsertAt(Text(e), Here(e).pos, c)
  /\ Len(f.lines[e.curbuf]) = Len(e.lines[e.curbuf])
  /\ \A i \in 1 .. Count(e) :
       i # Here(e).line => f.lines[e.curbuf][i].text = e.lines[e.curbuf][i].text

LEMMA BcinsTypes ==
  ASSUME NEW e, Sound(e), NEW c \in Chars, NEW overtype, ~ overtype,
         Bcins(e, c, overtype).lines # e.lines
  PROVE  Typed(e, Bcins(e, c, overtype), c)
<1> DEFINE s == Text(e)
           p == Here(e).pos
           n == Here(e).line
           need == Mneed(e, n, Len(s) + 1)
           g == need[2]
           t == InsertAt(s, p, c)
           h == SetText(g, n, t)
           m == Move(h, n, p + 1)
           f == Modified(m)
<1>1. /\ s \in Seq(Chars) /\ p \in 1 .. Len(s) + 1 /\ Len(s) \in Nat /\ n \in 1 .. Count(e)
      /\ e.curbuf \in Bufs
  BY SoundHere
<1>2. need[1]
  <2>1. ~ need[1] => Bcins(e, c, overtype) = g
    BY DEF Bcins
  <2> QED
    BY <2>1, NoRoom
<1>3. Bcins(e, c, overtype) = f
  BY <1>2 DEF Bcins
<1> HIDE DEF s, p, n
<1>4. t \in Seq(Chars) /\ Len(t) = Len(s) + 1
  BY <1>1, Inserted
<1>5. p + 1 \in 1 .. Len(t) + 1
  BY <1>1, <1>4
<1> HIDE DEF t
<1>6. Sound(g) /\ Alike(e, g) /\ SameTexts(e, g) /\ g.at = e.at
  <2>1. Len(s) + 1 \in Nat
    BY <1>1
  <2> QED
    BY <1>1, <2>1, MneedIs
<1> HIDE DEF need, g
<1>7. g.curbuf = e.curbuf /\ n \in 1 .. Count(g) /\ Loose(g) /\ Count(g) = Count(e)
  BY <1>1, <1>6 DEF Alike, SameLines, Count, Sound
<1>8. /\ Loose(h) /\ Alike(g, h) /\ h.lines[e.curbuf][n].text = t
      /\ Len(h.lines[e.curbuf]) = Len(g.lines[e.curbuf])
      /\ \A i \in 1 .. Count(e) : i # n => h.lines[e.curbuf][i] = g.lines[e.curbuf][i]
  <2>1. /\ Loose(SetText(g, n, t)) /\ Alike(g, SetText(g, n, t))
        /\ SetText(g, n, t).lines[g.curbuf][n].text = t
        /\ Len(SetText(g, n, t).lines[g.curbuf]) = Len(g.lines[g.curbuf])
        /\ \A i \in 1 .. Count(g) :
             i # n => SetText(g, n, t).lines[g.curbuf][i] = g.lines[g.curbuf][i]
    BY <1>4, <1>7, TextSet, SMTT(30)
  <2> QED
    BY <1>7, <2>1
<1> HIDE DEF h
<1>9. h.curbuf = e.curbuf /\ n \in 1 .. Count(h) /\ TextAt(h, n) = t
  BY <1>7, <1>8 DEF Alike, Count, TextAt
<1>10. Travels(h, m) /\ Here(m).line = n /\ Here(m).pos = p + 1
  BY <1>5, <1>8, <1>9, MoveTravels
<1> HIDE DEF m
<1>11. Travels(m, f) /\ f.at = m.at
  BY <1>10, TravelsTexts, ModifiedTravels
<1> HIDE DEF f
<1>12. Sound(f) /\ f.lines = h.lines /\ f.curbuf = e.curbuf
  BY <1>9, <1>10, <1>11, AlikeTwice DEF Travels, Alike
<1>13. Here(f) = Here(m)
  BY <1>11 DEF Here, Travels, Alike
<1>14. Text(f) = t
  BY <1>8, <1>10, <1>12, <1>13 DEF Text, TextAt
<1>15. Len(f.lines[e.curbuf]) = Len(e.lines[e.curbuf])
  BY <1>1, <1>6, <1>8, <1>12 DEF SameTexts
<1>16. \A i \in 1 .. Count(e) : i # n => f.lines[e.curbuf][i].text = e.lines[e.curbuf][i].text
  <2> SUFFICES ASSUME NEW i \in 1 .. Count(e), i # n
               PROVE  f.lines[e.curbuf][i].text = e.lines[e.curbuf][i].text
    OBVIOUS
  <2>1. f.lines[e.curbuf][i] = g.lines[e.curbuf][i]
    BY <1>8, <1>12
  <2>2. g.lines[e.curbuf][i].text = e.lines[e.curbuf][i].text
    BY <1>1, <1>6 DEF SameTexts, Count
  <2> QED
    BY <2>1, <2>2
<1>17. Typed(e, f, c)
  BY <1>10, <1>12, <1>13, <1>14, <1>15, <1>16 DEF Typed, t, s, n, p
<1> QED
  BY <1>3, <1>17

\* Putting in and taking out.
LEMMA TakenOut ==
  ASSUME NEW s \in Seq(Chars), NEW p \in 1 .. Len(s) + 1, NEW c \in Chars
  PROVE  RemoveAt(InsertAt(s, p, c), p) = s
<1> PICK l \in Nat : l = Len(s)
  OBVIOUS
<1> PICK t : t = InsertAt(s, p, c)
  OBVIOUS
<1>1. /\ t \in Seq(Chars) /\ Len(t) = l + 1
      /\ \A k \in 1 .. l + 1 : t[k] = IF k < p THEN s[k] ELSE IF k = p THEN c ELSE s[k - 1]
  BY Inserted
<1> PICK u : u = RemoveAt(t, p)
  OBVIOUS
<1>2. /\ u \in Seq(Chars) /\ Len(u) = l
      /\ \A k \in 1 .. l : u[k] = IF k < p THEN t[k] ELSE t[k + 1]
  <2>1. p \in 1 .. Len(t) /\ Len(t) - 1 = l
    BY <1>1
  <2> QED
    BY <1>1, <2>1, Removed
<1>3. ASSUME NEW k \in 1 .. l PROVE u[k] = s[k]
  <2>1. k \in 1 .. l + 1 /\ k + 1 \in 1 .. l + 1 /\ (k + 1) - 1 = k
    OBVIOUS
  <2>2. CASE k < p
    BY <1>1, <1>2, <2>1, <2>2
  <2>3. CASE ~ k < p
    <3>1. ~ k + 1 < p /\ k + 1 # p
      BY <2>3
    <3>2. u[k] = t[k + 1]
      BY <1>2, <2>3
    <3>3. t[k + 1] = s[(k + 1) - 1]
      BY <1>1, <2>1, <3>1
    <3> QED
      BY <2>1, <3>2, <3>3
  <2> QED
    BY <2>2, <2>3
<1>4. u = s
  BY <1>2, <1>3
<1> QED
  BY <1>4

\* A character typed and taken away by backspace.
LEMMA TypedBack ==
  ASSUME NEW e, Sound(e), NEW c \in Chars, NEW f, Typed(e, f, c)
  PROVE  /\ SamePlace(BackSpace(f), e) /\ TextsKept(e, BackSpace(f), e.curbuf)
         /\ Sound(BackSpace(f))
<1> DEFINE s == Text(e)
           p == Here(e).pos
           n == Here(e).line
           t == InsertAt(s, p, c)
           l == Left(f)
           h == SetText(l, n, RemoveAt(t, p))
           r == Modified(h)
<1>1. /\ s \in Seq(Chars) /\ p \in 1 .. Len(s) + 1 /\ Len(s) \in Nat /\ n \in 1 .. Count(e)
      /\ n \in Nat /\ e.curbuf \in Bufs
  BY SoundHere
<1>2. t \in Seq(Chars) /\ Len(t) = Len(s) + 1
  <2> HIDE DEF s, p
  <2> QED
    BY <1>1, Inserted
<1>3. RemoveAt(t, p) = s
  <2> HIDE DEF s, p
  <2> QED
    BY <1>1, TakenOut
<1>4. /\ Sound(f) /\ f.curbuf = e.curbuf /\ Here(f).line = n /\ Here(f).pos = p + 1 /\ Text(f) = t
      /\ Len(f.lines[e.curbuf]) = Len(e.lines[e.curbuf])
      /\ \A i \in 1 .. Count(e) : i # n => f.lines[e.curbuf][i].text = e.lines[e.curbuf][i].text
  BY DEF Typed
<1> HIDE DEF s, p, n, t
<1>5. Here(f).pos # 1 /\ Here(f).pos - 1 = p
  BY <1>1, <1>4
<1>6. l = Move(f, n, p)
  BY <1>4, <1>5 DEF Left, AtStart
<1>7. BackSpace(f) = Bcdel(l)
  BY <1>5 DEF BackSpace, AtStart
<1>8. /\ Travels(f, l) /\ Sound(l) /\ Count(l) = Count(f) /\ l.lines = f.lines
      /\ \A k : TextAt(l, k) = TextAt(f, k)
  BY <1>4, LeftRight, TravelsTexts
<1>9. Here(l).line = n /\ Here(l).pos = p
  <2>1. n \in 1 .. Count(f) /\ Loose(f)
    BY <1>1, <1>4 DEF Count, Sound
  <2>2. p \in 1 .. Len(TextAt(f, n)) + 1
    BY <1>1, <1>2, <1>4 DEF Text
  <2> HIDE DEF l
  <2> QED
    BY <1>6, <2>1, <2>2, MoveTravels
<1> HIDE DEF l
<1>10. l.curbuf = e.curbuf /\ Text(l) = t
  BY <1>4, <1>8, <1>9 DEF Travels, Alike, Text
<1>11. t # <<>> /\ p # Len(t) + 1
  BY <1>1, <1>2
<1>12. Bcdel(l) = r
  BY <1>9, <1>10, <1>11 DEF Bcdel
<1>13. h = SetText(l, n, s)
  BY <1>3
<1> HIDE DEF h
<1>14. Sound(h) /\ Alike(l, h) /\ h.at = l.at
  <2>1. \A i \in 1 .. p - 1 : s[i] = t[i]
    <3>1. \A k \in 1 .. Len(s) + 1 : t[k] = IF k < p THEN s[k] ELSE IF k = p THEN c ELSE s[k - 1]
      BY <1>1, Inserted DEF t
    <3> QED
      BY <1>1, <3>1
  <2>2. Here(l).pos <= Len(s) + 1
    BY <1>1, <1>9
  <2> QED
    BY <1>1, <1>8, <1>9, <1>10, <1>13, <2>1, <2>2, TextBehind
<1>15. /\ h.lines[e.curbuf][n].text = s /\ Len(h.lines[e.curbuf]) = Len(l.lines[e.curbuf])
       /\ \A i \in 1 .. Count(e) : i # n => h.lines[e.curbuf][i] = l.lines[e.curbuf][i]
  <2>1. Count(l) = Count(e) /\ Loose(l)
    BY <1>4, <1>8 DEF Count, Sound
  <2>2. n \in 1 .. Count(l) /\ s \in Seq(Chars)
    BY <1>1, <2>1
  <2>3. /\ SetText(l, n, s).lines[l.curbuf][n].text = s
        /\ Len(SetText(l, n, s).lines[l.curbuf]) = Len(l.lines[l.curbuf])
        /\ \A i \in 1 .. Count(l) :
             i # n => SetText(l, n, s).lines[l.curbuf][i] = l.lines[l.curbuf][i]
    BY <2>1, <2>2, TextSet
  <2> QED
    BY <1>10, <1>13, <2>1, <2>3
<1>16. Travels(h, r) /\ r.at = h.at
  BY <1>14, ModifiedTravels
<1> HIDE DEF r
<1>17. Sound(r) /\ r.lines = h.lines /\ r.curbuf = e.curbuf
  BY <1>10, <1>14, <1>16 DEF Travels, Alike
<1>18. Here(r) = Here(l)
  BY <1>10, <1>14, <1>16, <1>17 DEF Here
<1>19. Text(r) = Text(e) /\ Here(r).line = Here(e).line /\ Here(r).pos = Here(e).pos
  BY <1>9, <1>15, <1>17, <1>18 DEF Text, TextAt, s, n, p
<1>20. SamePlace(r, e)
  BY <1>17, <1>19, SamePlaceIs
<1>21. TextsKept(e, r, e.curbuf)
  <2>1. Len(r.lines[e.curbuf]) = Len(e.lines[e.curbuf])
    BY <1>4, <1>8, <1>15, <1>17
  <2>2. ASSUME NEW i \in 1 .. Len(e.lines[e.curbuf])
        PROVE  r.lines[e.curbuf][i].text = e.lines[e.curbuf][i].text
    <3>1. i \in 1 .. Count(e)
      BY DEF Count
    <3>2. CASE i = n
      BY <1>15, <1>17, <3>2 DEF s, n, Text, TextAt
    <3>3. CASE i # n
      BY <1>4, <1>8, <1>15, <1>17, <3>1, <3>3
    <3> QED
      BY <3>2, <3>3
  <2> QED
    BY <2>1, <2>2 DEF TextsKept
<1> QED
  BY <1>7, <1>12, <1>17, <1>20, <1>21

\* What is used of the heap: a place for each line.
UsedPlaces(e) == UNION {{b} \X DOMAIN e.lines[b] : b \in Bufs}

LEMMA UsedIs ==
  ASSUME NEW e, Shaped(e)
  PROVE  /\ Used(e) = Cardinality(UsedPlaces(e)) /\ IsFiniteSet(UsedPlaces(e)) /\ Used(e) \in Nat
         /\ \A x : x \in UsedPlaces(e) <=> \E b \in Bufs : \E i \in 1 .. Len(e.lines[b]) : x = <<b, i>>
<1>1. \A b \in Bufs : DOMAIN e.lines[b] = 1 .. Len(e.lines[b]) /\ Len(e.lines[b]) \in Nat
  BY DEF Shaped, Editor
<1> DEFINE T == {{b} \X DOMAIN e.lines[b] : b \in Bufs}
           f == [b \in Bufs |-> {b} \X DOMAIN e.lines[b]]
<1>2. IsFiniteSet(T)
  <2>1. f \in Surjection(Bufs, T)
    BY DEF Surjection
  <2>2. IsFiniteSet(Bufs)
    <3>1. IsFiniteSet(Texts)
      BY BufferAssumption
    <3> QED
      BY <3>1, FS_AddElement DEF Bufs
  <2> HIDE DEF f, T
  <2> QED
    BY <2>1, <2>2, FS_Surjection
<1>3. \A S \in T : IsFiniteSet(S)
  <2> SUFFICES ASSUME NEW b \in Bufs PROVE IsFiniteSet({b} \X DOMAIN e.lines[b])
    OBVIOUS
  <2> PICK n \in Nat : n = Len(e.lines[b])
    BY <1>1
  <2>1. IsFiniteSet({b})
    BY FS_Singleton
  <2>3. IsFiniteSet(1 .. n)
    <3>1. 1 \in Int /\ n \in Int
      OBVIOUS
    <3> QED
      BY <3>1, FS_Interval
  <2>2. IsFiniteSet({b} \X (1 .. n))
    BY <2>1, <2>3, FS_Product
  <2> QED
    BY <1>1, <2>2
<1>4. UsedPlaces(e) = UNION T
  BY DEF UsedPlaces
<1>5. IsFiniteSet(UsedPlaces(e))
  <2> HIDE DEF T
  <2> QED
    BY <1>2, <1>3, <1>4, FS_UNION
<1>6. \A x : x \in UsedPlaces(e) <=> \E b \in Bufs : \E i \in 1 .. Len(e.lines[b]) : x = <<b, i>>
  BY <1>1 DEF UsedPlaces
<1>7. Used(e) = Cardinality(UsedPlaces(e))
  BY DEF Used, UsedPlaces
<1> QED
  BY <1>5, <1>6, <1>7, FS_CardinalityType

\* Where no buffer is longer, no more is used.
LEMMA UsedLess ==
  ASSUME NEW e, NEW f, Shaped(e), Shaped(f), \A b \in Bufs : Len(f.lines[b]) <= Len(e.lines[b])
  PROVE  Used(f) <= Used(e)
<1>1. \A b \in Bufs : Len(e.lines[b]) \in Nat /\ Len(f.lines[b]) \in Nat
  BY DEF Shaped, Editor
<1>2. UsedPlaces(f) \in SUBSET UsedPlaces(e)
  <2> SUFFICES ASSUME NEW x \in UsedPlaces(f) PROVE x \in UsedPlaces(e)
    OBVIOUS
  <2>3. PICK b \in Bufs : \E i \in 1 .. Len(f.lines[b]) : x = <<b, i>>
    BY UsedIs
  <2>1. PICK i \in 1 .. Len(f.lines[b]) : x = <<b, i>>
    BY <2>3
  <2>2. i \in 1 .. Len(e.lines[b])
    BY <1>1
  <2> QED
    BY <2>1, <2>2, UsedIs
<1> QED
  BY <1>2, UsedIs, FS_Subset

\* A line more in one buffer and one less in another.
LEMMA UsedShifted ==
  ASSUME NEW e, NEW f, Shaped(e), Shaped(f), NEW a \in Bufs, NEW c \in Bufs, a # c,
         Len(f.lines[a]) = Len(e.lines[a]) + 1, Len(f.lines[c]) = Len(e.lines[c]) - 1,
         \A b \in Bufs : b # a /\ b # c => Len(f.lines[b]) = Len(e.lines[b])
  PROVE  Used(f) = Used(e)
<1> PICK m \in Nat : m = Len(e.lines[a])
  BY DEF Shaped, Editor
<1> PICK n \in Nat \ {0} : n = Len(e.lines[c])
  BY DEF Shaped, Editor
<1>1. \A b \in Bufs : Len(e.lines[b]) \in Nat /\ Len(f.lines[b]) \in Nat
  BY DEF Shaped, Editor
<1> DEFINE x == <<a, m + 1>>
           y == <<c, n>>
           S == UsedPlaces(e)
           R == S \ {y}
<1>2. x \notin S
  <2> SUFFICES ASSUME NEW b \in Bufs, NEW i \in 1 .. Len(e.lines[b]), x = <<b, i>>
               PROVE  FALSE
    BY UsedIs
  <2>1. b = a /\ i = m + 1
    OBVIOUS
  <2> QED
    BY <2>1
<1>3. y \in S
  <2>1. n \in 1 .. Len(e.lines[c])
    OBVIOUS
  <2> QED
    BY <2>1, UsedIs
<1>4. UsedPlaces(f) = R \cup {x}
  <2>1. ASSUME NEW z \in UsedPlaces(f) PROVE z \in R \cup {x}
    <3>4. PICK b \in Bufs : \E i \in 1 .. Len(f.lines[b]) : z = <<b, i>>
      BY UsedIs
    <3>1. PICK i \in 1 .. Len(f.lines[b]) : z = <<b, i>>
      BY <3>4
    <3>2. CASE z = x
      BY <3>2
    <3>3. CASE z # x
      <4>1. i \in 1 .. Len(e.lines[b])
        <5>1. CASE b = a
          <6>1. i # m + 1 /\ i \in 1 .. m + 1
            BY <3>1, <3>3, <5>1
          <6>2. i \in 1 .. m
            BY <6>1
          <6> QED
            BY <5>1, <6>2
        <5>2. CASE b # a
          BY <1>1, <5>2
        <5> QED
          BY <5>1, <5>2
      <4>2. z # y
        <5> SUFFICES ASSUME z = y PROVE FALSE
          OBVIOUS
        <5>1. b = c /\ i = n
          BY <3>1
        <5> QED
          BY <5>1
      <4> QED
        BY <3>1, <4>1, <4>2, UsedIs
    <3> QED
      BY <3>2, <3>3
  <2>2. x \in UsedPlaces(f)
    <3>1. m + 1 \in 1 .. Len(f.lines[a])
      OBVIOUS
    <3> QED
      BY <3>1, UsedIs
  <2>3. ASSUME NEW z \in R PROVE z \in UsedPlaces(f)
    <3>4. PICK b \in Bufs : \E i \in 1 .. Len(e.lines[b]) : z = <<b, i>>
      BY UsedIs
    <3>1. PICK i \in 1 .. Len(e.lines[b]) : z = <<b, i>>
      BY <3>4
    <3>2. i \in 1 .. Len(f.lines[b])
      <4>1. CASE b = c
        <5>1. i # n /\ i \in 1 .. n
          BY <3>1, <4>1
        <5>2. i \in 1 .. n - 1
          BY <5>1
        <5> QED
          BY <4>1, <5>2
      <4>2. CASE b # c
        BY <1>1, <4>2
      <4> QED
        BY <4>1, <4>2
    <3> QED
      BY <3>1, <3>2, UsedIs
  <2> HIDE DEF R, x
  <2> QED
    BY <2>1, <2>2, <2>3
<1>5. IsFiniteSet(S) /\ Cardinality(S) = Used(e) /\ Used(e) \in Nat
      /\ Cardinality(UsedPlaces(f)) = Used(f)
  BY UsedIs
<1>6. IsFiniteSet(R) /\ Cardinality(R) = Used(e) - 1
  <2> HIDE DEF S, y
  <2> QED
    BY <1>3, <1>5, FS_RemoveElement
<1>7. x \notin R
  BY <1>2
<1> HIDE DEF R, x
<1>8. Cardinality(R \cup {x}) = (Used(e) - 1) + 1
  BY <1>6, <1>7, FS_AddElement
<1> QED
  BY <1>4, <1>5, <1>8

\* A line put on the undo stack is the one that the next undo takes from it.
OnTop(e, f, s) ==
  /\ Sound(f) /\ f.curbuf = e.curbuf
  /\ Len(f.lines[BD]) # 1 /\ f.lines[BD][f.at[BD].line].text = s
  /\ \E g : /\ Shaped(g) /\ Used(g) <= Used(e) /\ Len(f.lines[BD]) = Len(g.lines[BD]) + 1
            /\ \A b \in Bufs : b # BD => Len(f.lines[b]) = Len(g.lines[b])

LEMMA DelPushTop ==
  ASSUME NEW e, Sound(e), ~ Full(e), NEW s \in Seq(Chars)
  PROVE  OnTop(e, DelPush(e, s), s)
<1> DEFINE d == Switched(e, BD)
           top == SeekLeft(d, 1)
           low == DropLine(top)
           cut == IF Count(d) > MaxUndo THEN SeekLeft(low, Count(d)) ELSE d
           f == Blapp(cut, s, "no")
           back == Switched(f, e.curbuf)
<1>1. /\ Sound(d) /\ d.curbuf = BD /\ d.lines = e.lines /\ d.at = e.at /\ Count(d) \in Nat \ {0}
      /\ BD \in Bufs /\ e.curbuf \in Bufs /\ Shaped(e)
  <2>1. BD \in Bufs
    BY DEF Bufs
  <2> QED
    BY <2>1, SwitchedIs, SoundHere
<1>2. DelPush(e, s) = back
  BY DEF DelPush, Switched
<1> HIDE DEF d
<1>3. Travels(d, top) /\ Sound(top) /\ top.lines = d.lines /\ top.curbuf = BD
  BY <1>1, SeekLeftTravels DEF Sound, Travels, Alike
<1> HIDE DEF top
<1>4. Aside(top, low) /\ Sound(low) /\ Len(low.lines[BD]) <= Len(top.lines[BD])
  <2>1. Len(top.lines[BD]) \in Nat
    BY <1>1, <1>3 DEF Sound, Loose, Shaped, Editor
  <2>2. Len(low.lines[BD]) <= Len(top.lines[BD])
    <3>1. CASE Count(top) = 1 /\ Text(top) = <<>>
      <4>1. low = top
        BY <3>1 DEF DropLine
      <4> QED
        BY <2>1, <4>1
    <3>2. CASE ~ (Count(top) = 1 /\ Text(top) = <<>>)
      <4>1. Dropped(top, low, Here(top).line)
        BY <1>3, <3>2, DropLineIs
      <4> HIDE DEF low
      <4> QED
        BY <1>3, <2>1, <4>1 DEF Dropped, Count
    <3> QED
      BY <3>1, <3>2
  <2> QED
    BY <1>3, <2>2, DropLineAside, DropLineKeeps DEF Keeps
<1> HIDE DEF low
<1>5. Travels(low, SeekLeft(low, Count(d))) /\ Sound(SeekLeft(low, Count(d)))
  BY <1>1, <1>4, SeekLeftTravels DEF Sound, Travels
<1>6. Sound(cut) /\ cut.curbuf = BD /\ \A b \in Bufs : Len(cut.lines[b]) <= Len(e.lines[b])
  <2>1. \A b \in Bufs : Len(e.lines[b]) \in Nat
    BY <1>1 DEF Shaped, Editor
  <2>2. CASE Count(d) > MaxUndo
    <3>1. cut = SeekLeft(low, Count(d))
      BY <2>2
    <3> HIDE DEF cut
    <3>2. Sound(cut) /\ cut.lines = low.lines /\ cut.curbuf = low.curbuf
      BY <1>5, <3>1 DEF Travels, Alike
    <3>3. \A b \in Bufs : b # BD => Len(low.lines[b]) = Len(e.lines[b])
      BY <1>1, <1>3, <1>4 DEF Aside
    <3>4. Len(low.lines[BD]) <= Len(e.lines[BD])
      BY <1>1, <1>3, <1>4
    <3>5. low.curbuf = BD
      BY <1>3, <1>4 DEF Aside
    <3> QED
      BY <2>1, <3>2, <3>3, <3>4, <3>5
  <2>3. CASE ~ Count(d) > MaxUndo
    BY <1>1, <2>1, <2>3
  <2> QED
    BY <2>2, <2>3
<1> HIDE DEF cut
<1>7. Shaped(cut) /\ Used(cut) <= Used(e) /\ ~ Full(cut)
  <2>1. Shaped(cut)
    BY <1>6 DEF Sound, Loose
  <2>2. Used(cut) <= Used(e)
    BY <1>1, <1>6, <2>1, UsedLess
  <2>3. Used(cut) \in Nat /\ Used(e) \in Nat /\ Heap \in Nat
    BY <1>1, <2>1, UsedIs, BufferAssumption
  <2> QED
    BY <2>1, <2>2, <2>3 DEF Full
<1>8. Added(cut, f, Here(cut).line, s, "no")
  BY <1>6, <1>7, BlappIs
<1> HIDE DEF f
<1>9. /\ Sound(f) /\ f.curbuf = BD /\ Here(f).line = Here(cut).line + 1
      /\ Len(f.lines[BD]) = Len(cut.lines[BD]) + 1
      /\ f.lines[BD][Here(cut).line + 1].text = s
      /\ \A b \in Bufs : b # BD => f.lines[b] = cut.lines[b]
  BY <1>6, <1>8 DEF Added, LinesUp
<1>10. f.lines[BD][f.at[BD].line].text = s
  BY <1>9 DEF Here
<1>11. Len(f.lines[BD]) # 1
  <2>1. Len(cut.lines[BD]) \in Nat /\ Len(cut.lines[BD]) >= 1
    BY <1>1, <1>7 DEF Shaped, Editor
  <2> QED
    BY <1>9, <2>1
<1>12. back.lines = f.lines /\ back.at = f.at /\ Sound(back) /\ back.curbuf = e.curbuf
  BY <1>1, <1>9, SwitchedIs
<1> HIDE DEF back
<1>13. OnTop(e, back, s)
  BY <1>7, <1>9, <1>10, <1>11, <1>12 DEF OnTop
<1> QED
  BY <1>2, <1>13

\* A line deleted that is not the last, and what the next undo needs.
Gone(e, f) ==
  /\ Sound(f) /\ f.curbuf = e.curbuf /\ Here(f).line = Here(e).line /\ ~ Full(f)
  /\ Len(f.lines[BD]) # 1 /\ f.lines[BD][f.at[BD].line].text = Text(e)
  /\ Len(f.lines[e.curbuf]) = Count(e) - 1
  /\ \A k \in 1 .. Here(e).line - 1 : f.lines[e.curbuf][k].text = TextAt(e, k)
  /\ \A k \in Here(e).line .. Count(e) - 1 : f.lines[e.curbuf][k].text = TextAt(e, k + 1)

LEMMA BldelGone ==
  ASSUME NEW e, Sound(e), e.curbuf # BD, ~ Full(e), Here(e).line < Count(e),
         NEW stackok, stackok
  PROVE  Gone(e, Bldel(e, stackok))
<1> DEFINE s == Text(e)
           n == Here(e).line
           b == e.curbuf
           p == DelPush(e, s)
           f == DropLine(p)
<1>1. /\ n \in 1 .. Count(e) /\ n \in Nat /\ Count(e) \in Nat \ {0} /\ Count(e) # 1 /\ b \in Bufs
      /\ s \in Seq(Chars) /\ BD \in Bufs /\ Shaped(e)
  BY SoundHere DEF Bufs
<1>2. Bldel(e, stackok) = f
  BY <1>1 DEF Bldel
<1> HIDE DEF s
<1>3. OnTop(e, p, s) /\ Pushed(e, p)
  BY <1>1, DelPushTop, DelPushIs
<1> HIDE DEF p
<1>4. /\ Sound(p) /\ p.curbuf = b /\ p.at[b] = e.at[b] /\ Len(p.lines[b]) = Len(e.lines[b])
      /\ \A i \in 1 .. Len(e.lines[b]) : Twin(e.lines[b][i], p.lines[b][i])
  BY <1>1, <1>3 DEF OnTop, Pushed
<1>5. Here(p).line = n /\ Count(p) = Count(e)
  BY <1>4 DEF Here, Count
<1>6. Dropped(p, f, n)
  BY <1>1, <1>4, <1>5, DropLineIs
<1> HIDE DEF f
<1>7. /\ Sound(f) /\ f.curbuf = b /\ Len(f.lines[b]) = Count(e) - 1
      /\ \A k \in 1 .. n - 1 : Twin(p.lines[b][k], f.lines[b][k])
      /\ \A k \in n .. Count(e) - 1 : Twin(p.lines[b][k + 1], f.lines[b][k])
      /\ Here(f).line = Clamp(f, n)
      /\ \A a \in Bufs : a # b =>
           /\ f.at[a] = p.at[a] /\ Len(f.lines[a]) = Len(p.lines[a])
           /\ \A i \in 1 .. Len(p.lines[a]) : Twin(p.lines[a][i], f.lines[a][i])
  BY <1>1, <1>4, <1>5, <1>6 DEF Dropped, Count
<1>8. Here(f).line = n
  <2>1. Count(f) = Count(e) - 1
    BY <1>7 DEF Count
  <2>2. ~ n > Count(f)
    BY <1>1, <2>1 DEF n
  <2> QED
    BY <1>7, <2>2 DEF Clamp
<1>9. Len(f.lines[BD]) # 1 /\ f.lines[BD][f.at[BD].line].text = s
  <2>1. /\ f.at[BD] = p.at[BD] /\ Len(f.lines[BD]) = Len(p.lines[BD])
        /\ \A i \in 1 .. Len(p.lines[BD]) : Twin(p.lines[BD][i], f.lines[BD][i])
    BY <1>1, <1>7
  <2>2. Len(p.lines[BD]) # 1 /\ p.lines[BD][p.at[BD].line].text = s
    BY <1>3 DEF OnTop
  <2>3. p.at[BD].line \in 1 .. Len(p.lines[BD])
    BY <1>1, <1>4 DEF Sound, Loose, OnText
  <2> QED
    BY <2>1, <2>2, <2>3 DEF Twin
<1>10. ~ Full(f)
  <2>1. PICK g : /\ Shaped(g) /\ Used(g) <= Used(e) /\ Len(p.lines[BD]) = Len(g.lines[BD]) + 1
                 /\ \A a \in Bufs : a # BD => Len(p.lines[a]) = Len(g.lines[a])
    BY <1>3 DEF OnTop
  <2>2. Shaped(f)
    BY <1>7 DEF Sound, Loose
  <2>3. /\ Len(f.lines[BD]) = Len(g.lines[BD]) + 1 /\ Len(f.lines[b]) = Len(g.lines[b]) - 1
        /\ \A a \in Bufs : a # BD /\ a # b => Len(f.lines[a]) = Len(g.lines[a])
    BY <1>1, <1>4, <1>7, <2>1 DEF Count
  <2>4. Used(f) = Used(g)
    BY <1>1, <2>1, <2>2, <2>3, UsedShifted
  <2>5. Used(f) \in Nat /\ Used(e) \in Nat /\ Heap \in Nat
    BY <1>1, <2>2, UsedIs, BufferAssumption
  <2> QED
    BY <2>1, <2>4, <2>5 DEF Full
<1>11. \A k \in 1 .. n - 1 : f.lines[b][k].text = TextAt(e, k)
  <2> SUFFICES ASSUME NEW k \in 1 .. n - 1 PROVE f.lines[b][k].text = TextAt(e, k)
    OBVIOUS
  <2>1. k \in 1 .. Len(e.lines[b])
    BY <1>1 DEF Count
  <2> QED
    BY <1>4, <1>7, <2>1 DEF Twin, TextAt
<1>12. \A k \in n .. Count(e) - 1 : f.lines[b][k].text = TextAt(e, k + 1)
  <2> SUFFICES ASSUME NEW k \in n .. Count(e) - 1 PROVE f.lines[b][k].text = TextAt(e, k + 1)
    OBVIOUS
  <2>1. k + 1 \in 1 .. Len(e.lines[b])
    BY <1>1 DEF Count
  <2> QED
    BY <1>4, <1>7, <2>1 DEF Twin, TextAt
<1>13. Gone(e, f)
  BY <1>7, <1>8, <1>9, <1>10, <1>11, <1>12 DEF Gone, s
<1> QED
  BY <1>2, <1>13

\* The undo puts it back where it was.
LEMMA BdelpopBack ==
  ASSUME NEW e, Sound(e), e.curbuf # BD, Here(e).line < Count(e), NEW f, Gone(e, f)
  PROVE  TextsKept(e, Bdelpop(f), e.curbuf) /\ Sound(Bdelpop(f))
<1> DEFINE b == e.curbuf
           n == Here(e).line
           c == Count(e)
           s == TextAt(Switched(f, BD), f.at[BD].line)
           put == Blins(f, s)
           there == Switched(put, BD)
           low == DropLine(there)
           back == Switched(low, f.curbuf)
<1>1. /\ n \in 1 .. c /\ n \in Nat /\ c \in Nat \ {0} /\ b \in Bufs /\ Text(e) \in Seq(Chars)
      /\ BD \in Bufs /\ Len(e.lines[b]) = c
  BY SoundHere DEF Bufs, Count
<1>2. /\ Sound(f) /\ f.curbuf = b /\ Here(f).line = n /\ ~ Full(f) /\ Len(f.lines[BD]) # 1
      /\ f.lines[BD][f.at[BD].line].text = Text(e) /\ Len(f.lines[b]) = c - 1
      /\ \A k \in 1 .. n - 1 : f.lines[b][k].text = TextAt(e, k)
      /\ \A k \in n .. c - 1 : f.lines[b][k].text = TextAt(e, k + 1)
  BY DEF Gone
<1>3. Bdelpop(f) = back
  BY <1>2 DEF Bdelpop, Switched
<1>4. s = Text(e)
  <2>1. Switched(f, BD).curbuf = BD /\ Switched(f, BD).lines = f.lines
    BY <1>1, <1>2, SwitchedIs
  <2> QED
    BY <1>2, <2>1 DEF TextAt
<1> HIDE DEF s, n, c, b
<1>5. Added(f, put, n - 1, s, "no")
  BY <1>1, <1>2, <1>4, BlinsIs
<1> HIDE DEF put
<1>6. /\ Sound(put) /\ put.curbuf = b /\ Len(put.lines[b]) = (c - 1) + 1
      /\ \A k \in 1 .. n - 1 : put.lines[b][k] = f.lines[b][k]
      /\ put.lines[b][(n - 1) + 1].text = s
      /\ \A k \in (n - 1) + 1 .. c - 1 : put.lines[b][k + 1] = f.lines[b][k]
  BY <1>2, <1>5 DEF Added, LinesUp
<1>7. TextsKept(e, put, b)
  <2>1. Len(put.lines[b]) = Len(e.lines[b])
    BY <1>1, <1>6
  <2>2. ASSUME NEW k \in 1 .. c PROVE put.lines[b][k].text = TextAt(e, k)
    <3>1. CASE k < n
      <4>1. k \in 1 .. n - 1
        BY <1>1, <3>1
      <4> QED
        BY <1>2, <1>6, <4>1
    <3>2. CASE k = n
      <4>1. (n - 1) + 1 = n
        BY <1>1
      <4> QED
        BY <1>4, <1>6, <3>2, <4>1 DEF Text, n
    <3>3. CASE k > n
      <4> PICK j \in Nat : j = k - 1
        BY <1>1, <3>3
      <4>1. j \in n .. c - 1 /\ j \in (n - 1) + 1 .. c - 1 /\ j + 1 = k
        BY <1>1, <3>3
      <4> QED
        BY <1>2, <1>6, <4>1
    <3> QED
      BY <1>1, <3>1, <3>2, <3>3
  <2> QED
    BY <1>1, <2>1, <2>2 DEF TextsKept, TextAt, b
<1>8. Sound(there) /\ there.curbuf = BD /\ there.lines = put.lines
  BY <1>1, <1>6, SwitchedIs
<1> HIDE DEF there
<1>9. Aside(there, low) /\ Sound(low)
  BY <1>8, DropLineAside, DropLineKeeps DEF Keeps
<1> HIDE DEF low
<1>10. Sound(back) /\ back.lines = low.lines
  BY <1>1, <1>2, <1>9, SwitchedIs
<1> HIDE DEF back
<1>11. TextsKept(put, back, b)
  BY <1>1, <1>8, <1>9, <1>10 DEF Aside, Twin, TextsKept, b
<1>12. TextsKept(e, back, b)
  BY <1>7, <1>11, TextsKeptTwice
<1> QED
  BY <1>3, <1>10, <1>12 DEF b

\* What is so between two keys makes keys reverse one another.
LEMMA RestReverses == AtRest(ed) => KeysReverse
<1> SUFFICES ASSUME AtRest(ed) PROVE KeysReverse
  OBVIOUS
<1> DEFINE e == Forget(ed)
           b == ed.curbuf
<1>1. /\ AtRest(e) /\ Travels(ed, e) /\ Here(e).curcol = NoCurCol
      /\ Here(e).line = Here(ed).line /\ Sound(ed)
  <2> PICK c \in Nat : c = NoCurCol
    BY DEF NoCurCol
  <2>1. Travels(ed, [ed EXCEPT !.at[ed.curbuf].curcol = c])
        /\ Here([ed EXCEPT !.at[ed.curbuf].curcol = c]) = [Here(ed) EXCEPT !.curcol = c]
    BY Columned DEF AtRest
  <2>2. e = [ed EXCEPT !.at[ed.curbuf].curcol = c]
    BY DEF Forget
  <2>3. Here(ed) \in Spots
    BY DEF AtRest, Sound, Loose, Shaped, Editor, Here
  <2> QED
    BY <2>1, <2>2, <2>3, ForgetRests DEF AtRest, Spots
<1> HIDE DEF e
<1>2. /\ Sound(e) /\ e.curbuf = b /\ b \in Bufs /\ b # BD /\ Count(e) = Count(ed) /\ Shaped(e)
  BY <1>1, TravelsTexts, BufferAssumption DEF AtRest, Sound, Loose, Travels, Alike, Bufs
<1>3. ASSUME ~ Full(e), Here(e).line < Count(e), NEW stackok, stackok
      PROVE  Restored(Bdelpop(Bldel(e, stackok)), e)
  <2> PICK f : f = Bldel(e, stackok)
    OBVIOUS
  <2>1. Gone(e, f)
    BY <1>2, <1>3, BldelGone
  <2>2. TextsKept(e, Bdelpop(f), b) /\ Sound(Bdelpop(f))
    BY <1>2, <1>3, <2>1, BdelpopBack
  <2>3. Restored(Bdelpop(f), e)
    BY <1>2, <2>2, TextsRestored DEF Restored, Sound, Loose
  <2> QED
    BY <2>3
<1>4. ASSUME NEW overtype, ~ overtype, Bcins(e, Alnum, overtype).lines # e.lines
      PROVE  Restored(BackSpace(Bcins(e, Alnum, overtype)), e)
             /\ SamePlace(BackSpace(Bcins(e, Alnum, overtype)), e)
  <2> PICK f : f = Bcins(e, Alnum, overtype)
    OBVIOUS
  <2>1. Alnum \in Chars
    BY DEF Chars
  <2>2. Typed(e, f, Alnum)
    BY <1>2, <1>4, <2>1, BcinsTypes
  <2>3. SamePlace(BackSpace(f), e) /\ TextsKept(e, BackSpace(f), b) /\ Sound(BackSpace(f))
    BY <1>2, <2>1, <2>2, TypedBack
  <2>4. Restored(BackSpace(f), e)
    BY <1>2, <2>3, TextsRestored DEF Restored, Sound, Loose
  <2> QED
    BY <2>3, <2>4
<1>5. ~ AtEnd(e) => SamePlace(Left(Right(e)), e)
  BY <1>2, LeftOfRight
<1>6. /\ Here(ed).line < Count(ed) => SamePlace(Up(Down(e)), e)
      /\ Here(ed).line > 1 => SamePlace(Down(Up(e)), e)
  BY <1>1, <1>2, UpAndDown
<1>7. ~ Full(e) /\ Here(e).line < Count(e) => Restored(Bdelpop(Bldel(e, TRUE)), e)
  BY <1>3
<1>8. Bcins(e, Alnum, FALSE).lines # e.lines =>
        /\ Restored(BackSpace(Bcins(e, Alnum, FALSE)), e)
        /\ SamePlace(BackSpace(Bcins(e, Alnum, FALSE)), e)
  BY <1>4
<1> QED
  BY <1>5, <1>6, <1>7, <1>8 DEF KeysReverse, e

\* What a key does, another undoes, wherever the cursor is: a deleted line comes back in
\* its place, a character that was typed goes with backspace, and the cursor returns,
\* through tabs and at the ends of lines too.
THEOREM KeysUndone == Spec => []KeysReverse
BY EditorRests, RestReverses, PTL

=============================================================================
