----------------------------- MODULE TextBuffer -----------------------------
(***************************************************************************)
(* The text buffers of DREDIX (src/commands/dredix): the cursor and the    *)
(* changes at it (ebuf.c), the block commands with their two marks         *)
(* (ecmdblk.c), the undo stack, and the keys that call them (ed.c).  The   *)
(* lines of a buffer are a sequence here: TextStore shows that its linked  *)
(* lists are one.  Windows and messages are left out.                      *)
(*                                                                         *)
(* A key is one action; a command is built from the same steps as in the   *)
(* code, functions from one state `e' of the editor to the next.           *)
(***************************************************************************)
EXTENDS Integers, Sequences, SequencesExt, FiniteSets

CONSTANTS
  Texts,      \* the buffers B1 .. B4 of the user
  BD,         \* the buffer of deleted lines
  BNONE,
  Alnum, Space, Tab,   \* a character of each class
  Loaded,     \* the lines a buffer may hold when its file has been read
  Heap,       \* lines malloc has room for
  MaxUndo,    \* MAXUNDO
  MaxPos, Slop, MaxTab, TabWidth,   \* MAXPOS, SLOP, MAXTAB, 8
  Cost(_),    \* bound: what a key counts,
  MaxKeys     \* and how much the keys hit may count together

ASSUME BufferAssumption ==
  /\ IsFiniteSet(Texts) /\ Texts # {}
  /\ BD \notin Texts /\ BNONE \notin Texts \cup {BD}
  /\ \A t \in Loaded : t # <<>> /\ t \in Seq(Seq({Alnum, Space, Tab}))
  /\ {Heap, MaxUndo, MaxPos, Slop, MaxTab, TabWidth, MaxKeys} \subseteq Nat \ {0}

Bufs == Texts \cup {BD}
Chars == {Alnum, Space, Tab}
NoCurCol == 0

VARIABLES
  ed,     \* the editor: see InitEd
  keys    \* what the keys hit so far count

vars == <<ed, keys>>

IsSpace(c) == c \in {Space, Tab}
LeastOf(S) == CHOOSE x \in S : \A y \in S : x <= y

-----------------------------------------------------------------------------
(* Columns. *)

TabValue(col) == IF col >= MaxTab THEN 1 ELSE TabWidth - ((col - 1) % TabWidth)
Advance(col, c) == IF c = Tab THEN col + TabValue(col) ELSE col + 1

\* tabcol: the column of position pos.
TabCol(s, pos) ==
  LET col[p \in 1 .. Len(s) + 1] == IF p = 1 THEN 1 ELSE Advance(col[p - 1], s[p - 1])
  IN  col[pos]

\* tabpos: the first position that is not left of column col, or behind the end.
TabPos(s, col) ==
  LeastOf({p \in 1 .. Len(s) : TabCol(s, p) >= col} \cup {Len(s) + 1})

-----------------------------------------------------------------------------
(* Lines, the cursor, the memory. *)

\* A line: its text, the room of its descriptor, and whether the user has
\* marked it ("in"), it is a copy being made of a marked line ("new") or not.
Line(s, m) == [text |-> s, room |-> Len(s), mark |-> m]

Here(e) == e.at[e.curbuf]
Count(e) == Len(e.lines[e.curbuf])
TextAt(e, n) == e.lines[e.curbuf][n].text
Text(e) == TextAt(e, Here(e).line)
Used(e) == Cardinality(UNION {{b} \X DOMAIN e.lines[b] : b \in Bufs})
Full(e) == Used(e) >= Heap

\* The cursor on line n, at position p; bcol follows.
Move(e, n, p) ==
  [e EXCEPT !.at[e.curbuf] = [@ EXCEPT !.line = n, !.pos = p, !.col = TabCol(TextAt(e, n), p)]]

\* A text of the line n that fits, without a look at its room.
SetText(e, n, s) == [e EXCEPT !.lines[e.curbuf][n].text = s]
Modified(e) == [e EXCEPT !.mod[e.curbuf] = TRUE]

\* Mneed: TRUE in the first component if there is room for size characters.
Mneed(e, n, size) ==
  IF size <= e.lines[e.curbuf][n].room THEN <<TRUE, e>>
  ELSE IF size >= MaxPos THEN <<FALSE, e>>
  ELSE IF Full(e) THEN <<FALSE, [e EXCEPT !.bfull = TRUE]>>
  ELSE <<TRUE, [e EXCEPT !.bfull = FALSE,
                         !.lines[e.curbuf][n].room =
                            IF size + Slop > MaxPos THEN MaxPos ELSE size + Slop]>>

-----------------------------------------------------------------------------
(* Moving about. *)

Clamp(e, n) == IF n > Count(e) THEN Count(e) ELSE n

\* Bseek to the first character of a line that is not a space.
FirstInk(s) == LeastOf({p \in 1 .. Len(s) : ~ IsSpace(s[p])} \cup {Len(s) + 1})
SeekLeft(e, n) == Move(e, Clamp(e, n), FirstInk(TextAt(e, Clamp(e, n))))
SeekRight(e, n) == Move(e, Clamp(e, n), Len(TextAt(e, Clamp(e, n))) + 1)

Bseekpos(e, n, p) ==
  LET len == Len(TextAt(e, Clamp(e, n))) + 1
  IN  Move(e, Clamp(e, n), IF p > len THEN len ELSE p)

\* Bug: the column that is kept is taken for the column of the cursor.
BugVertical(e, n) ==
  LET want == IF Here(e).curcol = NoCurCol THEN Here(e).col ELSE Here(e).curcol
  IN  [Move(e, n, TabPos(TextAt(e, n), want)) EXCEPT
         !.at[e.curbuf].curcol = want, !.at[e.curbuf].col = want]

\* Btravel UP and DOWN: the column of the first of a run of them is kept.
Vertical(e, n) ==
  LET want == IF Here(e).curcol = NoCurCol THEN Here(e).col ELSE Here(e).curcol
  IN  Move([e EXCEPT !.at[e.curbuf].curcol = want], n, TabPos(TextAt(e, n), want))
Up(e) == IF Here(e).line = 1 THEN e ELSE Vertical(e, Here(e).line - 1)
Down(e) == IF Here(e).line = Count(e) THEN e ELSE Vertical(e, Here(e).line + 1)

AtStart(e) == Here(e).line = 1 /\ Here(e).pos = 1
AtEnd(e) == Here(e).line = Count(e) /\ Here(e).pos = Len(Text(e)) + 1
Right(e) ==
  IF AtEnd(e) THEN e
  ELSE IF Here(e).pos = Len(Text(e)) + 1 THEN Move(e, Here(e).line + 1, 1)
  ELSE Move(e, Here(e).line, Here(e).pos + 1)
Left(e) ==
  IF AtStart(e) THEN e
  ELSE IF Here(e).pos = 1 THEN SeekRight(e, Here(e).line - 1)
  ELSE Move(e, Here(e).line, Here(e).pos - 1)

\* Bwdtravel: positions in the order of the text; the end of a line is none
\* of the alphanumeric characters.
Positions(e) == UNION {{n} \X (1 .. Len(TextAt(e, n)) + 1) : n \in 1 .. Count(e)}
Before(x, y) == x[1] < y[1] \/ (x[1] = y[1] /\ x[2] < y[2])
InWord(e, x) == x[2] <= Len(TextAt(e, x[1])) /\ TextAt(e, x[1])[x[2]] = Alnum
Cursor(e) == <<Here(e).line, Here(e).pos>>
First(S) == CHOOSE x \in S : \A y \in S : x = y \/ Before(x, y)
LastIn(S) == CHOOSE x \in S : \A y \in S : x = y \/ Before(y, x)

WordRight(e) ==
  LET gap == First({x \in Positions(e) : ~ Before(x, Cursor(e)) /\ ~ InWord(e, x)})
      words == {x \in Positions(e) : Before(gap, x) /\ InWord(e, x)}
      x == IF words = {} THEN LastIn(Positions(e)) ELSE First(words)
  IN  Move(e, x[1], x[2])

WordLeft(e) ==
  LET words == {x \in Positions(e) : Before(x, Cursor(e)) /\ InWord(e, x)}
      w == LastIn(words)
      start == LeastOf({p \in 1 .. w[2] : \A q \in p .. w[2] : InWord(e, <<w[1], q>>)})
  IN  IF words = {} THEN Move(e, 1, 1) ELSE Move(e, w[1], start)

-----------------------------------------------------------------------------
(* The marks follow their lines. *)

\* clearmarks
ClearMarks(e) ==
  IF e.frombuf # e.curbuf THEN e
  ELSE [e EXCEPT !.frombuf = BNONE, !.line1 = 0, !.line2 = 0, !.ismarked = FALSE, !.exact = TRUE,
                 !.lines = [b \in Bufs |-> [i \in DOMAIN e.lines[b] |->
                                              [e.lines[b][i] EXCEPT !.mark = IF @ = "in" THEN "no" ELSE @]]]]

\* A first mark alone does not follow: the note is for the properties.
Unfollowed(e) ==
  IF e.line1 # 0 /\ ~ e.ismarked /\ e.frombuf = e.curbuf THEN [e EXCEPT !.exact = FALSE] ELSE e

\* Bug: the first marked line counts as one before the block.
BugDelFix(e, n) ==
  IF ~ e.ismarked \/ e.frombuf # e.curbuf THEN Unfollowed(e)
  ELSE LET l1 == IF n <= e.line1 THEN e.line1 - 1 ELSE e.line1
           l2 == IF n <= e.line2 THEN e.line2 - 1 ELSE e.line2
           f == [e EXCEPT !.line1 = l1, !.line2 = l2]
       IN  IF l2 < l1 THEN ClearMarks(f) ELSE f

DelFix(e, n) ==
  IF ~ e.ismarked \/ e.frombuf # e.curbuf THEN Unfollowed(e)
  ELSE LET l1 == IF e.line1 # 0 /\ n < e.line1 THEN e.line1 - 1 ELSE e.line1
           l2 == IF e.line2 # 0 /\ n <= e.line2 THEN e.line2 - 1 ELSE e.line2
           f == [e EXCEPT !.line1 = l1, !.line2 = l2]
       IN  IF l2 # e.line2 /\ l2 < l1 THEN ClearMarks(f) ELSE f

AppFix(e, n) ==
  IF ~ e.ismarked \/ e.frombuf # e.curbuf THEN Unfollowed(e)
  ELSE [e EXCEPT !.line1 = IF @ # 0 /\ n < @ THEN @ + 1 ELSE @,
                 !.line2 = IF @ # 0 /\ n < @ THEN @ + 1 ELSE @]

-----------------------------------------------------------------------------
(* Whole lines. *)

\* A line put between two marked lines is marked.
Between(e, n) == /\ n >= 1 /\ n < Count(e)
                 /\ e.lines[e.curbuf][n].mark = "in" /\ e.lines[e.curbuf][n + 1].mark = "in"

\* Mapp after line n, with the number of lines.
Mapp(e, n, s, m) ==
  [e EXCEPT !.bfull = FALSE,
            !.lines[e.curbuf] = InsertAt(@, n + 1, Line(s, IF Between(e, n) THEN "in" ELSE m))]

Blapp(e, s, m) ==
  IF Full(e) THEN [e EXCEPT !.bfull = TRUE]
  ELSE Modified(Move(AppFix(Mapp(e, Here(e).line, s, m), Here(e).line), Here(e).line + 1, 1))

Blins(e, s) ==
  IF Full(e) THEN [e EXCEPT !.bfull = TRUE]
  ELSE Modified(Move(AppFix(Mapp(e, Here(e).line - 1, s, "no"), Here(e).line - 1), Here(e).line, 1))

\* Bldel(FALSE)
DropLine(e) ==
  LET n == Here(e).line
      gone == IF Count(e) = 1
              THEN [e EXCEPT !.lines[e.curbuf] = << [@[1] EXCEPT !.text = <<>>, !.mark = "no"] >>]
              ELSE [e EXCEPT !.lines[e.curbuf] = RemoveAt(@, n)]
  IN  IF Count(e) = 1 /\ Text(e) = <<>> THEN e
      ELSE Modified(DelFix(Move(gone, Clamp(gone, n), 1), n))

\* delpush: the oldest line goes when the stack is full.
DelPush(e, s) ==
  LET d == [e EXCEPT !.curbuf = BD]
      cut == IF Count(d) > MaxUndo THEN SeekLeft(DropLine(SeekLeft(d, 1)), Count(d)) ELSE d
  IN  [Blapp(cut, s, "no") EXCEPT !.curbuf = e.curbuf]

\* Bldel
Bldel(e, stackok) ==
  IF Count(e) = 1 /\ Text(e) = <<>> THEN e
  ELSE DropLine(IF stackok THEN DelPush(e, Text(e)) ELSE e)

\* Bug: the line is put behind the cursor.
BugBdelpop(e) ==
  IF Len(e.lines[BD]) = 1 THEN e
  ELSE LET put == Blapp(e, TextAt([e EXCEPT !.curbuf = BD], e.at[BD].line), "no")
       IN  [DropLine([put EXCEPT !.curbuf = BD]) EXCEPT !.curbuf = e.curbuf]

\* Bdelpop: the line leaves the stack whether it could be put back or not.
Bdelpop(e) ==
  IF Len(e.lines[BD]) = 1 THEN e
  ELSE LET put == Blins(e, TextAt([e EXCEPT !.curbuf = BD], e.at[BD].line))
       IN  [DropLine([put EXCEPT !.curbuf = BD]) EXCEPT !.curbuf = e.curbuf]

-----------------------------------------------------------------------------
(* Characters. *)

\* Bcins of the end of a line: spaces at the cut are dropped, and the line is
\* cut before it is known that there is room for the rest.
Split(e) ==
  LET s == Text(e)
      p == Here(e).pos
      from == IF p = 1 THEN 1
              ELSE LeastOf({q \in p .. Len(s) : ~ IsSpace(s[q])} \cup {Len(s) + 1})
  IN  Modified(Blapp(SetText(e, Here(e).line, SubSeq(s, 1, p - 1)), SubSeq(s, from, Len(s)), "no"))

\* Bcins of a character.
Bcins(e, c, overtype) ==
  LET s == Text(e)
      p == Here(e).pos
      n == Here(e).line
      need == Mneed(e, n, Len(s) + 1)
  IN  IF overtype /\ p <= Len(s)
      THEN Modified(Move(SetText(e, n, [s EXCEPT ![p] = c]), n, p + 1))
      ELSE IF ~ need[1] THEN need[2]
      ELSE Modified(Move(SetText(need[2], n, InsertAt(s, p, c)), n, p + 1))

\* Bcdel at the end of a line: the next line comes behind a space.  The room
\* asked for is that of the two lines.  (On the next line the position is still
\* that of this one when Bldel is called, which does not look at it but sets it.)
Join(e) ==
  LET n == Here(e).line
      p == Here(e).pos
      next == TextAt(e, n + 1)
      bare == SubSeq(next, FirstInk(next), Len(next))
      need == Mneed(e, n, Len(Text(e)) + Len(next))
      both == SetText(SetText(need[2], n + 1, bare), n, Text(e) \o <<Space>> \o bare)
      gone == Bldel(Move(both, n + 1, 1), TRUE)
  IN  IF n = Count(e) THEN e
      ELSE IF ~ need[1] THEN need[2]
      ELSE Modified(Move(gone, n, p))

\* Bcdel
Bcdel(e) ==
  IF Text(e) = <<>> THEN Bldel(e, TRUE)
  ELSE IF Here(e).pos = Len(Text(e)) + 1 THEN Join(e)
  ELSE Modified(SetText(e, Here(e).line, RemoveAt(Text(e), Here(e).pos)))

BackSpace(e) == IF AtStart(e) THEN e ELSE Bcdel(Left(e))

\* Bfancydel: to the end of the line.
Bfancydel(e) == Modified(SetText(e, Here(e).line, SubSeq(Text(e), 1, Here(e).pos - 1)))

-----------------------------------------------------------------------------
(* Blocks. *)

\* mark: the lines from the one mark to the other are marked.
Second(e) ==
  LET l == Here(e).line
      lo == IF l < e.line1 THEN l ELSE e.line1
      hi == IF l < e.line1 THEN e.line1 ELSE l
  IN  [e EXCEPT !.line1 = lo, !.line2 = hi, !.ismarked = TRUE,
                !.mkpos = IF l < e.line1 THEN Here(e).pos ELSE @,
                !.lines[e.curbuf] = [i \in DOMAIN @ |->
                    [@[i] EXCEPT !.mark = IF i \in lo .. hi THEN "in" ELSE "no"]]]
FirstMark(e) == [e EXCEPT !.frombuf = e.curbuf, !.line1 = Here(e).line,
                          !.mkpos = Here(e).pos, !.exact = TRUE]
Mark(e) ==
  IF e.frombuf \notin {BNONE, e.curbuf}
  THEN IF e.line1 # 0 /\ e.line2 # 0 THEN e ELSE FirstMark(e)
  ELSE IF e.line1 = 0 THEN FirstMark(e)
  ELSE IF e.line2 = 0 THEN Second(e) ELSE ClearMarks(e)

BadTarget(e) == e.curbuf = e.frombuf /\ Here(e).line >= e.line1 /\ Here(e).line < e.line2
MayCopy(e) == e.ismarked /\ ~ BadTarget(e)

\* Bug: the marks are read once.
BugCopyLines(e, junk) ==
  LET fetch(f, i) == IF e.line1 + i > Len(f.lines[e.frombuf]) THEN junk
                     ELSE f.lines[e.frombuf][e.line1 + i].text
      one(a, i) == IF a.bfull /\ i > 0 THEN a ELSE Blapp(a, fetch(a, i), "new")
      after[k \in 0 .. e.line2 - e.line1 + 1] == IF k = 0 THEN e ELSE one(after[k - 1], k - 1)
  IN  SeekLeft(after[e.line2 - e.line1 + 1], Here(e).line + 1)

\* copylines: the lines are fetched one by one where the marks then are.  A
\* line beyond the end is a null pointer, and what is copied is there.
CopyLines(e, junk) ==
  LET fetch(f, i) == IF f.line1 + i > Len(f.lines[f.frombuf]) THEN junk
                     ELSE f.lines[f.frombuf][f.line1 + i].text
      one(a, i) == IF a.bfull /\ i > 0 THEN a ELSE Blapp(a, fetch(a, i), "new")
      after[k \in 0 .. e.line2 - e.line1 + 1] == IF k = 0 THEN e ELSE one(after[k - 1], k - 1)
  IN  SeekLeft(after[e.line2 - e.line1 + 1], Here(e).line + 1)

\* The copies are copies no longer.
Settled(e) == [e EXCEPT !.lines = [b \in Bufs |-> [i \in DOMAIN e.lines[b] |->
                 [e.lines[b][i] EXCEPT !.mark = IF @ = "new" THEN "no" ELSE @]]]]

\* deletelines and the second half of movelines: the lines of the block.
DropBlock(e, stackok) ==
  LET there == SeekLeft([e EXCEPT !.curbuf = e.frombuf], e.line1)
      after[k \in 0 .. e.line2 - e.line1 + 1] == IF k = 0 THEN there ELSE Bldel(after[k - 1], stackok)
  IN  after[e.line2 - e.line1 + 1]

MayMove(e) == MayCopy(e) /\ ~ (e.frombuf = e.curbuf /\ Here(e).line = e.line2)

\* movelines: the copies become the block.
MoveLines(e, junk) ==
  LET delta == e.line2 - e.line1 + 1
      here == IF e.frombuf = e.curbuf /\ Here(e).line > e.line2
              THEN Here(e).line - delta ELSE Here(e).line
      copied == CopyLines(e, junk)
      dropped == DropBlock(copied, FALSE)
      back == IF copied.line1 > 1 THEN SeekLeft(dropped, copied.line1 - 1) ELSE dropped
      moved == [back EXCEPT
                  !.curbuf = e.curbuf, !.frombuf = e.curbuf, !.ismarked = TRUE,
                  !.line1 = here + 1, !.line2 = here + delta,
                  !.exact = e.exact /\ ~ copied.bfull,
                  !.lines = [b \in Bufs |-> [i \in DOMAIN back.lines[b] |->
                    [back.lines[b][i] EXCEPT !.mark = IF @ = "new" THEN "in" ELSE "no"]]]]
  IN  SeekLeft(moved, here + 1)

DeleteLines(e) == [DropBlock(e, TRUE) EXCEPT !.curbuf = e.curbuf]

\* KGO 0: back to the first mark, which clears the marks.
GoMark(e) ==
  IF e.line1 = 0 THEN e
  ELSE ClearMarks(Bseekpos([e EXCEPT !.curbuf = e.frombuf], e.line1, e.mkpos))

-----------------------------------------------------------------------------
(* The keys. *)

InitEd(load) ==
  [lines |-> [b \in Bufs |-> IF b = BD THEN <<Line(<<>>, "no")>>
                             ELSE [i \in DOMAIN load[b] |-> Line(load[b][i], "no")]],
   at |-> [b \in Bufs |-> [line |-> 1, pos |-> 1, col |-> 1, curcol |-> NoCurCol]],
   mod |-> [b \in Bufs |-> FALSE],
   curbuf |-> CHOOSE b \in Texts : TRUE,
   frombuf |-> BNONE, line1 |-> 0, line2 |-> 0, mkpos |-> 1, ismarked |-> FALSE,
   bfull |-> FALSE,
   exact |-> TRUE]   \* not in the code: the marks have been followed so far

Init == /\ keys = 0
        /\ \E load \in [Texts -> Loaded] : ed = InitEd(load)

Hit(k) == keys + Cost(k) <= MaxKeys /\ keys' = keys + Cost(k)

\* ed.c: all keys but the vertical ones forget the column.
Forget(e) == [e EXCEPT !.at[e.curbuf].curcol = NoCurCol]

KUp == Hit("up") /\ ed' = Up(ed)
KDown == Hit("down") /\ ed' = Down(ed)
KLeft == Hit("left") /\ ed' = Left(Forget(ed))
KRight == Hit("right") /\ ed' = Right(Forget(ed))
KLWord == Hit("lword") /\ ed' = WordLeft(Forget(ed))
KRWord == Hit("rword") /\ ed' = WordRight(Forget(ed))
KHome == Hit("home") /\ ed' = SeekLeft(Forget(ed), 1)
KDownHome == Hit("downhome") /\ ed' = SeekRight(Forget(ed), Count(ed))
KBgn == Hit("bgn") /\ ed' = SeekLeft(Forget(ed), Here(ed).line)
KEnd == Hit("end") /\ ed' = SeekRight(Forget(ed), Here(ed).line)
KGo == Hit("go") /\ \/ \E n \in 1 .. Count(ed) : ed' = SeekLeft(Forget(ed), n)
                    \/ ed' = GoMark(Forget(ed))
KBuf == Hit("buf") /\ \E b \in Texts : ed' = [Forget(ed) EXCEPT !.curbuf = b]
KDc == Hit("dc") /\ ed' = Bcdel(Forget(ed))
KDl == Hit("dl") /\ ed' = Bldel(Forget(ed), TRUE)
KApp == Hit("app") /\ ed' = Blapp(Forget(ed), <<>>, "no")
KIns == Hit("ins") /\ ed' = Blins(Forget(ed), <<>>)
KUndo == Hit("undo") /\ ed' = Bdelpop(Forget(ed))
KDle == Hit("dle") /\ ed' = Bfancydel(Forget(ed))
KEnter == Hit("enter") /\ ed' = Split(Forget(ed))
KBackSpace == Hit("bs") /\ ed' = BackSpace(Forget(ed))
KLit == Hit("lit") /\ \E c \in Chars, overtype \in BOOLEAN : ed' = Bcins(Forget(ed), c, overtype)
KMark == Hit("mark") /\ ed' = Mark(Forget(ed))
KCopy == /\ Hit("copy")
         /\ IF MayCopy(ed) THEN \E junk \in {<<>>, <<Alnum>>} : ed' = Settled(CopyLines(Forget(ed), junk))
            ELSE ed' = Forget(ed)
KMove == /\ Hit("move")
         /\ IF MayMove(ed) THEN \E junk \in {<<>>, <<Alnum>>} : ed' = MoveLines(Forget(ed), junk)
            ELSE ed' = Forget(ed)
KBDel == /\ Hit("bdel")
         /\ ed' = IF ed.ismarked THEN DeleteLines(Forget(ed)) ELSE Forget(ed)
Enough == keys = MaxKeys /\ UNCHANGED vars

Next ==
  \/ KUp \/ KDown \/ KLeft \/ KRight \/ KLWord \/ KRWord
  \/ KHome \/ KDownHome \/ KBgn \/ KEnd \/ KGo \/ KBuf
  \/ KDc \/ KDl \/ KApp \/ KIns \/ KUndo \/ KDle \/ KEnter \/ KBackSpace \/ KLit
  \/ KMark \/ KCopy \/ KMove \/ KBDel \/ Enough

Spec == Init /\ [][Next]_vars

-----------------------------------------------------------------------------
(* Properties. *)

\* In every buffer, also one that another command has changed from outside, the
\* cursor is in the text and bcol is its column on the screen, tabs included.
CursorInText ==
  \A b \in Bufs :
    LET e == [ed EXCEPT !.curbuf = b]
    IN  /\ Here(e).line \in 1 .. Count(e)
        /\ Here(e).pos \in 1 .. Len(Text(e)) + 1
        /\ Here(e).col = TabCol(Text(e), Here(e).pos)

\* The marks go on denoting the lines the user marked, however lines are added,
\* deleted, undone, copied and moved before, behind and among them, in the same
\* or another buffer, and no others (if none was added or deleted between the
\* first and the second mark, and no move ran out of memory).
MarksFollow ==
  ed.exact =>
    \A b \in Bufs : \A i \in DOMAIN ed.lines[b] :
      (ed.lines[b][i].mark = "in") <=>
        (ed.ismarked /\ b = ed.frombuf /\ i \in ed.line1 .. ed.line2)

TextsOf(e, b) == [i \in DOMAIN e.lines[b] |-> e.lines[b][i].text]

\* The lines of a buffer that the user has marked, and those he has not.
Marked(e, b) == LET s == SelectSeq(e.lines[b], LAMBDA l : l.mark = "in")
                IN  [i \in DOMAIN s |-> s[i].text]
Unmarked(e, b) == LET s == SelectSeq(e.lines[b], LAMBDA l : l.mark # "in")
                  IN  [i \in DOMAIN s |-> s[i].text]

\* A move that does not run out of memory takes the block from the one place to
\* the other as it is, and changes nothing else: no line is lost or doubled.  (A
\* buffer that would be left without a line keeps an empty one.)
MoveKeepsText ==
  [][KMove /\ MayMove(ed) /\ ed.exact /\ ed'.exact =>
       /\ Marked(ed', ed.curbuf) = Marked(ed, ed.frombuf)
       /\ \A b \in Bufs :
            \/ Unmarked(ed', b) = Unmarked(ed, b)
            \/ Unmarked(ed, b) = <<>> /\ Unmarked(ed', b) = << <<>> >>]_vars

\* What a key does, another undoes, wherever the cursor is: a deleted line can be
\* put back, a character typed is taken away by backspace, the cursor returns.
Restored(e, f) == TextsOf(e, ed.curbuf) = TextsOf(f, ed.curbuf)
SamePlace(e, f) == Cursor(e) = Cursor(f) /\ Here(e).col = Here(f).col
KeysReverse ==
  LET e == Forget(ed)
      deleted == Bldel(e, TRUE)
      typed == Bcins(e, Alnum, FALSE)
  IN  /\ ~ Full(e) /\ Here(e).line < Count(e) => Restored(Bdelpop(deleted), e)
      /\ typed.lines # e.lines => Restored(BackSpace(typed), e) /\ SamePlace(BackSpace(typed), e)
      /\ ~ AtEnd(e) => SamePlace(Left(Right(e)), e)
      /\ Here(ed).line < Count(ed) => SamePlace(Up(Down(e)), e)
      /\ Here(ed).line > 1 => SamePlace(Down(Up(e)), e)

\* No text is longer than the room Mneed has made sure of.
WithinRoom == \A b \in Bufs : \A i \in DOMAIN ed.lines[b] :
                Len(ed.lines[b][i].text) <= ed.lines[b][i].room

=============================================================================
