------------------------------- MODULE Search -------------------------------
(***************************************************************************)
(* Searching and translating in DREDIX (src/commands/dredix): the patterns *)
(* and their matcher (epat.c), and the search, search-again and translate  *)
(* commands (ecmdglb.c).  Translate goes round the text once, from the     *)
(* cursor to the cursor, while what it replaces grows and shrinks under it.*)
(*                                                                         *)
(* Left out: casesensitive and hasnewline, which nothing sets: the first   *)
(* is always TRUE, the second FALSE (ecmdglb.c:66-72 has no case for       *)
(* METANEWLINE), so that no number of lines ever changes here.             *)
(***************************************************************************)
EXTENDS Integers, Sequences, SequencesExt, FiniteSets

CONSTANTS
  Bytes,        \* what a line or a string may hold
  Star, Quest, Escape,   \* ANYCLOSURE, ANY, '\\'
  Closure, LitChar,      \* CLOSURE, LITCHAR
  Nul, ReplMark,
  SearchTexts,  \* the texts a buffer may hold: sequences of lines of characters
  Sources,      \* what the user may give for a pattern,
  Repls,        \* and for a replacement
  MaxPat,       \* MAXPAT: no pattern is longer
  MaxLen,       \* MAXPOS: no line gets longer
  MaxInt,       \* MAXINT
  MaxSearches       \* bound: commands given

ASSUME SearchAssumption ==
  /\ {MaxPat, MaxLen, MaxInt, MaxSearches} \subseteq Nat \ {0}
  /\ <<>> \notin Sources /\ Sources \cup Repls \subseteq Seq(Bytes)
  /\ \A s \in Sources : Len(s) <= MaxPat
  /\ \A t \in SearchTexts : t \in Seq(Seq(Bytes)) /\ \A i \in DOMAIN t : Len(t[i]) <= MaxLen
  /\ Star \notin {Quest, Escape} /\ Escape # Quest /\ Closure # Quest
  /\ LitChar \notin {Closure, Quest} /\ Nul \notin {Closure, LitChar, Quest}
  /\ Nul \notin Bytes /\ Closure \notin Bytes

VARIABLES
  text,      \* the lines: sequences of [c |-> character, was |-> its first place, or 0]
  blnum, bpos,
  patsrc, pat, simplepat,   \* pat is the whole array, with what is behind its end
  asking,    \* the command whose pattern is being asked for, or "none"
  repl,
  tran,      \* the translate command: see Waiting
  skipped,   \* places of matches the user has skipped
  searches       \* commands given so far

svars == <<text, blnum, bpos, patsrc, pat, simplepat, asking, repl, tran, skipped, searches>>

FirstOf(S) == CHOOSE x \in S : \A y \in S : x <= y
LastOf(S) == CHOOSE x \in S : \A y \in S : y <= x

CharsIn(line) == [i \in DOMAIN line |-> line[i].c]
Noted(line) == [i \in DOMAIN line |-> [c |-> line[i], was |-> i]]
Len1(line) == Len(line) + 1

-----------------------------------------------------------------------------
(* Patterns. *)

PatRoom == 2 * MaxPat + 2

\* The string in an array.
String(a) == SubSeq(a, 1, FirstOf({i \in 1 .. PatRoom : a[i] = Nul}) - 1)

\* makepat: a star is a closure of any character; an escape makes a literal of
\* the next one.  Each part is closed as it is made.
PartLen(arg, i) == IF arg[i] = Escape THEN 2 ELSE 1
Part(arg, i) ==
  CASE arg[i] = Star   -> <<Closure, Quest>>
    [] arg[i] = Quest  -> <<Quest>>
    [] arg[i] = Escape -> <<LitChar, arg[i + 1]>>
    [] OTHER           -> <<LitChar, arg[i]>>

\* What is made of the pattern from each place on; an escape at the end is refused.
Made(arg) ==
  LET from[i \in 1 .. Len(arg) + 1] ==
        IF i > Len(arg) THEN [ok |-> TRUE, made |-> <<>>]
        ELSE IF arg[i] = Escape /\ i = Len(arg) THEN [ok |-> FALSE, made |-> <<>>]
        ELSE [ok |-> from[i + PartLen(arg, i)].ok,
              made |-> Part(arg, i) \o from[i + PartLen(arg, i)].made]
  IN  from
MakePat(arg) == Made(arg)[1]

\* getpat: a pattern that is refused is not ended: what was behind it stays.
Overlay(a, s) == [i \in 1 .. PatRoom |-> IF i <= Len(s) THEN s[i] ELSE a[i]]
GetPat(arg) ==
  LET r == MakePat(arg)
  IN  [ok |-> r.ok, pat |-> Overlay(pat, IF r.ok THEN Append(r.made, Nul) ELSE r.made)]

\* patcheck
Simple(s) == Range(s) \cap {Star, Quest, Escape} = {}

PatSize(p, j) == IF p[j] = LitChar THEN 2 ELSE 1

\* omatch, which has the end of the line for a character.  The byte behind the
\* last of a pattern is its end.
CharAt(s, i) == IF i <= Len(s) THEN s[i] ELSE Nul
\* Bug: any character also matches the end of the line.
BugOMatch(line, i, p, j) ==
  /\ i <= Len1(line)
  /\ p[j] = LitChar => CharAt(line, i) = CharAt(p, j + 1)

OMatch(line, i, p, j) ==
  /\ i <= Len1(line)
  /\ \/ p[j] = LitChar /\ CharAt(line, i) = CharAt(p, j + 1)
     \/ p[j] = Quest /\ CharAt(line, i) # Nul

\* amatch, one part of the pattern: where a match that begins at offset ends, or
\* 0, given where one of the parts behind it does.  A closure takes all it can, and
\* gives back one at a time.
PartEnd(p, j) == IF p[j] = Closure THEN j + 1 + PatSize(p, j + 1) ELSE j + PatSize(p, j)
PartMatch(line, p, j, offset, rest) ==
  IF p[j] = Closure
  THEN LET stop == FirstOf({i \in offset .. Len1(line) + 1 : ~ OMatch(line, i, p, j + 1)})
           ends == {i \in offset .. stop : rest[i] > 0}
       IN  IF ends = {} THEN 0 ELSE rest[LastOf(ends)]
  ELSE IF OMatch(line, offset, p, j) THEN rest[offset + 1] ELSE 0

MatchFrom(line, p) ==
  LET match[j \in 1 .. Len(p) + 3] ==
        [offset \in 1 .. Len1(line) + 1 |->
           IF j > Len(p) THEN offset
           ELSE PartMatch(line, p, j, offset, match[PartEnd(p, j)])]
  IN  match
AMatch(line, offset, p, j) == MatchFrom(line, p)[j][offset]

\* positn: the first place of the string p from i on, or 0.
IsAt(p, s, i) == i + Len(p) <= Len1(s) /\ SubSeq(s, i, i + Len(p) - 1) = p
Positn(p, s, i) ==
  LET at == {j \in i .. Len(s) : IsAt(p, s, j)}
  IN  IF at = {} THEN 0 ELSE FirstOf(at)

NoPattern == IF simplepat THEN patsrc = <<>> ELSE String(pat) = <<>>

-----------------------------------------------------------------------------
(* Asking for a pattern, and searching. *)

NoTran == [active |-> FALSE]
Waiting == asking = "none" /\ ~ tran.active
NLines == Len(text)

SearchInit ==
  /\ \E t \in SearchTexts : text = [i \in DOMAIN t |-> Noted(t[i])]
  /\ blnum \in 1 .. NLines /\ bpos \in 1 .. Len1(text[blnum])
  /\ patsrc = <<>> /\ pat = [i \in 1 .. PatRoom |-> Nul] /\ simplepat = FALSE
  /\ asking = "none" /\ repl = <<>> /\ tran = NoTran /\ skipped = {} /\ searches = 0

\* A translation counts for two.
Ask == /\ Waiting
       /\ \/ asking' = "search" /\ searches < MaxSearches /\ searches' = searches + 1
          \/ asking' = "tran" /\ searches + 1 < MaxSearches /\ searches' = searches + 2
       /\ UNCHANGED <<text, blnum, bpos, patsrc, pat, simplepat, repl, tran, skipped>>

\* pattern: it goes on asking until a pattern is good or the user gives up.
Take(s) == /\ patsrc' = s
           /\ simplepat' = Simple(s)
           /\ pat' = IF Simple(s) THEN pat ELSE GetPat(s).pat
Good(s) == Simple(s) \/ GetPat(s).ok

BadPattern == /\ asking # "none"
              /\ \E s \in Sources : ~ Good(s) /\ Take(s)
              /\ UNCHANGED <<text, blnum, bpos, asking, repl, tran, skipped, searches>>

GiveUp == /\ asking # "none"
          /\ asking' = "none"
          /\ UNCHANGED <<text, blnum, bpos, patsrc, pat, simplepat, repl, tran, skipped, searches>>

\* The place in a line from p on where the pattern is found, or 0.
FindIn(line, src, a, simple, p) ==
  IF simple THEN Positn(src, line, p)
  ELSE LET at == {i \in p .. Len1(line) : AMatch(line, i, String(a), 1) > 0}
       IN  IF at = {} THEN 0 ELSE FirstOf(at)

\* Bug: the start of the line it began on is left out.
BugSearch(src, a, simple) ==
  LET line(count) == ((blnum + count - 1) % NLines) + 1
      found(count) == FindIn(CharsIn(text[line(count)]), src, a, simple,
                             IF count = 0 THEN bpos + 1 ELSE 1)
      hits == {count \in 0 .. NLines - 1 : found(count) > 0}
  IN  IF hits = {} THEN UNCHANGED <<blnum, bpos>>
      ELSE blnum' = line(FirstOf(hits)) /\ bpos' = found(FirstOf(hits))

\* morecmd: the rest of the line, the other lines, and the line once more.
Search(src, a, simple) ==
  LET line(count) == ((blnum + count - 1) % NLines) + 1
      found(count) == FindIn(CharsIn(text[line(count)]), src, a, simple,
                             IF count = 0 THEN bpos + 1 ELSE 1)
      hits == {count \in 0 .. NLines : found(count) > 0}
  IN  IF hits = {} THEN UNCHANGED <<blnum, bpos>>
      ELSE blnum' = line(FirstOf(hits)) /\ bpos' = found(FirstOf(hits))

SearchCmd == /\ asking = "search"
             /\ \E s \in Sources : Good(s) /\ Take(s) /\ Search(s, pat', Simple(s))
             /\ asking' = "none"
             /\ UNCHANGED <<text, repl, tran, skipped, searches>>

MoreCmd == /\ Waiting /\ searches < MaxSearches
           /\ searches' = searches + 1
           /\ IF NoPattern THEN UNCHANGED <<blnum, bpos>> ELSE Search(patsrc, pat, simplepat)
           /\ UNCHANGED <<text, patsrc, pat, simplepat, asking, repl, tran, skipped>>

-----------------------------------------------------------------------------
(* Translating. *)

\* trancmd up to its loop; the places of the text are noted.
TranCmd == /\ asking = "tran"
           /\ \E s \in Sources : Good(s) /\ Take(s)
           /\ asking' = "none"
           /\ \E r \in Repls : repl' = r
           /\ text' = [i \in DOMAIN text |-> Noted(CharsIn(text[i]))]
           /\ tran' = [active |-> TRUE, found |-> FALSE, global |-> FALSE, testok |-> FALSE,
                       pass |-> TRUE, startn |-> blnum, startpos |-> bpos, n |-> blnum,
                       pos1 |-> bpos, pos2 |-> 0, maxrepl |-> MaxInt,
                       whole |-> bpos = 1,     \* for the properties: from the start of a line,
                       full |-> FALSE,         \* a line was full,
                       twice |-> FALSE]        \* what was put in has been replaced
           /\ skipped' = {}
           /\ UNCHANGED <<blnum, bpos, searches>>

\* The top of the loop: the match at pos1, or for a simple pattern from pos1 on.
Match(t) ==
  LET line == CharsIn(text[t.n])
      p == Positn(patsrc, line, t.pos1)
  IN  IF simplepat
      THEN IF p = 0 \/ (~ t.pass /\ p >= t.startpos)
           THEN [pos1 |-> t.pos1, pos2 |-> 0] ELSE [pos1 |-> p, pos2 |-> p + Len(patsrc)]
      ELSE [pos1 |-> t.pos1, pos2 |-> AMatch(line, t.pos1, String(pat), 1)]

\* Bug: the start of the first line is not looked at again.
BugBottom(t, line) ==
  LET next == IF t.n + 1 > NLines THEN 1 ELSE t.n + 1
      moved == [t EXCEPT !.testok = TRUE, !.n = next, !.maxrepl = @ - 1,
                         !.pos1 = IF ~ simplepat \/ next # t.startn THEN 1 ELSE @]
      after == IF t.pos1 > Len1(line) THEN moved ELSE t
      ended == \/ after.maxrepl <= 0
               \/ after.testok /\ after.n = after.startn
                  /\ (after.pos1 >= after.startpos \/ after.pos1 > Len1(line))
  IN  [after EXCEPT !.active = ~ ended]

\* The bottom of the loop: at the end of a line the next one, behind the last
\* the first, and for a simple pattern the start of the first line once more.
Bottom(t, line) ==
  LET next == IF ~ t.pass THEN t.n ELSE IF t.n + 1 > NLines THEN 1 ELSE t.n + 1
      again == simplepat /\ next = t.startn /\ t.startpos # 1 /\ t.pass
      moved == [t EXCEPT !.testok = TRUE, !.n = next, !.maxrepl = @ - 1,
                         !.pos1 = IF ~ simplepat \/ next # t.startn \/ again THEN 1 ELSE @,
                         !.pass = @ /\ ~ again]
      after == IF t.pos1 > Len1(line) THEN moved ELSE t
      ended == \/ after.maxrepl <= 0
               \/ after.testok /\ after.n = after.startn
                  /\ (after.pos1 >= after.startpos \/ after.pos1 > Len1(line))
  IN  [after EXCEPT !.active = ~ ended]

NoMatch ==
  /\ tran.active /\ tran.pos2 = 0
  /\ Match(tran).pos2 = 0
  /\ LET line == text[tran.n]
     IN  tran' = Bottom([tran EXCEPT !.pos1 = IF simplepat THEN Len(line) + 2 ELSE @ + 1], line)
  /\ UNCHANGED <<text, blnum, bpos, patsrc, pat, simplepat, asking, repl, skipped, searches>>

\* The cursor goes to a match, and unless told "global" the user is asked.
AtMatch ==
  /\ tran.active /\ tran.pos2 = 0
  /\ Match(tran).pos2 > 0
  /\ tran' = [tran EXCEPT !.found = TRUE, !.pos1 = Match(tran).pos1, !.pos2 = Match(tran).pos2]
  /\ blnum' = tran.n /\ bpos' = Match(tran).pos1
  /\ UNCHANGED <<text, patsrc, pat, simplepat, asking, repl, skipped, searches>>

Exit == /\ tran.active /\ tran.pos2 > 0 /\ ~ tran.global
        /\ tran' = [tran EXCEPT !.active = FALSE, !.pos2 = 0]
        /\ skipped' = skipped \cup {<<i, p>> : i \in 1 .. NLines, p \in 1 .. MaxLen}
        /\ UNCHANGED <<text, blnum, bpos, patsrc, pat, simplepat, asking, repl, searches>>

Skip == /\ tran.active /\ tran.pos2 > 0 /\ ~ tran.global
        /\ tran' = Bottom([tran EXCEPT !.pos1 = bpos + 1, !.pos2 = 0], text[blnum])
        /\ skipped' = skipped \cup {<<blnum, text[blnum][i].was>> : i \in {bpos} \cap DOMAIN text[blnum]}
        /\ UNCHANGED <<text, blnum, bpos, patsrc, pat, simplepat, asking, repl, searches>>

\* What replaces orig: every mark in the replacement stands for it.
Expand(orig) == FlattenSeq([i \in DOMAIN repl |-> IF repl[i] = ReplMark THEN orig ELSE <<repl[i]>>])

\* replace: the match is deleted and the replacement put in, each character as
\* long as Bcins has room for it; startpos is moved for each all the same.
Replaced(t) ==
  LET line == text[blnum]
      gone == SubSeq(line, bpos, t.pos2 - 1)
      rest == SubSeq(line, 1, bpos - 1) \o SubSeq(line, t.pos2, Len(line))
      all == Expand(CharsIn(gone))
      room == MaxLen - Len(rest)
      new == SubSeq(all, 1, IF Len(all) < room THEN Len(all) ELSE room)
      adjust == blnum = t.startn /\ bpos < t.startpos
      end == bpos + Len(new)
      pos1 == IF end <= bpos /\ Len(repl) > 0 THEN 256 ELSE end
      result == SubSeq(rest, 1, bpos - 1) \o [i \in DOMAIN new |-> [c |-> new[i], was |-> 0]]
                  \o SubSeq(rest, bpos, Len(rest))
  IN  [line |-> result, end |-> end,
       tran |-> [t EXCEPT !.startpos = IF adjust THEN @ - Len(gone) + Len(all) ELSE @,
                          !.pos1 = IF t.pos1 = t.pos2 THEN pos1 + 1 ELSE pos1,
                          !.pos2 = 0,
                          !.full = @ \/ new # all,
                          !.twice = @ \/ \E i \in DOMAIN gone : gone[i].was = 0]]

\* Bug: a match of nothing is found again at the same place.
BugReplace ==
  /\ tran.active /\ tran.pos2 > 0
  /\ \E g \in BOOLEAN : \E r \in {Replaced([tran EXCEPT !.global = @ \/ g])} :
       /\ g => ~ tran.global
       /\ text' = [text EXCEPT ![blnum] = r.line]
       /\ bpos' = r.end
       /\ tran' = Bottom([r.tran EXCEPT !.pos1 = r.end], r.line)
  /\ UNCHANGED <<blnum, patsrc, pat, simplepat, asking, repl, skipped, searches>>

Replace ==
  /\ tran.active /\ tran.pos2 > 0
  /\ \E g \in BOOLEAN : \E r \in {Replaced([tran EXCEPT !.global = @ \/ g])} :
       /\ g => ~ tran.global
       /\ text' = [text EXCEPT ![blnum] = r.line]
       /\ bpos' = r.end
       /\ tran' = Bottom(r.tran, r.line)
  /\ UNCHANGED <<blnum, patsrc, pat, simplepat, asking, repl, skipped, searches>>

\* The bound is reached, or the user does nothing.
Stop == searches = MaxSearches /\ Waiting /\ UNCHANGED svars

SearchNext == \/ Ask \/ BadPattern \/ GiveUp \/ SearchCmd \/ MoreCmd \/ TranCmd
        \/ NoMatch \/ AtMatch \/ Exit \/ Skip \/ Replace \/ Stop

\* A loop goes on, and the user answers what he is asked.
Fairness == WF_svars(NoMatch \/ AtMatch \/ Skip \/ Replace)

SearchSpec == SearchInit /\ [][SearchNext]_svars /\ Fairness

-----------------------------------------------------------------------------
(* Properties. *)

\* What a pattern means, read off its source: the ends of the matches, from each
\* of its places on, at each place of a line.
Meant(src, line, k, i, rest) ==
  IF src[k] = Star THEN UNION {rest[m] : m \in i .. Len1(line)}
  ELSE IF i <= Len(line) /\ (src[k] = Quest \/ line[i] = src[k + PartLen(src, k) - 1])
       THEN rest[i + 1] ELSE {}
EndsFrom(src, line) ==
  LET ends[k \in 1 .. Len(src) + 2] ==
        [i \in 1 .. Len1(line) |->
           IF k > Len(src) THEN {i} ELSE Meant(src, line, k, i, ends[k + PartLen(src, k)])]
  IN  ends
Ends(src, line, i) == EndsFrom(src, line)[1][i]

\* The pattern array holds the pattern the user gave: no refused one since.
Accepted == patsrc # <<>> /\ Good(patsrc) /\ (~ simplepat => GetPat(patsrc).pat = pat)

\* Wherever it is tried, the compiled pattern matches exactly when the pattern
\* as written does, and as much as it can: no backtracking is missed.
MatcherExact ==
  Accepted /\ ~ simplepat =>
    \A n \in 1 .. NLines : \A i \in 1 .. Len1(text[n]) :
      LET line == CharsIn(text[n])
          ends == Ends(patsrc, line, i)
      IN  AMatch(line, i, String(pat), 1) = IF ends = {} THEN 0 ELSE LastOf(ends)

\* The places where the pattern occurs.  (The end of a line is one only for a
\* pattern with a wild card.)
Occurs(x) ==
  /\ x[2] <= Len1(text[x[1]])
  /\ Ends(patsrc, CharsIn(text[x[1]]), x[2]) # {}
Occurrences == {x \in (1 .. NLines) \X (1 .. MaxLen + 1) : Occurs(x)}

\* How far x is behind the cursor, going round; the cursor itself is last.
Later(x, y) == x[1] > y[1] \/ (x[1] = y[1] /\ x[2] > y[2])
OnTheWay(x, y, z) == \* going round from x, y comes before z
  \/ Later(y, x) /\ Later(z, y)
  \/ Later(z, y) /\ ~ Later(z, x)
  \/ Later(y, x) /\ ~ Later(z, x)

\* Searching, and searching again, finds the next occurrence going round the
\* text, and the one at the cursor last, if there is any; it never passes over one.
SearchFinds ==
  [][(SearchCmd \/ (MoreCmd /\ Accepted)) =>
       LET from == <<blnum, bpos>>
           to == <<blnum', bpos'>>
           all == Occurrences'
       IN  IF all = {} THEN to = from
           ELSE to \in all /\ \A x \in all \ {to} : OnTheWay(from, to, x)]_svars

\* A part of a line that is as it was, and that the pattern matches.
Missed(n, i) ==
  LET line == text[n]
      e == LastOf(Ends(patsrc, CharsIn(line), i) \cup {i})
  IN  /\ e > i
      /\ \A k \in i .. e - 1 : line[k].was > 0 /\ line[k].was = line[i].was + (k - i)
      /\ <<n, line[i].was>> \notin skipped

\* When translate is done, each occurrence there was has been replaced or shown
\* to the user, before and behind the cursor alike; and nothing it has itself
\* put in was replaced again, if it started at the start of a line.
TranslatedOnce ==
  /\ Waiting /\ "found" \in DOMAIN tran /\ Good(patsrc) /\ ~ tran.full =>
       \A n \in 1 .. NLines : \A i \in 1 .. Len(text[n]) : ~ Missed(n, i)
  /\ tran.active /\ tran.whole /\ ~ tran.full => ~ tran.twice

\* Translate ends, though the replacement may hold the pattern, match nothing,
\* or make a line too long.
TranEnds == tran.active ~> ~ tran.active

=============================================================================
