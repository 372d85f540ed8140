------------------------------- MODULE Lines -------------------------------
(***************************************************************************)
(* What the memory of DREDIX's text buffers promises the editor            *)
(* (src/commands/dredix/emem.h): each buffer is a sequence of lines, never *)
(* empty; a line can be put after any line or before the first, taken out  *)
(* unless it is the only one, or changed in place.  A request leaves the   *)
(* line it was about current, and the editor is given that line's text; if *)
(* there is no room, nothing changes but which line is current.            *)
(***************************************************************************)
EXTENDS Naturals, Sequences, SequencesExt

CONSTANTS Bufs, Strings

VARIABLES
  lines,   \* the lines of each buffer
  cur,     \* the number of the line the last request to a buffer was about
  got      \* the text of that line

vars == <<lines, cur, got>>

Init == /\ lines = [b \in Bufs |-> << <<>> >>]
        /\ cur = [b \in Bufs |-> 1]
        /\ got = [b \in Bufs |-> <<>>]

\* The requests that make the lines t the lines u, and line n current.
Reset(t, u, n) == n = 1 /\ u = << <<>> >>
App(t, u, n) == n \in 1 .. Len(t) + 1 /\ \E s \in Strings : u = InsertAt(t, n, s)
Get(t, u, n) == n \in DOMAIN t /\ u = t
Change(t, u, n) == n \in DOMAIN t /\ \E s \in Strings : u = [t EXCEPT ![n] = s]
Del(t, u, n) ==
  /\ Len(t) > 1
  /\ \/ n < Len(t) /\ u = RemoveAt(t, n)
     \/ n = Len(t) - 1 /\ u = Front(t)

Request(t, u, n) == Reset(t, u, n) \/ App(t, u, n) \/ Get(t, u, n) \/ Change(t, u, n) \/ Del(t, u, n)

Next ==
  LET now == lines
      then == lines'
  IN  \E b \in Bufs :
        /\ Request(now[b], then[b], cur'[b]) /\ got'[b] = then[b][cur'[b]]
        /\ \A c \in Bufs \ {b} :
             then[c] = now[c] /\ cur'[c] = cur[c] /\ got'[c] = got[c]

Spec == Init /\ [][Next]_vars
=============================================================================
