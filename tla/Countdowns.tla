----------------------------- MODULE Countdowns -----------------------------
(* What f_delay promises: a countdown of its own for every process that     *)
(* delays.  A countdown of n is over at the n-th tick after its start.      *)
EXTENDS Naturals

CONSTANTS Proc, MaxWait

VARIABLE left   \* the ticks each process has still to wait, 0 if it does not

vars == <<left>>

Init == left = [p \in Proc |-> 0]

Start(p) ==
  /\ left[p] = 0
  /\ \E n \in 1 .. MaxWait : left' = [left EXCEPT ![p] = n]

Elapse == left' = [p \in Proc |-> IF left[p] = 0 THEN 0 ELSE left[p] - 1]

\* The process is aborted.
Cancel(p) == left' = [left EXCEPT ![p] = 0]

Next == Elapse \/ \E p \in Proc : Start(p) \/ Cancel(p)

Spec == Init /\ [][Next]_vars
=============================================================================
