----------------------------- MODULE MauService -----------------------------
(* What the allocator promises those it allocates to: the paragraphs of a   *)
(* segment are nobody else's, unless the segment is shared as a whole.      *)
EXTENDS Integers

CONSTANTS MD, First, Last

VARIABLE held   \* the paragraphs each memory descriptor stands for

vars == <<held>>

Init == held = [m \in MD |-> {}]

Taken == UNION {held[m] : m \in MD}

Allocate(m) ==
  /\ held[m] = {}
  /\ \E lo, hi \in First .. Last :
       /\ lo <= hi /\ (lo .. hi) \cap Taken = {}
       /\ held' = [held EXCEPT ![m] = lo .. hi]

Share(m, n) ==
  /\ held[m] = {} /\ held[n] # {}
  /\ held' = [held EXCEPT ![m] = held[n]]

\* Only a segment that is not shared can lose its end.
Shrink(m) ==
  /\ \A n \in MD \ {m} : held[n] \cap held[m] = {}
  /\ \E hi \in held[m] :
       held' = [held EXCEPT ![m] = {p \in held[m] : p < hi}]

Release(m) == held' = [held EXCEPT ![m] = {}]

Next ==
  \E m \in MD : Allocate(m) \/ Shrink(m) \/ Release(m) \/ \E n \in MD : Share(m, n)

Spec == Init /\ [][Next]_vars

\* Two descriptors stand for the same segment or have no paragraph in common.
Exclusive ==
  \A m, n \in MD : held[m] = held[n] \/ held[m] \cap held[n] = {}
=============================================================================
