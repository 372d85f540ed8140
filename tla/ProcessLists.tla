---------------------------- MODULE ProcessLists ----------------------------
(* The linked lists of process descriptors that the kernel keeps its        *)
(* processes on (kernel/con/dsptch.rtm, abort.rtm), as sequences.           *)
EXTENDS Integers, Sequences, FiniteSets

CONSTANT Proc  \* process descriptors

IsOn(list, p) == \E i \in 1 .. Len(list) : list[i] = p

\* insert_process, once it is k links down the list.
Placed(list, k, p) == SubSeq(list, 1, k) \o <<p>> \o SubSeq(list, k + 1, Len(list))

\* find_pd, and snip_it if p is found.
Snip(list, p) ==
  IF ~ IsOn(list, p) THEN list
  ELSE LET i == CHOOSE j \in 1 .. Len(list) : list[j] = p
       IN  SubSeq(list, 1, i - 1) \o SubSeq(list, i + 1, Len(list))

\* How many times a process is on a list.
Count(list, p) == Cardinality({i \in 1 .. Len(list) : list[i] = p})
=============================================================================
