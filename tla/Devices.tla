------------------------------ MODULE Devices ------------------------------
(* What the ownership of consoles and printers promises: a device has one   *)
(* owner, who alone can give it up, and it then goes straight to one of     *)
(* those that wait for it.  A printer can also follow a console (control P) *)
(* and is then nobody's.                                                    *)
CONSTANTS Proc, NoProc, Mimic, Device

VARIABLES
  owner,    \* the process that owns each device, NoProc or Mimic
  waiting   \* the processes that sleep until they own it

vars == <<owner, waiting>>

Init ==
  /\ owner \in [Device -> {NoProc}]
  /\ waiting \in [Device -> {{}}]

Acquire(p, d) ==
  /\ owner[d] = NoProc
  /\ owner' = [owner EXCEPT ![d] = p]
  /\ UNCHANGED waiting

Wait(p, d) ==
  /\ owner[d] \notin {NoProc, p}
  /\ waiting' = [waiting EXCEPT ![d] = @ \cup {p}]
  /\ UNCHANGED owner

\* p gives up the devices in S, and waits for none any more.
GiveUp(p, S) ==
  /\ \A d \in S : owner[d] = p
  /\ \E next \in [S -> Proc \cup {NoProc}] :
       /\ \A d \in S : IF waiting[d] = {} THEN next[d] = NoProc ELSE next[d] \in waiting[d]
       /\ owner' = [d \in Device |-> IF d \in S THEN next[d] ELSE owner[d]]
       /\ waiting' = [d \in Device |-> IF d \in S THEN waiting[d] \ {next[d]} ELSE waiting[d]]

\* The owner of a device, or anybody while it is free, gives it to t.
Assign(p, d, t) ==
  /\ owner[d] \in {NoProc, p}
  /\ owner' = [owner EXCEPT ![d] = t]
  /\ UNCHANGED waiting

\* A process stops waiting: it was assigned the device, or is aborted.
Leave(p, d) ==
  /\ waiting' = [waiting EXCEPT ![d] = @ \ {p}]
  /\ UNCHANGED owner

\* A printer follows a console from when it is free, and is free afterwards.
Follow(d) == Acquire(Mimic, d)
Unfollow(d) ==
  /\ owner[d] = Mimic
  /\ owner' = [owner EXCEPT ![d] = NoProc]
  /\ \E S \in SUBSET waiting[d] : waiting' = [waiting EXCEPT ![d] = @ \ S]

Next ==
  \/ \E d \in Device :
       \/ Follow(d) \/ Unfollow(d)
       \/ \E p \in Proc : Acquire(p, d) \/ Wait(p, d) \/ Leave(p, d)
       \/ \E p, t \in Proc : Assign(p, d, t)
  \/ \E p \in Proc, S \in SUBSET Device : GiveUp(p, S)

Spec == Init /\ [][Next]_vars
=============================================================================
