---------------------------- MODULE QueueService ----------------------------
(* What the queue system promises the processes that use it: bounded FIFO   *)
(* channels of messages that can be made and deleted, and mutual exclusion  *)
(* queues that at most one process holds.  No message is lost, duplicated   *)
(* or reordered while its queue exists, whichever processes are aborted.    *)
EXTENDS Naturals, Sequences

CONSTANTS Proc, NoProc, Queue, Mx, NMsgs, Msg, NoMsg

VARIABLES
  exists,   \* the queues that exist
  chan,     \* the messages in each queue, oldest first
  holder,   \* the process that holds each MX queue
  got       \* the last message each process has read

vars == <<exists, chan, holder, got>>

Init ==
  /\ exists = Queue
  /\ chan = [q \in Queue |-> <<>>]
  /\ holder = [q \in Queue |-> NoProc]
  /\ got = [p \in Proc |-> NoMsg]

Make(q) ==
  /\ q \notin exists
  /\ exists' = exists \cup {q}
  /\ UNCHANGED <<chan, holder, got>>

\* The messages in a queue go with it.
Delete(q) ==
  /\ q \in exists
  /\ exists' = exists \ {q}
  /\ chan' = [chan EXCEPT ![q] = <<>>]
  /\ UNCHANGED <<holder, got>>

Send(q, m) ==
  /\ q \in exists /\ q \notin Mx
  /\ Len(chan[q]) < NMsgs[q]
  /\ chan' = [chan EXCEPT ![q] = Append(@, m)]
  /\ UNCHANGED <<exists, holder, got>>

Receive(p, q) ==
  /\ q \in exists /\ q \notin Mx
  /\ chan[q] # <<>>
  /\ chan' = [chan EXCEPT ![q] = Tail(@)]
  /\ got' = [got EXCEPT ![p] = Head(chan[q])]
  /\ UNCHANGED <<exists, holder>>

Acquire(p, q) ==
  /\ q \in exists \cap Mx
  /\ holder[q] = NoProc
  /\ holder' = [holder EXCEPT ![q] = p]
  /\ UNCHANGED <<exists, chan, got>>

Release(p, q) ==
  /\ q \in exists \cap Mx
  /\ holder[q] = p
  /\ holder' = [holder EXCEPT ![q] = NoProc]
  /\ UNCHANGED <<exists, chan, got>>

Next ==
  \E q \in Queue :
    \/ Make(q) \/ Delete(q)
    \/ \E m \in Msg : Send(q, m)
    \/ \E p \in Proc : Receive(p, q) \/ Acquire(p, q) \/ Release(p, q)

Spec == Init /\ [][Next]_vars
=============================================================================
