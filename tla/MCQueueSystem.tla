--------------------------- MODULE MCQueueSystem ---------------------------
(* Instances of QueueSystem for TLC.  Every instance has applications and   *)
(* pin, a system process that aborts them and cannot be aborted, as the     *)
(* physical input process is.                                               *)
EXTENDS QueueSystem, TLC

CONSTANTS p1, p2, p3, pin, mx, pipe, m1, m2

Only(k, q, c, m) == [kind : {k}, q : {q}, cond : c, msg : m]

\* Two applications of different priority on a pipe of two messages.
Proc2 == {p1, p2, pin}
Prior2 == p1 :> 200 @@ p2 :> 100 @@ pin :> 20
PFlags2 == p1 :> {} @@ p2 :> {"sys", "tempkeep"} @@ pin :> {"sys", "keep"}
QueuePipe == {pipe}
NMsgs2 == pipe :> 2
NoMx == {}
MsgTwo == {m1, m2}
AppCalls2 ==
  Only("make", pipe, {FALSE}, {NoMsg}) \cup Only("delete", pipe, {FALSE}, {NoMsg})
    \cup Only("read", pipe, BOOLEAN, {NoMsg})
    \cup Only("write", pipe, {FALSE}, MsgTwo)
Calls2 ==
  p1 :> AppCalls2 @@ p2 :> {o \in AppCalls2 : ~o.cond} @@ pin :> {}
Payloads == Permutations(MsgTwo)

\* Three applications of one priority on a pipe of one message.
Proc3 == {p1, p2, p3, pin}
Prior3 == [p \in Proc3 |-> IF p = pin THEN 20 ELSE 200]
PFlags3 == [p \in Proc3 |-> IF p = pin THEN {"sys", "keep"} ELSE {}]
NMsgs1 == pipe :> 1
MsgOne == {m1}
AppCalls3 ==
  Only("read", pipe, {FALSE}, {NoMsg}) \cup Only("write", pipe, {FALSE}, MsgOne)
    \cup Only("delete", pipe, {FALSE}, {NoMsg})
Calls3 == [p \in Proc3 |-> IF p = pin THEN {} ELSE AppCalls3]
Apps3 == Permutations({p1, p2, p3})

\* Two applications and a system process of one priority that share an MX queue.
PFlagsMx == [p \in Proc3 |-> IF p \in {pin, p3} THEN {"sys", "keep"} ELSE {}]
QueueMx == {mx}
NMsgsMx == mx :> 1
MsgNone == {}
AppCallsMx ==
  Only("read", mx, {FALSE}, {NoMsg}) \cup Only("write", mx, {FALSE}, {NoMsg})
CallsMx == [p \in Proc3 |-> IF p = pin THEN {} ELSE AppCallsMx]
=============================================================================
