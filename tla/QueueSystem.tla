---------------------------- MODULE QueueSystem ----------------------------
(***************************************************************************)
(* The queue system of the real-time monitor (kernel/con/que1.rtm and      *)
(* que2.rtm) with the mechanisms it is built on: the SYNC structure q_spb  *)
(* that serialises it, the "no abort regions" counted in p_tkcnt, abort of *)
(* one process by another and the release of MX queues at termination      *)
(* (sysent.rtm, abort.rtm, term_act of dsptch.rtm).                        *)
(*                                                                         *)
(* A process is a program counter over the points where the dispatcher can *)
(* take the CPU away.  The machine has one CPU: code that runs with        *)
(* interrupts off, or with indisp set, is one action.  Any process that is *)
(* not asleep may take the next step, whatever its priority.               *)
(***************************************************************************)
EXTENDS ProcessLists

CONSTANTS
  NoProc,     \* the null PD pointer (0)
  Queue,      \* queue descriptors
  NoQueue,    \* the null QD pointer (0)
  Mx,         \* the queues with QF_MX: mutual exclusion, messages of length 0
  NMsgs,      \* q_nmsgs of each queue
  Msg,        \* message payloads
  NoMsg,      \* contents of a buffer cell never written
  Prior,      \* p_prior of each process: a smaller number runs first
  Calls,      \* the queue calls each process may make
  PFlags,     \* p_flag of each process when it is created
  Aborters    \* processes that abort others with f_abort

Flags == {"sys", "keep", "ctlc", "tempkeep"}

ASSUME ProcAssumption == NoProc \notin Proc
ASSUME QueueAssumption == NoQueue \notin Queue /\ Mx \subseteq Queue
ASSUME NMsgsAssumption ==
  /\ NMsgs \in [Queue -> Nat \ {0}]
  /\ \A q \in Mx : NMsgs[q] = 1
ASSUME MsgAssumption == NoMsg \notin Msg
ASSUME PriorAssumption == Prior \in [Proc -> Nat]
ASSUME PFlagsAssumption == PFlags \in [Proc -> SUBSET (Flags \ {"ctlc"})]
ASSUME AbortersAssumption == Aborters \subseteq Proc

VARIABLES
  sy_owner,   \* q_spb: the process that owns the queue system
  sy_wait,    \* q_spb: processes asleep until they own it, best priority first
  sy_next,    \* q_spb: the process the owner has assigned the queue system to
  qlr,        \* the queues on the queue list root
  q_msgcnt,   \* number of messages in each queue
  q_msgout,   \* index of the message to read next
  q_data,     \* the circular buffer q_buf points to
  q_buf,      \* q_buf of an MX queue: the PD that owns it
  q_dq,       \* processes asleep until there is a message
  q_nq,       \* processes asleep until there is a buffer
  p_flag,     \* p_flag: a subset of Flags
  p_tkcnt,    \* p_tkcnt: its count and its top bit, the saved TEMPKEEP
  pc,         \* where each process is
  op,         \* the queue call each process is in
  ubuf,       \* the user's message buffer, the target of a read
  target      \* the process a process is aborting

syncVars == <<sy_owner, sy_wait, sy_next>>
bufVars == <<q_msgcnt, q_msgout, q_data, q_buf>>
queueVars == <<qlr, q_msgcnt, q_msgout, q_data, q_buf, q_dq, q_nq>>
flagVars == <<p_flag, p_tkcnt>>
vars == <<syncVars, queueVars, flagVars, pc, op, ubuf, target>>

NoOp == [kind |-> "none", q |-> NoQueue, cond |-> FALSE, msg |-> NoMsg]
\* "release" is the f_qwrite that rlsmx makes for a terminating process.
Op == {NoOp} \cup
      [kind : {"make", "delete", "read", "write", "release"}, q : Queue,
       cond : BOOLEAN, msg : Msg \cup {NoMsg}]

\* An MX queue is there from the start, and only data messages have contents.
ASSUME CallsAssumption ==
  Calls \in [Proc -> SUBSET {o \in Op :
    /\ o.kind \in {"make", "delete", "read", "write"}
    /\ o.kind \in {"make", "delete"} => o.q \notin Mx /\ ~o.cond
    /\ o.msg \in Msg <=> (o.kind = "write" /\ o.q \notin Mx)}]

\* Asleep on sy_wait: for a queue call, or for terminate's scan of the queues.
SyncSleep == {"syncwait", "tsyncwait"}
\* Asleep on the DQ or NQ list of op[p].q.
ListSleep == {"dqwait", "nqwait"}
Asleep == SyncSleep \cup ListSleep \cup {"assigned"}
\* In a queue call, between q_sync and the release of q_spb in q_unsync.
InQueueCode == {"body", "transfer", "assign1", "assign2", "unsync"}
\* In terminate_entry, at its top or around rlsmx.
Terminating == {"terminate", "tsync", "tsyncwait", "rlsmx", "tunsync", "term2"}
PC == {"user", "noabort", "sync", "okabort", "okabort2", "abort2", "limbo",
       "dead"} \cup Asleep \cup InQueueCode \cup Terminating

Init ==
  /\ sy_owner = NoProc /\ sy_wait = <<>> /\ sy_next = NoProc
  /\ qlr = Queue
  /\ q_msgcnt = [q \in Queue |-> IF q \in Mx THEN 1 ELSE 0]
  /\ q_msgout = [q \in Queue |-> 0]
  /\ q_data = [q \in Queue |-> [i \in 0 .. NMsgs[q] - 1 |-> NoMsg]]
  /\ q_buf = [q \in Queue |-> NoProc]
  /\ q_dq = [q \in Queue |-> <<>>]
  /\ q_nq = [q \in Queue |-> <<>>]
  /\ p_flag = PFlags
  /\ p_tkcnt = [p \in Proc |-> [cnt |-> 0, saved |-> {}]]
  /\ pc = [p \in Proc |-> "user"]
  /\ op = [p \in Proc |-> NoOp]
  /\ ubuf = [p \in Proc |-> NoMsg]
  /\ target = [p \in Proc |-> NoProc]

----------------------------------------------------------------------------
(* The lists a process sleeps on.  insert_process keeps them in priority   *)
(* order, first come first served among equals.                            *)

\* Terminate and abort set p_prior to ABT_PRIOR.
AbtPrior == 32
Priority(p) ==
  IF pc[p] \in Terminating \/ op[p].kind = "release" THEN AbtPrior ELSE Prior[p]

\* The initial part of the list that the scan for p's place goes past.
Passed(list, p) ==
  {i \in 1 .. Len(list) : \A j \in 1 .. i : Priority(list[j]) <= Priority(p)}

\* Bug: the last to come is served first.
BugInsertProcess(list, p) == <<p>> \o list
InsertProcess(list, p) == Placed(list, Cardinality(Passed(list, p)), p)

----------------------------------------------------------------------------
(* No abort regions (no_abort_entry, no_abort_spec_entry, ok_abort_entry). *)

\* Bug: a TEMPKEEP that was on before the region is not saved.
BugTkcntAfterNoAbort(p) == [cnt |-> p_tkcnt[p].cnt + 1, saved |-> {}]
TkcntAfterNoAbort(p) ==
  [cnt |-> p_tkcnt[p].cnt + 1,
   saved |-> IF p_tkcnt[p].cnt = 0 THEN p_flag[p] \cap {"tempkeep"}
                                   ELSE p_tkcnt[p].saved]

NoAbortOn(p) ==
  /\ p_tkcnt' = [p_tkcnt EXCEPT ![p] = TkcntAfterNoAbort(p)]
  /\ p_flag' = [p_flag EXCEPT ![p] = @ \cup {"tempkeep"}]

\* abt_chk: what keeps a process from being terminated, and the flags it
\* leaves.  sure is the terminate code 0ffh, which overrides SYS.
AbtChk(flags, sure) ==
  IF "tempkeep" \in flags THEN "later"
  ELSE IF "keep" \in flags \/ ("sys" \in flags /\ ~sure) THEN "no"
  ELSE "ok"

FlagsAfterAbtChk(flags, sure) ==
  IF AbtChk(flags, sure) = "later" THEN flags \cup {"ctlc"}
  ELSE IF AbtChk(flags, sure) = "no" THEN flags \ {"ctlc"}
  ELSE flags

\* ok_abort leaves the outermost region, and there was no TEMPKEEP before it.
LeavesRegion(p) == p_tkcnt[p].cnt = 1 /\ p_tkcnt[p].saved = {}

\* Bug: CTLC is not tested at the end of the region.
BugTerminates(flags) == FALSE
\* ok_abort has taken TEMPKEEP off and finds that an abort arrived meanwhile.
Terminates(flags) == "ctlc" \in flags /\ AbtChk(flags, TRUE) = "ok"

FlagsAfterCtlcTest(flags) ==
  IF "ctlc" \in flags THEN FlagsAfterAbtChk(flags, TRUE) ELSE flags

TkcntAfterOkAbort(p) ==
  IF p_tkcnt[p].cnt = 1 THEN [cnt |-> 0, saved |-> {}]
                        ELSE [cnt |-> p_tkcnt[p].cnt - 1, saved |-> p_tkcnt[p].saved]

----------------------------------------------------------------------------
Goto(p, l) == pc' = [pc EXCEPT ![p] = l]

\* Where p goes on after its queue call.
Return(p) ==
  /\ Goto(p, IF op[p].kind = "release" THEN "rlsmx" ELSE "user")
  /\ op' = [op EXCEPT ![p] = NoOp]

Call(p, o) == op' = [op EXCEPT ![p] = o] /\ Goto(p, "noabort")

\* A process calls the queue system.  The users of an MX queue keep to writing
\* it only after they have read it.
UserCall(p) ==
  /\ pc[p] = "user"
  /\ \E o \in Calls[p] :
       /\ (o.kind = "write" /\ o.q \in Mx) => q_buf[o.q] = p
       /\ Call(p, o)
  /\ UNCHANGED <<syncVars, queueVars, flagVars, ubuf, target>>

\* q_sync: no_abort_entry ...
NoAbort(p) ==
  /\ pc[p] = "noabort"
  /\ NoAbortOn(p)
  /\ Goto(p, "sync")
  /\ UNCHANGED <<syncVars, queueVars, op, ubuf, target>>

\* sync_entry: p owns q_spb, or sleeps on it until unsync makes it the owner.
SyncOrSleep(p, owned, asleep) ==
  IF sy_owner \in {NoProc, p}
  THEN sy_owner' = p /\ Goto(p, owned) /\ UNCHANGED sy_wait
  ELSE /\ sy_wait' = InsertProcess(sy_wait, p)
       /\ Goto(p, asleep)
       /\ UNCHANGED sy_owner

\* ... and then sync_entry.
Sync(p) ==
  /\ pc[p] = "sync"
  /\ SyncOrSleep(p, "body", "syncwait")
  /\ UNCHANGED <<sy_next, queueVars, flagVars, op, ubuf, target>>

\* makeq_entry.  The second disjunct is a name in use, or no QD, or no buffer.
MakeQ(p) ==
  /\ pc[p] = "body" /\ op[p].kind = "make"
  /\ LET q == op[p].q
     IN  \/ /\ q \notin qlr
            /\ qlr' = qlr \cup {q}
            /\ q_dq' = [q_dq EXCEPT ![q] = <<>>]
            /\ q_nq' = [q_nq EXCEPT ![q] = <<>>]
            /\ q_msgcnt' = [q_msgcnt EXCEPT ![q] = 0]
            /\ q_msgout' = [q_msgout EXCEPT ![q] = 0]
         \/ UNCHANGED <<qlr, q_dq, q_nq, q_msgcnt, q_msgout>>
  /\ Goto(p, "unsync")
  /\ UNCHANGED <<syncVars, q_data, q_buf, flagVars, op, ubuf, target>>

\* Bug: only the readers of a queue keep it from being deleted.
BugDeleteQ(p) ==
  /\ pc[p] = "body" /\ op[p].kind = "delete"
  /\ LET q == op[p].q
     IN  qlr' = IF q_dq[q] = <<>> THEN qlr \ {q} ELSE qlr
  /\ Goto(p, "unsync")
  /\ UNCHANGED <<syncVars, bufVars, q_dq, q_nq, flagVars, op, ubuf, target>>

\* deleteq_entry.
DeleteQ(p) ==
  /\ pc[p] = "body" /\ op[p].kind = "delete"
  /\ LET q == op[p].q
     IN  qlr' = IF q_dq[q] = <<>> /\ q_nq[q] = <<>> THEN qlr \ {q} ELSE qlr
  /\ Goto(p, "unsync")
  /\ UNCHANGED <<syncVars, bufVars, q_dq, q_nq, flagVars, op, ubuf, target>>

----------------------------------------------------------------------------
(* readq and writeq.                                                       *)

Reads(p) == op[p].kind = "read"
Writes(p) == op[p].kind \in {"write", "release"}

\* Bug: the last buffer is taken twice.
BugNotReady(p) ==
  LET q == op[p].q
  IN  IF Reads(p) THEN q_msgcnt[q] = 0 ELSE q_msgcnt[q] > NMsgs[q]

\* There is no message to read, or no buffer to write.
NotReady(p) ==
  LET q == op[p].q
  IN  IF Reads(p) THEN q_msgcnt[q] = 0 ELSE q_msgcnt[q] = NMsgs[q]

\* queverify, then the test of q_msgcnt that does not have to wait.
Verify(p) ==
  /\ pc[p] = "body" /\ (Reads(p) \/ Writes(p))
  /\ \/ op[p].q \notin qlr /\ Goto(p, "unsync")
     \/ op[p].q \in qlr /\ NotReady(p) /\ op[p].cond /\ Goto(p, "unsync")
     \/ op[p].q \in qlr /\ ~NotReady(p) /\ Goto(p, "transfer")
  /\ UNCHANGED <<syncVars, queueVars, flagVars, op, ubuf, target>>

\* Bug: the processes asleep on q_spb are forgotten.
BugNewOwner == sy_next

\* unsync_entry by the owner: the process q_spb goes to, off its list.
NewOwner ==
  IF sy_next # NoProc THEN sy_next
  ELSE IF sy_wait # <<>> THEN Head(sy_wait)
  ELSE NoProc

\* Bug: the process that is woken up has to take q_spb itself.
BugPassOwnership ==
  /\ sy_owner' = NoProc
  /\ sy_next' = NoProc
  /\ sy_wait' = IF sy_next = NoProc /\ sy_wait # <<>> THEN Tail(sy_wait)
                                                      ELSE sy_wait

PassOwnership ==
  /\ sy_owner' = NewOwner
  /\ sy_next' = NoProc
  /\ sy_wait' = IF sy_next = NoProc /\ sy_wait # <<>> THEN Tail(sy_wait)
                                                      ELSE sy_wait

\* Where a process goes on when it wakes up as the owner of q_spb.
Awake(l) ==
  IF l = "syncwait" THEN "body"
  ELSE IF l = "tsyncwait" THEN "rlsmx"
  ELSE "transfer"

\* p goes to l and the new owner of q_spb is made ready.
WakeAndGoto(p, l) ==
  pc' = [x \in Proc |-> IF x = p THEN l
                        ELSE IF x = NewOwner THEN Awake(pc[x])
                        ELSE pc[x]]

\* q_wait: with interrupts off, give up q_spb, leave the no abort region and
\* go to sleep on the DQ or NQ list; or terminate if an abort came before.
QWait(p) ==
  /\ pc[p] = "body" /\ (Reads(p) \/ Writes(p))
  /\ op[p].q \in qlr /\ NotReady(p) /\ ~op[p].cond
  /\ PassOwnership
  /\ p_tkcnt' = [p_tkcnt EXCEPT ![p] = TkcntAfterOkAbort(p)]
  /\ LET q == op[p].q
         flags == IF LeavesRegion(p) THEN p_flag[p] \ {"tempkeep"}
                                     ELSE p_flag[p]
         terminates == LeavesRegion(p) /\ Terminates(flags)
     IN  /\ p_flag' = [p_flag EXCEPT ![p] =
                         IF LeavesRegion(p) THEN FlagsAfterCtlcTest(flags)
                                            ELSE flags]
         /\ \/ /\ terminates
               /\ WakeAndGoto(p, "terminate")
               /\ op' = [op EXCEPT ![p] = NoOp]
               /\ UNCHANGED <<q_dq, q_nq>>
            \/ /\ ~terminates
               /\ WakeAndGoto(p, IF Reads(p) THEN "dqwait" ELSE "nqwait")
               /\ q_dq' = IF Reads(p)
                            THEN [q_dq EXCEPT ![q] = InsertProcess(@, p)]
                            ELSE q_dq
               /\ q_nq' = IF Reads(p)
                            THEN q_nq
                            ELSE [q_nq EXCEPT ![q] = InsertProcess(@, p)]
               /\ UNCHANGED op
  /\ UNCHANGED <<qlr, bufVars, ubuf, target>>

\* Indices into the circular buffer.  The Bug forms go one past its end, and
\* stay at its end.
BugNextOut(out, q) == IF out = NMsgs[q] THEN 0 ELSE out + 1
NextOut(out, q) == IF out + 1 = NMsgs[q] THEN 0 ELSE out + 1

BugWrapped(i, q) == IF i >= NMsgs[q] THEN NMsgs[q] - 1 ELSE i
Wrapped(i, q) == IF i >= NMsgs[q] THEN i - NMsgs[q] ELSE i

\* The message is moved between the queue and the user's buffer.  An MX queue
\* has no buffer: q_buf names the process that read it.
Transfer(p) ==
  /\ pc[p] = "transfer"
  /\ LET q == op[p].q
         out == q_msgout[q]
     IN  \/ /\ Reads(p)
            /\ q_msgcnt' = [q_msgcnt EXCEPT ![q] = @ - 1]
            /\ IF q \in Mx
               THEN /\ q_buf' = [q_buf EXCEPT ![q] = p]
                    /\ q_msgout' = [q_msgout EXCEPT ![q] = 0]
                    /\ UNCHANGED ubuf
               ELSE /\ ubuf' = [ubuf EXCEPT ![p] = q_data[q][out]]
                    /\ q_msgout' = [q_msgout EXCEPT ![q] =
                                      NextOut(out, q)]
                    /\ UNCHANGED q_buf
            /\ UNCHANGED q_data
         \/ /\ Writes(p)
            /\ q_msgcnt' = [q_msgcnt EXCEPT ![q] = @ + 1]
            /\ IF q \in Mx
               THEN q_buf' = [q_buf EXCEPT ![q] = NoProc] /\ UNCHANGED q_data
               ELSE /\ q_data' = [q_data EXCEPT ![q] =
                         [@ EXCEPT ![Wrapped(out + q_msgcnt[q], q)] = op[p].msg]]
                    /\ UNCHANGED q_buf
            /\ UNCHANGED <<q_msgout, ubuf>>
  /\ Goto(p, "assign1")
  /\ UNCHANGED <<syncVars, qlr, q_dq, q_nq, flagVars, op, target>>

\* The processes that wait for what p has just done.
OtherSide(p) == IF Reads(p) THEN q_nq[op[p].q] ELSE q_dq[op[p].q]

\* Bug: the process to wake up can still be aborted.
BugAssign1(p) ==
  /\ pc[p] = "assign1" /\ (Reads(p) \/ Writes(p))
  /\ Goto(p, IF OtherSide(p) = <<>> THEN "unsync" ELSE "assign2")
  /\ UNCHANGED <<syncVars, queueVars, flagVars, op, ubuf, target>>

\* q_assign_sync: first keep the process to wake from being aborted ...
Assign1(p) ==
  /\ pc[p] = "assign1" /\ (Reads(p) \/ Writes(p))
  /\ IF OtherSide(p) = <<>>
     THEN Goto(p, "unsync") /\ UNCHANGED flagVars
     ELSE Goto(p, "assign2") /\ NoAbortOn(Head(OtherSide(p)))
  /\ UNCHANGED <<syncVars, queueVars, op, ubuf, target>>

\* ... then assign_sync_entry takes the first process off the list.
Assign2(p) ==
  /\ pc[p] = "assign2" /\ (Reads(p) \/ Writes(p))
  /\ LET q == op[p].q
     IN  IF sy_owner # p \/ OtherSide(p) = <<>>
         THEN Goto(p, "unsync") /\ UNCHANGED <<sy_next, q_dq, q_nq>>
         ELSE /\ sy_next' = Head(OtherSide(p))
              /\ pc' = [pc EXCEPT ![p] = "unsync",
                                  ![Head(OtherSide(p))] = "assigned"]
              /\ IF Reads(p)
                 THEN q_nq' = [q_nq EXCEPT ![q] = Tail(@)] /\ UNCHANGED q_dq
                 ELSE q_dq' = [q_dq EXCEPT ![q] = Tail(@)] /\ UNCHANGED q_nq
  /\ UNCHANGED <<sy_owner, sy_wait, qlr, bufVars, flagVars, op, ubuf, target>>

\* unsync_entry, which does nothing unless p owns q_spb.
UnsyncAndGoto(p, l) ==
  IF sy_owner = p THEN PassOwnership /\ WakeAndGoto(p, l)
                  ELSE Goto(p, l) /\ UNCHANGED syncVars

\* q_unsync: unsync_entry ...
Unsync(p) ==
  /\ pc[p] = "unsync"
  /\ UnsyncAndGoto(p, "okabort")
  /\ UNCHANGED <<queueVars, flagVars, op, ubuf, target>>

\* ... and ok_abort_entry, up to the test of CTLC ...
OkAbort(p) ==
  /\ pc[p] = "okabort"
  /\ p_tkcnt' = [p_tkcnt EXCEPT ![p] = TkcntAfterOkAbort(p)]
  /\ IF LeavesRegion(p)
     THEN /\ p_flag' = [p_flag EXCEPT ![p] = @ \ {"tempkeep"}]
          /\ Goto(p, "okabort2")
          /\ UNCHANGED op
     ELSE Return(p) /\ UNCHANGED p_flag
  /\ UNCHANGED <<syncVars, queueVars, ubuf, target>>

\* ... and from there on.
OkAbort2(p) ==
  /\ pc[p] = "okabort2"
  /\ p_flag' = [p_flag EXCEPT ![p] = FlagsAfterCtlcTest(@)]
  /\ IF Terminates(p_flag[p])
     THEN Goto(p, "terminate") /\ op' = [op EXCEPT ![p] = NoOp]
     ELSE Return(p)
  /\ UNCHANGED <<syncVars, queueVars, p_tkcnt, ubuf, target>>

----------------------------------------------------------------------------
(* Abort and termination.                                                  *)

\* The list abort looks for t on, by its status.
OnItsList(t) ==
  /\ pc[t] \in SyncSleep => IsOn(sy_wait, t)
  /\ pc[t] = "dqwait" => IsOn(q_dq[op[t].q], t)
  /\ pc[t] = "nqwait" => IsOn(q_nq[op[t].q], t)
  /\ pc[t] \notin {"assigned", "limbo", "dead"}

\* Bug: a process aborted on an NQ list stays there.
BugTakeOff(t) ==
  /\ sy_wait' = IF pc[t] \in SyncSleep THEN Snip(sy_wait, t) ELSE sy_wait
  /\ q_dq' = IF pc[t] = "dqwait" THEN [q_dq EXCEPT ![op[t].q] = Snip(@, t)]
                                 ELSE q_dq
  /\ UNCHANGED q_nq

\* abort_tab and its handlers for the lists of the queue system: take t off.
TakeOff(t) ==
  /\ sy_wait' = IF pc[t] \in SyncSleep THEN Snip(sy_wait, t) ELSE sy_wait
  /\ q_dq' = IF pc[t] = "dqwait" THEN [q_dq EXCEPT ![op[t].q] = Snip(@, t)]
                                 ELSE q_dq
  /\ q_nq' = IF pc[t] = "nqwait" THEN [q_nq EXCEPT ![op[t].q] = Snip(@, t)]
                                 ELSE q_nq

\* abort_spec_entry by a, of another process, up to the ok_disp that lets the
\* dispatcher run again.  t is off its list, and not yet on the DRL.
AbortSpec(a) ==
  /\ a \in Aborters /\ pc[a] = "user"
  /\ \E t \in Proc \ {a}, sure \in BOOLEAN :
       LET flags == p_flag[t] \cup {"ctlc"}
           found == AbtChk(flags, sure) = "ok" /\ OnItsList(t)
       IN  /\ pc[t] # "dead"
           /\ p_flag' = [p_flag EXCEPT ![t] = FlagsAfterAbtChk(flags, sure)]
           /\ \/ ~found /\ UNCHANGED <<sy_wait, q_dq, q_nq, pc, op, target>>
              \/ /\ found
                 /\ TakeOff(t)
                 /\ pc' = [pc EXCEPT ![a] = "abort2", ![t] = "limbo"]
                 /\ op' = [op EXCEPT ![t] = NoOp]
                 /\ target' = [target EXCEPT ![a] = t, ![t] = NoProc]
  /\ UNCHANGED <<sy_owner, sy_next, qlr, bufVars, p_tkcnt, ubuf>>

\* The rest of it: t is made ready, to go on at terminate.
AbortSpec2(a) ==
  /\ pc[a] = "abort2"
  /\ pc' = [pc EXCEPT ![a] = "user", ![target[a]] = "terminate"]
  /\ target' = [target EXCEPT ![a] = NoProc]
  /\ UNCHANGED <<syncVars, queueVars, flagVars, op, ubuf>>

\* terminate_entry called by p itself.
TerminateEntry(p) ==
  /\ pc[p] = "user"
  /\ \E sure \in BOOLEAN :
       /\ p_flag' = [p_flag EXCEPT ![p] = FlagsAfterAbtChk(@, sure)]
       /\ IF AbtChk(p_flag[p], sure) = "ok" THEN Goto(p, "terminate")
                                            ELSE UNCHANGED pc
  /\ UNCHANGED <<syncVars, queueVars, p_tkcnt, op, ubuf, target>>

\* terminate, up to its use of the queue system.
Terminate(p) ==
  /\ pc[p] = "terminate"
  /\ p_flag' = [p_flag EXCEPT ![p] = @ \ {"ctlc"}]
  /\ Goto(p, "tsync")
  /\ UNCHANGED <<syncVars, queueVars, p_tkcnt, op, ubuf, target>>

\* sync_entry on q_spb, with no no_abort_entry before it.
TSync(p) ==
  /\ pc[p] = "tsync"
  /\ SyncOrSleep(p, "rlsmx", "tsyncwait")
  /\ UNCHANGED <<sy_next, queueVars, flagVars, op, ubuf, target>>

\* Bug: the queue list is not searched.
BugOwned(p) == {}

\* The MX queues p has read and not written.
Owned(p) == {q \in qlr \cap Mx : q_buf[q] = p}

\* rlsmx: write the MX queues p owns, one at a time.
RlsMx(p) ==
  /\ pc[p] = "rlsmx"
  /\ \/ \E q \in Owned(p) :
          Call(p, [kind |-> "release", q |-> q, cond |-> FALSE, msg |-> NoMsg])
     \/ Owned(p) = {} /\ Goto(p, "tunsync") /\ UNCHANGED op
  /\ UNCHANGED <<syncVars, queueVars, flagVars, ubuf, target>>

TUnsync(p) ==
  /\ pc[p] = "tunsync"
  /\ UnsyncAndGoto(p, "term2")
  /\ UNCHANGED <<queueVars, flagVars, op, ubuf, target>>

\* The rest of terminate and term_act, which releases every sync p owns and
\* frees its PD.
TermAct(p) ==
  /\ pc[p] = "term2"
  /\ UnsyncAndGoto(p, "dead")
  /\ UNCHANGED <<queueVars, flagVars, op, ubuf, target>>

----------------------------------------------------------------------------
\* What a process does once it has called the kernel.
Kernel(p) ==
  \/ NoAbort(p) \/ Sync(p)
  \/ MakeQ(p) \/ DeleteQ(p) \/ Verify(p) \/ QWait(p)
  \/ Transfer(p) \/ Assign1(p) \/ Assign2(p)
  \/ Unsync(p) \/ OkAbort(p) \/ OkAbort2(p)
  \/ AbortSpec2(p)
  \/ Terminate(p) \/ TSync(p) \/ RlsMx(p) \/ TUnsync(p) \/ TermAct(p)

Next ==
  \E p \in Proc : UserCall(p) \/ AbortSpec(p) \/ TerminateEntry(p) \/ Kernel(p)

Spec == Init /\ [][Next]_vars

\* The dispatcher runs processes of equal priority in turn.
Fairness == \A p \in Proc : WF_vars(Kernel(p))
FairSpec == Spec /\ Fairness

----------------------------------------------------------------------------
(* Properties.                                                             *)

TypeOK ==
  /\ sy_owner \in Proc \cup {NoProc}
  /\ sy_wait \in Seq(Proc)
  /\ sy_next \in Proc \cup {NoProc}
  /\ qlr \subseteq Queue
  /\ q_msgcnt \in [Queue -> Int]
  /\ q_msgout \in [Queue -> Nat]
  /\ \A q \in Queue : q_msgout[q] < NMsgs[q]
  /\ DOMAIN q_data = Queue
  /\ \A q \in Queue : q_data[q] \in [0 .. NMsgs[q] - 1 -> Msg \cup {NoMsg}]
  /\ q_buf \in [Queue -> Proc \cup {NoProc}]
  /\ q_dq \in [Queue -> Seq(Proc)] /\ q_nq \in [Queue -> Seq(Proc)]
  /\ p_flag \in [Proc -> SUBSET Flags]
  /\ p_tkcnt \in [Proc -> [cnt : Int, saved : SUBSET {"tempkeep"}]]
  /\ pc \in [Proc -> PC]
  /\ op \in [Proc -> Op]
  /\ ubuf \in [Proc -> Msg \cup {NoMsg}]
  /\ target \in [Proc -> Proc \cup {NoProc}]

\* que1.rtm: "each queue system entry point is mutually exclusive of the other
\* queue system entry points": the code between q_sync and q_unsync runs in one
\* process at a time, however ownership was handed over.
QueueMutex == \A p \in Proc : pc[p] \in InQueueCode => sy_owner = p

\* The process that the owner of q_spb is about to take off a DQ or NQ list.
Chosen(p) ==
  \E w \in Proc : /\ pc[w] = "assign2"
                  /\ OtherSide(w) # <<>> /\ Head(OtherSide(w)) = p

\* A process is in a no abort region exactly from q_sync, or from the moment
\* another process chooses to wake it up, until q_unsync: TEMPKEEP is on
\* throughout and, outside, is what it was when the process was created.
NoAbortRegion ==
  \A p \in Proc :
    LET inside == \/ Chosen(p)
                  \/ pc[p] \in InQueueCode
                                 \cup {"sync", "syncwait", "assigned", "okabort"}
    IN  pc[p] \notin {"limbo", "dead", "okabort2"} \cup Terminating =>
          /\ p_tkcnt[p].cnt = IF inside THEN 1 ELSE 0
          /\ "tempkeep" \in p_flag[p] <=> (inside \/ "tempkeep" \in PFlags[p])

\* The lists of the queue system.
\* A process asleep in the queue system is on the list its status names, once,
\* and no process is on any other list: wakeups, aborts and assignments
\* neither lose a process nor leave it on two lists.
ListsMatch ==
  \A p \in Proc :
    /\ Count(sy_wait, p) = IF pc[p] \in SyncSleep THEN 1 ELSE 0
    /\ sy_next = p <=> pc[p] = "assigned"
    /\ \A q \in Queue :
         /\ Count(q_dq[q], p) = IF pc[p] = "dqwait" /\ op[p].q = q THEN 1 ELSE 0
         /\ Count(q_nq[q], p) = IF pc[p] = "nqwait" /\ op[p].q = q THEN 1 ELSE 0

\* q_spb is never owned by a process that sleeps or is gone, and is not left
\* free with processes asleep on it.
OwnerRuns ==
  /\ sy_owner # NoProc => pc[sy_owner] \notin Asleep \cup {"dead"}
  /\ sy_owner = NoProc => sy_wait = <<>> /\ sy_next = NoProc

\* A process is on its way to read from (kind "read") or write to q.
Due(q, kinds) ==
  \E p \in Proc : /\ op[p].q = q /\ op[p].kind \in kinds
                  /\ pc[p] \in {"assigned", "transfer"}

\* The owner has just made this call on q and has still to wake up a process.
Waking(q, kinds) ==
  \E p \in Proc : /\ op[p].q = q /\ op[p].kind \in kinds
                  /\ pc[p] \in {"assign1", "assign2"}

\* q_assign_sync: no message is left with processes waiting to read it, nor
\* buffer space with processes waiting to write, whoever is aborted meanwhile.
NoStranded ==
  \A q \in qlr :
    /\ (q_msgcnt[q] > 0 /\ q_dq[q] # <<>>)
         => Waking(q, {"write", "release"}) \/ Due(q, {"read"})
    /\ (q_msgcnt[q] < NMsgs[q] /\ q_nq[q] # <<>>)
         => Waking(q, {"read"}) \/ Due(q, {"write", "release"})

\* A queue is not deleted under a process that waits on it or uses it.
QueueStays ==
  \A p \in Proc :
    pc[p] \in ListSleep \cup {"assigned", "transfer", "assign1", "assign2"}
      => op[p].q \in qlr

\* The message of an MX queue is in the queue or with one owner, which is not
\* gone.
MxConserved ==
  \A q \in Mx :
    /\ q_msgcnt[q] = IF q_buf[q] = NoProc THEN 1 ELSE 0
    /\ q_buf[q] # NoProc => pc[q_buf[q]] \notin {"term2", "dead"}

\* readq and writeq: what was tested before a wait still holds after it, so a
\* queue is never read when empty or written when full.
CountsInRange == \A q \in Queue : q_msgcnt[q] \in 0 .. NMsgs[q]

\* The processes that wait for a queue are on its lists, once, and nothing that
\* they wait for is there without one of them on its way to it.
WaitersSound == ListsMatch /\ NoStranded /\ CountsInRange

\* The owner of q_spb and the owner of an MX queue's message are processes that
\* can give them back.
OwnersSound == OwnerRuns /\ MxConserved

\* An abort of a process that is being terminated starts termination over: it
\* ends if the aborts do.
AbortsEnd == <>[][\A a \in Aborters : ~AbortSpec(a)]_vars

\* The messages in a queue, oldest first.
Contents(q) ==
  IF q \in qlr \ Mx
  THEN [i \in 1 .. q_msgcnt[q] |-> q_data[q][Wrapped(q_msgout[q] + i - 1, q)]]
  ELSE <<>>

Service ==
  INSTANCE QueueService
    WITH exists <- qlr, chan <- [q \in Queue |-> Contents(q)],
         holder <- q_buf, got <- ubuf

\* The queue system implements the service it promises: the circular buffers,
\* the hand-over of q_spb and the aborts are invisible to its users.
Implements == Service!Spec

\* Whoever waits for the queue system gets it, or is aborted.
SyncServed ==
  AbortsEnd => \A p \in Proc : pc[p] \in SyncSleep ~> pc[p] \notin SyncSleep

\* abort_spec_entry and term_err: an abort that found the process, or left CTLC
\* for it because it was in a no abort region, ends in its termination.
AbortCompletes ==
  AbortsEnd =>
    \A p \in Proc :
      PFlags[p] = {} => (("ctlc" \in p_flag[p] \/ pc[p] = "limbo") ~> pc[p] = "dead")

\* An MX queue does not stay with a process that is being terminated.
MxReleased ==
  AbortsEnd =>
    \A q \in Mx, p \in Proc :
      (q_buf[q] = p /\ pc[p] \in Terminating) ~> q_buf[q] # p

\* An abort ends in termination, and termination gives back the MX queues.
AbortServed == AbortCompletes /\ MxReleased
=============================================================================
