-------------------------- MODULE QueueSystemProofs --------------------------
(* Theorems of QueueSystem, for every set of processes, queues, priorities, *)
(* calls and aborters: type correctness, mutual exclusion in the queue      *)
(* system, its lists and its no abort regions, what is handed over to those *)
(* that wait, and that it implements QueueService.                          *)
EXTENDS QueueSystem, ProcessListsProofs

----------------------------------------------------------------------------
(* The lists of processes.                                                 *)

\* insert_process goes past an initial part of the list.
LEMMA PassedBound ==
  ASSUME NEW list \in Seq(Proc), NEW p \in Proc
  PROVE  Cardinality(Passed(list, p)) \in 0 .. Len(list)
<1>1. Passed(list, p) \in SUBSET (1 .. Len(list))
  BY DEF Passed
<1> QED
  BY <1>1, PlacesBound

LEMMA InsertMembers ==
  ASSUME NEW list \in Seq(Proc), NEW p \in Proc
  PROVE  /\ InsertProcess(list, p) \in Seq(Proc)
         /\ \A x : IsOn(InsertProcess(list, p), x) <=> x = p \/ IsOn(list, x)
         /\ Distinct(list) /\ ~ IsOn(list, p) => Distinct(InsertProcess(list, p))
  BY PassedBound, PlacedMembers DEF InsertProcess

LEMMA InsertProcessType ==
  ASSUME NEW list \in Seq(Proc), NEW p \in Proc
  PROVE  InsertProcess(list, p) \in Seq(Proc)
  BY InsertMembers

\* The outermost no abort region of a process begins.
LEMMA RegionEntered ==
  ASSUME NEW p \in Proc, p_tkcnt[p].cnt = 0,
         p_flag[p] \cap {"tempkeep"} = PFlags[p] \cap {"tempkeep"}
  PROVE  TkcntAfterNoAbort(p) = [cnt |-> 1, saved |-> PFlags[p] \cap {"tempkeep"}]
  BY DEF TkcntAfterNoAbort

----------------------------------------------------------------------------
(* Type correctness.                                                       *)

USE ProcAssumption, QueueAssumption, NMsgsAssumption, MsgAssumption,
    PFlagsAssumption, AbortersAssumption

\* The labels a process can be sent to.
LEMMA PcLabels ==
  /\ {"user", "noabort", "sync", "okabort", "okabort2", "abort2", "limbo",
      "dead", "syncwait", "tsyncwait", "dqwait", "nqwait", "assigned", "body",
      "transfer", "assign1", "assign2", "unsync", "terminate", "tsync", "rlsmx",
      "tunsync", "term2"} = PC
  BY DEF PC, Asleep, SyncSleep, ListSleep, InQueueCode, Terminating

LEMMA NewOwnerType ==
  ASSUME TypeOK
  PROVE  /\ NewOwner \in Proc \cup {NoProc}
         /\ sy_wait # <<>> => Tail(sy_wait) \in Seq(Proc)
  BY HeadTailProperties DEF TypeOK, NewOwner

\* Handing q_spb over keeps the types of the variables it assigns.
LEMMA PassOwnershipType ==
  ASSUME TypeOK, PassOwnership
  PROVE  /\ sy_owner' \in Proc \cup {NoProc}
         /\ sy_wait' \in Seq(Proc)
         /\ sy_next' \in Proc \cup {NoProc}
  BY NewOwnerType DEF TypeOK, PassOwnership

LEMMA WakeAndGotoType ==
  ASSUME TypeOK, NEW p \in Proc, NEW l \in PC, WakeAndGoto(p, l)
  PROVE  pc' \in [Proc -> PC]
  BY PcLabels DEF TypeOK, WakeAndGoto, Awake

LEMMA UnsyncAndGotoType ==
  ASSUME TypeOK, NEW p \in Proc, NEW l \in PC, UnsyncAndGoto(p, l)
  PROVE  /\ sy_owner' \in Proc \cup {NoProc}
         /\ sy_wait' \in Seq(Proc)
         /\ sy_next' \in Proc \cup {NoProc}
         /\ pc' \in [Proc -> PC]
<1>1. CASE sy_owner = p
  <2>1. PassOwnership /\ WakeAndGoto(p, l)
    BY <1>1 DEF UnsyncAndGoto
  <2>2. pc' \in [Proc -> PC]
    BY <2>1, WakeAndGotoType
  <2> QED
    BY <2>1, <2>2, PassOwnershipType
<1>2. CASE sy_owner # p
  <2>1. Goto(p, l) /\ UNCHANGED syncVars
    BY <1>2 DEF UnsyncAndGoto
  <2>2. pc' \in [Proc -> PC]
    BY <2>1 DEF Goto, TypeOK
  <2> QED
    BY <2>1, <2>2 DEF TypeOK, syncVars
<1> QED
  BY <1>1, <1>2

LEMMA SyncOrSleepType ==
  ASSUME TypeOK, NEW p \in Proc, NEW l \in PC, NEW a \in PC,
         SyncOrSleep(p, l, a)
  PROVE  /\ sy_owner' \in Proc \cup {NoProc}
         /\ sy_wait' \in Seq(Proc)
         /\ pc' \in [Proc -> PC]
<1>1. pc' \in [Proc -> PC]
  BY DEF TypeOK, SyncOrSleep, Goto
<1>2. InsertProcess(sy_wait, p) \in Seq(Proc)
  BY InsertProcessType DEF TypeOK
<1>3. sy_owner' \in Proc \cup {NoProc} /\ sy_wait' \in Seq(Proc)
  BY <1>2 DEF TypeOK, SyncOrSleep
<1> QED
  BY <1>1, <1>3

\* What entering and leaving a no abort region do to the flags.
LEMMA RegionTypes ==
  ASSUME TypeOK, NEW p \in Proc
  PROVE  /\ TkcntAfterNoAbort(p) \in [cnt : Int, saved : SUBSET {"tempkeep"}]
         /\ TkcntAfterOkAbort(p) \in [cnt : Int, saved : SUBSET {"tempkeep"}]
  BY DEF TypeOK, TkcntAfterNoAbort, TkcntAfterOkAbort

LEMMA FlagTypes ==
  ASSUME NEW flags \in SUBSET Flags
  PROVE  /\ \A sure : FlagsAfterAbtChk(flags, sure) \in SUBSET Flags
         /\ FlagsAfterCtlcTest(flags) \in SUBSET Flags
         /\ flags \cup {"ctlc"} \in SUBSET Flags
         /\ flags \cup {"tempkeep"} \in SUBSET Flags
  BY DEF Flags, FlagsAfterAbtChk, FlagsAfterCtlcTest, AbtChk

LEMMA ReturnType ==
  ASSUME TypeOK, NEW p \in Proc, Return(p)
  PROVE  pc' \in [Proc -> PC] /\ op' \in [Proc -> Op]
  BY PcLabels DEF TypeOK, Return, Goto, Op

\* The list a process wakes the first process of.
LEMMA OtherSideType ==
  ASSUME TypeOK, NEW p \in Proc, Reads(p) \/ Writes(p)
  PROVE  /\ op[p].q \in Queue
         /\ OtherSide(p) # <<>> =>
              Head(OtherSide(p)) \in Proc /\ Tail(OtherSide(p)) \in Seq(Proc)
<1>1. op[p].q \in Queue
  BY DEF TypeOK, Op, NoOp, Reads, Writes
<1>2. OtherSide(p) \in Seq(Proc)
  BY <1>1 DEF TypeOK, OtherSide
<1> QED
  BY <1>1, <1>2, HeadTailProperties

LEMMA InitType == Init => TypeOK
  BY DEF Init, TypeOK, Op, PC, Flags

\* Every step of a process keeps TypeOK: one step of the proof per action.
LEMMA StepType ==
  ASSUME TypeOK, NEW p \in Proc,
         UserCall(p) \/ AbortSpec(p) \/ TerminateEntry(p) \/ Kernel(p)
  PROVE  TypeOK'
<1> USE PcLabels
<1> USE DEF vars, syncVars, bufVars, queueVars, flagVars, Goto
<1>1. CASE UserCall(p)
  <2>1. PICK o \in Calls[p] : Call(p, o)
    BY <1>1 DEF UserCall
  <2>2. o \in Op
    BY CallsAssumption
  <2>3. op' \in [Proc -> Op] /\ pc' \in [Proc -> PC]
    BY <2>1, <2>2 DEF TypeOK, Call
  <2> QED
    BY <1>1, <2>3 DEF TypeOK, UserCall
<1>2. CASE NoAbort(p)
  BY <1>2, RegionTypes, FlagTypes DEF TypeOK, NoAbort, NoAbortOn
<1>3. CASE Sync(p)
  <2>1. /\ sy_owner' \in Proc \cup {NoProc}
        /\ sy_wait' \in Seq(Proc)
        /\ pc' \in [Proc -> PC]
    BY <1>3, SyncOrSleepType DEF Sync
  <2> QED
    BY <1>3, <2>1 DEF TypeOK, Sync
<1>4. CASE MakeQ(p)
  <2>1. op[p].q \in Queue
    BY <1>4 DEF TypeOK, MakeQ, Op, NoOp
  <2>2. /\ q_dq' \in [Queue -> Seq(Proc)] /\ q_nq' \in [Queue -> Seq(Proc)]
        /\ q_msgcnt' \in [Queue -> Int] /\ qlr' \subseteq Queue
        /\ q_msgout' \in [Queue -> Nat] /\ \A r \in Queue : q_msgout'[r] < NMsgs[r]
    <3> DEFINE q == op[p].q
    <3>1. CASE UNCHANGED <<qlr, q_dq, q_nq, q_msgcnt, q_msgout>>
      BY <3>1 DEF TypeOK
    <3>2. CASE /\ qlr' = qlr \cup {q}
               /\ q_dq' = [q_dq EXCEPT ![q] = <<>>]
               /\ q_nq' = [q_nq EXCEPT ![q] = <<>>]
               /\ q_msgcnt' = [q_msgcnt EXCEPT ![q] = 0]
               /\ q_msgout' = [q_msgout EXCEPT ![q] = 0]
      <4>1. <<>> \in Seq(Proc) /\ q \in Queue
        BY <2>1
      <4> HIDE DEF q
      <4>2. q_dq' \in [Queue -> Seq(Proc)] /\ q_nq' \in [Queue -> Seq(Proc)]
        BY <3>2, <4>1 DEF TypeOK
      <4>3. q_msgcnt' \in [Queue -> Int] /\ qlr' \subseteq Queue
        BY <3>2, <4>1 DEF TypeOK
      <4>4. q_msgout' \in [Queue -> Nat] /\ \A r \in Queue : q_msgout'[r] < NMsgs[r]
        BY <3>2, <4>1 DEF TypeOK
      <4> QED
        BY <4>2, <4>3, <4>4
    <3> QED
      BY <1>4, <3>1, <3>2 DEF MakeQ
  <2>4. pc' \in [Proc -> PC]
    BY <1>4 DEF TypeOK, MakeQ
  <2> QED
    BY <1>4, <2>2, <2>4 DEF TypeOK, MakeQ
<1>5. CASE DeleteQ(p)
  BY <1>5 DEF TypeOK, DeleteQ
<1>6. CASE Verify(p)
  BY <1>6 DEF TypeOK, Verify
<1>7. CASE QWait(p)
  <2> DEFINE q == op[p].q
             flags == IF LeavesRegion(p) THEN p_flag[p] \ {"tempkeep"}
                                         ELSE p_flag[p]
             new == IF LeavesRegion(p) THEN FlagsAfterCtlcTest(flags) ELSE flags
  <2>1. /\ sy_owner' \in Proc \cup {NoProc}
        /\ sy_wait' \in Seq(Proc)
        /\ sy_next' \in Proc \cup {NoProc}
    BY <1>7, PassOwnershipType DEF QWait
  <2>2. PICK l \in {"terminate", "dqwait", "nqwait"} : WakeAndGoto(p, l)
    BY <1>7 DEF QWait
  <2>3. pc' \in [Proc -> PC]
    BY <2>2, WakeAndGotoType
  <2>4. p_tkcnt' \in [Proc -> [cnt : Int, saved : SUBSET {"tempkeep"}]]
    BY <1>7, RegionTypes DEF TypeOK, QWait
  <2>5. p_flag' \in [Proc -> SUBSET Flags]
    <3>1. p_flag' = [p_flag EXCEPT ![p] = new]
      BY <1>7 DEF QWait
    <3>2. flags \in SUBSET Flags
      BY DEF TypeOK
    <3>3. new \in SUBSET Flags
      BY <3>2, FlagTypes
    <3>4. p_flag \in [Proc -> SUBSET Flags]
      BY DEF TypeOK
    <3> HIDE DEF new, flags
    <3> QED
      BY <3>1, <3>3, <3>4
  <2>6. q_dq' \in [Queue -> Seq(Proc)] /\ q_nq' \in [Queue -> Seq(Proc)]
    <3>1. q \in Queue
      BY <1>7 DEF TypeOK, QWait
    <3>2. q_dq \in [Queue -> Seq(Proc)] /\ q_nq \in [Queue -> Seq(Proc)]
      BY DEF TypeOK
    <3>3. /\ InsertProcess(q_dq[q], p) \in Seq(Proc)
          /\ InsertProcess(q_nq[q], p) \in Seq(Proc)
      BY <3>1, <3>2, InsertProcessType
    <3>4. /\ q_dq' = q_dq \/ q_dq' = [q_dq EXCEPT ![q] = InsertProcess(q_dq[q], p)]
          /\ q_nq' = q_nq \/ q_nq' = [q_nq EXCEPT ![q] = InsertProcess(q_nq[q], p)]
      BY <1>7 DEF QWait
    <3> HIDE DEF q
    <3> QED
      <4>1. q_dq' \in [Queue -> Seq(Proc)]
        BY <3>2, <3>3, <3>4
      <4>2. q_nq' \in [Queue -> Seq(Proc)]
        BY <3>2, <3>3, <3>4
      <4> QED
        BY <4>1, <4>2
  <2>7. op' \in [Proc -> Op]
    <3>1. op' = op \/ op' = [op EXCEPT ![p] = NoOp]
      BY <1>7 DEF QWait
    <3> QED
      BY <3>1 DEF TypeOK, Op
  <2> QED
    BY <1>7, <2>1, <2>3, <2>4, <2>5, <2>6, <2>7 DEF TypeOK, QWait
<1>8. CASE Transfer(p)
  <2> DEFINE q == op[p].q
  <2>1. q \in Queue /\ op[p].msg \in Msg \cup {NoMsg}
    BY <1>8 DEF TypeOK, Transfer, Reads, Writes, Op, NoOp
  <2>2. pc' \in [Proc -> PC]
    BY <1>8 DEF TypeOK, Transfer
  <2>3. q_msgcnt' \in [Queue -> Int]
    <3>1. \/ q_msgcnt' = [q_msgcnt EXCEPT ![q] = @ - 1]
          \/ q_msgcnt' = [q_msgcnt EXCEPT ![q] = @ + 1]
      BY <1>8 DEF Transfer
    <3>2. q_msgcnt \in [Queue -> Int]
      BY DEF TypeOK
    <3> HIDE DEF q
    <3> QED
      BY <2>1, <3>1, <3>2
  <2>4. q_msgout' \in [Queue -> Nat] /\ \A r \in Queue : q_msgout'[r] < NMsgs[r]
    <3>1. \/ q_msgout' = q_msgout
          \/ q_msgout' = [q_msgout EXCEPT ![q] = 0]
          \/ q_msgout' = [q_msgout EXCEPT ![q] = NextOut(q_msgout[q], q)]
      BY <1>8 DEF Transfer
    <3>2. NextOut(q_msgout[q], q) \in 0 .. NMsgs[q] - 1
      BY <2>1 DEF TypeOK, NextOut
    <3> HIDE DEF q
    <3>3. q_msgout \in [Queue -> Nat] /\ \A r \in Queue : q_msgout[r] < NMsgs[r]
      BY DEF TypeOK
    <3> QED
      BY <2>1, <3>1, <3>2, <3>3
  <2>5. q_buf' \in [Queue -> Proc \cup {NoProc}]
    <3>1. \/ q_buf' = q_buf
          \/ q_buf' = [q_buf EXCEPT ![q] = p]
          \/ q_buf' = [q_buf EXCEPT ![q] = NoProc]
      BY <1>8 DEF Transfer
    <3> HIDE DEF q
    <3>2. q_buf \in [Queue -> Proc \cup {NoProc}]
      BY DEF TypeOK
    <3> QED
      BY <3>1, <3>2
  <2>6. DOMAIN q_data' = Queue /\ \A r \in Queue :
          q_data'[r] \in [0 .. NMsgs[r] - 1 -> Msg \cup {NoMsg}]
    <3>1. PICK i : \/ q_data' = q_data
                   \/ q_data' = [q_data EXCEPT ![q] = [@ EXCEPT ![i] = op[p].msg]]
      BY <1>8 DEF Transfer
    <3>2. [q_data[q] EXCEPT ![i] = op[p].msg]
            \in [0 .. NMsgs[q] - 1 -> Msg \cup {NoMsg}]
      BY <2>1 DEF TypeOK
    <3> QED
      BY <2>1, <3>1, <3>2 DEF TypeOK
  <2>7. ubuf' \in [Proc -> Msg \cup {NoMsg}]
    <3>1. q_data[q][q_msgout[q]] \in Msg \cup {NoMsg}
      BY <2>1 DEF TypeOK
    <3>2. \/ ubuf' = ubuf
          \/ ubuf' = [ubuf EXCEPT ![p] = q_data[q][q_msgout[q]]]
      BY <1>8 DEF Transfer
    <3>3. ubuf \in [Proc -> Msg \cup {NoMsg}]
      BY DEF TypeOK
    <3> HIDE DEF q
    <3> QED
      BY <3>1, <3>2, <3>3
  <2> QED
    BY <1>8, <2>2, <2>3, <2>4, <2>5, <2>6, <2>7 DEF TypeOK, Transfer
<1>9. CASE Assign1(p)
  <2>1. pc' \in [Proc -> PC]
    BY <1>9 DEF TypeOK, Assign1
  <2>2. OtherSide(p) # <<>> => Head(OtherSide(p)) \in Proc
    BY <1>9, OtherSideType DEF Assign1
  <2>3. /\ p_tkcnt' \in [Proc -> [cnt : Int, saved : SUBSET {"tempkeep"}]]
        /\ p_flag' \in [Proc -> SUBSET Flags]
    <3>1. CASE OtherSide(p) = <<>>
      BY <1>9, <3>1 DEF TypeOK, Assign1
    <3>2. CASE OtherSide(p) # <<>>
      <4> DEFINE x == Head(OtherSide(p))
      <4>1. /\ p_tkcnt' = [p_tkcnt EXCEPT ![x] = TkcntAfterNoAbort(x)]
            /\ p_flag' = [p_flag EXCEPT ![x] = p_flag[x] \cup {"tempkeep"}]
        BY <1>9, <3>2 DEF Assign1, NoAbortOn
      <4>2. /\ TkcntAfterNoAbort(x) \in [cnt : Int, saved : SUBSET {"tempkeep"}]
            /\ p_flag[x] \cup {"tempkeep"} \in SUBSET Flags
        <5>1. x \in Proc /\ p_flag[x] \in SUBSET Flags
          BY <2>2, <3>2 DEF TypeOK
        <5> HIDE DEF x
        <5> QED
          BY <5>1, RegionTypes, FlagTypes
      <4> QED
        BY <4>1, <4>2 DEF TypeOK
    <3> QED
      BY <3>1, <3>2
  <2> QED
    BY <1>9, <2>1, <2>3 DEF TypeOK, Assign1
<1>10. CASE Assign2(p)
  <2> DEFINE q == op[p].q
             x == Head(OtherSide(p))
  <2>1. CASE sy_owner # p \/ OtherSide(p) = <<>>
    BY <1>10, <2>1 DEF TypeOK, Assign2
  <2>2. CASE ~(sy_owner # p \/ OtherSide(p) = <<>>)
    <3>1. q \in Queue /\ x \in Proc /\ Tail(OtherSide(p)) \in Seq(Proc)
      BY <1>10, <2>2, OtherSideType DEF Assign2
    <3>2. sy_next' = x /\ pc' \in [Proc -> PC]
      BY <1>10, <2>2, <3>1 DEF TypeOK, Assign2
    <3>3. \/ /\ q_nq' = [q_nq EXCEPT ![q] = Tail(OtherSide(p))]
             /\ q_dq' = q_dq
          \/ /\ q_dq' = [q_dq EXCEPT ![q] = Tail(OtherSide(p))]
             /\ q_nq' = q_nq
      BY <1>10, <2>2 DEF Assign2, OtherSide
    <3>4. q_dq' \in [Queue -> Seq(Proc)] /\ q_nq' \in [Queue -> Seq(Proc)]
      <4> DEFINE rest == Tail(OtherSide(p))
      <4>1. q_dq \in [Queue -> Seq(Proc)] /\ q_nq \in [Queue -> Seq(Proc)]
        BY DEF TypeOK
      <4>2. rest \in Seq(Proc)
        BY <3>1
      <4> HIDE DEF q, rest
      <4> QED
        BY <3>3, <4>1, <4>2 DEF rest
    <3> QED
      BY <1>10, <3>1, <3>2, <3>4 DEF TypeOK, Assign2
  <2> QED
    BY <2>1, <2>2
<1>11. CASE Unsync(p)
  <2>1. /\ sy_owner' \in Proc \cup {NoProc}
        /\ sy_wait' \in Seq(Proc)
        /\ sy_next' \in Proc \cup {NoProc}
        /\ pc' \in [Proc -> PC]
    BY <1>11, UnsyncAndGotoType DEF Unsync
  <2> QED
    BY <1>11, <2>1 DEF TypeOK, Unsync
<1>12. CASE OkAbort(p)
  <2>1. p_tkcnt' \in [Proc -> [cnt : Int, saved : SUBSET {"tempkeep"}]]
    BY <1>12, RegionTypes DEF TypeOK, OkAbort
  <2>2. p_flag' \in [Proc -> SUBSET Flags]
    <3>1. \/ p_flag' = [p_flag EXCEPT ![p] = p_flag[p] \ {"tempkeep"}]
          \/ p_flag' = p_flag
      BY <1>12 DEF OkAbort
    <3>2. p_flag \in [Proc -> SUBSET Flags] /\ p_flag[p] \ {"tempkeep"} \in SUBSET Flags
      BY DEF TypeOK
    <3> QED
      BY <3>1, <3>2
  <2>3. pc' \in [Proc -> PC] /\ op' \in [Proc -> Op]
    BY <1>12, ReturnType DEF TypeOK, OkAbort
  <2> QED
    BY <1>12, <2>1, <2>2, <2>3 DEF TypeOK, OkAbort
<1>13. CASE OkAbort2(p)
  <2>1. p_flag' \in [Proc -> SUBSET Flags]
    <3>1. p_flag' = [p_flag EXCEPT ![p] = FlagsAfterCtlcTest(p_flag[p])]
      BY <1>13 DEF OkAbort2
    <3>2. FlagsAfterCtlcTest(p_flag[p]) \in SUBSET Flags
      BY FlagTypes DEF TypeOK
    <3> QED
      BY <3>1, <3>2 DEF TypeOK
  <2>2. pc' \in [Proc -> PC] /\ op' \in [Proc -> Op]
    BY <1>13, ReturnType DEF TypeOK, OkAbort2, Op
  <2> QED
    BY <1>13, <2>1, <2>2 DEF TypeOK, OkAbort2
<1>14. CASE AbortSpec2(p)
  BY <1>14 DEF TypeOK, AbortSpec2
<1>15. CASE Terminate(p)
  BY <1>15 DEF TypeOK, Terminate, Flags
<1>16. CASE TSync(p)
  <2>1. /\ sy_owner' \in Proc \cup {NoProc}
        /\ sy_wait' \in Seq(Proc)
        /\ pc' \in [Proc -> PC]
    BY <1>16, SyncOrSleepType DEF TSync
  <2> QED
    BY <1>16, <2>1 DEF TypeOK, TSync
<1>17. CASE RlsMx(p)
  <2>1. CASE \E q \in Owned(p) :
               Call(p, [kind |-> "release", q |-> q, cond |-> FALSE, msg |-> NoMsg])
    <3>1. PICK q \in Owned(p) :
            Call(p, [kind |-> "release", q |-> q, cond |-> FALSE, msg |-> NoMsg])
      BY <2>1
    <3>2. [kind |-> "release", q |-> q, cond |-> FALSE, msg |-> NoMsg] \in Op
      BY DEF Owned, Op, TypeOK
    <3> QED
      BY <1>17, <3>1, <3>2 DEF TypeOK, RlsMx, Call
  <2>2. CASE Goto(p, "tunsync") /\ UNCHANGED op
    BY <1>17, <2>2 DEF TypeOK, RlsMx
  <2> QED
    BY <1>17, <2>1, <2>2 DEF RlsMx
<1>18. CASE TUnsync(p)
  <2>1. /\ sy_owner' \in Proc \cup {NoProc}
        /\ sy_wait' \in Seq(Proc)
        /\ sy_next' \in Proc \cup {NoProc}
        /\ pc' \in [Proc -> PC]
    BY <1>18, UnsyncAndGotoType DEF TUnsync
  <2> QED
    BY <1>18, <2>1 DEF TypeOK, TUnsync
<1>19. CASE TermAct(p)
  <2>1. /\ sy_owner' \in Proc \cup {NoProc}
        /\ sy_wait' \in Seq(Proc)
        /\ sy_next' \in Proc \cup {NoProc}
        /\ pc' \in [Proc -> PC]
    BY <1>19, UnsyncAndGotoType DEF TermAct
  <2> QED
    BY <1>19, <2>1 DEF TypeOK, TermAct
<1>20. CASE AbortSpec(p)
  <2>1. PICK t \in Proc, sure \in BOOLEAN :
          LET flags == p_flag[t] \cup {"ctlc"}
          IN  /\ p_flag' = [p_flag EXCEPT ![t] = FlagsAfterAbtChk(flags, sure)]
              /\ \/ UNCHANGED <<sy_wait, q_dq, q_nq, pc, op, target>>
                 \/ /\ OnItsList(t)
                    /\ TakeOff(t)
                    /\ pc' = [pc EXCEPT ![p] = "abort2", ![t] = "limbo"]
                    /\ op' = [op EXCEPT ![t] = NoOp]
                    /\ target' = [target EXCEPT ![p] = t, ![t] = NoProc]
    BY <1>20 DEF AbortSpec
  <2>2. p_flag' \in [Proc -> SUBSET Flags]
    <3>1. FlagsAfterAbtChk(p_flag[t] \cup {"ctlc"}, sure) \in SUBSET Flags
      <4>1. p_flag[t] \cup {"ctlc"} \in SUBSET Flags
        BY FlagTypes DEF TypeOK
      <4> QED
        BY <4>1, FlagTypes
    <3>2. p_flag \in [Proc -> SUBSET Flags]
      BY DEF TypeOK
    <3> QED
      BY <2>1, <3>1, <3>2
  <2>3. CASE UNCHANGED <<sy_wait, q_dq, q_nq, pc, op, target>>
    BY <1>20, <2>2, <2>3 DEF TypeOK, AbortSpec
  <2>4. CASE /\ OnItsList(t)
             /\ TakeOff(t)
             /\ pc' = [pc EXCEPT ![p] = "abort2", ![t] = "limbo"]
             /\ op' = [op EXCEPT ![t] = NoOp]
             /\ target' = [target EXCEPT ![p] = t, ![t] = NoProc]
    <3>1. /\ pc' \in [Proc -> PC] /\ op' \in [Proc -> Op]
          /\ target' \in [Proc -> Proc \cup {NoProc}]
      BY <2>4 DEF TypeOK, Op
    <3>2. sy_wait' \in Seq(Proc)
      BY <2>4, SnipType DEF TypeOK, TakeOff, OnItsList
    <3>3. q_dq' \in [Queue -> Seq(Proc)]
      <4>1. q_dq \in [Queue -> Seq(Proc)]
        BY DEF TypeOK
      <4>2. CASE pc[t] = "dqwait" /\ op[t].q \in Queue
        <5>1. Snip(q_dq[op[t].q], t) \in Seq(Proc)
          BY <2>4, <4>1, <4>2, SnipType DEF OnItsList
        <5> QED
          BY <2>4, <4>1, <4>2, <5>1 DEF TakeOff
      <4>3. CASE ~(pc[t] = "dqwait" /\ op[t].q \in Queue)
        BY <2>4, <4>1, <4>3 DEF TakeOff
      <4> QED
        BY <4>2, <4>3
    <3>4. q_nq' \in [Queue -> Seq(Proc)]
      <4>1. q_nq \in [Queue -> Seq(Proc)]
        BY DEF TypeOK
      <4>2. CASE pc[t] = "nqwait" /\ op[t].q \in Queue
        <5>1. Snip(q_nq[op[t].q], t) \in Seq(Proc)
          BY <2>4, <4>1, <4>2, SnipType DEF OnItsList
        <5> QED
          BY <2>4, <4>1, <4>2, <5>1 DEF TakeOff
      <4>3. CASE ~(pc[t] = "nqwait" /\ op[t].q \in Queue)
        BY <2>4, <4>1, <4>3 DEF TakeOff
      <4> QED
        BY <4>2, <4>3
    <3> QED
      BY <1>20, <2>2, <3>1, <3>2, <3>3, <3>4 DEF TypeOK, AbortSpec
  <2> QED
    BY <2>1, <2>3, <2>4
<1>21. CASE TerminateEntry(p)
  <2>1. PICK sure \in BOOLEAN :
          /\ p_flag' = [p_flag EXCEPT ![p] = FlagsAfterAbtChk(@, sure)]
          /\ pc' = [pc EXCEPT ![p] = "terminate"] \/ pc' = pc
    BY <1>21 DEF TerminateEntry
  <2>2. p_flag' \in [Proc -> SUBSET Flags]
    <3>1. FlagsAfterAbtChk(p_flag[p], sure) \in SUBSET Flags
      BY FlagTypes DEF TypeOK
    <3> QED
      BY <2>1, <3>1 DEF TypeOK
  <2>3. pc' \in [Proc -> PC]
    BY <2>1 DEF TypeOK
  <2> QED
    BY <1>21, <2>2, <2>3 DEF TypeOK, TerminateEntry
<1> QED
  BY <1>1, <1>2, <1>3, <1>4, <1>5, <1>6, <1>7, <1>8, <1>9, <1>10, <1>11, <1>12,
     <1>13, <1>14, <1>15, <1>16, <1>17, <1>18, <1>19, <1>20, <1>21 DEF Kernel

\* Every variable keeps its type: lists hold processes, indices into a queue's
\* buffer are in range, a process is at a known place.
THEOREM TypeCorrect == Spec => []TypeOK
<1>1. TypeOK /\ [Next]_vars => TypeOK'
  <2> SUFFICES ASSUME TypeOK, [Next]_vars PROVE TypeOK'
    OBVIOUS
  <2>1. CASE Next
    BY <2>1, StepType DEF Next
  <2>2. CASE UNCHANGED vars
    BY <2>2 DEF TypeOK, vars, syncVars, queueVars, flagVars
  <2> QED
    BY <2>1, <2>2
<1> QED
  BY <1>1, InitType, PTL DEF Spec

----------------------------------------------------------------------------
(* Mutual exclusion in the queue system.                                   *)

\* A step of p alone that leaves q_spb where it is.
LEMMA MutexLocal ==
  ASSUME TypeOK, QueueMutex, NEW p \in Proc, NEW l, Goto(p, l),
         sy_owner' = sy_owner, l \in InQueueCode => sy_owner = p
  PROVE  QueueMutex'
  BY DEF TypeOK, QueueMutex, Goto

\* The owner leaves the queue code and hands q_spb over: no other process was
\* in the queue code, and of those that wake up only the new owner enters it.
LEMMA MutexPass ==
  ASSUME TypeOK, QueueMutex, NEW p \in Proc, NEW l, sy_owner = p,
         PassOwnership, WakeAndGoto(p, l), l \notin InQueueCode
  PROVE  QueueMutex'
<1> SUFFICES ASSUME NEW x \in Proc, pc'[x] \in InQueueCode
             PROVE  sy_owner' = x
  BY DEF QueueMutex
<1>1. x # p
  BY DEF WakeAndGoto
<1>2. CASE x = NewOwner
  BY <1>2 DEF PassOwnership
<1>3. CASE x # NewOwner
  <2>1. pc[x] \in InQueueCode
    BY <1>1, <1>3 DEF WakeAndGoto
  <2> QED
    BY <1>1, <2>1 DEF QueueMutex
<1> QED
  BY <1>2, <1>3

LEMMA MutexUnsync ==
  ASSUME TypeOK, QueueMutex, NEW p \in Proc, NEW l, l \notin InQueueCode,
         UnsyncAndGoto(p, l)
  PROVE  QueueMutex'
<1>1. CASE sy_owner = p
  <2>1. PassOwnership /\ WakeAndGoto(p, l)
    BY <1>1 DEF UnsyncAndGoto
  <2> QED
    BY <1>1, <2>1, MutexPass
<1>2. CASE sy_owner # p
  <2>1. Goto(p, l) /\ sy_owner' = sy_owner
    BY <1>2 DEF UnsyncAndGoto, syncVars
  <2> QED
    BY <2>1, MutexLocal
<1> QED
  BY <1>1, <1>2

\* A process enters the queue code only if q_spb was free or already its own.
LEMMA MutexSync ==
  ASSUME TypeOK, QueueMutex, NEW p \in Proc, NEW l, NEW a, a \notin InQueueCode,
         SyncOrSleep(p, l, a)
  PROVE  QueueMutex'
<1>1. CASE sy_owner \in {NoProc, p}
  BY <1>1 DEF TypeOK, QueueMutex, SyncOrSleep, Goto
<1>2. CASE sy_owner \notin {NoProc, p}
  <2>1. Goto(p, a) /\ sy_owner' = sy_owner
    BY <1>2 DEF SyncOrSleep
  <2> QED
    BY <2>1, MutexLocal
<1> QED
  BY <1>1, <1>2

LEMMA MutexStep ==
  ASSUME TypeOK, QueueMutex, NEW p \in Proc,
         UserCall(p) \/ AbortSpec(p) \/ TerminateEntry(p) \/ Kernel(p)
  PROVE  QueueMutex'
<1> USE DEF syncVars, queueVars, flagVars, InQueueCode
<1>1. CASE UserCall(p)
  <2>1. Goto(p, "noabort") /\ sy_owner' = sy_owner
    BY <1>1 DEF UserCall, Call
  <2> QED
    BY <2>1, MutexLocal
<1>2. CASE NoAbort(p)
  <2>1. Goto(p, "sync") /\ sy_owner' = sy_owner
    BY <1>2 DEF NoAbort
  <2> QED
    BY <2>1, MutexLocal
<1>3. CASE Sync(p)
  BY <1>3, MutexSync DEF Sync
<1>4. CASE MakeQ(p) \/ DeleteQ(p)
  <2>1. Goto(p, "unsync") /\ sy_owner' = sy_owner /\ sy_owner = p
    BY <1>4 DEF MakeQ, DeleteQ, QueueMutex
  <2> QED
    BY <2>1, MutexLocal
<1>5. CASE Verify(p)
  <2>1. /\ Goto(p, "unsync") \/ Goto(p, "transfer")
        /\ sy_owner' = sy_owner /\ sy_owner = p
    BY <1>5 DEF Verify, QueueMutex
  <2> QED
    BY <2>1, MutexLocal
<1>6. CASE QWait(p)
  <2>1. PICK l \in {"terminate", "dqwait", "nqwait"} : WakeAndGoto(p, l)
    BY <1>6 DEF QWait
  <2>2. sy_owner = p /\ PassOwnership
    BY <1>6 DEF QWait, QueueMutex
  <2> QED
    BY <2>1, <2>2, MutexPass
<1>7. CASE Transfer(p)
  <2>1. Goto(p, "assign1") /\ sy_owner' = sy_owner /\ sy_owner = p
    BY <1>7 DEF Transfer, QueueMutex
  <2> QED
    BY <2>1, MutexLocal
<1>8. CASE Assign1(p)
  <2>1. /\ Goto(p, "unsync") \/ Goto(p, "assign2")
        /\ sy_owner' = sy_owner /\ sy_owner = p
    BY <1>8 DEF Assign1, QueueMutex
  <2> QED
    BY <2>1, MutexLocal
<1>9. CASE Assign2(p)
  <2>1. sy_owner' = sy_owner /\ sy_owner = p
    BY <1>9 DEF Assign2, QueueMutex
  <2>2. \/ Goto(p, "unsync")
        \/ pc' = [pc EXCEPT ![p] = "unsync", ![Head(OtherSide(p))] = "assigned"]
    BY <1>9 DEF Assign2
  <2> QED
    BY <2>1, <2>2 DEF TypeOK, QueueMutex, Goto
<1>10. CASE Unsync(p)
  BY <1>10, MutexUnsync DEF Unsync
<1>11. CASE OkAbort(p) \/ OkAbort2(p)
  <2>1. /\ \/ Goto(p, "okabort2") \/ Goto(p, "rlsmx")
           \/ Goto(p, "user") \/ Goto(p, "terminate")
        /\ sy_owner' = sy_owner
    BY <1>11 DEF OkAbort, OkAbort2, Return
  <2> QED
    BY <2>1, MutexLocal
<1>12. CASE AbortSpec2(p)
  <2>1. /\ pc' = [pc EXCEPT ![p] = "user", ![target[p]] = "terminate"]
        /\ sy_owner' = sy_owner
    BY <1>12 DEF AbortSpec2
  <2> QED
    BY <2>1 DEF TypeOK, QueueMutex
<1>13. CASE Terminate(p)
  <2>1. Goto(p, "tsync") /\ sy_owner' = sy_owner
    BY <1>13 DEF Terminate
  <2> QED
    BY <2>1, MutexLocal
<1>14. CASE TSync(p)
  BY <1>14, MutexSync DEF TSync
<1>15. CASE RlsMx(p)
  <2>1. (Goto(p, "noabort") \/ Goto(p, "tunsync")) /\ sy_owner' = sy_owner
    BY <1>15 DEF RlsMx, Call
  <2> QED
    BY <2>1, MutexLocal
<1>16. CASE TUnsync(p)
  BY <1>16, MutexUnsync DEF TUnsync
<1>17. CASE TermAct(p)
  BY <1>17, MutexUnsync DEF TermAct
<1>18. CASE AbortSpec(p)
  <2>1. sy_owner' = sy_owner
    BY <1>18 DEF AbortSpec
  <2>2. PICK t \in Proc : \/ pc' = pc
                          \/ pc' = [pc EXCEPT ![p] = "abort2", ![t] = "limbo"]
    BY <1>18 DEF AbortSpec
  <2> QED
    BY <2>1, <2>2 DEF TypeOK, QueueMutex
<1>19. CASE TerminateEntry(p)
  <2>1. (Goto(p, "terminate") \/ pc' = pc) /\ sy_owner' = sy_owner
    BY <1>19 DEF TerminateEntry
  <2> QED
    BY <2>1, MutexLocal DEF QueueMutex
<1> QED
  BY <1>1, <1>2, <1>3, <1>4, <1>5, <1>6, <1>7, <1>8, <1>9, <1>10, <1>11, <1>12,
     <1>13, <1>14, <1>15, <1>16, <1>17, <1>18, <1>19 DEF Kernel

\* que1.rtm: "each queue system entry point is mutually exclusive of the other
\* queue system entry points", for any number of processes and whichever of
\* them are aborted: QueueMutex is an invariant.
THEOREM MutualExclusion == Spec => []QueueMutex
<1>1. Init => QueueMutex
  BY DEF Init, QueueMutex, InQueueCode
<1>2. TypeOK /\ QueueMutex /\ [Next]_vars => QueueMutex'
  <2> SUFFICES ASSUME TypeOK, QueueMutex, [Next]_vars PROVE QueueMutex'
    OBVIOUS
  <2>1. CASE Next
    BY <2>1, MutexStep DEF Next
  <2>2. CASE UNCHANGED vars
    BY <2>2 DEF QueueMutex, vars, syncVars
  <2> QED
    BY <2>1, <2>2
<1> QED
  BY <1>1, <1>2, TypeCorrect, PTL DEF Spec

----------------------------------------------------------------------------
(* The inductive invariant: the lists and the places of the processes agree *)
(* (WaitMatch, QueuesMatch, NextMatch, TargetMatch), p_tkcnt and TEMPKEEP   *)
(* say who is in a no abort region (RegionMatch), and the queue of a        *)
(* process that waits for it or uses it exists (QueueStays).                *)

WaitMatch ==
  /\ Distinct(sy_wait)
  /\ \A p \in Proc : IsOn(sy_wait, p) <=> pc[p] \in SyncSleep

QueuesMatch ==
  \A q \in Queue :
    /\ Distinct(q_dq[q]) /\ Distinct(q_nq[q])
    /\ \A p \in Proc :
         /\ IsOn(q_dq[q], p) <=> pc[p] = "dqwait" /\ op[p].q = q
         /\ IsOn(q_nq[q], p) <=> pc[p] = "nqwait" /\ op[p].q = q

\* While a process is assigned q_spb, the owner is about to give it up.
NextMatch ==
  /\ \A p \in Proc : sy_next = p <=> pc[p] = "assigned"
  /\ sy_next # NoProc => sy_owner \in Proc /\ pc[sy_owner] = "unsync"

\* A process off its list has one aborter, which is to make it ready.
TargetMatch ==
  \A a \in Proc : pc[a] = "abort2" =>
    /\ target[a] \in Proc /\ pc[target[a]] = "limbo"
    /\ \A b \in Proc : pc[b] = "abort2" /\ target[b] = target[a] => b = a

\* Where a process is in a no abort region of its own.
InsideAt == InQueueCode \cup {"sync", "syncwait", "assigned", "okabort"}
Inside(p) == Chosen(p) \/ pc[p] \in InsideAt

RegionAt(p) ==
  /\ p_tkcnt[p].cnt = IF Inside(p) THEN 1 ELSE 0
  /\ "tempkeep" \in p_flag[p] <=> (Inside(p) \/ "tempkeep" \in PFlags[p])
  /\ Inside(p) => p_tkcnt[p].saved = PFlags[p] \cap {"tempkeep"}

RegionMatch == \A p \in Proc : RegionAt(p)

CallKept == \A p \in Proc : pc[p] = "assign2" => Reads(p) \/ Writes(p)

PlacesMatch ==
  WaitMatch /\ QueuesMatch /\ NextMatch /\ TargetMatch /\ CallKept
ListInv == PlacesMatch /\ RegionMatch /\ QueueStays

----------------------------------------------------------------------------
(* What a step leaves alone.                                               *)

\* The process chosen to be woken up sleeps on the other side of the queue.
LEMMA ChosenAsleep ==
  ASSUME TypeOK, QueuesMatch, CallKept, NEW p \in Proc, Chosen(p)
  PROVE  pc[p] \in ListSleep
<1>1. PICK w \in Proc : /\ pc[w] = "assign2"
                        /\ OtherSide(w) # <<>> /\ Head(OtherSide(w)) = p
  BY DEF Chosen
<1>2. op[w].q \in Queue
  BY <1>1, OtherSideType DEF CallKept
<1>3. OtherSide(w) \in Seq(Proc)
  BY <1>2 DEF TypeOK, OtherSide
<1>4. IsOn(OtherSide(w), p)
  BY <1>1, <1>3 DEF IsOn
<1> QED
  BY <1>2, <1>4 DEF OtherSide, QueuesMatch, ListSleep

\* Only the owner of q_spb chooses.
LEMMA NobodyChosen ==
  ASSUME QueueMutex, NEW p \in Proc, sy_owner = p, pc[p] # "assign2"
  PROVE  \A x : ~ Chosen(x)
  BY DEF QueueMutex, Chosen, InQueueCode

LEMMA ChosenSame ==
  ASSUME q_dq' = q_dq, q_nq' = q_nq,
         \A w \in Proc : (pc'[w] = "assign2") <=> (pc[w] = "assign2"),
         \A w \in Proc : pc[w] = "assign2" => op'[w] = op[w]
  PROVE  \A x \in Proc : Chosen(x)' <=> Chosen(x)
  BY DEF Chosen, OtherSide, Reads

LEMMA QueuesSame ==
  ASSUME QueuesMatch, q_dq' = q_dq, q_nq' = q_nq,
         \A x \in Proc : pc'[x] \in ListSleep \/ pc[x] \in ListSleep
                           => pc'[x] = pc[x] /\ op'[x] = op[x]
  PROVE  QueuesMatch'
  BY DEF QueuesMatch, ListSleep

LEMMA TargetSame ==
  ASSUME TargetMatch, target' = target,
         \A x \in Proc : pc'[x] = "abort2" => pc[x] = "abort2",
         \A x \in Proc : pc[x] = "limbo" => pc'[x] = "limbo"
  PROVE  TargetMatch'
  BY DEF TargetMatch

\* A process that does not change its place in the regions.
LEMMA RegionSame ==
  ASSUME NEW x \in Proc, RegionAt(x), p_tkcnt'[x] = p_tkcnt[x],
         "tempkeep" \in p_flag'[x] <=> "tempkeep" \in p_flag[x],
         Chosen(x)' <=> Chosen(x),
         pc'[x] \in InsideAt <=> pc[x] \in InsideAt
  PROVE  RegionAt(x)'
  BY DEF RegionAt, Inside

\* Where a process has a queue that it found on the queue list.
UsesQueue == ListSleep \cup {"assigned", "transfer", "assign1", "assign2"}

LEMMA StaysSame ==
  ASSUME QueueStays, qlr \subseteq qlr',
         \A x \in Proc : pc'[x] \in UsesQueue
           => (pc[x] \in UsesQueue /\ op'[x] = op[x]) \/ op'[x].q \in qlr'
  PROVE  QueueStays'
  BY DEF QueueStays, UsesQueue

\* Where a process is on no list, is not being aborted and aborts nobody.
Free == PC \ (Asleep \cup {"limbo", "abort2"})

\* A step of p, which is on no list, to where it is on no list.
LEMMA QuietStep ==
  ASSUME TypeOK, PlacesMatch, NEW p \in Proc, NEW l, Goto(p, l),
         UNCHANGED <<sy_wait, sy_next, q_dq, q_nq, target>>,
         sy_owner' = sy_owner \/ sy_owner = NoProc,
         \A x \in Proc \ {p} : op'[x] = op[x],
         pc[p] \in Free, pc[p] # "unsync", l \in Free,
         l = "assign2" => (Reads(p) \/ Writes(p)) /\ op' = op
  PROVE  PlacesMatch'
<1> USE DEF Free, Asleep, SyncSleep, ListSleep
<1>1. pc' = [pc EXCEPT ![p] = l] /\ pc \in [Proc -> PC]
  BY DEF Goto, TypeOK
<1>2. WaitMatch'
  BY <1>1 DEF PlacesMatch, WaitMatch
<1>3. QueuesMatch'
  BY <1>1, QueuesSame DEF PlacesMatch
<1>4. NextMatch'
  BY <1>1, ProcAssumption DEF PlacesMatch, NextMatch
<1>5. TargetMatch'
  BY <1>1, TargetSame DEF PlacesMatch
<1>6. CallKept'
  BY <1>1 DEF PlacesMatch, CallKept, Reads, Writes
<1> QED
  BY <1>2, <1>3, <1>4, <1>5, <1>6 DEF PlacesMatch

\* The same, where p neither enters nor leaves a region and wakes nobody up.
LEMMA QuietRegion ==
  ASSUME TypeOK, RegionMatch, NEW p \in Proc, NEW l, Goto(p, l),
         UNCHANGED <<q_dq, q_nq, p_tkcnt>>,
         \A x \in Proc : "tempkeep" \in p_flag'[x] <=> "tempkeep" \in p_flag[x],
         \A x \in Proc \ {p} : op'[x] = op[x],
         pc[p] # "assign2", l # "assign2", l \in InsideAt <=> pc[p] \in InsideAt
  PROVE  RegionMatch'
<1>1. pc' = [pc EXCEPT ![p] = l] /\ pc \in [Proc -> PC]
  BY DEF Goto, TypeOK
<1>2. \A x \in Proc : Chosen(x)' <=> Chosen(x)
  BY <1>1, ChosenSame
<1>3. \A x \in Proc : pc'[x] \in InsideAt <=> pc[x] \in InsideAt
  BY <1>1
<1> SUFFICES ASSUME NEW x \in Proc PROVE RegionAt(x)'
  BY DEF RegionMatch
<1>4. RegionAt(x)
  BY DEF RegionMatch
<1> QED
  BY <1>2, <1>3, <1>4, RegionSame

----------------------------------------------------------------------------
(* Giving q_spb up wakes at most one process, which goes on where it was    *)
(* going.                                                                   *)

\* What waking x up does to its place.
WokenTo(x) ==
  \/ pc[x] = "syncwait" /\ pc'[x] = "body"
  \/ pc[x] = "tsyncwait" /\ pc'[x] = "rlsmx"
  \/ pc[x] = "assigned" /\ pc'[x] = "transfer"

LEMMA NewOwnerWaits ==
  ASSUME TypeOK, PlacesMatch, NewOwner # NoProc
  PROVE  /\ NewOwner \in Proc
         /\ pc[NewOwner] \in SyncSleep \cup {"assigned"}
<1>1. CASE sy_next # NoProc
  BY <1>1 DEF TypeOK, PlacesMatch, NextMatch, NewOwner
<1>2. CASE sy_next = NoProc
  <2>1. sy_wait # <<>> /\ NewOwner = Head(sy_wait) /\ sy_wait \in Seq(Proc)
    BY <1>2 DEF TypeOK, NewOwner
  <2>2. Head(sy_wait) \in Proc /\ IsOn(sy_wait, Head(sy_wait))
    BY <2>1, TailMembers DEF PlacesMatch, WaitMatch
  <2> QED
    BY <2>1, <2>2 DEF PlacesMatch, WaitMatch
<1> QED
  BY <1>1, <1>2

LEMMA WakesOne ==
  ASSUME TypeOK, PlacesMatch, NEW p \in Proc, NEW l, WakeAndGoto(p, l),
         pc[p] \in Free
  PROVE  /\ pc'[p] = l
         /\ \A x \in Proc \ {p} : pc'[x] = pc[x] \/ WokenTo(x)
         /\ \A x \in Proc \ {p} :
              pc'[x] = IF x = NewOwner THEN Awake(pc[x]) ELSE pc[x]
         /\ NewOwner # p
<1>1. NewOwner # p
  BY NewOwnerWaits, ProcAssumption DEF Free, Asleep
<1>2. \A x \in Proc \ {p} :
        pc'[x] = IF x = NewOwner THEN Awake(pc[x]) ELSE pc[x]
  BY DEF WakeAndGoto
<1>3. ASSUME NEW x \in Proc \ {p} PROVE pc'[x] = pc[x] \/ WokenTo(x)
  <2>1. CASE x = NewOwner
    <3>1. pc[x] \in SyncSleep \cup {"assigned"}
      BY <2>1, NewOwnerWaits, ProcAssumption
    <3> QED
      BY <1>2, <2>1, <3>1 DEF WokenTo, Awake, SyncSleep
  <2>2. CASE x # NewOwner
    BY <1>2, <2>2
  <2> QED
    BY <2>1, <2>2
<1> QED
  BY <1>1, <1>2, <1>3 DEF WakeAndGoto

\* A step in which the owner gives q_spb up and goes to l, which may be asleep
\* on a list of a queue: everything but those lists.
LEMMA WakeStep ==
  ASSUME TypeOK, PlacesMatch, NEW p \in Proc, NEW l, PassOwnership,
         WakeAndGoto(p, l), target' = target,
         \A x \in Proc \ {p} : op'[x] = op[x],
         pc[p] \in Free, l \in Free \cup ListSleep, l # "assign2"
  PROVE  WaitMatch' /\ NextMatch' /\ TargetMatch' /\ CallKept'
<1>1. /\ pc'[p] = l
      /\ \A x \in Proc \ {p} : pc'[x] = pc[x] \/ WokenTo(x)
      /\ \A x \in Proc \ {p} :
           pc'[x] = IF x = NewOwner THEN Awake(pc[x]) ELSE pc[x]
      /\ NewOwner # p
  BY WakesOne
<1> USE DEF Free, Asleep, SyncSleep, ListSleep
<1>2. WaitMatch'
  <2>1. CASE sy_next = NoProc /\ sy_wait # <<>>
    <3>1. sy_wait' = Tail(sy_wait) /\ NewOwner = Head(sy_wait)
      BY <2>1 DEF PassOwnership, NewOwner
    <3>2. /\ \A x : IsOn(sy_wait', x) <=> x # NewOwner /\ IsOn(sy_wait, x)
          /\ Distinct(sy_wait')
      BY <2>1, <3>1, TailMembers DEF TypeOK, PlacesMatch, WaitMatch
    <3>3. \A x \in Proc : IsOn(sy_wait, x) <=> pc[x] \in SyncSleep
      BY DEF PlacesMatch, WaitMatch
    <3>4. ASSUME NEW x \in Proc
          PROVE  IsOn(sy_wait', x) <=> pc'[x] \in SyncSleep
      <4>1. CASE x = p
        BY <1>1, <3>2, <3>3, <4>1
      <4>2. CASE x = NewOwner
        BY <1>1, <3>2, <4>2 DEF Awake
      <4>3. CASE x # p /\ x # NewOwner
        BY <1>1, <3>2, <3>3, <4>3
      <4> QED
        BY <4>1, <4>2, <4>3
    <3> QED
      BY <3>2, <3>4 DEF WaitMatch
  <2>2. CASE ~(sy_next = NoProc /\ sy_wait # <<>>)
    <3>1. sy_wait' = sy_wait
      BY <2>2 DEF PassOwnership
    <3>2. \A x \in Proc : x = NewOwner => pc[x] = "assigned"
      BY <2>2, ProcAssumption DEF PlacesMatch, NextMatch, NewOwner
    <3>3. \A x \in Proc : pc'[x] \in SyncSleep <=> pc[x] \in SyncSleep
      BY <1>1, <3>2 DEF Awake
    <3> QED
      BY <3>1, <3>3 DEF PlacesMatch, WaitMatch
  <2> QED
    BY <2>1, <2>2
<1>3. NextMatch'
  <2>1. sy_next' = NoProc
    BY DEF PassOwnership
  <2>2. ASSUME NEW x \in Proc PROVE pc'[x] # "assigned"
    <3>1. CASE x = p
      BY <1>1, <3>1
    <3>2. CASE x # p /\ pc[x] = "assigned"
      <4>1. x = NewOwner
        BY <3>2, ProcAssumption DEF PlacesMatch, NextMatch, NewOwner
      <4> QED
        BY <1>1, <3>2, <4>1 DEF Awake
    <3>3. CASE x # p /\ pc[x] # "assigned"
      BY <1>1, <3>3 DEF WokenTo
    <3> QED
      BY <3>1, <3>2, <3>3
  <2> QED
    BY <2>1, <2>2, ProcAssumption DEF NextMatch
<1>4. TargetMatch'
  <2>1. \A x \in Proc : pc'[x] = "abort2" => pc[x] = "abort2"
    BY <1>1 DEF WokenTo
  <2>2. \A x \in Proc : pc[x] = "limbo" => pc'[x] = "limbo"
    BY <1>1 DEF WokenTo
  <2> QED
    BY <2>1, <2>2, TargetSame DEF PlacesMatch
<1>5. CallKept'
  <2>1. \A x \in Proc : pc'[x] = "assign2" => pc[x] = "assign2" /\ x # p
    BY <1>1 DEF WokenTo
  <2> QED
    BY <2>1 DEF PlacesMatch, CallKept, Reads, Writes
<1> QED
  BY <1>2, <1>3, <1>4, <1>5

\* unsync_entry by a process that then is on no list.
LEMMA UnsyncStep ==
  ASSUME TypeOK, QueueMutex, ListInv, NEW p \in Proc, NEW l,
         UnsyncAndGoto(p, l), UNCHANGED <<queueVars, flagVars, op, target>>,
         pc[p] \in Free \ {"assign2"}, l \in Free \ (UsesQueue \cup {"unsync"}),
         pc[p] = "unsync" => sy_owner = p,
         l \in InsideAt <=> pc[p] \in InsideAt
  PROVE  ListInv'
<1>1. CASE sy_owner = p
  <2>1. PassOwnership /\ WakeAndGoto(p, l)
    BY <1>1 DEF UnsyncAndGoto
  <2>2. /\ pc'[p] = l
        /\ \A x \in Proc \ {p} : pc'[x] = pc[x] \/ WokenTo(x)
    BY <2>1, WakesOne DEF ListInv
  <2>3. q_dq' = q_dq /\ q_nq' = q_nq /\ op' = op /\ target' = target /\ qlr' = qlr
        /\ p_tkcnt' = p_tkcnt /\ p_flag' = p_flag
    BY DEF queueVars, flagVars
  <2>4. WaitMatch' /\ NextMatch' /\ TargetMatch' /\ CallKept'
    BY <2>1, <2>3, WakeStep DEF ListInv, UsesQueue
  <2>5. \A x \in Proc : pc'[x] \in ListSleep <=> pc[x] \in ListSleep
    BY <2>2 DEF WokenTo, Free, Asleep, ListSleep
  <2>6. \A x \in Proc : pc'[x] \in ListSleep => pc'[x] = pc[x]
    BY <2>2, <2>5 DEF WokenTo, ListSleep, UsesQueue
  <2>7. QueuesMatch'
    BY <2>3, <2>5, <2>6, QueuesSame DEF ListInv, PlacesMatch
  <2>8. \A x \in Proc : (pc'[x] = "assign2") <=> (pc[x] = "assign2")
    BY <2>2 DEF WokenTo, UsesQueue
  <2>9. \A x \in Proc : Chosen(x)' <=> Chosen(x)
    BY <2>3, <2>8, ChosenSame
  <2>10. \A x \in Proc : pc'[x] \in InsideAt <=> pc[x] \in InsideAt
    BY <2>2 DEF WokenTo, InsideAt, InQueueCode
  <2>11. RegionMatch'
    <3> SUFFICES ASSUME NEW x \in Proc PROVE RegionAt(x)'
      BY DEF RegionMatch
    <3>1. RegionAt(x)
      BY DEF ListInv, RegionMatch
    <3> QED
      BY <2>3, <2>9, <2>10, <3>1, RegionSame
  <2>12. \A x \in Proc : pc'[x] \in UsesQueue => pc[x] \in UsesQueue
    BY <2>2 DEF WokenTo, UsesQueue, ListSleep
  <2>13. QueueStays'
    BY <2>3, <2>12, StaysSame DEF ListInv
  <2> QED
    BY <2>4, <2>7, <2>11, <2>13 DEF ListInv, PlacesMatch
<1>2. CASE sy_owner # p
  <2>1. Goto(p, l) /\ UNCHANGED syncVars
    BY <1>2 DEF UnsyncAndGoto
  <2>2. UNCHANGED <<sy_owner, sy_wait, sy_next, q_dq, q_nq, target, op, qlr,
                    p_tkcnt, p_flag>>
    BY <2>1 DEF syncVars, queueVars, flagVars
  <2>3. PlacesMatch'
    BY <1>2, <2>1, <2>2, QuietStep DEF ListInv, UsesQueue
  <2>4. RegionMatch'
    BY <2>1, <2>2, QuietRegion DEF ListInv, UsesQueue
  <2>5. QueueStays'
    <3>1. pc' = [pc EXCEPT ![p] = l] /\ pc \in [Proc -> PC]
      BY <2>1 DEF Goto, TypeOK
    <3> QED
      BY <2>2, <3>1, StaysSame DEF ListInv
  <2> QED
    BY <2>3, <2>4, <2>5 DEF ListInv
<1> QED
  BY <1>1, <1>2

----------------------------------------------------------------------------
(* The steps of the processes.                                             *)

\* A step of p alone that changes neither lists nor regions.
LEMMA LocalStep ==
  ASSUME TypeOK, ListInv, NEW p \in Proc, NEW l, Goto(p, l),
         UNCHANGED <<sy_owner, sy_wait, sy_next, q_dq, q_nq, p_tkcnt, target>>,
         qlr \subseteq qlr',
         \A x \in Proc : "tempkeep" \in p_flag'[x] <=> "tempkeep" \in p_flag[x],
         \A x \in Proc \ {p} : op'[x] = op[x],
         pc[p] \in Free \ {"unsync", "assign2"}, l \in Free \ {"assign2"},
         l \in InsideAt <=> pc[p] \in InsideAt,
         l \in UsesQueue => op'[p].q \in qlr'
  PROVE  ListInv'
<1>1. PlacesMatch'
  BY QuietStep DEF ListInv
<1>2. RegionMatch'
  BY QuietRegion DEF ListInv
<1>3. QueueStays'
  <2>1. pc' = [pc EXCEPT ![p] = l] /\ pc \in [Proc -> PC]
    BY DEF Goto, TypeOK
  <2> QED
    BY <2>1, StaysSame DEF ListInv
<1> QED
  BY <1>1, <1>2, <1>3 DEF ListInv

\* sync_entry: p owns q_spb or goes on its list.
LEMMA SyncOrSleepStep ==
  ASSUME TypeOK, ListInv, NEW p \in Proc, NEW l, NEW a \in SyncSleep,
         SyncOrSleep(p, l, a), UNCHANGED <<sy_next, queueVars, flagVars, op, target>>,
         pc[p] \in Free \ {"unsync", "assign2"},
         l \in Free \ UsesQueue, l \in InsideAt <=> pc[p] \in InsideAt,
         a \in InsideAt <=> pc[p] \in InsideAt
  PROVE  ListInv'
<1>1. UNCHANGED <<sy_next, q_dq, q_nq, qlr, p_tkcnt, p_flag, op, target>>
  BY DEF queueVars, flagVars
<1>2. QueueStays' /\ \A x \in Proc : Chosen(x)' <=> Chosen(x)
  <2>1. (Goto(p, l) \/ Goto(p, a)) /\ pc \in [Proc -> PC]
    BY DEF SyncOrSleep, TypeOK
  <2>2. l \notin UsesQueue /\ a \notin UsesQueue
    BY DEF UsesQueue, SyncSleep, ListSleep
  <2>3. \A x \in Proc : pc'[x] \in UsesQueue => pc[x] \in UsesQueue
    BY <2>1, <2>2 DEF Goto
  <2>4. \A x \in Proc : (pc'[x] = "assign2") <=> (pc[x] = "assign2")
    BY <2>1, <2>2 DEF Goto, UsesQueue
  <2> QED
    BY <1>1, <2>3, <2>4, StaysSame, ChosenSame DEF ListInv
<1>3. RegionMatch'
  <2>1. \A x \in Proc : pc'[x] \in InsideAt <=> pc[x] \in InsideAt
    BY DEF SyncOrSleep, Goto, TypeOK
  <2>2. \A x \in Proc : RegionAt(x)
    BY DEF ListInv, RegionMatch
  <2>3. ASSUME NEW x \in Proc PROVE RegionAt(x)'
    BY <1>1, <1>2, <2>1, <2>2, RegionSame
  <2> QED
    BY <2>3 DEF RegionMatch
<1>4. CASE sy_owner \in {NoProc, p}
  <2>1. Goto(p, l) /\ UNCHANGED sy_wait /\ sy_owner' = p
    BY <1>4 DEF SyncOrSleep
  <2>2. PlacesMatch'
    BY <1>1, <1>4, <2>1, QuietStep DEF ListInv, UsesQueue
  <2> QED
    BY <1>2, <1>3, <2>2 DEF ListInv
<1>5. CASE sy_owner \notin {NoProc, p}
  <2>1. Goto(p, a) /\ sy_owner' = sy_owner /\ sy_wait' = InsertProcess(sy_wait, p)
    BY <1>5 DEF SyncOrSleep
  <2>2. pc' = [pc EXCEPT ![p] = a] /\ pc \in [Proc -> PC] /\ sy_wait \in Seq(Proc)
    BY <2>1 DEF Goto, TypeOK
  <2> USE DEF Free, Asleep, SyncSleep, ListSleep
  <2>3. WaitMatch'
    <3>1. /\ \A x : IsOn(sy_wait', x) <=> x = p \/ IsOn(sy_wait, x)
          /\ Distinct(sy_wait) /\ ~ IsOn(sy_wait, p) => Distinct(sy_wait')
      BY <2>1, <2>2, InsertMembers
    <3>2. ~ IsOn(sy_wait, p)
      BY DEF ListInv, PlacesMatch, WaitMatch
    <3> QED
      BY <2>2, <3>1, <3>2 DEF ListInv, PlacesMatch, WaitMatch
  <2>4. QueuesMatch'
    BY <1>1, <2>2, QueuesSame DEF ListInv, PlacesMatch
  <2>5. NextMatch'
    BY <1>1, <2>1, <2>2 DEF ListInv, PlacesMatch, NextMatch
  <2>6. TargetMatch'
    BY <1>1, <2>2, TargetSame DEF ListInv, PlacesMatch
  <2>7. CallKept'
    BY <1>1, <2>2 DEF ListInv, PlacesMatch, CallKept, Reads, Writes
  <2> QED
    BY <1>2, <1>3, <2>3, <2>4, <2>5, <2>6, <2>7 DEF ListInv, PlacesMatch
<1> QED
  BY <1>4, <1>5

\* no_abort_entry by p for itself.
LEMMA NoAbortStep ==
  ASSUME TypeOK, ListInv, NEW p \in Proc, NoAbort(p)
  PROVE  ListInv'
<1>1. /\ pc[p] = "noabort" /\ Goto(p, "sync")
      /\ pc' = [pc EXCEPT ![p] = "sync"] /\ pc \in [Proc -> PC]
      /\ UNCHANGED <<sy_owner, sy_wait, sy_next, q_dq, q_nq, qlr, op, target>>
      /\ p_tkcnt' = [p_tkcnt EXCEPT ![p] = TkcntAfterNoAbort(p)]
      /\ p_flag' = [p_flag EXCEPT ![p] = @ \cup {"tempkeep"}]
      /\ DOMAIN p_tkcnt = Proc /\ DOMAIN p_flag = Proc
  BY DEF NoAbort, NoAbortOn, Goto, TypeOK, syncVars, queueVars
<1>2. PlacesMatch'
  BY <1>1, QuietStep, PcLabels DEF ListInv, Free, Asleep, SyncSleep, ListSleep
<1>3. QueueStays'
  BY <1>1, StaysSame DEF ListInv, UsesQueue, ListSleep
<1>4. ASSUME NEW x \in Proc PROVE RegionAt(x)'
  <2>1. RegionAt(x) /\ (Chosen(x)' <=> Chosen(x))
    BY <1>1, ChosenSame DEF ListInv, RegionMatch
  <2>2. CASE x # p
    BY <1>1, <2>1, <2>2, RegionSame
  <2>3. CASE x = p
    <3>1. ~ Inside(p)
      BY <1>1, ChosenAsleep
         DEF Inside, InsideAt, InQueueCode, ListInv, PlacesMatch, ListSleep
    <3>2. Inside(p)'
      BY <1>1 DEF Inside, InsideAt
    <3>3. p_tkcnt[p].cnt = 0 /\ p_flag[p] \cap {"tempkeep"} = PFlags[p] \cap {"tempkeep"}
      BY <2>1, <2>3, <3>1 DEF RegionAt
    <3>4. TkcntAfterNoAbort(p) = [cnt |-> 1, saved |-> PFlags[p] \cap {"tempkeep"}]
      BY <3>3, RegionEntered
    <3>5. /\ p_tkcnt'[p] = TkcntAfterNoAbort(p)
          /\ "tempkeep" \in p_flag'[p]
      BY <1>1
    <3> QED
      BY <2>3, <3>2, <3>4, <3>5 DEF RegionAt
  <2> QED
    BY <2>2, <2>3
<1> QED
  BY <1>2, <1>3, <1>4 DEF ListInv, RegionMatch

\* ok_abort_entry by p.
LEMMA OkAbortStep ==
  ASSUME TypeOK, ListInv, NEW p \in Proc, OkAbort(p)
  PROVE  ListInv'
<1>1. /\ pc[p] = "okabort" /\ pc \in [Proc -> PC]
      /\ UNCHANGED <<sy_owner, sy_wait, sy_next, q_dq, q_nq, qlr, target>>
      /\ p_tkcnt' = [p_tkcnt EXCEPT ![p] = TkcntAfterOkAbort(p)]
      /\ \A x \in Proc \ {p} : op'[x] = op[x] /\ p_flag'[x] = p_flag[x]
      /\ DOMAIN p_tkcnt = Proc /\ DOMAIN p_flag = Proc
  BY DEF OkAbort, Return, TypeOK, syncVars, queueVars
<1>2. PICK l \in {"okabort2", "rlsmx", "user"} : Goto(p, l)
  BY DEF OkAbort, Return
<1>3. pc' = [pc EXCEPT ![p] = l]
  BY <1>2 DEF Goto
<1>4. PlacesMatch'
  BY <1>1, <1>2, QuietStep, PcLabels DEF ListInv, Free, Asleep, SyncSleep, ListSleep
<1>5. QueueStays'
  BY <1>1, <1>3, StaysSame DEF ListInv, UsesQueue, ListSleep
<1>6. \A x \in Proc : Chosen(x)' <=> Chosen(x)
  BY <1>1, <1>3, ChosenSame
<1>7. ASSUME NEW x \in Proc PROVE RegionAt(x)'
  <2>1. RegionAt(x)
    BY DEF ListInv, RegionMatch
  <2>2. CASE x # p
    BY <1>1, <1>3, <1>6, <2>1, <2>2, RegionSame
  <2>3. CASE x = p
    <3>1. Inside(p)
      BY <1>1 DEF Inside, InsideAt
    <3>2. ~ Inside(p)'
      <4>1. ~ Chosen(p)
        BY <1>1, ChosenAsleep DEF ListInv, PlacesMatch, ListSleep
      <4> QED
        BY <1>1, <1>3, <1>6, <4>1 DEF Inside, InsideAt, InQueueCode
    <3>3. /\ p_tkcnt[p].cnt = 1 /\ "tempkeep" \in p_flag[p]
          /\ p_tkcnt[p].saved = PFlags[p] \cap {"tempkeep"}
      BY <2>1, <2>3, <3>1 DEF RegionAt
    <3>4. p_tkcnt'[p] = [cnt |-> 0, saved |-> {}]
      BY <1>1, <3>3 DEF TkcntAfterOkAbort
    <3>5. "tempkeep" \in p_flag'[p] <=> "tempkeep" \in PFlags[p]
      BY <1>1, <3>3 DEF OkAbort, LeavesRegion
    <3> QED
      BY <2>3, <3>2, <3>4, <3>5 DEF RegionAt
  <2> QED
    BY <2>2, <2>3
<1> QED
  BY <1>4, <1>5, <1>7 DEF ListInv, RegionMatch

\* The queue made is not on the queue list, so nobody waits for it.
LEMMA MakeQStep ==
  ASSUME TypeOK, ListInv, NEW p \in Proc, MakeQ(p)
  PROVE  ListInv'
<1> DEFINE q == op[p].q
<1>1. /\ pc[p] = "body" /\ Goto(p, "unsync") /\ q \in Queue
      /\ UNCHANGED <<sy_owner, sy_wait, sy_next, p_tkcnt, p_flag, op, target>>
      /\ qlr \subseteq qlr'
  BY DEF MakeQ, syncVars, flagVars, TypeOK, Op, NoOp
<1>2. q_dq' = q_dq /\ q_nq' = q_nq
  <2>1. CASE UNCHANGED <<q_dq, q_nq>>
    BY <2>1
  <2>2. CASE /\ q \notin qlr
             /\ q_dq' = [q_dq EXCEPT ![q] = <<>>]
             /\ q_nq' = [q_nq EXCEPT ![q] = <<>>]
    <3>1. \A x \in Proc : ~ IsOn(q_dq[q], x) /\ ~ IsOn(q_nq[q], x)
      BY <1>1, <2>2 DEF ListInv, PlacesMatch, QueuesMatch, QueueStays, ListSleep
    <3>2. ASSUME NEW list \in Seq(Proc), list # <<>>
          PROVE  Head(list) \in Proc /\ IsOn(list, Head(list))
      BY <3>2 DEF IsOn
    <3>3. /\ q_dq \in [Queue -> Seq(Proc)] /\ q_nq \in [Queue -> Seq(Proc)]
          /\ q_dq[q] \in Seq(Proc) /\ q_nq[q] \in Seq(Proc)
      BY <1>1 DEF TypeOK
    <3>4. q_dq[q] = <<>> /\ q_nq[q] = <<>>
      BY <3>1, <3>2, <3>3
    <3> HIDE DEF q
    <3> QED
      BY <1>1, <2>2, <3>3, <3>4
  <2> QED
    BY <2>1, <2>2 DEF MakeQ
<1> QED
  BY <1>1, <1>2, LocalStep, PcLabels
     DEF Free, Asleep, SyncSleep, ListSleep, UsesQueue, InsideAt, InQueueCode

\* The queue deleted has nobody waiting for it, and no other process uses it.
LEMMA DeleteQStep ==
  ASSUME TypeOK, QueueMutex, ListInv, NEW p \in Proc, DeleteQ(p)
  PROVE  ListInv'
<1> DEFINE q == op[p].q
<1>1. /\ pc[p] = "body" /\ Goto(p, "unsync") /\ q \in Queue
      /\ UNCHANGED <<sy_owner, sy_wait, sy_next, p_tkcnt, p_flag, op, target>>
      /\ UNCHANGED <<q_dq, q_nq>>
      /\ qlr' = IF q_dq[q] = <<>> /\ q_nq[q] = <<>> THEN qlr \ {q} ELSE qlr
      /\ pc' = [pc EXCEPT ![p] = "unsync"] /\ pc \in [Proc -> PC]
  BY DEF DeleteQ, syncVars, flagVars, TypeOK, Op, NoOp, Goto
<1>2. PlacesMatch' /\ RegionMatch'
  BY <1>1, QuietStep, QuietRegion, PcLabels
     DEF ListInv, Free, Asleep, SyncSleep, ListSleep, InsideAt, InQueueCode
<1>3. QueueStays'
  <2> SUFFICES ASSUME NEW x \in Proc, pc'[x] \in UsesQueue
               PROVE  op[x].q \in qlr'
    BY <1>1 DEF QueueStays, UsesQueue
  <2>1. x # p /\ pc[x] \in UsesQueue /\ op[x].q \in qlr
    BY <1>1 DEF UsesQueue, ListSleep, ListInv, QueueStays
  <2>2. sy_owner = p
    BY <1>1 DEF QueueMutex, InQueueCode
  <2>3. pc[x] \in ListSleep
    <3>1. pc[x] # "assigned"
      BY <1>1, <2>2, ProcAssumption DEF ListInv, PlacesMatch, NextMatch
    <3>2. pc[x] \notin {"transfer", "assign1", "assign2"}
      BY <2>1, <2>2 DEF QueueMutex, InQueueCode
    <3> QED
      BY <2>1, <3>1, <3>2 DEF UsesQueue
  <2>4. CASE op[x].q = q
    <3>1. IsOn(q_dq[q], x) \/ IsOn(q_nq[q], x)
      BY <1>1, <2>3, <2>4 DEF ListInv, PlacesMatch, QueuesMatch, ListSleep
    <3>2. q_dq[q] # <<>> \/ q_nq[q] # <<>>
      BY <3>1, EmptyMembers
    <3> QED
      BY <1>1, <2>1, <3>2
  <2> QED
    BY <1>1, <2>1, <2>4
<1> QED
  BY <1>2, <1>3 DEF ListInv

\* q_assign_sync keeps the process it is to wake up from being aborted.
LEMMA Assign1Step ==
  ASSUME TypeOK, QueueMutex, ListInv, NEW p \in Proc, Assign1(p)
  PROVE  ListInv'
<1>1. /\ pc[p] = "assign1" /\ (Reads(p) \/ Writes(p)) /\ pc \in [Proc -> PC]
      /\ UNCHANGED <<sy_owner, sy_wait, sy_next, q_dq, q_nq, qlr, op, target>>
      /\ DOMAIN p_tkcnt = Proc /\ DOMAIN p_flag = Proc
  BY DEF Assign1, syncVars, queueVars, TypeOK
<1>2. CASE OtherSide(p) = <<>>
  <2>1. Goto(p, "unsync") /\ UNCHANGED <<p_tkcnt, p_flag>>
    BY <1>2 DEF Assign1, flagVars
  <2> QED
    BY <1>1, <2>1, LocalStep, PcLabels
       DEF Free, Asleep, SyncSleep, ListSleep, UsesQueue, InsideAt, InQueueCode
<1>3. CASE OtherSide(p) # <<>>
  <2> DEFINE h == Head(OtherSide(p))
  <2>1. /\ h \in Proc /\ Goto(p, "assign2") /\ pc' = [pc EXCEPT ![p] = "assign2"]
        /\ p_tkcnt' = [p_tkcnt EXCEPT ![h] = TkcntAfterNoAbort(h)]
        /\ p_flag' = [p_flag EXCEPT ![h] = @ \cup {"tempkeep"}]
    BY <1>1, <1>3, OtherSideType DEF Assign1, NoAbortOn, Goto
  <2>2. PlacesMatch'
    BY <1>1, <2>1, QuietStep, PcLabels DEF ListInv, Free, Asleep, SyncSleep, ListSleep
  <2>3. QueueStays'
    BY <1>1, <2>1, StaysSame DEF ListInv, UsesQueue
  <2>4. \A x \in Proc : ~ Chosen(x)
    BY <1>1, NobodyChosen DEF QueueMutex, InQueueCode
  <2>5. \A x \in Proc : Chosen(x)' <=> x = h
    <3>1. \A w \in Proc : pc'[w] = "assign2" <=> w = p
      BY <1>1, <2>1 DEF QueueMutex, InQueueCode
    <3>2. OtherSide(p)' = OtherSide(p)
      BY <1>1 DEF OtherSide, Reads
    <3> HIDE DEF h
    <3> QED
      BY <1>3, <3>1, <3>2 DEF Chosen, h
  <2>6. pc[h] \in ListSleep
    <3>1. IsOn(OtherSide(p), h) /\ op[p].q \in Queue
      BY <1>1, <1>3, OtherSideType DEF IsOn, OtherSide, TypeOK
    <3> HIDE DEF h
    <3> QED
      BY <2>1, <3>1 DEF OtherSide, ListInv, PlacesMatch, QueuesMatch, ListSleep
  <2> HIDE DEF h
  <2>7. ASSUME NEW x \in Proc PROVE RegionAt(x)'
    <3>1. RegionAt(x)
      BY DEF ListInv, RegionMatch
    <3>2. CASE x # h
      <4>1. pc'[x] \in InsideAt <=> pc[x] \in InsideAt
        BY <1>1, <2>1 DEF InsideAt, InQueueCode
      <4> QED
        BY <1>1, <2>1, <2>4, <2>5, <3>1, <3>2, <4>1, RegionSame
    <3>3. CASE x = h
      <4>1. ~ Inside(x) /\ Inside(x)'
        BY <2>1, <2>4, <2>5, <2>6, <3>3 DEF Inside, InsideAt, InQueueCode, ListSleep
      <4>2. p_tkcnt[x].cnt = 0
            /\ p_flag[x] \cap {"tempkeep"} = PFlags[x] \cap {"tempkeep"}
        BY <3>1, <4>1 DEF RegionAt
      <4>3. TkcntAfterNoAbort(x) = [cnt |-> 1, saved |-> PFlags[x] \cap {"tempkeep"}]
        BY <4>2, RegionEntered
      <4>4. /\ p_tkcnt'[x] = TkcntAfterNoAbort(x)
            /\ "tempkeep" \in p_flag'[x]
        BY <1>1, <2>1, <3>3
      <4> QED
        BY <4>1, <4>3, <4>4 DEF RegionAt
    <3> QED
      BY <3>2, <3>3
  <2> QED
    BY <2>2, <2>3, <2>7 DEF ListInv, RegionMatch
<1> QED
  BY <1>2, <1>3

\* assign_sync_entry takes the first process off the list.
LEMMA Assign2Step ==
  ASSUME TypeOK, QueueMutex, ListInv, NEW p \in Proc, Assign2(p)
  PROVE  ListInv'
<1> DEFINE q == op[p].q
           h == Head(OtherSide(p))
<1>1. /\ pc[p] = "assign2" /\ (Reads(p) \/ Writes(p)) /\ pc \in [Proc -> PC]
      /\ sy_owner = p /\ q \in Queue
      /\ UNCHANGED <<sy_owner, sy_wait, qlr, p_tkcnt, p_flag, op, target>>
      /\ \A w \in Proc : pc[w] = "assign2" <=> w = p
  BY OtherSideType DEF Assign2, QueueMutex, InQueueCode, flagVars, TypeOK
<1>2. \A x \in Proc : Chosen(x) <=> OtherSide(p) # <<>> /\ x = h
  BY <1>1 DEF Chosen
<1>3. sy_next = NoProc
  BY <1>1 DEF ListInv, PlacesMatch, NextMatch
<1>4. CASE OtherSide(p) = <<>>
  <2>1. /\ pc' = [pc EXCEPT ![p] = "unsync"]
        /\ UNCHANGED <<sy_next, q_dq, q_nq>>
    BY <1>4 DEF Assign2, Goto
  <2>2. PlacesMatch'
    BY <1>1, <2>1, QuietStep, PcLabels
       DEF ListInv, Free, Asleep, SyncSleep, ListSleep, Goto
  <2>3. QueueStays'
    BY <1>1, <2>1, StaysSame DEF ListInv, UsesQueue
  <2>4. \A x \in Proc : ~ Chosen(x)'
    <3>1. \A w \in Proc : pc'[w] # "assign2"
      BY <1>1, <2>1
    <3> QED
      BY <3>1 DEF Chosen
  <2>5. ASSUME NEW x \in Proc PROVE RegionAt(x)'
    <3>1. pc'[x] \in InsideAt <=> pc[x] \in InsideAt
      BY <1>1, <2>1 DEF InsideAt, InQueueCode
    <3>2. RegionAt(x)
      BY DEF ListInv, RegionMatch
    <3> QED
      BY <1>1, <1>2, <1>4, <2>4, <3>1, <3>2, RegionSame
  <2> QED
    BY <2>2, <2>3, <2>5 DEF ListInv, RegionMatch
<1>5. CASE OtherSide(p) # <<>>
  <2>1. OtherSide(p) \in Seq(Proc) /\ h \in Proc
    BY <1>1, <1>5, OtherSideType DEF OtherSide, TypeOK
  <2>2. /\ \A x : IsOn(Tail(OtherSide(p)), x) <=> x # h /\ IsOn(OtherSide(p), x)
        /\ Distinct(Tail(OtherSide(p))) /\ IsOn(OtherSide(p), h)
    <3>1. Distinct(OtherSide(p))
      BY <1>1 DEF OtherSide, ListInv, PlacesMatch, QueuesMatch
    <3> QED
      BY <1>5, <2>1, <3>1, TailMembers
  <2>3. /\ sy_next' = h
        /\ pc' = [pc EXCEPT ![p] = "unsync", ![h] = "assigned"]
        /\ IF Reads(p)
           THEN q_nq' = [q_nq EXCEPT ![q] = Tail(OtherSide(p))] /\ q_dq' = q_dq
           ELSE q_dq' = [q_dq EXCEPT ![q] = Tail(OtherSide(p))] /\ q_nq' = q_nq
    BY <1>1, <1>5 DEF Assign2, OtherSide
  <2>4. pc[h] = (IF Reads(p) THEN "nqwait" ELSE "dqwait") /\ op[h].q = q
    BY <1>1, <2>1, <2>2 DEF OtherSide, ListInv, PlacesMatch, QueuesMatch
  <2>5. /\ q_dq \in [Queue -> Seq(Proc)] /\ q_nq \in [Queue -> Seq(Proc)]
        /\ OtherSide(p) = IF Reads(p) THEN q_nq[q] ELSE q_dq[q]
    BY DEF TypeOK, OtherSide
  <2>6. /\ h # p
        /\ \A x \in Proc : pc'[x] = IF x = h THEN "assigned"
                                    ELSE IF x = p THEN "unsync" ELSE pc[x]
    BY <1>1, <2>1, <2>3, <2>4
  <2>7. QueuesMatch
    BY DEF ListInv, PlacesMatch
  <2> HIDE DEF q, h
  <2>8. WaitMatch'
    BY <1>1, <2>4, <2>6 DEF ListInv, PlacesMatch, WaitMatch, SyncSleep
  <2>9. QueuesMatch'
    <3> SUFFICES ASSUME NEW r \in Queue
                 PROVE  /\ Distinct(q_dq'[r]) /\ Distinct(q_nq'[r])
                        /\ \A x \in Proc :
                             /\ IsOn(q_dq'[r], x) <=> pc'[x] = "dqwait" /\ op[x].q = r
                             /\ IsOn(q_nq'[r], x) <=> pc'[x] = "nqwait" /\ op[x].q = r
      BY <1>1 DEF QueuesMatch
    <3>1. /\ Distinct(q_dq[r]) /\ Distinct(q_nq[r])
          /\ \A x \in Proc :
               /\ IsOn(q_dq[r], x) <=> pc[x] = "dqwait" /\ op[x].q = r
               /\ IsOn(q_nq[r], x) <=> pc[x] = "nqwait" /\ op[x].q = r
      BY <2>7 DEF QueuesMatch
    <3>2. CASE r # q
      <4>1. q_dq'[r] = q_dq[r] /\ q_nq'[r] = q_nq[r]
        BY <1>1, <2>3, <2>5, <3>2
      <4> QED
        BY <1>1, <2>4, <2>6, <3>1, <3>2, <4>1
    <3>3. CASE r = q /\ Reads(p)
      <4>1. q_dq'[r] = q_dq[r] /\ q_nq'[r] = Tail(OtherSide(p))
        BY <1>1, <2>3, <2>5, <3>3
      <4>2. \A x : IsOn(q_nq'[r], x) <=> x # h /\ IsOn(q_nq[r], x)
        BY <2>2, <2>5, <3>3, <4>1
      <4> QED
        BY <1>1, <2>2, <2>4, <2>6, <3>1, <3>3, <4>1, <4>2
    <3>4. CASE r = q /\ ~ Reads(p)
      <4>1. q_nq'[r] = q_nq[r] /\ q_dq'[r] = Tail(OtherSide(p))
        BY <1>1, <2>3, <2>5, <3>4
      <4>2. \A x : IsOn(q_dq'[r], x) <=> x # h /\ IsOn(q_dq[r], x)
        BY <2>2, <2>5, <3>4, <4>1
      <4> QED
        BY <1>1, <2>2, <2>4, <2>6, <3>1, <3>4, <4>1, <4>2
    <3> QED
      BY <3>2, <3>3, <3>4
  <2>10. NextMatch'
    <3>1. \A x \in Proc : pc[x] # "assigned"
      BY <1>3, ProcAssumption DEF ListInv, PlacesMatch, NextMatch
    <3> QED
      BY <1>1, <2>1, <2>3, <2>6, <3>1 DEF NextMatch
  <2>11. TargetMatch'
    <3>1. \A x \in Proc : pc'[x] = "abort2" => pc[x] = "abort2"
      BY <2>6
    <3>2. \A x \in Proc : pc[x] = "limbo" => pc'[x] = "limbo"
      BY <1>1, <2>4, <2>6
    <3> QED
      BY <1>1, <3>1, <3>2, TargetSame DEF ListInv, PlacesMatch
  <2>12. \A w \in Proc : pc'[w] # "assign2"
    BY <1>1, <2>6
  <2>13. CallKept' /\ \A x \in Proc : ~ Chosen(x)'
    BY <2>12 DEF CallKept, Chosen
  <2>14. QueueStays'
    <3>1. \A x \in Proc : pc'[x] \in UsesQueue => pc[x] \in UsesQueue
      BY <2>4, <2>6 DEF UsesQueue, ListSleep
    <3> QED
      BY <1>1, <3>1, StaysSame DEF ListInv
  <2>15. ASSUME NEW x \in Proc PROVE RegionAt(x)'
    <3>1. Inside(x)' <=> Inside(x)
      BY <1>1, <1>2, <1>5, <2>6, <2>13 DEF Inside, InsideAt, InQueueCode, h
    <3>2. RegionAt(x)
      BY DEF ListInv, RegionMatch
    <3> QED
      BY <1>1, <3>1, <3>2 DEF RegionAt
  <2> QED
    BY <2>8, <2>9, <2>10, <2>11, <2>13, <2>14, <2>15
       DEF ListInv, PlacesMatch, RegionMatch
<1> QED
  BY <1>4, <1>5

\* q_wait: p gives up q_spb, leaves its region and goes to sleep on the list of
\* its queue, or terminates.
LEMMA QWaitStep ==
  ASSUME TypeOK, QueueMutex, ListInv, NEW p \in Proc, QWait(p)
  PROVE  ListInv'
<1> DEFINE q == op[p].q
<1>1. /\ pc[p] = "body" /\ (Reads(p) \/ Writes(p)) /\ pc \in [Proc -> PC]
      /\ sy_owner = p /\ q \in Queue /\ q \in qlr /\ PassOwnership
      /\ UNCHANGED <<qlr, target>>
      /\ p_tkcnt' = [p_tkcnt EXCEPT ![p] = TkcntAfterOkAbort(p)]
      /\ DOMAIN p_tkcnt = Proc /\ DOMAIN p_flag = Proc
      /\ q_dq \in [Queue -> Seq(Proc)] /\ q_nq \in [Queue -> Seq(Proc)]
      /\ DOMAIN op = Proc
  BY OtherSideType DEF QWait, QueueMutex, InQueueCode, TypeOK
<1>2. /\ \A x \in Proc \ {p} : p_flag'[x] = p_flag[x] /\ op'[x] = op[x]
      /\ LeavesRegion(p) => p_flag'[p] = FlagsAfterCtlcTest(p_flag[p] \ {"tempkeep"})
      /\ ~ LeavesRegion(p) => p_flag'[p] = p_flag[p]
  BY <1>1 DEF QWait
<1>3. PICK l \in {"terminate", "dqwait", "nqwait"} :
        /\ WakeAndGoto(p, l)
        /\ l = "terminate" => UNCHANGED <<q_dq, q_nq>>
        /\ l = "dqwait" => /\ q_dq' = [q_dq EXCEPT ![q] = InsertProcess(@, p)]
                           /\ q_nq' = q_nq /\ op' = op
        /\ l = "nqwait" => /\ q_nq' = [q_nq EXCEPT ![q] = InsertProcess(@, p)]
                           /\ q_dq' = q_dq /\ op' = op
  BY DEF QWait
<1>4. /\ pc[p] \in Free /\ l \in Free \cup ListSleep /\ l # "assign2"
      /\ PlacesMatch /\ QueuesMatch
  BY <1>1, PcLabels DEF Free, Asleep, SyncSleep, ListSleep, ListInv, PlacesMatch
<1>5. /\ pc'[p] = l
      /\ \A x \in Proc \ {p} : pc'[x] = pc[x] \/ WokenTo(x)
  BY <1>3, <1>4, WakesOne
<1>6. WaitMatch' /\ NextMatch' /\ TargetMatch' /\ CallKept'
  BY <1>1, <1>2, <1>3, <1>4, WakeStep
<1>7. \A x \in Proc : ~ Chosen(x) /\ ~ Chosen(x)'
  <2>1. \A w \in Proc : pc[w] # "assign2"
    BY <1>1 DEF QueueMutex, InQueueCode
  <2>2. \A w \in Proc : pc'[w] # "assign2"
    BY <1>4, <1>5, <2>1 DEF WokenTo
  <2> QED
    BY <2>1, <2>2 DEF Chosen
<1>8. \A x \in Proc \ {p} :
        /\ pc'[x] \in ListSleep <=> pc[x] \in ListSleep
        /\ pc'[x] \in ListSleep => pc'[x] = pc[x]
        /\ pc'[x] \in UsesQueue => pc[x] \in UsesQueue
        /\ pc'[x] \in InsideAt <=> pc[x] \in InsideAt
  BY <1>5 DEF WokenTo, ListSleep, UsesQueue, InsideAt, InQueueCode
<1>9. QueueStays'
  <2>1. pc'[p] \in UsesQueue => op'[p].q \in qlr'
    BY <1>1, <1>3, <1>5 DEF UsesQueue, ListSleep
  <2> QED
    BY <1>1, <1>2, <1>8, <2>1, StaysSame DEF ListInv
<1>10. ASSUME NEW x \in Proc PROVE RegionAt(x)'
  <2>1. RegionAt(x)
    BY DEF ListInv, RegionMatch
  <2>2. CASE x # p
    BY <1>1, <1>2, <1>7, <1>8, <2>1, <2>2, RegionSame
  <2>3. CASE x = p
    <3>1. Inside(x) /\ ~ Inside(x)'
      BY <1>1, <1>5, <1>7, <2>3 DEF Inside, InsideAt, InQueueCode
    <3>2. /\ p_tkcnt[p].cnt = 1 /\ "tempkeep" \in p_flag[p]
          /\ p_tkcnt[p].saved = PFlags[p] \cap {"tempkeep"}
      BY <2>1, <2>3, <3>1 DEF RegionAt
    <3>3. p_tkcnt'[p] = [cnt |-> 0, saved |-> {}]
      BY <1>1, <3>2 DEF TkcntAfterOkAbort
    <3>4. \A flags : "tempkeep" \in FlagsAfterCtlcTest(flags) <=> "tempkeep" \in flags
      BY DEF FlagsAfterCtlcTest, FlagsAfterAbtChk, AbtChk
    <3>5. "tempkeep" \in p_flag'[p] <=> "tempkeep" \in PFlags[p]
      BY <1>2, <3>2, <3>4 DEF LeavesRegion
    <3> QED
      BY <2>3, <3>1, <3>3, <3>5 DEF RegionAt
  <2> QED
    BY <2>2, <2>3
<1>11. QueuesMatch'
  <2> SUFFICES ASSUME NEW r \in Queue
               PROVE  /\ Distinct(q_dq'[r]) /\ Distinct(q_nq'[r])
                      /\ \A x \in Proc :
                           /\ IsOn(q_dq'[r], x) <=> pc'[x] = "dqwait" /\ op'[x].q = r
                           /\ IsOn(q_nq'[r], x) <=> pc'[x] = "nqwait" /\ op'[x].q = r
    BY DEF QueuesMatch
  <2>1. /\ Distinct(q_dq[r]) /\ Distinct(q_nq[r])
        /\ \A x \in Proc :
             /\ IsOn(q_dq[r], x) <=> pc[x] = "dqwait" /\ op[x].q = r
             /\ IsOn(q_nq[r], x) <=> pc[x] = "nqwait" /\ op[x].q = r
    BY <1>4 DEF QueuesMatch
  <2>2. /\ ~ IsOn(q_dq[r], p) /\ ~ IsOn(q_nq[r], p)
        /\ q_dq[r] \in Seq(Proc) /\ q_nq[r] \in Seq(Proc)
    BY <1>1, <2>1
  <2>3. ASSUME NEW x \in Proc \ {p}
        PROVE  /\ IsOn(q_dq[r], x) <=> pc'[x] = "dqwait" /\ op'[x].q = r
               /\ IsOn(q_nq[r], x) <=> pc'[x] = "nqwait" /\ op'[x].q = r
    BY <1>2, <1>8, <2>1 DEF ListSleep
  <2>4. /\ \A x : IsOn(InsertProcess(q_dq[r], p), x) <=> x = p \/ IsOn(q_dq[r], x)
        /\ \A x : IsOn(InsertProcess(q_nq[r], p), x) <=> x = p \/ IsOn(q_nq[r], x)
        /\ Distinct(InsertProcess(q_dq[r], p))
        /\ Distinct(InsertProcess(q_nq[r], p))
    BY <2>1, <2>2, InsertMembers
  <2> HIDE DEF q
  <2>5. /\ q_dq'[r] = IF l = "dqwait" /\ r = q THEN InsertProcess(q_dq[r], p)
                                               ELSE q_dq[r]
        /\ q_nq'[r] = IF l = "nqwait" /\ r = q THEN InsertProcess(q_nq[r], p)
                                               ELSE q_nq[r]
    BY <1>1, <1>3
  <2>6. Distinct(q_dq'[r]) /\ Distinct(q_nq'[r])
    BY <2>1, <2>4, <2>5
  <2>7. l # "terminate" => op'[p].q = q
    BY <1>3 DEF q
  <2>8. ASSUME NEW x \in Proc
        PROVE  /\ IsOn(q_dq'[r], x) <=> pc'[x] = "dqwait" /\ op'[x].q = r
               /\ IsOn(q_nq'[r], x) <=> pc'[x] = "nqwait" /\ op'[x].q = r
    <3>1. CASE x = p
      BY <1>5, <2>2, <2>4, <2>5, <2>7, <3>1
    <3>2. CASE x # p
      BY <2>3, <2>4, <2>5, <3>2
    <3> QED
      BY <3>1, <3>2
  <2> QED
    BY <2>6, <2>8
<1> QED
  BY <1>6, <1>9, <1>10, <1>11 DEF ListInv, PlacesMatch, RegionMatch

\* abort_spec_entry: the process found is in no region, so it is not the one
\* that is about to be woken up, and it is taken off the one list it is on.
LEMMA AbortSpecStep ==
  ASSUME TypeOK, QueueMutex, ListInv, NEW p \in Proc, AbortSpec(p)
  PROVE  ListInv'
<1>1. PICK t \in Proc \ {p}, sure \in BOOLEAN :
        LET flags == p_flag[t] \cup {"ctlc"}
            found == AbtChk(flags, sure) = "ok" /\ OnItsList(t)
        IN  /\ pc[t] # "dead"
            /\ p_flag' = [p_flag EXCEPT ![t] = FlagsAfterAbtChk(flags, sure)]
            /\ \/ ~found /\ UNCHANGED <<sy_wait, q_dq, q_nq, pc, op, target>>
               \/ /\ found
                  /\ TakeOff(t)
                  /\ pc' = [pc EXCEPT ![p] = "abort2", ![t] = "limbo"]
                  /\ op' = [op EXCEPT ![t] = NoOp]
                  /\ target' = [target EXCEPT ![p] = t, ![t] = NoProc]
  BY DEF AbortSpec
<1>2. /\ pc[p] = "user" /\ pc \in [Proc -> PC]
      /\ UNCHANGED <<sy_owner, sy_next, qlr, p_tkcnt>>
      /\ DOMAIN p_flag = Proc /\ DOMAIN op = Proc /\ DOMAIN target = Proc
      /\ q_dq \in [Queue -> Seq(Proc)] /\ q_nq \in [Queue -> Seq(Proc)]
      /\ sy_wait \in Seq(Proc)
  BY DEF AbortSpec, TypeOK
<1>3. \A x \in Proc : "tempkeep" \in p_flag'[x] <=> "tempkeep" \in p_flag[x]
  <2>1. "tempkeep" \in FlagsAfterAbtChk(p_flag[t] \cup {"ctlc"}, sure)
          <=> "tempkeep" \in p_flag[t]
    BY DEF FlagsAfterAbtChk, AbtChk
  <2> QED
    BY <1>1, <1>2, <2>1
<1>4. CASE UNCHANGED <<sy_wait, q_dq, q_nq, pc, op, target>>
  <2>1. Goto(p, "user") /\ "user" \in Free /\ "user" \notin UsesQueue
    BY <1>2, <1>4, PcLabels
       DEF Goto, Free, Asleep, SyncSleep, ListSleep, UsesQueue
  <2> QED
    BY <1>2, <1>3, <1>4, <2>1, LocalStep
<1>5. CASE /\ AbtChk(p_flag[t] \cup {"ctlc"}, sure) = "ok" /\ OnItsList(t)
           /\ TakeOff(t)
           /\ pc' = [pc EXCEPT ![p] = "abort2", ![t] = "limbo"]
           /\ op' = [op EXCEPT ![t] = NoOp]
           /\ target' = [target EXCEPT ![p] = t, ![t] = NoProc]
  <2>1. /\ \A x \in Proc : pc'[x] = IF x = t THEN "limbo"
                                    ELSE IF x = p THEN "abort2" ELSE pc[x]
        /\ \A x \in Proc \ {t} : op'[x] = op[x]
        /\ target'[p] = t /\ \A x \in Proc \ {p, t} : target'[x] = target[x]
    BY <1>2, <1>5
  <2>2. "tempkeep" \notin p_flag[t]
    BY <1>5 DEF AbtChk
  <2>3. ~ Inside(t)
    BY <2>2 DEF ListInv, RegionMatch, RegionAt
  <2>4. pc[t] \notin {"assigned", "limbo", "dead"} /\ pc[t] \notin InsideAt
    BY <1>5, <2>3 DEF OnItsList, Inside
  <2>5. WaitMatch'
    <3>1. CASE pc[t] \in SyncSleep
      <4>1. sy_wait' = Snip(sy_wait, t) /\ IsOn(sy_wait, t)
        BY <1>5, <3>1 DEF TakeOff, OnItsList
      <4>2. /\ \A x : IsOn(sy_wait', x) <=> x # t /\ IsOn(sy_wait, x)
            /\ Distinct(sy_wait')
        BY <1>2, <4>1, SnipMembers DEF ListInv, PlacesMatch, WaitMatch
      <4> QED
        BY <1>2, <2>1, <4>2 DEF ListInv, PlacesMatch, WaitMatch, SyncSleep
    <3>2. CASE pc[t] \notin SyncSleep
      <4>1. sy_wait' = sy_wait
        BY <1>5, <3>2 DEF TakeOff
      <4> QED
        BY <1>2, <2>1, <3>2, <4>1 DEF ListInv, PlacesMatch, WaitMatch, SyncSleep
    <3> QED
      BY <3>1, <3>2
  <2>6. QueuesMatch
    BY DEF ListInv, PlacesMatch
  <2> DEFINE OnDq(r) == pc[t] = "dqwait" /\ op[t].q = r
             OnNq(r) == pc[t] = "nqwait" /\ op[t].q = r
  <2>7. ASSUME NEW r \in Queue
        PROVE  /\ q_dq'[r] = IF OnDq(r) THEN Snip(q_dq[r], t) ELSE q_dq[r]
               /\ q_nq'[r] = IF OnNq(r) THEN Snip(q_nq[r], t) ELSE q_nq[r]
    BY <1>2, <1>5 DEF TakeOff
  <2>8. ASSUME NEW r \in Queue
        PROVE  /\ \A x \in Proc : IsOn(q_dq'[r], x) <=> x # t /\ IsOn(q_dq[r], x)
               /\ Distinct(q_dq'[r])
               /\ \A x \in Proc : IsOn(q_nq'[r], x) <=> x # t /\ IsOn(q_nq[r], x)
               /\ Distinct(q_nq'[r])
    <3>1. /\ IsOn(q_dq[r], t) <=> OnDq(r)
          /\ IsOn(q_nq[r], t) <=> OnNq(r)
          /\ Distinct(q_dq[r]) /\ Distinct(q_nq[r])
          /\ q_dq[r] \in Seq(Proc) /\ q_nq[r] \in Seq(Proc)
      BY <1>2, <2>6 DEF QueuesMatch
    <3> HIDE DEF OnDq, OnNq
    <3>2. \A x \in Proc : IsOn(q_dq'[r], x) <=> x # t /\ IsOn(q_dq[r], x)
      BY <2>7, <3>1, SnipMembers
    <3>3. \A x \in Proc : IsOn(q_nq'[r], x) <=> x # t /\ IsOn(q_nq[r], x)
      BY <2>7, <3>1, SnipMembers
    <3>4. Distinct(q_dq'[r]) /\ Distinct(q_nq'[r])
      BY <2>7, <3>1, SnipMembers
    <3> QED
      BY <3>2, <3>3, <3>4
  <2>9. QueuesMatch'
    <3> SUFFICES ASSUME NEW r \in Queue, NEW x \in Proc
                 PROVE  /\ IsOn(q_dq'[r], x) <=> pc'[x] = "dqwait" /\ op'[x].q = r
                        /\ IsOn(q_nq'[r], x) <=> pc'[x] = "nqwait" /\ op'[x].q = r
      BY <2>8 DEF QueuesMatch
    <3>1. /\ IsOn(q_dq[r], x) <=> pc[x] = "dqwait" /\ op[x].q = r
          /\ IsOn(q_nq[r], x) <=> pc[x] = "nqwait" /\ op[x].q = r
      BY <2>6 DEF QueuesMatch
    <3>2. /\ IsOn(q_dq'[r], x) <=> x # t /\ IsOn(q_dq[r], x)
          /\ IsOn(q_nq'[r], x) <=> x # t /\ IsOn(q_nq[r], x)
      BY <2>8
    <3>3. CASE x = t
      <4>1. pc'[x] = "limbo"
        BY <2>1, <3>3
      <4> QED
        BY <3>2, <3>3, <4>1
    <3>4. CASE x # t
      <4>1. op'[x] = op[x] /\ (pc'[x] = pc[x] \/ (pc'[x] = "abort2" /\ pc[x] = "user"))
        BY <1>2, <2>1, <3>4
      <4> QED
        BY <3>1, <3>2, <3>4, <4>1
    <3> QED
      BY <3>3, <3>4
  <2>10. NextMatch'
    <3>1. /\ \A x \in Proc : sy_next = x <=> pc[x] = "assigned"
          /\ sy_next # NoProc => sy_owner \in Proc /\ pc[sy_owner] = "unsync"
      BY DEF ListInv, PlacesMatch, NextMatch
    <3>2. \A x \in Proc : pc'[x] = "assigned" <=> pc[x] = "assigned"
      BY <1>2, <2>1, <2>4
    <3>3. ASSUME NEW x \in Proc, pc[x] = "unsync"
          PROVE  pc'[x] = "unsync"
      <4>1. x # p /\ x # t
        BY <1>2, <2>4, <3>3 DEF InsideAt, InQueueCode
      <4> QED
        BY <2>1, <3>3, <4>1
    <3> QED
      BY <1>2, <3>1, <3>2, <3>3 DEF NextMatch
  <2>11. TargetMatch'
    <3> SUFFICES ASSUME NEW a \in Proc, pc'[a] = "abort2"
                 PROVE  /\ target'[a] \in Proc /\ pc'[target'[a]] = "limbo"
                        /\ \A b \in Proc :
                             pc'[b] = "abort2" /\ target'[b] = target'[a] => b = a
      BY DEF TargetMatch
    <3>1. a # t /\ (a = p \/ pc[a] = "abort2")
      BY <2>1
    <3>2. ASSUME NEW b \in Proc, b # p, b # t, pc[b] = "abort2"
          PROVE  /\ target'[b] = target[b] /\ target[b] \in Proc
                 /\ pc[target[b]] = "limbo" /\ target[b] # t /\ target[b] # p
      BY <1>2, <2>1, <2>4, <3>2 DEF ListInv, PlacesMatch, TargetMatch
    <3>3. CASE a = p
      BY <2>1, <3>2, <3>3
    <3>4. CASE a # p
      <4>1. target'[a] \in Proc /\ pc'[target'[a]] = "limbo" /\ target'[a] # t
        BY <2>1, <3>1, <3>2, <3>4
      <4>2. ASSUME NEW b \in Proc, pc'[b] = "abort2", target'[b] = target'[a]
            PROVE  b = a
        <5>1. b # p /\ b # t /\ pc[b] = "abort2"
          BY <2>1, <4>1, <4>2
        <5>2. target[b] = target[a]
          BY <3>1, <3>2, <3>4, <4>2, <5>1
        <5> QED
          BY <3>1, <3>4, <5>1, <5>2 DEF ListInv, PlacesMatch, TargetMatch
      <4> QED
        BY <4>1, <4>2
    <3> QED
      BY <3>3, <3>4
  <2>12. ASSUME NEW w \in Proc
         PROVE  /\ (pc'[w] = "assign2") <=> (pc[w] = "assign2")
                /\ pc[w] = "assign2" => op'[w] = op[w]
    BY <1>2, <2>1, <2>4 DEF InsideAt, InQueueCode
  <2>13. CallKept'
    BY <2>12 DEF ListInv, PlacesMatch, CallKept, Reads, Writes
  <2>14. QueueStays'
    <3>1. \A x \in Proc : pc'[x] \in UsesQueue => pc[x] \in UsesQueue /\ op'[x] = op[x]
      BY <2>1 DEF UsesQueue, ListSleep
    <3> QED
      BY <1>2, <3>1, StaysSame DEF ListInv
  <2>15. ASSUME NEW w \in Proc, pc[w] = "assign2"
         PROVE  LET old == OtherSide(w)
                    new == IF Reads(w) THEN q_nq'[op[w].q] ELSE q_dq'[op[w].q]
                IN  /\ old = <<>> <=> new = <<>>
                    /\ old # <<>> => Head(new) = Head(old)
    <3> DEFINE r == op[w].q
    <3>1. r \in Queue /\ OtherSide(w) \in Seq(Proc)
      <4>1. Reads(w) \/ Writes(w)
        BY <2>15 DEF ListInv, PlacesMatch, CallKept
      <4>2. r \in Queue
        BY <4>1, OtherSideType
      <4> QED
        BY <1>2, <4>2 DEF OtherSide
    <3>2. OtherSide(w) # <<>> => Head(OtherSide(w)) # t
      BY <2>3, <2>15 DEF Inside, Chosen
    <3>3. OtherSide(w) = <<>> => ~ IsOn(OtherSide(w), t)
      BY EmptyMembers
    <3>4. OtherSide(w) = IF Reads(w) THEN q_nq[r] ELSE q_dq[r]
      BY DEF OtherSide
    <3>5. /\ IsOn(q_dq[r], t) <=> OnDq(r)
          /\ IsOn(q_nq[r], t) <=> OnNq(r)
          /\ Distinct(q_dq[r]) /\ Distinct(q_nq[r])
      BY <2>6, <3>1 DEF QueuesMatch
    <3> HIDE DEF OnDq, OnNq, r
    <3>6. ASSUME NEW list, list = OtherSide(w), IsOn(list, t), Distinct(list)
          PROVE  /\ list # <<>> /\ Snip(list, t) # <<>>
                 /\ Head(Snip(list, t)) = Head(list)
      BY <3>1, <3>2, <3>3, <3>6, SnipMembers
    <3>7. CASE Reads(w)
      BY <2>7, <3>1, <3>4, <3>5, <3>6, <3>7 DEF r
    <3>8. CASE ~ Reads(w)
      BY <2>7, <3>1, <3>4, <3>5, <3>6, <3>8 DEF r
    <3> QED
      BY <3>7, <3>8
  <2>16. \A x \in Proc : Chosen(x)' <=> Chosen(x)
    <3>1. ASSUME NEW w \in Proc, pc[w] = "assign2"
          PROVE  /\ (OtherSide(w) # <<>>)' <=> OtherSide(w) # <<>>
                 /\ OtherSide(w) # <<>> => Head(OtherSide(w))' = Head(OtherSide(w))
      <4>1. OtherSide(w)' = IF Reads(w) THEN q_nq'[op[w].q] ELSE q_dq'[op[w].q]
        BY <2>12, <3>1 DEF OtherSide, Reads
      <4> QED
        BY <2>15, <3>1, <4>1
    <3> QED
      BY <2>12, <3>1 DEF Chosen
  <2>17. ASSUME NEW x \in Proc PROVE RegionAt(x)'
    <3>1. pc'[x] \in InsideAt <=> pc[x] \in InsideAt
      BY <1>2, <2>1, <2>4 DEF InsideAt, InQueueCode
    <3>2. RegionAt(x) /\ p_tkcnt'[x] = p_tkcnt[x]
      BY <1>2 DEF ListInv, RegionMatch
    <3> QED
      BY <1>3, <2>16, <3>1, <3>2, RegionSame
  <2> QED
    BY <2>5, <2>9, <2>10, <2>11, <2>13, <2>14, <2>17
       DEF ListInv, PlacesMatch, RegionMatch
<1> QED
  BY <1>1, <1>4, <1>5

\* The rest of it makes the process ready to terminate.
LEMMA AbortSpec2Step ==
  ASSUME TypeOK, ListInv, NEW p \in Proc, AbortSpec2(p)
  PROVE  ListInv'
<1> DEFINE t == target[p]
<1>1. /\ pc[p] = "abort2" /\ pc \in [Proc -> PC]
      /\ UNCHANGED <<sy_owner, sy_wait, sy_next, q_dq, q_nq, qlr, op>>
      /\ UNCHANGED <<p_tkcnt, p_flag>>
      /\ target' = [target EXCEPT ![p] = NoProc] /\ DOMAIN target = Proc
  BY DEF AbortSpec2, syncVars, queueVars, flagVars, TypeOK
<1>2. /\ t \in Proc /\ pc[t] = "limbo"
      /\ \A b \in Proc : pc[b] = "abort2" /\ target[b] = t => b = p
  BY <1>1 DEF ListInv, PlacesMatch, TargetMatch
<1>3. \A x \in Proc : pc'[x] = IF x = t THEN "terminate"
                               ELSE IF x = p THEN "user" ELSE pc[x]
  BY <1>1, <1>2 DEF AbortSpec2
<1> HIDE DEF t
<1> USE DEF SyncSleep, ListSleep
<1>4. WaitMatch'
  BY <1>1, <1>2, <1>3 DEF ListInv, PlacesMatch, WaitMatch
<1>5. QueuesMatch'
  <2>1. \A x \in Proc : pc'[x] \in ListSleep \/ pc[x] \in ListSleep => pc'[x] = pc[x]
    BY <1>1, <1>2, <1>3
  <2> QED
    BY <1>1, <2>1, QueuesSame DEF ListInv, PlacesMatch
<1>6. NextMatch'
  BY <1>1, <1>2, <1>3, ProcAssumption DEF ListInv, PlacesMatch, NextMatch
<1>7. TargetMatch'
  <2>1. ASSUME NEW a \in Proc, pc'[a] = "abort2"
        PROVE  /\ a # p /\ pc[a] = "abort2" /\ target'[a] = target[a]
               /\ target[a] \in Proc /\ pc'[target[a]] = "limbo"
    BY <1>1, <1>2, <1>3, <2>1 DEF ListInv, PlacesMatch, TargetMatch
  <2> QED
    BY <2>1 DEF ListInv, PlacesMatch, TargetMatch
<1>8. \A w \in Proc : (pc'[w] = "assign2") <=> (pc[w] = "assign2")
  BY <1>1, <1>2, <1>3
<1>9. CallKept' /\ \A x \in Proc : Chosen(x)' <=> Chosen(x)
  BY <1>1, <1>8, ChosenSame DEF ListInv, PlacesMatch, CallKept, Reads, Writes
<1>10. QueueStays'
  <2>1. \A x \in Proc : pc'[x] \in UsesQueue => pc[x] \in UsesQueue
    BY <1>3 DEF UsesQueue
  <2> QED
    BY <1>1, <2>1, StaysSame DEF ListInv
<1>11. ASSUME NEW x \in Proc PROVE RegionAt(x)'
  <2>1. pc'[x] \in InsideAt <=> pc[x] \in InsideAt
    BY <1>1, <1>2, <1>3 DEF InsideAt, InQueueCode
  <2>2. RegionAt(x)
    BY DEF ListInv, RegionMatch
  <2> QED
    BY <1>1, <1>9, <2>1, <2>2, RegionSame
<1> QED
  BY <1>4, <1>5, <1>6, <1>7, <1>9, <1>10, <1>11 DEF ListInv, PlacesMatch, RegionMatch

\* Every step of a process keeps ListInv.
LEMMA StepLists ==
  ASSUME TypeOK, QueueMutex, ListInv, NEW p \in Proc,
         UserCall(p) \/ AbortSpec(p) \/ TerminateEntry(p) \/ Kernel(p)
  PROVE  ListInv'
<1> DEFINE Places == /\ pc \in [Proc -> PC] /\ p_flag \in [Proc -> SUBSET Flags]
                     /\ op \in [Proc -> Op]
<1> USE PcLabels DEF Free, Asleep, SyncSleep, ListSleep, UsesQueue, InsideAt,
                     InQueueCode
<1> USE DEF syncVars, queueVars, flagVars
<1>1. Places
  BY DEF TypeOK
<1>2. CASE UserCall(p)
  <2>1. /\ pc[p] = "user" /\ Goto(p, "noabort")
        /\ \A x \in Proc \ {p} : op'[x] = op[x]
        /\ UNCHANGED <<syncVars, queueVars, flagVars, target>>
    BY <1>1, <1>2 DEF UserCall, Call
  <2> QED
    BY <2>1, LocalStep
<1>3. CASE NoAbort(p)
  BY <1>3, NoAbortStep
<1>4. CASE Sync(p)
  <2>1. /\ pc[p] = "sync" /\ SyncOrSleep(p, "body", "syncwait")
        /\ UNCHANGED <<sy_next, queueVars, flagVars, op, target>>
    BY <1>4 DEF Sync
  <2> QED
    BY <2>1, SyncOrSleepStep
<1>5. CASE MakeQ(p)
  BY <1>5, MakeQStep
<1>6. CASE DeleteQ(p)
  BY <1>6, DeleteQStep
<1>7. CASE Verify(p)
  <2>1. /\ pc[p] = "body"
        /\ UNCHANGED <<syncVars, queueVars, flagVars, op, target>>
    BY <1>7 DEF Verify
  <2>2. PICK l \in {"unsync", "transfer"} :
          Goto(p, l) /\ (l = "transfer" => op[p].q \in qlr)
    BY <1>7 DEF Verify
  <2> QED
    BY <2>1, <2>2, LocalStep
<1>8. CASE QWait(p)
  BY <1>8, QWaitStep
<1>9. CASE Transfer(p)
  <2>1. /\ pc[p] = "transfer" /\ Goto(p, "assign1")
        /\ UNCHANGED <<syncVars, qlr, q_dq, q_nq, flagVars, op, target>>
    BY <1>9 DEF Transfer
  <2>2. op[p].q \in qlr
    BY <2>1 DEF ListInv, QueueStays
  <2> QED
    BY <2>1, <2>2, LocalStep
<1>10. CASE Assign1(p)
  BY <1>10, Assign1Step
<1>11. CASE Assign2(p)
  BY <1>11, Assign2Step
<1>12. CASE Unsync(p)
  <2>1. /\ pc[p] = "unsync" /\ UnsyncAndGoto(p, "okabort") /\ sy_owner = p
        /\ UNCHANGED <<queueVars, flagVars, op, target>>
    BY <1>12 DEF Unsync, QueueMutex
  <2> QED
    BY <2>1, UnsyncStep
<1>13. CASE OkAbort(p)
  BY <1>13, OkAbortStep
<1>14. CASE OkAbort2(p)
  <2>1. /\ pc[p] = "okabort2"
        /\ p_flag' = [p_flag EXCEPT ![p] = FlagsAfterCtlcTest(@)]
        /\ \A x \in Proc \ {p} : op'[x] = op[x]
        /\ UNCHANGED <<syncVars, queueVars, p_tkcnt, target>>
    BY <1>1, <1>14 DEF OkAbort2, Return
  <2>2. PICK l \in {"terminate", "rlsmx", "user"} : Goto(p, l)
    BY <1>14 DEF OkAbort2, Return
  <2>3. \A x \in Proc : "tempkeep" \in p_flag'[x] <=> "tempkeep" \in p_flag[x]
    BY <1>1, <2>1 DEF FlagsAfterCtlcTest, FlagsAfterAbtChk, AbtChk
  <2> QED
    BY <2>1, <2>2, <2>3, LocalStep
<1>15. CASE AbortSpec2(p)
  BY <1>15, AbortSpec2Step
<1>16. CASE Terminate(p)
  <2>1. /\ pc[p] = "terminate" /\ Goto(p, "tsync")
        /\ UNCHANGED <<syncVars, queueVars, p_tkcnt, op, target>>
        /\ \A x \in Proc : "tempkeep" \in p_flag'[x] <=> "tempkeep" \in p_flag[x]
    BY <1>1, <1>16 DEF Terminate
  <2> QED
    BY <2>1, LocalStep
<1>17. CASE TSync(p)
  <2>1. /\ pc[p] = "tsync" /\ SyncOrSleep(p, "rlsmx", "tsyncwait")
        /\ UNCHANGED <<sy_next, queueVars, flagVars, op, target>>
    BY <1>17 DEF TSync
  <2> QED
    BY <2>1, SyncOrSleepStep
<1>18. CASE RlsMx(p)
  <2>1. /\ pc[p] = "rlsmx"
        /\ \A x \in Proc \ {p} : op'[x] = op[x]
        /\ UNCHANGED <<syncVars, queueVars, flagVars, target>>
    BY <1>1, <1>18 DEF RlsMx, Call
  <2>2. PICK l \in {"noabort", "tunsync"} : Goto(p, l)
    BY <1>18 DEF RlsMx, Call
  <2> QED
    BY <2>1, <2>2, LocalStep
<1>19. CASE TUnsync(p)
  <2>1. /\ pc[p] = "tunsync" /\ UnsyncAndGoto(p, "term2")
        /\ UNCHANGED <<queueVars, flagVars, op, target>>
    BY <1>19 DEF TUnsync
  <2> QED
    BY <2>1, UnsyncStep
<1>20. CASE TermAct(p)
  <2>1. /\ pc[p] = "term2" /\ UnsyncAndGoto(p, "dead")
        /\ UNCHANGED <<queueVars, flagVars, op, target>>
    BY <1>20 DEF TermAct
  <2> QED
    BY <2>1, UnsyncStep
<1>21. CASE AbortSpec(p)
  BY <1>21, AbortSpecStep
<1>22. CASE TerminateEntry(p)
  <2>1. PICK sure \in BOOLEAN :
          /\ p_flag' = [p_flag EXCEPT ![p] = FlagsAfterAbtChk(@, sure)]
          /\ Goto(p, "terminate") \/ pc' = pc
    BY <1>22 DEF TerminateEntry
  <2>2. /\ pc[p] = "user"
        /\ UNCHANGED <<syncVars, queueVars, p_tkcnt, op, target>>
    BY <1>22 DEF TerminateEntry
  <2>3. \A x \in Proc : "tempkeep" \in p_flag'[x] <=> "tempkeep" \in p_flag[x]
    BY <1>1, <2>1 DEF FlagsAfterAbtChk, AbtChk
  <2>4. PICK l \in {"terminate", "user"} : Goto(p, l)
    BY <1>1, <2>1, <2>2 DEF Goto
  <2> QED
    BY <2>2, <2>3, <2>4, LocalStep
<1> QED
  BY <1>2, <1>3, <1>4, <1>5, <1>6, <1>7, <1>8, <1>9, <1>10, <1>11, <1>12, <1>13,
     <1>14, <1>15, <1>16, <1>17, <1>18, <1>19, <1>20, <1>21, <1>22 DEF Kernel

LEMMA InitLists == Init => ListInv
<1> SUFFICES ASSUME Init PROVE ListInv
  OBVIOUS
<1>1. PlacesMatch
  BY EmptyMembers, ProcAssumption
     DEF Init, PlacesMatch, WaitMatch, QueuesMatch, NextMatch, TargetMatch,
         CallKept, SyncSleep
<1>2. \A p \in Proc : ~ Inside(p)
  BY DEF Init, Inside, Chosen, InsideAt, InQueueCode
<1>3. RegionMatch
  BY <1>2 DEF Init, RegionMatch, RegionAt
<1>4. QueueStays
  BY DEF Init, QueueStays, ListSleep
<1> QED
  BY <1>1, <1>3, <1>4 DEF ListInv

LEMMA ListsInductive == Spec => []ListInv
<1>1. TypeOK /\ QueueMutex /\ ListInv /\ [Next]_vars => ListInv'
  <2> SUFFICES ASSUME TypeOK, QueueMutex, ListInv, [Next]_vars PROVE ListInv'
    OBVIOUS
  <2>1. CASE Next
    BY <2>1, StepLists DEF Next
  <2>2. CASE UNCHANGED vars
    <3>1. /\ UNCHANGED <<sy_owner, sy_wait, sy_next, qlr, q_dq, q_nq>>
          /\ UNCHANGED <<p_flag, p_tkcnt, pc, op, target>>
      BY <2>2 DEF vars, syncVars, queueVars, flagVars
    <3>2. PlacesMatch'
      BY <3>1 DEF ListInv, PlacesMatch, WaitMatch, QueuesMatch, NextMatch,
                  TargetMatch, CallKept, Reads, Writes
    <3>3. ASSUME NEW x \in Proc PROVE RegionAt(x)'
      <4>1. RegionAt(x)
        BY DEF ListInv, RegionMatch
      <4> QED
        BY <3>1, <4>1, ChosenSame, RegionSame
    <3>4. QueueStays'
      BY <3>1 DEF ListInv, QueueStays
    <3> QED
      BY <3>2, <3>3, <3>4 DEF ListInv, RegionMatch
  <2> QED
    BY <2>1, <2>2
<1> QED
  BY <1>1, InitLists, TypeCorrect, MutualExclusion, PTL DEF Spec

----------------------------------------------------------------------------
(* What follows.                                                           *)

\* A process asleep in the queue system is on the list its status names, once,
\* and no process is on any other list: wakeups, aborts and assignments neither
\* lose a process nor leave it on two lists.
THEOREM ListsKept == Spec => []ListsMatch
<1>1. TypeOK /\ ListInv => ListsMatch
  <2> SUFFICES ASSUME TypeOK, ListInv, NEW p \in Proc
               PROVE  /\ Count(sy_wait, p) = IF pc[p] \in SyncSleep THEN 1 ELSE 0
                      /\ sy_next = p <=> pc[p] = "assigned"
                      /\ \A q \in Queue :
                           /\ Count(q_dq[q], p) =
                                IF pc[p] = "dqwait" /\ op[p].q = q THEN 1 ELSE 0
                           /\ Count(q_nq[q], p) =
                                IF pc[p] = "nqwait" /\ op[p].q = q THEN 1 ELSE 0
    BY DEF ListsMatch
  <2>1. WaitMatch /\ QueuesMatch /\ NextMatch
    BY DEF ListInv, PlacesMatch
  <2>2. Count(sy_wait, p) = IF pc[p] \in SyncSleep THEN 1 ELSE 0
    BY <2>1, CountMembers DEF TypeOK, WaitMatch
  <2>3. sy_next = p <=> pc[p] = "assigned"
    BY <2>1 DEF NextMatch
  <2>4. ASSUME NEW q \in Queue
        PROVE  /\ Count(q_dq[q], p) =
                    IF pc[p] = "dqwait" /\ op[p].q = q THEN 1 ELSE 0
               /\ Count(q_nq[q], p) =
                    IF pc[p] = "nqwait" /\ op[p].q = q THEN 1 ELSE 0
    <3>1. q_dq[q] \in Seq(Proc) /\ q_nq[q] \in Seq(Proc)
      BY DEF TypeOK
    <3> QED
      BY <2>1, <3>1, CountMembers DEF QueuesMatch
  <2> QED
    BY <2>2, <2>3, <2>4
<1> QED
  BY <1>1, ListsInductive, TypeCorrect, PTL

\* no_abort and ok_abort nest as they should, though they are called for a
\* process by itself and by the process that wakes it up: a process is in a
\* region from q_sync, or from when it is chosen, until q_unsync.
THEOREM RegionsKept == Spec => []NoAbortRegion
<1>1. ListInv => NoAbortRegion
  BY DEF ListInv, RegionMatch, RegionAt, Inside, InsideAt, NoAbortRegion
<1> QED
  BY <1>1, ListsInductive, PTL

\* deleteq_entry: no queue is deleted under a process that waits on it or that
\* has found it and is using it.
THEOREM QueuesKept == Spec => []QueueStays
<1>1. ListInv => QueueStays
  BY DEF ListInv
<1> QED
  BY <1>1, ListsInductive, PTL

----------------------------------------------------------------------------
(* What is handed over: messages, buffers, MX queues and q_spb; and, built   *)
(* on it, that the queue system implements QueueService: bounded FIFO        *)
(* channels and mutual exclusion queues, whatever the interleaving of the    *)
(* calls, the hand-over of q_spb and the aborts.                             *)

----------------------------------------------------------------------------
(* The inductive invariant, on top of ListInv.                             *)

\* What a process tested before it slept, or was woken for, still holds.
ReadyKept ==
  \A p \in Proc :
    /\ pc[p] \in {"assigned", "transfer"} => (Reads(p) \/ Writes(p)) /\ ~ NotReady(p)
    /\ pc[p] \in {"assign1", "assign2"} =>
         IF Reads(p) THEN q_msgcnt[op[p].q] < NMsgs[op[p].q]
                     ELSE q_msgcnt[op[p].q] > 0
    /\ pc[p] = "dqwait" => Reads(p)
    /\ pc[p] = "nqwait" => Writes(p)

\* NoStranded, and one process is woken up for one message or buffer: with
\* processes waiting there is no second one.
ServedReaders(q) ==
  q_msgcnt[q] > 0 /\ q_dq[q] # <<>> =>
    q_msgcnt[q] = 1 /\ (Waking(q, {"write", "release"}) \/ Due(q, {"read"}))
ServedWriters(q) ==
  q_msgcnt[q] < NMsgs[q] /\ q_nq[q] # <<>> =>
    q_msgcnt[q] + 1 = NMsgs[q] /\ (Waking(q, {"read"}) \/ Due(q, {"write", "release"}))
Served == \A q \in qlr : ServedReaders(q) /\ ServedWriters(q)

\* Where a process has given back its MX queues.
Gone == {"tunsync", "term2", "dead"}

MxKept ==
  /\ Mx \subseteq qlr
  /\ \A p \in Proc : op[p].kind \in {"make", "delete"} => op[p].q \notin Mx
  /\ \A q \in Mx : q_msgcnt[q] = IF q_buf[q] = NoProc THEN 1 ELSE 0
  /\ \A q \in Mx : q_buf[q] # NoProc => pc[q_buf[q]] \notin Gone

CountInv == ReadyKept /\ Served /\ CountsInRange

\* The owner, until it is about to give q_spb up, is alone in the queue code,
\* and no process is assigned q_spb.
LEMMA OwnerAlone ==
  ASSUME QueueMutex, ListInv, NEW p \in Proc, pc[p] \in InQueueCode, pc[p] # "unsync"
  PROVE  /\ sy_owner = p /\ sy_next = NoProc
         /\ \A x \in Proc \ {p} : pc[x] \notin InQueueCode \cup {"assigned"}
<1>1. sy_owner = p
  BY DEF QueueMutex
<1>2. sy_next = NoProc
  BY <1>1 DEF ListInv, PlacesMatch, NextMatch
<1>3. \A x \in Proc : pc[x] # "assigned"
  BY <1>2 DEF ListInv, PlacesMatch, NextMatch
<1> QED
  BY <1>1, <1>2, <1>3 DEF QueueMutex

----------------------------------------------------------------------------
(* The steps that move no message.                                         *)

\* A process that uses a queue goes on using it, or is aborted where it sleeps.
StaysOrLeaves(x) ==
  pc[x] \in UsesQueue =>
    \/ /\ op'[x] = op[x]
       /\ pc'[x] = pc[x] \/ (pc[x] = "assigned" /\ pc'[x] = "transfer")
    \/ pc[x] \in ListSleep /\ pc'[x] \notin UsesQueue

LEMMA CountsSame ==
  ASSUME CountInv, q_msgcnt' = q_msgcnt, qlr' \subseteq qlr,
         \A q \in qlr : q_dq'[q] # <<>> => q_dq[q] # <<>>,
         \A q \in qlr : q_nq'[q] # <<>> => q_nq[q] # <<>>,
         \A x \in Proc : pc'[x] \in UsesQueue => pc[x] \in UsesQueue,
         \A x \in Proc : StaysOrLeaves(x)
  PROVE  CountInv'
<1> USE DEF UsesQueue, ListSleep
<1>1. ReadyKept'
  <2> SUFFICES ASSUME NEW x \in Proc, pc'[x] \in UsesQueue
               PROVE  /\ pc'[x] \in {"assigned", "transfer"} =>
                           (Reads(x) \/ Writes(x))' /\ ~ NotReady(x)'
                      /\ pc'[x] \in {"assign1", "assign2"} =>
                           IF Reads(x)' THEN q_msgcnt[op'[x].q] < NMsgs[op'[x].q]
                                        ELSE q_msgcnt[op'[x].q] > 0
                      /\ pc'[x] = "dqwait" => Reads(x)'
                      /\ pc'[x] = "nqwait" => Writes(x)'
    BY DEF ReadyKept
  <2>1. op'[x] = op[x] /\ (pc'[x] = pc[x] \/ (pc[x] = "assigned" /\ pc'[x] = "transfer"))
    BY DEF StaysOrLeaves
  <2>2. /\ Reads(x)' <=> Reads(x)
        /\ Writes(x)' <=> Writes(x)
        /\ NotReady(x)' <=> NotReady(x)
    BY <2>1 DEF Reads, Writes, NotReady
  <2> QED
    BY <2>1, <2>2 DEF CountInv, ReadyKept
<1>2. ASSUME NEW q \in qlr', NEW kinds
      PROVE  /\ Waking(q, kinds) => Waking(q, kinds)'
             /\ Due(q, kinds) => Due(q, kinds)'
  BY DEF Waking, Due, StaysOrLeaves
<1>3. Served'
  <2> SUFFICES ASSUME NEW q \in qlr' PROVE ServedReaders(q)' /\ ServedWriters(q)'
    BY DEF Served
  <2>1. q \in qlr /\ ServedReaders(q) /\ ServedWriters(q)
    BY DEF CountInv, Served
  <2> QED
    BY <1>2, <2>1 DEF ServedReaders, ServedWriters
<1>4. CountsInRange'
  BY DEF CountInv, CountsInRange
<1> QED
  BY <1>1, <1>3, <1>4 DEF CountInv

\* A step of p alone between places where it uses no queue.
LEMMA CountsLocal ==
  ASSUME TypeOK, CountInv, NEW p \in Proc, NEW l, Goto(p, l),
         UNCHANGED <<q_msgcnt, q_dq, q_nq>>, qlr' \subseteq qlr,
         \A x \in Proc \ {p} : op'[x] = op[x],
         pc[p] \notin UsesQueue, l \notin UsesQueue
  PROVE  CountInv'
<1>1. pc' = [pc EXCEPT ![p] = l] /\ pc \in [Proc -> PC]
  BY DEF Goto, TypeOK
<1>2. \A x \in Proc : pc'[x] \in UsesQueue => pc[x] \in UsesQueue
  BY <1>1
<1>3. \A x \in Proc : StaysOrLeaves(x)
  BY <1>1 DEF StaysOrLeaves
<1> QED
  BY <1>2, <1>3, CountsSame

\* The owner gives q_spb up, or a process that does not own it does not.
LEMMA CountsUnsync ==
  ASSUME TypeOK, ListInv, CountInv, NEW p \in Proc, NEW l, UnsyncAndGoto(p, l),
         UNCHANGED <<queueVars, op>>, pc[p] \in Free \ UsesQueue, l \notin UsesQueue
  PROVE  CountInv'
<1>1. UNCHANGED <<q_msgcnt, q_dq, q_nq, qlr, op>>
  BY DEF queueVars
<1>2. CASE sy_owner = p
  <2>1. /\ pc'[p] = l
        /\ \A x \in Proc \ {p} : pc'[x] = pc[x] \/ WokenTo(x)
    BY <1>2, WakesOne DEF UnsyncAndGoto, ListInv
  <2>2. \A x \in Proc : pc'[x] \in UsesQueue => pc[x] \in UsesQueue
    BY <2>1 DEF WokenTo, UsesQueue, ListSleep
  <2>3. \A x \in Proc : StaysOrLeaves(x)
    BY <1>1, <2>1 DEF StaysOrLeaves, WokenTo, UsesQueue, ListSleep
  <2> QED
    BY <1>1, <2>2, <2>3, CountsSame
<1>3. CASE sy_owner # p
  <2>1. Goto(p, l)
    BY <1>3 DEF UnsyncAndGoto
  <2> QED
    BY <1>1, <2>1, CountsLocal
<1> QED
  BY <1>2, <1>3

LEMMA CountsSync ==
  ASSUME TypeOK, CountInv, NEW p \in Proc, NEW l, NEW a, SyncOrSleep(p, l, a),
         UNCHANGED <<queueVars, op>>, pc[p] \notin UsesQueue,
         l \notin UsesQueue, a \notin UsesQueue
  PROVE  CountInv'
<1>1. UNCHANGED <<q_msgcnt, q_dq, q_nq, qlr, op>>
  BY DEF queueVars
<1>2. Goto(p, l) \/ Goto(p, a)
  BY DEF SyncOrSleep
<1> QED
  BY <1>1, <1>2, CountsLocal

----------------------------------------------------------------------------
(* The steps that test, move and hand over messages.                       *)

\* makeq: nobody has found the queue yet.
LEMMA CountsMakeQ ==
  ASSUME TypeOK, QueueMutex, ListInv, CountInv, NEW p \in Proc, MakeQ(p)
  PROVE  CountInv'
<1> DEFINE q == op[p].q
<1>1. /\ pc[p] = "body" /\ Goto(p, "unsync") /\ q \in Queue /\ op' = op
      /\ pc' = [pc EXCEPT ![p] = "unsync"] /\ pc \in [Proc -> PC]
  BY DEF MakeQ, TypeOK, Op, NoOp, Goto
<1>2. CASE UNCHANGED <<qlr, q_dq, q_nq, q_msgcnt, q_msgout>>
  BY <1>1, <1>2, CountsLocal DEF UsesQueue, ListSleep
<1>3. CASE /\ q \notin qlr /\ qlr' = qlr \cup {q}
           /\ q_dq' = [q_dq EXCEPT ![q] = <<>>]
           /\ q_nq' = [q_nq EXCEPT ![q] = <<>>]
           /\ q_msgcnt' = [q_msgcnt EXCEPT ![q] = 0]
  <2>1. /\ DOMAIN q_dq = Queue /\ DOMAIN q_nq = Queue /\ DOMAIN q_msgcnt = Queue
        /\ qlr \subseteq Queue
    BY DEF TypeOK
  <2>2. \A x \in Proc : pc'[x] \in UsesQueue => pc'[x] = pc[x] /\ op[x].q # q
    BY <1>1, <1>3 DEF ListInv, QueueStays, UsesQueue, ListSleep
  <2> HIDE DEF q
  <2>3. /\ q_dq'[q] = <<>> /\ q_nq'[q] = <<>> /\ q_msgcnt'[q] = 0
        /\ \A r : r # q => /\ q_dq'[r] = q_dq[r] /\ q_nq'[r] = q_nq[r]
                           /\ q_msgcnt'[r] = q_msgcnt[r]
    BY <1>1, <1>3, <2>1
  <2>4. ReadyKept'
    <3> SUFFICES ASSUME NEW x \in Proc, pc'[x] \in UsesQueue
                 PROVE  /\ pc'[x] \in {"assigned", "transfer"} =>
                             (Reads(x) \/ Writes(x)) /\ ~ NotReady(x)'
                        /\ pc'[x] \in {"assign1", "assign2"} =>
                             IF Reads(x) THEN q_msgcnt'[op[x].q] < NMsgs[op[x].q]
                                         ELSE q_msgcnt'[op[x].q] > 0
                        /\ pc'[x] = "dqwait" => Reads(x)
                        /\ pc'[x] = "nqwait" => Writes(x)
      BY <1>1 DEF ReadyKept, UsesQueue, ListSleep, Reads, Writes
    <3>1. pc'[x] = pc[x] /\ q_msgcnt'[op[x].q] = q_msgcnt[op[x].q]
      BY <2>2, <2>3
    <3>2. NotReady(x)' <=> NotReady(x)
      BY <1>1, <3>1 DEF NotReady, Reads
    <3> QED
      BY <3>1, <3>2 DEF CountInv, ReadyKept
  <2>5. Served'
    <3> SUFFICES ASSUME NEW r \in qlr' PROVE ServedReaders(r)' /\ ServedWriters(r)'
      BY DEF Served
    <3>1. CASE r = q
      BY <2>3, <3>1 DEF ServedReaders, ServedWriters
    <3>2. CASE r # q
      <4>1. /\ r \in qlr /\ q_dq'[r] = q_dq[r] /\ q_nq'[r] = q_nq[r]
            /\ q_msgcnt'[r] = q_msgcnt[r]
        BY <1>3, <2>3, <3>2
      <4>2. \A kinds : /\ Waking(r, kinds) => Waking(r, kinds)'
                       /\ Due(r, kinds) => Due(r, kinds)'
        BY <1>1 DEF Waking, Due
      <4> QED
        BY <4>1, <4>2 DEF CountInv, Served, ServedReaders, ServedWriters
    <3> QED
      BY <3>1, <3>2
  <2>6. CountsInRange'
    <3>1. \A r \in Queue : q_msgcnt[r] \in 0 .. NMsgs[r] /\ NMsgs[r] \in Nat
      BY DEF CountInv, CountsInRange
    <3> QED
      BY <2>3, <3>1 DEF CountsInRange
  <2> QED
    BY <2>4, <2>5, <2>6 DEF CountInv
<1> QED
  BY <1>2, <1>3 DEF MakeQ

\* readq and writeq go on to the transfer only if there is a message or buffer.
LEMMA CountsVerify ==
  ASSUME TypeOK, QueueMutex, ListInv, CountInv, NEW p \in Proc, Verify(p)
  PROVE  CountInv'
<1>1. /\ pc[p] = "body" /\ (Reads(p) \/ Writes(p)) /\ pc \in [Proc -> PC]
      /\ UNCHANGED <<q_msgcnt, q_dq, q_nq, qlr, op>>
  BY DEF Verify, queueVars, TypeOK
<1>2. CASE Goto(p, "unsync")
  BY <1>1, <1>2, CountsLocal DEF UsesQueue, ListSleep
<1>3. CASE ~ NotReady(p) /\ Goto(p, "transfer")
  <2>1. \A x \in Proc : pc'[x] = IF x = p THEN "transfer" ELSE pc[x]
    BY <1>1, <1>3 DEF Goto
  <2>2. ReadyKept'
    BY <1>1, <1>3, <2>1 DEF CountInv, ReadyKept, Reads, Writes, NotReady
  <2>3. ASSUME NEW q, NEW kinds
        PROVE  /\ Waking(q, kinds) => Waking(q, kinds)'
               /\ Due(q, kinds) => Due(q, kinds)'
    BY <1>1, <2>1 DEF Waking, Due
  <2>4. Served'
    BY <1>1, <2>3 DEF CountInv, Served, ServedReaders, ServedWriters
  <2> QED
    BY <1>1, <2>2, <2>4 DEF CountInv, CountsInRange
<1> QED
  BY <1>2, <1>3 DEF Verify

\* What p does with a message leaves the other queues alone, and finds its own
\* with nobody waiting on p's side that should have been woken up.
LEMMA CountsTransfer ==
  ASSUME TypeOK, QueueMutex, ListInv, CountInv, NEW p \in Proc, Transfer(p)
  PROVE  CountInv'
<1> DEFINE q == op[p].q
           n == q_msgcnt[q]
<1> USE DEF Goto
<1>1. /\ pc[p] = "transfer" /\ pc \in [Proc -> PC]
      /\ UNCHANGED <<q_dq, q_nq, qlr, op>>
      /\ \A x \in Proc : pc'[x] = IF x = p THEN "assign1" ELSE pc[x]
      /\ \/ Reads(p) /\ q_msgcnt' = [q_msgcnt EXCEPT ![q] = q_msgcnt[q] - 1]
         \/ Writes(p) /\ q_msgcnt' = [q_msgcnt EXCEPT ![q] = q_msgcnt[q] + 1]
      /\ q_msgcnt \in [Queue -> Int]
  <2>1. /\ pc[p] = "transfer" /\ pc \in [Proc -> PC]
        /\ UNCHANGED <<q_dq, q_nq, qlr, op>>
        /\ q_msgcnt \in [Queue -> Int]
    BY DEF Transfer, TypeOK
  <2>2. \A x \in Proc : pc'[x] = IF x = p THEN "assign1" ELSE pc[x]
    BY <2>1 DEF Transfer
  <2>3. \/ Reads(p) /\ q_msgcnt' = [q_msgcnt EXCEPT ![q] = q_msgcnt[q] - 1]
        \/ Writes(p) /\ q_msgcnt' = [q_msgcnt EXCEPT ![q] = q_msgcnt[q] + 1]
    BY DEF Transfer
  <2> QED
    BY <2>1, <2>2, <2>3
<1>2. (Reads(p) \/ Writes(p)) /\ q \in Queue
  BY <1>1, OtherSideType
<1>3. /\ ~ NotReady(p)
      /\ n \in 0 .. NMsgs[q] /\ NMsgs[q] \in Nat
  BY <1>1, <1>2 DEF CountInv, ReadyKept, CountsInRange
<1>4. /\ Reads(p) => n > 0
      /\ Writes(p) => n < NMsgs[q] /\ ~ Reads(p)
  BY <1>3 DEF NotReady, Reads, Writes
<1>5. \A x \in Proc \ {p} : pc[x] \notin InQueueCode \cup {"assigned"}
  BY <1>1, OwnerAlone DEF InQueueCode
<1> HIDE DEF q
<1>6. /\ q_msgcnt'[q] = IF Reads(p) THEN n - 1 ELSE n + 1
      /\ \A r \in Queue \ {q} : q_msgcnt'[r] = q_msgcnt[r]
  BY <1>1, <1>2, <1>4
<1> HIDE DEF n
<1>7. CountsInRange'
  BY <1>3, <1>4, <1>6, <1>2 DEF CountInv, CountsInRange
<1>8. ReadyKept'
  <2> SUFFICES ASSUME NEW x \in Proc
               PROVE  /\ pc'[x] \in {"assigned", "transfer"} =>
                           (Reads(x) \/ Writes(x))' /\ ~ NotReady(x)'
                      /\ pc'[x] \in {"assign1", "assign2"} =>
                           IF Reads(x)' THEN q_msgcnt'[op'[x].q] < NMsgs[op'[x].q]
                                        ELSE q_msgcnt'[op'[x].q] > 0
                      /\ pc'[x] = "dqwait" => Reads(x)'
                      /\ pc'[x] = "nqwait" => Writes(x)'
    BY DEF ReadyKept
  <2>1. (Reads(x)' <=> Reads(x)) /\ (Writes(x)' <=> Writes(x)) /\ op'[x] = op[x]
    BY <1>1 DEF Reads, Writes
  <2>2. CASE x = p
    BY <1>1, <1>2, <1>3, <1>4, <1>6, <2>1, <2>2 DEF q
  <2>3. CASE x # p
    BY <1>1, <1>5, <2>1, <2>3 DEF CountInv, ReadyKept, InQueueCode
  <2> QED
    BY <2>2, <2>3
<1>9. Served'
  <2> SUFFICES ASSUME NEW r \in qlr PROVE ServedReaders(r)' /\ ServedWriters(r)'
    BY <1>1 DEF Served
  <2>1. r \in Queue
    BY DEF TypeOK
  <2>2. /\ ServedReaders(r) /\ ServedWriters(r)
        /\ q_msgcnt[r] \in 0 .. NMsgs[r] /\ NMsgs[r] \in Nat
    BY <2>1 DEF CountInv, Served, CountsInRange
  <2>3. \A kinds : /\ ~ Waking(r, kinds)
                   /\ Due(r, kinds) => r = q /\ op[p].kind \in kinds
    BY <1>1, <1>5 DEF Waking, Due, InQueueCode, q
  <2>4. CASE r # q
    <3>1. q_msgcnt'[r] = q_msgcnt[r] /\ q_dq'[r] = q_dq[r] /\ q_nq'[r] = q_nq[r]
      BY <1>1, <1>6, <2>1, <2>4
    <3> QED
      BY <2>2, <2>3, <2>4, <3>1 DEF ServedReaders, ServedWriters
  <2>5. CASE r = q /\ Reads(p)
    <3>1. q_msgcnt'[r] = q_msgcnt[r] - 1 /\ q_msgcnt[r] > 0
      BY <1>4, <1>6, <2>5 DEF n
    <3>2. q_dq[r] # <<>> => q_msgcnt[r] = 1
      BY <2>2, <3>1 DEF ServedReaders
    <3>3. q_nq[r] # <<>> => q_msgcnt[r] = NMsgs[r]
      BY <2>2, <2>3, <2>5 DEF ServedWriters, Reads
    <3>4. Waking(r, {"read"})'
      BY <1>1, <2>5 DEF Waking, Reads, q
    <3> QED
      BY <1>1, <2>2, <3>1, <3>2, <3>3, <3>4 DEF ServedReaders, ServedWriters
  <2>6. CASE r = q /\ Writes(p)
    <3>1. q_msgcnt'[r] = q_msgcnt[r] + 1 /\ q_msgcnt[r] < NMsgs[r]
      BY <1>4, <1>6, <2>6 DEF n
    <3>2. q_nq[r] # <<>> => q_msgcnt[r] + 1 = NMsgs[r]
      BY <2>2, <3>1 DEF ServedWriters
    <3>3. q_dq[r] # <<>> => q_msgcnt[r] = 0
      BY <2>2, <2>3, <2>6 DEF ServedReaders, Writes
    <3>4. Waking(r, {"write", "release"})'
      BY <1>1, <2>6 DEF Waking, Writes, q
    <3> QED
      BY <1>1, <2>2, <3>1, <3>2, <3>3, <3>4 DEF ServedReaders, ServedWriters
  <2> QED
    BY <1>2, <2>4, <2>5, <2>6
<1> QED
  BY <1>7, <1>8, <1>9 DEF CountInv

\* q_assign_sync finds somebody to wake up, or has nobody to.
LEMMA CountsAssign1 ==
  ASSUME TypeOK, QueueMutex, ListInv, CountInv, NEW p \in Proc, Assign1(p)
  PROVE  CountInv'
<1>1. /\ pc[p] = "assign1" /\ (Reads(p) \/ Writes(p)) /\ pc \in [Proc -> PC]
      /\ UNCHANGED <<q_msgcnt, q_dq, q_nq, qlr, op>>
  BY DEF Assign1, queueVars, TypeOK
<1>2. PICK l \in {"unsync", "assign2"} :
        /\ \A x \in Proc : pc'[x] = IF x = p THEN l ELSE pc[x]
        /\ l = "unsync" => OtherSide(p) = <<>>
  BY <1>1 DEF Assign1, Goto
<1>3. ReadyKept'
  BY <1>1, <1>2 DEF CountInv, ReadyKept, Reads, Writes, NotReady
<1>4. \A x \in Proc \ {p} : pc[x] \notin InQueueCode \cup {"assigned"}
  BY <1>1, OwnerAlone DEF InQueueCode
<1>5. Served'
  <2> SUFFICES ASSUME NEW q \in qlr PROVE ServedReaders(q)' /\ ServedWriters(q)'
    BY <1>1 DEF Served
  <2>1. \A kinds : Due(q, kinds) => Due(q, kinds)'
    BY <1>1, <1>2 DEF Due
  <2>2. \A kinds : Waking(q, kinds) =>
          \/ Waking(q, kinds)'
          \/ op[p].q = q /\ op[p].kind \in kinds /\ OtherSide(p) = <<>>
    BY <1>1, <1>2 DEF Waking
  <2>3. q_dq[q] # <<>> /\ Waking(q, {"write", "release"})
          => Waking(q, {"write", "release"})'
    BY <2>2 DEF OtherSide, Reads
  <2>4. q_nq[q] # <<>> /\ Waking(q, {"read"}) => Waking(q, {"read"})'
    BY <2>2 DEF OtherSide, Reads
  <2>5. ServedReaders(q) /\ ServedWriters(q)
    BY DEF CountInv, Served
  <2> QED
    BY <1>1, <2>1, <2>3, <2>4, <2>5 DEF ServedReaders, ServedWriters
<1> QED
  BY <1>1, <1>3, <1>5 DEF CountInv, CountsInRange

\* The process taken off the list is on its way to what p has left for it.
LEMMA CountsAssign2 ==
  ASSUME TypeOK, QueueMutex, ListInv, CountInv, NEW p \in Proc, Assign2(p)
  PROVE  CountInv'
<1> DEFINE q == op[p].q
           h == Head(OtherSide(p))
<1>1. /\ pc[p] = "assign2" /\ (Reads(p) \/ Writes(p)) /\ pc \in [Proc -> PC]
      /\ UNCHANGED <<q_msgcnt, qlr, op>> /\ q \in Queue
  BY OtherSideType DEF Assign2, bufVars, TypeOK
<1>2. /\ sy_owner = p
      /\ \A x \in Proc \ {p} : pc[x] \notin InQueueCode \cup {"assigned"}
  BY <1>1, OwnerAlone DEF InQueueCode
<1>3. \A r, kinds : /\ ~ Due(r, kinds)
                    /\ Waking(r, kinds) => r = q /\ op[p].kind \in kinds
  BY <1>1, <1>2 DEF Due, Waking, InQueueCode
<1>4. CASE OtherSide(p) = <<>>
  <2>1. /\ \A x \in Proc : pc'[x] = IF x = p THEN "unsync" ELSE pc[x]
        /\ UNCHANGED <<q_dq, q_nq>>
    BY <1>1, <1>4 DEF Assign2, Goto
  <2>2. ReadyKept'
    BY <1>1, <2>1 DEF CountInv, ReadyKept, Reads, Writes, NotReady
  <2>3. Served'
    <3> SUFFICES ASSUME NEW r \in qlr PROVE ServedReaders(r)' /\ ServedWriters(r)'
      BY <1>1 DEF Served
    <3>1. ServedReaders(r) /\ ServedWriters(r)
      BY DEF CountInv, Served
    <3>2. q_dq[r] # <<>> => ~ Waking(r, {"write", "release"})
      BY <1>3, <1>4 DEF OtherSide, Reads
    <3>3. q_nq[r] # <<>> => ~ Waking(r, {"read"})
      BY <1>3, <1>4 DEF OtherSide, Reads
    <3> QED
      BY <1>1, <1>3, <2>1, <3>1, <3>2, <3>3 DEF ServedReaders, ServedWriters
  <2> QED
    BY <1>1, <2>2, <2>3 DEF CountInv, CountsInRange
<1>5. CASE OtherSide(p) # <<>>
  <2>1. /\ h \in Proc
        /\ pc' = [pc EXCEPT ![p] = "unsync", ![h] = "assigned"]
        /\ IF Reads(p)
           THEN q_nq' = [q_nq EXCEPT ![q] = Tail(@)] /\ q_dq' = q_dq
           ELSE q_dq' = [q_dq EXCEPT ![q] = Tail(@)] /\ q_nq' = q_nq
    BY <1>1, <1>2, <1>5, OtherSideType DEF Assign2
  <2>2. pc[h] = (IF Reads(p) THEN "nqwait" ELSE "dqwait") /\ op[h].q = q
    <3>1. OtherSide(p) \in Seq(Proc)
      BY <1>1 DEF TypeOK, OtherSide
    <3>2. IsOn(OtherSide(p), h)
      BY <1>5, <3>1 DEF IsOn
    <3> QED
      BY <1>1, <2>1, <3>2 DEF OtherSide, ListInv, PlacesMatch, QueuesMatch
  <2>3. /\ h # p
        /\ \A x \in Proc : pc'[x] = IF x = h THEN "assigned"
                                    ELSE IF x = p THEN "unsync" ELSE pc[x]
    BY <1>1, <2>1, <2>2
  <2>4. IF Reads(p) THEN Writes(h) /\ ~ Reads(h) ELSE Reads(h)
    BY <2>1, <2>2 DEF CountInv, ReadyKept, Writes, Reads
  <2>5. IF Reads(p) THEN q_msgcnt[q] < NMsgs[q] ELSE q_msgcnt[q] > 0
    BY <1>1 DEF CountInv, ReadyKept
  <2>6. q_msgcnt[q] \in 0 .. NMsgs[q] /\ NMsgs[q] \in Nat
    BY <1>1 DEF CountInv, CountsInRange
  <2>7. /\ q_dq \in [Queue -> Seq(Proc)] /\ q_nq \in [Queue -> Seq(Proc)]
        /\ OtherSide(p) = IF Reads(p) THEN q_nq[q] ELSE q_dq[q]
    BY DEF TypeOK, OtherSide
  <2> HIDE DEF q, h
  <2>8. ReadyKept'
    <3> SUFFICES ASSUME NEW x \in Proc
                 PROVE  /\ pc'[x] \in {"assigned", "transfer"} =>
                             (Reads(x) \/ Writes(x))' /\ ~ NotReady(x)'
                        /\ pc'[x] \in {"assign1", "assign2"} =>
                             IF Reads(x)' THEN q_msgcnt'[op'[x].q] < NMsgs[op'[x].q]
                                          ELSE q_msgcnt'[op'[x].q] > 0
                        /\ pc'[x] = "dqwait" => Reads(x)'
                        /\ pc'[x] = "nqwait" => Writes(x)'
      BY DEF ReadyKept
    <3>1. /\ (Reads(x)' <=> Reads(x)) /\ (Writes(x)' <=> Writes(x))
          /\ (NotReady(x)' <=> NotReady(x)) /\ op'[x] = op[x]
      BY <1>1 DEF Reads, Writes, NotReady
    <3>2. CASE x = h
      <4>1. ~ NotReady(x) /\ (Reads(x) \/ Writes(x))
        BY <2>2, <2>4, <2>5, <2>6, <3>2 DEF NotReady
      <4> QED
        BY <2>3, <3>1, <3>2, <4>1
    <3>3. CASE x = p
      BY <2>3, <3>3
    <3>4. CASE x # h /\ x # p
      BY <1>1, <2>3, <3>1, <3>4 DEF CountInv, ReadyKept
    <3> QED
      BY <3>2, <3>3, <3>4
  <2>9. Served'
    <3> SUFFICES ASSUME NEW r \in qlr PROVE ServedReaders(r)' /\ ServedWriters(r)'
      BY <1>1 DEF Served
    <3>1. ServedReaders(r) /\ ServedWriters(r) /\ r \in Queue
      BY DEF CountInv, Served, TypeOK
    <3>2. CASE r # q
      <4>1. q_dq'[r] = q_dq[r] /\ q_nq'[r] = q_nq[r] /\ q_msgcnt'[r] = q_msgcnt[r]
        BY <1>1, <2>1, <2>7, <3>1, <3>2
      <4> QED
        BY <1>3, <3>1, <3>2, <4>1 DEF ServedReaders, ServedWriters, q
    <3>3. CASE r = q /\ Reads(p)
      <4>1. q_dq'[r] = q_dq[r] /\ q_nq[r] # <<>> /\ q_msgcnt'[r] = q_msgcnt[r]
        BY <1>1, <1>5, <2>1, <2>7, <3>1, <3>3
      <4>2. ~ Waking(r, {"write", "release"})
        BY <1>3, <3>3 DEF Reads
      <4>3. Due(r, {"write", "release"})'
        <5>1. pc'[h] = "assigned" /\ op'[h] = op[h] /\ Writes(h)
          BY <1>1, <2>1, <2>3, <2>4, <3>3 DEF h
        <5> QED
          BY <2>1, <2>2, <3>3, <5>1 DEF Due, Writes, h
      <4> QED
        BY <1>3, <3>1, <4>1, <4>2, <4>3 DEF ServedReaders, ServedWriters
    <3>4. CASE r = q /\ ~ Reads(p)
      <4>1. q_nq'[r] = q_nq[r] /\ q_dq[r] # <<>> /\ q_msgcnt'[r] = q_msgcnt[r]
        BY <1>1, <1>5, <2>1, <2>7, <3>1, <3>4
      <4>2. ~ Waking(r, {"read"})
        BY <1>3, <3>4 DEF Reads
      <4>3. Due(r, {"read"})'
        <5>1. pc'[h] = "assigned" /\ op'[h] = op[h] /\ Reads(h)
          BY <1>1, <2>1, <2>3, <2>4, <3>4 DEF h
        <5> QED
          BY <2>1, <2>2, <3>4, <5>1 DEF Due, Reads, h
      <4> QED
        BY <1>3, <3>1, <4>1, <4>2, <4>3 DEF ServedReaders, ServedWriters
    <3> QED
      BY <3>2, <3>3, <3>4
  <2> QED
    BY <1>1, <2>8, <2>9 DEF CountInv, CountsInRange
<1> QED
  BY <1>4, <1>5

\* q_wait: p joins those who wait for what is not there.
LEMMA CountsQWait ==
  ASSUME TypeOK, QueueMutex, ListInv, CountInv, NEW p \in Proc, QWait(p)
  PROVE  CountInv'
<1> DEFINE q == op[p].q
<1>1. /\ pc[p] = "body" /\ (Reads(p) \/ Writes(p)) /\ pc \in [Proc -> PC]
      /\ UNCHANGED <<q_msgcnt, qlr>> /\ q \in Queue /\ NotReady(p)
      /\ q_dq \in [Queue -> Seq(Proc)] /\ q_nq \in [Queue -> Seq(Proc)]
  BY OtherSideType DEF QWait, bufVars, TypeOK
<1>2. PICK l \in {"terminate", "dqwait", "nqwait"} :
        /\ WakeAndGoto(p, l)
        /\ l = "terminate" => UNCHANGED <<q_dq, q_nq>>
        /\ l = "dqwait" => /\ q_dq' = [q_dq EXCEPT ![q] = InsertProcess(@, p)]
                           /\ q_nq' = q_nq /\ op' = op /\ Reads(p)
        /\ l = "nqwait" => /\ q_nq' = [q_nq EXCEPT ![q] = InsertProcess(@, p)]
                           /\ q_dq' = q_dq /\ op' = op /\ ~ Reads(p)
        /\ \A x \in Proc \ {p} : op'[x] = op[x]
  BY <1>1 DEF QWait, TypeOK
<1>3. /\ pc'[p] = l
      /\ \A x \in Proc \ {p} : pc'[x] = pc[x] \/ WokenTo(x)
  <2>1. pc[p] \in Free
    BY <1>1, PcLabels DEF Free, Asleep, SyncSleep, ListSleep
  <2> QED
    BY <1>2, <2>1, WakesOne DEF ListInv
<1>4. \A x \in Proc \ {p} : pc[x] \notin InQueueCode \cup {"assigned"}
  BY <1>1, OwnerAlone DEF InQueueCode
<1>5. ReadyKept'
  <2> SUFFICES ASSUME NEW x \in Proc
               PROVE  /\ pc'[x] \notin {"assigned", "transfer", "assign1", "assign2"}
                      /\ pc'[x] = "dqwait" => Reads(x)'
                      /\ pc'[x] = "nqwait" => Writes(x)'
    BY DEF ReadyKept
  <2>1. CASE x = p
    BY <1>1, <1>2, <1>3, <2>1 DEF Reads, Writes
  <2>2. CASE x # p
    <3>1. /\ pc'[x] \notin {"assigned", "transfer", "assign1", "assign2"}
          /\ pc'[x] \in ListSleep => pc'[x] = pc[x]
      BY <1>3, <1>4, <2>2 DEF WokenTo, InQueueCode, ListSleep
    <3>2. (Reads(x)' <=> Reads(x)) /\ (Writes(x)' <=> Writes(x))
      BY <1>2, <2>2 DEF Reads, Writes
    <3> QED
      BY <3>1, <3>2 DEF CountInv, ReadyKept, ListSleep
  <2> QED
    BY <2>1, <2>2
<1>6. Served'
  <2> SUFFICES ASSUME NEW r \in qlr PROVE ServedReaders(r)' /\ ServedWriters(r)'
    BY <1>1 DEF Served
  <2>1. /\ ServedReaders(r) /\ ServedWriters(r) /\ r \in Queue
        /\ q_msgcnt'[r] = q_msgcnt[r]
    BY <1>1 DEF CountInv, Served, TypeOK
  <2>2. \A kinds : ~ Due(r, kinds) /\ ~ Waking(r, kinds)
    BY <1>1, <1>4 DEF Due, Waking, InQueueCode
  <2>3. /\ q_msgcnt[r] > 0 => q_dq[r] = <<>>
        /\ q_msgcnt[r] < NMsgs[r] => q_nq[r] = <<>>
    BY <2>1, <2>2 DEF ServedReaders, ServedWriters
  <2>4. Reads(p) => q_msgcnt[q] = 0
    BY <1>1 DEF NotReady
  <2>5. ~ Reads(p) => q_msgcnt[q] = NMsgs[q]
    BY <1>1 DEF NotReady
  <2>6. NMsgs[r] \in Nat \ {0} /\ q_msgcnt[r] \in Int
    BY <2>1 DEF TypeOK
  <2> HIDE DEF q
  <2>7. q_msgcnt[r] > 0 => q_dq'[r] = <<>>
    BY <1>1, <1>2, <2>1, <2>3, <2>4, <2>6
  <2>8. q_msgcnt[r] < NMsgs[r] => q_nq'[r] = <<>>
    BY <1>1, <1>2, <2>1, <2>3, <2>5, <2>6
  <2> QED
    BY <2>1, <2>7, <2>8 DEF ServedReaders, ServedWriters
<1> QED
  BY <1>1, <1>5, <1>6 DEF CountInv, CountsInRange

\* Every step of a process keeps CountInv.
LEMMA StepCounts ==
  ASSUME TypeOK, QueueMutex, ListInv, CountInv, NEW p \in Proc,
         UserCall(p) \/ AbortSpec(p) \/ TerminateEntry(p) \/ Kernel(p)
  PROVE  CountInv'
<1> USE DEF UsesQueue, ListSleep
<1>1. CASE UserCall(p)
  <2>1. /\ pc[p] = "user" /\ Goto(p, "noabort")
        /\ UNCHANGED <<q_msgcnt, q_dq, q_nq, qlr>>
        /\ \A x \in Proc \ {p} : op'[x] = op[x]
    BY <1>1 DEF UserCall, Call, queueVars, TypeOK
  <2> QED
    BY <2>1, CountsLocal
<1>2. CASE NoAbort(p) \/ Terminate(p)
  <2>1. /\ pc[p] \in {"noabort", "terminate"} /\ (Goto(p, "sync") \/ Goto(p, "tsync"))
        /\ UNCHANGED <<q_msgcnt, q_dq, q_nq, qlr, op>>
    BY <1>2 DEF NoAbort, Terminate, queueVars
  <2> QED
    BY <2>1, CountsLocal
<1>3. CASE Sync(p) \/ TSync(p)
  <2>1. /\ pc[p] \in {"sync", "tsync"} /\ UNCHANGED <<queueVars, op>>
        /\ SyncOrSleep(p, "body", "syncwait") \/ SyncOrSleep(p, "rlsmx", "tsyncwait")
    BY <1>3 DEF Sync, TSync
  <2> QED
    BY <2>1, CountsSync
<1>4. CASE MakeQ(p)
  BY <1>4, CountsMakeQ
<1>5. CASE DeleteQ(p)
  <2>1. /\ pc[p] = "body" /\ Goto(p, "unsync")
        /\ UNCHANGED <<q_msgcnt, q_dq, q_nq, op>> /\ qlr' \subseteq qlr
    BY <1>5 DEF DeleteQ, bufVars
  <2> QED
    BY <2>1, CountsLocal
<1>6. CASE Verify(p)
  BY <1>6, CountsVerify
<1>7. CASE QWait(p)
  BY <1>7, CountsQWait
<1>8. CASE Transfer(p)
  BY <1>8, CountsTransfer
<1>9. CASE Assign1(p)
  BY <1>9, CountsAssign1
<1>10. CASE Assign2(p)
  BY <1>10, CountsAssign2
<1>11. CASE Unsync(p) \/ TUnsync(p) \/ TermAct(p)
  <2>1. /\ pc[p] \in {"unsync", "tunsync", "term2"} /\ UNCHANGED <<queueVars, op>>
        /\ \E l \in {"okabort", "term2", "dead"} : UnsyncAndGoto(p, l)
    BY <1>11 DEF Unsync, TUnsync, TermAct
  <2>2. pc[p] \in Free \ UsesQueue
    BY <2>1, PcLabels DEF Free, Asleep, SyncSleep
  <2> QED
    BY <2>1, <2>2, CountsUnsync
<1>12. CASE OkAbort(p) \/ OkAbort2(p)
  <2>1. /\ pc[p] \in {"okabort", "okabort2"}
        /\ \E l \in {"okabort2", "terminate", "rlsmx", "user"} : Goto(p, l)
        /\ UNCHANGED <<q_msgcnt, q_dq, q_nq, qlr>>
        /\ \A x \in Proc \ {p} : op'[x] = op[x]
    BY <1>12 DEF OkAbort, OkAbort2, Return, queueVars, TypeOK
  <2> QED
    BY <2>1, CountsLocal
<1>13. CASE AbortSpec2(p)
  <2>1. /\ UNCHANGED <<q_msgcnt, q_dq, q_nq, qlr, op>>
        /\ pc[p] = "abort2" /\ pc \in [Proc -> PC]
        /\ pc' = [pc EXCEPT ![p] = "user", ![target[p]] = "terminate"]
    BY <1>13 DEF AbortSpec2, queueVars, TypeOK
  <2>2. target[p] \in Proc /\ pc[target[p]] = "limbo"
    BY <2>1 DEF ListInv, PlacesMatch, TargetMatch
  <2>3. \A x \in Proc : pc'[x] \in UsesQueue => pc[x] \in UsesQueue
    BY <2>1
  <2>4. \A x \in Proc : StaysOrLeaves(x)
    BY <2>1, <2>2 DEF StaysOrLeaves
  <2> QED
    BY <2>1, <2>3, <2>4, CountsSame
<1>14. CASE RlsMx(p)
  <2>1. /\ pc[p] = "rlsmx" /\ \E l \in {"noabort", "tunsync"} : Goto(p, l)
        /\ UNCHANGED <<q_msgcnt, q_dq, q_nq, qlr>>
        /\ \A x \in Proc \ {p} : op'[x] = op[x]
    BY <1>14 DEF RlsMx, Call, queueVars, TypeOK
  <2> QED
    BY <2>1, CountsLocal
<1>15. CASE AbortSpec(p)
  <2>1. PICK t \in Proc \ {p}, sure \in BOOLEAN :
          LET flags == p_flag[t] \cup {"ctlc"}
              found == AbtChk(flags, sure) = "ok" /\ OnItsList(t)
          IN  \/ ~found /\ UNCHANGED <<sy_wait, q_dq, q_nq, pc, op, target>>
              \/ /\ found
                 /\ TakeOff(t)
                 /\ pc' = [pc EXCEPT ![p] = "abort2", ![t] = "limbo"]
                 /\ op' = [op EXCEPT ![t] = NoOp]
    BY <1>15 DEF AbortSpec
  <2>2. /\ UNCHANGED <<q_msgcnt, qlr>> /\ pc[p] = "user" /\ pc \in [Proc -> PC]
        /\ q_dq \in [Queue -> Seq(Proc)] /\ q_nq \in [Queue -> Seq(Proc)]
        /\ qlr \subseteq Queue /\ DOMAIN op = Proc
    BY <1>15 DEF AbortSpec, bufVars, TypeOK
  <2>3. CASE UNCHANGED <<sy_wait, q_dq, q_nq, pc, op, target>>
    <3>1. \A x \in Proc : pc'[x] \in UsesQueue => pc[x] \in UsesQueue
      BY <2>3
    <3>2. \A x \in Proc : StaysOrLeaves(x)
      BY <2>3 DEF StaysOrLeaves
    <3> QED
      BY <2>2, <2>3, <3>1, <3>2, CountsSame
  <2>4. CASE /\ AbtChk(p_flag[t] \cup {"ctlc"}, sure) = "ok" /\ OnItsList(t)
             /\ TakeOff(t)
             /\ pc' = [pc EXCEPT ![p] = "abort2", ![t] = "limbo"]
             /\ op' = [op EXCEPT ![t] = NoOp]
    <3>1. /\ \A x \in Proc : pc'[x] = IF x = t THEN "limbo"
                                      ELSE IF x = p THEN "abort2" ELSE pc[x]
          /\ \A x \in Proc \ {t} : op'[x] = op[x]
      BY <2>2, <2>4
    <3>2. pc[t] \notin InsideAt
      BY <2>4 DEF AbtChk, ListInv, RegionMatch, RegionAt, Inside
    <3>3. pc[t] \in UsesQueue => pc[t] \in ListSleep
      BY <3>2 DEF InsideAt, InQueueCode
    <3>4. \A x \in Proc : pc'[x] \in UsesQueue => pc[x] \in UsesQueue
      BY <3>1
    <3>5. \A x \in Proc : StaysOrLeaves(x)
      BY <2>2, <3>1, <3>3 DEF StaysOrLeaves
    <3>6. ASSUME NEW q \in qlr
          PROVE  /\ q_dq'[q] # <<>> => q_dq[q] # <<>>
                 /\ q_nq'[q] # <<>> => q_nq[q] # <<>>
      <4>1. /\ q_dq'[q] = q_dq[q] \/ (pc[t] = "dqwait" /\ op[t].q = q)
            /\ q_nq'[q] = q_nq[q] \/ (pc[t] = "nqwait" /\ op[t].q = q)
        BY <2>2, <2>4 DEF TakeOff
      <4>2. /\ pc[t] = "dqwait" /\ op[t].q = q => IsOn(q_dq[q], t)
            /\ pc[t] = "nqwait" /\ op[t].q = q => IsOn(q_nq[q], t)
        BY <2>4 DEF OnItsList
      <4> QED
        BY <4>1, <4>2, EmptyMembers
    <3> QED
      BY <2>2, <3>4, <3>5, <3>6, CountsSame
  <2> QED
    BY <2>1, <2>3, <2>4
<1>16. CASE TerminateEntry(p)
  <2>1. /\ UNCHANGED <<q_msgcnt, q_dq, q_nq, qlr, op>> /\ pc[p] = "user"
        /\ \E l \in {"terminate", "user"} : Goto(p, l)
    BY <1>16 DEF TerminateEntry, queueVars, Goto, TypeOK
  <2> QED
    BY <2>1, CountsLocal
<1> QED
  BY <1>1, <1>2, <1>3, <1>4, <1>5, <1>6, <1>7, <1>8, <1>9, <1>10, <1>11, <1>12,
     <1>13, <1>14, <1>15, <1>16 DEF Kernel

LEMMA InitCounts == Init => CountInv
<1> SUFFICES ASSUME Init PROVE CountInv
  OBVIOUS
<1>1. ReadyKept /\ Served
  BY DEF Init, ReadyKept, Served, ServedReaders, ServedWriters
<1>2. CountsInRange
  BY DEF Init, CountsInRange
<1> QED
  BY <1>1, <1>2 DEF CountInv

LEMMA CountsInductive == Spec => []CountInv
<1>1. TypeOK /\ QueueMutex /\ ListInv /\ CountInv /\ [Next]_vars => CountInv'
  <2> SUFFICES ASSUME TypeOK, QueueMutex, ListInv, CountInv, [Next]_vars
               PROVE  CountInv'
    OBVIOUS
  <2>1. CASE Next
    BY <2>1, StepCounts DEF Next
  <2>2. CASE UNCHANGED vars
    <3>1. UNCHANGED <<q_msgcnt, qlr, q_dq, q_nq, pc, op>>
      BY <2>2 DEF vars, queueVars
    <3>2. \A x \in Proc : StaysOrLeaves(x)
      BY <3>1 DEF StaysOrLeaves
    <3> QED
      BY <3>1, <3>2, CountsSame
  <2> QED
    BY <2>1, <2>2
<1> QED
  BY <1>1, InitCounts, TypeCorrect, MutualExclusion, ListsInductive, PTL DEF Spec

\* The processes that wait for a queue are on its lists, once, and no message is
\* left with processes waiting to read it, nor buffer space with processes
\* waiting to write, whoever is aborted meanwhile; a queue is never read when
\* empty or written when full, though the test is made before the wait.
THEOREM WaitersKept == Spec => []WaitersSound
<1>1. CountInv => NoStranded /\ CountsInRange
  BY DEF CountInv, Served, ServedReaders, ServedWriters, NoStranded
<1>2. ListsMatch /\ CountInv => WaitersSound
  BY <1>1 DEF WaitersSound
<1> QED
  BY <1>2, ListsKept, CountsInductive, PTL

----------------------------------------------------------------------------
(* The owner of q_spb.                                                     *)

\* A step in which q_spb is not touched, and its owner, if it moves, goes where
\* it can still give it up.
LEMMA OwnerSame ==
  ASSUME OwnerRuns, UNCHANGED <<sy_owner, sy_next>>,
         sy_wait = <<>> => sy_wait' = <<>>,
         sy_owner # NoProc =>
           pc'[sy_owner] = pc[sy_owner] \/ pc'[sy_owner] \notin Asleep \cup {"dead"}
  PROVE  OwnerRuns'
  BY DEF OwnerRuns

LEMMA OwnerLocal ==
  ASSUME TypeOK, OwnerRuns, NEW p \in Proc, NEW l, Goto(p, l),
         UNCHANGED syncVars, l \notin Asleep \cup {"dead"}
  PROVE  OwnerRuns'
<1>1. \A x \in Proc : pc'[x] = IF x = p THEN l ELSE pc[x]
  BY DEF Goto, TypeOK
<1> QED
  BY <1>1, OwnerSame DEF syncVars, TypeOK

\* q_spb is passed to a process that is awake, and is free only if none waits.
LEMMA OwnerPass ==
  ASSUME TypeOK, PlacesMatch, NEW p \in Proc, NEW l, PassOwnership,
         WakeAndGoto(p, l), pc[p] \in Free
  PROVE  OwnerRuns'
<1>1. CASE NewOwner = NoProc
  <2>1. sy_next = NoProc /\ sy_wait = <<>>
    <3>1. sy_wait # <<>> => Head(sy_wait) \in Proc
      BY DEF TypeOK
    <3> QED
      BY <1>1, <3>1 DEF NewOwner
  <2> QED
    BY <1>1, <2>1 DEF PassOwnership, OwnerRuns
<1>2. CASE NewOwner # NoProc
  <2>1. /\ NewOwner \in Proc \ {p} /\ pc[NewOwner] \in SyncSleep \cup {"assigned"}
        /\ pc'[NewOwner] = Awake(pc[NewOwner])
    BY <1>2, NewOwnerWaits, WakesOne
  <2>2. sy_owner' = NewOwner /\ pc'[NewOwner] \notin Asleep \cup {"dead"}
    BY <2>1 DEF PassOwnership, Awake, Asleep, SyncSleep, ListSleep
  <2> HIDE DEF NewOwner
  <2> QED
    BY <1>2, <2>2 DEF OwnerRuns
<1> QED
  BY <1>1, <1>2

LEMMA OwnerUnsync ==
  ASSUME TypeOK, PlacesMatch, OwnerRuns, NEW p \in Proc, NEW l,
         UnsyncAndGoto(p, l), pc[p] \in Free
  PROVE  OwnerRuns'
<1>1. CASE sy_owner = p
  BY <1>1, OwnerPass DEF UnsyncAndGoto
<1>2. CASE sy_owner # p
  <2>1. /\ UNCHANGED syncVars
        /\ \A x \in Proc \ {p} : pc'[x] = pc[x]
    BY <1>2 DEF UnsyncAndGoto, Goto, TypeOK
  <2> QED
    BY <1>2, <2>1, OwnerSame DEF syncVars, TypeOK
<1> QED
  BY <1>1, <1>2

LEMMA OwnerSync ==
  ASSUME TypeOK, PlacesMatch, OwnerRuns, NEW p \in Proc, NEW l, NEW a,
         SyncOrSleep(p, l, a), sy_next' = sy_next, l \notin Asleep \cup {"dead"}
  PROVE  OwnerRuns'
<1>1. CASE sy_owner \in {NoProc, p}
  <2>1. sy_owner' = p /\ pc'[p] = l
    BY <1>1 DEF SyncOrSleep, Goto, TypeOK
  <2> QED
    BY <2>1 DEF OwnerRuns
<1>2. CASE sy_owner \notin {NoProc, p}
  <2>1. sy_owner' = sy_owner /\ \A x \in Proc \ {p} : pc'[x] = pc[x]
    BY <1>2 DEF SyncOrSleep, Goto, TypeOK
  <2> QED
    BY <1>2, <2>1 DEF OwnerRuns, TypeOK
<1> QED
  BY <1>1, <1>2

LEMMA StepOwner ==
  ASSUME TypeOK, QueueMutex, ListInv, OwnerRuns, NEW p \in Proc,
         UserCall(p) \/ AbortSpec(p) \/ TerminateEntry(p) \/ Kernel(p)
  PROVE  OwnerRuns'
<1> USE DEF Asleep, SyncSleep, ListSleep
<1>0. PlacesMatch
  BY DEF ListInv
<1>1. CASE \/ UserCall(p) \/ NoAbort(p) \/ MakeQ(p) \/ DeleteQ(p) \/ Verify(p)
           \/ Transfer(p) \/ Assign1(p) \/ OkAbort(p) \/ OkAbort2(p)
           \/ Terminate(p) \/ RlsMx(p) \/ TerminateEntry(p)
  <2>1. \/ UNCHANGED <<syncVars, pc>>
        \/ /\ UNCHANGED syncVars
           /\ \E l \in {"noabort", "sync", "unsync", "transfer", "assign1", "assign2",
                        "okabort2", "user", "rlsmx", "terminate", "tsync", "tunsync"} :
                Goto(p, l)
    <3>1. CASE UserCall(p) \/ NoAbort(p) \/ MakeQ(p) \/ DeleteQ(p)
      BY <3>1 DEF UserCall, Call, NoAbort, MakeQ, DeleteQ
    <3>2. CASE Verify(p) \/ Transfer(p)
      BY <3>2 DEF Verify, Transfer
    <3>3. CASE Assign1(p)
      BY <3>3 DEF Assign1
    <3>4. CASE OkAbort(p) \/ OkAbort2(p)
      BY <3>4 DEF OkAbort, OkAbort2, Return
    <3>5. CASE Terminate(p) \/ RlsMx(p) \/ TerminateEntry(p)
      BY <3>5 DEF Terminate, RlsMx, Call, TerminateEntry
    <3> QED
      BY <1>1, <3>1, <3>2, <3>3, <3>4, <3>5
  <2>2. CASE UNCHANGED <<syncVars, pc>>
    BY <2>2, OwnerSame DEF syncVars
  <2> QED
    BY <2>1, <2>2, OwnerLocal
<1>2. CASE Sync(p) \/ TSync(p)
  BY <1>0, <1>2, OwnerSync DEF Sync, TSync
<1>3. CASE QWait(p)
  <2>1. /\ pc[p] \in Free /\ PassOwnership
        /\ \E l \in {"terminate", "dqwait", "nqwait"} : WakeAndGoto(p, l)
    BY <1>3, PcLabels DEF QWait, Free
  <2> QED
    BY <1>0, <2>1, OwnerPass
<1>4. CASE Assign2(p)
  <2>1. /\ sy_owner = p /\ UNCHANGED <<sy_owner, sy_wait>> /\ pc[p] = "assign2"
        /\ pc \in [Proc -> PC] /\ (Reads(p) \/ Writes(p))
    BY <1>4 DEF Assign2, QueueMutex, InQueueCode, TypeOK
  <2>2. CASE OtherSide(p) = <<>>
    BY <1>4, <2>1, <2>2, OwnerLocal DEF Assign2, syncVars
  <2>3. CASE OtherSide(p) # <<>>
    <3>1. pc' = [pc EXCEPT ![p] = "unsync", ![Head(OtherSide(p))] = "assigned"]
      BY <1>4, <2>1, <2>3 DEF Assign2
    <3>2. Head(OtherSide(p)) # p
      <4>1. Chosen(Head(OtherSide(p)))
        BY <2>1, <2>3 DEF Chosen
      <4>2. Head(OtherSide(p)) \in Proc
        BY <2>1, <2>3, OtherSideType
      <4>3. pc[Head(OtherSide(p))] \in ListSleep
        BY <1>0, <4>1, <4>2, ChosenAsleep DEF PlacesMatch
      <4> QED
        BY <2>1, <4>3
    <3>3. pc'[p] = "unsync"
      BY <2>1, <3>1, <3>2
    <3> QED
      BY <2>1, <3>3 DEF OwnerRuns
  <2> QED
    BY <2>2, <2>3
<1>5. CASE Unsync(p) \/ TUnsync(p) \/ TermAct(p)
  <2>1. /\ pc[p] \in Free
        /\ \E l \in {"okabort", "term2", "dead"} : UnsyncAndGoto(p, l)
    BY <1>5, PcLabels DEF Unsync, TUnsync, TermAct, Free
  <2> QED
    BY <1>0, <2>1, OwnerUnsync
<1>6. CASE AbortSpec2(p)
  <2>1. /\ UNCHANGED <<sy_owner, sy_wait, sy_next>>
        /\ \A x \in Proc : pc'[x] \in {pc[x], "user", "terminate"}
    BY <1>6 DEF AbortSpec2, syncVars, TypeOK
  <2> QED
    BY <2>1, OwnerSame DEF TypeOK
<1>7. CASE AbortSpec(p)
  <2>1. PICK t \in Proc :
          \/ UNCHANGED <<sy_wait, pc>>
          \/ /\ OnItsList(t) /\ TakeOff(t)
             /\ pc' = [pc EXCEPT ![p] = "abort2", ![t] = "limbo"]
    BY <1>7 DEF AbortSpec
  <2>2. UNCHANGED <<sy_owner, sy_next>>
    BY <1>7 DEF AbortSpec
  <2>3. \A x \in Proc : pc'[x] \in {pc[x], "abort2", "limbo"}
    BY <2>1 DEF TypeOK
  <2>4. sy_wait = <<>> => sy_wait' = <<>>
    BY <2>1, EmptyMembers DEF OnItsList, TakeOff
  <2> QED
    BY <2>2, <2>3, <2>4, OwnerSame DEF TypeOK
<1> QED
  BY <1>1, <1>2, <1>3, <1>4, <1>5, <1>6, <1>7 DEF Kernel

----------------------------------------------------------------------------
(* The owner of an MX queue.                                               *)

\* What a process can come to be calling.
LEMMA CallStep ==
  ASSUME TypeOK, NEW p \in Proc,
         UserCall(p) \/ AbortSpec(p) \/ TerminateEntry(p) \/ Kernel(p),
         NEW x \in Proc
  PROVE  op'[x] = op[x] \/ op'[x].kind \in {"none", "release"} \/ op'[x] \in Calls[x]
<1> USE DEF TypeOK, NoOp
<1>1. CASE UserCall(p)
  BY <1>1 DEF UserCall, Call
<1>2. CASE RlsMx(p)
  BY <1>2 DEF RlsMx, Call
<1>3. CASE OkAbort(p) \/ OkAbort2(p)
  BY <1>3 DEF OkAbort, OkAbort2, Return
<1>4. CASE QWait(p)
  BY <1>4 DEF QWait
<1>5. CASE AbortSpec(p)
  <2>1. PICK t \in Proc : op' = op \/ op' = [op EXCEPT ![t] = NoOp]
    BY <1>5 DEF AbortSpec
  <2> QED
    BY <2>1
<1>6. CASE \/ NoAbort(p) \/ Sync(p) \/ MakeQ(p) \/ DeleteQ(p) \/ Verify(p)
           \/ Transfer(p) \/ Assign1(p) \/ Assign2(p) \/ Unsync(p) \/ AbortSpec2(p)
           \/ Terminate(p) \/ TSync(p) \/ TUnsync(p) \/ TermAct(p)
           \/ TerminateEntry(p)
  BY <1>6 DEF NoAbort, Sync, MakeQ, DeleteQ, Verify, Transfer, Assign1, Assign2,
              Unsync, AbortSpec2, Terminate, TSync, TUnsync, TermAct, TerminateEntry
<1> QED
  BY <1>1, <1>2, <1>3, <1>4, <1>5, <1>6 DEF Kernel

\* A process leaves rlsmx for good only when it owns no MX queue.
LEMMA GoneStep ==
  ASSUME TypeOK, NEW p \in Proc,
         UserCall(p) \/ AbortSpec(p) \/ TerminateEntry(p) \/ Kernel(p),
         NEW x \in Proc, pc'[x] \in Gone
  PROVE  pc[x] \in Gone \/ Owned(x) = {}
<1> USE DEF TypeOK, Gone, Goto
<1>1. CASE RlsMx(p)
  BY <1>1 DEF RlsMx, Call
<1>2. CASE OkAbort(p) \/ OkAbort2(p)
  BY <1>2 DEF OkAbort, OkAbort2, Return
<1>3. CASE QWait(p)
  <2>1. \E l \in {"terminate", "dqwait", "nqwait"} : WakeAndGoto(p, l)
    BY <1>3 DEF QWait
  <2> QED
    BY <2>1 DEF WakeAndGoto, Awake
<1>4. CASE AbortSpec(p)
  <2>1. PICK t \in Proc : \/ pc' = pc
                          \/ pc' = [pc EXCEPT ![p] = "abort2", ![t] = "limbo"]
    BY <1>4 DEF AbortSpec
  <2> QED
    BY <2>1
<1>5. CASE Unsync(p) \/ TUnsync(p) \/ TermAct(p)
  <2>1. /\ pc[p] \in {"unsync", "tunsync", "term2"}
        /\ \E l \in {"okabort", "term2", "dead"} :
             /\ WakeAndGoto(p, l) \/ pc' = [pc EXCEPT ![p] = l]
             /\ l \in Gone => pc[p] \in Gone
    BY <1>5 DEF Unsync, TUnsync, TermAct, UnsyncAndGoto
  <2> QED
    BY <2>1 DEF WakeAndGoto, Awake
<1>6. CASE UserCall(p) \/ TerminateEntry(p) \/ NoAbort(p) \/ Sync(p)
  BY <1>6 DEF UserCall, Call, TerminateEntry, NoAbort, Sync, SyncOrSleep
<1>7. CASE MakeQ(p) \/ DeleteQ(p) \/ Verify(p) \/ Transfer(p)
  <2>1. \E l \in {"unsync", "transfer", "assign1"} : pc' = [pc EXCEPT ![p] = l]
    BY <1>7 DEF MakeQ, DeleteQ, Verify, Transfer
  <2> QED
    BY <2>1
<1>8. CASE Assign1(p) \/ Assign2(p)
  <2>1. \/ \E l \in {"unsync", "assign2"} : pc' = [pc EXCEPT ![p] = l]
        \/ pc' = [pc EXCEPT ![p] = "unsync", ![Head(OtherSide(p))] = "assigned"]
    BY <1>8 DEF Assign1, Assign2
  <2> QED
    BY <2>1
<1>9. CASE AbortSpec2(p) \/ Terminate(p) \/ TSync(p)
  BY <1>9 DEF AbortSpec2, Terminate, TSync, SyncOrSleep
<1> QED
  BY <1>1, <1>2, <1>3, <1>4, <1>5, <1>6, <1>7, <1>8, <1>9 DEF Kernel

\* The MX queues themselves.
LEMMA MxSame ==
  ASSUME TypeOK, MxKept, NEW p \in Proc,
         UserCall(p) \/ AbortSpec(p) \/ TerminateEntry(p) \/ Kernel(p),
         Mx \subseteq qlr', \A q \in Mx : q_msgcnt'[q] = q_msgcnt[q],
         \A q \in Mx : q_buf'[q] = q_buf[q]
  PROVE  MxKept'
<1>1. ASSUME NEW x \in Proc, op'[x].kind \in {"make", "delete"}
      PROVE  op'[x].q \notin Mx
  BY <1>1, CallStep, CallsAssumption DEF MxKept
<1>2. ASSUME NEW q \in Mx, q_buf'[q] # NoProc PROVE pc'[q_buf'[q]] \notin Gone
  <2>1. q_buf[q] \in Proc /\ pc[q_buf[q]] \notin Gone
    BY <1>2 DEF MxKept, TypeOK
  <2>2. q \in Owned(q_buf[q])
    BY DEF Owned, MxKept
  <2> QED
    BY <2>1, <2>2, GoneStep
<1> QED
  BY <1>1, <1>2 DEF MxKept

LEMMA StepMx ==
  ASSUME TypeOK, QueueMutex, ListInv, CountInv, MxKept, NEW p \in Proc,
         UserCall(p) \/ AbortSpec(p) \/ TerminateEntry(p) \/ Kernel(p)
  PROVE  MxKept'
<1>1. CASE Transfer(p)
  <2> DEFINE q == op[p].q
  <2>1. /\ pc[p] = "transfer" /\ pc' = [pc EXCEPT ![p] = "assign1"]
        /\ pc \in [Proc -> PC] /\ qlr' = qlr /\ op' = op
        /\ q_msgcnt \in [Queue -> Int] /\ q_buf \in [Queue -> Proc \cup {NoProc}]
    BY <1>1 DEF Transfer, TypeOK, Goto
  <2>2. (Reads(p) \/ Writes(p)) /\ ~ NotReady(p) /\ q \in Queue
    <3>1. (Reads(p) \/ Writes(p)) /\ ~ NotReady(p)
      BY <2>1 DEF CountInv, ReadyKept
    <3> QED
      BY <3>1, OtherSideType
  <2>3. \/ /\ Reads(p) /\ q_msgcnt' = [q_msgcnt EXCEPT ![q] = q_msgcnt[q] - 1]
           /\ q \in Mx => q_buf' = [q_buf EXCEPT ![q] = p]
           /\ q \notin Mx => q_buf' = q_buf
        \/ /\ Writes(p) /\ q_msgcnt' = [q_msgcnt EXCEPT ![q] = q_msgcnt[q] + 1]
           /\ q \in Mx => q_buf' = [q_buf EXCEPT ![q] = NoProc]
           /\ q \notin Mx => q_buf' = q_buf
    BY <1>1 DEF Transfer
  <2>4. q \in Mx => /\ q_msgcnt[q] = IF q_buf[q] = NoProc THEN 1 ELSE 0
                    /\ Reads(p) => q_msgcnt[q] # 0
                    /\ ~ Reads(p) => q_msgcnt[q] # 1
    BY <2>2 DEF MxKept, NotReady
  <2>5. Writes(p) => ~ Reads(p)
    BY DEF Writes, Reads
  <2> HIDE DEF q
  <2>6. ASSUME NEW r \in Mx
        PROVE  q_msgcnt'[r] = IF q_buf'[r] = NoProc THEN 1 ELSE 0
    <3>1. q_msgcnt[r] = IF q_buf[r] = NoProc THEN 1 ELSE 0
      BY DEF MxKept
    <3> QED
      BY <2>1, <2>2, <2>3, <2>4, <2>5, <3>1
  <2>7. ASSUME NEW r \in Mx, q_buf'[r] # NoProc PROVE pc'[q_buf'[r]] \notin Gone
    <3>1. q_buf'[r] \in {p, q_buf[r]}
      BY <2>1, <2>3, <2>7
    <3>2. pc'[p] \notin Gone
      BY <2>1 DEF Gone
    <3>3. q_buf[r] # NoProc => q_buf[r] \in Proc /\ pc[q_buf[r]] \notin Gone
      BY <2>1 DEF MxKept
    <3> QED
      BY <2>1, <2>7, <3>1, <3>2, <3>3
  <2> QED
    BY <2>1, <2>6, <2>7 DEF MxKept
<1>2. CASE MakeQ(p) \/ DeleteQ(p)
  <2>1. op[p].q \notin Mx
    BY <1>2 DEF MakeQ, DeleteQ, MxKept
  <2>2. /\ Mx \subseteq qlr' /\ q_buf' = q_buf
        /\ \A q \in Mx : q_msgcnt'[q] = q_msgcnt[q]
    <3>1. /\ op[p].q \notin Mx /\ Mx \subseteq qlr
          /\ qlr \subseteq Queue /\ q_msgcnt \in [Queue -> Int]
      BY <2>1 DEF MxKept, TypeOK
    <3>2. CASE MakeQ(p)
      BY <3>1, <3>2 DEF MakeQ, bufVars
    <3>3. CASE DeleteQ(p)
      BY <3>1, <3>3 DEF DeleteQ, bufVars
    <3> QED
      BY <1>2, <3>2, <3>3
  <2> QED
    BY <2>2, MxSame
<1>3. CASE ~ (Transfer(p) \/ MakeQ(p) \/ DeleteQ(p))
  <2>1. UNCHANGED <<qlr, q_msgcnt, q_buf>>
    BY <1>3 DEF Kernel, UserCall, AbortSpec, TerminateEntry, NoAbort, Sync, Verify,
                QWait, Assign1, Assign2, Unsync, OkAbort, OkAbort2, AbortSpec2,
                Terminate, TSync, RlsMx, TUnsync, TermAct, queueVars, bufVars
  <2> QED
    BY <2>1, MxSame DEF MxKept
<1> QED
  BY <1>1, <1>2, <1>3

LEMMA OwnersInductive == Spec => [](OwnerRuns /\ MxKept)
<1>1. Init => OwnerRuns /\ MxKept
  BY DEF Init, OwnerRuns, MxKept, NoOp
<1>2. TypeOK /\ QueueMutex /\ ListInv /\ CountInv /\ OwnerRuns /\ MxKept /\ [Next]_vars
        => (OwnerRuns /\ MxKept)'
  <2> SUFFICES ASSUME TypeOK, QueueMutex, ListInv, CountInv, OwnerRuns, MxKept,
                      [Next]_vars
               PROVE  OwnerRuns' /\ MxKept'
    OBVIOUS
  <2>1. CASE Next
    BY <2>1, StepOwner, StepMx DEF Next
  <2>2. CASE UNCHANGED vars
    BY <2>2 DEF vars, syncVars, queueVars, OwnerRuns, MxKept
  <2> QED
    BY <2>1, <2>2
<1> QED
  BY <1>1, <1>2, TypeCorrect, MutualExclusion, ListsInductive, CountsInductive, PTL
     DEF Spec

\* Neither q_spb nor the message of an MX queue is ever held by a process that
\* sleeps for them or is gone: terminate gives back every MX queue first, and
\* q_spb is free only when no process waits for it.
THEOREM OwnersKept == Spec => []OwnersSound
<1>1. MxKept => MxConserved
  BY DEF MxKept, MxConserved, Gone
<1>2. OwnerRuns /\ MxKept => OwnersSound
  BY <1>1 DEF OwnersSound
<1> QED
  BY <1>2, OwnersInductive, PTL

----------------------------------------------------------------------------
(* What the calls under way keep.                                          *)

OneOfCalls(p, o) ==
  \/ o = NoOp
  \/ o \in Calls[p]
  \/ o \in Op /\ o.kind = "release" /\ o.q \in Mx

\* Where a process is before it moves the message of its call.
ToTransfer == {"noabort", "sync", "syncwait", "body", "dqwait", "nqwait",
               "assigned", "transfer"}

WritesMx(o) == o.kind \in {"write", "release"} /\ o.q \in Mx

\* Only its owner is on its way to write an MX queue.
CallInv ==
  \A p \in Proc :
    /\ OneOfCalls(p, op[p])
    /\ pc[p] \in ToTransfer /\ WritesMx(op[p]) => q_buf[op[p].q] = p

LEMMA CallFlow ==
  ASSUME TypeOK, QueueMutex, ListInv, NEW p \in Proc,
         UserCall(p) \/ AbortSpec(p) \/ TerminateEntry(p) \/ Kernel(p),
         NEW x \in Proc, OneOfCalls(x, op[x])
  PROVE  /\ OneOfCalls(x, op'[x])
         /\ pc'[x] \in ToTransfer =>
              \/ op'[x] = op[x] /\ pc[x] \in ToTransfer
              \/ WritesMx(op'[x]) => q_buf[op'[x].q] = x
<1> USE DEF TypeOK, ToTransfer, Goto
<1>1. CASE UserCall(p)
  <2>1. PICK o \in Calls[p] : /\ (o.kind = "write" /\ o.q \in Mx) => q_buf[o.q] = p
                              /\ Call(p, o)
    BY <1>1 DEF UserCall
  <2>2. o.kind # "release"
    BY CallsAssumption
  <2>3. op' = [op EXCEPT ![p] = o] /\ pc' = [pc EXCEPT ![p] = "noabort"]
    BY <2>1 DEF Call
  <2>4. OneOfCalls(p, o) /\ (WritesMx(o) => q_buf[o.q] = p)
    BY <2>1, <2>2 DEF OneOfCalls, WritesMx
  <2> QED
    BY <2>3, <2>4
<1>2. CASE RlsMx(p)
  <2>1. CASE Owned(p) = {} /\ Goto(p, "tunsync") /\ UNCHANGED op
    BY <2>1
  <2>2. CASE \E q \in Owned(p) :
               Call(p, [kind |-> "release", q |-> q, cond |-> FALSE, msg |-> NoMsg])
    <3>1. PICK q \in Owned(p) :
            Call(p, [kind |-> "release", q |-> q, cond |-> FALSE, msg |-> NoMsg])
      BY <2>2
    <3> DEFINE o == [kind |-> "release", q |-> q, cond |-> FALSE, msg |-> NoMsg]
    <3>2. o \in Op /\ q \in Mx /\ q_buf[q] = p
      BY DEF Owned, Op
    <3>3. OneOfCalls(p, o) /\ (WritesMx(o) => q_buf[o.q] = p)
      BY <3>2 DEF OneOfCalls, WritesMx
    <3>4. op' = [op EXCEPT ![p] = o] /\ pc' = [pc EXCEPT ![p] = "noabort"]
      BY <3>1 DEF Call
    <3> HIDE DEF o
    <3> QED
      BY <3>3, <3>4
  <2> QED
    BY <1>2, <2>1, <2>2 DEF RlsMx
<1>3. CASE OkAbort(p) \/ OkAbort2(p)
  <2>1. /\ \E l \in {"okabort2", "terminate", "rlsmx", "user"} :
             pc' = [pc EXCEPT ![p] = l]
        /\ op' = op \/ op' = [op EXCEPT ![p] = NoOp]
    BY <1>3 DEF OkAbort, OkAbort2, Return
  <2> QED
    BY <2>1 DEF OneOfCalls
<1>4. CASE QWait(p)
  <2>1. PICK l \in {"terminate", "dqwait", "nqwait"} : WakeAndGoto(p, l)
    BY <1>4 DEF QWait
  <2>2. pc[p] = "body" /\ \A y \in Proc \ {p} : op'[y] = op[y]
    BY <1>4 DEF QWait
  <2>3. \/ op'[p] = op[p]
        \/ op'[p] = NoOp /\ WakeAndGoto(p, "terminate")
    BY <1>4 DEF QWait
  <2>4. pc[p] \in Free
    BY <2>2, PcLabels DEF Free, Asleep, SyncSleep, ListSleep
  <2>5. \A y \in Proc \ {p} : pc'[y] = pc[y] \/ WokenTo(y)
    BY <2>1, <2>4, WakesOne DEF ListInv
  <2>6. CASE x = p
    BY <2>2, <2>3, <2>6 DEF WakeAndGoto, OneOfCalls
  <2>7. CASE x # p
    BY <2>2, <2>5, <2>7 DEF WokenTo
  <2> QED
    BY <2>6, <2>7
<1>5. CASE AbortSpec(p)
  <2>1. PICK t \in Proc :
          \/ pc' = pc /\ op' = op
          \/ /\ pc' = [pc EXCEPT ![p] = "abort2", ![t] = "limbo"]
             /\ op' = [op EXCEPT ![t] = NoOp]
    BY <1>5 DEF AbortSpec
  <2> QED
    BY <2>1 DEF OneOfCalls
<1>6. CASE Unsync(p) \/ TUnsync(p) \/ TermAct(p)
  <2>1. /\ op' = op /\ pc[p] \in {"unsync", "tunsync", "term2"}
        /\ \E l \in {"okabort", "term2", "dead"} :
             WakeAndGoto(p, l) \/ pc' = [pc EXCEPT ![p] = l]
    BY <1>6 DEF Unsync, TUnsync, TermAct, UnsyncAndGoto
  <2>2. pc[p] \in Free
    BY <2>1, PcLabels DEF Free, Asleep, SyncSleep, ListSleep
  <2>3. /\ \A y \in Proc \ {p} : pc'[y] = pc[y] \/ WokenTo(y)
        /\ pc'[p] \notin ToTransfer
    <3>1. CASE \E l \in {"okabort", "term2", "dead"} : WakeAndGoto(p, l)
      BY <2>2, <3>1, WakesOne DEF ListInv
    <3>2. CASE \E l \in {"okabort", "term2", "dead"} : pc' = [pc EXCEPT ![p] = l]
      BY <3>2
    <3> QED
      BY <2>1, <3>1, <3>2
  <2> QED
    BY <2>1, <2>3 DEF WokenTo
<1>7. CASE TerminateEntry(p) \/ NoAbort(p) \/ Sync(p) \/ TSync(p)
  <2>1. /\ op' = op
        /\ \/ pc' = pc
           \/ pc' = [pc EXCEPT ![p] = "terminate"]
           \/ pc[p] = "noabort" /\ pc' = [pc EXCEPT ![p] = "sync"]
           \/ pc[p] = "sync" /\ \E l \in {"body", "syncwait"} : pc' = [pc EXCEPT ![p] = l]
           \/ \E l \in {"rlsmx", "tsyncwait"} : pc' = [pc EXCEPT ![p] = l]
    BY <1>7 DEF TerminateEntry, NoAbort, Sync, TSync, SyncOrSleep
  <2> QED
    BY <2>1
<1>8. CASE MakeQ(p) \/ DeleteQ(p) \/ Verify(p) \/ Transfer(p) \/ Assign1(p)
  <2>1. /\ op' = op /\ pc[p] \in {"body", "transfer", "assign1"}
        /\ \E l \in {"unsync", "transfer", "assign1", "assign2"} :
             pc' = [pc EXCEPT ![p] = l] /\ (l = "transfer" => pc[p] = "body")
    BY <1>8 DEF MakeQ, DeleteQ, Verify, Transfer, Assign1
  <2> QED
    BY <2>1
<1>9. CASE AbortSpec2(p) \/ Terminate(p)
  BY <1>9 DEF AbortSpec2, Terminate
<1>10. CASE Assign2(p)
  <2>1. /\ op' = op /\ pc[p] = "assign2" /\ (Reads(p) \/ Writes(p))
        /\ \/ pc' = [pc EXCEPT ![p] = "unsync"]
           \/ /\ pc' = [pc EXCEPT ![p] = "unsync", ![Head(OtherSide(p))] = "assigned"]
              /\ OtherSide(p) # <<>>
    BY <1>10 DEF Assign2
  <2>2. OtherSide(p) # <<>> =>
          Head(OtherSide(p)) \in Proc /\ pc[Head(OtherSide(p))] \in ListSleep
    BY <2>1, OtherSideType, ChosenAsleep DEF Chosen, ListInv, PlacesMatch
  <2> QED
    BY <2>1, <2>2 DEF ListSleep
<1> QED
  BY <1>1, <1>2, <1>3, <1>4, <1>5, <1>6, <1>7, <1>8, <1>9,
     <1>10 DEF Kernel

\* q_buf of an MX queue changes only when its message is moved, by a process
\* that found the queue free or that owns it.
LEMMA StepCall ==
  ASSUME TypeOK, QueueMutex, ListInv, CountInv, MxKept, CallInv, NEW p \in Proc,
         UserCall(p) \/ AbortSpec(p) \/ TerminateEntry(p) \/ Kernel(p)
  PROVE  CallInv'
<1> SUFFICES ASSUME NEW x \in Proc
             PROVE  /\ OneOfCalls(x, op'[x])
                    /\ pc'[x] \in ToTransfer /\ WritesMx(op'[x])
                         => q_buf'[op'[x].q] = x
  BY DEF CallInv, OneOfCalls
<1>1. OneOfCalls(x, op[x])
  BY DEF CallInv
<1>2. /\ OneOfCalls(x, op'[x])
      /\ pc'[x] \in ToTransfer =>
           \/ op'[x] = op[x] /\ pc[x] \in ToTransfer
           \/ WritesMx(op'[x]) => q_buf[op'[x].q] = x
  BY <1>1, CallFlow
<1>3. pc'[x] \in ToTransfer /\ WritesMx(op'[x]) => q_buf[op'[x].q] = x
  BY <1>2 DEF CallInv
<1>4. CASE Transfer(p)
  <2>1. /\ pc[p] = "transfer" /\ pc' = [pc EXCEPT ![p] = "assign1"]
        /\ pc \in [Proc -> PC] /\ op' = op /\ (Reads(p) \/ Writes(p))
        /\ q_buf' = q_buf \/ \E y : q_buf' = [q_buf EXCEPT ![op[p].q] = y]
        /\ op[p].q \in Mx \/ q_buf' = q_buf
        /\ DOMAIN q_buf = Queue /\ Mx \subseteq Queue
    BY <1>4, QueueAssumption DEF Transfer, Goto, TypeOK
  <2>2. SUFFICES ASSUME pc'[x] \in ToTransfer, WritesMx(op'[x]),
                        op[p].q \in Mx, op[x].q = op[p].q
                 PROVE  FALSE
    BY <1>2, <1>3, <2>1 DEF WritesMx
  <2>3. x # p
    BY <2>1, <2>2 DEF ToTransfer
  <2>4. q_buf[op[p].q] = x
    BY <1>3, <2>1, <2>2
  <2>5. CASE Reads(p)
    <3>1. q_msgcnt[op[p].q] # 0
      BY <2>1, <2>5 DEF CountInv, ReadyKept, NotReady
    <3>2. q_buf[op[p].q] = NoProc
      BY <2>2, <3>1 DEF MxKept
    <3> QED
      BY <2>4, <3>2, ProcAssumption
  <2>6. CASE Writes(p)
    <3>1. q_buf[op[p].q] = p
      BY <2>1, <2>2, <2>6 DEF CallInv, ToTransfer, WritesMx, Writes
    <3> QED
      BY <2>3, <2>4, <3>1
  <2> QED
    BY <2>1, <2>5, <2>6
<1>5. CASE ~ Transfer(p)
  <2>1. q_buf' = q_buf
    BY <1>5 DEF UserCall, AbortSpec, TerminateEntry, Kernel, NoAbort, Sync, MakeQ,
         DeleteQ, Verify, QWait, Assign1, Assign2, Unsync, OkAbort, OkAbort2,
         AbortSpec2, Terminate, TSync, RlsMx, TUnsync, TermAct, queueVars, bufVars
  <2> QED
    BY <1>2, <1>3, <2>1
<1> QED
  BY <1>4, <1>5

LEMMA CallsInductive == Spec => []CallInv
<1>1. Init => CallInv
  BY DEF Init, CallInv, OneOfCalls, ToTransfer
<1>2. TypeOK /\ QueueMutex /\ ListInv /\ CountInv /\ MxKept /\ CallInv /\ [Next]_vars
        => CallInv'
  <2> SUFFICES ASSUME TypeOK, QueueMutex, ListInv, CountInv, MxKept, CallInv,
                      [Next]_vars
               PROVE  CallInv'
    OBVIOUS
  <2>1. CASE Next
    BY <2>1, StepCall DEF Next
  <2>2. CASE UNCHANGED vars
    BY <2>2 DEF vars, queueVars, CallInv, OneOfCalls
  <2> QED
    BY <2>1, <2>2
<1> QED
  BY <1>1, <1>2, TypeCorrect, MutualExclusion, ListsInductive, CountsInductive,
     OwnersInductive, PTL DEF Spec

----------------------------------------------------------------------------
(* The circular buffer is a sequence.                                      *)

\* n cells of the buffer of q, from index out on.
Window(cells, out, n, q) == [i \in 1 .. n |-> cells[Wrapped(out + i - 1, q)]]

LEMMA WindowType ==
  ASSUME NEW q \in Queue, NEW S, NEW cells \in [0 .. NMsgs[q] - 1 -> S],
         NEW out \in 0 .. NMsgs[q] - 1, NEW n \in 0 .. NMsgs[q]
  PROVE  Window(cells, out, n, q) \in Seq(S)
<1>0. NMsgs[q] \in Nat \ {0}
  BY NMsgsAssumption
<1>1. \A i \in 1 .. n : cells[Wrapped(out + i - 1, q)] \in S
  BY <1>0 DEF Wrapped
<1>2. Window(cells, out, n, q) \in [1 .. n -> S]
  BY <1>1 DEF Window
<1>3. n \in Nat
  BY <1>0
<1> HIDE DEF Window
<1> QED
  BY <1>2, <1>3

LEMMA WindowLen ==
  ASSUME NEW cells, NEW out, NEW n \in Nat, NEW q
  PROVE  Len(Window(cells, out, n, q)) = n
  BY DEF Window

\* Append, under a name of its own: a lemma with it can then be cited.
Extended(s, m) == Append(s, m)

\* Two buffers differ at place k at most.
SameBut(new, cells, k, q) ==
  \A i \in 0 .. NMsgs[q] - 1 : i # k => new[i] = cells[i]

\* The messages from place out on, and one behind them.
OneMore(new, cells, out, n, q) ==
  Window(new, out, n + 1, q) = Extended(Window(cells, out, n, q), new[Wrapped(out + n, q)])

\* A message written behind the last one is appended.
LEMMA WindowAppend ==
  ASSUME NEW q \in Queue, NEW cells \in [0 .. NMsgs[q] - 1 -> Msg \cup {NoMsg}],
         NEW out \in 0 .. NMsgs[q] - 1, NEW n \in 0 .. NMsgs[q] - 1,
         NEW new \in [0 .. NMsgs[q] - 1 -> Msg \cup {NoMsg}],
         SameBut(new, cells, Wrapped(out + n, q), q)
  PROVE  OneMore(new, cells, out, n, q)
<1> USE DEF SameBut, OneMore
<1> PICK size \in Nat \ {0} : size = NMsgs[q]
  BY NMsgsAssumption
<1> PICK k : k = Wrapped(out + n, q)
  OBVIOUS
<1> DEFINE S == Msg \cup {NoMsg}
           m == new[k]
           s == Window(new, out, n + 1, q)
           t == Window(cells, out, n, q)
<1>1. k \in 0 .. size - 1
  BY DEF Wrapped
<1>0. cells \in [0 .. size - 1 -> S] /\ m \in S
  BY <1>1
<1>2. new \in [0 .. size - 1 -> S]
  OBVIOUS
<1> HIDE DEF S
<1>3. s \in Seq(S) /\ Len(s) = n + 1
  <2>1. n + 1 \in 0 .. size /\ n + 1 \in Nat
    OBVIOUS
  <2>2. s \in Seq(S)
    BY <1>2, <2>1, WindowType
  <2> QED
    BY <2>1, <2>2, WindowLen
<1>4. t \in Seq(S) /\ Len(t) = n
  <2>1. n \in 0 .. size /\ n \in Nat
    OBVIOUS
  <2>2. t \in Seq(S)
    BY <1>0, <2>1, WindowType
  <2> QED
    BY <2>1, <2>2, WindowLen
<1>5. /\ Append(t, m) \in Seq(S) /\ Len(Append(t, m)) = n + 1
      /\ \A i \in 1 .. n : Append(t, m)[i] = t[i]
      /\ Append(t, m)[n + 1] = m
  <2> HIDE DEF t
  <2> QED
    BY <1>0, <1>4, AppendProperties
<1>6. ASSUME NEW i \in 1 .. n + 1
      PROVE  s[i] = Append(t, m)[i]
  <2> DEFINE at == Wrapped(out + i - 1, q)
  <2>1. s[i] = new[at] /\ at \in 0 .. size - 1
    BY DEF Window, Wrapped
  <2>2. CASE i = n + 1
    <3>1. at = k
      BY <2>2
    <3> QED
      BY <1>0, <1>1, <1>5, <2>1, <2>2, <3>1
  <2>3. CASE i \in 1 .. n
    <3>1. at # k
      BY <2>3 DEF Wrapped
    <3>2. t[i] = cells[at]
      BY <2>3 DEF Window
    <3> QED
      BY <1>0, <1>1, <1>5, <2>1, <2>3, <3>1, <3>2
  <2>4. i = n + 1 \/ i \in 1 .. n
    OBVIOUS
  <2> HIDE DEF s, t
  <2> QED
    BY <2>2, <2>3, <2>4
<1>7. s = Append(t, m)
  <2> HIDE DEF s, t
  <2> QED
    BY <1>3, <1>5, <1>6, SeqEqual
<1> QED
  BY <1>7 DEF Extended

\* A message read from index out leaves the rest, from the next index on.
LEMMA WindowTail ==
  ASSUME NEW q \in Queue, NEW cells \in [0 .. NMsgs[q] - 1 -> Msg \cup {NoMsg}],
         NEW out \in 0 .. NMsgs[q] - 1, NEW n \in 1 .. NMsgs[q]
  PROVE  /\ Window(cells, out, n, q) # <<>>
         /\ Head(Window(cells, out, n, q)) = cells[out]
         /\ Window(cells, NextOut(out, q), n - 1, q) = Tail(Window(cells, out, n, q))
<1> PICK size \in Nat \ {0} : size = NMsgs[q]
  BY NMsgsAssumption
<1> PICK k : k = NextOut(out, q)
  OBVIOUS
<1> DEFINE S == Msg \cup {NoMsg}
           s == Window(cells, k, n - 1, q)
           t == Window(cells, out, n, q)
<1>0. cells \in [0 .. size - 1 -> S]
  OBVIOUS
<1> HIDE DEF S
<1>1. /\ k \in 0 .. size - 1 /\ n - 1 \in 0 .. size /\ n \in 0 .. size
      /\ n - 1 \in Nat /\ n \in Nat
  BY DEF NextOut
<1>2. s \in Seq(S) /\ Len(s) = n - 1
  <2>1. s \in Seq(S)
    BY <1>0, <1>1, WindowType
  <2> QED
    BY <1>1, <2>1, WindowLen
<1>3. t \in Seq(S) /\ Len(t) = n
  <2>1. t \in Seq(S)
    BY <1>0, <1>1, WindowType
  <2> QED
    BY <1>1, <2>1, WindowLen
<1>4. t[1] = cells[out]
  BY DEF Window, Wrapped
<1>5. ASSUME NEW i \in 1 .. n - 1
      PROVE  s[i] = t[i + 1]
  <2>1. Wrapped(k + i - 1, q) = Wrapped(out + (i + 1) - 1, q)
    BY DEF Wrapped, NextOut
  <2>2. s[i] = cells[Wrapped(k + i - 1, q)]
    BY DEF Window
  <2>3. t[i + 1] = cells[Wrapped(out + (i + 1) - 1, q)]
    BY DEF Window
  <2> QED
    BY <2>1, <2>2, <2>3
<1> HIDE DEF s, t
<1>6. t # <<>>
  BY <1>3
<1>7. /\ Tail(t) \in Seq(S) /\ Len(Tail(t)) = n - 1 /\ Head(t) = t[1]
      /\ \A i \in 1 .. n - 1 : Tail(t)[i] = t[i + 1]
  BY <1>3, <1>6, HeadTailProperties
<1> QED
  <2>1. s = Tail(t)
    BY <1>2, <1>5, <1>7, SeqEqual
  <2> QED
    BY <1>4, <1>6, <1>7, <2>1 DEF s, t

----------------------------------------------------------------------------
(* Each step of the queue system is a step of the service, or none.        *)

LEMMA ContentsWindow ==
  ASSUME NEW q
  PROVE  /\ Contents(q) =
              IF q \in qlr \ Mx
              THEN Window(q_data[q], q_msgout[q], q_msgcnt[q], q)
              ELSE <<>>
         /\ Contents(q)' =
              IF q \in qlr' \ Mx
              THEN Window(q_data'[q], q_msgout'[q], q_msgcnt'[q], q)
              ELSE <<>>
<1>1. Contents(q) =
        IF q \in qlr \ Mx
        THEN Window(q_data[q], q_msgout[q], q_msgcnt[q], q)
        ELSE <<>>
  BY DEF Contents, Window
<1>2. Contents(q)' =
        IF q \in qlr' \ Mx
        THEN Window(q_data'[q], q_msgout'[q], q_msgcnt'[q], q)
        ELSE <<>>
  BY DEF Contents, Window
<1> QED
  BY <1>1, <1>2

LEMMA EmptyWindow ==
  ASSUME NEW cells, NEW out, NEW q
  PROVE  Window(cells, out, 0, q) = <<>>
  BY DEF Window

\* What the service sees of a step.
LEMMA ServiceSame ==
  ASSUME UNCHANGED <<qlr, q_msgcnt, q_msgout, q_data, q_buf, ubuf>>
  PROVE  UNCHANGED Service!vars
<1>1. \A q : Contents(q)' = Contents(q)
  BY ContentsWindow
<1>2. [q \in Queue |-> Contents(q)]' = [q \in Queue |-> Contents(q)]
  BY <1>1
<1> QED
  BY <1>2 DEF Service!vars

LEMMA MakeService ==
  ASSUME TypeOK, MxKept, NEW p \in Proc, MakeQ(p)
  PROVE  Service!Next \/ UNCHANGED Service!vars
<1> PICK q : q = op[p].q
  OBVIOUS
<1>1. /\ q \in Queue /\ q \notin Mx /\ UNCHANGED <<q_data, q_buf, ubuf>>
      /\ DOMAIN q_msgcnt = Queue /\ DOMAIN q_msgout = Queue
  BY DEF MakeQ, TypeOK, MxKept, Op, NoOp
<1>2. CASE UNCHANGED <<qlr, q_dq, q_nq, q_msgcnt, q_msgout>>
  BY <1>1, <1>2, ServiceSame
<1>3. CASE ~ UNCHANGED <<qlr, q_dq, q_nq, q_msgcnt, q_msgout>>
  <2>1. /\ q \notin qlr /\ qlr' = qlr \cup {q}
        /\ q_msgcnt' = [q_msgcnt EXCEPT ![q] = 0]
        /\ q_msgout' = [q_msgout EXCEPT ![q] = 0]
    BY <1>3 DEF MakeQ
  <2>2. Contents(q)' = <<>> /\ Contents(q) = <<>>
    BY <1>1, <2>1, ContentsWindow, EmptyWindow
  <2>3. \A r \in Queue \ {q} : Contents(r)' = Contents(r)
    BY <1>1, <2>1, ContentsWindow
  <2>4. \A r \in Queue : Contents(r)' = Contents(r)
    BY <2>2, <2>3
  <2>5. [r \in Queue |-> Contents(r)]' = [r \in Queue |-> Contents(r)]
    BY <2>4
  <2>6. Service!Make(q)
    BY <1>1, <2>1, <2>5 DEF Service!Make
  <2> QED
    BY <1>1, <2>6 DEF Service!Next
<1> QED
  BY <1>2, <1>3

LEMMA DeleteService ==
  ASSUME TypeOK, NEW p \in Proc, DeleteQ(p)
  PROVE  Service!Next \/ UNCHANGED Service!vars
<1> PICK q : q = op[p].q
  OBVIOUS
<1>1. q \in Queue /\ UNCHANGED <<q_msgcnt, q_msgout, q_data, q_buf, ubuf>>
  BY DEF DeleteQ, TypeOK, Op, NoOp, bufVars
<1>2. CASE qlr' = qlr
  BY <1>1, <1>2, ServiceSame
<1>3. CASE qlr' # qlr
  <2>1. qlr' = qlr \ {q} /\ q \in qlr
    BY <1>3 DEF DeleteQ
  <2>2. Contents(q)' = <<>>
    BY <2>1, ContentsWindow
  <2>3. \A r \in Queue \ {q} : Contents(r)' = Contents(r)
    BY <1>1, <2>1, ContentsWindow
  <2>4. [r \in Queue |-> Contents(r)]'
          = [[r \in Queue |-> Contents(r)] EXCEPT ![q] = <<>>]
    BY <1>1, <2>2, <2>3
  <2>5. Service!Delete(q)
    BY <1>1, <2>1, <2>4 DEF Service!Delete
  <2> QED
    BY <1>1, <2>5 DEF Service!Next
<1> QED
  BY <1>2, <1>3

\* readq and writeq move the oldest message out of a queue, and a message
\* behind the newest; the reader of an MX queue takes it when it is free, and
\* its writer is the process that took it.
LEMMA TransferService ==
  ASSUME TypeOK, ListInv, CountInv, MxKept, CallInv, NEW p \in Proc, Transfer(p)
  PROVE  Service!Next
<1> PICK q : q = op[p].q
  OBVIOUS
<1> DEFINE n == q_msgcnt[q]
           out == q_msgout[q]
<1>1. /\ q \in Queue /\ q \in qlr /\ pc[p] = "transfer"
      /\ qlr' = qlr /\ op[p] \in Op
      /\ (Reads(p) \/ Writes(p)) /\ ~ NotReady(p)
  BY DEF Transfer, TypeOK, Op, NoOp, Reads, Writes, ListInv, QueueStays, CountInv,
         ReadyKept
<1>2. /\ NMsgs[q] \in Nat \ {0} /\ n \in 0 .. NMsgs[q] /\ out \in 0 .. NMsgs[q] - 1
      /\ q_data[q] \in [0 .. NMsgs[q] - 1 -> Msg \cup {NoMsg}]
  <2>1. q_msgout[q] \in Nat /\ q_msgout[q] < NMsgs[q]
    BY <1>1 DEF TypeOK
  <2> QED
    BY <1>1, <2>1, NMsgsAssumption DEF TypeOK, CountInv, CountsInRange
<1>3. /\ DOMAIN q_msgcnt = Queue /\ DOMAIN q_msgout = Queue /\ DOMAIN q_data = Queue
      /\ DOMAIN q_buf = Queue /\ DOMAIN ubuf = Proc /\ ~ (Reads(p) /\ Writes(p))
  BY DEF TypeOK, Reads, Writes
<1>4. CASE q \in Mx
  <2>1. /\ \A r \in Queue \ {q} : /\ q_msgcnt'[r] = q_msgcnt[r]
                                  /\ q_msgout'[r] = q_msgout[r]
        /\ UNCHANGED <<q_data, ubuf>>
    BY <1>3, <1>4 DEF Transfer
  <2>2. \A r \in Queue : Contents(r)' = Contents(r)
    BY <1>1, <1>4, <2>1, ContentsWindow
  <2>3. [r \in Queue |-> Contents(r)]' = [r \in Queue |-> Contents(r)]
    BY <2>2
  <2>4. CASE Reads(p)
    <3>1. q_buf' = [q_buf EXCEPT ![q] = p]
      BY <1>3, <1>4, <2>4 DEF Transfer
    <3>2. q_buf[q] = NoProc
      BY <1>1, <1>4, <2>4 DEF NotReady, MxKept
    <3>3. Service!Acquire(p, q)
      BY <1>1, <1>4, <2>1, <2>3, <3>1, <3>2 DEF Service!Acquire
    <3> QED
      BY <1>1, <3>3 DEF Service!Next
  <2>5. CASE Writes(p)
    <3>1. q_buf' = [q_buf EXCEPT ![q] = NoProc]
      BY <1>3, <1>4, <2>5 DEF Transfer
    <3>2. q_buf[q] = p
      BY <1>1, <1>4, <2>5 DEF CallInv, ToTransfer, WritesMx, Writes
    <3>3. Service!Release(p, q)
      BY <1>1, <1>4, <2>1, <2>3, <3>1, <3>2 DEF Service!Release
    <3> QED
      BY <1>1, <3>3 DEF Service!Next
  <2> QED
    BY <1>1, <2>4, <2>5
<1>5. CASE q \notin Mx
  <2>1. Contents(q) = Window(q_data[q], out, n, q)
    BY <1>1, <1>5, ContentsWindow
  <2>2. Contents(q)' = Window(q_data'[q], q_msgout'[q], q_msgcnt'[q], q)
    BY <1>1, <1>5, ContentsWindow
  <2>3. /\ \A r \in Queue \ {q} : /\ q_msgcnt'[r] = q_msgcnt[r]
                                  /\ q_msgout'[r] = q_msgout[r]
                                  /\ q_data'[r] = q_data[r]
        /\ q_buf' = q_buf
    BY <1>3, <1>5 DEF Transfer
  <2>4. \A r \in Queue \ {q} : Contents(r)' = Contents(r)
    BY <1>1, <2>3, ContentsWindow
  <2>5. CASE Reads(p)
    <3>1. /\ q_msgcnt'[q] = n - 1 /\ q_msgout'[q] = NextOut(out, q)
          /\ q_data' = q_data /\ ubuf' = [ubuf EXCEPT ![p] = q_data[q][out]]
      BY <1>1, <1>3, <1>5, <2>5 DEF Transfer
    <3>2. n \in 1 .. NMsgs[q]
      BY <1>1, <1>2, <2>5 DEF NotReady
    <3>3. /\ Window(q_data[q], out, n, q) # <<>>
          /\ Head(Window(q_data[q], out, n, q)) = q_data[q][out]
          /\ Window(q_data[q], NextOut(out, q), n - 1, q)
               = Tail(Window(q_data[q], out, n, q))
      <4>1. PICK cells \in [0 .. NMsgs[q] - 1 -> Msg \cup {NoMsg}],
                 first \in 0 .. NMsgs[q] - 1, count \in 1 .. NMsgs[q] :
              cells = q_data[q] /\ first = out /\ count = n
        BY <1>2, <3>2
      <4>2. Window(cells, first, count, q) # <<>>
        BY <1>1, WindowTail
      <4>3. Head(Window(cells, first, count, q)) = cells[first]
        BY <1>1, WindowTail
      <4>4. Window(cells, NextOut(first, q), count - 1, q) = Tail(Window(cells, first, count, q))
        BY <1>1, WindowTail
      <4> QED
        BY <4>1, <4>2, <4>3, <4>4
    <3>4. /\ Contents(q) # <<>> /\ Head(Contents(q)) = q_data[q][out]
          /\ Contents(q)' = Tail(Contents(q))
      BY <2>1, <2>2, <3>1, <3>3
    <3>5. [r \in Queue |-> Contents(r)]'
            = [[r \in Queue |-> Contents(r)] EXCEPT ![q] = Tail(Contents(q))]
      BY <1>1, <2>4, <3>4
    <3>6. Service!Receive(p, q)
      BY <1>1, <1>5, <2>3, <3>1, <3>4, <3>5 DEF Service!Receive
    <3> QED
      BY <1>1, <3>6 DEF Service!Next
  <2>6. CASE Writes(p)
    <3> PICK m : m = op[p].msg
      OBVIOUS
    <3> DEFINE k == Wrapped(out + n, q)
    <3>1. m \in Msg
      <4>1. OneOfCalls(p, op[p]) /\ op[p] # NoOp
        BY <2>6 DEF CallInv, Writes, NoOp
      <4>2. op[p] \in Calls[p]
        BY <1>5, <4>1 DEF OneOfCalls
      <4> QED
        BY <1>5, <2>6, <4>2, CallsAssumption DEF Writes
    <3>2. /\ q_msgcnt'[q] = n + 1 /\ q_msgout' = q_msgout /\ ubuf' = ubuf
          /\ q_data'[q] = [q_data[q] EXCEPT ![k] = m]
      BY <1>1, <1>3, <1>5, <2>6 DEF Transfer
    <3>3. n \in 0 .. NMsgs[q] - 1
      BY <1>1, <1>2, <1>3, <2>6 DEF NotReady
    <3>4. Window(q_data'[q], out, n + 1, q) = Append(Window(q_data[q], out, n, q), m)
      <4> DEFINE N == NMsgs[q] - 1
                 Cells == [0 .. NMsgs[q] - 1 -> Msg \cup {NoMsg}]
      <4>1. k \in 0 .. N
        BY <1>2, <3>3 DEF Wrapped
      <4>2. /\ q_data'[q] \in Cells /\ q_data'[q][k] = m
            /\ \A i \in 0 .. N : i # k => q_data'[q][i] = q_data[q][i]
        <5> HIDE DEF k, n, out
        <5> QED
          BY <1>2, <3>1, <3>2, <4>1
      <4>3. PICK cells \in Cells, new \in Cells, first \in 0 .. N, count \in 0 .. N :
              /\ cells = q_data[q] /\ new = q_data'[q]
              /\ first = out /\ count = n
        BY <1>2, <3>3, <4>2
      <4>4. SameBut(new, cells, Wrapped(first + count, q), q)
        BY <4>2, <4>3 DEF SameBut
      <4>5. OneMore(new, cells, first, count, q)
        <5>1. /\ q \in Queue /\ cells \in [0 .. NMsgs[q] - 1 -> Msg \cup {NoMsg}]
              /\ first \in 0 .. NMsgs[q] - 1 /\ count \in 0 .. NMsgs[q] - 1
              /\ new \in [0 .. NMsgs[q] - 1 -> Msg \cup {NoMsg}]
          BY <1>1, <4>4
        <5> HIDE DEF N, Cells
        <5> QED
          BY <4>4, <5>1, WindowAppend
      <4> QED
        BY <4>2, <4>3, <4>5 DEF Extended, OneMore
    <3>5. Len(Contents(q)) < NMsgs[q] /\ Contents(q)' = Append(Contents(q), m)
      <4>1. Len(Window(q_data[q], out, n, q)) = n
        BY <1>2, WindowLen
      <4>2. Contents(q)' = Window(q_data'[q], out, n + 1, q)
        BY <2>2, <3>2, Zenon
      <4>3. Contents(q)' = Append(Contents(q), m)
        BY <2>1, <3>4, <4>2, Zenon
      <4>4. Len(Contents(q)) < NMsgs[q]
        BY <1>2, <2>1, <3>3, <4>1
      <4> QED
        BY <4>3, <4>4
    <3>6. [r \in Queue |-> Contents(r)]'
            = [[r \in Queue |-> Contents(r)] EXCEPT ![q] = Append(Contents(q), m)]
      BY <1>1, <2>4, <3>5
    <3>7. Service!Send(q, m)
      BY <1>1, <1>5, <2>3, <3>2, <3>5, <3>6 DEF Service!Send
    <3> QED
      BY <1>1, <3>1, <3>7 DEF Service!Next
  <2> QED
    BY <1>1, <2>5, <2>6
<1> QED
  BY <1>4, <1>5

LEMMA StepService ==
  ASSUME TypeOK, ListInv, CountInv, MxKept, CallInv, NEW p \in Proc,
         UserCall(p) \/ AbortSpec(p) \/ TerminateEntry(p) \/ Kernel(p)
  PROVE  Service!Next \/ UNCHANGED Service!vars
<1>1. CASE MakeQ(p)
  BY <1>1, MakeService
<1>2. CASE DeleteQ(p)
  BY <1>2, DeleteService
<1>3. CASE Transfer(p)
  BY <1>3, TransferService
<1>4. CASE ~ (MakeQ(p) \/ DeleteQ(p) \/ Transfer(p))
  <2>1. UNCHANGED <<qlr, q_msgcnt, q_msgout, q_data, q_buf, ubuf>>
    BY <1>4 DEF UserCall, AbortSpec, TerminateEntry, Kernel, NoAbort, Sync, Verify,
         QWait, Assign1, Assign2, Unsync, OkAbort, OkAbort2, AbortSpec2, Terminate,
         TSync, RlsMx, TUnsync, TermAct, queueVars, bufVars
  <2> QED
    BY <2>1, ServiceSame
<1> QED
  BY <1>1, <1>2, <1>3, <1>4

\* The queue system implements the service its users rely on: every step of the
\* calls, the hand-over of q_spb, the aborts and the terminations is one
\* message sent or received, an MX queue acquired or released by its owner, a
\* queue made or deleted, or nothing that a user can see.
THEOREM ServiceImplemented == Spec => Implements
<1>1. Init => Service!Init
  <2> SUFFICES ASSUME Init PROVE Service!Init
    OBVIOUS
  <2>1. \A q \in Queue : Contents(q) = <<>>
    <3>1. \A q \in Queue \ Mx : q_msgcnt[q] = 0
      BY DEF Init
    <3> QED
      BY <3>1, ContentsWindow, EmptyWindow
  <2>2. [q \in Queue |-> Contents(q)] = [q \in Queue |-> <<>>]
    BY <2>1
  <2> QED
    BY <2>2 DEF Init, Service!Init
<1>2. TypeOK /\ ListInv /\ CountInv /\ MxKept /\ CallInv /\ [Next]_vars
        => [Service!Next]_(Service!vars)
  <2> SUFFICES ASSUME TypeOK, ListInv, CountInv, MxKept, CallInv, [Next]_vars
               PROVE  Service!Next \/ UNCHANGED Service!vars
    OBVIOUS
  <2>1. CASE Next
    BY <2>1, StepService DEF Next
  <2>2. CASE UNCHANGED vars
    BY <2>2, ServiceSame DEF vars, queueVars
  <2> QED
    BY <2>1, <2>2
<1> QED
  BY <1>1, <1>2, TypeCorrect, ListsInductive, CountsInductive, OwnersInductive,
     CallsInductive, PTL DEF Spec, Implements, Service!Spec
=============================================================================
