---------------------------- MODULE ConsoleProofs ----------------------------
(* Theorems of Console, for every set of processes, consoles, printers,     *)
(* priorities, flags, aborters and assigners: type correctness, the lists   *)
(* of waiting processes, the owners of devices, the output routine of the   *)
(* screens, and that the module implements Devices.                         *)
EXTENDS Console, ProcessListsProofs

----------------------------------------------------------------------------
(* The lists.                                                              *)

\* insert_process goes past an initial part of the list.
LEMMA PassedBound ==
  ASSUME NEW list \in Seq(Proc), NEW p \in Proc
  PROVE  Cardinality(Passed(list, p)) \in 0 .. Len(list)
<1>1. Passed(list, p) \in SUBSET (1 .. Len(list))
  BY DEF Passed
<1> QED
  BY <1>1, PlacesBound

LEMMA InsertMembers ==
  ASSUME NEW list \in Seq(Proc), NEW p \in Proc
  PROVE  /\ InsertProcess(list, p) \in Seq(Proc)
         /\ \A x : IsOn(InsertProcess(list, p), x) <=> x = p \/ IsOn(list, x)
         /\ Distinct(list) /\ ~ IsOn(list, p) => Distinct(InsertProcess(list, p))
  BY PassedBound, PlacedMembers DEF InsertProcess

\* wakeup_entry takes the first, if there is one.
LEMMA FirstType ==
  ASSUME NEW list \in Seq(Proc)
  PROVE  /\ Rest(list) \in Seq(Proc)
         /\ First(list) \in Proc \cup {NoProc}
  BY HeadTailProperties, EmptySeq DEF First, Rest

LEMMA FirstMembers ==
  ASSUME NEW list \in Seq(Proc), Distinct(list)
  PROVE  /\ \A x \in Proc : IsOn(Rest(list), x) <=> x # First(list) /\ IsOn(list, x)
         /\ Distinct(Rest(list))
         /\ list # <<>> => First(list) \in Proc /\ IsOn(list, First(list))
         /\ list = <<>> => First(list) = NoProc /\ Rest(list) = <<>>
<1>1. CASE list = <<>>
  BY <1>1, EmptyMembers DEF First, Rest
<1>2. CASE list # <<>>
  <2>1. /\ \A x : IsOn(Tail(list), x) <=> x # Head(list) /\ IsOn(list, x)
        /\ Distinct(Tail(list))
        /\ IsOn(list, Head(list))
    BY <1>2, TailMembers
  <2>2. Head(list) \in Proc
    BY <1>2, HeadTailProperties
  <2>3. First(list) = Head(list) /\ Rest(list) = Tail(list)
    BY <1>2 DEF First, Rest
  <2> QED
    BY <1>2, <2>1, <2>2, <2>3
<1> QED
  BY <1>1, <1>2

----------------------------------------------------------------------------
(* Type correctness; a process that assigns or aborts has a target.        *)

TargetKept ==
  \A p \in Proc : /\ pc[p] \in {"assign", "abort"} => target[p] \in Proc
                  /\ pc[p] = "assign" => p \in Assigners
                  /\ pc[p] = "abort" => p = Pin

TypeInv == TypeOK /\ TargetKept

\* The labels a process can be sent to.
LEMMA PcLabels ==
  PC = {"user", "attach", "attwait", "cotest", "corest", "corestctlc", "assign",
        "abort", "terminate", "dead", "coget", "cosleep", "cogot", "xios", "cowake"}
  BY DEF PC, InConout

LEMMA FlagTypes ==
  ASSUME NEW flags \in SUBSET Flags, NEW sure
  PROVE  /\ FlagsAfterAbtChk(flags, sure) \in SUBSET Flags
         /\ flags \cup {"ctlc"} \in SUBSET Flags
         /\ flags \cup {"tempkeep"} \in SUBSET Flags
  BY DEF Flags, FlagsAfterAbtChk, AbtChk

\* A process's own devices are devices.
LEMMA OwnDevices ==
  ASSUME NEW p \in Proc
  PROVE  p_cns[p] \in Con /\ p_lst[p] \in Lst /\ {p_cns[p], p_lst[p]} \subseteq Dev
  BY DefaultAssumption DEF Dev

LEMMA WakeAndGotoType ==
  ASSUME NEW p \in Proc, NEW l \in PC, NEW x, NEW m \in PC, pc \in [Proc -> PC],
         WakeAndGoto(p, l, x, m)
  PROVE  pc' \in [Proc -> PC]
  BY DEF WakeAndGoto

LEMMA InitType == Init => TypeInv
  BY PcLabels, PFlagsAssumption, DefaultAssumption
     DEF Init, TypeInv, TypeOK, TargetKept, Flags

\* A wakeup sends the process that is woken up on, at m; the others stay.
LEMMA WokenPlaces ==
  ASSUME NEW p \in Proc, NEW l, NEW x, NEW m, pc \in [Proc -> PC], WakeAndGoto(p, l, x, m)
  PROVE  \A y \in Proc : pc'[y] = IF y = p THEN l ELSE IF y = x THEN m ELSE pc[y]
  BY DEF WakeAndGoto

LEMMA GoneTo ==
  ASSUME NEW p \in Proc, NEW l \in PC, pc \in [Proc -> PC], Goto(p, l)
  PROVE  /\ pc' \in [Proc -> PC]
         /\ \A y \in Proc : pc'[y] = IF y = p THEN l ELSE pc[y]
  BY DEF Goto

LEMMA AbortSpecType ==
  ASSUME TypeInv, NEW p \in Proc, NEW t \in Proc, NEW sure, AbortSpec(p, t, sure)
  PROVE  TypeInv'
<1> USE DEF TypeInv
<1>1. TypeOK'
  <2>1. PICK f : f = FlagsAfterAbtChk(p_flag[t] \cup {"ctlc"}, sure)
    OBVIOUS
  <2>2. f \in SUBSET Flags
    BY <2>1, FlagTypes DEF TypeOK
  <2>3. p_flag' = [p_flag EXCEPT ![t] = f]
    BY <2>1 DEF AbortSpec
  <2>4. p_flag' \in [Proc -> SUBSET Flags]
    BY <2>2, <2>3 DEF TypeOK
  <2>5. /\ c_queue' \in [Dev -> Seq(Proc)]
        /\ c_cosleep' \in [Con -> Seq(Proc)]
    BY SnipType DEF AbortSpec, TakeOff, TypeOK
  <2>6. pc' \in [Proc -> PC] /\ target' \in [Proc -> Proc \cup {NoProc}]
    BY PcLabels DEF AbortSpec, Goto, TypeOK
  <2>7. /\ saved' \in [Proc -> SUBSET Flags]
        /\ want' \in [Proc -> Dev \cup {NoDev}] /\ output' \subseteq Proc
        /\ UNCHANGED <<c_attach, c_mimic, conout>>
    BY DEF AbortSpec, callVars, TypeOK
  <2> QED
    BY <2>4, <2>5, <2>6, <2>7 DEF TypeOK
<1>2. TargetKept'
  BY PcLabels DEF AbortSpec, Goto, callVars, TypeOK, TargetKept
<1> QED
  BY <1>1, <1>2

LEMMA StepType ==
  ASSUME TypeInv, Next
  PROVE  TypeInv'
<1> USE PcLabels DEF TypeInv, TypeOK, TargetKept,
                     devVars, outVars, flagVars, callVars
<1>1. ASSUME NEW p \in Proc, NEW d \in Dev, NEW out \in BOOLEAN, CallAttach(p, d, out)
      PROVE  TypeInv'
  BY <1>1 DEF CallAttach, Goto
<1>2. ASSUME NEW p \in Proc, Attach(p)
      PROVE  TypeInv'
  <2>1. Attached(p) \in PC
    BY DEF Attached
  <2>2. c_queue' \in [Dev -> Seq(Proc)]
    <3>1. CASE want[p] \in Dev
      <4>1. PICK l : l = InsertProcess(c_queue[want[p]], p)
        OBVIOUS
      <4>2. l \in Seq(Proc)
        BY <3>1, <4>1, InsertMembers
      <4>3. c_queue' = c_queue \/ c_queue' = [c_queue EXCEPT ![want[p]] = l]
        BY <1>2, <4>1 DEF Attach, CioAttach
      <4> QED
        BY <4>2, <4>3
    <3>2. CASE want[p] \notin Dev
      BY <1>2, <3>2 DEF Attach, CioAttach
    <3> QED
      BY <3>1, <3>2
  <2>3. c_attach' \in [Dev -> Proc \cup {NoProc, Mimic}]
    BY <1>2 DEF Attach, CioAttach
  <2>4. PICK l \in PC : l \notin {"assign", "abort"} /\ Goto(p, l)
    BY <1>2 DEF Attach, CioAttach, Attached
  <2>5. want' \in [Proc -> Dev \cup {NoDev}] /\ output' \subseteq Proc
    BY <1>2 DEF Attach, CioAttach
  <2>6. UNCHANGED <<c_mimic, outVars, flagVars, target>>
    BY <1>2 DEF Attach
  <2> QED
    BY <2>2, <2>3, <2>4, <2>5, <2>6 DEF Goto
<1>3. ASSUME NEW p \in Proc, NEW d \in Dev, CondAttach(p, d)
      PROVE  TypeInv'
  BY <1>3 DEF CondAttach
<1>4. ASSUME NEW p \in Proc, NEW d \in Dev, Detach(p, d)
      PROVE  TypeInv'
  BY <1>4, FirstType DEF Detach, WakeAndGoto
<1>5. ASSUME NEW p \in Proc, NEW t \in Proc, ConAssign(p, t)
      PROVE  TypeInv'
  BY <1>5, OwnDevices DEF ConAssign, Goto
<1>6. ASSUME NEW p \in Proc, AssignWake(p)
      PROVE  TypeInv'
  <2>1. c_queue' \in [Dev -> Seq(Proc)]
    BY <1>6, SnipType, OwnDevices DEF AssignWake
  <2> QED
    BY <1>6, <2>1 DEF AssignWake, Goto, WakeAndGoto
<1>7. ASSUME NEW p \in Proc, CoGet(p)
      PROVE  TypeInv'
  <2>1. c_cosleep' \in [Con -> Seq(Proc)]
    <3>1. PICK l : l = InsertProcess(c_cosleep[p_cns[p]], p)
      OBVIOUS
    <3>2. l \in Seq(Proc)
      BY <3>1, InsertMembers, OwnDevices
    <3>3. c_cosleep' = c_cosleep \/ c_cosleep' = [c_cosleep EXCEPT ![p_cns[p]] = l]
      BY <1>7, <3>1 DEF CoGet
    <3> QED
      BY <3>2, <3>3
  <2> QED
    BY <1>7, <2>1 DEF CoGet, Goto
<1>8. ASSUME NEW p \in Proc, CoKeep(p)
      PROVE  TypeInv'
  BY <1>8, FlagTypes DEF CoKeep, Goto
<1>9. ASSUME NEW p \in Proc, CoClear(p)
      PROVE  TypeInv'
  BY <1>9 DEF CoClear, Goto
<1>10. ASSUME NEW p \in Proc, CoWake(p)
       PROVE  TypeInv'
  BY <1>10, FirstType, OwnDevices DEF CoWake, WakeAndGoto
<1>11. ASSUME NEW p \in Proc, CoTest(p)
       PROVE  TypeInv'
  BY <1>11 DEF CoTest, Goto
<1>12. ASSUME NEW p \in Proc, CoRestore(p)
       PROVE  TypeInv'
  BY <1>12 DEF CoRestore, Goto
<1>13. ASSUME NEW p \in Proc, NEW sure \in BOOLEAN, Terminate(p, sure)
       PROVE  TypeInv'
  BY <1>13, FlagTypes DEF Terminate, TerminateEntry, Goto
<1>14. ASSUME NEW p \in Proc, CoRestoreCtlC(p)
       PROVE  TypeInv'
  <2>1. PICK f : f = FlagsAfterAbtChk(saved[p] \cup {"ctlc"}, FALSE)
    OBVIOUS
  <2>2. f \in SUBSET Flags
    BY <2>1, FlagTypes
  <2>3. p_flag' = [p_flag EXCEPT ![p] = f]
    BY <1>14, <2>1 DEF CoRestoreCtlC, TerminateEntry
  <2> QED
    <3>1. p_flag' \in [Proc -> SUBSET Flags]
      BY <2>2, <2>3
    <3>2. /\ saved' \in [Proc -> SUBSET Flags] /\ pc' \in [Proc -> PC]
          /\ \A x \in Proc : pc'[x] = pc[x] \/ pc'[x] \in {"terminate", "user"}
      BY <1>14 DEF CoRestoreCtlC, TerminateEntry, Goto
    <3>3. UNCHANGED <<devVars, outVars, callVars, target>>
      BY <1>14 DEF CoRestoreCtlC
    <3> QED
      BY <3>1, <3>2, <3>3
<1>15. ASSUME NEW p \in Proc, NEW t \in Proc, NEW sure \in BOOLEAN, AbortByName(p, t, sure)
       PROVE  TypeInv'
  BY <1>15, AbortSpecType DEF AbortByName
<1>16. ASSUME NEW p \in Proc, TermAct(p)
       PROVE  TypeInv'
  BY <1>16, FirstType DEF TermAct, CioTerm
<1>17. ASSUME NEW p \in Proc, Create(p)
       PROVE  TypeInv'
  BY <1>17, PFlagsAssumption DEF Create, Goto
<1>18. CASE ControlC
  BY <1>18, ProcAssumption DEF ControlC, Goto
<1>19. CASE PinAbort
  <2>1. CASE pc[target[Pin]] # "dead"
    BY <1>19, <2>1, AbortSpecType, ProcAssumption DEF PinAbort
  <2>2. CASE pc[target[Pin]] = "dead"
    <3>1. /\ Goto(Pin, "user") /\ target' = [target EXCEPT ![Pin] = NoProc]
          /\ UNCHANGED <<devVars, outVars, flagVars, callVars>>
      BY <1>19, <2>2 DEF PinAbort
    <3> QED
      BY <3>1, ProcAssumption DEF Goto
  <2> QED
    BY <2>1, <2>2
<1>20. CASE PinMessage
  BY <1>20, ProcAssumption DEF PinMessage, Goto
<1>21. CASE ControlPOn
  <2>1. PICK c \in Con : c = p_cns[Pin]
    BY ProcAssumption, OwnDevices
  <2>2. c_attach[c] \in Proc /\ pc[Pin] = "user"
    BY <1>21, <2>1 DEF ControlPOn
  <2>3. PICK l \in Lst : l = p_lst[c_attach[c]]
    BY <2>2, OwnDevices
  <2>4. UNCHANGED <<c_queue, outVars, flagVars, callVars, target>>
    BY <1>21 DEF ControlPOn
  <2>5. CASE c_attach[l] = NoProc
    <3>1. /\ c_attach' = [c_attach EXCEPT ![l] = Mimic]
          /\ c_mimic' = [c_mimic EXCEPT ![c] = l] /\ UNCHANGED pc
      BY <1>21, <2>1, <2>3, <2>5 DEF ControlPOn
    <3> QED
      BY <2>4, <3>1
  <2>6. CASE c_attach[l] # NoProc
    <3>1. Goto(Pin, "coget") /\ UNCHANGED <<c_attach, c_mimic>>
      BY <1>21, <2>1, <2>3, <2>6 DEF ControlPOn
    <3> QED
      BY <2>4, <3>1, ProcAssumption DEF Goto
  <2> QED
    BY <2>5, <2>6
<1>22. CASE ControlPOff
  BY <1>22, ProcAssumption, FirstType DEF ControlPOff, WakeAndGoto
<1> QED
  BY <1>1, <1>2, <1>3, <1>4, <1>5, <1>6, <1>7, <1>8, <1>9, <1>10, <1>11, <1>12, <1>13,
     <1>14, <1>15, <1>16, <1>17, <1>18, <1>19, <1>20, <1>21, <1>22, OwnDevices
     DEF Next, PinStep, Call, Kernel
LEMMA TypeStays == ASSUME TypeInv, UNCHANGED vars PROVE TypeInv'
  BY DEF TypeInv, TypeOK, TargetKept, vars, devVars, outVars, flagVars, callVars

\* Type correctness.
THEOREM TypeCorrect == Spec => []TypeOK
<1>1. Init => TypeInv
  BY InitType
<1>2. TypeInv /\ [Next]_vars => TypeInv'
  BY StepType, TypeStays
<1>3. TypeInv => TypeOK
  BY DEF TypeInv
<1> QED
  BY <1>1, <1>2, <1>3, PTL DEF Spec

----------------------------------------------------------------------------
(* A process is on the list it is asleep on, once, and on no other.  One   *)
(* that attaches wants a device of its own.                                *)

WantKept ==
  \A p \in Proc : pc[p] \in {"attach", "attwait"} => want[p] \in {p_cns[p], p_lst[p]}

QueuesMatch ==
  \A d \in Dev :
    /\ Distinct(c_queue[d])
    /\ \A p \in Proc : IsOn(c_queue[d], p) <=> pc[p] = "attwait" /\ want[p] = d

CosleepMatch ==
  \A c \in Con :
    /\ Distinct(c_cosleep[c])
    /\ \A p \in Proc : IsOn(c_cosleep[c], p) <=> pc[p] = "cosleep" /\ p_cns[p] = c

ListsInv == TypeInv /\ WantKept /\ QueuesMatch /\ CosleepMatch

OnNoList(x) == /\ \A d \in Dev : ~ IsOn(c_queue[d], x)
               /\ \A c \in Con : ~ IsOn(c_cosleep[c], x)

\* What a step may do to process x without the lists being wrong of it: it is
\* woken up and taken off, or its place on the lists stays as it is.
Woken(x) ==
  /\ pc'[x] \notin Asleep /\ OnNoList(x)'
  /\ pc'[x] = "attach" => pc[x] = "attwait" /\ want'[x] = want[x]

Stays(x) ==
  /\ pc'[x] = pc[x] \/ (pc[x] \notin Asleep /\ pc'[x] \notin Asleep)
  /\ pc'[x] \in {"attach", "attwait"}
       => \/ pc'[x] = pc[x] /\ want'[x] = want[x]
          \/ pc'[x] = "attach" /\ want'[x] \in {p_cns[x], p_lst[x]}
  /\ \A d \in Dev : IsOn(c_queue'[d], x) <=> IsOn(c_queue[d], x)
  /\ \A c \in Con : IsOn(c_cosleep'[c], x) <=> IsOn(c_cosleep[c], x)

LEMMA ListsFollow ==
  ASSUME ListsInv, TypeInv',
         \A d \in Dev : Distinct(c_queue'[d]),
         \A c \in Con : Distinct(c_cosleep'[c]),
         \A x \in Proc : Woken(x) \/ Stays(x)
  PROVE  ListsInv'
<1>1. WantKept'
  BY DEF ListsInv, WantKept, Woken, Stays, Asleep
<1>2. QueuesMatch'
  <2>1. ASSUME NEW d \in Dev, NEW x \in Proc
        PROVE  IsOn(c_queue'[d], x) <=> pc'[x] = "attwait" /\ want'[x] = d
    <3>1. IsOn(c_queue[d], x) <=> pc[x] = "attwait" /\ want[x] = d
      BY DEF ListsInv, QueuesMatch
    <3> QED
      BY <3>1 DEF Woken, Stays, OnNoList, Asleep
  <2> QED
    BY <2>1 DEF QueuesMatch
<1>3. CosleepMatch'
  <2>1. ASSUME NEW c \in Con, NEW x \in Proc
        PROVE  IsOn(c_cosleep'[c], x) <=> pc'[x] = "cosleep" /\ p_cns[x] = c
    <3>1. IsOn(c_cosleep[c], x) <=> pc[x] = "cosleep" /\ p_cns[x] = c
      BY DEF ListsInv, CosleepMatch
    <3> QED
      BY <3>1 DEF Woken, Stays, OnNoList, Asleep
  <2> QED
    BY <2>1 DEF CosleepMatch
<1> QED
  BY <1>1, <1>2, <1>3 DEF ListsInv

\* A step that leaves the lists alone and puts nobody to sleep.
LEMMA ListsUntouched ==
  ASSUME ListsInv, TypeInv', UNCHANGED <<c_queue, c_cosleep>>,
         \A x \in Proc : \/ pc'[x] = pc[x] /\ want'[x] = want[x]
                         \/ /\ pc[x] \notin Asleep /\ pc'[x] \notin Asleep
                            /\ pc'[x] = "attach" => want'[x] \in {p_cns[x], p_lst[x]}
  PROVE  ListsInv'
<1>1. /\ \A d \in Dev : Distinct(c_queue'[d])
      /\ \A c \in Con : Distinct(c_cosleep'[c])
  BY DEF ListsInv, QueuesMatch, CosleepMatch
<1>2. \A x \in Proc : Stays(x)
  BY DEF Stays, Asleep
<1> QED
  BY <1>1, <1>2, ListsFollow

LEMMA InitLists == Init => ListsInv
<1> SUFFICES ASSUME Init PROVE ListsInv
  OBVIOUS
<1>1. TypeInv
  BY InitType
<1>2. /\ \A d \in Dev : c_queue[d] = <<>>
      /\ \A c \in Con : c_cosleep[c] = <<>>
      /\ \A p \in Proc : pc[p] = "user"
  BY DEF Init
<1> QED
  BY <1>1, <1>2, EmptyMembers DEF ListsInv, WantKept, QueuesMatch, CosleepMatch
\* What ListsInv says of one list, and of the first on it.
LEMMA QueueOf ==
  ASSUME ListsInv, NEW d \in Dev
  PROVE  /\ c_queue[d] \in Seq(Proc) /\ Distinct(c_queue[d])
         /\ \A x \in Proc : IsOn(c_queue[d], x) <=> pc[x] = "attwait" /\ want[x] = d
         /\ Rest(c_queue[d]) \in Seq(Proc) /\ Distinct(Rest(c_queue[d]))
         /\ \A x \in Proc :
              IsOn(Rest(c_queue[d]), x) <=> x # First(c_queue[d]) /\ IsOn(c_queue[d], x)
         /\ \A x \in Proc :
              x = First(c_queue[d]) => pc[x] = "attwait" /\ want[x] = d
<1>1. /\ c_queue[d] \in Seq(Proc) /\ Distinct(c_queue[d])
      /\ \A x \in Proc : IsOn(c_queue[d], x) <=> pc[x] = "attwait" /\ want[x] = d
  BY DEF ListsInv, TypeInv, TypeOK, QueuesMatch
<1> QED
  BY <1>1, FirstMembers, FirstType, ProcAssumption

LEMMA CosleepOf ==
  ASSUME ListsInv, NEW c \in Con
  PROVE  /\ c_cosleep[c] \in Seq(Proc) /\ Distinct(c_cosleep[c])
         /\ \A x \in Proc : IsOn(c_cosleep[c], x) <=> pc[x] = "cosleep" /\ p_cns[x] = c
         /\ Rest(c_cosleep[c]) \in Seq(Proc) /\ Distinct(Rest(c_cosleep[c]))
         /\ \A x \in Proc :
              IsOn(Rest(c_cosleep[c]), x)
                <=> x # First(c_cosleep[c]) /\ IsOn(c_cosleep[c], x)
         /\ \A x \in Proc :
              x = First(c_cosleep[c]) => pc[x] = "cosleep" /\ p_cns[x] = c
<1>1. /\ c_cosleep[c] \in Seq(Proc) /\ Distinct(c_cosleep[c])
      /\ \A x \in Proc : IsOn(c_cosleep[c], x) <=> pc[x] = "cosleep" /\ p_cns[x] = c
  BY DEF ListsInv, TypeInv, TypeOK, CosleepMatch
<1> QED
  BY <1>1, FirstMembers, FirstType, ProcAssumption

\* Who is awake is on no list.
LEMMA AwakeOff ==
  ASSUME ListsInv, NEW x \in Proc
  PROVE  /\ \A d \in Dev : pc[x] # "attwait" => ~ IsOn(c_queue[d], x)
         /\ \A c \in Con : pc[x] # "cosleep" => ~ IsOn(c_cosleep[c], x)
         /\ \A d, e \in Dev : IsOn(c_queue[d], x) /\ IsOn(c_queue[e], x) => d = e
  BY DEF ListsInv, QueuesMatch, CosleepMatch

LEMMA AttachLists ==
  ASSUME ListsInv, TypeInv', NEW p \in Proc, Attach(p)
  PROVE  ListsInv'
<1>1. pc[p] = "attach" /\ want[p] \in {p_cns[p], p_lst[p]} /\ want[p] \in Dev
  BY OwnDevices DEF Attach, ListsInv, WantKept
<1>2. PICK d \in Dev : d = want[p]
  BY <1>1
<1> USE DEF TypeInv, TypeOK
<1>3. CASE c_attach[d] \in {NoProc, p}
  <2>1. /\ Goto(p, Attached(p)) /\ want' = [want EXCEPT ![p] = NoDev]
        /\ UNCHANGED <<c_queue, c_cosleep>>
    BY <1>2, <1>3 DEF Attach, CioAttach, outVars
  <2>2. Attached(p) \in {"coget", "user"}
    BY DEF Attached
  <2>3. \A x \in Proc : \/ pc'[x] = pc[x] /\ want'[x] = want[x]
                        \/ /\ pc[x] \notin Asleep /\ pc'[x] \notin Asleep
                           /\ pc'[x] # "attach"
    BY <1>1, <2>1, <2>2 DEF Goto, Asleep, ListsInv
  <2> QED
    BY <2>1, <2>3, ListsUntouched
<1>4. CASE c_attach[d] \notin {NoProc, p}
  <2>1. PICK l : l = InsertProcess(c_queue[d], p)
    OBVIOUS
  <2>2. /\ l \in Seq(Proc) /\ Distinct(l)
        /\ \A x \in Proc : IsOn(l, x) <=> x = p \/ IsOn(c_queue[d], x)
    BY <1>1, <2>1, InsertMembers, QueueOf
  <2>3. /\ c_queue' = [c_queue EXCEPT ![d] = l]
        /\ Goto(p, "attwait") /\ UNCHANGED <<c_cosleep, want>>
    BY <1>2, <1>4, <2>1 DEF Attach, CioAttach, outVars, callVars
  <2>4. \A x \in Proc : pc'[x] = IF x = p THEN "attwait" ELSE pc[x]
    BY <2>3 DEF Goto, ListsInv
  <2>5. \A e \in Dev : c_queue'[e] = IF e = d THEN l ELSE c_queue[e]
    BY <2>3 DEF ListsInv
  <2>6. WantKept'
    BY <1>1, <2>3, <2>4 DEF ListsInv, WantKept
  <2>7. QueuesMatch'
    <3>1. ASSUME NEW e \in Dev
          PROVE  /\ Distinct(c_queue'[e])
                 /\ \A x \in Proc : IsOn(c_queue'[e], x) <=> pc'[x] = "attwait" /\ want'[x] = e
      <4>1. \A x \in Proc : IsOn(c_queue[e], x) <=> pc[x] = "attwait" /\ want[x] = e
        BY QueueOf
      <4>2. CASE e = d
        <5>1. c_queue'[e] = l
          BY <2>5, <4>2
        <5> QED
          BY <1>1, <1>2, <2>2, <2>3, <2>4, <4>1, <4>2, <5>1
      <4>3. CASE e # d
        <5>1. c_queue'[e] = c_queue[e] /\ Distinct(c_queue[e])
          BY <2>5, <4>3, QueueOf
        <5> QED
          BY <1>1, <1>2, <2>3, <2>4, <4>1, <4>3, <5>1
      <4> QED
        BY <4>2, <4>3
    <3> QED
      BY <3>1 DEF QueuesMatch
  <2>8. CosleepMatch'
    BY <1>1, <2>3, <2>4 DEF ListsInv, CosleepMatch
  <2> QED
    BY <2>6, <2>7, <2>8 DEF ListsInv
<1> QED
  BY <1>3, <1>4

LEMMA CoGetLists ==
  ASSUME ListsInv, TypeInv', NEW p \in Proc, CoGet(p)
  PROVE  ListsInv'
<1>1. PICK c \in Con : c = p_cns[p]
  BY OwnDevices
<1> USE DEF TypeInv, TypeOK
<1>2. pc[p] = "coget" /\ UNCHANGED <<c_queue, want>>
  BY DEF CoGet, devVars, callVars
<1>3. CASE ~ conout[c]
  <2>1. PICK l : l = IF p = Pin THEN "xios" ELSE "cogot"
    OBVIOUS
  <2>2. Goto(p, l) /\ UNCHANGED c_cosleep
    BY <1>1, <1>3, <2>1 DEF CoGet
  <2>3. \A x \in Proc : \/ pc'[x] = pc[x]
                        \/ /\ pc[x] \notin Asleep /\ pc'[x] \notin Asleep
                           /\ pc'[x] # "attach"
    BY <1>2, <2>1, <2>2 DEF Goto, Asleep, ListsInv
  <2> QED
    BY <1>2, <2>2, <2>3, ListsUntouched
<1>4. CASE conout[c]
  <2>1. PICK l : l = InsertProcess(c_cosleep[c], p)
    OBVIOUS
  <2>2. /\ l \in Seq(Proc) /\ Distinct(l)
        /\ \A x \in Proc : IsOn(l, x) <=> x = p \/ IsOn(c_cosleep[c], x)
    BY <1>2, <2>1, InsertMembers, CosleepOf
  <2>3. /\ c_cosleep' = [c_cosleep EXCEPT ![c] = l]
        /\ Goto(p, "cosleep")
    BY <1>1, <1>4, <2>1 DEF CoGet
  <2>4. \A x \in Proc : pc'[x] = IF x = p THEN "cosleep" ELSE pc[x]
    BY <2>3 DEF Goto, ListsInv
  <2>5. \A e \in Con : c_cosleep'[e] = IF e = c THEN l ELSE c_cosleep[e]
    BY <2>3 DEF ListsInv
  <2>6. WantKept'
    BY <1>2, <2>4 DEF ListsInv, WantKept
  <2>7. CosleepMatch'
    <3>1. ASSUME NEW e \in Con
          PROVE  /\ Distinct(c_cosleep'[e])
                 /\ \A x \in Proc :
                      IsOn(c_cosleep'[e], x) <=> pc'[x] = "cosleep" /\ p_cns[x] = e
      <4>1. \A x \in Proc : IsOn(c_cosleep[e], x) <=> pc[x] = "cosleep" /\ p_cns[x] = e
        BY CosleepOf
      <4>2. CASE e = c
        <5>1. c_cosleep'[e] = l
          BY <2>5, <4>2
        <5> QED
          BY <1>1, <1>2, <2>2, <2>4, <4>1, <4>2, <5>1
      <4>3. CASE e # c
        <5>1. c_cosleep'[e] = c_cosleep[e] /\ Distinct(c_cosleep[e])
          BY <2>5, <4>3, CosleepOf
        <5> QED
          BY <1>1, <1>2, <2>4, <4>1, <4>3, <5>1
      <4> QED
        BY <4>2, <4>3
    <3> QED
      BY <3>1 DEF CosleepMatch
  <2>8. QueuesMatch'
    BY <1>2, <2>4 DEF ListsInv, QueuesMatch
  <2> QED
    BY <2>6, <2>7, <2>8 DEF ListsInv
<1> QED
  BY <1>3, <1>4
\* The first on a list of a device is woken up, by p, which goes on at l.
LEMMA HandOverLists ==
  ASSUME ListsInv, TypeInv', NEW p \in Proc, NEW d \in Dev, pc[p] \notin Asleep,
         NEW l, l \notin Asleep \cup {"attach"},
         WakeAndGoto(p, l, First(c_queue[d]), "attach"),
         c_queue' = [c_queue EXCEPT ![d] = Rest(@)], UNCHANGED <<c_cosleep, want>>
  PROVE  ListsInv'
<1> USE DEF ListsInv, TypeInv, TypeOK
<1>1. PICK t : t = First(c_queue[d])
  OBVIOUS
<1>2. PICK r : r = Rest(c_queue[d])
  OBVIOUS
<1>3. \A y \in Proc : pc'[y] = IF y = p THEN l ELSE IF y = t THEN "attach" ELSE pc[y]
  BY <1>1 DEF WakeAndGoto
<1>4. \A e \in Dev : c_queue'[e] = IF e = d THEN r ELSE c_queue[e]
  BY <1>2
<1>5. /\ Distinct(r)
      /\ \A x \in Proc : IsOn(r, x) <=> x # t /\ IsOn(c_queue[d], x)
      /\ \A x \in Proc : x = t => pc[x] = "attwait" /\ want[x] = d
  BY <1>1, <1>2, QueueOf
<1> HIDE DEF ListsInv, TypeInv, TypeOK
<1>6. \A e \in Dev : Distinct(c_queue'[e])
  BY <1>4, <1>5, QueueOf
<1>7. \A c \in Con : Distinct(c_cosleep'[c])
  BY CosleepOf
<1>8. ASSUME NEW x \in Proc PROVE Woken(x) \/ Stays(x)
  <2>1. CASE x = t
    <3>1. pc[x] = "attwait" /\ want[x] = d /\ x # p
      BY <1>5, <2>1 DEF Asleep
    <3>2. pc'[x] = "attach" /\ want'[x] = want[x]
      BY <1>3, <2>1, <3>1
    <3>3. \A e \in Dev : ~ IsOn(c_queue'[e], x)
      <4> TAKE e \in Dev
      <4>1. CASE e = d
        BY <1>4, <1>5, <2>1, <4>1
      <4>2. CASE e # d
        BY <1>4, <3>1, <4>2, QueueOf
      <4> QED
        BY <4>1, <4>2
    <3>4. \A c \in Con : ~ IsOn(c_cosleep'[c], x)
      BY <3>1, CosleepOf
    <3> QED
      BY <3>1, <3>2, <3>3, <3>4 DEF Woken, OnNoList, Asleep
  <2>2. CASE x # t
    <3>1. \A e \in Dev : IsOn(c_queue'[e], x) <=> IsOn(c_queue[e], x)
      BY <1>4, <1>5, <2>2
    <3>2. \A c \in Con : IsOn(c_cosleep'[c], x) <=> IsOn(c_cosleep[c], x)
      OBVIOUS
    <3>3. pc'[x] = IF x = p THEN l ELSE pc[x]
      BY <1>3, <2>2
    <3> QED
      BY <3>1, <3>2, <3>3 DEF Stays, Asleep
  <2> QED
    BY <2>1, <2>2
<1> QED
  BY <1>6, <1>7, <1>8, ListsFollow

LEMMA AssignWakeLists ==
  ASSUME ListsInv, TypeInv', NEW p \in Proc, AssignWake(p)
  PROVE  ListsInv'
<1>1. PICK c \in Con : c = p_cns[p]
  BY OwnDevices
<1>2. PICK t : t = target[p]
  OBVIOUS
<1>3. pc[p] = "assign" /\ t \in Proc /\ c \in Dev
  BY <1>1, <1>2 DEF AssignWake, ListsInv, TypeInv, TargetKept, Dev
<1>4. PICK r : r = Snip(c_queue[c], t)
  OBVIOUS
<1>5. /\ Distinct(r)
      /\ \A x \in Proc : IsOn(r, x) <=> x # t /\ IsOn(c_queue[c], x)
      /\ \A x \in Proc : IsOn(c_queue[c], x) <=> pc[x] = "attwait" /\ want[x] = c
  BY <1>3, <1>4, SnipMembers, QueueOf
<1>6. \A e \in Dev : c_queue'[e] = IF e = c THEN r ELSE c_queue[e]
  BY <1>1, <1>2, <1>4 DEF AssignWake, ListsInv, TypeInv, TypeOK
<1>7. /\ \A x \in Proc :
           pc'[x] = IF x = p THEN "user"
                    ELSE IF x = t /\ IsOn(c_queue[c], t) THEN "attach" ELSE pc[x]
      /\ UNCHANGED <<c_cosleep, want>>
  BY <1>1, <1>2 DEF AssignWake, Goto, WakeAndGoto, outVars, callVars, ListsInv, TypeInv, TypeOK
<1>8. \A e \in Dev : Distinct(c_queue'[e])
  BY <1>5, <1>6, QueueOf
<1>9. \A e \in Con : Distinct(c_cosleep'[e])
  BY <1>7, CosleepOf
<1>10. ASSUME NEW x \in Proc PROVE Woken(x) \/ Stays(x)
  <2>1. CASE x = t /\ IsOn(c_queue[c], t)
    <3>1. pc[x] = "attwait" /\ want[x] = c /\ x # p
      BY <1>3, <1>5, <2>1
    <3>2. pc'[x] = "attach" /\ want'[x] = want[x]
      BY <1>7, <2>1, <3>1
    <3>3. \A e \in Dev : ~ IsOn(c_queue'[e], x)
      <4> TAKE e \in Dev
      <4>1. CASE e = c
        BY <1>5, <1>6, <2>1, <4>1
      <4>2. CASE e # c
        BY <1>6, <3>1, <4>2, QueueOf
      <4> QED
        BY <4>1, <4>2
    <3>4. \A e \in Con : ~ IsOn(c_cosleep'[e], x)
      BY <1>7, <3>1, CosleepOf
    <3> QED
      BY <3>1, <3>2, <3>3, <3>4 DEF Woken, OnNoList, Asleep
  <2>2. CASE ~ (x = t /\ IsOn(c_queue[c], t))
    <3>1. \A e \in Dev : IsOn(c_queue'[e], x) <=> IsOn(c_queue[e], x)
      BY <1>5, <1>6, <2>2
    <3>2. \A e \in Con : IsOn(c_cosleep'[e], x) <=> IsOn(c_cosleep[e], x)
      BY <1>7
    <3>3. pc'[x] = IF x = p THEN "user" ELSE pc[x]
      BY <1>7, <2>2
    <3> QED
      BY <1>3, <1>7, <3>1, <3>2, <3>3 DEF Stays, Asleep
  <2> QED
    BY <2>1, <2>2
<1> QED
  BY <1>8, <1>9, <1>10, ListsFollow

LEMMA CoWakeLists ==
  ASSUME ListsInv, TypeInv', NEW p \in Proc, CoWake(p)
  PROVE  ListsInv'
<1>1. PICK c \in Con : c = p_cns[p]
  BY OwnDevices
<1>2. PICK t, r : t = First(c_cosleep[c]) /\ r = Rest(c_cosleep[c])
  OBVIOUS
<1>3. /\ Distinct(r)
      /\ \A x \in Proc : IsOn(r, x) <=> x # t /\ IsOn(c_cosleep[c], x)
      /\ \A x \in Proc : x = t => pc[x] = "cosleep" /\ p_cns[x] = c
  BY <1>2, CosleepOf
<1>4. PICK l \in {"user", "cotest"} : l = IF p = Pin THEN "user" ELSE "cotest"
  OBVIOUS
<1>5. /\ pc[p] = "cowake" /\ UNCHANGED <<c_queue, want>>
      /\ \A x \in Proc : pc'[x] = IF x = p THEN l ELSE IF x = t THEN "coget" ELSE pc[x]
  BY <1>1, <1>2, <1>4
     DEF CoWake, WakeAndGoto, devVars, callVars, ListsInv, TypeInv, TypeOK
<1>6. \A e \in Con : c_cosleep'[e] = IF e = c THEN r ELSE c_cosleep[e]
  BY <1>1, <1>2 DEF CoWake, ListsInv, TypeInv, TypeOK
<1>7. \A e \in Dev : Distinct(c_queue'[e])
  BY <1>5, QueueOf
<1>8. \A e \in Con : Distinct(c_cosleep'[e])
  BY <1>3, <1>6, CosleepOf
<1>9. ASSUME NEW x \in Proc PROVE Woken(x) \/ Stays(x)
  <2>1. CASE x = t
    <3>1. pc[x] = "cosleep" /\ p_cns[x] = c /\ x # p
      BY <1>3, <1>5, <2>1
    <3>2. pc'[x] = "coget"
      BY <1>5, <2>1, <3>1
    <3>3. \A e \in Con : ~ IsOn(c_cosleep'[e], x)
      <4> TAKE e \in Con
      <4>1. CASE e = c
        BY <1>3, <1>6, <2>1, <4>1
      <4>2. CASE e # c
        BY <1>6, <3>1, <4>2, CosleepOf
      <4> QED
        BY <4>1, <4>2
    <3>4. \A e \in Dev : ~ IsOn(c_queue'[e], x)
      BY <1>5, <3>1, QueueOf
    <3> QED
      BY <3>1, <3>2, <3>3, <3>4 DEF Woken, OnNoList, Asleep
  <2>2. CASE x # t
    <3>1. \A e \in Con : IsOn(c_cosleep'[e], x) <=> IsOn(c_cosleep[e], x)
      BY <1>3, <1>6, <2>2
    <3>2. \A e \in Dev : IsOn(c_queue'[e], x) <=> IsOn(c_queue[e], x)
      BY <1>5
    <3>3. pc'[x] = IF x = p THEN l ELSE pc[x]
      BY <1>5, <2>2
    <3> QED
      BY <1>5, <3>1, <3>2, <3>3 DEF Stays, Asleep
  <2> QED
    BY <2>1, <2>2
<1> QED
  BY <1>7, <1>8, <1>9, ListsFollow
\* What abtslp does to the lists: t is on none of them.
LEMMA TakenOff ==
  ASSUME ListsInv, NEW t \in Proc, TakeOff(t)
  PROVE  /\ \A d \in Dev :
              /\ Distinct(c_queue'[d])
              /\ \A x \in Proc : IsOn(c_queue'[d], x) <=> x # t /\ IsOn(c_queue[d], x)
         /\ \A c \in Con :
              /\ Distinct(c_cosleep'[c])
              /\ \A x \in Proc : IsOn(c_cosleep'[c], x) <=> x # t /\ IsOn(c_cosleep[c], x)
<1>1. ASSUME NEW d \in Dev
      PROVE  /\ Distinct(c_queue'[d])
             /\ \A x \in Proc : IsOn(c_queue'[d], x) <=> x # t /\ IsOn(c_queue[d], x)
  <2>1. c_queue'[d] = Snip(c_queue[d], t)
    BY DEF TakeOff
  <2> QED
    BY <2>1, QueueOf, SnipMembers
<1>2. ASSUME NEW c \in Con
      PROVE  /\ Distinct(c_cosleep'[c])
             /\ \A x \in Proc : IsOn(c_cosleep'[c], x) <=> x # t /\ IsOn(c_cosleep[c], x)
  <2>1. c_cosleep'[c] = Snip(c_cosleep[c], t)
    BY DEF TakeOff
  <2> QED
    BY <2>1, CosleepOf, SnipMembers
<1> QED
  BY <1>1, <1>2

LEMMA AbortSpecLists ==
  ASSUME ListsInv, TypeInv', NEW p \in Proc, NEW t \in Proc, NEW sure,
         pc[p] \in {"user", "abort"}, AbortSpec(p, t, sure)
  PROVE  ListsInv'
<1> DEFINE ok == AbtChk(p_flag[t] \cup {"ctlc"}, sure) = "ok"
<1>1. CASE ok
  <2>1. /\ TakeOff(t)
        /\ pc' = [pc EXCEPT ![p] = "user", ![t] = "terminate"]
        /\ want' = [want EXCEPT ![t] = NoDev]
    BY <1>1 DEF AbortSpec
  <2>2. \A x \in Proc :
          /\ pc'[x] = IF x = t THEN "terminate" ELSE IF x = p THEN "user" ELSE pc[x]
          /\ x # t => want'[x] = want[x]
    BY <2>1 DEF ListsInv, TypeInv, TypeOK
  <2> HIDE DEF ok
  <2>3. ASSUME NEW x \in Proc PROVE Woken(x) \/ Stays(x)
    <3>0. /\ \A d \in Dev : IsOn(c_queue'[d], x) <=> x # t /\ IsOn(c_queue[d], x)
          /\ \A c \in Con : IsOn(c_cosleep'[c], x) <=> x # t /\ IsOn(c_cosleep[c], x)
      BY <2>1, TakenOff
    <3>1. CASE x = t
      BY <2>2, <3>0, <3>1 DEF Woken, OnNoList, Asleep
    <3>2. CASE x # t
      BY <2>2, <3>0, <3>2 DEF Stays, Asleep
    <3> QED
      BY <3>1, <3>2
  <2> QED
    BY <2>1, <2>3, TakenOff, ListsFollow
<1>2. CASE ~ ok
  <2>1. Goto(p, "user") /\ UNCHANGED <<c_queue, c_cosleep, want>>
    BY <1>2 DEF AbortSpec, callVars
  <2>2. \A x \in Proc : pc'[x] = IF x = p THEN "user" ELSE pc[x]
    BY <2>1 DEF Goto, ListsInv, TypeInv, TypeOK
  <2> QED
    BY <2>1, <2>2, ListsUntouched DEF Asleep
<1> QED
  BY <1>1, <1>2

\* What cioterm does to the lists: the first on the list of each device that p
\* owns is taken off, and the first that is asleep for p's screen.
LEMMA TermActLists ==
  ASSUME ListsInv, TypeInv', NEW p \in Proc, TermAct(p)
  PROVE  ListsInv'
<1>1. PICK c \in Con : c = p_cns[p]
  BY OwnDevices
<1>2. PICK t : t = First(c_cosleep[c])
  OBVIOUS
<1>3. \A e \in Con : c_cosleep'[e] = IF e = c THEN Rest(c_cosleep[c]) ELSE c_cosleep[e]
  BY <1>1 DEF TermAct, CioTerm, ListsInv, TypeInv, TypeOK
<1>4. \A d \in Dev :
        c_queue'[d] = IF c_attach[d] = p THEN Rest(c_queue[d]) ELSE c_queue[d]
  BY DEF TermAct, CioTerm
<1>5. /\ pc[p] = "terminate" /\ UNCHANGED want
      /\ \A x \in Proc :
           pc'[x] = IF x = p THEN "dead"
                    ELSE IF x = t THEN "coget"
                    ELSE IF \E d \in Dev : c_attach[d] = p /\ x = First(c_queue[d])
                         THEN "attach"
                    ELSE pc[x]
  BY <1>1, <1>2 DEF TermAct, callVars
<1>6. \A e \in Con : Distinct(c_cosleep'[e])
  BY <1>3, CosleepOf
<1>7. \A d \in Dev : Distinct(c_queue'[d])
  BY <1>4, QueueOf
<1>8. ASSUME NEW x \in Proc PROVE Woken(x) \/ Stays(x)
  <2>1. CASE x = t
    <3>1. pc[x] = "cosleep" /\ p_cns[x] = c /\ x # p
      BY <1>2, <1>5, <2>1, CosleepOf
    <3>2. pc'[x] = "coget"
      BY <1>5, <2>1, <3>1
    <3>3. \A e \in Con : ~ IsOn(c_cosleep'[e], x)
      <4> TAKE e \in Con
      <4>1. CASE e = c
        BY <1>2, <1>3, <2>1, <4>1, CosleepOf
      <4>2. CASE e # c
        BY <1>3, <3>1, <4>2, CosleepOf
      <4> QED
        BY <4>1, <4>2
    <3>4. \A d \in Dev : ~ IsOn(c_queue'[d], x)
      BY <1>4, <3>1, QueueOf
    <3> QED
      BY <3>1, <3>2, <3>3, <3>4 DEF Woken, OnNoList, Asleep
  <2>2. ASSUME NEW d \in Dev, c_attach[d] = p, x = First(c_queue[d])
        PROVE  Woken(x)
    <3>1. pc[x] = "attwait" /\ want[x] = d /\ x # p
      BY <1>5, <2>2, QueueOf
    <3>2. x # t
      BY <1>2, <3>1, CosleepOf
    <3>3. pc'[x] = "attach" /\ want'[x] = want[x]
      BY <1>5, <2>2, <3>1, <3>2
    <3>4. \A e \in Dev : ~ IsOn(c_queue'[e], x)
      <4> TAKE e \in Dev
      <4>1. CASE e = d
        BY <1>4, <2>2, <4>1, QueueOf
      <4>2. CASE e # d
        BY <1>4, <3>1, <4>2, QueueOf
      <4> QED
        BY <4>1, <4>2
    <3>5. \A e \in Con : ~ IsOn(c_cosleep'[e], x)
      BY <1>3, <3>1, CosleepOf
    <3> QED
      BY <3>1, <3>3, <3>4, <3>5 DEF Woken, OnNoList, Asleep
  <2>3. CASE x # t /\ ~ \E d \in Dev : c_attach[d] = p /\ x = First(c_queue[d])
    <3>1. \A e \in Con : IsOn(c_cosleep'[e], x) <=> IsOn(c_cosleep[e], x)
      BY <1>2, <1>3, <2>3, CosleepOf
    <3>2. \A e \in Dev : IsOn(c_queue'[e], x) <=> IsOn(c_queue[e], x)
      BY <1>4, <2>3, QueueOf
    <3>3. pc'[x] = IF x = p THEN "dead" ELSE pc[x]
      BY <1>5, <2>3
    <3> QED
      BY <1>5, <3>1, <3>2, <3>3 DEF Stays, Asleep
  <2> QED
    BY <2>1, <2>2, <2>3
<1> QED
  BY <1>6, <1>7, <1>8, ListsFollow

LEMMA StepLists ==
  ASSUME ListsInv, Next
  PROVE  ListsInv'
<1>0. TypeInv'
  BY StepType DEF ListsInv
<1>t. pc \in [Proc -> PC] /\ want \in [Proc -> Dev \cup {NoDev}]
  BY DEF ListsInv, TypeInv, TypeOK
<1> USE <1>0, <1>t DEF devVars, outVars, flagVars, callVars, Asleep
<1>1. ASSUME NEW p \in Proc, NEW d \in Dev, NEW out \in BOOLEAN, CallAttach(p, d, out)
      PROVE  ListsInv'
  BY <1>1, ListsUntouched DEF CallAttach, Goto
<1>2. ASSUME NEW p \in Proc, Attach(p)
      PROVE  ListsInv'
  BY <1>2, AttachLists
<1>3. ASSUME NEW p \in Proc, NEW d \in Dev, CondAttach(p, d)
      PROVE  ListsInv'
  BY <1>3, ListsUntouched DEF CondAttach
<1>4. ASSUME NEW p \in Proc, NEW d \in Dev, Detach(p, d)
      PROVE  ListsInv'
  BY <1>4, HandOverLists DEF Detach
<1>5. ASSUME NEW p \in Proc, NEW t \in Proc, ConAssign(p, t)
      PROVE  ListsInv'
  BY <1>5, ListsUntouched DEF ConAssign, Goto
<1>6. ASSUME NEW p \in Proc, AssignWake(p)
      PROVE  ListsInv'
  BY <1>6, AssignWakeLists
<1>7. ASSUME NEW p \in Proc, CoGet(p)
      PROVE  ListsInv'
  BY <1>7, CoGetLists
<1>8. ASSUME NEW p \in Proc, CoKeep(p)
      PROVE  ListsInv'
  BY <1>8, ListsUntouched DEF CoKeep, Goto
<1>9. ASSUME NEW p \in Proc, CoClear(p)
      PROVE  ListsInv'
  BY <1>9, ListsUntouched DEF CoClear, Goto
<1>10. ASSUME NEW p \in Proc, CoWake(p)
       PROVE  ListsInv'
  BY <1>10, CoWakeLists
<1>11. ASSUME NEW p \in Proc, CoTest(p)
       PROVE  ListsInv'
  BY <1>11, ListsUntouched DEF CoTest, Goto
<1>12. ASSUME NEW p \in Proc, CoRestore(p)
       PROVE  ListsInv'
  BY <1>12, ListsUntouched DEF CoRestore, Goto
<1>13. ASSUME NEW p \in Proc, NEW sure \in BOOLEAN, Terminate(p, sure)
       PROVE  ListsInv'
  BY <1>13, ListsUntouched DEF Terminate, TerminateEntry, Goto
<1>14. ASSUME NEW p \in Proc, CoRestoreCtlC(p)
       PROVE  ListsInv'
  BY <1>14, ListsUntouched DEF CoRestoreCtlC, TerminateEntry, Goto
<1>15. ASSUME NEW p \in Proc, NEW t \in Proc, NEW sure \in BOOLEAN, AbortByName(p, t, sure)
       PROVE  ListsInv'
  BY <1>15, AbortSpecLists DEF AbortByName
<1>16. ASSUME NEW p \in Proc, TermAct(p)
       PROVE  ListsInv'
  BY <1>16, TermActLists
<1>17. ASSUME NEW p \in Proc, Create(p)
       PROVE  ListsInv'
  BY <1>17, ListsUntouched DEF Create, Goto
<1>18. CASE ControlC
  BY <1>18, ListsUntouched, ProcAssumption DEF ControlC, Goto
<1>19. CASE PinAbort
  <2>1. pc[Pin] = "abort" /\ target[Pin] \in Proc /\ Pin \in Proc
    BY <1>19, ProcAssumption DEF PinAbort, ListsInv, TypeInv, TargetKept
  <2>2. CASE pc[target[Pin]] # "dead"
    <3>1. PICK t \in Proc, sure \in BOOLEAN : AbortSpec(Pin, t, sure)
      BY <1>19, <2>1, <2>2 DEF PinAbort
    <3> QED
      BY <2>1, <3>1, AbortSpecLists
  <2>3. CASE pc[target[Pin]] = "dead"
    <3>1. Goto(Pin, "user") /\ UNCHANGED <<devVars, outVars, callVars>>
      BY <1>19, <2>3 DEF PinAbort
    <3> QED
      BY <2>1, <3>1, ListsUntouched DEF Goto
  <2> QED
    BY <2>2, <2>3
<1>20. CASE PinMessage
  BY <1>20, ListsUntouched, ProcAssumption DEF PinMessage, Goto
<1>21. CASE ControlPOn
  BY <1>21, ListsUntouched, ProcAssumption DEF ControlPOn, Goto
<1>22. CASE ControlPOff
  <2>1. PICK d : d = c_mimic[p_cns[Pin]]
    OBVIOUS
  <2>2. d \in Dev
    BY <1>22, <2>1, OwnDevices, ProcAssumption
       DEF ControlPOff, ListsInv, TypeInv, TypeOK, Dev
  <2> QED
    BY <1>22, <2>1, <2>2, HandOverLists, ProcAssumption DEF ControlPOff
<1> QED
  BY <1>1, <1>2, <1>3, <1>4, <1>5, <1>6, <1>7, <1>8, <1>9, <1>10, <1>11, <1>12, <1>13,
     <1>14, <1>15, <1>16, <1>17, <1>18, <1>19, <1>20, <1>21, <1>22, OwnDevices
     DEF Next, PinStep, Call, Kernel

LEMMA ListsStay == ASSUME ListsInv, UNCHANGED vars PROVE ListsInv'
  BY TypeStays, ListsUntouched DEF ListsInv, vars, devVars, outVars, flagVars, callVars

LEMMA ListsKept == Spec => []ListsInv
<1>1. Init => ListsInv
  BY InitLists
<1>2. ListsInv /\ [Next]_vars => ListsInv'
  BY StepLists, ListsStay
<1> QED
  BY <1>1, <1>2, PTL DEF Spec

\* A process that is asleep for a device or for the output routine is on the
\* list of that device, once, and on no other.
THEOREM ListsSound == Spec => []ListsMatch
<1>1. ASSUME ListsInv PROVE ListsMatch
  <2>1. ASSUME NEW p \in Proc, NEW d \in Dev
        PROVE  Count(c_queue[d], p) = IF pc[p] = "attwait" /\ want[p] = d THEN 1 ELSE 0
    BY <1>1, QueueOf, CountMembers
  <2>2. ASSUME NEW p \in Proc, NEW c \in Con
        PROVE  Count(c_cosleep[c], p) = IF pc[p] = "cosleep" /\ p_cns[p] = c THEN 1 ELSE 0
    BY <1>1, CosleepOf, CountMembers
  <2> QED
    BY <2>1, <2>2 DEF ListsMatch
<1> QED
  BY <1>1, ListsKept, PTL
----------------------------------------------------------------------------
(* The output routine of the screens.  Nobody on the way through it is lost *)
(* by it: whoever has it gives it back, and whoever must wake up the first  *)
(* that sleeps does, or terminates, which does it too.                      *)

Serving == {"coget", "cowake", "terminate"}
Occupying == {"cogot", "xios", "terminate"}

\* A step by which nobody goes further through the routine.
LEMMA OutputUntouched ==
  ASSUME OutputSound, UNCHANGED conout,
         \A c \in Con : c_cosleep[c] = <<>> => c_cosleep'[c] = <<>>,
         \A x \in Proc : \/ pc[x] \notin Serving \cup Occupying
                         \/ pc'[x] = pc[x]
                         \/ pc'[x] = "terminate"
                         \/ {pc[x], pc'[x]} \subseteq Occupying
                              /\ pc[x] # "terminate"
  PROVE  OutputSound'
<1>1. ASSUME NEW c \in Con, ~ conout'[c], c_cosleep'[c] # <<>>
      PROVE  \E x \in Proc : p_cns[x] = c /\ pc'[x] \in Serving
  <2>1. PICK x \in Proc : p_cns[x] = c /\ pc[x] \in Serving
    BY <1>1 DEF OutputSound, OutputServed, Serving
  <2> QED
    BY <2>1 DEF Serving, Occupying
<1>2. ASSUME NEW c \in Con, conout'[c]
      PROVE  \E x \in Proc : p_cns[x] = c /\ pc'[x] \in Occupying
  <2>1. PICK x \in Proc : p_cns[x] = c /\ pc[x] \in Occupying
    BY <1>2 DEF OutputSound, OutputReleased, Occupying
  <2> QED
    BY <2>1 DEF Serving, Occupying
<1> QED
  BY <1>1, <1>2 DEF OutputSound, OutputServed, OutputReleased, Serving, Occupying

LEMMA CoGetOutput ==
  ASSUME ListsInv, OutputSound, NEW p \in Proc, CoGet(p)
  PROVE  OutputSound'
<1>1. PICK c \in Con : c = p_cns[p]
  BY OwnDevices
<1>2. PICK l \in {"xios", "cogot"} : l = IF p = Pin THEN "xios" ELSE "cogot"
  OBVIOUS
<1>3. pc[p] = "coget"
  BY DEF CoGet
<1>4. CASE conout[c]
  <2>1. /\ UNCHANGED conout
        /\ \A e \in Con : e # c => c_cosleep'[e] = c_cosleep[e]
        /\ \A x \in Proc : pc'[x] = IF x = p THEN "cosleep" ELSE pc[x]
    BY <1>1, <1>4 DEF CoGet, Goto, ListsInv, TypeInv, TypeOK
  <2>2. ASSUME NEW e \in Con, ~ conout'[e], c_cosleep'[e] # <<>>
        PROVE  \E x \in Proc : p_cns[x] = e /\ pc'[x] \in Serving
    BY <1>1, <1>4, <2>1, <2>2 DEF OutputSound, OutputServed, Serving
  <2>3. ASSUME NEW e \in Con, conout'[e]
        PROVE  \E x \in Proc : p_cns[x] = e /\ pc'[x] \in Occupying
    BY <1>3, <2>1, <2>3 DEF OutputSound, OutputReleased, Occupying
  <2> QED
    BY <2>2, <2>3 DEF OutputSound, OutputServed, OutputReleased, Serving, Occupying
<1>5. CASE ~ conout[c]
  <2>1. /\ \A e \in Con : conout'[e] = IF e = c THEN TRUE ELSE conout[e]
        /\ UNCHANGED c_cosleep
        /\ \A x \in Proc : pc'[x] = IF x = p THEN l ELSE pc[x]
    BY <1>1, <1>2, <1>5 DEF CoGet, Goto, ListsInv, TypeInv, TypeOK
  <2>2. ASSUME NEW e \in Con, ~ conout'[e], c_cosleep'[e] # <<>>
        PROVE  \E x \in Proc : p_cns[x] = e /\ pc'[x] \in Serving
    <3>1. e # c /\ ~ conout[e] /\ c_cosleep[e] # <<>>
      BY <2>1, <2>2
    <3>2. PICK x \in Proc : p_cns[x] = e /\ pc[x] \in Serving
      BY <3>1 DEF OutputSound, OutputServed, Serving
    <3> QED
      BY <1>1, <2>1, <3>1, <3>2
  <2>3. ASSUME NEW e \in Con, conout'[e]
        PROVE  \E x \in Proc : p_cns[x] = e /\ pc'[x] \in Occupying
    <3>1. CASE e = c
      <4>1. p_cns[p] = e /\ pc'[p] \in Occupying
        BY <1>1, <2>1, <3>1 DEF Occupying
      <4> QED
        BY <4>1
    <3>2. CASE e # c
      <4>1. PICK x \in Proc : p_cns[x] = e /\ pc[x] \in Occupying
        BY <2>1, <2>3, <3>2 DEF OutputSound, OutputReleased, Occupying
      <4>2. x # p
        BY <1>3, <4>1 DEF Occupying
      <4> QED
        BY <2>1, <4>1, <4>2
    <3> QED
      BY <3>1, <3>2
  <2> QED
    BY <2>2, <2>3 DEF OutputSound, OutputServed, OutputReleased, Serving, Occupying
<1> QED
  BY <1>4, <1>5

LEMMA CoClearOutput ==
  ASSUME ListsInv, OutputSound, NEW p \in Proc, CoClear(p)
  PROVE  OutputSound'
<1>1. PICK c \in Con : c = p_cns[p]
  BY OwnDevices
<1>2. /\ pc[p] = "xios" /\ UNCHANGED c_cosleep
      /\ \A e \in Con : conout'[e] = IF e = c THEN FALSE ELSE conout[e]
      /\ \A x \in Proc : pc'[x] = IF x = p THEN "cowake" ELSE pc[x]
  BY <1>1 DEF CoClear, Goto, ListsInv, TypeInv, TypeOK
<1>3. ASSUME NEW e \in Con, ~ conout'[e], c_cosleep'[e] # <<>>
      PROVE  \E x \in Proc : p_cns[x] = e /\ pc'[x] \in Serving
  <2>1. CASE e = c
    BY <1>1, <1>2, <2>1 DEF Serving
  <2>2. CASE e # c
    <3>1. ~ conout[e] /\ c_cosleep[e] # <<>>
      BY <1>2, <1>3, <2>2
    <3>2. PICK x \in Proc : p_cns[x] = e /\ pc[x] \in Serving
      BY <3>1 DEF OutputSound, OutputServed, Serving
    <3>3. pc'[x] \in Serving
      BY <1>2, <3>2 DEF Serving
    <3> QED
      BY <3>2, <3>3
  <2> QED
    BY <2>1, <2>2
<1>4. ASSUME NEW e \in Con, conout'[e]
      PROVE  \E x \in Proc : p_cns[x] = e /\ pc'[x] \in Occupying
  <2>1. e # c /\ conout[e]
    BY <1>2, <1>4
  <2>2. PICK x \in Proc : p_cns[x] = e /\ pc[x] \in Occupying
    BY <2>1 DEF OutputSound, OutputReleased, Occupying
  <2> QED
    BY <1>1, <1>2, <2>1, <2>2
<1> QED
  BY <1>3, <1>4 DEF OutputSound, OutputServed, OutputReleased, Serving, Occupying

\* CoWake, and what cioterm does to c_cosleep: the first that sleeps goes on.
LEMMA WakeOutput ==
  ASSUME ListsInv, OutputSound, NEW p \in Proc, NEW c \in Con, c = p_cns[p],
         pc[p] \in {"cowake", "terminate"},
         \A x \in Proc : \/ x = p
                         \/ x = First(c_cosleep[c]) /\ pc'[x] = "coget"
                         \/ x # First(c_cosleep[c]) /\ pc[x] \in Asleep
                         \/ x # First(c_cosleep[c]) /\ pc'[x] = pc[x],
         \A e \in Con : e # c => c_cosleep'[e] = c_cosleep[e] /\ conout'[e] = conout[e],
         c_cosleep'[c] = Rest(c_cosleep[c]), conout'[c] => conout[c] /\ pc[p] = "cowake"
  PROVE  OutputSound'
<1>1. ASSUME NEW e \in Con, ~ conout'[e], c_cosleep'[e] # <<>>
      PROVE  \E x \in Proc : p_cns[x] = e /\ pc'[x] \in Serving
  <2>1. CASE e = c
    <3>1. c_cosleep[c] # <<>>
      BY <1>1, <2>1 DEF Rest
    <3>2. PICK x \in Proc : x = First(c_cosleep[c])
      BY <3>1, CosleepOf, FirstMembers
    <3>3. p_cns[x] = c /\ pc[x] = "cosleep"
      BY <3>2, CosleepOf
    <3>4. pc'[x] = "coget"
      BY <3>2, <3>3
    <3> QED
      BY <2>1, <3>3, <3>4 DEF Serving
  <2>2. CASE e # c
    <3>1. PICK x \in Proc : p_cns[x] = e /\ pc[x] \in Serving
      BY <1>1, <2>2 DEF OutputSound, OutputServed, Serving
    <3>2. pc'[x] = pc[x] \/ pc'[x] = "coget"
      BY <2>2, <3>1 DEF Serving, Asleep
    <3> QED
      BY <3>1, <3>2 DEF Serving
  <2> QED
    BY <2>1, <2>2
<1>2. ASSUME NEW e \in Con, conout'[e]
      PROVE  \E x \in Proc : p_cns[x] = e /\ pc'[x] \in Occupying
  <2>1. conout[e]
    BY <1>2
  <2>2. PICK x \in Proc : p_cns[x] = e /\ pc[x] \in Occupying
    BY <2>1 DEF OutputSound, OutputReleased, Occupying
  <2>3. x # p
    BY <1>2, <2>2 DEF Occupying
  <2>4. x # First(c_cosleep[c])
    BY <2>2, CosleepOf DEF Occupying
  <2> QED
    BY <2>2, <2>3, <2>4 DEF Occupying, Asleep
<1> QED
  BY <1>1, <1>2 DEF OutputSound, OutputServed, OutputReleased, Serving, Occupying
LEMMA AbortSpecOutput ==
  ASSUME ListsInv, OutputSound, NEW p \in Proc, NEW t \in Proc, NEW sure,
         pc[p] \in {"user", "abort"}, AbortSpec(p, t, sure)
  PROVE  OutputSound'
<1> DEFINE ok == AbtChk(p_flag[t] \cup {"ctlc"}, sure) = "ok"
<1>1. UNCHANGED conout
  BY DEF AbortSpec
<1>2. CASE ok
  <2>1. TakeOff(t) /\ pc' = [pc EXCEPT ![p] = "user", ![t] = "terminate"]
    BY <1>2 DEF AbortSpec
  <2>2. \A x \in Proc :
          pc'[x] = IF x = t THEN "terminate" ELSE IF x = p THEN "user" ELSE pc[x]
    BY <2>1 DEF ListsInv, TypeInv, TypeOK
  <2>3. \A c \in Con : c_cosleep[c] = <<>> => c_cosleep'[c] = <<>>
    BY <2>1, EmptyMembers DEF TakeOff, Snip
  <2> QED
    BY <1>1, <2>2, <2>3, OutputUntouched DEF Serving, Occupying
<1>3. CASE ~ ok
  <2>1. Goto(p, "user") /\ UNCHANGED c_cosleep
    BY <1>3 DEF AbortSpec
  <2>2. \A x \in Proc : pc'[x] = IF x = p THEN "user" ELSE pc[x]
    BY <2>1 DEF Goto, ListsInv, TypeInv, TypeOK
  <2> QED
    BY <1>1, <2>1, <2>2, OutputUntouched DEF Serving, Occupying
<1> QED
  BY <1>2, <1>3

LEMMA TermActOutput ==
  ASSUME ListsInv, OutputSound, NEW p \in Proc, TermAct(p)
  PROVE  OutputSound'
<1>1. PICK c \in Con : c = p_cns[p]
  BY OwnDevices
<1>2. pc[p] = "terminate"
  BY DEF TermAct
<1>3. /\ \A e \in Con : c_cosleep'[e] = IF e = c THEN Rest(c_cosleep[c]) ELSE c_cosleep[e]
      /\ \A e \in Con : conout'[e] = IF e = c THEN FALSE ELSE conout[e]
  BY <1>1 DEF TermAct, CioTerm, ListsInv, TypeInv, TypeOK
<1>4. \A x \in Proc :
        pc'[x] = IF x = p THEN "dead"
                 ELSE IF x = First(c_cosleep[c]) THEN "coget"
                 ELSE IF \E d \in Dev : c_attach[d] = p /\ x = First(c_queue[d])
                      THEN "attach"
                 ELSE pc[x]
  BY <1>1 DEF TermAct
<1>5. \A x \in Proc : \/ x = p
                      \/ x = First(c_cosleep[c]) /\ pc'[x] = "coget"
                      \/ x # First(c_cosleep[c]) /\ pc[x] \in Asleep
                      \/ x # First(c_cosleep[c]) /\ pc'[x] = pc[x]
  <2>1. \A x \in Proc, d \in Dev : x = First(c_queue[d]) => pc[x] \in Asleep
    BY QueueOf DEF Asleep
  <2>2. PICK t : t = First(c_cosleep[c])
    OBVIOUS
  <2> QED
    BY <1>4, <2>1, <2>2
<1> QED
  BY <1>1, <1>2, <1>3, <1>5, WakeOutput

LEMMA CoWakeOutput ==
  ASSUME ListsInv, OutputSound, NEW p \in Proc, CoWake(p)
  PROVE  OutputSound'
<1>1. PICK c \in Con : c = p_cns[p]
  BY OwnDevices
<1>2. PICK l : l = IF p = Pin THEN "user" ELSE "cotest"
  OBVIOUS
<1>3. /\ pc[p] = "cowake" /\ UNCHANGED conout
      /\ \A x \in Proc :
           pc'[x] = IF x = p THEN l ELSE IF x = First(c_cosleep[c]) THEN "coget" ELSE pc[x]
  BY <1>1, <1>2 DEF CoWake, WakeAndGoto
<1>4. \A e \in Con : c_cosleep'[e] = IF e = c THEN Rest(c_cosleep[c]) ELSE c_cosleep[e]
  BY <1>1 DEF CoWake, ListsInv, TypeInv, TypeOK
<1>5. \A x \in Proc : \/ x = p
                      \/ x = First(c_cosleep[c]) /\ pc'[x] = "coget"
                      \/ x # First(c_cosleep[c]) /\ pc[x] \in Asleep
                      \/ x # First(c_cosleep[c]) /\ pc'[x] = pc[x]
  <2>1. PICK t : t = First(c_cosleep[c])
    OBVIOUS
  <2> QED
    BY <1>3, <2>1
<1> QED
  BY <1>1, <1>3, <1>4, <1>5, WakeOutput

\* The hand-over of a device disturbs nobody in the output routine.
LEMMA HandOverOutput ==
  ASSUME ListsInv, OutputSound, NEW p \in Proc, NEW d \in Dev, pc[p] = "user",
         WakeAndGoto(p, "user", First(c_queue[d]), "attach"),
         UNCHANGED <<conout, c_cosleep>>
  PROVE  OutputSound'
<1>1. \A y \in Proc : pc'[y] = IF y = p THEN "user"
                               ELSE IF y = First(c_queue[d]) THEN "attach" ELSE pc[y]
  BY DEF WakeAndGoto
<1>2. \A y \in Proc : y = First(c_queue[d]) => pc[y] = "attwait"
  BY QueueOf
<1> QED
  BY <1>1, <1>2, OutputUntouched DEF Serving, Occupying

LEMMA StepOutput ==
  ASSUME ListsInv, OutputSound, Next
  PROVE  OutputSound'
<1>t. pc \in [Proc -> PC]
  BY DEF ListsInv, TypeInv, TypeOK
<1> USE <1>t DEF devVars, outVars, flagVars, callVars, Serving, Occupying
<1>1. ASSUME NEW p \in Proc, NEW d \in Dev, NEW out \in BOOLEAN, CallAttach(p, d, out)
      PROVE  OutputSound'
  BY <1>1, OutputUntouched DEF CallAttach, Goto
<1>2. ASSUME NEW p \in Proc, Attach(p)
      PROVE  OutputSound'
  BY <1>2, OutputUntouched DEF Attach, CioAttach, Goto
<1>3. ASSUME NEW p \in Proc, NEW d \in Dev, CondAttach(p, d)
      PROVE  OutputSound'
  BY <1>3, OutputUntouched DEF CondAttach
<1>4. ASSUME NEW p \in Proc, NEW d \in Dev, Detach(p, d)
      PROVE  OutputSound'
  BY <1>4, HandOverOutput DEF Detach
<1>5. ASSUME NEW p \in Proc, NEW t \in Proc, ConAssign(p, t)
      PROVE  OutputSound'
  BY <1>5, OutputUntouched DEF ConAssign, Goto
<1>6. ASSUME NEW p \in Proc, AssignWake(p)
      PROVE  OutputSound'
  <2>1. PICK c \in Dev : c = p_cns[p]
    BY OwnDevices
  <2>2. PICK t : t = target[p]
    OBVIOUS
  <2>3. IsOn(c_queue[c], t) /\ t \in Proc => pc[t] = "attwait"
    BY QueueOf
  <2>4. /\ pc[p] = "assign" /\ UNCHANGED <<conout, c_cosleep>>
        /\ IF IsOn(c_queue[c], t) THEN WakeAndGoto(p, "user", t, "attach")
                                  ELSE Goto(p, "user")
    BY <1>6, <2>1, <2>2 DEF AssignWake
  <2> QED
    BY <2>3, <2>4, OutputUntouched DEF WakeAndGoto, Goto
<1>7. ASSUME NEW p \in Proc, CoGet(p)
      PROVE  OutputSound'
  BY <1>7, CoGetOutput
<1>8. ASSUME NEW p \in Proc, CoKeep(p)
      PROVE  OutputSound'
  BY <1>8, OutputUntouched DEF CoKeep, Goto
<1>9. ASSUME NEW p \in Proc, CoClear(p)
      PROVE  OutputSound'
  BY <1>9, CoClearOutput
<1>10. ASSUME NEW p \in Proc, CoWake(p)
       PROVE  OutputSound'
  BY <1>10, CoWakeOutput
<1>11. ASSUME NEW p \in Proc, CoTest(p)
       PROVE  OutputSound'
  BY <1>11, OutputUntouched DEF CoTest, Goto
<1>12. ASSUME NEW p \in Proc, CoRestore(p)
       PROVE  OutputSound'
  BY <1>12, OutputUntouched DEF CoRestore, Goto
<1>13. ASSUME NEW p \in Proc, NEW sure \in BOOLEAN, Terminate(p, sure)
       PROVE  OutputSound'
  BY <1>13, OutputUntouched DEF Terminate, TerminateEntry, Goto
<1>14. ASSUME NEW p \in Proc, CoRestoreCtlC(p)
       PROVE  OutputSound'
  BY <1>14, OutputUntouched DEF CoRestoreCtlC, TerminateEntry, Goto
<1>15. ASSUME NEW p \in Proc, NEW t \in Proc, NEW sure \in BOOLEAN, AbortByName(p, t, sure)
       PROVE  OutputSound'
  BY <1>15, AbortSpecOutput DEF AbortByName
<1>16. ASSUME NEW p \in Proc, TermAct(p)
       PROVE  OutputSound'
  BY <1>16, TermActOutput
<1>17. ASSUME NEW p \in Proc, Create(p)
       PROVE  OutputSound'
  BY <1>17, OutputUntouched DEF Create, Goto
<1>18. CASE ControlC
  BY <1>18, OutputUntouched, ProcAssumption DEF ControlC, Goto
<1>19. CASE PinAbort
  <2>1. pc[Pin] = "abort" /\ target[Pin] \in Proc /\ Pin \in Proc
    BY <1>19, ProcAssumption DEF PinAbort, ListsInv, TypeInv, TargetKept
  <2>2. CASE pc[target[Pin]] # "dead"
    <3>1. PICK t \in Proc, sure \in BOOLEAN : AbortSpec(Pin, t, sure)
      BY <1>19, <2>1, <2>2 DEF PinAbort
    <3> QED
      BY <2>1, <3>1, AbortSpecOutput
  <2>3. CASE pc[target[Pin]] = "dead"
    <3>1. Goto(Pin, "user") /\ UNCHANGED <<devVars, outVars, callVars>>
      BY <1>19, <2>3 DEF PinAbort
    <3> QED
      BY <2>1, <3>1, OutputUntouched DEF Goto
  <2> QED
    BY <2>2, <2>3
<1>20. CASE PinMessage
  BY <1>20, OutputUntouched, ProcAssumption DEF PinMessage, Goto
<1>21. CASE ControlPOn
  BY <1>21, OutputUntouched, ProcAssumption DEF ControlPOn, Goto
<1>22. CASE ControlPOff
  <2>1. PICK d : d = c_mimic[p_cns[Pin]]
    OBVIOUS
  <2>2. d \in Dev
    BY <1>22, <2>1, OwnDevices, ProcAssumption
       DEF ControlPOff, ListsInv, TypeInv, TypeOK, Dev
  <2> QED
    BY <1>22, <2>1, <2>2, HandOverOutput, ProcAssumption DEF ControlPOff
<1> QED
  BY <1>1, <1>2, <1>3, <1>4, <1>5, <1>6, <1>7, <1>8, <1>9, <1>10, <1>11, <1>12, <1>13,
     <1>14, <1>15, <1>16, <1>17, <1>18, <1>19, <1>20, <1>21, <1>22, OwnDevices
     DEF Next, PinStep, Call, Kernel

\* Nobody is left asleep for the output routine of a screen, whoever is aborted
\* in it or on the way to it, and it is not left occupied.
THEOREM OutputKept == Spec => []OutputSound
<1>1. Init => OutputSound
  BY DEF Init, OutputSound, OutputServed, OutputReleased
<1>2. ListsInv /\ OutputSound /\ [Next]_vars => OutputSound'
  <2>1. ASSUME OutputSound, UNCHANGED vars PROVE OutputSound'
    BY <2>1 DEF vars, outVars, OutputSound, OutputServed, OutputReleased
  <2> QED
    BY <2>1, StepOutput
<1> QED
  BY <1>1, <1>2, ListsKept, PTL DEF Spec
----------------------------------------------------------------------------
(* A process that is created with KEEP or TEMPKEEP does not terminate: no   *)
(* abort and no restoring of its flags takes both from it.                  *)

HasKeep(flags) == "keep" \in flags \/ "tempkeep" \in flags

\* Where conoutf has pushed the flags.
Saving(p) == \/ pc[p] \in {"cotest", "corest", "corestctlc"}
             \/ p # Pin /\ pc[p] \in {"xios", "cowake"}

Stayed(p) == /\ pc[p] \notin {"terminate", "dead"}
             /\ HasKeep(p_flag[p])
             /\ Saving(p) => HasKeep(saved[p])

HoldersStay == \A p \in Proc : HasKeep(PFlags[p]) => Stayed(p)

LEMMA HeldAbtChk ==
  ASSUME NEW flags, NEW sure, HasKeep(flags)
  PROVE  /\ AbtChk(flags, sure) # "ok"
         /\ HasKeep(FlagsAfterAbtChk(flags, sure))
         /\ HasKeep(flags \cup {"ctlc"}) /\ HasKeep(flags \cup {"tempkeep"})
  BY DEF HasKeep, AbtChk, FlagsAfterAbtChk

\* A step that leaves the flags alone.
LEMMA HoldersUntouched ==
  ASSUME HoldersStay, UNCHANGED <<p_flag, saved>>,
         \A x \in Proc :
           pc'[x] = pc[x] \/ pc'[x] \notin {"terminate", "dead", "cotest", "corest",
                                             "corestctlc", "xios", "cowake"}
  PROVE  HoldersStay'
  BY DEF HoldersStay, Stayed, Saving

\* The same by one process that goes on in the output routine.
LEMMA HoldersGoOn ==
  ASSUME HoldersStay, UNCHANGED <<p_flag, saved>>, NEW p \in Proc,
         pc'[p] \notin {"terminate", "dead"}, Saving(p)' => Saving(p),
         \A x \in Proc \ {p} :
           pc'[x] = pc[x] \/ pc'[x] \notin {"terminate", "dead", "cotest", "corest",
                                             "corestctlc", "xios", "cowake"}
  PROVE  HoldersStay'
  BY DEF HoldersStay, Stayed, Saving

LEMMA InitHolders == Init => HoldersStay
  BY DEF Init, HoldersStay, Stayed, Saving

LEMMA TerminateEntryHolders ==
  ASSUME TypeInv, HoldersStay, NEW p \in Proc, NEW flags \in SUBSET Flags, NEW sure,
         HasKeep(PFlags[p]) => HasKeep(flags), TerminateEntry(p, flags, sure),
         \A x \in Proc \ {p} : saved'[x] = saved[x]
  PROVE  HoldersStay'
<1>1. PICK f, l : /\ f = FlagsAfterAbtChk(flags, sure)
                  /\ l = IF AbtChk(flags, sure) = "ok" THEN "terminate" ELSE "user"
  OBVIOUS
<1>2. /\ p_flag' = [p_flag EXCEPT ![p] = f] /\ pc' = [pc EXCEPT ![p] = l]
  BY <1>1 DEF TerminateEntry, Goto
<1>3. HasKeep(PFlags[p]) => l = "user" /\ HasKeep(f)
  BY <1>1, HeldAbtChk
<1>4. /\ pc'[p] = l /\ p_flag'[p] = f
      /\ \A x \in Proc \ {p} : pc'[x] = pc[x] /\ p_flag'[x] = p_flag[x]
  BY <1>2 DEF TypeInv, TypeOK
<1> QED
  BY <1>3, <1>4 DEF HoldersStay, Stayed, Saving

LEMMA AbortSpecHolders ==
  ASSUME TypeInv, HoldersStay, NEW p \in Proc, NEW t \in Proc, NEW sure,
         pc[p] \in {"user", "abort"}, AbortSpec(p, t, sure)
  PROVE  HoldersStay'
<1>1. PICK fl : fl = p_flag[t] \cup {"ctlc"}
  OBVIOUS
<1>2. PICK f : f = FlagsAfterAbtChk(fl, sure)
  OBVIOUS
<1>3. HasKeep(PFlags[t]) => AbtChk(fl, sure) # "ok" /\ HasKeep(f)
  BY <1>1, <1>2, HeldAbtChk DEF HoldersStay, Stayed
<1>4. \A x \in Proc : p_flag'[x] = IF x = t THEN f ELSE p_flag[x]
  BY <1>1, <1>2 DEF AbortSpec, TypeInv, TypeOK
<1>5. CASE AbtChk(fl, sure) = "ok"
  <2>1. /\ pc' = [pc EXCEPT ![p] = "user", ![t] = "terminate"]
        /\ saved' = [saved EXCEPT ![t] = {}]
    BY <1>1, <1>5 DEF AbortSpec
  <2>2. \A x \in Proc :
          /\ pc'[x] = IF x = t THEN "terminate" ELSE IF x = p THEN "user" ELSE pc[x]
          /\ x # t => saved'[x] = saved[x]
    BY <2>1 DEF TypeInv, TypeOK
  <2> QED
    BY <1>3, <1>4, <1>5, <2>2 DEF HoldersStay, Stayed, Saving
<1>6. CASE AbtChk(fl, sure) # "ok"
  <2>1. Goto(p, "user") /\ UNCHANGED saved
    BY <1>1, <1>6 DEF AbortSpec
  <2>2. \A x \in Proc : pc'[x] = IF x = p THEN "user" ELSE pc[x]
    BY <2>1 DEF Goto, TypeInv, TypeOK
  <2> QED
    BY <1>3, <1>4, <2>1, <2>2 DEF HoldersStay, Stayed, Saving
<1> QED
  BY <1>5, <1>6

LEMMA StepHolders ==
  ASSUME TypeInv, HoldersStay, Next
  PROVE  HoldersStay'
<1>t. /\ pc \in [Proc -> PC]
      /\ p_flag \in [Proc -> SUBSET Flags] /\ saved \in [Proc -> SUBSET Flags]
  BY DEF TypeInv, TypeOK
<1> USE <1>t DEF devVars, outVars, flagVars, callVars
<1>1. ASSUME NEW p \in Proc, NEW d \in Dev, NEW out \in BOOLEAN, CallAttach(p, d, out)
      PROVE  HoldersStay'
  BY <1>1, HoldersUntouched DEF CallAttach, Goto
<1>2. ASSUME NEW p \in Proc, Attach(p)
      PROVE  HoldersStay'
  BY <1>2, HoldersUntouched DEF Attach, CioAttach, Attached, Goto
<1>3. ASSUME NEW p \in Proc, NEW d \in Dev, CondAttach(p, d)
      PROVE  HoldersStay'
  BY <1>3, HoldersUntouched DEF CondAttach
<1>4. ASSUME NEW p \in Proc, NEW d \in Dev, Detach(p, d)
      PROVE  HoldersStay'
  BY <1>4, HoldersUntouched DEF Detach, WakeAndGoto
<1>5. ASSUME NEW p \in Proc, NEW t \in Proc, ConAssign(p, t)
      PROVE  HoldersStay'
  BY <1>5, HoldersUntouched DEF ConAssign, Goto
<1>6. ASSUME NEW p \in Proc, AssignWake(p)
      PROVE  HoldersStay'
  BY <1>6, HoldersUntouched DEF AssignWake, Goto, WakeAndGoto
<1>7. ASSUME NEW p \in Proc, CoGet(p)
      PROVE  HoldersStay'
  <2>1. PICK l : l = IF p = Pin THEN "xios" ELSE "cogot"
    OBVIOUS
  <2>2. Goto(p, "cosleep") \/ Goto(p, l)
    BY <1>7, <2>1 DEF CoGet
  <2> QED
    BY <1>7, <2>1, <2>2, HoldersGoOn DEF CoGet, Goto, Saving
<1>8. ASSUME NEW p \in Proc, CoKeep(p)
      PROVE  HoldersStay'
  <2>1. /\ \A x \in Proc : pc'[x] = IF x = p THEN "xios" ELSE pc[x]
        /\ \A x \in Proc : saved'[x] = IF x = p THEN p_flag[p] ELSE saved[x]
        /\ \A x \in Proc : p_flag'[x] = IF x = p THEN p_flag[p] \cup {"tempkeep"}
                                                 ELSE p_flag[x]
    BY <1>8 DEF CoKeep, Goto
  <2> QED
    BY <2>1, HeldAbtChk DEF HoldersStay, Stayed, Saving
<1>9. ASSUME NEW p \in Proc, CoClear(p)
      PROVE  HoldersStay'
  BY <1>9, HoldersGoOn DEF CoClear, Goto, Saving
<1>10. ASSUME NEW p \in Proc, CoWake(p)
       PROVE  HoldersStay'
  <2>1. PICK l : l = IF p = Pin THEN "user" ELSE "cotest"
    OBVIOUS
  <2> QED
    BY <1>10, <2>1, HoldersGoOn DEF CoWake, WakeAndGoto, Saving
<1>11. ASSUME NEW p \in Proc, CoTest(p)
       PROVE  HoldersStay'
  <2>1. PICK l : l = IF "ctlc" \in p_flag[p] THEN "corestctlc" ELSE "corest"
    OBVIOUS
  <2> QED
    BY <1>11, <2>1, HoldersGoOn DEF CoTest, Goto, Saving
<1>12. ASSUME NEW p \in Proc, CoRestore(p)
       PROVE  HoldersStay'
  <2>1. /\ \A x \in Proc : pc'[x] = IF x = p THEN "user" ELSE pc[x]
        /\ \A x \in Proc : p_flag'[x] = IF x = p THEN saved[p] ELSE p_flag[x]
        /\ \A x \in Proc \ {p} : saved'[x] = saved[x]
        /\ pc[p] = "corest"
    BY <1>12 DEF CoRestore, Goto
  <2> QED
    BY <2>1 DEF HoldersStay, Stayed, Saving
<1>13. ASSUME NEW p \in Proc, NEW sure \in BOOLEAN, Terminate(p, sure)
       PROVE  HoldersStay'
  BY <1>13, TerminateEntryHolders DEF Terminate, HoldersStay, Stayed
<1>14. ASSUME NEW p \in Proc, CoRestoreCtlC(p)
       PROVE  HoldersStay'
  <2>1. PICK f \in SUBSET Flags, sure \in BOOLEAN :
          f = saved[p] \cup {"ctlc"} /\ TerminateEntry(p, f, sure)
    BY <1>14, FlagTypes DEF CoRestoreCtlC
  <2>2. HasKeep(PFlags[p]) => HasKeep(f)
    BY <1>14, <2>1, HeldAbtChk DEF CoRestoreCtlC, HoldersStay, Stayed, Saving
  <2>3. \A x \in Proc \ {p} : saved'[x] = saved[x]
    BY <1>14 DEF CoRestoreCtlC
  <2> QED
    BY <2>1, <2>2, <2>3, TerminateEntryHolders
<1>15. ASSUME NEW p \in Proc, NEW t \in Proc, NEW sure \in BOOLEAN, AbortByName(p, t, sure)
       PROVE  HoldersStay'
  BY <1>15, AbortSpecHolders DEF AbortByName
<1>16. ASSUME NEW p \in Proc, TermAct(p)
       PROVE  HoldersStay'
  <2>1. /\ pc[p] = "terminate" /\ UNCHANGED saved
        /\ \A x \in Proc \ {p} : /\ pc'[x] \in {pc[x], "coget", "attach"}
                                 /\ p_flag'[x] = p_flag[x]
    BY <1>16 DEF TermAct
  <2>2. ~ HasKeep(PFlags[p])
    BY <2>1 DEF HoldersStay, Stayed
  <2> QED
    BY <2>1, <2>2 DEF HoldersStay, Stayed, Saving
<1>17. ASSUME NEW p \in Proc, Create(p)
       PROVE  HoldersStay'
  <2>1. pc[p] = "dead" /\ UNCHANGED saved
    BY <1>17 DEF Create
  <2>2. \A x \in Proc \ {p} : pc'[x] = pc[x] /\ p_flag'[x] = p_flag[x]
    BY <1>17 DEF Create, Goto
  <2> QED
    BY <2>1, <2>2 DEF HoldersStay, Stayed, Saving
<1>18. CASE ControlC
  BY <1>18, HoldersUntouched, ProcAssumption DEF ControlC, Goto
<1>19. CASE PinAbort
  <2>1. pc[Pin] = "abort" /\ target[Pin] \in Proc /\ Pin \in Proc
    BY <1>19, ProcAssumption DEF PinAbort, TypeInv, TargetKept
  <2>2. CASE pc[target[Pin]] # "dead"
    <3>1. PICK t \in Proc, sure \in BOOLEAN : AbortSpec(Pin, t, sure)
      BY <1>19, <2>1, <2>2 DEF PinAbort
    <3> QED
      BY <2>1, <3>1, AbortSpecHolders
  <2>3. CASE pc[target[Pin]] = "dead"
    <3>1. Goto(Pin, "user") /\ UNCHANGED <<devVars, outVars, flagVars>>
      BY <1>19, <2>3 DEF PinAbort
    <3> QED
      BY <2>1, <3>1, HoldersUntouched DEF Goto
  <2> QED
    BY <2>2, <2>3
<1>20. CASE PinMessage
  BY <1>20, HoldersUntouched, ProcAssumption DEF PinMessage, Goto
<1>21. CASE ControlPOn
  BY <1>21, HoldersUntouched, ProcAssumption DEF ControlPOn, Goto
<1>22. CASE ControlPOff
  BY <1>22, HoldersUntouched, ProcAssumption DEF ControlPOff, WakeAndGoto
<1> QED
  BY <1>1, <1>2, <1>3, <1>4, <1>5, <1>6, <1>7, <1>8, <1>9, <1>10, <1>11, <1>12, <1>13,
     <1>14, <1>15, <1>16, <1>17, <1>18, <1>19, <1>20, <1>21, <1>22, OwnDevices
     DEF Next, PinStep, Call, Kernel

\* With this an assigner is not terminated between conassign and its wakeup.
LEMMA HoldersKept == Spec => []HoldersStay
<1>1. Init => HoldersStay
  BY InitHolders
<1>2. ListsInv /\ HoldersStay /\ [Next]_vars => HoldersStay'
  <2>1. ASSUME HoldersStay, UNCHANGED vars PROVE HoldersStay'
    BY <2>1, HoldersUntouched DEF vars, flagVars
  <2> QED
    BY <2>1, StepHolders DEF ListsInv
<1> QED
  BY <1>1, <1>2, ListsKept, PTL DEF Spec
----------------------------------------------------------------------------
(* The owners.  One that is asleep until it owns what it owns is about to be *)
(* woken up by the process that assigned it the console.                    *)

OwnersAlive == \A d \in Dev, p \in Proc : c_attach[d] = p => pc[p] # "dead"

AssignPending ==
  \A d \in Dev, p \in Proc :
    c_attach[d] = p /\ pc[p] = "attwait" /\ want[p] = d
      => \E q \in Proc : pc[q] = "assign" /\ target[q] = p /\ p_cns[q] = d

\* Only the console of the input process echoes on a printer.
MimicKept ==
  /\ \A c \in Con : c # p_cns[Pin] => c_mimic[c] = NoDev
  /\ \A d \in Dev : c_attach[d] = Mimic <=> c_mimic[p_cns[Pin]] = d

OwnersInv == OwnersAlive /\ AssignPending /\ NoStranded /\ MimicKept

\* A step whose new owners are awake.
LEMMA OwnersFollow ==
  ASSUME OwnersAlive, AssignPending,
         \A d \in Dev, x \in Proc :
           c_attach'[d] = x => c_attach[d] = x \/ pc'[x] \notin {"dead", "attwait"},
         \A x \in Proc :
           pc'[x] = "dead" => pc[x] = "dead" \/ \A d \in Dev : c_attach'[d] # x,
         \A x \in Proc :
           pc'[x] = "attwait" => \/ pc[x] = "attwait" /\ want'[x] = want[x]
                                 \/ c_attach'[want'[x]] # x,
         \A x \in Proc : pc[x] = "assign" => pc'[x] = "assign" /\ target'[x] = target[x]
  PROVE  OwnersAlive' /\ AssignPending'
<1>1. OwnersAlive'
  BY DEF OwnersAlive
<1>2. ASSUME NEW d \in Dev, NEW x \in Proc,
             c_attach'[d] = x, pc'[x] = "attwait", want'[x] = d
      PROVE  \E q \in Proc : pc'[q] = "assign" /\ target'[q] = x /\ p_cns[q] = d
  <2>1. c_attach[d] = x /\ pc[x] = "attwait" /\ want[x] = d
    BY <1>2
  <2>2. PICK q \in Proc : pc[q] = "assign" /\ target[q] = x /\ p_cns[q] = d
    BY <2>1 DEF AssignPending
  <2> QED
    BY <2>2
<1> QED
  BY <1>1, <1>2 DEF AssignPending

\* A step that leaves the devices alone.
LEMMA OwnersUntouched ==
  ASSUME OwnersInv, UNCHANGED devVars,
         \A x \in Proc :
           \/ pc'[x] = pc[x] /\ want'[x] = want[x] /\ target'[x] = target[x]
           \/ pc[x] # "assign" /\ pc'[x] \notin {"dead", "attwait"}
  PROVE  OwnersInv'
<1>1. UNCHANGED <<c_attach, c_queue, c_mimic>>
  BY DEF devVars
<1>2. OwnersAlive' /\ AssignPending'
  BY <1>1, OwnersFollow DEF OwnersInv
<1> QED
  BY <1>1, <1>2 DEF OwnersInv, NoStranded, MimicKept

LEMMA InitOwners == Init => OwnersInv
<1> SUFFICES ASSUME Init PROVE OwnersInv
  OBVIOUS
<1>1. /\ \A d \in Dev : c_attach[d] = NoProc /\ c_queue[d] = <<>>
      /\ \A c \in Con : c_mimic[c] = NoDev
  BY DEF Init
<1>2. p_cns[Pin] \in Con /\ Con \subseteq Dev
  BY OwnDevices, ProcAssumption DEF Dev
<1> QED
  BY <1>1, <1>2, ProcAssumption, DevAssumption
     DEF OwnersInv, OwnersAlive, AssignPending, NoStranded, MimicKept

----------------------------------------------------------------------------
(* What Devices sees of a step.                                            *)

Sleepers(d) == {p \in Proc : IsOn(c_queue[d], p)}

\* The owners and the waiting processes, in the terms of Devices.
LEMMA Seen ==
  /\ UNCHANGED c_attach /\ (\A d \in Dev : Sleepers(d)' = Sleepers(d))
       => UNCHANGED Ownership!vars
  /\ (\A d \in Dev : Sleepers(d)' = Sleepers(d))
       => UNCHANGED [d \in Dev |-> {p \in Proc : IsOn(c_queue[d], p)}]
<1> SUFFICES ASSUME \A d \in Dev : Sleepers(d)' = Sleepers(d)
             PROVE  UNCHANGED [d \in Dev |-> {p \in Proc : IsOn(c_queue[d], p)}]
  BY DEF Ownership!vars
<1> QED
  BY DEF Sleepers

LEMMA SeenSame ==
  ASSUME UNCHANGED <<c_attach, c_queue>> PROVE UNCHANGED Ownership!vars
  BY Seen DEF Sleepers

LEMMA SeenAcquire ==
  ASSUME NEW d \in Dev, NEW x \in Proc \cup {Mimic}, c_attach[d] = NoProc,
         c_attach' = [c_attach EXCEPT ![d] = x], UNCHANGED c_queue
  PROVE  Ownership!Next
<1>1. UNCHANGED [e \in Dev |-> {p \in Proc : IsOn(c_queue[e], p)}]
  BY Seen DEF Sleepers
<1>2. Ownership!Acquire(x, d)
  BY <1>1 DEF Ownership!Acquire
<1> QED
  BY <1>2 DEF Ownership!Next, Ownership!Follow

LEMMA SeenAssign ==
  ASSUME NEW d \in Dev, NEW p \in Proc, NEW t \in Proc, c_attach[d] \in {NoProc, p},
         c_attach' = [c_attach EXCEPT ![d] = t], UNCHANGED c_queue
  PROVE  Ownership!Next
<1>1. UNCHANGED [e \in Dev |-> {x \in Proc : IsOn(c_queue[e], x)}]
  BY Seen DEF Sleepers
<1>2. Ownership!Assign(p, d, t)
  BY <1>1 DEF Ownership!Assign
<1> QED
  BY <1>2 DEF Ownership!Next

LEMMA SeenWait ==
  ASSUME NEW d \in Dev, NEW p \in Proc, c_attach[d] \notin {NoProc, p}, UNCHANGED c_attach,
         \A e \in Dev : Sleepers(e)' = IF e = d THEN Sleepers(d) \cup {p} ELSE Sleepers(e)
  PROVE  Ownership!Next
<1>1. [e \in Dev |-> {x \in Proc : IsOn(c_queue[e], x)}]'
        = [[e \in Dev |-> {x \in Proc : IsOn(c_queue[e], x)}]
             EXCEPT ![d] = @ \cup {p}]
  BY DEF Sleepers
<1>2. Ownership!Wait(p, d)
  BY <1>1 DEF Ownership!Wait
<1> QED
  BY <1>2 DEF Ownership!Next

LEMMA SeenLeave ==
  ASSUME NEW d \in Dev, NEW p \in Proc, UNCHANGED c_attach,
         \A e \in Dev : Sleepers(e)' = IF e = d THEN Sleepers(d) \ {p} ELSE Sleepers(e)
  PROVE  Ownership!Next
<1>1. [e \in Dev |-> {x \in Proc : IsOn(c_queue[e], x)}]'
        = [[e \in Dev |-> {x \in Proc : IsOn(c_queue[e], x)}]
             EXCEPT ![d] = @ \ {p}]
  BY DEF Sleepers
<1>2. Ownership!Leave(p, d)
  BY <1>1 DEF Ownership!Leave
<1> QED
  BY <1>2 DEF Ownership!Next

\* p gives up the devices in S: the first of each list owns it.
LEMMA SeenGiveUp ==
  ASSUME ListsInv, NEW p \in Proc, NEW S \in SUBSET Dev, \A d \in S : c_attach[d] = p,
         c_attach' = [d \in Dev |-> IF d \in S THEN First(c_queue[d]) ELSE c_attach[d]],
         \A d \in Dev : c_queue'[d] = IF d \in S THEN Rest(c_queue[d]) ELSE c_queue[d]
  PROVE  Ownership!Next
<1> DEFINE next == [d \in S |-> First(c_queue[d])]
           w == [d \in Dev |-> {x \in Proc : IsOn(c_queue[d], x)}]
<1>1. next \in [S -> Proc \cup {NoProc}]
  BY QueueOf, FirstType
<1>2. ASSUME NEW d \in S
      PROVE  IF w[d] = {} THEN next[d] = NoProc ELSE next[d] \in w[d]
  <2>1. w[d] = Sleepers(d) /\ next[d] = First(c_queue[d])
    BY DEF Sleepers
  <2>2. c_queue[d] # <<>> => First(c_queue[d]) \in Sleepers(d)
    BY QueueOf, FirstMembers DEF Sleepers
  <2>3. c_queue[d] = <<>> => First(c_queue[d]) = NoProc /\ Sleepers(d) = {}
    BY EmptyMembers DEF First, Sleepers
  <2> QED
    BY <2>1, <2>2, <2>3
<1>3. w' = [d \in Dev |-> IF d \in S THEN w[d] \ {next[d]} ELSE w[d]]
  <2>1. ASSUME NEW d \in Dev
        PROVE  Sleepers(d)' = IF d \in S THEN Sleepers(d) \ {First(c_queue[d])}
                                         ELSE Sleepers(d)
    BY QueueOf DEF Sleepers
  <2> QED
    BY <2>1 DEF Sleepers
<1>4. c_attach' = [d \in Dev |-> IF d \in S THEN next[d] ELSE c_attach[d]]
  OBVIOUS
<1>5. Ownership!GiveUp(p, S)
  <2> HIDE DEF next
  <2> QED
    BY <1>1, <1>2, <1>3, <1>4 DEF Ownership!GiveUp
<1> QED
  BY <1>5 DEF Ownership!Next
----------------------------------------------------------------------------
(* What each step does to the devices: it keeps the invariant, takes no     *)
(* device from a process but in a call of its own, and is one of Devices.   *)

KeepsOwner ==
  \A d \in Dev, p \in Proc :
    (c_attach[d] = p /\ c_attach'[d] # p) => pc[p] \in {"user", "terminate"}

DeviceStep == OwnersInv' /\ KeepsOwner /\ (Ownership!Next \/ UNCHANGED Ownership!vars)

\* A step that leaves the devices alone.
LEMMA DevicesUntouched ==
  ASSUME OwnersInv, UNCHANGED devVars,
         \A x \in Proc :
           \/ pc'[x] = pc[x] /\ want'[x] = want[x] /\ target'[x] = target[x]
           \/ pc[x] # "assign" /\ pc'[x] \notin {"dead", "attwait"}
  PROVE  DeviceStep
<1>1. OwnersInv'
  BY OwnersUntouched
<1>2. UNCHANGED Ownership!vars
  BY SeenSame DEF devVars
<1> QED
  BY <1>1, <1>2 DEF DeviceStep, KeepsOwner, devVars

\* A device that no other process owns becomes x's.
LEMMA NewOwner ==
  ASSUME TypeInv, OwnersInv, NEW d \in Dev, NEW x \in Proc, c_attach[d] # Mimic,
         c_attach' = [c_attach EXCEPT ![d] = x], UNCHANGED <<c_queue, c_mimic>>
  PROVE  /\ NoStranded' /\ MimicKept'
         /\ \A e \in Dev : c_attach'[e] = IF e = d THEN x ELSE c_attach[e]
<1>1. \A e \in Dev : c_attach'[e] = IF e = d THEN x ELSE c_attach[e]
  BY DEF TypeInv, TypeOK
<1>2. NoStranded'
  BY <1>1, ProcAssumption DEF OwnersInv, NoStranded, Dev
<1>3. MimicKept'
  BY <1>1, ProcAssumption DEF OwnersInv, MimicKept
<1> QED
  BY <1>1, <1>2, <1>3

LEMMA AttachDevices ==
  ASSUME ListsInv, OwnersInv, NEW p \in Proc, Attach(p)
  PROVE  DeviceStep
<1>1. pc[p] = "attach" /\ want[p] \in Dev
  BY OwnDevices DEF Attach, ListsInv, WantKept
<1>2. PICK d \in Dev : d = want[p]
  BY <1>1
<1>3. UNCHANGED <<c_mimic, target>>
  BY DEF Attach
<1> USE DEF ListsInv
<1>4. CASE c_attach[d] \in {NoProc, p}
  <2>1. /\ c_attach' = [c_attach EXCEPT ![d] = p] /\ Goto(p, Attached(p))
        /\ want' = [want EXCEPT ![p] = NoDev] /\ UNCHANGED c_queue
    BY <1>2, <1>4 DEF Attach, CioAttach
  <2>2. PICK l \in {"coget", "user"} : l = Attached(p)
    BY DEF Attached
  <2>3. /\ \A x \in Proc : pc'[x] = IF x = p THEN l ELSE pc[x]
        /\ \A x \in Proc \ {p} : want'[x] = want[x]
    BY <2>1, <2>2 DEF Goto, TypeInv, TypeOK
  <2>4. /\ NoStranded' /\ MimicKept'
        /\ \A e \in Dev : c_attach'[e] = IF e = d THEN p ELSE c_attach[e]
    BY <1>3, <1>4, <2>1, NewOwner, ProcAssumption
  <2>5. OwnersAlive' /\ AssignPending'
    BY <1>1, <1>3, <2>3, <2>4, OwnersFollow DEF OwnersInv
  <2>6. KeepsOwner
    BY <1>4, <2>4, ProcAssumption DEF KeepsOwner
  <2>7. Ownership!Next \/ UNCHANGED Ownership!vars
    <3>1. CASE c_attach[d] = NoProc
      BY <2>1, <3>1, SeenAcquire
    <3>2. CASE c_attach[d] = p
      <4>1. c_attach' = c_attach
        BY <2>1, <3>2 DEF TypeInv, TypeOK
      <4> QED
        BY <2>1, <4>1, SeenSame
    <3> QED
      BY <1>4, <3>1, <3>2
  <2> QED
    BY <2>4, <2>5, <2>6, <2>7 DEF DeviceStep, OwnersInv
<1>5. CASE c_attach[d] \notin {NoProc, p}
  <2>1. PICK l : l = InsertProcess(c_queue[d], p)
    OBVIOUS
  <2>2. /\ c_queue' = [c_queue EXCEPT ![d] = l] /\ Goto(p, "attwait")
        /\ UNCHANGED <<c_attach, want>>
    BY <1>2, <1>5, <2>1 DEF Attach, CioAttach, callVars
  <2>3. /\ \A x \in Proc : pc'[x] = IF x = p THEN "attwait" ELSE pc[x]
        /\ \A e \in Dev : c_queue'[e] = IF e = d THEN l ELSE c_queue[e]
    BY <2>2 DEF Goto, TypeInv, TypeOK
  <2>4. OwnersAlive' /\ AssignPending'
    BY <1>1, <1>2, <1>3, <1>5, <2>2, <2>3, OwnersFollow DEF OwnersInv
  <2>5. NoStranded' /\ MimicKept'
    BY <1>3, <1>5, <2>2, <2>3 DEF OwnersInv, NoStranded, MimicKept, Dev
  <2>6. KeepsOwner
    BY <2>2 DEF KeepsOwner
  <2>7. \A e \in Dev : Sleepers(e)' = IF e = d THEN Sleepers(d) \cup {p} ELSE Sleepers(e)
    <3>1. \A x \in Proc : IsOn(l, x) <=> x = p \/ IsOn(c_queue[d], x)
      BY <2>1, InsertMembers, QueueOf
    <3> QED
      BY <2>3, <3>1 DEF Sleepers
  <2>8. Ownership!Next
    BY <1>5, <2>2, <2>7, SeenWait
  <2> QED
    BY <2>4, <2>5, <2>6, <2>8 DEF DeviceStep, OwnersInv
<1> QED
  BY <1>4, <1>5

LEMMA CondAttachDevices ==
  ASSUME ListsInv, OwnersInv, NEW p \in Proc, NEW d \in Dev, CondAttach(p, d)
  PROVE  DeviceStep
<1>1. /\ pc[p] = "user" /\ c_attach[d] = NoProc
      /\ c_attach' = [c_attach EXCEPT ![d] = p]
      /\ UNCHANGED <<c_queue, c_mimic, pc, want, target>>
  BY DEF CondAttach, callVars
<1>2. /\ NoStranded' /\ MimicKept'
      /\ \A e \in Dev : c_attach'[e] = IF e = d THEN p ELSE c_attach[e]
  BY <1>1, NewOwner, ProcAssumption DEF ListsInv
<1>3. OwnersAlive' /\ AssignPending'
  BY <1>1, <1>2, OwnersFollow DEF OwnersInv
<1>4. KeepsOwner
  BY <1>1, <1>2, ProcAssumption DEF KeepsOwner
<1> QED
  BY <1>1, <1>2, <1>3, <1>4, SeenAcquire DEF DeviceStep, OwnersInv

LEMMA ConAssignDevices ==
  ASSUME ListsInv, OwnersInv, NEW p \in Proc, NEW t \in Proc, ConAssign(p, t)
  PROVE  DeviceStep
<1>1. PICK d \in Dev : d = p_cns[p]
  BY OwnDevices
<1>2. /\ pc[p] = "user" /\ pc[t] # "dead" /\ c_attach[d] \in {NoProc, p}
      /\ c_attach' = [c_attach EXCEPT ![d] = t]
      /\ UNCHANGED <<c_queue, c_mimic, want>>
  BY <1>1 DEF ConAssign, callVars
<1>3. \A x \in Proc : /\ pc'[x] = IF x = p THEN "assign" ELSE pc[x]
                      /\ target'[x] = IF x = p THEN t ELSE target[x]
  BY DEF ConAssign, Goto, ListsInv, TypeInv, TypeOK
<1>4. /\ NoStranded' /\ MimicKept'
      /\ \A e \in Dev : c_attach'[e] = IF e = d THEN t ELSE c_attach[e]
  BY <1>2, NewOwner, ProcAssumption DEF ListsInv
<1>5. OwnersAlive'
  BY <1>2, <1>3, <1>4 DEF OwnersInv, OwnersAlive
<1>6. AssignPending'
  <2> SUFFICES ASSUME NEW e \in Dev, NEW x \in Proc,
                      c_attach'[e] = x, pc'[x] = "attwait", want'[x] = e
               PROVE  \E q \in Proc : pc'[q] = "assign" /\ target'[q] = x /\ p_cns[q] = e
    BY DEF AssignPending
  <2>1. CASE e = d
    BY <1>1, <1>3, <1>4, <2>1
  <2>2. CASE e # d
    <3>1. PICK q \in Proc : pc[q] = "assign" /\ target[q] = x /\ p_cns[q] = e
      BY <1>2, <1>3, <1>4, <2>2 DEF OwnersInv, AssignPending
    <3> QED
      BY <1>2, <1>3, <3>1
  <2> QED
    BY <2>1, <2>2
<1>7. KeepsOwner
  BY <1>2, <1>4, ProcAssumption DEF KeepsOwner
<1> QED
  BY <1>2, <1>4, <1>5, <1>6, <1>7, SeenAssign DEF DeviceStep, OwnersInv
\* The devices in S, all p's, go to the first on their lists, if there is one,
\* which is awake then.
LEMMA GiveUpDevices ==
  ASSUME ListsInv, OwnersInv, NEW p \in Proc, NEW S \in SUBSET Dev,
         \A d \in S : c_attach[d] = p, pc[p] \in {"user", "terminate"},
         c_attach' = [d \in Dev |-> IF d \in S THEN First(c_queue[d]) ELSE c_attach[d]],
         \A d \in Dev : c_queue'[d] = IF d \in S THEN Rest(c_queue[d]) ELSE c_queue[d],
         UNCHANGED <<c_mimic, want, target>>,
         \A x \in Proc \ {p} :
           \/ pc'[x] = pc[x] /\ \A d \in S : x # First(c_queue[d])
           \/ pc[x] # "assign" /\ pc'[x] \notin {"dead", "attwait"},
         pc'[p] # "attwait", pc'[p] = "dead" => \A d \in Dev : c_attach[d] = p => d \in S
  PROVE  DeviceStep
<1>1. \A d \in Dev :
        /\ c_attach'[d] = IF d \in S THEN First(c_queue[d]) ELSE c_attach[d]
        /\ First(c_queue[d]) # p
        /\ First(c_queue[d]) \in Proc \cup {NoProc}
        /\ c_queue[d] # <<>> => First(c_queue[d]) \in Proc
  BY QueueOf, FirstMembers, FirstType
<1>2. OwnersAlive' /\ AssignPending'
  <2>1. ASSUME NEW d \in Dev, NEW x \in Proc, c_attach'[d] = x
        PROVE  c_attach[d] = x \/ pc'[x] \notin {"dead", "attwait"}
    <3>1. CASE d \notin S
      BY <1>1, <2>1, <3>1
    <3>2. CASE d \in S
      BY <1>1, <2>1, <3>2
    <3> QED
      BY <3>1, <3>2
  <2>2. ASSUME NEW x \in Proc, pc'[x] = "dead"
        PROVE  pc[x] = "dead" \/ \A d \in Dev : c_attach'[d] # x
    BY <1>1, <2>2
  <2>3. \A x \in Proc : pc'[x] = "attwait" => pc[x] = "attwait" /\ want'[x] = want[x]
    OBVIOUS
  <2>4. \A x \in Proc : pc[x] = "assign" => pc'[x] = "assign" /\ target'[x] = target[x]
    OBVIOUS
  <2> QED
    BY <2>1, <2>2, <2>3, <2>4, OwnersFollow DEF OwnersInv
<1>3. NoStranded'
  BY <1>1, ProcAssumption DEF OwnersInv, NoStranded, Dev, Rest
<1>4. MimicKept'
  BY <1>1, ProcAssumption DEF OwnersInv, MimicKept
<1>5. KeepsOwner
  BY <1>1 DEF KeepsOwner
<1>6. Ownership!Next
  BY SeenGiveUp
<1> QED
  BY <1>2, <1>3, <1>4, <1>5, <1>6 DEF DeviceStep, OwnersInv

LEMMA DetachDevices ==
  ASSUME ListsInv, OwnersInv, NEW p \in Proc, NEW d \in Dev, Detach(p, d)
  PROVE  DeviceStep
<1>1. /\ pc[p] = "user" /\ c_attach[d] = p /\ UNCHANGED <<c_mimic, want, target>>
      /\ \A x \in Proc : pc'[x] = IF x = p THEN "user"
                                  ELSE IF x = First(c_queue[d]) THEN "attach" ELSE pc[x]
  BY DEF Detach, callVars, WakeAndGoto
<1>2. PICK S : S = {d}
  OBVIOUS
<1>3. c_attach' = [e \in Dev |-> IF e \in S THEN First(c_queue[e]) ELSE c_attach[e]]
  BY <1>2 DEF Detach, ListsInv, TypeInv, TypeOK
<1>4. \A e \in Dev : c_queue'[e] = IF e \in S THEN Rest(c_queue[e]) ELSE c_queue[e]
  BY <1>2 DEF Detach, ListsInv, TypeInv, TypeOK
<1>5. ASSUME NEW x \in Proc \ {p}
      PROVE  \/ pc'[x] = pc[x] /\ \A e \in S : x # First(c_queue[e])
             \/ pc[x] # "assign" /\ pc'[x] \notin {"dead", "attwait"}
  <2>1. x = First(c_queue[d]) => pc[x] = "attwait"
    BY QueueOf
  <2> QED
    BY <1>1, <1>2, <2>1
<1>6. S \in SUBSET Dev /\ \A e \in S : c_attach[e] = p
  BY <1>1, <1>2
<1> QED
  BY <1>1, <1>3, <1>4, <1>5, <1>6, GiveUpDevices

LEMMA TermActDevices ==
  ASSUME ListsInv, OwnersInv, NEW p \in Proc, TermAct(p)
  PROVE  DeviceStep
<1>1. PICK c \in Con : c = p_cns[p]
  BY OwnDevices
<1>2. PICK t : t = First(c_cosleep[c])
  OBVIOUS
<1>3. PICK S \in SUBSET Dev : S = {d \in Dev : c_attach[d] = p}
  OBVIOUS
<1>4. /\ pc[p] = "terminate" /\ UNCHANGED <<c_mimic, want, target>>
      /\ \A x \in Proc :
           pc'[x] = IF x = p THEN "dead"
                    ELSE IF x = t THEN "coget"
                    ELSE IF \E d \in S : x = First(c_queue[d]) THEN "attach"
                    ELSE pc[x]
  BY <1>1, <1>2, <1>3 DEF TermAct, callVars
<1>5. c_attach' = [d \in Dev |-> IF d \in S THEN First(c_queue[d]) ELSE c_attach[d]]
  BY <1>3 DEF TermAct, CioTerm
<1>6. \A d \in Dev : c_queue'[d] = IF d \in S THEN Rest(c_queue[d]) ELSE c_queue[d]
  BY <1>3 DEF TermAct, CioTerm
<1>7. ASSUME NEW x \in Proc \ {p}
      PROVE  \/ pc'[x] = pc[x] /\ \A d \in S : x # First(c_queue[d])
             \/ pc[x] # "assign" /\ pc'[x] \notin {"dead", "attwait"}
  <2>1. x = t => pc[x] = "cosleep"
    BY <1>2, CosleepOf
  <2>2. \A d \in S : x = First(c_queue[d]) => pc[x] = "attwait"
    BY QueueOf
  <2> QED
    BY <1>4, <2>1, <2>2
<1>8. /\ \A d \in S : c_attach[d] = p
      /\ \A d \in Dev : c_attach[d] = p => d \in S
  BY <1>3
<1>9. pc'[p] = "dead"
  BY <1>4
<1> QED
  BY <1>4, <1>5, <1>6, <1>7, <1>8, <1>9, GiveUpDevices

LEMMA AssignWakeDevices ==
  ASSUME ListsInv, OwnersInv, NEW p \in Proc, AssignWake(p)
  PROVE  DeviceStep
<1>1. PICK c \in Con : c = p_cns[p]
  BY OwnDevices
<1>2. PICK t \in Proc : t = target[p]
  BY DEF AssignWake, ListsInv, TypeInv, TargetKept
<1>3. /\ pc[p] = "assign" /\ c \in Dev
      /\ UNCHANGED <<c_attach, c_mimic, want>>
  BY DEF AssignWake, callVars, Dev
<1>4. \A x \in Proc :
        /\ pc'[x] = IF x = p THEN "user"
                    ELSE IF x = t /\ IsOn(c_queue[c], t) THEN "attach" ELSE pc[x]
        /\ target'[x] = IF x = p THEN NoProc ELSE target[x]
  BY <1>1, <1>2 DEF AssignWake, Goto, WakeAndGoto, ListsInv, TypeInv, TypeOK
<1>5. \A e \in Dev : c_queue'[e] = IF e = c THEN Snip(c_queue[c], t) ELSE c_queue[e]
  BY <1>1, <1>2 DEF AssignWake, ListsInv, TypeInv, TypeOK
<1>6. OwnersAlive'
  BY <1>3, <1>4 DEF OwnersInv, OwnersAlive
<1>7. AssignPending'
  <2> SUFFICES ASSUME NEW e \in Dev, NEW x \in Proc,
                      c_attach'[e] = x, pc'[x] = "attwait", want'[x] = e
               PROVE  \E q \in Proc : pc'[q] = "assign" /\ target'[q] = x /\ p_cns[q] = e
    BY DEF AssignPending
  <2>1. pc[x] = "attwait" /\ c_attach[e] = x /\ want[x] = e /\ x # p
    BY <1>3, <1>4
  <2>2. PICK q \in Proc : pc[q] = "assign" /\ target[q] = x /\ p_cns[q] = e
    BY <2>1 DEF OwnersInv, AssignPending
  <2>3. CASE q = p
    <3>1. x = t /\ e = c
      BY <1>1, <1>2, <2>2, <2>3
    <3>2. IsOn(c_queue[c], t)
      BY <1>3, <2>1, <3>1, QueueOf
    <3> QED
      BY <1>4, <2>1, <3>1, <3>2
  <2>4. CASE q # p
    <3>1. q # t \/ ~ IsOn(c_queue[c], t)
      BY <1>3, <2>2, QueueOf
    <3> QED
      BY <1>4, <2>2, <2>4, <3>1
  <2> QED
    BY <2>3, <2>4
<1>8. NoStranded'
  BY <1>3, <1>5, EmptyMembers DEF OwnersInv, NoStranded, Dev, Snip
<1>9. MimicKept' /\ KeepsOwner
  BY <1>3 DEF OwnersInv, MimicKept, KeepsOwner
<1>10. \A e \in Dev : Sleepers(e)' = IF e = c THEN Sleepers(c) \ {t} ELSE Sleepers(e)
  <2>1. \A x \in Proc : IsOn(Snip(c_queue[c], t), x) <=> x # t /\ IsOn(c_queue[c], x)
    BY <1>3, SnipMembers, QueueOf
  <2> QED
    BY <1>5, <2>1 DEF Sleepers
<1>11. Ownership!Next
  BY <1>3, <1>10, SeenLeave
<1> QED
  BY <1>6, <1>7, <1>8, <1>9, <1>11 DEF DeviceStep, OwnersInv

LEMMA AbortSpecDevices ==
  ASSUME ListsInv, HoldersStay, OwnersInv, NEW p \in Proc, NEW t \in Proc, NEW sure,
         pc[p] \in {"user", "abort"}, AbortSpec(p, t, sure)
  PROVE  DeviceStep
<1> DEFINE ok == AbtChk(p_flag[t] \cup {"ctlc"}, sure) = "ok"
<1>1. UNCHANGED <<c_attach, c_mimic>>
  BY DEF AbortSpec
<1>2. CASE ok
  <2>1. pc[t] # "assign"
    <3> SUFFICES ASSUME pc[t] = "assign" PROVE FALSE
      OBVIOUS
    <3>1. HasKeep(PFlags[t])
      BY AssignersAssumption DEF ListsInv, TypeInv, TargetKept, HasKeep
    <3>2. HasKeep(p_flag[t] \cup {"ctlc"})
      BY <3>1, HeldAbtChk DEF HoldersStay, Stayed
    <3> QED
      BY <1>2, <3>2, HeldAbtChk
  <2>2. /\ TakeOff(t)
        /\ pc' = [pc EXCEPT ![p] = "user", ![t] = "terminate"]
        /\ want' = [want EXCEPT ![t] = NoDev]
        /\ target' = [target EXCEPT ![p] = NoProc, ![t] = NoProc]
    BY <1>2 DEF AbortSpec
  <2>3. \A x \in Proc :
          /\ pc'[x] = IF x = t THEN "terminate" ELSE IF x = p THEN "user" ELSE pc[x]
          /\ x # t => want'[x] = want[x]
          /\ x \notin {p, t} => target'[x] = target[x]
    BY <2>2 DEF ListsInv, TypeInv, TypeOK
  <2>4. OwnersAlive' /\ AssignPending'
    BY <1>1, <2>1, <2>3, OwnersFollow DEF OwnersInv
  <2>5. NoStranded'
    BY <1>1, <2>2, EmptyMembers DEF OwnersInv, NoStranded, TakeOff, Snip, Dev
  <2>6. MimicKept' /\ KeepsOwner
    BY <1>1 DEF OwnersInv, MimicKept, KeepsOwner
  <2>7. \A d \in Dev : Sleepers(d)' = Sleepers(d) \ {t}
    BY <2>2, TakenOff DEF Sleepers
  <2>8. Ownership!Next \/ UNCHANGED Ownership!vars
    <3>1. CASE \E d \in Dev : IsOn(c_queue[d], t)
      <4>1. PICK d \in Dev : IsOn(c_queue[d], t)
        BY <3>1
      <4>2. \A e \in Dev \ {d} : ~ IsOn(c_queue[e], t)
        BY <4>1, AwakeOff
      <4>3. \A e \in Dev : Sleepers(e)' = IF e = d THEN Sleepers(d) \ {t} ELSE Sleepers(e)
        BY <2>7, <4>2 DEF Sleepers
      <4> QED
        BY <1>1, <4>3, SeenLeave
    <3>2. CASE \A d \in Dev : ~ IsOn(c_queue[d], t)
      <4>1. \A d \in Dev : Sleepers(d)' = Sleepers(d)
        BY <2>7, <3>2 DEF Sleepers
      <4> QED
        BY <1>1, <4>1, Seen
    <3> QED
      BY <3>1, <3>2
  <2> QED
    BY <2>4, <2>5, <2>6, <2>8 DEF DeviceStep, OwnersInv
<1>3. CASE ~ ok
  <2>1. /\ Goto(p, "user") /\ UNCHANGED <<devVars, want>>
        /\ target' = [target EXCEPT ![p] = NoProc, ![t] = target[t]]
    BY <1>3 DEF AbortSpec, callVars, devVars
  <2>2. \A x \in Proc : /\ pc'[x] = IF x = p THEN "user" ELSE pc[x]
                        /\ x # p => target'[x] = target[x]
    BY <2>1 DEF Goto, ListsInv, TypeInv, TypeOK
  <2> QED
    BY <2>1, <2>2, DevicesUntouched
<1> QED
  BY <1>2, <1>3
LEMMA ControlPOnDevices ==
  ASSUME ListsInv, OwnersInv, ControlPOn
  PROVE  DeviceStep
<1>1. PICK c \in Con : c = p_cns[Pin]
  BY OwnDevices, ProcAssumption
<1>2. pc[Pin] = "user" /\ c_mimic[c] = NoDev /\ c_attach[c] \in Proc /\ Pin \in Proc
  BY <1>1, ProcAssumption DEF ControlPOn
<1>3. PICK l \in Lst : l = p_lst[c_attach[c]]
  BY <1>2, OwnDevices
<1>4. UNCHANGED <<c_queue, want, target>>
  BY DEF ControlPOn, callVars
<1>5. CASE c_attach[l] = NoProc
  <2>1. /\ c_attach' = [c_attach EXCEPT ![l] = Mimic]
        /\ c_mimic' = [c_mimic EXCEPT ![c] = l]
        /\ UNCHANGED pc
    BY <1>1, <1>3, <1>5 DEF ControlPOn
  <2>2. /\ \A e \in Dev : c_attach'[e] = IF e = l THEN Mimic ELSE c_attach[e]
        /\ \A e \in Con : c_mimic'[e] = IF e = c THEN l ELSE c_mimic[e]
        /\ l \in Dev
    BY <2>1 DEF ListsInv, TypeInv, TypeOK, Dev
  <2>3. OwnersAlive' /\ AssignPending'
    BY <1>4, <2>1, <2>2, OwnersFollow, ProcAssumption DEF OwnersInv
  <2>4. NoStranded'
    BY <1>4, <2>2, ProcAssumption DEF OwnersInv, NoStranded, Dev
  <2>5. MimicKept'
    <3>1. \A e \in Dev : c_attach[e] # Mimic
      BY <1>1, <1>2, DevAssumption DEF OwnersInv, MimicKept
    <3>2. \A e \in Dev : c_attach'[e] = Mimic <=> e = l
      BY <2>2, <3>1
    <3> QED
      BY <1>1, <2>2, <3>2 DEF OwnersInv, MimicKept
  <2>6. KeepsOwner
    BY <1>5, <2>2, ProcAssumption DEF KeepsOwner
  <2> QED
    BY <1>4, <1>5, <2>1, <2>2, <2>3, <2>4, <2>5, <2>6, SeenAcquire
       DEF DeviceStep, OwnersInv
<1>6. CASE c_attach[l] # NoProc
  <2>1. Goto(Pin, "coget") /\ UNCHANGED devVars
    BY <1>1, <1>3, <1>4, <1>6 DEF ControlPOn, devVars
  <2>2. \A x \in Proc : pc'[x] = IF x = Pin THEN "coget" ELSE pc[x]
    BY <2>1 DEF Goto, ListsInv, TypeInv, TypeOK
  <2> QED
    BY <1>2, <1>4, <2>1, <2>2, DevicesUntouched
<1> QED
  BY <1>5, <1>6

LEMMA ControlPOffDevices ==
  ASSUME ListsInv, OwnersInv, ControlPOff
  PROVE  DeviceStep
<1>1. PICK c \in Con : c = p_cns[Pin]
  BY OwnDevices, ProcAssumption
<1>2. PICK l \in Lst : l = c_mimic[c]
  BY <1>1 DEF ControlPOff, ListsInv, TypeInv, TypeOK
<1>3. /\ l \in Dev /\ l \notin Con /\ pc[Pin] = "user" /\ Pin \in Proc
      /\ UNCHANGED <<want, target>>
  BY ProcAssumption, DevAssumption DEF ControlPOff, callVars, Dev
<1>4. c_attach[l] = Mimic
  BY <1>1, <1>2, <1>3 DEF OwnersInv, MimicKept
<1>5. PICK t : t = First(c_queue[l])
  OBVIOUS
<1>6. c_attach' = [c_attach EXCEPT ![l] = NoProc]
  BY <1>1, <1>2 DEF ControlPOff
<1>7. /\ \A e \in Dev : c_attach'[e] = IF e = l THEN NoProc ELSE c_attach[e]
      /\ \A e \in Dev : c_queue'[e] = IF e = l THEN Rest(c_queue[l]) ELSE c_queue[e]
      /\ \A e \in Con : c_mimic'[e] = IF e = c THEN NoDev ELSE c_mimic[e]
      /\ \A x \in Proc : pc'[x] = IF x = Pin THEN "user" ELSE IF x = t THEN "attach" ELSE pc[x]
  BY <1>1, <1>2, <1>5 DEF ControlPOff, WakeAndGoto, ListsInv, TypeInv, TypeOK
<1>8. \A x \in Proc : x = t => pc[x] = "attwait"
  BY <1>3, <1>5, QueueOf
<1>9. OwnersAlive' /\ AssignPending'
  BY <1>3, <1>7, <1>8, OwnersFollow, ProcAssumption DEF OwnersInv
<1>10. NoStranded'
  BY <1>3, <1>7 DEF OwnersInv, NoStranded, Dev
<1>11. MimicKept'
  <2>1. \A e \in Dev : c_attach[e] = Mimic <=> e = l
    BY <1>1, <1>2 DEF OwnersInv, MimicKept
  <2>2. \A e \in Dev : c_attach'[e] # Mimic
    BY <1>7, <2>1, ProcAssumption
  <2>3. \A e \in Con : c_mimic'[e] = NoDev
    BY <1>1, <1>7 DEF OwnersInv, MimicKept
  <2> QED
    BY <1>1, <2>2, <2>3, DevAssumption DEF MimicKept
<1>12. KeepsOwner
  BY <1>4, <1>7, ProcAssumption DEF KeepsOwner
<1>13. Ownership!Next
  <2> DEFINE w == [e \in Dev |-> {x \in Proc : IsOn(c_queue[e], x)}]
  <2>1. PICK S : S = Sleepers(l) \cap {t}
    OBVIOUS
  <2>2. \A e \in Dev : Sleepers(e)' = IF e = l THEN Sleepers(l) \ S ELSE Sleepers(e)
    BY <1>3, <1>5, <1>7, <2>1, QueueOf DEF Sleepers
  <2>3. w' = [w EXCEPT ![l] = @ \ S]
    BY <2>2 DEF Sleepers
  <2>4. S \in SUBSET w[l]
    BY <1>3, <2>1 DEF Sleepers
  <2>5. Ownership!Unfollow(l)
    BY <1>4, <1>6, <2>3, <2>4 DEF Ownership!Unfollow
  <2> QED
    BY <1>3, <2>5 DEF Ownership!Next
<1> QED
  BY <1>9, <1>10, <1>11, <1>12, <1>13 DEF DeviceStep, OwnersInv

LEMMA StepDevices ==
  ASSUME ListsInv, HoldersStay, OwnersInv, Next
  PROVE  DeviceStep
<1>t. /\ pc \in [Proc -> PC] /\ want \in [Proc -> Dev \cup {NoDev}]
      /\ target \in [Proc -> Proc \cup {NoProc}]
  BY DEF ListsInv, TypeInv, TypeOK
<1> USE <1>t DEF outVars, flagVars, callVars
<1>1. ASSUME NEW p \in Proc, NEW d \in Dev, NEW out \in BOOLEAN, CallAttach(p, d, out)
      PROVE  DeviceStep
  BY <1>1, DevicesUntouched DEF CallAttach, Goto
<1>2. ASSUME NEW p \in Proc, Attach(p)
      PROVE  DeviceStep
  BY <1>2, AttachDevices
<1>3. ASSUME NEW p \in Proc, NEW d \in Dev, CondAttach(p, d)
      PROVE  DeviceStep
  BY <1>3, CondAttachDevices
<1>4. ASSUME NEW p \in Proc, NEW d \in Dev, Detach(p, d)
      PROVE  DeviceStep
  BY <1>4, DetachDevices
<1>5. ASSUME NEW p \in Proc, NEW t \in Proc, ConAssign(p, t)
      PROVE  DeviceStep
  BY <1>5, ConAssignDevices
<1>6. ASSUME NEW p \in Proc, AssignWake(p)
      PROVE  DeviceStep
  BY <1>6, AssignWakeDevices
<1>7. ASSUME NEW p \in Proc, CoGet(p)
      PROVE  DeviceStep
  <2>1. PICK l \in {"cosleep", "xios", "cogot"} : Goto(p, l)
    BY <1>7 DEF CoGet
  <2> QED
    BY <1>7, <2>1, DevicesUntouched DEF CoGet, Goto
<1>8. ASSUME NEW p \in Proc, CoKeep(p)
      PROVE  DeviceStep
  BY <1>8, DevicesUntouched DEF CoKeep, Goto
<1>9. ASSUME NEW p \in Proc, CoClear(p)
      PROVE  DeviceStep
  BY <1>9, DevicesUntouched DEF CoClear, Goto
<1>10. ASSUME NEW p \in Proc, CoWake(p)
       PROVE  DeviceStep
  <2>1. PICK c \in Con : c = p_cns[p]
    BY OwnDevices
  <2>2. PICK l \in {"user", "cotest"} : l = IF p = Pin THEN "user" ELSE "cotest"
    OBVIOUS
  <2>3. \A x \in Proc : x = First(c_cosleep[c]) => pc[x] = "cosleep"
    BY CosleepOf
  <2>4. /\ pc[p] = "cowake" /\ UNCHANGED <<devVars, want, target>>
        /\ \A x \in Proc : pc'[x] = IF x = p THEN l
                                    ELSE IF x = First(c_cosleep[c]) THEN "coget" ELSE pc[x]
    BY <1>10, <2>1, <2>2 DEF CoWake, WakeAndGoto
  <2> QED
    BY <2>3, <2>4, DevicesUntouched
<1>11. ASSUME NEW p \in Proc, CoTest(p)
       PROVE  DeviceStep
  BY <1>11, DevicesUntouched DEF CoTest, Goto
<1>12. ASSUME NEW p \in Proc, CoRestore(p)
       PROVE  DeviceStep
  BY <1>12, DevicesUntouched DEF CoRestore, Goto
<1>13. ASSUME NEW p \in Proc, NEW sure \in BOOLEAN, Terminate(p, sure)
       PROVE  DeviceStep
  BY <1>13, DevicesUntouched DEF Terminate, TerminateEntry, Goto
<1>14. ASSUME NEW p \in Proc, CoRestoreCtlC(p)
       PROVE  DeviceStep
  BY <1>14, DevicesUntouched DEF CoRestoreCtlC, TerminateEntry, Goto
<1>15. ASSUME NEW p \in Proc, NEW t \in Proc, NEW sure \in BOOLEAN, AbortByName(p, t, sure)
       PROVE  DeviceStep
  BY <1>15, AbortSpecDevices DEF AbortByName
<1>16. ASSUME NEW p \in Proc, TermAct(p)
       PROVE  DeviceStep
  BY <1>16, TermActDevices
<1>17. ASSUME NEW p \in Proc, Create(p)
       PROVE  DeviceStep
  BY <1>17, DevicesUntouched DEF Create, Goto
<1>18. CASE ControlC
  BY <1>18, DevicesUntouched, ProcAssumption DEF ControlC, Goto
<1>19. CASE PinAbort
  <2>1. pc[Pin] = "abort" /\ target[Pin] \in Proc /\ Pin \in Proc
    BY <1>19, ProcAssumption DEF PinAbort, ListsInv, TypeInv, TargetKept
  <2>2. CASE pc[target[Pin]] # "dead"
    <3>1. PICK t \in Proc, sure \in BOOLEAN : AbortSpec(Pin, t, sure)
      BY <1>19, <2>1, <2>2 DEF PinAbort
    <3> QED
      BY <2>1, <3>1, AbortSpecDevices
  <2>3. CASE pc[target[Pin]] = "dead"
    <3>1. /\ Goto(Pin, "user") /\ target' = [target EXCEPT ![Pin] = NoProc]
          /\ UNCHANGED <<devVars, callVars>>
      BY <1>19, <2>3 DEF PinAbort
    <3> QED
      BY <2>1, <3>1, DevicesUntouched DEF Goto
  <2> QED
    BY <2>2, <2>3
<1>20. CASE PinMessage
  BY <1>20, DevicesUntouched, ProcAssumption DEF PinMessage, Goto
<1>21. CASE ControlPOn
  BY <1>21, ControlPOnDevices
<1>22. CASE ControlPOff
  BY <1>22, ControlPOffDevices
<1> QED
  BY <1>1, <1>2, <1>3, <1>4, <1>5, <1>6, <1>7, <1>8, <1>9, <1>10, <1>11, <1>12, <1>13,
     <1>14, <1>15, <1>16, <1>17, <1>18, <1>19, <1>20, <1>21, <1>22, OwnDevices
     DEF Next, PinStep, Call, Kernel

LEMMA StayDevices == ASSUME OwnersInv, UNCHANGED vars PROVE DeviceStep
  BY DevicesUntouched DEF vars, devVars, callVars

----------------------------------------------------------------------------
LEMMA OwnersKept == Spec => []OwnersInv
<1>1. Init => OwnersInv
  BY InitOwners
<1>2. ListsInv /\ HoldersStay /\ OwnersInv /\ [Next]_vars => OwnersInv'
  BY StepDevices, StayDevices DEF DeviceStep
<1> QED
  BY <1>1, <1>2, ListsKept, HoldersKept, PTL DEF Spec

\* Who owns a device, waits for it or has it echo is what the lists and the
\* control blocks say, and nobody waits for a console that nobody has.
THEOREM DevicesKept == Spec => []DevicesSound
<1>1. OwnersInv => OwnerAwake
  BY DEF OwnersInv, OwnersAlive, AssignPending, OwnerAwake
<1>2. OwnersInv => NoStranded
  BY DEF OwnersInv
<1>3. ASSUME OwnersInv PROVE MimicMatches
  <2> SUFFICES ASSUME NEW l \in Lst
               PROVE  Cardinality({c \in Con : c_mimic[c] = l})
                        = IF c_attach[l] = Mimic THEN 1 ELSE 0
    BY DEF MimicMatches
  <2>1. l \in Dev /\ l # NoDev /\ p_cns[Pin] \in Con
    BY DevAssumption, ProcAssumption, OwnDevices DEF Dev
  <2>2. CASE c_attach[l] = Mimic
    <3>1. {c \in Con : c_mimic[c] = l} = {p_cns[Pin]}
      BY <1>3, <2>1, <2>2 DEF OwnersInv, MimicKept
    <3> QED
      BY <2>2, <3>1, FS_Singleton
  <2>3. CASE c_attach[l] # Mimic
    <3>1. {c \in Con : c_mimic[c] = l} = {}
      BY <1>3, <2>1, <2>3 DEF OwnersInv, MimicKept
    <3> QED
      BY <2>3, <3>1, FS_EmptySet
  <2> QED
    BY <2>2, <2>3
<1>4. TypeOK /\ ListsMatch /\ OwnersInv => DevicesSound
  BY <1>1, <1>2, <1>3 DEF DevicesSound
<1> QED
  BY <1>4, TypeCorrect, ListsSound, OwnersKept, PTL

\* A process loses a device only in a call of its own or when it terminates:
\* control C, control P, aborts and assignments by others take none from it.
THEOREM OwnersKeep == Spec => OwnerKeeps
<1>1. ListsInv /\ HoldersStay /\ OwnersInv /\ [Next]_vars
        => [\A d \in Dev, p \in Proc :
              (c_attach[d] = p /\ c_attach'[d] # p) => pc[p] \in {"user", "terminate"}]_vars
  BY StepDevices DEF DeviceStep, KeepsOwner
<1> QED
  BY <1>1, ListsKept, HoldersKept, OwnersKept, PTL DEF Spec, OwnerKeeps

\* Attach, detach, assign, control P and termination implement the ownership
\* that Devices promises.
THEOREM DevicesImplemented == Spec => Implements
<1>1. Init => Ownership!Init
  <2> SUFFICES ASSUME Init PROVE Ownership!Init
    OBVIOUS
  <2>1. c_attach \in [Dev -> {NoProc}]
    BY DEF Init
  <2>2. \A d \in Dev : {p \in Proc : IsOn(c_queue[d], p)} = {}
    BY EmptyMembers DEF Init
  <2> QED
    BY <2>1, <2>2 DEF Ownership!Init
<1>2. ListsInv /\ HoldersStay /\ OwnersInv /\ [Next]_vars
        => [Ownership!Next]_(Ownership!vars)
  BY StepDevices, StayDevices DEF DeviceStep
<1> QED
  BY <1>1, <1>2, ListsKept, HoldersKept, OwnersKept, PTL
     DEF Spec, Implements, Ownership!Spec
=============================================================================
