------------------------------ MODULE Console ------------------------------
(***************************************************************************)
(* Who owns a console or a printer, and who may be in the output routine   *)
(* of the XIOS for a screen (kernel/con/console.cio and conoutf of         *)
(* chario.cio), with what the physical input process does to both: control *)
(* C, control P and its own messages (pin.p86).                            *)
(*                                                                         *)
(* A process is a program counter over the points where the dispatcher can *)
(* take the CPU away.  Any process that is not asleep may take a step.     *)
(* Screens are in the foreground and not stopped.                          *)
(***************************************************************************)
EXTENDS ProcessLists

CONSTANTS
  NoProc,    \* the null PD pointer (0)
  Mimic,     \* c_attach of a printer that echoes a console (0ffffh)
  Con,       \* console control blocks
  Lst,       \* list control blocks
  NoDev,
  Pin,       \* the physical input process
  p_cns,     \* default console of each process; of PIN the one in front
  p_lst,     \* default printer of each process
  Prior,     \* p_prior of each process: a smaller number runs first
  PFlags,    \* p_flag of each process when it is created
  Aborters,  \* processes that abort others by name
  Assigners  \* processes that assign their console to another

Dev == Con \cup Lst
Flags == {"sys", "keep", "tempkeep", "ctlc"}

ASSUME ProcAssumption ==
  /\ NoProc \notin Proc /\ Mimic \notin Proc \cup {NoProc} /\ Pin \in Proc
  /\ Aborters \cup Assigners \subseteq Proc
ASSUME DevAssumption == NoDev \notin Dev /\ Con \cap Lst = {}
ASSUME DefaultAssumption == p_cns \in [Proc -> Con] /\ p_lst \in [Proc -> Lst]
ASSUME PriorAssumption == Prior \in [Proc -> Nat]
ASSUME PFlagsAssumption ==
  PFlags \in [Proc -> SUBSET (Flags \ {"ctlc"})] /\ "keep" \in PFlags[Pin]
\* conassign is called inside cli_entry, which sets TEMPKEEP (command.sup:60), for
\* the TMP, a KEEP process.
ASSUME AssignersAssumption == \A p \in Assigners : PFlags[p] \cap {"keep", "tempkeep"} # {}

VARIABLES
  c_attach,  \* the owner of each device
  c_queue,   \* processes asleep until they own it
  conout,    \* cf_conout of each console: a process is in the XIOS for it
  c_cosleep, \* processes asleep until it is off
  c_mimic,   \* the printer that echoes each console, csm_ctrlP
  p_flag,    \* p_flag: a subset of Flags
  saved,     \* p_flag as conoutf has pushed it
  pc,        \* where each process is
  want,      \* the device it is attaching
  output,    \* the processes that attach for an output call (coninit)
  target     \* the process it is aborting or assigning its console to

devVars == <<c_attach, c_queue, c_mimic>>
outVars == <<conout, c_cosleep>>
flagVars == <<p_flag, saved>>
callVars == <<want, output>>
vars == <<devVars, outVars, flagVars, pc, callVars, target>>

\* In conoutf, or set$conout$flag to reset$conout$flag of PIN.
InConout == {"coget", "cosleep", "cogot", "xios", "cowake"}
Asleep == {"attwait", "cosleep"}
PC == {"user", "attach", "attwait", "cotest", "corest", "corestctlc", "assign",
       "abort", "terminate", "dead"} \cup InConout

Init ==
  /\ c_attach = [d \in Dev |-> NoProc]
  /\ c_queue = [d \in Dev |-> <<>>]
  /\ conout = [c \in Con |-> FALSE]
  /\ c_cosleep = [c \in Con |-> <<>>]
  /\ c_mimic = [c \in Con |-> NoDev]
  /\ p_flag = PFlags
  /\ saved = [p \in Proc |-> {}]
  /\ pc = [p \in Proc |-> "user"]
  /\ want = [p \in Proc |-> NoDev]
  /\ output = {}
  /\ target = [p \in Proc |-> NoProc]

----------------------------------------------------------------------------
(* The lists.                                                              *)

\* insert_process: behind the processes of a better or the same priority.
Passed(list, p) ==
  {i \in 1 .. Len(list) : \A j \in 1 .. i : Prior[list[j]] <= Prior[p]}
InsertProcess(list, p) == Placed(list, Cardinality(Passed(list, p)), p)

First(list) == IF list = <<>> THEN NoProc ELSE Head(list)
Rest(list) == IF list = <<>> THEN <<>> ELSE Tail(list)

Goto(p, l) == pc' = [pc EXCEPT ![p] = l]

\* wakeup_entry, called by p: x goes on at m.
WakeAndGoto(p, l, x, m) ==
  pc' = [y \in Proc |-> IF y = p THEN l ELSE IF y = x THEN m ELSE pc[y]]

----------------------------------------------------------------------------
(* Ownership.                                                              *)

\* What p does once it owns the device.
Attached(p) == IF p \in output THEN "coget" ELSE "user"

\* cioattach of device d.  Bug: a printer that echoes a console is not in use.
BugCioAttach(p, d) ==
  \/ /\ c_attach[d] \notin Proc \ {p}
     /\ c_attach' = [c_attach EXCEPT ![d] = p]
     /\ Goto(p, Attached(p))
     /\ want' = [want EXCEPT ![p] = NoDev] /\ output' = output \ {p}
     /\ UNCHANGED c_queue
  \/ /\ c_attach[d] \in Proc \ {p}
     /\ c_queue' = [c_queue EXCEPT ![d] = InsertProcess(@, p)]
     /\ Goto(p, "attwait")
     /\ UNCHANGED <<c_attach, callVars>>
CioAttach(p, d) ==
  \/ /\ c_attach[d] \in {NoProc, p}
     /\ c_attach' = [c_attach EXCEPT ![d] = p]
     /\ Goto(p, Attached(p))
     /\ want' = [want EXCEPT ![p] = NoDev] /\ output' = output \ {p}
     /\ UNCHANGED c_queue
  \/ /\ c_attach[d] \notin {NoProc, p}
     /\ c_queue' = [c_queue EXCEPT ![d] = InsertProcess(@, p)]
     /\ Goto(p, "attwait")
     /\ UNCHANGED <<c_attach, callVars>>

\* conattach and lstattach, the attach of listout, and coninit of an output
\* call: they go on at CioAttach.
CallAttach(p, d, out) ==
  /\ pc[p] = "user" /\ p # Pin
  /\ d \in {p_cns[p], p_lst[p]} /\ (out => d = p_cns[p])
  /\ Goto(p, "attach")
  /\ want' = [want EXCEPT ![p] = d]
  /\ output' = IF out THEN output \cup {p} ELSE output
  /\ UNCHANGED <<devVars, outVars, flagVars, target>>

\* Also what a process does when it is woken up.
Attach(p) ==
  /\ pc[p] = "attach"
  /\ CioAttach(p, want[p])
  /\ UNCHANGED <<c_mimic, outVars, flagVars, target>>

\* cconattch and clstattch: an error if the device is somebody else's.
CondAttach(p, d) ==
  /\ pc[p] = "user" /\ p # Pin /\ d \in {p_cns[p], p_lst[p]}
  /\ c_attach[d] = NoProc
  /\ c_attach' = [c_attach EXCEPT ![d] = p]
  /\ UNCHANGED <<c_queue, c_mimic, outVars, flagVars, pc, callVars, target>>

\* condetach and lstdetach: the device goes to the first that waits for it,
\* which is woken up.  (Both try CondAttach first: ccb_verify and lcb_verify go
\* on into cioattach.)  Bug: the device is only set free.
BugDetach(p, d) ==
  /\ pc[p] = "user" /\ d \in {p_cns[p], p_lst[p]}
  /\ c_attach[d] = p
  /\ c_attach' = [c_attach EXCEPT ![d] = NoProc]
  /\ UNCHANGED <<c_queue, c_mimic, outVars, flagVars, pc, callVars, target>>
Detach(p, d) ==
  /\ pc[p] = "user" /\ d \in {p_cns[p], p_lst[p]}
  /\ c_attach[d] = p
  /\ c_attach' = [c_attach EXCEPT ![d] = First(c_queue[d])]
  /\ c_queue' = [c_queue EXCEPT ![d] = Rest(@)]
  /\ WakeAndGoto(p, "user", First(c_queue[d]), "attach")
  /\ UNCHANGED <<c_mimic, outVars, flagVars, callVars, target>>

\* conassign up to its as_ok_disp: t is found on the thread list.
\* Bug: the console can be somebody else's.
BugConAssign(p, t) ==
  /\ p \in Assigners /\ pc[p] = "user"
  /\ pc[t] # "dead" /\ p_cns[t] = p_cns[p]
  /\ c_attach' = [c_attach EXCEPT ![p_cns[p]] = t]
  /\ Goto(p, "assign")
  /\ target' = [target EXCEPT ![p] = t]
  /\ UNCHANGED <<c_queue, c_mimic, outVars, flagVars, callVars>>
ConAssign(p, t) ==
  /\ p \in Assigners /\ pc[p] = "user"
  /\ pc[t] # "dead" /\ p_cns[t] = p_cns[p]
  /\ c_attach[p_cns[p]] \in {NoProc, p}
  /\ c_attach' = [c_attach EXCEPT ![p_cns[p]] = t]
  /\ Goto(p, "assign")
  /\ target' = [target EXCEPT ![p] = t]
  /\ UNCHANGED <<c_queue, c_mimic, outVars, flagVars, callVars>>

\* The rest of it: if the new owner waits for the console, wake it up.  The
\* search of c_queue, its relinking and the wakeup are one step.
AssignWake(p) ==
  LET c == p_cns[p]
      t == target[p]
  IN  /\ pc[p] = "assign"
      /\ IF IsOn(c_queue[c], t) THEN WakeAndGoto(p, "user", t, "attach")
                                ELSE Goto(p, "user")
      /\ c_queue' = [c_queue EXCEPT ![c] = Snip(@, t)]
      /\ target' = [target EXCEPT ![p] = NoProc]
      /\ UNCHANGED <<c_attach, c_mimic, outVars, flagVars, callVars>>

----------------------------------------------------------------------------
(* Console output.                                                         *)

\* co_vc to co_gotconout, and set$conout$flag.
CoGet(p) ==
  LET c == p_cns[p]
  IN  /\ pc[p] = "coget"
      /\ IF conout[c]
         THEN /\ c_cosleep' = [c_cosleep EXCEPT ![c] = InsertProcess(@, p)]
              /\ Goto(p, "cosleep")
              /\ UNCHANGED conout
         ELSE /\ conout' = [conout EXCEPT ![c] = TRUE]
              /\ Goto(p, IF p = Pin THEN "xios" ELSE "cogot")
              /\ UNCHANGED c_cosleep
      /\ UNCHANGED <<devVars, flagVars, callVars, target>>

\* No abort from here, until the flags are restored.
CoKeep(p) ==
  /\ pc[p] = "cogot"
  /\ saved' = [saved EXCEPT ![p] = p_flag[p]]
  /\ p_flag' = [p_flag EXCEPT ![p] = @ \cup {"tempkeep"}]
  /\ Goto(p, "xios")
  /\ UNCHANGED <<devVars, outVars, callVars, target>>

\* Back from the XIOS.
CoClear(p) ==
  /\ pc[p] = "xios"
  /\ conout' = [conout EXCEPT ![p_cns[p]] = FALSE]
  /\ Goto(p, "cowake")
  /\ UNCHANGED <<devVars, c_cosleep, flagVars, callVars, target>>

\* Bug: nobody is woken up.
BugCoWake(p) ==
  /\ pc[p] = "cowake"
  /\ Goto(p, IF p = Pin THEN "user" ELSE "cotest")
  /\ UNCHANGED <<devVars, outVars, flagVars, callVars, target>>
CoWake(p) ==
  LET c == p_cns[p]
  IN  /\ pc[p] = "cowake"
      /\ WakeAndGoto(p, IF p = Pin THEN "user" ELSE "cotest", First(c_cosleep[c]), "coget")
      /\ c_cosleep' = [c_cosleep EXCEPT ![c] = Rest(@)]
      /\ UNCHANGED <<devVars, conout, flagVars, callVars, target>>

\* co_nowake: was control C typed?
CoTest(p) ==
  /\ pc[p] = "cotest"
  /\ Goto(p, IF "ctlc" \in p_flag[p] THEN "corestctlc" ELSE "corest")
  /\ UNCHANGED <<devVars, outVars, flagVars, callVars, target>>

CoRestore(p) ==
  /\ pc[p] = "corest"
  /\ p_flag' = [p_flag EXCEPT ![p] = saved[p]]
  /\ saved' = [saved EXCEPT ![p] = {}]
  /\ Goto(p, "user")
  /\ UNCHANGED <<devVars, outVars, callVars, target>>

----------------------------------------------------------------------------
(* Abort and termination.                                                  *)

\* abt_chk: what keeps a process from being terminated, and the flags it
\* leaves.  sure is the terminate code 0ffh, which overrides SYS.
AbtChk(flags, sure) ==
  IF "tempkeep" \in flags THEN "later"
  ELSE IF "keep" \in flags \/ ("sys" \in flags /\ ~sure) THEN "no"
  ELSE "ok"
FlagsAfterAbtChk(flags, sure) ==
  IF AbtChk(flags, sure) = "later" THEN flags \cup {"ctlc"}
  ELSE IF AbtChk(flags, sure) = "no" THEN flags \ {"ctlc"}
  ELSE flags

\* terminate_entry by p itself, its flags being these: l is where it goes on if
\* it may not terminate.
TerminateEntry(p, flags, sure) ==
  /\ p_flag' = [p_flag EXCEPT ![p] = FlagsAfterAbtChk(flags, sure)]
  /\ Goto(p, IF AbtChk(flags, sure) = "ok" THEN "terminate" ELSE "user")

Terminate(p, sure) ==
  /\ pc[p] = "user"
  /\ TerminateEntry(p, p_flag[p], sure)
  /\ UNCHANGED <<devVars, outVars, saved, callVars, target>>

\* The flags restored, and control C was typed.
CoRestoreCtlC(p) ==
  /\ pc[p] = "corestctlc"
  /\ saved' = [saved EXCEPT ![p] = {}]
  /\ TerminateEntry(p, saved[p] \cup {"ctlc"}, FALSE)
  /\ UNCHANGED <<devVars, outVars, callVars, target>>

\* abtslp for the lists of this module.  Bug: c_cosleep is forgotten.
BugTakeOff(t) ==
  /\ c_queue' = [d \in Dev |-> Snip(c_queue[d], t)]
  /\ UNCHANGED c_cosleep
TakeOff(t) ==
  /\ c_queue' = [d \in Dev |-> Snip(c_queue[d], t)]
  /\ c_cosleep' = [c \in Con |-> Snip(c_cosleep[c], t)]

\* abort_spec_entry of another process, t; a is p's place afterwards.
AbortSpec(p, t, sure) ==
  LET flags == p_flag[t] \cup {"ctlc"}
  IN  /\ target' = [target EXCEPT ![p] = NoProc, ![t] = IF AbtChk(flags, sure) = "ok"
                                                        THEN NoProc ELSE target[t]]
      /\ p_flag' = [p_flag EXCEPT ![t] = FlagsAfterAbtChk(flags, sure)]
      /\ IF AbtChk(flags, sure) = "ok"
         THEN /\ TakeOff(t)
              /\ pc' = [pc EXCEPT ![p] = "user", ![t] = "terminate"]
              /\ want' = [want EXCEPT ![t] = NoDev] /\ output' = output \ {t}
              /\ saved' = [saved EXCEPT ![t] = {}]
         ELSE /\ Goto(p, "user")
              /\ UNCHANGED <<c_queue, c_cosleep, callVars, saved>>
      /\ UNCHANGED <<c_attach, c_mimic, conout>>

AbortByName(p, t, sure) ==
  /\ p \in Aborters /\ pc[p] = "user"
  /\ t # p /\ pc[t] # "dead"
  /\ AbortSpec(p, t, sure)

\* The rest of terminate, and term_act with cioterm: p gives up its devices
\* and its PD.  Bugs: the printers are forgotten; the output flag is.
BugCioTerm(p) ==
  /\ c_attach' = [d \in Dev |-> IF c_attach[d] = p /\ d \in Con THEN First(c_queue[d])
                                ELSE c_attach[d]]
  /\ c_queue' = [d \in Dev |-> IF c_attach[d] = p /\ d \in Con THEN Rest(c_queue[d])
                               ELSE c_queue[d]]
  /\ conout' = [conout EXCEPT ![p_cns[p]] = FALSE]
  /\ c_cosleep' = [c_cosleep EXCEPT ![p_cns[p]] = Rest(@)]
BugCioTermOutput(p) ==
  /\ c_attach' = [d \in Dev |-> IF c_attach[d] = p THEN First(c_queue[d]) ELSE c_attach[d]]
  /\ c_queue' = [d \in Dev |-> IF c_attach[d] = p THEN Rest(c_queue[d]) ELSE c_queue[d]]
  /\ UNCHANGED outVars
CioTerm(p) ==
  /\ c_attach' = [d \in Dev |-> IF c_attach[d] = p THEN First(c_queue[d]) ELSE c_attach[d]]
  /\ c_queue' = [d \in Dev |-> IF c_attach[d] = p THEN Rest(c_queue[d]) ELSE c_queue[d]]
  /\ conout' = [conout EXCEPT ![p_cns[p]] = FALSE]
  /\ c_cosleep' = [c_cosleep EXCEPT ![p_cns[p]] = Rest(@)]

TermAct(p) ==
  /\ pc[p] = "terminate"
  /\ CioTerm(p)
  /\ pc' = [x \in Proc |->
              IF x = p THEN "dead"
              ELSE IF x = First(c_cosleep[p_cns[p]]) THEN "coget"
              ELSE IF \E d \in Dev : c_attach[d] = p /\ x = First(c_queue[d]) THEN "attach"
              ELSE pc[x]]
  /\ p_flag' = [p_flag EXCEPT ![p] = {}]
  /\ UNCHANGED <<c_mimic, saved, callVars, target>>

\* A process is created in a free PD.
Create(p) ==
  /\ pc[p] = "dead"
  /\ p_flag' = [p_flag EXCEPT ![p] = PFlags[p]]
  /\ Goto(p, "user")
  /\ UNCHANGED <<devVars, outVars, saved, callVars, target>>

----------------------------------------------------------------------------
(* The physical input process.                                             *)

\* controlC: it reads the owner of its console ...
ControlC ==
  /\ pc[Pin] = "user" /\ c_attach[p_cns[Pin]] \in Proc
  /\ target' = [target EXCEPT ![Pin] = c_attach[p_cns[Pin]]]
  /\ Goto(Pin, "abort")
  /\ UNCHANGED <<devVars, outVars, flagVars, callVars>>

\* ... and aborts it, if it is still there.
PinAbort ==
  /\ pc[Pin] = "abort"
  /\ IF pc[target[Pin]] # "dead" THEN AbortSpec(Pin, target[Pin], FALSE)
     ELSE /\ Goto(Pin, "user")
          /\ target' = [target EXCEPT ![Pin] = NoProc]
          /\ UNCHANGED <<devVars, outVars, flagVars, callVars>>

\* write$vinq and the other messages of PIN, which begin with set$conout$flag.
PinMessage ==
  /\ pc[Pin] = "user"
  /\ Goto(Pin, "coget")
  /\ UNCHANGED <<devVars, outVars, flagVars, callVars, target>>

\* controlP, when it is off: the printer of the console's owner follows the
\* console, or is busy.
ControlPOn ==
  LET c == p_cns[Pin]
      l == p_lst[c_attach[c]]
  IN  /\ pc[Pin] = "user" /\ c_mimic[c] = NoDev /\ c_attach[c] \in Proc
      /\ IF c_attach[l] = NoProc
         THEN /\ c_attach' = [c_attach EXCEPT ![l] = Mimic]
              /\ c_mimic' = [c_mimic EXCEPT ![c] = l]
              /\ UNCHANGED pc
         ELSE Goto(Pin, "coget") /\ UNCHANGED <<c_attach, c_mimic>>
      /\ UNCHANGED <<c_queue, outVars, flagVars, callVars, target>>

\* controlP, when it is on: the printer is free, and the first that waits for
\* it is woken up.  Bug: the printer gets the value that stands for no printer.
BugControlPOff ==
  LET c == p_cns[Pin]
      l == c_mimic[c]
  IN  /\ pc[Pin] = "user" /\ l # NoDev /\ c_attach[c] \in Proc
      /\ c_attach' = [c_attach EXCEPT ![l] = NoDev]
      /\ c_mimic' = [c_mimic EXCEPT ![c] = NoDev]
      /\ c_queue' = [c_queue EXCEPT ![l] = Rest(@)]
      /\ WakeAndGoto(Pin, "user", First(c_queue[l]), "attach")
      /\ UNCHANGED <<outVars, flagVars, callVars, target>>
ControlPOff ==
  LET c == p_cns[Pin]
      l == c_mimic[c]
  IN  /\ pc[Pin] = "user" /\ l # NoDev /\ c_attach[c] \in Proc
      /\ c_attach' = [c_attach EXCEPT ![l] = NoProc]
      /\ c_mimic' = [c_mimic EXCEPT ![c] = NoDev]
      /\ c_queue' = [c_queue EXCEPT ![l] = Rest(@)]
      /\ WakeAndGoto(Pin, "user", First(c_queue[l]), "attach")
      /\ UNCHANGED <<outVars, flagVars, callVars, target>>

PinStep == ControlC \/ PinAbort \/ PinMessage \/ ControlPOn \/ ControlPOff

----------------------------------------------------------------------------
Call(p) ==
  \/ \E d \in Dev : CallAttach(p, d, FALSE) \/ CondAttach(p, d) \/ Detach(p, d)
  \/ CallAttach(p, p_cns[p], TRUE)
  \/ \E t \in Proc, sure \in BOOLEAN : AbortByName(p, t, sure)
  \/ \E t \in Proc : ConAssign(p, t)
  \/ \E sure \in BOOLEAN : Terminate(p, sure)
  \/ Create(p)

Kernel(p) ==
  \/ Attach(p) \/ AssignWake(p)
  \/ CoGet(p) \/ CoKeep(p) \/ CoClear(p) \/ CoWake(p) \/ CoTest(p)
  \/ CoRestore(p) \/ CoRestoreCtlC(p) \/ TermAct(p)

Next == PinStep \/ \E p \in Proc : Call(p) \/ Kernel(p)

Spec == Init /\ [][Next]_vars

----------------------------------------------------------------------------
(* Properties.                                                             *)

TypeOK ==
  /\ c_attach \in [Dev -> Proc \cup {NoProc, Mimic}]
  /\ c_queue \in [Dev -> Seq(Proc)]
  /\ conout \in [Con -> BOOLEAN]
  /\ c_cosleep \in [Con -> Seq(Proc)]
  /\ c_mimic \in [Con -> Lst \cup {NoDev}]
  /\ p_flag \in [Proc -> SUBSET Flags] /\ saved \in [Proc -> SUBSET Flags]
  /\ pc \in [Proc -> PC]
  /\ want \in [Proc -> Dev \cup {NoDev}]
  /\ output \subseteq Proc
  /\ target \in [Proc -> Proc \cup {NoProc}]

\* A process asleep for a device or for the output routine is on the list of
\* that device, once, and on no other: no hand-over or abort loses one.
ListsMatch ==
  \A p \in Proc :
    /\ \A d \in Dev :
         Count(c_queue[d], p) = IF pc[p] = "attwait" /\ want[p] = d THEN 1 ELSE 0
    /\ \A c \in Con :
         Count(c_cosleep[c], p) = IF pc[p] = "cosleep" /\ p_cns[p] = c THEN 1 ELSE 0

\* A device is not owned by a process that is gone, nor by one that is left
\* asleep until it owns it.
OwnerAwake ==
  \A d \in Dev, p \in Proc :
    c_attach[d] = p =>
      /\ pc[p] # "dead"
      /\ (pc[p] = "attwait" /\ want[p] = d)
           => \E q \in Proc : pc[q] = "assign" /\ target[q] = p

\* cioattach: "sleep on c_queue until another process detaches from device": no
\* process sleeps until it owns a console that nobody owns.
NoStranded == \A c \in Con : c_attach[c] = NoProc => c_queue[c] = <<>>

\* The same of printers, which control P sets free.
NoStrandedPrinter ==
  \A l \in Lst :
    (c_attach[l] = NoProc /\ c_queue[l] # <<>>)
      => \E p \in Proc : pc[p] = "attach" /\ want[p] = l

\* While the output routine of a screen is free and processes are asleep until
\* it is, one of those is on its way, or the process is that will wake it up,
\* whoever was aborted in between.
OutputServed ==
  \A c \in Con :
    (~conout[c] /\ c_cosleep[c] # <<>>)
      => \E p \in Proc : p_cns[p] = c /\ pc[p] \in {"coget", "cowake", "terminate"}

\* The output routine of a screen does not stay occupied by a process that has
\* left it, or is gone.
OutputReleased ==
  \A c \in Con :
    conout[c] => \E p \in Proc : p_cns[p] = c /\ pc[p] \in {"cogot", "xios", "terminate"}

\* A process loses a device only in a call of its own or when it terminates:
\* nobody takes a console from a process that is in the output routine, or that
\* has just been assigned it.
OwnerKeeps ==
  [][\A d \in Dev, p \in Proc :
       (c_attach[d] = p /\ c_attach'[d] # p) => pc[p] \in {"user", "terminate"}]_vars

\* controlP: a printer echoes a console exactly while the console has control P
\* on, and no process owns it.
MimicMatches ==
  \A l \in Lst :
    Cardinality({c \in Con : c_mimic[c] = l}) = IF c_attach[l] = Mimic THEN 1 ELSE 0

\* Who owns a device, waits for it or has it echo is what the lists and the
\* control blocks say, and nobody waits for what nobody has.
DevicesSound == TypeOK /\ ListsMatch /\ OwnerAwake /\ NoStranded /\ MimicMatches

\* Nobody is left asleep for the output routine of a screen, and it is not left
\* occupied.
OutputSound == OutputServed /\ OutputReleased

Ownership ==
  INSTANCE Devices
    WITH Device <- Dev, owner <- c_attach,
         waiting <- [d \in Dev |-> {p \in Proc : IsOn(c_queue[d], p)}]

\* Attach, detach, assign, control P and termination implement the ownership
\* they promise.
Implements == Ownership!Spec

\* pin.p86: "The conout flag is set and "owned" before any process calls the
\* XIOS console output routine for a particular screen".  One process at a time
\* is in it.
OneInXios ==
  \A c \in Con : Cardinality({p \in Proc : p_cns[p] = c /\ pc[p] = "xios"}) <= 1

\* abort.rtm: "TEMPKEEP and CTLC flag on and process will terminate itself":
\* the CTLC that an abort leaves in a process is not lost.
CtlCHonoured ==
  [][\A p \in Proc :
       (PFlags[p] = {} /\ "ctlc" \in p_flag[p] /\ "ctlc" \notin p_flag'[p])
         => pc'[p] \in {"terminate", "dead"}]_vars
=============================================================================
