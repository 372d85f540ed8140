----------------------------- MODULE Dispatcher -----------------------------
(***************************************************************************)
(* The dispatcher of the real-time monitor (kernel/con/dsptch.rtm), with   *)
(* the calls that put a process on a list (sysent.rtm, proc.rtm), the      *)
(* flags that interrupt routines set and the delays they count (flag.rtm), *)
(* and the abort of a process wherever it is (abort.rtm).                  *)
(*                                                                         *)
(* There is one CPU.  A step is a piece of code that no interrupt can      *)
(* divide, or one that touches nothing an interrupt routine touches.       *)
(* Between two steps interrupts are on, and an interrupt may come.         *)
(***************************************************************************)
EXTENDS ProcessLists

CONSTANTS
  NoProc,     \* the null PD pointer (0)
  SList,      \* roots of the system lists processes sleep on
  PollList,   \* plr, the one of them the dispatcher polls
  Flag,       \* the flags of devices
  NoFlag,
  FlagOff,    \* flag_off: 0ffffh
  FlagOn,     \* flag_on: 0fffeh
  MaxWait,    \* the largest word, 0ffffh
  MaxPending, \* bound: interrupts a device has still to give
  Prior,      \* p_prior of each process when it is created
  Idle,       \* the idle process
  Calls       \* the calls each process may make

ASSUME ListAssumption == PollList \in SList
ASSUME FlagAssumption ==
  /\ NoFlag \notin Flag
  /\ FlagOff # FlagOn /\ {FlagOff, FlagOn} \cap (Proc \cup {NoProc}) = {}
ASSUME ProcAssumption == NoProc \notin Proc /\ Idle \in Proc /\ IsFiniteSet(Proc)
ASSUME BoundAssumption == MaxWait \in Nat \ {0} /\ MaxPending \in Nat \ {0}
ASSUME PriorAssumption == Prior \in [Proc -> Nat]

\* A call and its argument.
Call ==
  ({"sleep", "wakeup", "unsync"} \X SList) \cup ({"io"} \X Flag)
    \cup ({"delay"} \X (0 .. MaxWait)) \cup ({"setprior"} \X Nat)
    \cup ({"abort", "create"} \X Proc) \cup {<<"dispatch", 0>>, <<"terminate", 0>>}

ASSUME CallsAssumption ==
  /\ \A p \in Proc : Calls[p] \subseteq Call
  /\ Calls[Idle] = {<<"dispatch", 0>>}
  /\ \A p \in Proc : <<"abort", Idle>> \notin Calls[p]

VARIABLES
  rlr,        \* ready list: its head is the running process
  drl,        \* dispatch ready list, in no order
  dlr,        \* delay list
  slist,      \* the system lists
  p_wait,     \* ticks of each process on the delay list after the one before it
  tick,       \* the clock interrupt is to set the tick flag
  flg_pd,     \* each flag: off, on, or the process that waits for it
  flg_ignore, \* how many times setting it is to be ignored
  pending,    \* interrupts each device has still to give
  dev,        \* the device each process has started and not yet heard of
  p_stat,     \* what the dispatcher is to do with a process, or has done
  u_dparam,   \* the list it sleeps on, the flag or the number of ticks
  p_prior,    \* a smaller number runs first
  resource,   \* the processes with pf_resource
  u_in_int,   \* the processes an interrupt has taken out of context
  u_stat_sav, \* p_stat of those when the interrupt came
  pc,         \* where each process goes on when it is in context
  target,     \* the process a process is aborting
  snip,       \* what abort has found out about its target
  misled,     \* history: an abort has cut its target off where it was no more
  cpu         \* the running process, or the part of the dispatcher that runs

listVars == <<rlr, drl, dlr, slist>>
timeVars == <<p_wait, tick>>
flagVars == <<flg_pd, flg_ignore, pending, dev>>
intVars == <<u_in_int, u_stat_sav>>
abortVars == <<target, snip, misled>>
vars == <<listVars, timeVars, flagVars, p_stat, u_dparam, p_prior, resource,
          intVars, pc, abortVars, cpu>>

\* "wait" stands for ps_poll, ps_dq, ps_nq, ps_ciowait and ps_sync.
Stat == {"run", "sleep", "delay", "flagwait", "term", "wait"}
PC == {"user", "flagwait", "dsptch", "abtfind", "abtsnip", "abtput", "limbo",
       "terminate", "dead"}
Cpu == {"process", "dcont", "schedule", "drltorlr", "switch"}
\* abt_prior: the priority of a process being terminated.
AbtPrior == 32
NoSnip == [pd |-> NoProc, stat |-> "run", prev |-> NoProc, list |-> "none", ticks |-> 0]

Init ==
  /\ rlr = <<Idle>> /\ dlr = <<>>
  /\ drl \in {s \in [1 .. Cardinality(Proc) - 1 -> Proc \ {Idle}] :
                \A i, j \in DOMAIN s : s[i] = s[j] => i = j}
  /\ slist = [l \in SList |-> <<>>]
  /\ p_wait = [p \in Proc |-> 0] /\ tick = FALSE
  /\ flg_pd = [f \in Flag |-> FlagOff]
  /\ flg_ignore = [f \in Flag |-> 0]
  /\ pending = [f \in Flag |-> 0]
  /\ dev = [p \in Proc |-> NoFlag]
  /\ p_stat = [p \in Proc |-> "run"]
  /\ u_dparam = [p \in Proc |-> 0]
  /\ p_prior = Prior
  /\ resource = {}
  /\ u_in_int = Proc \ {Idle}
  /\ u_stat_sav = [p \in Proc |-> "run"]
  /\ pc = [p \in Proc |-> "user"]
  /\ target = [p \in Proc |-> NoProc]
  /\ snip = NoSnip /\ misled = FALSE
  /\ cpu = "dcont"

----------------------------------------------------------------------------
(* The lists.                                                              *)

PlaceOf(list, p) == CHOOSE i \in 1 .. Len(list) : list[i] = p
UpTo(list, p) == SubSeq(list, 1, PlaceOf(list, p))
After(list, p) == SubSeq(list, PlaceOf(list, p) + 1, Len(list))

\* insert_process goes past these: better priority, or equal unless p has
\* waited for a resource.
Passed(list, p) ==
  {i \in 1 .. Len(list) :
     \A j \in 1 .. i : \/ p_prior[list[j]] < p_prior[p]
                       \/ p_prior[list[j]] = p_prior[p] /\ p \notin resource}

\* Bug: a process is put behind all but the last.
BugInsertProcess(list, p) ==
  LET k == IF Len(list) > 1 THEN Len(list) - 1 ELSE Cardinality(Passed(list, p))
  IN  Placed(list, k, p)
InsertProcess(list, p) == Placed(list, Cardinality(Passed(list, p)), p)

\* The ticks until the i-th process on the delay list goes on.
TicksTo(i) ==
  LET t[j \in 0 .. Len(dlr)] == IF j = 0 THEN 0 ELSE t[j - 1] + p_wait[dlr[j]]
  IN  t[i]

\* The processes del_lp goes past for a delay of n.
NoLater(n) == {i \in 1 .. Len(dlr) : TicksTo(i) <= n}

\* Bug: the next process's ticks are not made relative to the new one.
BugDelayList(p, n) ==
  LET k == Cardinality(NoLater(n))
  IN  /\ dlr' = Placed(dlr, k, p)
      /\ p_wait' = [p_wait EXCEPT ![p] = n - TicksTo(k)]

DelayList(p, n) ==
  LET k == Cardinality(NoLater(n))
  IN  /\ dlr' = Placed(dlr, k, p)
      /\ p_wait' = [x \in Proc |->
                      IF x = p THEN n - TicksTo(k)
                      ELSE IF k < Len(dlr) /\ x = dlr[k + 1]
                           THEN p_wait[x] - (n - TicksTo(k))
                           ELSE p_wait[x]]

----------------------------------------------------------------------------
(* The way into the dispatcher.                                            *)

Running == Head(rlr)

\* indisp.
InDisp == cpu # "process" \/ pc[Running] \in {"abtfind", "abtsnip"}

\* Bug: dsptch does not look at the DRL.
BugSkipDispatch(stat) ==
  /\ slist'[PollList] = <<>> /\ stat[Running] = "run"
  /\ Len(rlr) > 1 => p_prior'[rlr[2]] # p_prior'[Running]

\* dsptch returns at once if there is nobody to poll or to make ready, and no
\* other process of the same priority.
SkipDispatch(stat) ==
  /\ slist'[PollList] = <<>> /\ drl' = <<>> /\ stat[Running] = "run"
  /\ Len(rlr) > 1 => p_prior'[rlr[2]] # p_prior'[Running]

Dsptch == cpu' = IF SkipDispatch(p_stat') THEN "process" ELSE "dcont"

\* pdisp, called by the running process.
Pdisp == p_stat' = [p_stat EXCEPT ![Running] = "run"] /\ Dsptch

\* Bug: fdisp does not save p_stat.
BugFdisp(stat) ==
  LET ran == [stat EXCEPT ![Running] = "run"]
  IN  IF InDisp \/ SkipDispatch(ran)
      THEN p_stat' = stat /\ UNCHANGED <<intVars, cpu>>
      ELSE /\ p_stat' = ran
           /\ u_in_int' = u_in_int \cup {Running}
           /\ cpu' = "dcont"
           /\ UNCHANGED u_stat_sav

\* fdisp, which interrupt routines end with, once they have left p_stat as stat.
Fdisp(stat) ==
  LET ran == [stat EXCEPT ![Running] = "run"]
  IN  IF InDisp \/ SkipDispatch(ran)
      THEN p_stat' = stat /\ UNCHANGED <<intVars, cpu>>
      ELSE /\ p_stat' = ran
           /\ u_stat_sav' = [u_stat_sav EXCEPT ![Running] = stat[Running]]
           /\ u_in_int' = u_in_int \cup {Running}
           /\ cpu' = "dcont"

----------------------------------------------------------------------------
(* Interrupts.                                                             *)

\* The processes whose ticks are over at this one: the head, and those behind
\* it with no ticks of their own.
Expired ==
  IF dlr = <<>> \/ p_wait[Head(dlr)] # 1 THEN {}
  ELSE {i \in 1 .. Len(dlr) : \A j \in 2 .. i : p_wait[dlr[j]] = 0}

\* Bug: the tick flag is turned off while processes still delay.
BugFlagSetTick ==
  LET k == Cardinality(Expired)
  IN  /\ drl' = [i \in 1 .. k |-> dlr[k + 1 - i]] \o drl
      /\ dlr' = SubSeq(dlr, k + 1, Len(dlr))
      /\ p_wait' = IF dlr = <<>> THEN p_wait
                   ELSE [p_wait EXCEPT ![Head(dlr)] = (@ + MaxWait) % (MaxWait + 1)]
      /\ tick' = (k = 0 /\ dlr # <<>>)
      /\ Fdisp([x \in Proc |-> IF \E i \in 1 .. k : x = dlr[i] THEN "run" ELSE p_stat[x]])

\* flag_set_entry for the tick flag.
FlagSetTick ==
  LET k == Cardinality(Expired)
  IN  /\ drl' = [i \in 1 .. k |-> dlr[k + 1 - i]] \o drl
      /\ dlr' = SubSeq(dlr, k + 1, Len(dlr))
      /\ p_wait' = IF dlr = <<>> THEN p_wait
                   ELSE [p_wait EXCEPT ![Head(dlr)] = (@ + MaxWait) % (MaxWait + 1)]
      /\ tick' = (k < Len(dlr))
      /\ Fdisp([x \in Proc |-> IF \E i \in 1 .. k : x = dlr[i] THEN "run" ELSE p_stat[x]])

\* The clock interrupt of the XIOS: it sets the tick flag if someone delays,
\* and calls the dispatcher.
ClockInt ==
  /\ UNCHANGED slist /\ UNCHANGED p_prior
  /\ \/ tick /\ FlagSetTick
     \/ ~tick /\ UNCHANGED <<drl, dlr, timeVars>> /\ Fdisp(p_stat)
  /\ UNCHANGED <<rlr, flagVars, u_dparam, resource, pc, abortVars>>

\* The interrupt of a device, which calls flag_set_entry for its flag.
FlagInt(f) ==
  /\ pending[f] > 0
  /\ pending' = [pending EXCEPT ![f] = @ - 1]
  /\ UNCHANGED slist /\ UNCHANGED p_prior
  /\ LET w == flg_pd[f]
     IN  \/ /\ flg_ignore[f] > 0
            /\ flg_ignore' = [flg_ignore EXCEPT ![f] = @ - 1]
            /\ UNCHANGED <<drl, flg_pd, dev, resource>>
            /\ Fdisp(p_stat)
         \/ /\ flg_ignore[f] = 0 /\ w = FlagOff
            /\ flg_pd' = [flg_pd EXCEPT ![f] = FlagOn]
            /\ UNCHANGED <<drl, flg_ignore, dev, resource>>
            /\ Fdisp(p_stat)
         \/ /\ flg_ignore[f] = 0 /\ w = FlagOn      \* overrun
            /\ UNCHANGED <<drl, flg_pd, flg_ignore, dev, resource>>
            /\ Fdisp(p_stat)
         \/ /\ flg_ignore[f] = 0 /\ w \in Proc
            /\ drl' = <<w>> \o drl
            /\ resource' = resource \cup {w}
            /\ flg_pd' = [flg_pd EXCEPT ![f] = FlagOff]
            /\ dev' = [dev EXCEPT ![w] = NoFlag]
            /\ UNCHANGED flg_ignore
            /\ Fdisp([p_stat EXCEPT ![w] = "run"])
  /\ UNCHANGED <<rlr, dlr, timeVars, u_dparam, pc, abortVars>>

----------------------------------------------------------------------------
(* The calls of the running process.                                       *)

At(p, l) == cpu = "process" /\ p = Running /\ pc[p] = l
Goto(p, l) == pc' = [pc EXCEPT ![p] = l]

\* delay_entry: interrupts are on between this and dsptch.
Delay(p) ==
  /\ At(p, "user")
  /\ \E n \in 0 .. MaxWait :
       /\ <<"delay", n>> \in Calls[p]
       /\ u_dparam' = [u_dparam EXCEPT ![p] = n]
  /\ p_stat' = [p_stat EXCEPT ![p] = "delay"]
  /\ Goto(p, "dsptch")
  /\ UNCHANGED <<listVars, timeVars, flagVars, p_prior, resource, intVars, abortVars, cpu>>

\* dsptch, called with p_stat set.
EnterDsptch(p) ==
  /\ At(p, "dsptch")
  /\ Goto(p, "user")
  /\ cpu' = "dcont"
  /\ UNCHANGED <<listVars, timeVars, flagVars, p_stat, u_dparam, p_prior, resource,
                 intVars, abortVars>>

\* dispatch_entry and set_prior_entry.
DispatchOrSetPrior(p) ==
  /\ At(p, "user")
  /\ UNCHANGED <<listVars, timeVars, flagVars, u_dparam, resource, intVars, pc, abortVars>>
  /\ \/ <<"dispatch", 0>> \in Calls[p] /\ UNCHANGED p_prior
     \/ \E c \in Calls[p] :
          c[1] = "setprior" /\ p_prior' = [p_prior EXCEPT ![p] = c[2]]
  /\ Pdisp

\* sleep_entry, with interrupts off until the dispatcher.
Sleep(p) ==
  /\ At(p, "user")
  /\ \E l \in SList : <<"sleep", l>> \in Calls[p] /\ u_dparam' = [u_dparam EXCEPT ![p] = l]
  /\ p_stat' = [p_stat EXCEPT ![p] = "sleep"]
  /\ cpu' = "dcont"
  /\ UNCHANGED <<listVars, timeVars, flagVars, p_prior, resource, intVars, pc, abortVars>>

\* wakeup_entry: to the end of the DRL, then pdisp.
Wakeup(p) ==
  /\ At(p, "user")
  /\ \E l \in SList :
       /\ <<"wakeup", l>> \in Calls[p] /\ slist[l] # <<>>
       /\ slist' = [slist EXCEPT ![l] = Tail(@)]
       /\ drl' = drl \o <<Head(slist[l])>>
       /\ p_stat' = [p_stat EXCEPT ![Head(slist[l])] = "run", ![p] = "run"]
  /\ cpu' = "dcont"
  /\ UNCHANGED <<rlr, dlr, timeVars, flagVars, u_dparam, p_prior, resource, intVars, pc,
                 abortVars>>

\* unsync_entry's hand-over: to the front of the DRL, and no dispatch.
Unsync(p) ==
  /\ At(p, "user")
  /\ \E l \in SList :
       /\ <<"unsync", l>> \in Calls[p] /\ slist[l] # <<>>
       /\ slist' = [slist EXCEPT ![l] = Tail(@)]
       /\ drl' = <<Head(slist[l])>> \o drl
       /\ p_stat' = [p_stat EXCEPT ![Head(slist[l])] = "run"]
  /\ UNCHANGED <<rlr, dlr, timeVars, flagVars, u_dparam, p_prior, resource, intVars, pc,
                 abortVars, cpu>>

\* proc_creat of a process on a free PD, then pdisp.
Create(p) ==
  /\ At(p, "user")
  /\ \E c \in Proc :
       /\ <<"create", c>> \in Calls[p] /\ pc[c] = "dead"
       /\ pc' = [pc EXCEPT ![c] = "user"]
       /\ p_prior' = [p_prior EXCEPT ![c] = Prior[c]]
       /\ p_stat' = [p_stat EXCEPT ![c] = "run", ![p] = "run"]
       /\ u_in_int' = u_in_int \cup {c}
       /\ u_stat_sav' = [u_stat_sav EXCEPT ![c] = "run"]
       /\ drl' = <<c>> \o drl
  /\ resource' = resource \ {p}
  /\ cpu' = "dcont"
  /\ UNCHANGED <<rlr, dlr, slist, timeVars, flagVars, u_dparam, abortVars>>

\* A driver starts its device, which nobody else uses, and cannot be aborted
\* until it waits for the flag.
StartIO(p) ==
  /\ At(p, "user")
  /\ \E f \in Flag :
       /\ <<"io", f>> \in Calls[p]
       /\ \A x \in Proc : dev[x] # f
       /\ pending[f] < MaxPending
       /\ pending' = [pending EXCEPT ![f] = @ + 1]
       /\ dev' = [dev EXCEPT ![p] = f]
  /\ Goto(p, "flagwait")
  /\ UNCHANGED <<listVars, timeVars, flg_pd, flg_ignore, p_stat, u_dparam, p_prior,
                 resource, intVars, abortVars, cpu>>

\* flag_wait_entry, with interrupts off until the dispatcher.
FlagWait(p) ==
  /\ At(p, "flagwait")
  /\ Goto(p, "user")
  /\ LET f == dev[p]
     IN  \/ /\ flg_pd[f] = FlagOn
            /\ flg_pd' = [flg_pd EXCEPT ![f] = FlagOff]
            /\ dev' = [dev EXCEPT ![p] = NoFlag]
            /\ UNCHANGED <<p_stat, u_dparam, cpu>>
         \/ /\ flg_pd[f] = FlagOff
            /\ p_stat' = [p_stat EXCEPT ![p] = "flagwait"]
            /\ u_dparam' = [u_dparam EXCEPT ![p] = f]
            /\ cpu' = "dcont"
            /\ UNCHANGED <<flg_pd, dev>>
         \/ /\ flg_pd[f] \in Proc                   \* underrun
            /\ UNCHANGED <<flg_pd, dev, p_stat, u_dparam, cpu>>
  /\ UNCHANGED <<listVars, timeVars, flg_ignore, pending, p_prior, resource, intVars,
                 abortVars>>

\* The end of terminate_entry, by a process that calls it or has been aborted.
Terminate(p) ==
  /\ \/ At(p, "user") /\ <<"terminate", 0>> \in Calls[p]
     \/ At(p, "terminate")
  /\ p_prior' = [p_prior EXCEPT ![p] = AbtPrior]
  /\ p_stat' = [p_stat EXCEPT ![p] = "term"]
  /\ Goto(p, "dsptch")
  /\ UNCHANGED <<listVars, timeVars, flagVars, u_dparam, resource, intVars, abortVars, cpu>>

----------------------------------------------------------------------------
(* abort_spec_entry.                                                       *)

\* Stop dispatching and look at the status of the target, which is not in a no
\* abort region.  Interrupts stay on: the pushf ! cli here is commented out.
Abort(p) ==
  /\ At(p, "user")
  /\ \E t \in Proc \ {p} :
       /\ <<"abort", t>> \in Calls[p]
       /\ pc[t] \notin {"flagwait", "dead"}
       /\ snip' = [NoSnip EXCEPT !.pd = t, !.stat = p_stat[t]]
  /\ Goto(p, "abtfind")
  /\ UNCHANGED <<listVars, timeVars, flagVars, p_stat, u_dparam, p_prior, resource,
                 intVars, target, misled, cpu>>

\* The link before t in a list: of a process, or of the root.
Prev(list, t) == IF Head(list) = t THEN NoProc ELSE list[PlaceOf(list, t) - 1]

\* The place find_pd finds t at, and the ticks abtdly reads there.
Found(t, list, name) ==
  IF ~IsOn(list, t) THEN NoSnip
  ELSE [pd |-> t, stat |-> snip.stat, list |-> name, prev |-> Prev(list, t),
        ticks |-> p_wait[t]]

\* abort_tab: where the status of t says that it is.
AbortTab(t) ==
  IF snip.stat \in {"run", "sleep"} /\ IsOn(rlr, t) THEN Found(t, rlr, "rlr")
  ELSE IF snip.stat \in {"run", "sleep"} THEN Found(t, drl, "drl")
  ELSE IF snip.stat = "delay" THEN Found(t, dlr, "dlr")
  ELSE IF snip.stat = "wait" THEN Found(t, slist[u_dparam[t]], "slist")
  ELSE IF snip.stat = "flagwait" /\ flg_pd[u_dparam[t]] = t
       THEN [NoSnip EXCEPT !.pd = t, !.stat = "flagwait", !.list = "flag"]
  ELSE NoSnip

\* ok_disp, and where p goes on.
OkDisp(p, l) ==
  /\ Goto(p, l)
  /\ IF drl' = <<>> THEN UNCHANGED p_stat /\ UNCHANGED cpu
     ELSE p_stat' = [p_stat EXCEPT ![p] = "run"] /\ cpu' = "dcont"

\* find_pd is on the way along the DLR when a tick moves the process it has come
\* to: it goes on along the DRL, past processes that were there before.
Astray(t) == snip.stat = "delay" /\ drl # <<>> /\ IsOn(dlr, t)

\* The handler for the status of the target looks for it ...
AbortFind(p) ==
  /\ At(p, "abtfind")
  /\ \/ snip' = AbortTab(snip.pd)
     \/ Astray(snip.pd) /\ snip' = NoSnip
  /\ UNCHANGED drl
  /\ \/ snip' # NoSnip /\ Goto(p, "abtsnip") /\ UNCHANGED <<p_stat, cpu>>
     \/ snip' = NoSnip /\ OkDisp(p, "user")
  /\ UNCHANGED <<rlr, dlr, slist, timeVars, flagVars, u_dparam, p_prior, resource,
                 intVars, target, misled>>

\* What abort has found of t is still so: no interrupt has come that moved t,
\* or put another before it.
StillThere(t) ==
  \/ snip.list = "flag" /\ u_dparam[t] \in Flag /\ flg_pd[u_dparam[t]] = t
  \/ snip.list = "rlr" /\ IsOn(rlr, t) /\ snip.prev = Prev(rlr, t)
  \/ snip.list = "drl" /\ IsOn(drl, t) /\ snip.prev = Prev(drl, t)
  \/ snip.list = "dlr" /\ IsOn(dlr, t) /\ snip.prev = Prev(dlr, t)
  \/ /\ snip.list = "slist" /\ u_dparam[t] \in SList
     /\ IsOn(slist[u_dparam[t]], t) /\ snip.prev = Prev(slist[u_dparam[t]], t)

\* The processes linked after t, whatever list that now is.
LinkedAfter(t) ==
  IF IsOn(rlr, t) THEN After(rlr, t)
  ELSE IF IsOn(drl, t) THEN After(drl, t)
  ELSE IF IsOn(dlr, t) THEN After(dlr, t)
  ELSE After(slist[u_dparam[t]], t)

\* Bug: a process at the head of its list stays there.
BugSnipIt(list, name) ==
  IF snip.prev # NoProc /\ IsOn(list, snip.prev)
  THEN UpTo(list, snip.prev) \o LinkedAfter(snip.pd)
  ELSE list

\* snip_it: the link found before, of a process or of a list root, is set to
\* the link of t.
SnipIt(list, name) ==
  IF snip.prev = NoProc
  THEN IF snip.list = name THEN LinkedAfter(snip.pd) ELSE list
  ELSE IF IsOn(list, snip.prev) THEN UpTo(list, snip.prev) \o LinkedAfter(snip.pd)
  ELSE list

\* abtdly adds the ticks of t, n when it reads them, to those of the process
\* behind it.
TicksAfterSnip(n) ==
  LET rest == LinkedAfter(snip.pd)
  IN  IF snip.list # "dlr" \/ rest = <<>> THEN p_wait
      ELSE [p_wait EXCEPT ![Head(rest)] = @ + n]

\* Bug: abtflg leaves the flag to the next process that waits for it.
BugIgnoreAfterSnip(f) == flg_ignore[f]
IgnoreAfterSnip(f) == flg_ignore[f] + 1

\* ... takes it off, and ok_disp lets the dispatcher run again.  A tick may come
\* before abtdly reads the ticks of the target or after.
AbortSnip(p) ==
  /\ At(p, "abtsnip")
  /\ LET t == snip.pd
     IN  /\ IF snip.list = "flag"
            THEN LET f == u_dparam[t]
                 IN  /\ flg_ignore' = [flg_ignore EXCEPT ![f] = IgnoreAfterSnip(f)]
                     /\ flg_pd' = [flg_pd EXCEPT ![f] = FlagOff]
                     /\ dev' = [dev EXCEPT ![t] = NoFlag]
                     /\ misled' = ~StillThere(t)
                     /\ UNCHANGED <<rlr, drl, dlr, slist, p_wait>>
            ELSE /\ rlr' = SnipIt(rlr, "rlr")
                 /\ drl' = SnipIt(drl, "drl")
                 /\ dlr' = SnipIt(dlr, "dlr")
                 /\ slist' = IF snip.list = "slist"
                             THEN [slist EXCEPT ![u_dparam[t]] = SnipIt(@, "slist")]
                             ELSE slist
                 /\ \E n \in {p_wait[t], snip.ticks} :
                      /\ p_wait' = TicksAfterSnip(n)
                      /\ misled' = (~StillThere(t) \/ (snip.list = "dlr" /\ n # p_wait[t]))
                 /\ UNCHANGED <<flg_pd, flg_ignore, dev>>
         /\ target' = [target EXCEPT ![p] = t, ![t] = NoProc]
         /\ pc' = [pc EXCEPT ![p] = "abtput", ![t] = "limbo"]
  /\ snip' = NoSnip
  /\ IF drl' = <<>> THEN UNCHANGED <<p_stat, cpu>>
     ELSE p_stat' = [p_stat EXCEPT ![p] = "run"] /\ cpu' = "dcont"
  /\ UNCHANGED <<tick, pending, u_dparam, p_prior, resource, intVars>>

\* The target is made to go on at terminate, with the best priority, and put
\* on the DRL.
AbortPut(p) ==
  /\ At(p, "abtput")
  /\ LET t == target[p]
     IN  /\ p_prior' = [p_prior EXCEPT ![t] = AbtPrior]
         /\ u_in_int' = u_in_int \ {t}
         /\ drl' = <<t>> \o drl
         /\ pc' = [pc EXCEPT ![p] = "user", ![t] = "terminate"]
  /\ target' = [target EXCEPT ![p] = NoProc]
  /\ p_stat' = [p_stat EXCEPT ![p] = "run"]
  /\ cpu' = "dcont"
  /\ UNCHANGED <<rlr, dlr, slist, timeVars, flagVars, u_dparam, resource, u_stat_sav,
                 snip, misled>>

----------------------------------------------------------------------------
(* The dispatcher.                                                         *)

\* Bug: the largest delay wraps around.
BugTicksOf(n) == n + 1
\* The ticks of a delay of n: the first one may come at any moment.
TicksOf(n) == IF n = MaxWait THEN n ELSE n + 1

\* flag_act.
FlagAct(p) ==
  IF flg_pd[u_dparam[p]] = FlagOn
  THEN /\ flg_pd' = [flg_pd EXCEPT ![u_dparam[p]] = FlagOff]
       /\ dev' = [dev EXCEPT ![p] = NoFlag]
       /\ rlr' = InsertProcess(Tail(rlr), p)
       /\ resource' = resource \ {p}
       /\ p_stat' = [p_stat EXCEPT ![p] = "run"]
  ELSE /\ flg_pd' = [flg_pd EXCEPT ![u_dparam[p]] = p]
       /\ rlr' = Tail(rlr)
       /\ UNCHANGED <<dev, p_stat, resource>>

\* dcont, dsp_table: the running process is taken off the RLR and put where its
\* p_stat says.
Act ==
  /\ cpu = "dcont"
  /\ cpu' = "schedule"
  /\ LET p == Running
     IN  \/ /\ p_stat[p] \in {"run", "wait"}
            /\ rlr' = InsertProcess(Tail(rlr), p)
            /\ resource' = resource \ {p}
            /\ p_stat' = [p_stat EXCEPT ![p] = "run"]
            /\ UNCHANGED <<dlr, slist, timeVars, flg_pd, dev, pc>>
         \/ /\ p_stat[p] = "sleep"
            /\ rlr' = Tail(rlr)
            /\ slist' = [slist EXCEPT ![u_dparam[p]] = InsertProcess(@, p)]
            /\ resource' = resource \cup {p}
            /\ p_stat' = [p_stat EXCEPT ![p] = "wait"]
            /\ UNCHANGED <<dlr, timeVars, flg_pd, dev, pc>>
         \/ /\ p_stat[p] = "delay"
            /\ rlr' = Tail(rlr)
            /\ tick' = TRUE
            /\ DelayList(p, TicksOf(u_dparam[p]))
            /\ UNCHANGED <<slist, flg_pd, dev, p_stat, resource, pc>>
         \/ /\ p_stat[p] = "flagwait"
            /\ FlagAct(p)
            /\ UNCHANGED <<dlr, slist, timeVars, pc>>
         \/ /\ p_stat[p] = "term"                   \* term_act
            /\ rlr' = Tail(rlr)
            /\ Goto(p, "dead")
            /\ UNCHANGED <<dlr, slist, timeVars, flg_pd, dev, p_stat, resource>>
  /\ UNCHANGED <<drl, flg_ignore, pending, u_dparam, p_prior, intVars, abortVars>>

\* The processes on the PLR that are polled, as long as no device is ready.
Polled ==
  {i \in 1 .. Len(slist[PollList]) :
     rlr = <<>> \/ \A j \in 1 .. i : p_prior[slist[PollList][j]] <= p_prior[Running]}

\* schedule: the first process whose device is ready goes on the RLR.
Schedule ==
  /\ cpu = "schedule"
  /\ cpu' = "drltorlr"
  /\ \/ \E i \in Polled :
          LET p == slist[PollList][i]
          IN  /\ slist' = [slist EXCEPT ![PollList] =
                             SubSeq(@, 1, i - 1) \o SubSeq(@, i + 1, Len(@))]
              /\ p_stat' = [p_stat EXCEPT ![p] = "run"]
              /\ rlr' = InsertProcess(rlr, p)
              /\ resource' = resource \ {p}
     \/ UNCHANGED <<slist, p_stat, rlr, resource>>
  /\ UNCHANGED <<drl, dlr, timeVars, flagVars, u_dparam, p_prior, intVars, pc, abortVars>>

\* drltorlr: the next process on the DRL goes on the RLR.
DrlToRlr ==
  /\ cpu = "drltorlr" /\ drl # <<>>
  /\ LET p == Head(drl)
     IN  /\ drl' = Tail(drl)
         /\ p_stat' = [p_stat EXCEPT ![p] = "run"]
         /\ rlr' = InsertProcess(rlr, p)
         /\ resource' = resource \ {p}
  /\ UNCHANGED <<dlr, slist, timeVars, flagVars, u_dparam, p_prior, intVars, pc,
                 abortVars, cpu>>

\* switch: the first process on the RLR is next.
Switch ==
  /\ cpu = "drltorlr" /\ drl = <<>>
  /\ cpu' = IF rlr = <<>> THEN "schedule" ELSE "switch"
  /\ UNCHANGED <<listVars, timeVars, flagVars, p_stat, u_dparam, p_prior, resource,
                 intVars, pc, abortVars>>

\* dext, int_disp_exit: back to the process, unless an interrupt has made one
\* ready since.
Exit ==
  /\ cpu = "switch"
  /\ \/ /\ drl # <<>>
        /\ cpu' = "dcont"
        /\ p_stat' = [p_stat EXCEPT ![Running] = "run"]
        /\ UNCHANGED u_in_int
     \/ /\ drl = <<>>
        /\ cpu' = "process"
        /\ IF Running \in u_in_int
           THEN /\ p_stat' = [p_stat EXCEPT ![Running] = u_stat_sav[Running]]
                /\ u_in_int' = u_in_int \ {Running}
           ELSE UNCHANGED <<p_stat, u_in_int>>
  /\ UNCHANGED <<listVars, timeVars, flagVars, u_dparam, p_prior, resource, u_stat_sav,
                 pc, abortVars>>

----------------------------------------------------------------------------
Process(p) ==
  \/ Delay(p) \/ EnterDsptch(p) \/ DispatchOrSetPrior(p) \/ Sleep(p) \/ Wakeup(p)
  \/ Unsync(p) \/ Create(p) \/ StartIO(p) \/ FlagWait(p) \/ Terminate(p)
  \/ Abort(p) \/ AbortFind(p) \/ AbortSnip(p) \/ AbortPut(p)

Dispatch == Act \/ Schedule \/ DrlToRlr \/ Switch \/ Exit

Interrupt == ClockInt \/ \E f \in Flag : FlagInt(f)

\* Bound: nothing is followed any further once two lists have run together.
Next == ~misled /\ (Dispatch \/ Interrupt \/ \E p \in Proc : Process(p))

Spec == Init /\ [][Next]_vars

\* The CPU does not stop in the dispatcher or in abort, and the interrupt
\* controller keeps a clock interrupt until it can come.
Fairness ==
  /\ WF_vars(~misled /\ (Dispatch \/ \E p \in Proc : AbortFind(p) \/ AbortSnip(p)))
  /\ SF_vars(~misled /\ ClockInt)
FairSpec == Spec /\ Fairness

----------------------------------------------------------------------------
(* Properties.                                                             *)

TypeOK ==
  /\ rlr \in Seq(Proc) /\ drl \in Seq(Proc) /\ dlr \in Seq(Proc)
  /\ slist \in [SList -> Seq(Proc)]
  /\ p_wait \in [Proc -> 0 .. MaxWait] /\ tick \in BOOLEAN
  /\ flg_pd \in [Flag -> Proc \cup {FlagOff, FlagOn}]
  /\ flg_ignore \in [Flag -> 0 .. MaxPending]
  /\ pending \in [Flag -> 0 .. MaxPending]
  /\ dev \in [Proc -> Flag \cup {NoFlag}]
  /\ p_stat \in [Proc -> Stat] /\ u_stat_sav \in [Proc -> Stat]
  /\ u_dparam \in [Proc -> SList \cup Flag \cup (0 .. MaxWait)]
  /\ p_prior \in [Proc -> Nat]
  /\ resource \subseteq Proc /\ u_in_int \subseteq Proc
  /\ pc \in [Proc -> PC] /\ cpu \in Cpu
  /\ target \in [Proc -> Proc \cup {NoProc}]
  /\ snip \in [pd : Proc \cup {NoProc}, stat : Stat, prev : Proc \cup {NoProc},
                list : {"none", "rlr", "drl", "dlr", "slist", "flag"},
                ticks : 0 .. MaxWait]
  /\ misled \in BOOLEAN

\* A process is in exactly one place, the one abort looks for it at by its
\* status: no call, interrupt or abort loses it or links it twice.
OnePlace ==
  \A p \in Proc :
    /\ Count(rlr, p) + Count(drl, p) + Count(dlr, p)
         + Cardinality({f \in Flag : flg_pd[f] = p})
         + Cardinality({l \in SList : IsOn(slist[l], p)})
         = IF pc[p] \in {"dead", "limbo"} THEN 0 ELSE 1
    /\ \A l \in SList : Count(slist[l], p) <= 1
    /\ IsOn(dlr, p) => p_stat[p] = "delay"
    /\ \A l \in SList : IsOn(slist[l], p) => p_stat[p] = "wait" /\ u_dparam[p] = l
    /\ \A f \in Flag : flg_pd[f] = p => p_stat[p] = "flagwait" /\ u_dparam[p] = f
    /\ IsOn(rlr, p) => p_stat[p] = "run" \/ (p = Running /\ cpu \in {"process", "dcont"})

\* The processes that may make their own priority worse while they run: by
\* set_prior, or terminate_entry does if it is better than abt_prior.
MayWorsen(p) == Prior[p] < AbtPrior \/ \E c \in Calls[p] : c[1] = "setprior"

\* dsptch.rtm: "The Ready List is maintained in priority order".  No process
\* that is ready to run is of a better priority than the one that runs, unless
\* that one may have changed its own since it was dispatched.
RlrSorted ==
  \A i, j \in 1 .. Len(rlr) : i < j =>
    \/ p_prior[rlr[i]] <= p_prior[rlr[j]]
    \/ i = 1 /\ cpu \in {"process", "dcont"} /\ MayWorsen(Running)

\* What a process has asked of the dispatcher is not lost when an interrupt takes
\* it out of context between the assignment to p_stat and dsptch.
StatKept == \A p \in Proc : At(p, "dsptch") => p_stat[p] \in {"delay", "term"}

\* The ticks left of each delay, from those of the list.
TicksLeft ==
  [p \in Proc |-> IF IsOn(dlr, p) THEN TicksTo(PlaceOf(dlr, p)) ELSE 0]

Timers == INSTANCE Countdowns WITH left <- TicksLeft

\* The delay list implements a countdown for each process, until an interrupt
\* misleads an abort.
DelaysExact == Timers!Init /\ [][misled' \/ [Timers!Next]_(Timers!vars)]_vars

\* The interrupts a device has still to give, and a flag that is on, are for the
\* process that uses it, or are to be ignored because that process was aborted.
FlagsMatch ==
  \A f \in Flag :
    pending[f] + (IF flg_pd[f] = FlagOn THEN 1 ELSE 0)
      = flg_ignore[f] + Cardinality({p \in Proc : dev[p] = f})

\* Until an interrupt misleads an abort, every process is on the one list that its
\* status names, the ready list is in order, nothing asked of the dispatcher and
\* no interrupt is lost.
PlacesSound == misled \/ (TypeOK /\ OnePlace /\ RlrSorted /\ StatKept /\ FlagsMatch)

\* abort.rtm: "find via p_link and take PD off its list", "Interrupts assumed
\* off" and "process can't come back into context so interrupts are ok".  Between
\* the cut and abt_putdrl the process being aborted is on no list, and no flag
\* holds it.
TakenOff ==
  \A p \in Proc : pc[p] = "limbo" =>
    /\ ~IsOn(rlr, p) /\ ~IsOn(drl, p) /\ ~IsOn(dlr, p)
    /\ \A l \in SList : ~IsOn(slist[l], p)
    /\ \A f \in Flag : flg_pd[f] # p

\* Every delay ends, or is aborted: the clock keeps setting the tick flag while
\* the delay list has a process on it.
DelayEnds == \A p \in Proc : IsOn(dlr, p) ~> ~IsOn(dlr, p) \/ misled

\* A process made ready gets on the ready list in the end: whatever the running
\* process does, the clock interrupt calls the dispatcher.
MadeReady == \A p \in Proc : IsOn(drl, p) ~> ~IsOn(drl, p) \/ misled
=============================================================================
