# Verification of Concurrent CP/M-86

TLA+ models of the kernel of Concurrent CP/M-86 (`src/kernel`) and of three of its
programs that are more than a loop over calls (GENCCPM, DREDIX and HEXCOM, under
`src/commands`), the TLC configurations that check them on small instances, and
theorems about them that TLAPS checks for every value of their constants.

The kernel is written in 8086 assembly and PL/M for one CPU.  It is concurrent all
the same: processes are switched at any instruction that runs with interrupts on,
interrupt routines set flags, and any process can abort another one at any point
outside a "no abort region".  That is what its models are about.

The programs are written in C and sequential.  What is hard in them is long
sequences of legal commands (marks, cursors and cached positions that must follow a
text that changes), arithmetic at boundaries (words that wrap, windows, padding),
things written before all is known and fixed later, and files: steps of a save that
fail or are cut off.

All paths are relative to the repository; `con/` is `src/kernel/con/`, `genccpm/`,
`dredix/` and `hexcom/` are directories of `src/commands/`.

## 1. The system

An application executes `INT E0h` with a function number in CL.  SUP looks the
number up in a table and passes the call to the module that serves it (RTM, MEM,
CIO or BDOS), in the same process and on a stack of its own.  The modules share
SYSDAT, a data segment that holds every process descriptor (PD), queue
descriptor, flag, list root and console control block.  Below them the XIOS
drives the hardware.  Resident processes (PIN, VOUT, SERIN, SEROUT, CLOCK, TMP,
ABORT, ...) are created at start-up and use the same calls as an application.

    application ── INT E0h ──> SUP ──> RTM  processes, queues, flags, SYNC structures
                                │────> MEM  memory (uses one SYNC structure)
                                │────> CIO  consoles and printers
                                └────> BDOS files (uses the queue MXdisk)
    PIN, VOUT, SERIN, SEROUT, TMP ──> the same calls     XIOS <── interrupts

| component | state it keeps | operations | what is hard | what makes it correct | module |
|---|---|---|---|---|---|
| RTM: dispatcher, flags, delays, creation (`dsptch.rtm`, `flag.rtm`, `sysent.rtm`, `proc.rtm`) | RLR, DRL, DLR, PUL and the lists processes sleep on; `p_stat`, `p_prior`, `p_wait`; flag table; TICK, indisp | delay, sleep, wakeup, dispatch, setprior, flagset, flagwait, create, poll | interrupts between any two instructions; the DRL is written by interrupts; a process can be switched out after it set `p_stat` and before it dispatches | a PD is on one list, the one its status names; the ready list is in priority order; a delay lasts the ticks asked for; flags are not lost or given to the wrong process | Dispatcher |
| RTM: queues and SYNC structures (`que1.rtm`, `que2.rtm`, `sysent.rtm`) | QLR, message counts and buffers, DQ and NQ lists, `q_spb` (owner, wait list, next) | make, open, delete, read, write (waiting or not); sync, assign, unsync; no_abort, ok_abort | hand-over of ownership between processes that sleep; the state is tested before a sleep and used after it | FIFO, no message lost or stranded, mutual exclusion, a queue in use is not deleted | QueueSystem |
| RTM: abort and terminate (`abort.rtm`) | `p_flag` (CTLC, TEMPKEEP, KEEP, SYS), `p_tkcnt`, ABT lists | abort_spec, terminate, term_act | the target can be on any list, or in a no abort region; the aborter can be aborted | an abort takes effect once, and leaves no list, queue or flag wrong | QueueSystem, Dispatcher |
| MEM: one partition (`mau.mem`, `share.mem`) | the suballocation table (SAT) at the start of the partition, memory descriptors | maualloc, maufree, share | split and collapse, holes in a full table | no paragraph allocated twice, free memory can be found again | Mau |
| MEM: entry and partitions (`memif.mem`, `memory.mem`, `ml.mem`) | MFL, MAL, `p_mem` lists, `mem_spb` | malloc, mfree, share, the CP/M-86 segment calls | order of locks with the queue system, failure half way | memory comes back; no deadlock | planned: SyncOrder, Memory |
| CIO: ownership (`console.cio`) | owner and waiting list of every console and printer, mimic (^P) state | attach, conditional attach, detach, assign, cioterm | woken processes must look again; abort of a waiting owner; the "conout" flag is cleared by others | one owner; a free device with waiters does not stay free | Console |
| CIO: character I/O and line editing (`chario.cio`) | `p_flag` around an XIOS call, the edit buffer | conin, conout, conwrite, conread (function 10) | an abort in the middle of output | an abort is not lost; one process in the XIOS for a screen | Console (conout flag); planned: LineEdit |
| PIN, VOUT (`pin.p86`, `vout.p86`) | screen states (foreground, buffered, suspended, purging, ^O, ^S), VINQ, VOUTQ and VCMXQ queues, ring of spooled records | switch screens, ^C ^O ^P ^Q ^S, spool and despool | PIN takes processes off lists by hand, several queues held at once | spooled output once and in order; no deadlock of switch and spooler | Console (^C, ^P, messages); planned: VirtualConsole |
| SERIN, SEROUT (`serin.a86`, `serout.a86`) | circular buffer, flow control and waiting flags | interrupt routine, read, write | buffer full, flag set while nobody waits | no character lost below the limit; a stopped sender is started again | planned: Serial |
| SUP: loader and command line (`load.sup`, `command.sup`, `rpl.sup`, `parse.sup`) | groups of the file being loaded | load, chain, CLI | one of several allocations fails | what was allocated is given back | planned: Load |
| SUP: tick and idle | none | idle is the last of the ready list; tick waits for a flag that `flag_set_entry` now handles in the interrupt and is never set | | | Dispatcher (idle) |
| BDOS (`bdosif.bdo`, `file1`-`file5.bdo`) | open file and lock lists, buffers, `MXdisk`, `msg_spb` | the file functions | one process at a time, but locks live across calls and processes abort | a lock has one owner, buffers are written before they are reused | planned: BdosLocks, Buffers |
| XIOS (`xios.a86`, `x*.lib`) | disk motor and timeout counters, video state | interrupt routines, device calls | a timeout against a late interrupt | an operation does not take the interrupt of the previous one | flags in Dispatcher; planned: Floppy |
| TMP, PCTMP, CLOCK, ECHO, ABORT, DIR | state of one process | loops over the calls above | | | not modelled |
| GENCCPM: memory (`genc2.c`, `genc1.c:389-470`, part of `genc3.c`) | the list of partitions the user edits; the descriptors written to the file, roots of the MFL and MDUL | add, delete, merge, count; write the lists; trim by the system and write again | the lists are written before the size of the system is known and once more over the first copy | no partition overlaps another or the system; the two lists have no descriptor in common and end | MemoryPartitions |
| GENCCPM: disk buffers (`genc4.c`) | buffers and maxima of each drive, own or shared; BCBs, headers, places known later | questions for a drive or all, layout, fixups | shared drives are resolved after all are laid out, in order; the room is that of the largest user | every drive finds its buffers, large enough, and none overlaps another | DiskBuffers |
| GENCCPM: the image (`genc1.c`, `genc3.c`) | offsets in a word, position in the file, RSP list, fixups noted, the files on the disk | gensys, tables, queue buffers, RSPs, fixups, renames | two accounts of one position; what is known only at the end; a full disk or a stop between three renames | pointers are to where things are in the file; a complete system is always there | SysImage |
| DREDIX: memory of lines (`emem.c`) | a doubly linked list with head, tail and a current line for each buffer, the heap | reset, append, get, delete, need | the line is looked for from the nearest of three places, all kept by hand | a line number means one line | TextStore, Lines |
| DREDIX: text and blocks (`ebuf.c`, `ecmdblk.c`, `ed.c`) | cursor, column, wanted column, marks, stack of deleted lines, modified | every key that moves, edits, marks, copies, moves, deletes, undoes | a copy into the text it comes from; marks and cursors of other buffers; the heap is full in the middle | the cursor is in the text, the marks follow their lines, what one key does another undoes | TextBuffer |
| DREDIX: search and translate (`epat.c`, `ecmdglb.c`) | the pattern (source and compiled), positions of the loop | search, again, translate with skip, replace, global, exit | the loop ends where it began, in a text that its own replacements move | it matches what the pattern means, goes over every match once, and ends | Search |
| DREDIX: files (`ecmdio.c`, `ed.c`) | name, text and modified flag of four buffers; the files on the disk | edit, read, file, buffer, write, quit | every step of a write may fail and some results are ignored; the machine stops | the last good text is on the disk; a text is lost only after the user said so | Files |
| HEXCOM (`hexcom.c`) | first and last address, the window | check the file, then write the image window by window | records across window edges, overlaps, gaps, padding, a wrong digit | the .COM file is the memory the records load, from the first one's address up, or is not made | HexCom |
| chset, function, other commands, boot loader, host tools | none that lasts | | | | not modelled |

Interaction is by calls within a process, by the shared lists of SYSDAT, by queues
(VINQ, VOUTQ, MXdisk, the queue of a resident process), by flags set in interrupt
routines, and by abort, which changes the lists and flags of another process.
Behaviours that matter everywhere are: a process switched out in the middle of a
call; a process that is not in a no abort region and is aborted there; a wakeup
between a test and a sleep; and termination of the owner of something.
The programs use the kernel through the BDOS's file calls only: GENCCPM writes the
system image that the boot loader reads, with the lists (MFL, MDUL, PUL, QUL, the
RSPs) that the kernel's modules start from.

`PROJECT.json` lists these as hazards, each at the line where it bites, with the
properties that cover it or the module planned for it.

## 2. The modules

| module | models | checked by |
|---|---|---|
| QueueSystem | queue calls, `q_spb`, no abort regions, abort and termination with MX queues | queue_pipe, queue_waiters, queue_mx |
| QueueService | abstract: FIFO channels and mutual exclusion queues | refined by QueueSystem |
| QueueSystemProofs | TypeCorrect, MutualExclusion, ListsKept, RegionsKept, QueuesKept, WaitersKept, OwnersKept, ServiceImplemented | TLAPS |
| ProcessLists | the linked lists of process descriptors, for QueueSystem, Dispatcher and Console | their runs |
| ProcessListsProofs | lemmas on these lists and on least numbers | TLAPS |
| Dispatcher | lists, dispatcher, flags, delays, abort on any list, interrupts | dispatcher, dispatcher_window |
| Countdowns | abstract: what a delay promises | refined by Dispatcher |
| DispatcherProofs | PlacesKept, DelaysKept | TLAPS |
| Mau | suballocation of a partition, with the descriptors of processes | mau |
| MauService | abstract: who has which paragraphs | refined by Mau |
| MauProofs | TableKept, ServiceImplemented, ExclusiveKept, FreedCollapses | TLAPS |
| Console | owners of consoles and printers, the output routine of a screen, ^C and ^P, abort | console |
| Devices | abstract: one owner, and a device given up goes to one that waits | refined by Console |
| ConsoleProofs | TypeCorrect, ListsSound, OutputKept, DevicesKept, OwnersKeep, DevicesImplemented | TLAPS |
| MemoryPartitions | GENCCPM's memory partitions, the MFL and the unused descriptors | genccpm |
| DiskBuffers | GENCCPM's disk buffers | genccpm |
| SysImage | the system image, its fixups and renames | genccpm |
| TextStore | DREDIX's linked lists of lines | dredix_store |
| Lines | abstract: buffers are sequences of lines | refined by TextStore |
| UtilityProofs | of SysImage: SystemKept, ImageKept, RspsKept, FittingKept; of TextStore: LinksKept, LinesImplemented | TLAPS |
| TextBuffer | DREDIX's keys that move, edit, mark and undo | dredix_keys |
| TextBufferProofs | CursorsInText, MarksOnTheirLines, KeysUndone | TLAPS |
| Search | DREDIX's patterns, search and translate | dredix_keys |
| Files | DREDIX's buffers and their files | file_commands |
| CommandProofs | of Files: VersionsKept, TextsReadBack, BothKept, LossesTold; of Search: MatcherIsExact, NextIsFound; of HexCom: ImageIsSound | TLAPS |
| HexCom | HEXCOM | file_commands, hexcom_lowest |
| MCQueueSystem, MCDispatcher, MCMau, MCConsole, MCGenccpm, MCTextStore, MCDredix, MCHexCom, MCFileCommands | instances for TLC | |

QueueService, Countdowns, MauService, Devices and Lines are abstract: they say what a
component promises and stand for no code.

Operators called `Bug...` are deliberate errors: each stands for a plausible bug
in the code the definition after it models.  No specification uses them; a
property is only kept if replacing a definition by such a `Bug...` makes TLC find
it violated.

### QueueSystem

State.  `sy_owner`, `sy_wait`, `sy_next` are the fields of `q_spb`
(`con/sync.def`); `qlr` the queues that exist; `q_msgcnt`, `q_msgout`, `q_data`,
`q_buf`, `q_dq`, `q_nq` the fields of a queue descriptor (`con/qd.def`);
`p_flag` and `p_tkcnt` those of a PD.  `p_tkcnt` is a byte whose top bit keeps the
TEMPKEEP there was before a no abort region: here a record of a count and a set.

Steps.  `pc` says where a process is among the points where the dispatcher can
take the CPU away; code between two of them runs with interrupts off, with indisp
set (`call no_disp`), or touches nothing shared.  The path of a call is

    user -> noabort -> sync [-> syncwait] -> body [-> dqwait | nqwait -> assigned]
         -> transfer -> assign1 -> assign2 -> unsync -> okabort [-> okabort2] -> user

with one action for each arrow; a wait gives up `q_spb` and goes to sleep in one
step because `q_wait` does both with the dispatcher off.  A process that wakes a
reader or writer up first makes it unabortable (`assign1`, `no_abort_spec_entry`)
and then assigns it `q_spb` (`assign2`); `PassOwnership` is `unsync_entry`, which
prefers the assigned process to the list.  `AbortSpec` is `abort_spec_entry` in
its two parts: the target taken off its list (`limbo`), then put on the DRL to
terminate.  Termination takes `q_spb`, gives up every MX queue the process owns by
a write like any other (`rlsmx`; `op.kind` is then `release`), and ends in
`TermAct`, `term_act` of the dispatcher, which unsyncs what the process still owns.

Scheduling.  Any process that is not asleep may take the next step: the model has
every interleaving that priorities allow and those they do not.  Priorities keep
the one role they have for correctness, the order of the waiting lists
(`InsertProcess`), with `AbtPrior` for a terminating process.

### Dispatcher

State.  Every list of PDs is a sequence: `rlr` (its head is the running process),
`drl`, `dlr` with the ticks `p_wait` of each process after the one before, and
`slist` for the polling list, the DQ/NQ lists, SYNC lists and console lists, which
the dispatcher treats alike.  `flg_pd` is the flag table, `flg_ignore` the count an
abort leaves for the interrupt of a device whose process is gone.  `cpu` says
whether the running process or a part of the dispatcher runs.

Steps.  A step is a piece of code that no interrupt can divide, or that touches
nothing an interrupt routine touches, so interrupts come between any two steps.
`ClockInt` and `FlagInt` are `flag_set_entry`, with `Fdisp`, the return path that
takes the running process out of context (`u_in_int`, `u_stat_sav`).  `Act` is the
part of the dispatcher that deals with the status of the process leaving
(`dsptch.rtm:170-400`), `Schedule` polls and sorts the DRL into the ready list,
`DrlToRlr`, `Switch` and `Exit` are the way back.  `SkipDispatch` is the shortcut
at the entry that returns at once when there is nothing to do.  Calls of a process
are `Delay`, `Sleep`, `Wakeup`, `Unsync`, `Create`, `StartIO` and `FlagWait` (a
driver that starts a device and waits for its flag), `Terminate`, and `Abort` with
its three parts: find the target by its status, snip it, put it on the DRL.

Abort's search.  The code that finds the target and takes it off runs with interrupts
on, so an interrupt may come between `AbortFind` and `AbortSnip`, and inside either: the
walk along the DLR may go over to the DRL with a process a tick has just moved
(`Astray`), and `abtdly` may have read the ticks of its target before a tick or after.
What was found (`snip`) is used as it was: `SnipIt` sets the link of the process or root
remembered, wherever the target is by then.  `StillThere` says whether it is where it
was found; if it is not, the history variable `misled` becomes true, and the model stops
there: what follows is a system with a broken list.  The first such state is finding 3.

Environment, external to the source: a device gives as many interrupts as it was
started (`pending`, bounded by `MaxPending`); one process at a time uses a device
flag, as the drivers ensure with MXdisk and the console's owner.

### Mau

The SAT is a function from 1..`Ents` to entries (`start`, `length`, `nall`, the
number of owners), used up to the first `start` 0.  `Split`, `Insert`, `Merge` and
`Collapse` are `mau_split`, `mau_insert` and the cases of `mau_collapse`, the last
one with the code's treatment of holes, entries that a full table had no room for.
Its loop is a recursive function of the number of rounds (`CollapseNext` is one); every
round goes on to the next entry or joins two, so it ends within 3 times `Ents`.
`Malloc`, `MfreeAll`, `MfreeEnd` and `Share` are the calls, each with the part of
`memory.mem` that uses one partition and the descriptors (`md`) on the `p_mem`
list.  A call is one step, because every call to MEM holds `mem_spb` throughout.

### Console

State.  `c_attach`, `c_queue`, `c_cosleep` and the bit `conout` of `c_flag` are
fields of a console or list control block (`con/vccb.def`); `c_mimic` stands for
`ccb.mimic` with the bit `csm_ctrlP` of the state; `saved` is the copy of `p_flag`
that `conoutf` has on its stack.

Steps.  A program calls attach (`CallAttach`, then `Attach`, which is `cioattach`
from its test to the sleep, and is taken again after a wakeup), conditional attach,
`Detach`, `ConAssign` and `AssignWake` (before and after the point where `conassign`
lets the dispatcher run), output, abort and terminate.  An output call attaches and
goes on through the flag region of `conoutf`, one action for every place where an
interrupt can come between:

    attach -> coget [-> cosleep -> coget] -> cogot -> xios -> cowake -> cotest
           -> corest | corestctlc -> user

`TermAct` is `term_act` with `cioterm`.  PIN reads the owner of its console
(`ControlC`) and aborts it in a step of its own (`PinAbort`), turns control P on and
off, and enters the output routine with `set$conout$flag` like a program, but
without a TEMPKEEP, because it cannot be aborted.

Abstracted: a screen is in the foreground and not stopped, `u_conccb` is set (a
child inherits it), what is written, the search of a PD by name, and the
instructions by which `conassign` relinks `c_queue` (one step).

### MemoryPartitions

State.  `memroot` is the partition list in the order of its links; an entry
`[first, last, size]` stands for all partitions of that size between its ends.  `md`
is the array of memory descriptors in the file, `mfl` and `mdul` the roots of the
lists in it.  `os` is where the system turns out to be; `asked` (not in the code) what
the list was when it was first written.

Steps.  `AddMem` is `addmem` with `intomlist` (the adjustment of what was typed, the
place in the list), `DelMem` `delmem`, `CheckList` the merging and counting of
`cntmlist`, `GenMds` the first writing of both lists (`genmfl` and the loop of
`gentables`), `FixMemory` the trimming by the system's bounds (`trimlist`, `trimit`,
`onbounds`) and, if it has changed anything, the second writing over the first.
Arithmetic is modulo `MemWord` where the code uses unsigned words.

### DiskBuffers

State.  `dir`, `dat` and `hashing` are the answers for each drive (`d_ndirbs`,
`d_pmdirbs`, ..., with 0FFFFH as "ask" and a drive with `SHRMSK` as "share"); `gen` is
what `genxios` has laid out, with the word that `fixlater` will add to each pointer.

Steps.  `AskAbout` and `AskStar` are the two forms of the question, `Leave` the end of
the menu if everything is answered, `GenXios` the layout in the code's order (checksum
vectors, allocation vectors, directory BCBs, data BCBs, directory buffers, hash tables,
then the shared drives), `FixBuffers` the additions of `fixfile`.

### SysImage

State.  `file` is the set of the things written, each with its position; `off` the
program's own offset twice, in a word and without a limit; `oldladdr` what `chkaddr`
compares with; `sd` and `hdr` what the system data page and the command header will
hold; `disk` what is under each of the three names (a complete system, a partial one,
nothing); `room` where the disk is full.

Steps.  `RspInclude`, `RspExclude` and `RspExcludeAll` edit the list of RSPs; `Gensys`,
`GenTables`, `GenQma`, one `XferRsp` for each RSP (three layouts, by the kind of its
file), `Reserve`, `FixImage`, `WriteVersion`, and the three steps of `wrapup`, each of
which can be the last (`Crash`).  Writes that the code checks stop the program when
the disk is full (`Stop`); those of the RSPs are not checked, and `WriteVersion` finds
out.

### TextStore and Lines

State.  `desc` maps the allocated descriptors to their links, text and room; `mbuf` is
`TMBUF`: head, tail and current descriptor with the line numbers of the last two.

Steps.  `Mreset`, `MappFirst` and `Mapp`, `Mget`, `Mdel`, and what `Mneed` leads to:
`Rewrite` where there is room, `Stretch` to a larger descriptor, `Refused`.  `Find`
goes from the nearest of head, tail and current line, as the code does.  Lines is the
same without links: a sequence for each buffer, the number of the current line, and
the text handed out.

### TextBuffer

State.  `ed` is the editor: the lines of each buffer (as Lines has them, which
TextStore shows), the cursor with its column and the wanted column, the marks
(`frombuf`, `line1`, `line2`, `ismarked`), the position of the first mark, which buffer
is modified, whether memory is full.  Three components are not in the code: `mark` of a
line (what the user has marked), `room`, and `exact`, which is FALSE once the code has
let a first mark go stale or a move has run out of memory.

Steps.  One action for each key; a key is built from functions from one `ed` to the
next that are named as in the code (`Blapp`, `Bldel`, `Bcins`, `DelFix`, ...).  The
buffer of deleted lines `BD` is a buffer like the others in the same heap.  `KCopy` and
`KMove` fetch each line anew, where the marks then are; a line that is not there is a
null pointer and gives an arbitrary text (`junk`).

### Search

State.  `text` with, for each character, the place it had when the command began (0 for
what was put in since); the source of the pattern, the whole array of the compiled one
(a pattern that is refused leaves what was behind it) and whether it is simple; `tran`,
the local variables of the loop of `trancmd`.

Steps.  `Ask`, `BadPattern`, `GiveUp` are the dialogue of `pattern`; `SearchCmd` and
`MoreCmd` a search and a repeated one; `TranCmd`, `NoMatch`, `AtMatch`, `Exit`, `Skip`
and `Replace` the loop of translate, with the user's answers.  `MakePat`, `OMatch` and
`AMatch` are the code's compiler and matcher: `Made` and `MatchFrom` give what the one makes of
the source, and the other finds, from each place on.

### Files

State.  The files of the disk, which of them may be read only, the buffers with name,
text and modified flag, and `w`, the write under way.  `good` (the last complete version
of each file), `hurt` and `told` are for the properties.

Steps.  The commands, and a write in its steps `WUnlink` (of the .BAK), `WRename`,
`WCreate`, `WLine`, `WEnd`, `WClose`, each of which can fail where the code's call can.
`Crash` loses the buffers at any point and `Start` is the program started anew.

### HexCom

State.  `recs` is what is meant by the file, `src` the characters in it, `wrong` the
place of a digit that is not as meant; `com` the .COM file so far.

Steps.  `Open`, `CheckPass` (the first pass of `scan_hex`), a `WindowPass` for each
window (open, scan, write), `Close`.  `Taken` says for each place of the file which
records a pass from there on loads, with -1 at the end of them if an error stops it;
`Scan` folds what they load.  `Radix` is 16 in the code; with radix 2 a byte has
four values and there are sixteen addresses, so that every record can be anywhere.
`Unsigned` is the range of C's unsigned: 64K with the compiler of the Makefile, for which
the instance has it the size of the address space; `LoadRecord` wraps around at it.
`nopad` is the environment's HEXCOM_NO_PAD (`hexcom.c:402-409`), which builds for other
systems read; it is not fixed which systems have which `Unsigned`.

## 3. What the runs check

Bounds are constants of the instances; no definition is replaced.

**queue_pipe** (0.9 million states).  Applications of different priority, one of
them a "sys" process with a TEMPKEEP of its own, and `pin`, which aborts them and
cannot be aborted; a queue of two messages and two payloads.  Make, delete, read,
write and conditional reads.  `Implements`: the circular buffers, the hand-over and
the aborts are invisible, the queue is a FIFO channel.  `NoAbortRegion`: a process
is unabortable exactly in the queue code, also when another process put it there,
and gets back the TEMPKEEP it had.  Two messages make the indices wrap apart from
each other and two payloads tell any two messages apart, up to their symmetry.

**queue_waiters** (0.4 million).  Three applications of one priority on a queue of
one message: two asleep on one list, or one on each, while a third passes the queue
system on and any of them is aborted.  `QueueMutex`; `WaitersSound`, which is
`ListsMatch` (a PD is on the list its status names, once), `NoStranded` (no message
left with readers asleep, no room with writers asleep) and `CountsInRange` (what was
tested before a sleep holds after it); `QueueStays` (no delete under a user).  Three
is the number at which ownership can be passed to the wrong one of two.

**queue_mx** (57,000, liveness).  Two applications and a "sys, keep" process share an
MX queue.  `OwnersSound`: the message is in the queue or with one owner, which is not
gone (`MxConserved`), and the owner of `q_spb` is neither asleep nor gone
(`OwnerRuns`).  Under fairness `SyncServed` and `AbortServed` (an abort that found its
process ends in termination, and termination gives up the MX queues).

**dispatcher** (0.30 million, liveness).  Idle, `a` (priority 100: aborts `b` and
creates it again, sleeps, takes a better priority or a worse one), `b` (200: delays 2 ticks, uses
the device, polls, terminates), `c` (200: delays 0 ticks, wakes `a` up, and makes
it ready through the unsync path), with the clock and the device interrupting
between any two steps, those of abort's search among them.  `PlacesSound` is `TypeOK`, `OnePlace`
(a PD is on one list, the one its status names), `RlrSorted` (nobody ready is of a
better priority than the one that runs, unless that one may have worsened its own,
`MayWorsen`; see finding 2), `StatKept` and `FlagsMatch`; `DelaysExact` (the relative ticks of the list are a countdown for each
process), `DelayEnds`, `MadeReady`; each up to the point where an interrupt has misled an abort
(`misled`), which the next run is about.  `MaxWait` = 2 stands for 0ffffh: it is both an
ordinary delay and the one that would wrap around.  Two equal priorities and a
better one are what the shortcut and the sorted insert tell apart; `MaxPending` = 2
lets an abort leave an interrupt behind and the device be started again.

**dispatcher_window** (expects a violation).  The same instance and `TakenOff`: a process
that abort has taken off is on no list until it is put on the DRL, as the comments of
`abort.rtm:195` and `:198` have it.  TLC finds a tick between find and cut after which it
still is on the DRL (finding 3).

**mau** (2,000 states up to symmetry).  Two processes, four descriptors, a partition
of five paragraphs, every relative size and every absolute address; the table has 8
entries and cannot fill up (31 entries in the code).  `TableSound`: `TypeOK`, and the
entries tile the partition and count their owners (`TableMatches`).  `Implements`:
nobody is given a paragraph another holds.  `FreeCollapses`: after a free, every
request for which there are enough free paragraphs in a row succeeds.  Five paragraphs
with four descriptors have every pattern of free and allocated neighbours, shared or
not, that split and collapse distinguish.

**console** (216,000 states).  PIN, the TMP (sys, keep; assigns its console and aborts
by name) and two programs of one priority, on one screen with one printer.
`DevicesSound` is `TypeOK`, `ListsMatch`, `OwnerAwake` (no owner is gone or left
asleep), `NoStranded` and `MimicMatches`; `OutputSound` is `OutputServed` and
`OutputReleased` (the conout flag is not left on, and nobody is left asleep for it,
whoever is aborted where).  `OwnerKeeps` (nobody takes a device from a process in the
middle of something), `Implements` (hand-over goes to one that waits).  Three processes
besides PIN put two on a list behind an owner, so that a hand-over has a choice and an
abort can take the first or the second; the two programs are symmetric.  Deadlock is
checked.

**genccpm** (147,000).  The three parts of GENCCPM share no state while one of them
is asked or laid out (what the others compute reaches SysImage as its parameters), so
each is explored with the others as the program finds them.
- `MemoryListsSound`: `FreeMemorySound` (what the kernel finds on the MFL lies in the
  memory asked for, outside the system, and does not overlap) and `ListsApart` (MFL and
  MDUL have no descriptor in common and end).  A memory of 24 paragraphs with the system
  anywhere in it, two entries typed and any deleted or merged: partitions that are
  equal, adjacent in both ways the code knows, overlapping, cut by the system at either
  end or on both sides, and not divided evenly.
- `BuffersSound`: `BuffersServe` (every drive finds as many buffers as were asked for,
  each large enough for it) and `NoOverlap`.  Three drives with different blocks, asked
  in any order, sharing with each other in every way; one with no hashing asked, one
  with data buffers of its own.
- `RspsFound` and `ImageSound` (`TablesFound`, `ImageCovers`): every root, link and
  segment is that of the thing in the file when the image is loaded; no group or table
  is missing from the header.  Five RSPs, at least one of each layout, up to three on the
  list, included twice and excluded again; tables that are small, nearly fill the
  segment, and overflow it before and after a check.
- `SystemSurvives`: whatever happens and whenever the disk is full, a complete system
  is on the disk, and only a complete one is given its name.  Rooms of 3,000, 70,000 and
  1,000,000 bytes stop the writing in the tables, in an RSP, or not at all.

**dredix_store** (6,500, up to the symmetry of descriptors).  Two buffers, four
descriptors, strings of no or one character, so that a line grows in place, is moved
or is refused.  `LinksSound`, and `Implements`: the lists are sequences of lines
whichever way `find` went.  Four descriptors give a buffer a head, a middle, a tail and
one to move.

**dredix_keys** (473,000, liveness).  What DREDIX does to the text in memory, in two
parts that are explored one by one, each while the other has not begun (the keys and the
search share no state in the model but the definition of a text).
- The keys (439,000 states).  Two texts and the deleted lines in a heap of seven lines,
  one line of undo beside the current, keys that count together at most 7 (a block or
  line key counts 1, others 2 or 3).  `CursorInText` for every buffer, also one that was
  changed from another; `MarksFollow`; `KeysReverse` (delete and undo, a character and
  backspace, left and right, up and down); `MoveKeepsText`.  The heap fills in the
  middle of a copy; tabs reach `MaxTab`; lines reach `MaxPos`.
- The search (34,000 states).  All patterns of one character and some of two
  and three (stars, question marks, escapes, a refused one), three replacements (nothing,
  a character, the match and a character), two texts, two searches or one translate.
  `MatcherExact`: the compiled pattern matches exactly what its source means.
  `SearchFinds`: a search finds the next match after the cursor, around the text, or there
  is none.  `TranslatedOnce`: every match was replaced or skipped.  `TranEnds`: the loop
  ends.  Lines of five characters fill up; `MaxInt` = 6 is reached only by a full line.

**file_commands** (3.9 million).  What two programs do to files, explored in the same way.
- DREDIX (3.8 million states).  Two buffers, files FA and FB with one .BAK file FBAK,
  which can be read only, and may itself be edited; four commands; any step of a write
  fails, the machine stops anywhere and the program is started again.  `KeptOnDisk`,
  `ReadsBack`, `WriteKeepsBoth`; `LostOnlyIfTold`, for one changed buffer or two: while the
  program goes on no change is given up but one the user was asked about and agreed to
  lose, and it ends with changed texts only if he agreed to lose one of them.  Lines of
  up to three characters meet the limit of `fgets`, a heap of five lines cuts a text that
  is read.
- HEXCOM (58,000 states).  Files of up to three records out of sets that overlap, leave
  gaps, cross windows (4 bytes) and the end of memory (16), with end records in the
  middle, other types, and any one digit wrong.  `ImageSound`: `ImageExact` (what is
  written so far is the memory the records load, from the first one's address up),
  `NoneMissing` (with no record below the first, every byte of every record is in the
  file), both if `InRange` (see finding 23), and `WrongDigitFound`.

**hexcom_lowest** (expects a violation).  The same HEX files and `FromLowest`: no record
lies below the address where the image begins, as `hexcom.c:20-21` and `:49` have it.
TLC finds a file whose second record does (finding 21).

Deadlock is not checked in the queue and dispatcher runs because their systems may
stop: every application can be asleep or dead, and a device need not be started.

### Fairness

QueueSystem: `WF(Kernel(p))` for every process: a process in the kernel that is not
asleep goes on.  The dispatcher is round robin within a priority, and processes of
better priority run briefly; a process that never leaves the CPU in user mode is of
an application, which is not assumed to make calls, nor to return.  Liveness
properties have the premise `AbortsEnd`: a process that is aborted while it
terminates starts termination over, so aborts without end put it off without end.

Dispatcher: `WF` of the dispatcher and of abort's parts with the dispatcher off (the
CPU does not stop in the middle), and `SF(ClockInt)`: the clock interrupt is enabled
again and again, and the interrupt controller keeps it until interrupts are on.  Both are
asked for only until `misled`, where the model stops; the liveness properties say
"or misled".
Nothing is assumed of devices or of user code, which may loop for ever.

Search: `WF` of the steps of translate's loop together: a sequential loop goes on, and
the user answers what he is asked (skip or replace are enabled with exit; without an
answer the program waits for ever, which is no fault of the loop).

### Assumptions a reader should know

- An MX queue is written only by the process that has read it.  The code does not
  enforce it (`q_buf` is simply overwritten).
- One process at a time uses the flag of a device.
- Dispatcher ends where an interrupt has misled an abort (`misled`): the properties and
  theorems speak of every state up to there, with interrupts at any point; see finding 3.
- In Mau the table has room; see finding 4.  The run has more entries than paragraphs;
  the theorems of MauProofs say how much room is needed: two entries that are not used
  when a call begins (`Roomy`).
- In Console a process that assigns its console is not aborted in the middle of
  `conassign`.  If it were, the new owner would stay asleep on `c_queue`
  (`console.cio:243`).  `AssignersAssumption`: the kernel assigns a console only in
  `cli_entry`, which has set TEMPKEEP (`command.sup:60`), and the TMP is a KEEP process
  (`tmp.a86:540`).
- `NoStranded` of Console is about consoles.  That of printers is finding 7.
- `FreeMemorySound` and `ListsApart` are about a list that still ends in a partition
  (`EndsInPartition`; see finding 8), and `MinMem` is at least 3 (`MINKMEM` is 80).
- `BuffersSound` is about drives none of which shares with one that shares
  (`NoChain`); see finding 10.
- `chkaddr` misses some overflows: with the parameters of finding 11 `OverflowCaught`
  fails, and `TablesFound` with it.  The instance of genccpm has parameters whose tables
  fit and two sets whose overflow is caught; that nothing else than a missed overflow can
  break `ImageSound` or `RspsFound` is ImageKept and RspsKept.
- `MemInit` and `ImageInit` are the states before `init_sysdat` reads a memory
  partition from the old system and the directory for RSPs: both arrive by the same
  actions as the user's.
- `MarksFollow` and `MoveKeepsText` hold while `exact` does; see findings 12 and 14.
- `KeptOnDisk` leaves out what happens after a write has failed, with a .BAK file that
  is read only, and when a .BAK file is edited; `LostOnlyIfTold` asks for no more than one
  answer when the program ends; see findings 18 to 20.
- `ImageSound` is about files in which no record ends past what an unsigned can tell
  (`InRange`; see finding 23), and about the memory from the first record up (finding 21).

## 4. Findings

Places where the code does not do what it says or seems meant to.  Two runs show one
each, by a violation they expect: dispatcher_window finding 3 and hexcom_lowest finding
21.  Each of the other entries says what to change in an instance, or which definition to
check, for TLC to show it.

Kernel.

1. **An abort can be lost half way.**  `abort_spec_entry` takes its target off its
   list, then lets the dispatcher run (`abort.rtm:198`) before it puts it on the DRL
   (`abort.rtm:226`).  If the aborter is aborted in between, the target is on no list for
   ever and keeps what it owns: `AbortCompletes` fails with `Aborters = {p1, pin}` in
   MCQueueMx.
2. **A worse priority does not take effect.**  The shortcut of the dispatcher looks
   only for an equal priority behind the running process (`dsptch.rtm:132-136`).
   After `set_prior` to a worse one the process runs on ahead of better ones until
   it next leaves the processor.  `RlrSorted` excepts this: without its second disjunct it
   fails on the instance, where `CallsA` has `<<"setprior", 210>>`.  For every other
   process the order is proved.
3. **Abort's search is open to interrupts.**  The `pushf ! cli` of `abort.rtm:175` and the
   `popf` of `:197` are commented out; the routines between say that interrupts are off
   (`:241`, `:406`).  A tick between find and cut moves the target from the DLR to the DRL:
   the cut links the DLR to what follows it there, and the target stays on the DRL and is
   put there again.  TLC shows it in the run dispatcher_window (`TakenOff`).  Up to such a
   cut the places of processes are proved right, with interrupts anywhere: the
   dispatcher's lists rest on those comments and nothing else of the kind.
4. **A hole in a full SAT is taken for the wrong size.**  `mau.mem:254-255` subtracts the
   distance between the starts of two entries where the size of the hole is meant;
   allocated paragraphs become free.  `TableMatches` and `Implements` fail with a table
   of 3 entries.
5. **Termination opens the output routine of a screen.**  `cioterm` clears the conout
   flag of the default console of the process that terminates (`console.cio:421`),
   whoever has set it: a second process enters the XIOS for that screen (`OneInXios`).
6. **An abort during output can be lost.**  `conoutf` tests CTLC and then restores the
   flags it had saved (`chario.cio:1061-1062`); an abort between the two instructions is
   overwritten (`CtlCHonoured`).
7. **A free printer with processes asleep for it.**  Turning control P off wakes one
   process and makes it the owner of nothing (`pin.p86:487-491`); if it is aborted
   before it runs, the next stays asleep until somebody else attaches and detaches the
   printer (`NoStrandedPrinter`).

GENCCPM.

8. **The free list goes on into the unused descriptors.**  `genmfl` ends the list at the
   last partition of the last entry (`genc3.c:263-264`).  If the last entry is trimmed
   away to nothing and others are left, or all are, nothing ends it: `FreeListEnds` fails
   on the instance.
9. **Adjacent partitions gain a paragraph.**  `cntmlist` merges entries with
   `last = first - 1` as it does those with `last = first`; each such merge adds the
   paragraph between them, which nobody asked for.
10. **A chain of shared buffers is not resolved.**  Drives are resolved in order, each
    from what its partner has by then (`genc4.c:729-739`), and the menu is left with such
    an answer (`genc4.c:207-208`): a drive keeps 0FFFFH.  `AllResolved` fails.
11. **An overflow of the system data segment goes unnoticed.**  `chkaddr` (`genc3.c:56`)
    compares with the last offset it has seen; growth of more than a word between two
    checks, and the padding behind the queue buffers (`genc3.c:212-213`), are not caught.
    `OverflowCaught` fails with `Par(6656, 160, 0, 80, FALSE)` or
    `Par(6000, 3785, 700, 80, FALSE)` among the parameters.

DREDIX.

12. **A move that runs out of memory loses lines.**  `movelines` deletes the block although
    `copylines` stopped on a full memory (`ecmdblk.c:119`, `:153-168`).
13. **Return on a full memory loses the rest of the line.**  `Bcins` cuts the line before
    it knows that there is room for what is behind the cut (`ebuf.c:724-728`).
14. **A first mark alone does not follow its line.**  `delfix` and `appfix` do nothing until
    both marks are set (`ecmdblk.c:252`, `:273`); a line may then not exist, and `Blget`
    gives a null pointer to copy from.
15. **Undo on a full memory drops the line.**  `Bdelpop` takes it off the stack whether it
    was put back or not (`ebuf.c:592-594`).
16. **A join can write one character behind its room** (`ebuf.c:782-790`): the space between
    the lines is not asked for.  `WithinRoom` fails.
17. **Search.**  `casesensitive` is never FALSE and `hasnewline` never TRUE
    (`ecmdglb.c:66-72`).  A refused pattern is not ended and searched for by "again"
    (`epat.c:228-229`).  Translate counts replaced characters that did not fit
    (`ecmdglb.c:246-257`), so a full line is gone over until `MAXINT`; a replacement that
    straddles the place it started from is replaced again.
18. **A second try after a failed write removes the only good copy.**  The .BAK file is
    removed and the partial file takes its name (`ecmdio.c:245-246`); the results of both
    calls are ignored.  Two files that differ only in their type have one .BAK file, and
    editing a .BAK file removes it.  `KeptOnDisk` fails without `~ hurt`, or without the
    condition on `Backups`.
19. **Leaving asks only until the first "yes".**  The loop over the buffers stops at the
    first modified one the user agrees to lose (`ed.c:289-297`): the others are lost
    unasked.  `LostOnlyIfTold` therefore asks for one answer when the program ends; with
    `Lost \subseteq told'` at the end as well, it fails.
20. **Reading.**  `readfile` drops the last character of a last line without an end, and
    splits and shortens longer lines (`ecmdio.c:126`); a text that was cut for lack of
    memory counts as unmodified (`ecmdio.c:175`); `bufcmd` compares a lower case reply
    with names in upper case (`ecmdio.c:69-72`).

HEXCOM.

21. **The image starts at the first record, not at the lowest address** (`hexcom.c:20-21`
    and `:49` say the lowest, `:333-337` do the first): `FromLowest` fails, in the run
    hexcom_lowest.  A record below it is dropped without a message.
22. A file without data records becomes an image of one byte or one record
    (`hexcom.c:474-480`); a wrong digit in the type of a record, or a wrong colon, drops
    the record unnoticed (`:321-322`); an image whose padding passes 64K is refused.
23. **A record past 0FFFFh is not always refused.**  Where unsigned has 16 bits, as with
    the compiler of the Makefile, `addr + ll - 1` wraps around (`hexcom.c:375-376`): the
    last address stays too low, "IMAGE TOO LARGE" is not said, the bytes at the top are
    not written and those past it land at address 0 and up (`:367`).  `ImageExact` and
    `NoneMissing` are about files for which it cannot happen, `InRange`; they hold for every file
    with a wider `Unsigned`.

Seen while modelling:

- `mau.mem:249` passes BX where `mau_insert` wants DI: the entry for a hole between
  two allocated entries goes before the wrong one.
- `mau.mem:99`: an absolute request that is refused has already split the table, so
  a later relative request may be refused though there is room.
- `rlsmx` writes MX queues through `f_qwrite`, whose unsync gives up the `q_spb`
  that terminate had taken; the rest of its scan runs without it.  The model has
  this; the checked properties survive it.
- `sysent.rtm:86-92`: the code that looked at the DRL with interrupts off is
  commented out, while `dsptch.rtm:482-488` still has it.
- `que1.rtm` deleteq reads `q_flags` through the caller's pointer before it is
  verified and before `q_sync`.
- `tick.sup` waits on a flag that nothing sets any more.

## 5. What is proved

With `tlapm`, for every number of processes, queues, messages and paragraphs, for
every set of modules, RSPs, parameters and sizes of the disk, and for all lines, texts,
buffers, files and patterns of the editor, and all HEX files:

- **TypeCorrect** (`QueueSystemProofs`): `Spec => []TypeOK`.  `TypeOK` is inductive
  as it stands.  Not obvious in it: the read index stays below the queue's size and
  every cell written is a cell of the buffer (`Transfer`, with the two ways the
  indices wrap), an owner is a process or none (`NewOwner` takes the head of a list
  that may be empty), and lists stay lists of processes (`InsertProcess`, `Snip`,
  stated as lemmas).  The proof has one step for each action.
- **MutualExclusion** (`QueueSystemProofs`): `Spec => []QueueMutex`.  Inductive
  relative to `TypeOK`.  The argument is by how a step moves `q_spb`: a step that
  leaves the owner alone (`MutexLocal`), one that passes ownership on
  (`MutexPass`, `MutexUnsync`: nobody else was in the queue code, since the owner
  was, and only the new owner wakes up into it) and one that takes it
  (`MutexSync`).  An abort moves another process, but only out of the queue code or
  around it, and leaves the owner alone; ownership outlives it until `TermAct`.
- **ListsKept**, **RegionsKept**, **QueuesKept** (`QueueSystemProofs`): `ListsMatch`,
  `NoAbortRegion` and `QueueStays` always hold.  They hold together or not at all: an
  abort finds its process on the list its status names, a process is chosen to be
  woken up from the head of a list, and its no abort region begins there.  `ListInv`
  adds what makes them inductive: lists without duplicates (`Distinct`; the lemmas on
  `InsertProcess`, `Snip` and `Tail` say who is on the result), an owner with an
  assigned process is about to give `q_spb` up (`NextMatch`), a process in limbo has
  one aborter (`TargetMatch`), and the TEMPKEEP saved in `p_tkcnt` is the one of before
  the region.  `RegionMatch` is where the order in `q_assign_sync` matters: first
  unabortable, then off the list.
- **WaitersKept** (`QueueSystemProofs`): `WaitersSound`.  `NoStranded` is not inductive:
  one process is woken up for each message, so with two messages and two readers asleep
  one step would strand the second.  `Served` is what the code keeps: with readers
  asleep there is at most one message, and the one process it is for is being woken up
  or on its way (the same for writers and free buffers).  `ReadyKept` carries what a
  process tested before it slept over to its use after it wakes up, which rests on
  QueueMutex: between the hand-over and the transfer nobody else is in the queue code.
- **OwnersKept** (`QueueSystemProofs`): `OwnersSound`, by `OwnerRuns`, inductive on top
  of the above, and `MxKept`: an MX queue is never deleted, has its message just when
  it has no owner, and no process past `rlsmx` owns one.
- **ServiceImplemented** (`QueueSystemProofs`): `Spec => Implements`, the refinement of
  QueueService.  The circular buffer seen from its read index is a sequence
  (`Window`): writing at the wrapped index appends to it, moving the index on drops
  its head.  `CallInv` says which call a process is in and that only its owner is on
  its way to write an MX queue, so a release releases what it owns.
- **PlacesKept** (`DispatcherProofs`): `Spec => []PlacesSound`, for any processes,
  priorities, lists, flags and calls, with interrupts between any two steps.  The invariant
  is `misled \/ AllInv` (`InvariantKept`): no step but the cut of abort can break it, and that
  one only if its target is not where it was found.  `OnePlace` counts a process on
  all lists at once; the proof works with `PlacesInv`, which says of each process that it
  is on a list unless it is dead or in the hands of an abort, and on which lists it then
  is not.  That is not inductive alone: what the dispatcher does depends on `p_stat`, which
  is set long before it is used.  `StatInv` (what it is at each label, and that an
  interrupted process gets its own back from `u_stat_sav`) and `ParamInv` (`u_dparam` is
  what `p_stat` needs) carry it across interrupts.  An abort finds its target in one step
  and cuts the list in another: `StillThere` says that what it found is still so,
  and a cut without it sets `misled` (`NotMisled`); `TargetInv` says that no two aborts
  hold one process.  `FlagsMatch` needs `FlagInv`, that a device is used by the process at
  its flag and no other, also after that one has been aborted, and the type bound on
  `flg_ignore` needs `OnInv`, that a flag which is on has no interrupts to ignore; the two
  show that a flag is never set over one that is on.  Each action has a lemma for each
  part it can disturb; `Stays` says what an action leaves alone.  `RlrSorted` rests on
  where `insert_process` stops (`InsertStops`) and on what the shortcut of the dispatcher
  has tested.
- **DelaysKept** (`DispatcherProofs`): `Spec => DelaysExact`, the refinement of Countdowns,
  for every step that leaves `misled` false.  The ticks of the list are relative to one another, and
  what is left of a process is a sum along it (`SumTo`, `Left`).  Lemmas relate the sums
  before and after an insertion, a cut whose ticks go to the next process (`TicksCut`,
  `LeftCut`), and a tick at the head.  `DelayInv`, that every process on the list has 1 to
  `MaxWait` ticks left and that no `p_wait` is larger, is inductive with the invariant of
  PlacesKept, and says that no word wraps around, also for the longest delay, which alone
  is given no tick more than asked for (`TicksOf`).
- **TypeCorrect**, **ListsSound** (`ConsoleProofs`): the type invariant and `ListsMatch`
  of Console, as parts of `ListsInv`: a process that assigns or aborts has a target
  (`TargetKept`), one that attaches wants a device of its own (`WantKept`), and lists
  have no duplicates.
- **OutputKept** (`ConsoleProofs`): `OutputSound`, inductive relative to `ListsInv`: a
  process `Serving` or `Occupying` a screen goes on to hand it over, and if it is aborted
  on the way it terminates, which does the same.
- **DevicesKept**, **OwnersKeep** (`ConsoleProofs`): `DevicesSound` and `OwnerKeeps`.
  `OwnersInv` adds to `NoStranded` that an owner still asleep is about to be woken up by
  the process that assigned it the device (`AssignPending`, which needs
  `AssignersAssumption`) and that only PIN's console has a printer echo (`MimicKept`),
  from which the sets that `MimicMatches` counts have one member or none.
- **DevicesImplemented** (`ConsoleProofs`): `Spec => Implements`, the refinement of
  Devices, from the same lemmas: every step is one of Devices or changes neither an owner
  nor who waits.
- **TableKept** (`MauProofs`): `Spec /\ []Roomy => []TableSound`.  `Roomy` is what finding 4
  makes necessary: a call that finds the table full leaves paragraphs in no entry, and
  the next collapse takes them for the wrong size.  A call makes two entries at most, an
  absolute request one to start where it must and one for the rest.  The invariant is
  about the segments that are allocated (`Allocated`), a set without the order of the
  table: `Areas` says that the entries follow each other through the partition, hence
  that they do not overlap however far apart (`AreasOrdered`), and `Matches` that each
  segment counts the descriptors that stand for it.  Splitting a free entry, joining two
  and a round of the collapse leave the segments as they are (`SplitAreas`, `MergeAreas`,
  `CollapseKeeps`), the whole loop by induction on its rounds (`CollapseLoop`); allocating
  adds one, freeing takes one away, shares only count (`MatchesAllocated`,
  `MatchesReleased`, `MatchesShared`, `MatchesShrunk`).  That an entry is found again by
  its start (`HeldEntry`) is where it matters that no two segments start alike.
- **ServiceImplemented**, **ExclusiveKept** (`MauProofs`): `Spec /\ []Roomy => Implements`,
  the refinement of MauService, from the same invariant: a new segment comes out of a free
  entry, which has no paragraph in common with one that is allocated (`MatchesApart`,
  `RunsApart`).  `Exclusive`, that two
  descriptors of Mau stand for one segment or share no paragraph, follows by the refinement from a
  lemma about MauService alone (`SegmentsExclusive`).
- **FreedCollapses** (`MauProofs`): `Spec /\ []Roomy => FreeCollapses`, a property of the
  table when the loop of mau_collapse ends.  The invariant of its rounds (`Reached` in
  `CollapseKeeps`) says that no two free entries follow each other among those it has been
  through (`Coalesced`) and that the entries left to go through and the rounds made are no
  more than the table has entries: each round joins two or goes on to the next.  Then
  free paragraphs that follow each other are in one entry (`FreeTogether`), since what lies
  between two would belong to a descriptor.
- **SystemKept** (`UtilityProofs`): `ImageSpec => SystemSurvives`.  The inductive
  invariant `DiskInv` says stage by stage what the names on the disk may stand for:
  the new file is complete from the version string on, and the old system is touched
  only then.  Steps that leave the directory alone are one lemma (`KeptStep`); each of
  the five that write to it has a step of its own.  The last conjunct of the property,
  that the file fitted on the disk, is what the check of the version string buys: the
  writes of the RSPs before it are not checked.

- **ImageKept** (`UtilityProofs`): `ImageSpec => [](OverflowCaught => ImageSound)`.
  `ImageInv` says stage by stage what has been written: the modules are at `PosOf`, the
  fixes are theirs and the XIOS's (`ModulesInv`); the offset, counted without wrapping
  around, is where the file is (`OffsetInv`); each table is in the file at the place
  `TableAt` that follows from the parameters alone (`TablesInv`), which follow one another
  (`TablesFollow`, `TablesInOrder`); the pages hold those places modulo 2^16
  (`SysdatInv`); and the segment of the next RSP and the end of the file go on by the
  same amount (`RspsInv`), by which the two accounts of GENCCPM are one.  It holds with
  overflows and all.  What the condition buys is `NothingWraps`: if 16 times the length
  in the header is the whole length, no offset before it has wrapped around, so the words
  are the places.
- **RspsKept** (`UtilityProofs`): `ImageSpec => [](OverflowCaught => RspsFound)`.
  `HeadersInv` adds that the headers in the file, listed by their segments, are each
  linked to the one before (`Chained`); that there is one for each copy of the RSPs that
  are no longer waiting (`Numbered`, `Wanted`); and that header and code are in the file
  where their segments will be, up to one shift (`Placed`).  xfer_rsp adds a run of
  headers to the list (`ChainGrows`), and code where the header says for each of the three
  kinds of groups (`CodeIsAt`).  Following the links of such a list meets each header
  once and ends in 0 (`ChainFollowed`), by induction on the steps.
- **FittingKept** (`UtilityProofs`): `ImageSpec => [](TablesFit => ImageSound /\ RspsFound)`.
  `TablesFit` speaks of the parameters alone: the tables they ask for end within 2^16
  bytes.  Then the length is kept as it is, so the condition of the two theorems holds
  (`FitIsCaught`).

- **LinksKept** (`UtilityProofs`): `Spec => []LinksSound`.  The property follows the
  links; the invariant `Chained` says instead that there is a sequence of descriptors for
  each buffer, that the links, head, tail and current descriptor are those of the
  sequence, and that the sequences share out the descriptors in use.  Each request has a
  lemma that says which sequence it makes of the one before; that following the links
  meets the sequence, and that the search from the nearest of the three ends where it
  should, is by induction on the steps.
- **LinesImplemented** (`UtilityProofs`): `Spec => Implements`, the refinement of Lines:
  the text of a buffer is the texts of its sequence in order (`Lines` of the links, which
  `LinksKept` makes the same), and a request that is refused for want of memory leaves it
  alone, after the room of its line may have been made larger.
- **CursorsInText** (`TextBufferProofs`): `Spec => []CursorInText`.  The invariant between
  two keys is `AtRest`: every buffer has a line (`Shaped`), two marks are in order and
  without two no line is marked (`Ordered`), the numbers of the marks are those of the
  marked lines (`Followed`), every cursor is `OnText`, and no line is a copy still on its
  way (`NoNew`).  A command breaks off and restores parts of it: Blapp, Bldel and the
  commands that split and join lines leave the cursor of the current buffer behind while
  they work (`Loose`), and it is `Seek` and `Move` that put it back.  Each command at the cursor
  `Keeps` the rest and each move `Travels`; the column is computed from the characters
  before the cursor, which inserting and deleting at the cursor only changes behind it
  (`TabColIs`).  A buffer that loses lines while another is current is where the property
  could fail: the block that is moved out of it may hold its cursor.
- **MarksOnTheirLines** (`TextBufferProofs`): `Spec => []MarksFollow`, from the same
  invariant.  A line put after line n shifts the marks behind it and belongs to the block
  if n is between them (`Added`, `LinesUp`); a line taken away shifts them back, ends the
  block with its last line and loses the mark with its first (`Dropped`).  Moving is the
  hard case: k lines have been copied, in front of the block, behind it or in another
  buffer, and its numbers are those of before shifted by k or not at all (`Copied`,
  `Shift`); then the old lines go one by one, and the copies stay together while their
  numbers fall (`Dropping`, `Lo`); at the end they are exactly the lines from the cursor
  on, which become the block.  Both loops are by induction on their rounds.
- **KeysUndone** (`TextBufferProofs`): `Spec => []KeysReverse`, from `AtRest` alone.  Columns
  grow with positions (`ColsGrow`), so that going down and up finds the position again from
  its column (`TabPosOfCol`), also when the line between is shorter, for the editor keeps
  the column it was asked for.  What undo takes is the line put last into the stack
  (`OnTop`), and there is room to put it back, since the heap counts a place for each line
  (`UsedShifted`).  A character that was typed is the one in front of the cursor (`Typed`);
  taking it out leaves the texts as they were, and the cursor where it was (`Restored`,
  `SamePlace`).
- **TextsReadBack** (`CommandProofs`): `Spec => []ReadsBack`.  What `fgets` returns depends on
  where the first of its three reasons to stop is (`GotToIs`), and what is written
  is the lines with an end after each, but for one, flattened (`FlattenNext`); that the
  first gives back the second line by line is by induction on the lines
  (`TextGotAgain`).  `BufInv` supplies that texts are lines without ends in them, never
  without a line, and together within the heap, which is why nothing is cut off in
  reading (`Fresh`): the lines in all buffers are a sum that each command changes by what
  it adds to one of them (`BufChanged`).
- **VersionsKept**, **BothKept** (`CommandProofs`): `KeptOnDisk` and `WriteKeepsBoth`.
  `MovedTo` says where a version is at each step of a write: under its name until the
  rename, in the .BAK file afterwards; `GoodInv` says it of the last complete version,
  `BackInv` of the one the write found.  `PhaseInv` says that up to an error the file
  holds exactly the lines written so far (`LinedTo`), hence the whole text when the write
  closes without one.  A lemma for each command and step shows that it keeps the four
  parts of `IInv`.
- **LossesTold** (`CommandProofs`): `LostOnlyIfTold`, however many buffers have changed.  Of the
  steps that leave the program running, only an edit takes another text into a buffer that
  has changed, and it has asked about that one (`OnlyEditGivesUp`); when the program ends
  with changed texts, the user was asked about the first of them he agreed to lose
  (`Answered`).  That it is not more is finding 19.
- **MatcherIsExact** (`CommandProofs`): `SearchSpec => []MatcherExact`.  `Made` (the compiler),
  `EndsFrom` (what a pattern means, read off its source) and `MatchFrom` (the matcher) are
  recursive functions, each going from a place of a sequence to one behind it; that they
  have the values they define is one lemma (`Downward`).  `MatchesFrom` relates them part
  by part, from the last to the first: the compiled form of the source from k on, followed
  by nothing, matches from each place up to the last of the ends that its source means.
  The step is a lemma for each kind of part.  That of a closure (`ClosureMatch`) is where
  the property could fail: it takes all it can and gives back one at a time, and the first
  match behind it that way is the longest since the last end of what follows does not
  fall from one place to the next (`Rising`).  The invariant `SearchInv` says that the
  array holds, in front of its first end, what was compiled, which fits with its end
  (`MadeLength`), in any array a refused pattern has left (`GoodCompiles`); that no line
  is longer than `MaxLen`, though translate makes lines longer; and where the loop
  of translate may be.
- **NextIsFound** (`CommandProofs`): `SearchSpec => SearchFinds`.  Plain patterns are looked for
  by `positn`, others by the matcher: both find the first place in a line, from the one
  given on, where the pattern as written occurs (`FoundIs`, from the theorem before for
  the one, by `SimpleEnds` for the other).  The lines that `morecmd` looks at are numbered
  by how far on they are; the place that the first line with a hit gives comes before
  every other one going round (`Turn`, `TurnsBetween`), with the line of the cursor
  counted twice, at first from behind the cursor and at last from its start.
- **ImageIsSound** (`CommandProofs`): `HexSpec => []ImageSound`.  A record is read as it was
  written (`RecordIsRead`), wherever in the file it stands (`Stands`).  One wrong digit
  changes the sum of its bytes, by less than the number of values a byte has, so that the
  checksum is wrong (`OddIsBad`); it cannot make the record another one's, since the length
  and the type are not in question.  `Taken` goes from record to record (`RecordTaken`).
  `Describes` says what the state of a pass is when the records up to j have been loaded: the
  first address, the last one, and for each address of the window the byte of the last of
  them there.  `ReadsOn` says that a pass from record j on, starting from that, ends in an error or
  in what all records load; it is by induction on j from the last record down, and `ScanFails`
  is the same for an error.  The invariant `HexInv` says that what is in the .COM file is what
  is meant (`CellMeant`), from the first address on, and that the addresses are right while it
  is written; `WindowRight` adds a window, and `PaddedIs` has the rounding up.  `AllUpTo` says
  that every record ends within the last address, so that none is missing if none lies below the
  first.  Both are about `InRange`: with the 16-bit unsigned of the Makefile's compiler a record
  may end where it cannot tell (finding 23).

`ProcessListsProofs` holds what the proofs of the kernel's modules need of its
lists: who is on a list after `Placed`, `Snip` and `Tail`, that these keep it without
duplicates, and what `Count` is then.  It also has induction over numbers in a form that
needs no operator as a parameter: a set of numbers with 0 and the successor of each has
them all (`NumbersReached`), since there is no least one it has not (`LeastNumber`).  That
the recursive function within `TicksTo` has the values it defines is proved with it; the
proofs of Mau (the rounds of its loop), of SysImage (the sums of lengths, the links), of
TextStore (the links), of TextBuffer (the columns, the loops over a block), of Files
(the lines), of Search (the places of a pattern) and of HexCom (the records of a file)
take it from there by INSTANCE.

The theorems rest on the named assumptions of `QueueSystem`, `Dispatcher`, `Console`,
`Mau`, `SysImage`, `TextStore`, `TextBuffer`, `Search`, `Files` and `HexCom` (no null pointer is a process, queues have at least one cell, MX
queues one message, the marks of a flag are no processes, what calls are made and who
assigns, lengths and numbers of tables are not negative, an RSP's number of further
copies is -1 or more, there is a descriptor and room for a line for each of the editor's
buffers, lines are no longer than its line buffer, a text that is loaded has a line, no line that is typed has an end of
line or of file in it, no pattern is longer than its buffer, none that is searched for is
empty, the code of a closure is no character of a text, as `epat.c:21` has it, no digit of
a HEX file is a colon or an end, a record has fewer bytes than a byte has values, and an
unsigned has the range of an address or room for the end of every record), which TLC
evaluates on every run.

All the safety properties that the runs check of QueueSystem, Dispatcher, Console,
TextStore, Files and HexCom are thus proved, their refinements among them, those of Mau as long
as its table has room, those of SysImage unless an overflow was missed, the
three invariants of TextBuffer, and of Search that matching and searching are right.

Only model-checked: liveness and fairness, and every property of
MemoryPartitions and DiskBuffers; of TextBuffer what a move does to the
texts (MoveKeepsText, which filters sequences with the recursive SelectSeq); and of Search
that a translation treats each match once (TranslatedOnce).  Out of the prover's reach
are liveness, ENABLED, and what a recursive definition computes where no bounded induction
of the kind above is at hand: the folds of MemoryPartitions and DiskBuffers,
whose definitions in the community modules are recursive in an operator.

## 6. What is not modelled

Of the modelled components: opening a queue and the QD and buffer pools of
`que2.rtm`; suspension in the dispatcher (`dsptch.rtm:509-553`), the 8087 and the
contents of a new PD; the thread list and the BDOS and memory parts of
termination; partitions and MEM's lists at run time (MFL, MAL).  Of GENCCPM: the menus
and the parsing of command lines (`genc5.c`, `genc6.c`), the parameters that size
nothing, the displays.  Of DREDIX: the windows and the screen (`ewv.c`, `ewdv.c`,
`vd.c`), the keyboard tables, help and lesson; the messages.  The components without a
module are in the table of section 1 and in `PROJECT.json` with the reason.

Not planned: video, escape sequences and ports (hardware), the directory format
(data), chset and function (tables of characters and keys shown on a screen), boot and
the host tools (off line), the other commands (programs that run alone on these
calls).

## 7. What comes next

1. *SyncOrder*: `q_spb` and `mem_spb` together.  `memif.mem` takes `mem_spb` before
   it makes the process unabortable, terminate wants `q_spb`, and making a queue
   wants memory: who waits for whom (`memif.mem:76`).
2. *Memory*: partitions, lists and best fit over Mau; an empty partition left on the MAL
   by a failed request (`memory.mem:186`), an absolute request that follows a link before
   it looks at the limit (`ml.mem:78`), the hole of `mau.mem:249`.
3. *VirtualConsole*, over Console and QueueService: switch, suspension, purge and the
   ring of spooled records, whose full and empty states look alike (`vout.p86:231`), the
   process a switch takes off the suspend list (`pin.p86:287`), the locks a switch holds
   (`pin.p86:272`), with an abstract screen that shows each character once.  With it the
   relinking of `conassign` (`console.cio:243`).
4. *Floppy*: the timeout of the disk against its late interrupt (`xbegin.lib:1249`).
   *Serial*: the buffer and the waiting flags (`serin.a86:645`).  *Load*: what is given
   back when one of several groups fails (`load.sup:336`).  *BdosLocks*: the locks of a
   process that is aborted (`bdosif.bdo:334`).  *LineEdit*: function 10 against a
   reference editor over bounded inputs.
5. *Windows*: the windows of DREDIX on the buffers of TextBuffer.
6. Proofs: `BuffersSound` and
   `MemoryListsSound` once the folds of their modules are sums over segments.

Runs are kept to one for each question, so violations that a later, wider module
shows again will be merged into it.
