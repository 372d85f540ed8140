------------------------------- MODULE Files -------------------------------
(***************************************************************************)
(* The files of DREDIX (src/commands/dredix, ecmdio.c and the quit key of  *)
(* ed.c): texts are read into buffers and written back, the file that was  *)
(* there becoming the .BAK file.  The steps of a write are actions of      *)
(* their own, since any of them can fail and the machine can stop between  *)
(* any two.                                                                *)
(*                                                                         *)
(* A file is a sequence of characters; all that matters of a character is  *)
(* whether it ends a line or the file.  What the user types into a text is  *)
(* one action.                                                             *)
(***************************************************************************)
EXTENDS Integers, Sequences, SequencesExt, FiniteSets

CONSTANTS
  Bufs,         \* B1 .. B4: a sequence
  Names,        \* file names in capitals, as toupr leaves them
  Bak(_),       \* a name with its type replaced by .BAK
  NoName,       \* the empty name
  Chars,        \* the characters of files, two of them:
  NL, EOF,
  Texts0,       \* what the files on the disk may hold at first
  Typed,        \* the texts a user may turn a text into
  MaxPos,       \* MAXPOS: what fgets takes at most
  Heap,         \* lines malloc has room for
  MaxCmds       \* bound: commands given

\* No key puts an end of line or of the file into a line (keyhit), and Binit needs
\* a line for each of its buffers.
ASSUME FilesAssumption ==
  /\ Bufs \in Seq(Range(Bufs)) /\ \A i, j \in DOMAIN Bufs : Bufs[i] = Bufs[j] => i = j
  /\ \A f \in Names : Bak(f) \in Names
  /\ NoName \notin Names
  /\ {NL, EOF} \subseteq Chars /\ NL # EOF
  /\ \A d \in Texts0 : d \in Seq(Chars)
  /\ \A t \in Typed : t # <<>> /\ t \in Seq(Seq(Chars \ {NL, EOF}))
  /\ {MaxPos, Heap, MaxCmds} \subseteq Nat \ {0}
  /\ Len(Bufs) \in 2 .. Heap

VARIABLES
  disk,      \* name -> what the file holds, or Absent
  ro,        \* the files that may be read only
  buf,       \* buffer -> [file, text, mod]
  curbuf,
  w,         \* the write under way: see NoWrite
  running,
  cmds,
  \* for the properties:
  good,      \* name -> the last version of the file that was complete
  hurt,      \* a write has failed, or was cut short
  told       \* the buffers whose loss the user has agreed to in this command

vars == <<disk, ro, buf, curbuf, w, running, cmds, good, hurt, told>>

Absent == <<"absent">>
Places == Range(Bufs)
Here == buf[curbuf]
LeastOf(S) == CHOOSE x \in S : \A y \in S : x <= y
Modified == {b \in Places : buf[b].mod}
Empty(name) == [file |-> name, text |-> << <<>> >>, mod |-> FALSE]   \* Binitone

NoWrite == [at |-> "none"]
Idle == running /\ w = NoWrite

-----------------------------------------------------------------------------
(* Reading and writing a text. *)

\* What writeout puts into a file: every line, ended, and the mark of the end.
Lined(t) == FlattenSeq([i \in DOMAIN t |-> Append(t[i], NL)])
Contents(t) == Append(Lined(t), EOF)

\* The calls of fgets until the end of the file: each gets the rest of a line, or
\* MaxPos characters of it, and loses the last character of what it got.
GotTo(d, i, max) ==
  LeastOf({k \in i .. Len(d) : k - i + 1 = max \/ d[k] = NL \/ k = Len(d) \/ d[k + 1] = EOF})
GetsBy(d, max) ==
  LET from[i \in 1 .. Len(d) + 1] ==
        IF i > Len(d) \/ d[i] = EOF THEN <<>>
        ELSE << SubSeq(d, i, GotTo(d, i, max) - 1) >> \o from[GotTo(d, i, max) + 1]
  IN  from[1]

\* Bug: fgets is given one byte less.
BugGets(d) == GetsBy(d, MaxPos - 1)

Gets(d) == GetsBy(d, MaxPos)

\* How many of the lines got there is room for, when `used' lines are in use.
Room(lines, used) == IF used >= Heap THEN 0 ELSE IF Len(lines) < Heap - used THEN Len(lines) ELSE Heap - used
Used(b) == Len(buf[b].text)
LinesIn(bs) ==
  LET upto[i \in 0 .. Len(Bufs)] == IF i = 0 THEN 0 ELSE upto[i - 1] + Len(bs[Bufs[i]].text)
  IN  upto[Len(Bufs)]
AllUsed == LinesIn(buf)

\* readfile into an empty buffer: the line that was there makes room for another
\* once the first has been put behind it.
Fresh(lines, others) ==
  IF lines = <<>> \/ others + 1 >= Heap THEN << <<>> >>
  ELSE SubSeq(lines, 1, Room(lines, others))

\* readfile behind line k.
Behind(t, k, lines) ==
  SubSeq(t, 1, k) \o SubSeq(lines, 1, Room(lines, AllUsed)) \o SubSeq(t, k + 1, Len(t))

\* fopen "r": what is read, nothing if the file is not there or cannot be opened.
Opened(f) == {<<>>} \cup IF f = NoName \/ disk[f] = Absent THEN {} ELSE {Gets(disk[f])}

-----------------------------------------------------------------------------
(* Commands that ask. *)

\* ask, for a file name: the user may give up, or enter a name, which filecmd
\* turns into capitals.
Cancel == "cancel"
Replies == {Cancel, NoName} \cup Names
NamedHere(f) == [buf EXCEPT ![curbuf].file = f]

Count(n) == cmds + n <= MaxCmds /\ cmds' = cmds + n

\* modcheck and confirm: the answers possible, and what is agreed to.
ModCheck(b) == IF buf[b].mod THEN {[ok |-> TRUE, told |-> {b}], [ok |-> FALSE, told |-> {}]}
               ELSE {[ok |-> TRUE, told |-> {}]}

\* edit once a name is known: the buffer is emptied, then read.
Load(f, others) ==
  \E lines \in Opened(f) :
    buf' = [buf EXCEPT ![curbuf] = [Empty(f) EXCEPT !.text = Fresh(lines, others)]]

Edit ==
  \E r \in Replies :
    IF r = Cancel THEN UNCHANGED buf ELSE Load(r, AllUsed - Used(curbuf))

KEdit == /\ Idle /\ Count(1)
         /\ \E a \in ModCheck(curbuf) :
              told' = a.told /\ IF a.ok THEN Edit ELSE UNCHANGED buf
         /\ UNCHANGED <<disk, ro, curbuf, w, running, good, hurt>>

\* readin: a new buffer is edited; else the lines come behind the current one,
\* and the name of the buffer stays.
KRead == /\ Idle /\ Count(1)
         /\ told' = {}
         /\ IF Here = Empty(NoName) THEN Edit
            ELSE \E r \in Replies, k \in 1 .. Len(Here.text) :
                   IF r = Cancel THEN UNCHANGED buf
                   ELSE \E lines \in Opened(r) :
                          buf' = [buf EXCEPT ![curbuf].text = Behind(@, k, lines),
                                             ![curbuf].mod = @ \/ Room(lines, AllUsed) > 0]
         /\ UNCHANGED <<disk, ro, curbuf, w, running, good, hurt>>

KFile == /\ Idle /\ Count(1)
         /\ told' = {}
         /\ \E r \in Replies : buf' = IF r = Cancel THEN buf ELSE NamedHere(r)
         /\ UNCHANGED <<disk, ro, curbuf, w, running, good, hurt>>

\* bufcmd: by its number, or by its file: the first that has it, if the name is
\* given in capitals.
KBuf == /\ Idle /\ Count(1)
        /\ told' = {}
        /\ \/ curbuf' \in Places
           \/ \E f \in Names, i \in DOMAIN Bufs :
                /\ buf[Bufs[i]].file = f /\ \A j \in 1 .. i - 1 : buf[Bufs[j]].file # f
                /\ curbuf' = Bufs[i]
        /\ UNCHANGED <<disk, ro, buf, w, running, good, hurt>>

\* The keys that change a text.
Type == /\ Idle /\ Count(1)
        /\ told' = {}
        /\ \E t \in Typed : buf' = [buf EXCEPT ![curbuf].text = t, ![curbuf].mod = TRUE]
        /\ AllUsed' <= Heap
        /\ UNCHANGED <<disk, ro, curbuf, w, running, good, hurt>>

\* Bug: the last buffer is not looked at.
BugFirstModified == {Bufs[i] : i \in {j \in 1 .. Len(Bufs) - 1 :
                       buf[Bufs[j]].mod /\ \A k \in 1 .. j - 1 : ~ buf[Bufs[k]].mod}}

\* KQUIT: the first buffer that is modified is asked for.
FirstModified == {Bufs[i] : i \in {j \in 1 .. Len(Bufs) :
                    buf[Bufs[j]].mod /\ \A k \in 1 .. j - 1 : ~ buf[Bufs[k]].mod}}
KQuit == /\ Idle /\ Count(1)
         /\ \/ FirstModified = {} /\ running' = FALSE /\ told' = {}
            \/ \E b \in FirstModified : \E a \in ModCheck(b) : running' = ~ a.ok /\ told' = a.told
         /\ UNCHANGED <<disk, ro, buf, curbuf, w, good, hurt>>

-----------------------------------------------------------------------------
(* writeout. *)

\* A buffer without a name is given one first.
KWrite ==
  /\ Idle /\ Count(1)
  /\ told' = {}
  /\ \/ Here.file # NoName /\ UNCHANGED buf
     \/ Here.file = NoName /\ \E f \in Names : buf' = NamedHere(f)
  /\ w' = [at |-> "unlink", file |-> buf'[curbuf].file, line |-> 1, err |-> FALSE,
           before |-> disk[buf'[curbuf].file]]
  /\ UNCHANGED <<disk, ro, curbuf, running, good, hurt>>

\* unlink, whether it works or not.
WUnlink ==
  /\ running /\ w.at = "unlink"
  /\ disk' = IF Bak(w.file) \in ro THEN disk ELSE [disk EXCEPT ![Bak(w.file)] = Absent]
  /\ w' = [w EXCEPT !.at = "rename"]
  /\ UNCHANGED <<ro, buf, curbuf, running, cmds, good, hurt, told>>

\* Bug: the old version is not kept.
BugWRename ==
  /\ running /\ w.at = "rename"
  /\ UNCHANGED disk
  /\ w' = [w EXCEPT !.at = "create"]
  /\ UNCHANGED <<ro, buf, curbuf, running, cmds, good, hurt, told>>

\* rename, likewise: it does not if the new name is there.
WRename ==
  /\ running /\ w.at = "rename"
  /\ disk' = IF disk[w.file] # Absent /\ disk[Bak(w.file)] = Absent /\ w.file \notin ro
             THEN [disk EXCEPT ![Bak(w.file)] = disk[w.file], ![w.file] = Absent] ELSE disk
  /\ w' = [w EXCEPT !.at = "create"]
  /\ UNCHANGED <<ro, buf, curbuf, running, cmds, good, hurt, told>>

\* fopen "w" empties a file that is there.
WCreate ==
  /\ running /\ w.at = "create"
  /\ \/ /\ w.file \notin ro \/ disk[w.file] = Absent
        /\ disk' = [disk EXCEPT ![w.file] = <<>>]
        /\ w' = [w EXCEPT !.at = "line"]
        /\ hurt' = hurt
     \/ /\ w' = NoWrite                  \* "Can't create"
        /\ hurt' = TRUE
        /\ UNCHANGED disk
  /\ UNCHANGED <<ro, buf, curbuf, running, cmds, good, told>>

Put(s) == disk' = [disk EXCEPT ![w.file] = @ \o s]

\* fputs and fputc of a line; an error ends the loop.
WLine ==
  /\ running /\ w.at = "line" /\ w.line <= Len(Here.text)
  /\ \/ Put(Append(Here.text[w.line], NL)) /\ w' = [w EXCEPT !.line = @ + 1]
     \/ UNCHANGED disk /\ w' = [w EXCEPT !.at = "end", !.err = TRUE]
  /\ UNCHANGED <<ro, buf, curbuf, running, cmds, good, hurt, told>>

\* The mark of the end, which is also tried after an error.
WEnd ==
  /\ running
  /\ w.at = "end" \/ (w.at = "line" /\ w.line > Len(Here.text))
  /\ \/ Put(<<EOF>>) /\ w' = [w EXCEPT !.at = "close"]
     \/ UNCHANGED disk /\ w' = [w EXCEPT !.at = "close", !.err = TRUE]
  /\ UNCHANGED <<ro, buf, curbuf, running, cmds, good, hurt, told>>

\* fclose, which can fail as well: then the end of the file is not there.
Closed(err) ==
  /\ w' = NoWrite
  /\ buf' = [buf EXCEPT ![curbuf].mod = @ /\ err]
  /\ good' = IF err THEN good ELSE [good EXCEPT ![w.file] = disk'[w.file]]
  /\ hurt' = (hurt \/ err)
\* Bug: an error of fclose goes unnoticed.
BugWClose ==
  /\ running /\ w.at = "close"
  /\ \/ UNCHANGED disk /\ Closed(w.err)
     \/ disk' = [disk EXCEPT ![w.file] = SubSeq(@, 1, Len(@) - 1)] /\ Closed(w.err)
  /\ UNCHANGED <<ro, curbuf, running, cmds, told>>

WClose ==
  /\ running /\ w.at = "close"
  /\ \/ UNCHANGED disk /\ Closed(w.err)
     \/ disk[w.file] # <<>> /\ disk' = [disk EXCEPT ![w.file] = SubSeq(@, 1, Len(@) - 1)] /\ Closed(TRUE)
  /\ UNCHANGED <<ro, curbuf, running, cmds, told>>

\* The machine stops, in the middle of a write or not.
Crash ==
  /\ running /\ running' = FALSE
  /\ hurt' = (hurt \/ w # NoWrite) /\ w' = NoWrite
  /\ told' = Places       \* nobody could have asked
  /\ UNCHANGED <<disk, ro, buf, curbuf, cmds, good>>

\* The program is started again: Binit, and edit of the name on the command line.
Start ==
  /\ ~ running /\ running' = TRUE
  /\ Count(1)
  /\ curbuf' = Bufs[1]
  /\ told' = {}
  /\ \E f \in Names \cup {NoName} : \E lines \in Opened(f) :
       buf' = [b \in Places |->
                 IF b = Bufs[1] THEN [Empty(f) EXCEPT !.text = Fresh(lines, Len(Bufs) - 1)] ELSE Empty(NoName)]
  /\ UNCHANGED <<disk, ro, w, good, hurt>>

Ended == cmds = MaxCmds /\ w = NoWrite /\ UNCHANGED vars

-----------------------------------------------------------------------------
(* The specification. *)

Backups == {Bak(f) : f \in Names}

Init == /\ disk \in [Names -> Texts0 \cup {Absent}]
        /\ ro \in {{}, Backups}
        /\ buf = [b \in Places |-> Empty(NoName)]
        /\ curbuf = Bufs[1] /\ w = NoWrite /\ running = TRUE /\ cmds = 0
        /\ good = disk /\ hurt = FALSE /\ told = {}

Next == \/ KEdit \/ KRead \/ KFile \/ KBuf \/ Type \/ KQuit \/ KWrite
        \/ WUnlink \/ WRename \/ WCreate \/ WLine \/ WEnd \/ WClose
        \/ Crash \/ Start \/ Ended

Spec == Init /\ [][Next]_vars

-----------------------------------------------------------------------------
(* Properties. *)

\* At every moment of a write, and if the machine stops there, the last complete
\* version of each file is on the disk under its own name or as the .BAK file,
\* until there is a newer one; unless a write has failed before, the .BAK file
\* is read only, or a .BAK file is what is being written.
KeptOnDisk ==
  ~ hurt /\ ro = {} /\ (w # NoWrite => w.file \notin Backups) =>
    \A f \in Names \ Backups : good[f] # Absent => good[f] \in {disk[f], disk[Bak(f)]}

\* A text whose lines are short enough is read back as it was written, its empty
\* lines and the first one among them.
ReadsBack ==
  \A b \in Places :
    (\A i \in DOMAIN buf[b].text : Len(buf[b].text[i]) < MaxPos) =>
      Fresh(Gets(Contents(buf[b].text)), 0) = buf[b].text

\* A buffer ceases to be modified by a write only if the whole of it is in its file,
\* and the version before is in the .BAK file.
WriteKeepsBoth ==
  [][WClose /\ (\E b \in Places : buf[b].mod /\ ~ buf'[b].mod) =>
       /\ disk'[w.file] = Contents(Here.text)
       /\ (w.before # Absent /\ ro = {} /\ w.file \notin Backups) =>
            disk'[Bak(w.file)] = w.before]_vars

\* The changed texts that a step gives up: the program ends, or the buffer is no
\* longer modified and has not been written.
Lost == {b \in Modified : ~ running' \/ (~ buf'[b].mod /\ ~ WClose)}

\* However many texts have changed, and whatever is read, named and edited between:
\* while the program goes on, no change is given up unless the user has said so; and
\* it ends with changed texts only when the user has agreed to lose one of them.
LostOnlyIfTold ==
  [][running => IF running' THEN Lost \subseteq told' ELSE Lost = {} \/ Lost \cap told' # {}]_vars

=============================================================================
