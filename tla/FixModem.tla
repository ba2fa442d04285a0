------------------------------ MODULE FixModem ------------------------------
(***************************************************************************)
(* fix-h990-modem.c: learns the phone's model from the command line or the *)
(* misc slice, tells the running kernel (sysfs) and the next one (the      *)
(* command line in a boot image) of it, and may store it in misc.  The     *)
(* default build, without LINEAGEOS.                                       *)
(*                                                                         *)
(* A text is a sequence of its parts, so that one can begin with another;  *)
(* a command line is a sequence of words that single spaces separate, the  *)
(* empty command line being a single empty word.  A write of one page      *)
(* happens or not.  A boot image read from a pipe is a sequence of half    *)
(* pages, the header -1, 0 and the rest 1, 2, ...                          *)
(***************************************************************************)
EXTENDS Integers, Sequences, SequencesExt

CONSTANTS
  Models,       \* the names a user gives
  MiscParts,    \* how many parts of a name lg_model_name in misc has room for
  Fallback,     \* "LG-H990ds"
  DualSim,      \* the models with two SIM cards
  CmdLines,     \* the command lines of boot images, up to the first NUL
  Extras,       \* what a NUL in the first array keeps apart in extra_cmdline
  Keys, Texts,  \* the names of their parameters, the parts of the values
  ArgsSize,     \* the command line's room in a boot image (both arrays)
  SimOptions,   \* the -1 to -4 given, 0 for none
  Payloads      \* lengths of a boot image without its header, in half pages

NoName == <<>>
Words(key, val) == [key |-> key, val |-> val]
Blank == Words("", <<>>)
Word  == [key : Keys, val : Seq(Texts)]

\* strlcpy() to lg_model_name, which has 20 bytes of the 23 of model_name.
Stored(name) == SubSeq(name, 1, IF Len(name) <= MiscParts THEN Len(name) ELSE MiscParts)
MiscNames    == {Stored(m) : m \in Models \cup {NoName}}

ASSUME FixModemAssumption ==
  /\ Fallback \in Models \cap DualSim /\ NoName \notin Models \cup DualSim
  /\ {"model.name", "lge.sim_num", "lge.dsds", "bl_unlock", "authorized"} \subseteq Keys
  /\ {"1", "2", "3", "4", "none", "dsds", "false", "true"} \subseteq Texts
  /\ Models \subseteq Seq(Texts) /\ MiscParts \in Nat
  /\ \A c \in CmdLines : c \in Seq(Word) /\ c # <<>>
  /\ Extras \subseteq Seq(Word)
  /\ SimOptions \subseteq 0 .. 4 /\ Payloads \subseteq Nat

VARIABLES
  misc,      \* the hardware information: its magic, the model's name
  kernel,    \* whether the sysfs files exist and may be written
  sysfs,     \* what was written to them
  image,     \* the boot image file: is its header sound, its command line, and
             \* the supplemental words behind a NUL in that
  opts,      \* the options of the run
  pc,        \* the next step of main()
  model,     \* model_name
  sim,       \* sim_num, 0 before it is set
  bad,       \* a sysfs file could not be written
  cmd,       \* cmdline
  buf, cnt,  \* the page in hand and how much of it the last read() filled
  input,     \* what the pipe still holds
  output,    \* what was written to the standard output
  status     \* how the run ended: its exit status, or "killed"

vars == <<misc, kernel, sysfs, image, opts, pc, model, sim, bad, cmd, buf, cnt,
          input, output, status>>
found  == <<misc, kernel, sysfs, image>>
stream == <<buf, cnt, input, output>>
known  == <<found, opts, model, sim, bad>>

\* -m, -1 to -4, -b, -w, and the boot image; a pipe brings an image of its own.
Options == [given : Models \cup {NoName}, sim : SimOptions, boot : BOOLEAN,
            write : BOOLEAN, target : {"none", "file", "pipe"}, pages : Payloads]
NoOptions == [given |-> NoName, sim |-> 0, boot |-> FALSE, write |-> FALSE,
              target |-> "none", pages |-> 0]
Header == <<-1, 0>>
SimText(n)  == << <<"1">>, <<"2">>, <<"3">>, <<"4">> >>[n]
DsdsText(n) == IF n = 1 THEN <<"none">> ELSE <<"dsds">>

------------------------------------------------------------------------------
(* The command line *)

\* Mutant of EntryList: lge.dsds follows the model and not the count.
EntryList_Expected(m, n) == <<
  [key |-> "model.name",  val |-> m,          overwrite |-> TRUE],
  [key |-> "lge.sim_num", val |-> SimText(n), overwrite |-> TRUE],
  [key |-> "lge.dsds",    val |-> DsdsText(IF m \in DualSim THEN 2 ELSE 1),
                          overwrite |-> TRUE] >>

\* entries[], in its order.
EntryList(m, n) == <<
  [key |-> "model.name",    val |-> m,            overwrite |-> TRUE],
  [key |-> "lge.sim_num",   val |-> SimText(n),   overwrite |-> TRUE],
  [key |-> "lge.dsds",      val |-> DsdsText(n),  overwrite |-> TRUE],
  [key |-> "bl_unlock",     val |-> <<"false">>,  overwrite |-> FALSE],
  [key |-> "authorized",    val |-> <<"true">>,   overwrite |-> FALSE] >>

\* Mutant of Find: the key is only looked for at the start.
Find_StartOnly(c, key) == IF c[1].key = key THEN 1 ELSE 0

\* strstr() of " key=" finds the first word but one; only then is the first looked at.
Find(c, key) ==
  LET at == {k \in 2 .. Len(c) : c[k].key = key}
  IN  IF at # {} THEN CHOOSE k \in at : \A l \in at : k <= l
      ELSE IF c[1].key = key THEN 1 ELSE 0

\* strncmp() over the length of the value wanted.
Same(have, want) == IsPrefix(want, have)

\* Mutant of PutEntry: what follows a changed value is not moved.
PutEntry_CutOff(c, e) ==
  LET k == Find(c, e.key)
  IN  IF k = 0 THEN Append(c, Words(e.key, e.val))
      ELSE IF ~e.overwrite \/ Same(c[k].val, e.val) THEN c
      ELSE Append(SubSeq(c, 1, k - 1), Words(e.key, e.val))

PutEntry(c, e) ==
  LET k == Find(c, e.key)
  IN  IF k = 0 THEN Append(c, Words(e.key, e.val))
      ELSE IF ~e.overwrite \/ Same(c[k].val, e.val) THEN c
      ELSE [c EXCEPT ![k].val = e.val]

\* The command line after the first k turns of the loop over entries[].
Edited(c, m, n) ==
  LET es == EntryList(m, n)
      line[k \in 0 .. Len(es)] == IF k = 0 THEN c ELSE PutEntry(line[k - 1], es[k])
  IN  line[Len(es)]

WordSize(w) == IF w = Blank THEN 0 ELSE 1 + Len(w.val)
Size(c)     == FoldLeft(LAMBDA sum, w : sum + WordSize(w), Len(c) - 1, c)
TooLong(c)  == Size(c) > ArgsSize

------------------------------------------------------------------------------
(* The steps of main() *)

\* The program's memory as it starts, with the options o.
Memory(o) ==
  /\ opts' = o /\ model' = o.given /\ sim' = o.sim /\ bad' = FALSE
  /\ cmd' = <<Blank>> /\ buf' = Header /\ cnt' = 0
  /\ input' = [k \in 1 .. o.pages |-> k] /\ output' = <<>>

Start(o) ==
  /\ pc = "idle" /\ (o.target # "pipe" => o.pages = 0)
  /\ Memory(o) /\ pc' = "read_misc" /\ status' = "running"
  /\ UNCHANGED found

Succeed == pc' = "idle" /\ status' = "0"

\* The program ends without success, and what it had in memory is gone.
Fail(how) ==
  /\ pc' = "idle" /\ status' = how
  /\ Memory(NoOptions) /\ UNCHANGED found

\* A name on the command line goes before the one in misc.
ReadMisc ==
  /\ pc = "read_misc" /\ misc.magic
  /\ model' = (IF model = NoName THEN misc.model ELSE model)
  /\ pc' = "write_misc"
  /\ UNCHANGED <<found, opts, sim, bad, cmd, stream, status>>

\* Mutant of NoMisc: in boot mode the fallback goes before the name given.
NoMisc_Fallback ==
  /\ pc = "read_misc"
  /\ model # NoName \/ opts.boot
  /\ model' = (IF opts.boot THEN Fallback ELSE model)
  /\ pc' = "write_misc"
  /\ UNCHANGED <<found, opts, sim, bad, cmd, stream, status>>

\* misc cannot be opened or read, or lacks the magic number: no name at all ends the
\* program, but for the fallback of boot mode.
NoMisc ==
  /\ pc = "read_misc"
  /\ model # NoName \/ opts.boot
  /\ model' = (IF model = NoName THEN Fallback ELSE model)
  /\ pc' = "write_misc"
  /\ UNCHANGED <<found, opts, sim, bad, cmd, stream, status>>

NoNameAtAll ==
  /\ pc = "read_misc" /\ model = NoName /\ ~opts.boot
  /\ Fail("1")

\* Mutant of SimCount: a SIM count that was not given is not derived from the model.
SimCount_Unset == sim

SimCount == IF sim # 0 THEN sim ELSE IF model \in DualSim THEN 2 ELSE 1

\* -w; nobody looks at the result of write_misc().
WriteMisc ==
  /\ pc = "write_misc"
  /\ misc' \in IF opts.write THEN {misc, [magic |-> TRUE, model |-> Stored(model)]} ELSE {misc}
  /\ sim' = SimCount /\ pc' = "sysfs_model"
  /\ UNCHANGED <<kernel, sysfs, image, opts, model, bad, cmd, stream, status>>

\* _write_sysfs(): a file that is absent or not writable is no error; close() may fail
\* after the text is written.
WriteSysfs(file, text) ==
  \/ ~kernel /\ UNCHANGED <<sysfs, bad>>
  \/ bad' = TRUE /\ UNCHANGED sysfs
  \/ kernel /\ sysfs' = [sysfs EXCEPT ![file] = text] /\ bad' \in {bad, TRUE}

WriteSysfsModel ==
  /\ pc = "sysfs_model" /\ WriteSysfs("model", model)
  /\ pc' = "sysfs_sim"
  /\ UNCHANGED <<misc, kernel, image, opts, model, sim, cmd, stream, status>>

\* The second file is written even if the first has failed.
WriteSysfsSim ==
  /\ pc = "sysfs_sim" /\ WriteSysfs("sim", SimText(sim))
  /\ pc' = "sysfs_done"
  /\ UNCHANGED <<misc, kernel, image, opts, model, sim, cmd, stream, status>>

SysfsFailed == pc = "sysfs_done" /\ bad /\ Fail("1")

\* Without a boot image the rest is only printed.
AfterSysfs ==
  /\ pc = "sysfs_done" /\ ~bad
  /\ IF opts.target = "none" THEN Succeed ELSE pc' = "read_image" /\ UNCHANGED status
  /\ UNCHANGED <<known, cmd, stream>>

------------------------------------------------------------------------------
(* write_bootimg() *)

\* The whole header page is read and edited in memory, the two arrays as one text:
\* it ends at the first NUL, and what is behind that is cleared.
ReadImage ==
  /\ pc = "read_image" /\ image.sound
  /\ cmd' = Edited(image.cmd, model, sim) /\ ~TooLong(cmd')
  /\ buf' = Header /\ cnt' = 2
  /\ pc' = (IF opts.target = "file" THEN "write_header" ELSE "write_page")
  /\ UNCHANGED <<known, input, output, status>>

WriteHeader ==
  /\ pc = "write_header"
  /\ image' = [image EXCEPT !.cmd = cmd, !.extra = <<>>]
  /\ pc' = "close"
  /\ UNCHANGED <<misc, kernel, sysfs, opts, model, sim, bad, cmd, stream, status>>

\* Mutant of Enough: the length written is compared with a page.
Enough_Page(written) == written = 2

\* write(1, bootimg, blksz)!=cnt: always a page is written, and what was written is
\* compared with the length of the last read(); a write() may be short as well.
Enough(written) == written = cnt

WritePage(written) ==
  /\ pc = "write_page" /\ Enough(written)
  /\ output' = output \o SubSeq(buf, 1, written)
  /\ pc' = "read_page"
  /\ UNCHANGED <<known, cmd, buf, cnt, input, status>>

\* read() takes what is there, up to a page; the rest of the page keeps its old contents.
ReadPage(got) ==
  /\ pc = "read_page" /\ got <= Len(input) /\ (got = 0 => input = <<>>)
  /\ buf' = [k \in 1 .. 2 |-> IF k <= got THEN input[k] ELSE buf[k]]
  /\ input' = SubSeq(input, got + 1, Len(input))
  /\ cnt' = got
  /\ pc' = (IF got = 0 THEN "close" ELSE "write_page")
  /\ UNCHANGED <<known, cmd, output, status>>

Close ==
  /\ pc = "close" /\ Succeed
  /\ UNCHANGED <<known, cmd, stream>>

\* Any call fails, the header is not one, the command line is too long, or not all was
\* written: the label "fail:".
ImageFails ==
  /\ pc \in {"read_image", "write_header", "write_page", "read_page", "close"}
  /\ Fail("1")

Kill == pc # "idle" /\ Fail("killed")

------------------------------------------------------------------------------
Init ==
  /\ misc \in [magic : BOOLEAN, model : MiscNames] /\ kernel \in BOOLEAN
  /\ sysfs = [model |-> NoName, sim |-> NoName]
  /\ image \in [sound : BOOLEAN, cmd : CmdLines, extra : Extras]
  /\ opts = NoOptions /\ model = NoName /\ sim = 0 /\ bad = FALSE /\ cmd = <<Blank>>
  /\ buf = Header /\ cnt = 0 /\ input = <<>> /\ output = <<>>
  /\ pc = "idle" /\ status = "none"

Next ==
  \/ \E o \in Options : Start(o)
  \/ ReadMisc \/ NoMisc \/ NoNameAtAll \/ WriteMisc
  \/ WriteSysfsModel \/ WriteSysfsSim \/ SysfsFailed \/ AfterSysfs
  \/ ReadImage \/ WriteHeader
  \/ \E n \in 1 .. 2 : WritePage(n)
  \/ \E n \in 0 .. 2 : ReadPage(n)
  \/ Close \/ ImageFails \/ Kill

Spec == Init /\ [][Next]_vars

------------------------------------------------------------------------------
(* Properties *)

\* What a program that reads the command line finds at the place the key was looked for.
Value(c, key) == c[Find(c, key)].val
Patched == status = "0" /\ opts.target = "file"

\* Type correctness: the command line has at least one word, the page in hand is a
\* page, and past read_misc() there is a name, but for an empty one found in misc.
TypeOK ==
  /\ misc \in [magic : BOOLEAN, model : MiscNames] /\ kernel \in BOOLEAN
  /\ opts \in [given : Models \cup {NoName}, sim : 0 .. 4, boot : BOOLEAN,
                write : BOOLEAN, target : {"none", "file", "pipe"}, pages : Nat]
  /\ sim \in 0 .. 4 /\ bad \in BOOLEAN /\ cnt \in 0 .. 2
  /\ Len(buf) = 2 /\ Len(cmd) > 0 /\ Len(image.cmd) > 0
  /\ pc \notin {"idle", "read_misc", "write_misc"} => sim # 0
  /\ pc \notin {"idle", "read_misc"} /\ model = NoName => opts.given = NoName

\* Words of the command line that the program does not set, or that it leaves alone
\* when they are there, stay in their order; new ones come after them (437-466).  This
\* holds up to the first NUL: supplemental words behind one are wiped (433-435, 468).
Others(c) ==
  SelectSeq(c, LAMBDA w : w.key \notin {"model.name", "lge.sim_num", "lge.dsds"})
OtherWordsKept == [][IsPrefix(Others(image.cmd), Others(image'.cmd))]_image

\* After success another run with the same name and SIM count changes nothing.
RerunChangesNothing == Patched => Edited(image.cmd, model, sim) = image.cmd

\* After success the next kernel is told the SIM count that the running one was told,
\* in both of its words.
SimSettingsAgree ==
  Patched =>
    /\ Value(image.cmd, "lge.sim_num") = SimText(sim)
    /\ Value(image.cmd, "lge.dsds") = DsdsText(sim)
    /\ kernel => sysfs.sim = SimText(sim)

\* An image copied through a pipe that ends with status 0 is all there, in its order,
\* whatever the lengths of the reads were.
PipeCopiesWhole ==
  status = "0" /\ opts.target = "pipe" =>
    output = Header \o [k \in 1 .. opts.pages |-> k]

\* misc only changes on request, and only to the name in use: the one given, as much
\* of it as there is room for, or the fallback in boot mode when none was found.
MiscNamedByUser ==
  [][ /\ opts.write /\ misc'.magic
      /\ misc'.model \in {Stored(opts.given), misc.model} \cup
                           (IF opts.boot THEN {Stored(Fallback)} ELSE {})
      /\ opts.given # NoName => misc'.model = Stored(opts.given) ]_misc
==============================================================================
