--------------------------------- MODULE RmOP --------------------------------
(***************************************************************************)
(* rmOP.c: gives the space of the OP slice to userdata (-F), or hides the  *)
(* OP slice from the system and shows it again (-d, -e).                   *)
(*                                                                         *)
(* The partition table is rewritten by writegpt(): backup copy first,      *)
(* primary copy second, so an interrupted or failed call leaves the old    *)
(* table or the new one (Gpt, AtomicGpt), unless the backup copy is the    *)
(* only one there is.  The other store is the cust file system, where      *)
(* official_op_resize.cfg is replaced by a copy in which every size is 0.  *)
(* The kernel knows the slices by the table it read last, and names them   *)
(* under /dev/block/bootdevice/by-name.                                    *)
(***************************************************************************)
EXTENDS Integers, FiniteSets

CONSTANTS
  NSlots,       \* gpt->head.entryCount; slot 0 stands for "data=-1"
  LastBlock,    \* the device's blocks are 0 .. LastBlock
  W,            \* where numbers of blocks wrap: 2^64
  FirstData,    \* the blocks before it hold the primary GPT
  Layouts,      \* the tables the device may have at the start
  CfgTexts      \* the texts the cfg file may have at the start

Slots  == 1 .. NSlots
Names  == {"", "OP", "XOPX", "userdata", "persistent"}
Slice  == [name : Names, lo : 0 .. W - 1, hi : 0 .. W - 1]
Gpts   == [Slots -> Slice]
NoSlice == [name |-> "", lo |-> 0, hi |-> 0]

\* What the cfg file and its companions can hold: sizes, only zeros, zeros that
\* are not on the media yet, a line without a size, nothing; or there is no file.
Texts  == {"sizes", "zeros", "dirty", "nosize", "empty", "absent"}
Files  == [cfg : Texts, orig : Texts, tmp : Texts]

Blocks(s)       == IF s.name = "" THEN {} ELSE s.lo .. s.hi
Named(g, names) == {s \in Slots : g[s].name \in names}

\* The tables that come with a phone: real slices, OP and userdata at most once;
\* all apart, or what is left of OP is at the start of userdata.
Sound(g) ==
  /\ \A s \in Slots : g[s].name # "" =>
       FirstData <= g[s].lo /\ g[s].lo <= g[s].hi /\ g[s].hi <= LastBlock
  /\ \A names \in {{"OP", "XOPX"}, {"userdata"}} :
       \A s, t \in Named(g, names) : s = t
  /\ \A s, t \in Slots :
       s # t => \/ Blocks(g[s]) \cap Blocks(g[t]) = {}
                \/ \E o, d \in {s, t} :
                     /\ g[o].name \in {"OP", "XOPX"} /\ g[d].name = "userdata"
                     /\ g[o].lo = g[d].lo /\ g[o].hi <= g[d].hi

ASSUME RmOPAssumption ==
  /\ NSlots \in Nat \ {0}
  /\ LastBlock \in Nat /\ FirstData \in Nat \ {0}
  /\ W \in Nat /\ LastBlock + 1 < W
  /\ Layouts \subseteq Gpts /\ \A g \in Layouts : Sound(g)
  /\ CfgTexts \subseteq Texts \ {"dirty"}

VARIABLES
  gpt,        \* the table readgpt(GPT_ANY) finds on the device
  copies,     \* what its two copies are like
  kern,       \* the table the kernel uses
  files,      \* the cust directory as programs see it
  disk,       \* what of it a power cut leaves
  mnt,        \* /cust: "no", "ro" or "rw"
  erased,     \* blocks BLKDISCARD has thrown away
  pc,         \* where rmOP is, "idle" when it is not running
  mode,       \* "enable", "disable" or "merge", "none" when it is not running
  new,        \* the table in rmOP's memory
  op, data,   \* the slots of OP and userdata in it
  gpt0, cfg0  \* history: the table and the cfg text at the start

envVars  == <<gpt0, cfg0>>
progVars == <<pc, mode, new, op, data>>
rmVars   == <<gpt, copies, kern, files, disk, mnt, erased, progVars, envVars>>

\* The texts of the files with t in the place of text "dirty".
Settle(fs, t) == [f \in DOMAIN fs |-> IF fs[f] = "dirty" THEN t ELSE fs[f]]
Minimum(S)    == CHOOSE x \in S : \A y \in S : x <= y

------------------------------------------------------------------------------
(* Steps of main(). *)

\* Mutant of Flush: it does not wait for what was written there.
Flush_Detached == mnt' = "no" /\ UNCHANGED <<files, disk>>

\* umount("/cust") has what was written there on the media when it returns; nobody
\* looks whether it did anything, or found the file system busy.
Flush ==
  \/ /\ mnt' = "no"
     /\ files' = Settle(files, "zeros")
     /\ disk' = files'
  \/ mnt # "no" /\ UNCHANGED <<mnt, files, disk>>

\* Of the copies both are there and equal ("both"), only the primary is whole, they
\* "differ", only the backup is whole, or none.
CopyStates == {"both", "primary", "differ", "backup", "none"}

\* What writegpt() of table t leaves when it is cut short.  Tables that are the
\* same here may differ on the device, in the slices' ids for one; rmOP writes
\* back the very table it read when it changes nothing.
CutShort(t) ==
  {<<gpt, copies>>, <<t, "backup">>, <<t, "both">>} \cup
    IF copies = "backup"
    THEN IF t = gpt THEN {} ELSE {<<gpt, "none">>}
    ELSE {<<gpt, "primary">>, <<gpt, "differ">>}

WriteCutShort(t) == \E left \in CutShort(t) : gpt' = left[1] /\ copies' = left[2]

\* The process is gone, with its memory.
NoTable == [s \in Slots |-> NoSlice]

Gone ==
  /\ pc' = "idle" /\ mode' = "none"
  /\ new' = NoTable /\ op' = 0 /\ data' = 0

\* abort: leaves through umount("/cust").
Exit ==
  /\ Gone
  /\ Flush
  /\ UNCHANGED <<gpt, copies, kern, erased, envVars>>

Goto(label) ==
  /\ pc' = label
  /\ UNCHANGED <<mode, envVars>>

\* readlink(by-name/OP), open(O_SYNC), readgpt(GPT_ANY).
Start(m) ==
  /\ pc = "idle"
  /\ Named(kern, {"OP"}) # {} /\ copies # "none"
  /\ pc' = "findOP"
  /\ mode' = m
  /\ new' = gpt
  /\ op' = 0
  /\ data' = 1
  /\ UNCHANGED <<gpt, copies, kern, files, disk, mnt, erased, envVars>>

\* There is no link, or the device cannot be opened, or has no table.
StartWithoutDevice ==
  /\ pc = "idle"
  /\ Exit

\* Mutant of FindOP: nobody looks whether there is an OP.
FindOP_Unchecked ==
  /\ pc = "findOP"
  /\ op' = IF Named(new, {"OP", "XOPX"}) = {} THEN 0
            ELSE Minimum(Named(new, {"OP", "XOPX"}))
  /\ Goto("findData")
  /\ UNCHANGED <<gpt, copies, kern, files, disk, mnt, erased, new, data>>

FindOP ==
  /\ pc = "findOP"
  /\ LET found == Named(new, {"OP", "XOPX"}) IN
     \/ /\ found # {}
        /\ op' = Minimum(found)
        /\ Goto("findData")
        /\ UNCHANGED <<gpt, copies, kern, files, disk, mnt, erased, new, data>>
     \/ /\ found = {}
        /\ Exit

\* Mutant of FindData: the last entry is not looked at.
FindData_LastSkipped ==
  /\ pc = "findData"
  /\ IF data \in Slots /\ new[data].name = "userdata"
     THEN Goto("mode") /\ data' = data
     ELSE /\ data' = IF data + 1 >= NSlots THEN 0 ELSE data + 1
          /\ Goto("findData")
  /\ UNCHANGED <<gpt, copies, kern, files, disk, mnt, erased, new, op>>

\* One turn of the userdata loop: past the last entry it goes on from -1.
FindData ==
  /\ pc = "findData"
  /\ IF data \in Slots /\ new[data].name = "userdata"
     THEN Goto("mode") /\ data' = data
     ELSE /\ data' = IF data + 1 > NSlots THEN 0 ELSE data + 1
          /\ Goto("findData")
  /\ UNCHANGED <<gpt, copies, kern, files, disk, mnt, erased, new, op>>

\* Mutant of Intervening: nothing is in the way.
Intervening_Never(g, lo, hi) == FALSE

\* check_intervene(): another entry starts or ends in lo .. hi.
Intervening(g, lo, hi) ==
  \E s \in Slots \ {data, op} : g[s].lo \in lo .. hi \/ g[s].hi \in lo .. hi

\* check_intervene() also looks at the entry behind the table's last, which is
\* whatever memory holds there.
BeyondTable == BOOLEAN

\* -F: userdata takes over OP's blocks, and OP's entry is zeroed.
Merge ==
  LET d == new[data]
      o == new[op]
      merged(lo, hi) == [new EXCEPT ![data].lo = lo, ![data].hi = hi,
                                    ![op] = NoSlice]
      join(lo, hi, adjacent) ==
        \E garbage \in BeyondTable :
          IF ~adjacent /\ (Intervening(new, lo, hi) \/ garbage) THEN Exit
          ELSE /\ new' = merged(lo, hi)
               /\ Goto("confirm")
               /\ UNCHANGED <<gpt, copies, kern, files, disk, mnt, erased, op, data>>
  IN
  /\ pc = "mode" /\ mode = "merge"
  /\ \/ d.lo > o.lo /\ join(o.lo, d.hi, d.lo = o.hi + 1)
     \/ d.lo < o.lo /\ join(d.lo, o.hi, d.hi + 1 = o.lo)
     \/ d.lo = o.lo /\ o.lo = o.hi /\ Exit
     \/ d.lo = o.lo /\ o.lo # o.hi /\ join(d.lo, d.hi, TRUE)

\* -e and -d only change the name.
Rename ==
  /\ pc = "mode" /\ mode \in {"enable", "disable"}
  /\ new' = [new EXCEPT ![op].name = IF mode = "enable" THEN "OP" ELSE "XOPX"]
  /\ Goto("writegpt")
  /\ UNCHANGED <<gpt, copies, kern, files, disk, mnt, erased, op, data>>

Confirm ==
  /\ pc = "confirm"
  /\ \/ Goto("mount") /\ UNCHANGED <<gpt, copies, kern, files, disk, mnt, erased, new, op, data>>
     \/ Exit

\* A /cust left mounted by a killed run makes this one fail (and unmounts it).
MountCust ==
  /\ pc = "mount" /\ mnt = "no"
  /\ mnt' = "ro"
  /\ Goto("readcfg")
  /\ UNCHANGED <<gpt, copies, kern, files, disk, erased, new, op, data>>

\* The sizes are replaced by 0 in memory; a text that is not shorter for it
\* (cur==bufcnt) needs no rewriting.
ReadCfg ==
  /\ pc = "readcfg"
  /\ \/ files.cfg \in {"zeros", "dirty", "empty"} /\ Goto("umount")
     \/ files.cfg = "sizes" /\ Goto("remount")
  /\ UNCHANGED <<gpt, copies, kern, files, disk, mnt, erased, new, op, data>>

ReadCfgWithoutSize ==
  /\ pc = "readcfg"
  /\ files.cfg = "nosize"
  /\ Exit

RemountCust ==
  /\ pc = "remount"
  /\ mnt' = "rw"
  /\ Goto("creat")
  /\ UNCHANGED <<gpt, copies, kern, files, disk, erased, new, op, data>>

FileStep(from, to, fs) ==
  /\ pc = from
  /\ files' = fs
  /\ Goto(to)
  /\ UNCHANGED <<gpt, copies, kern, disk, mnt, erased, new, op, data>>

CreatTmp  == FileStep("creat", "writetmp", [files EXCEPT !.tmp = "empty"])

WriteTmp  == FileStep("writetmp", "rename", [files EXCEPT !.tmp = "dirty"])

\* Mutant of RenameCfg: the old text is not kept.
RenameCfg_NoOrig ==
  FileStep("rename", "link", [files EXCEPT !.cfg = "absent"])

RenameCfg ==
  FileStep("rename", "link", [files EXCEPT !.orig = files.cfg, !.cfg = "absent"])

LinkTmp   == FileStep("link", "umount", [files EXCEPT !.cfg = files.tmp])

UmountCust ==
  /\ pc = "umount"
  /\ Flush
  /\ Goto("discard")
  /\ UNCHANGED <<gpt, copies, kern, erased, new, op, data>>

\* Mutant of DiscardRange: the length of the slice as it was.
DiscardRange_OldSlice == 0 .. gpt[op].hi - gpt[op].lo - 1

\* BLKDISCARD on the whole device, from 0, with the length of the slice in
\* slot op: which has been zeroed by now.
DiscardRange == 0 .. new[op].hi - new[op].lo - 1

Discard ==
  /\ pc = "discard"
  /\ erased' = erased \cup DiscardRange
  /\ Goto("writegpt")
  /\ UNCHANGED <<gpt, copies, kern, files, disk, mnt, new, op, data>>

WriteGpt ==
  /\ pc = "writegpt"
  /\ gpt' = new /\ copies' = "both"
  /\ Goto("rrpart")
  /\ UNCHANGED <<kern, files, disk, mnt, erased, new, op, data>>

WriteGptFails ==
  /\ pc = "writegpt"
  /\ WriteCutShort(new)
  /\ Gone
  /\ Flush
  /\ UNCHANGED <<kern, erased, envVars>>

\* BLKRRPART fails while a slice is in use.
ReloadTable ==
  /\ pc = "rrpart"
  /\ kern' \in {kern, gpt}
  /\ Gone
  /\ Flush
  /\ UNCHANGED <<gpt, copies, erased, envVars>>

\* mkdir, mount, open, read, creat, write, close, rename or link fails.
SystemCallFails ==
  /\ pc \in {"mount", "readcfg", "remount", "creat", "writetmp", "rename", "link"}
  /\ Exit

------------------------------------------------------------------------------
(* The environment. *)

\* The journal takes the names of the files to the media, and what text it has.
Journal ==
  /\ mnt = "rw"
  /\ disk' = Settle(files, "empty")
  /\ UNCHANGED <<gpt, copies, kern, files, mnt, erased, progVars, envVars>>

\* The kernel writes the text of a file back.
WriteBack ==
  /\ files' = Settle(files, "zeros")
  /\ UNCHANGED <<gpt, copies, kern, disk, mnt, erased, progVars, envVars>>

\* In the middle of writegpt(), too.
Interrupted ==
  IF pc = "writegpt" THEN WriteCutShort(new) ELSE UNCHANGED <<gpt, copies>>

Kill ==
  /\ pc # "idle"
  /\ Interrupted
  /\ Gone
  /\ UNCHANGED <<kern, files, disk, mnt, erased, envVars>>

\* A reset: what is on the media comes back.  The kernel takes the backup copy of
\* the table only when it is told to.
Reboot ==
  /\ Interrupted
  /\ kern' \in CASE copies' = "none"   -> {NoTable}
               [] copies' = "backup" -> {NoTable, gpt'}
               [] OTHER              -> {gpt'}
  /\ files' = disk
  /\ mnt' = "no"
  /\ Gone
  /\ UNCHANGED <<disk, erased, envVars>>

------------------------------------------------------------------------------

Init ==
  /\ gpt \in Layouts /\ copies = "both"
  /\ kern = gpt
  /\ files \in {[cfg |-> t, orig |-> "absent", tmp |-> "absent"] :
                  t \in CfgTexts}
  /\ disk = files
  /\ mnt = "no"
  /\ erased = {}
  /\ pc = "idle" /\ mode = "none" /\ new = NoTable
  /\ op = 0 /\ data = 0
  /\ gpt0 = gpt /\ cfg0 = files.cfg

\* The program's own steps, which go on as long as it is not killed.
Step ==
  \/ FindOP \/ FindData \/ Merge \/ Rename \/ Confirm
  \/ MountCust \/ ReadCfg \/ ReadCfgWithoutSize \/ RemountCust
  \/ CreatTmp \/ WriteTmp \/ RenameCfg \/ LinkTmp \/ UmountCust
  \/ Discard \/ WriteGpt \/ WriteGptFails \/ ReloadTable \/ SystemCallFails

RmNext ==
  \/ \E m \in {"enable", "disable", "merge"} : Start(m)
  \/ StartWithoutDevice
  \/ Step
  \/ Journal \/ WriteBack \/ Kill \/ Reboot

RmSpec == Init /\ [][RmNext]_rmVars /\ WF_rmVars(Step)

------------------------------------------------------------------------------
(* Properties. *)

\* The types of the variables.
RmTypeOK ==
  /\ gpt \in Gpts /\ kern \in Gpts /\ new \in Gpts /\ copies \in CopyStates
  /\ files \in Files /\ disk \in Files
  /\ mnt \in {"no", "ro", "rw"}
  /\ erased \subseteq 0 .. LastBlock
  /\ pc \in {"idle", "findOP", "findData", "mode", "confirm", "mount", "readcfg",
             "remount", "creat", "writetmp", "rename", "link", "umount",
             "discard", "writegpt", "rrpart"}
  /\ mode \in {"none", "enable", "disable", "merge"}
  /\ op \in 0 .. NSlots /\ data \in 0 .. NSlots
  /\ pc = "idle" <=> mode = "none"
  /\ op = 0 => pc \in {"idle", "findOP"}

\* The text official_op_resize.cfg had at the start survives every crash,
\* failure and rerun: in its place, or under the name .orig.
CfgTextKept == cfg0 \in {disk.cfg, disk.orig}

\* rmOP takes the OP slice out of the table only when the cfg no longer gives OP a
\* size, on the media neither, unless umount() found /cust busy: it is replaced
\* and flushed before the table is written.
OpGoneAfterCfg ==
  [][ pc = "writegpt" /\ mode = "merge" /\ gpt' # gpt =>
        files.cfg # "sizes" /\ (mnt = "no" => disk.cfg # "sizes") ]_rmVars

\* As long as there is a table: on a phone that had a sound one, slices that did
\* not overlap do not overlap now; all but userdata and OP are as they were;
\* userdata has lost nothing; OP's blocks are still OP's or userdata's.  What the
\* table says counts wherever it was read, in the primary copy or the backup.
SlicesKept ==
  Sound(gpt0) /\ copies # "none" =>
    /\ \A s, t \in Slots :
         s # t /\ Blocks(gpt0[s]) \cap Blocks(gpt0[t]) = {}
           => Blocks(gpt[s]) \cap Blocks(gpt[t]) = {}
    /\ \A s \in Slots :
         CASE gpt0[s].name = "userdata" ->
                /\ gpt[s].name = "userdata"
                /\ Blocks(gpt0[s]) \subseteq Blocks(gpt[s])
           [] gpt0[s].name \in {"OP", "XOPX"} ->
                Blocks(gpt0[s]) \subseteq
                  Blocks(gpt[s]) \cup UNION {Blocks(gpt[d]) : d \in Named(gpt, {"userdata"})}
           [] OTHER -> gpt[s] = gpt0[s]

\* BLKDISCARD throws away neither the GPT nor a block of a slice in use.
NothingInUseErased ==
  /\ erased \cap (0 .. FirstData - 1) = {}
  /\ \A s \in Slots : gpt[s].name # "OP" => erased \cap Blocks(gpt[s]) = {}

\* Every run comes to an end; "userdata is on different device from OP, unable
\* to free" is one of the ends the code has a message for.
EveryRunEnds == []<>(pc = "idle")
==============================================================================
