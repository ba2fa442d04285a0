------------------------------ MODULE DirtySanta ------------------------------
(***************************************************************************)
(* dirtysanta.c: backs up four slices to files, then writes aboot.img over *)
(* the boot loader's slice, aboot.  Everything is done by copyfile(), here *)
(* one block at a time.  The program may be killed anywhere and run again. *)
(*                                                                         *)
(* Contents are sequences of blocks; a slice has a fixed size, a file      *)
(* grows and is truncated.                                                 *)
(***************************************************************************)
EXTENDS Integers, Sequences, SequencesExt

CONSTANTS
  Block,       \* what a block can hold
  Gone, Zero,  \* a discarded block, a block of a file that was lengthened
  Stock,       \* the slices' contents at the start
  Images,      \* what aboot.img may hold
  OldBackups,  \* what an older abootbackup.img may hold
  Absent       \* there is no such file

\* backuplist, in its order; "fdt" is a file under /sys that cannot be mapped.
BackupList == <<"aboot", "boot", "recovery", "fdt">>
Slices     == Range(BackupList)
Data       == Block \cup {Gone, Zero}

ASSUME DirtySantaAssumption ==
  /\ Stock \in [Slices -> Seq(Block)] /\ \A s \in Slices : Stock[s] # <<>>
  /\ Images \subseteq Seq(Block) \cup {Absent}
  /\ OldBackups \subseteq Seq(Block) \cup {Absent}
  /\ Absent \notin Seq(Data)

VARIABLES
  slice,    \* contents of the slices
  backup,   \* contents of their backup files
  image,    \* contents of aboot.img
  pc,       \* what main() is doing, or how it ended
  step,     \* the entry of backuplist being copied
  at,       \* where copyfile() is: "open", "write" or "tail"
  pos,      \* blocks it has written
  aboot0    \* history: aboot when the program was started

vars == <<slice, backup, image, pc, step, at, pos, aboot0>>
Busy == {"backup", "flash", "revert"}
Ends == {"finished", "skipped", "notopened", "reverted", "panic", "exit", "killed"}

\* The copyfile() call at hand; the flash and its reversal have the same source,
\* "aboot.img", main() being in its directory since dobackups().
Source   == IF pc = "backup" THEN slice[BackupList[step]] ELSE image
Target   == IF pc = "backup" THEN backup[BackupList[step]] ELSE slice["aboot"]
ToDevice == pc # "backup"

SetTarget(data) ==
  IF ToDevice
  THEN slice' = [slice EXCEPT !["aboot"] = data] /\ backup' = backup
  ELSE backup' = [backup EXCEPT ![BackupList[step]] = data] /\ slice' = slice

Contents(file) == IF file = Absent THEN <<>> ELSE file
Resized(data, n) ==
  [k \in 1 .. n |-> IF k <= Len(data) THEN data[k] ELSE Zero]
\* A file after ftruncate() to n blocks, whose result nobody looks at.
Cut(data, n) == {data, Resized(data, n)}
Call == at' = "open" /\ pos' = 0

------------------------------------------------------------------------------
(* main() and dobackups(): what follows copyfile()'s result, which is the  *)
(* size copied, "empty" for a size of 0, "error" for -1, "torn" for -100.  *)

\* Mutant of AfterBackup: a backup that failed does not stop the program.
AfterBackup_Ignored(result) ==
  IF step < Len(BackupList) THEN step' = step + 1 /\ pc' = pc
  ELSE pc' = "flash" /\ step' = step

AfterBackup(result) ==
  IF result # "copied" THEN pc' = "exit" /\ step' = step
  ELSE IF step < Len(BackupList) THEN step' = step + 1 /\ pc' = pc
  ELSE pc' = "flash" /\ step' = step

AfterFlash(result) ==
  pc' = CASE result = "copied" -> "finished"
          [] result = "empty"  -> "skipped"
          [] result = "error"  -> "notopened"
          [] result = "torn"   -> "revert"

Returned(result) ==
  /\ Call
  /\ \/ pc = "backup" /\ AfterBackup(result)
     \/ pc = "flash" /\ AfterFlash(result) /\ step' = step
     \/ /\ pc = "revert" /\ step' = step
        /\ pc' = IF result = "copied" THEN "reverted" ELSE "panic"

\* aboot.img may have been replaced since the last run.
Start ==
  /\ pc \in Ends
  /\ pc' = "backup" /\ step' = 1
  /\ Call
  /\ image' \in Images
  /\ aboot0' = slice["aboot"]
  /\ UNCHANGED <<slice, backup>>

------------------------------------------------------------------------------
(* copyfile(). *)

\* Mutant of Identical: the sizes are compared, and not the data.
Identical_SizeOnly(src, dst) == Len(src) <= Len(dst)

Identical(src, dst) == IsPrefix(src, dst)

Unmappable == Source = <<>> \/ (pc = "backup" /\ BackupList[step] = "fdt")

\* open(), lseek() or malloc() fails; the target may have been created.
OpenFails ==
  /\ pc \in Busy /\ at = "open"
  /\ \/ UNCHANGED <<slice, backup>>
     \/ Source # Absent /\ SetTarget(Contents(Target))
  /\ Returned("error")
  /\ UNCHANGED <<image, aboot0>>

\* A source of size 0 cannot be mapped; nor is there anything to copy.
EmptySource ==
  /\ pc \in Busy /\ at = "open"
  /\ Source = <<>>
  /\ SetTarget(IF ToDevice THEN Target ELSE <<>>)
  /\ Returned("empty")
  /\ UNCHANGED <<image, aboot0>>

\* Already there: at most the file's size is wrong.
SkipIdentical ==
  /\ pc \in Busy /\ at = "open"
  /\ Source # Absent /\ ~Unmappable
  /\ Identical(Source, Contents(Target))
  /\ \E data \in IF ToDevice THEN {Target} ELSE Cut(Contents(Target), Len(Source)) :
       SetTarget(data)
  /\ \E result \in {"copied", "error"} : Returned(result)
  /\ UNCHANGED <<image, aboot0>>

\* What cannot be mapped is compared and copied page by page, into a file that
\* is given its size before, if that can be done.  A target that cannot be mapped
\* is written, identical or not.
BeginCopy ==
  /\ pc \in Busy /\ at = "open"
  /\ Source # Absent /\ Source # <<>>
  /\ \E data \in IF Unmappable THEN Cut(Contents(Target), Len(Source))
                               ELSE {Contents(Target)} :
       SetTarget(data)
  /\ at' = "write" /\ pos' = 0
  /\ UNCHANGED <<image, pc, step, aboot0>>

\* Mutant of Room: a slice has room for everything.
Room_Unlimited == TRUE

\* A slice has its size; and page by page the target is read as well.
Room == ToDevice \/ Unmappable => pos < Len(Target)

WriteBlock ==
  /\ pc \in Busy /\ at = "write" /\ pos < Len(Source)
  /\ Room
  /\ SetTarget([k \in 1 .. IF pos < Len(Target) THEN Len(Target) ELSE pos + 1 |->
                  IF k = pos + 1 THEN Source[k] ELSE Target[k]])
  /\ pos' = pos + 1
  /\ at' = IF pos' = Len(Source) THEN "tail" ELSE "write"
  /\ UNCHANGED <<image, pc, step, aboot0>>

\* Mutant of WriteFails: a short write() is a good one.
WriteFails_ShortIsGood ==
  /\ pc \in Busy /\ at = "write"
  /\ Returned(IF pos > 0 THEN "copied" ELSE "torn")
  /\ UNCHANGED <<slice, backup, image, aboot0>>

\* write() fails or is short, for want of room or otherwise.
WriteFails ==
  /\ pc \in Busy /\ at = "write"
  /\ Returned("torn")
  /\ UNCHANGED <<slice, backup, image, aboot0>>

\* The rest of the device is discarded if it can be; a file is cut, if it can be,
\* but for one that was copied page by page; close().
Finish ==
  /\ pc \in Busy /\ at = "tail"
  /\ IF ToDevice
     THEN \/ UNCHANGED <<slice, backup>>
          \/ SetTarget([k \in DOMAIN Target |->
                          IF k <= Len(Source) THEN Target[k] ELSE Gone])
     ELSE \E data \in IF Unmappable THEN {Target} ELSE Cut(Target, Len(Source)) :
            SetTarget(data)
  /\ \E result \in {"copied", "torn"} : Returned(result)
  /\ UNCHANGED <<image, aboot0>>

Kill ==
  /\ pc \in Busy
  /\ pc' = "killed"
  /\ Call
  /\ UNCHANGED <<slice, backup, image, step, aboot0>>

------------------------------------------------------------------------------

Init ==
  /\ slice = Stock
  /\ backup \in [Slices -> {Absent} \cup OldBackups]
  /\ \A s \in Slices \ {"aboot", "fdt"} : backup[s] = Absent
  /\ image \in Images
  /\ pc = "exit" /\ step = 1 /\ at = "open" /\ pos = 0
  /\ aboot0 = slice["aboot"]

Next ==
  \/ Start
  \/ OpenFails \/ EmptySource \/ SkipIdentical \/ BeginCopy
  \/ WriteBlock \/ WriteFails \/ Finish
  \/ Kill

Spec == Init /\ [][Next]_vars

------------------------------------------------------------------------------
(* Properties. *)

\* The types of the variables; a slice keeps its size.
TypeOK ==
  /\ DOMAIN slice = Slices
  /\ \A s \in Slices : slice[s] \in Seq(Data) /\ Len(slice[s]) = Len(Stock[s])
  /\ \A s \in Slices : backup[s] = Absent \/ backup[s] \in Seq(Data)
  /\ image \in Images
  /\ pc \in Busy \cup Ends
  /\ step \in DOMAIN BackupList
  /\ at \in {"open", "write", "tail"} /\ pos \in Nat
  /\ aboot0 \in Seq(Data)

\* The file is a copy of the data; one that was longer may have kept its end.
Copied(file, data) == IsPrefix(data, Contents(file))

\* From the first write to aboot until the run ends, every backup file is a
\* whole copy of its slice as the run found it ("backup the crucial slices"),
\* with nothing behind it but the end of an older, longer file.
BackupHeldWhileFlashing ==
  pc \in {"flash", "revert"} =>
    /\ Copied(backup["aboot"], aboot0)
    /\ \A s \in Slices \ {"aboot"} : Copied(backup[s], slice[s])

\* "Finished. Please run Step 2 now." is said only of an aboot that begins with
\* the whole image.
FinishedMeansFlashed == pc = "finished" => IsPrefix(image, slice["aboot"])

OriginalHeld ==
  slice["aboot"] = Stock["aboot"] \/ Copied(backup["aboot"], Stock["aboot"])

\* The boot loader the phone came with disappears from both the slice and the
\* backup file only in a later run, one that found another aboot: as long as it
\* is there when a run begins, that run does not lose it, however it ends.
OriginalLostOnlyLater ==
  [][ OriginalHeld /\ ~OriginalHeld' => aboot0 # Stock["aboot"] ]_vars

\* "Reinstallation of Aboot succeeded": the aboot the run began with is back.
RevertRestores == pc = "reverted" => slice["aboot"] = aboot0
==============================================================================
