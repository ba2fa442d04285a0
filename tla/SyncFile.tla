------------------------------- MODULE SyncFile -------------------------------
(***************************************************************************)
(* syncfile.c: copies the boot image (BootImage) to another file, or to    *)
(* the flash device it is booted from, page by page and only where they    *)
(* differ.  The programs are started by hand, one at a time.               *)
(***************************************************************************)
EXTENDS BootImage

CONSTANTS
  Targets,      \* what the target may hold at the start, with its kind
  BlockSizes    \* what "blksz" may be after BLKSSZGET

\* ioctl() fills four of the eight bytes of "blksz"; with what was in the others
\* it is the block size, or huge, or negative.
ASSUME SyncFileAssumption ==
  /\ \A t \in Targets : t.device \in BOOLEAN /\ IsSequence(t.units)
  /\ BlockSizes \subseteq {"right", "huge", "negative"}

VARIABLES
  target,    \* the target's units
  device,    \* it is a device
  spc,       \* where copyfile() is
  blksz,     \* the "blksz" of the latest copyfile()
  page,      \* its counter
  sret       \* what the latest copyfile() returned: "none", "size" or "failed"

syncVars == <<target, device, spc, blksz, page, sret>>
vars     == <<imageVars, syncVars>>

\* Mutant of Pages: what does not fill a page is not counted.
Pages_Down == Len(image) \div P

\* copyfile() counts by where a page starts.
Pages == Space(Len(image)) \div P

------------------------------------------------------------------------------

SyncReturn(r) ==
  /\ spc' = "idle" /\ sret' = r
  /\ page' = 0
  /\ UNCHANGED <<imageVars, device, blksz>>

SyncGoto(label) ==
  /\ spc' = label
  /\ UNCHANGED <<imageVars, device, blksz, sret>>

\* A shorter file is extended to be mapped; a device cannot be, and is mapped
\* as if it had.
Mapped ==
  IF device \/ Len(target) >= Len(image) THEN target ELSE Resize(target, Len(image))

SyncStart ==
  /\ pc = "idle" /\ spc = "idle"
  /\ \/ /\ target' = Mapped
        /\ spc' = IF device THEN "copy" ELSE "compare"
        /\ blksz' \in IF device THEN BlockSizes ELSE {"right"}
        /\ sret' = "none"
     \/ \* open() or mmap() fails
        /\ target' \in {target, Mapped}
        /\ spc' = "idle" /\ blksz' = "right" /\ sret' = "failed"
  /\ UNCHANGED <<imageVars, device, page>>

\* Some of the image has been written, whole pages or all of it.
Some      == {n \in 0 .. Len(image) : n % P = 0} \cup {Len(image)}
Prefix(n) == Write(target, 0, Read(image, 0, n))

\* What is in the way of the file's new end may stay there: ftruncate() is not
\* looked at.  close() may fail.
CompareFile ==
  /\ spc = "compare"
  /\ \/ /\ Read(target, 0, Len(image)) = image
        /\ target' \in {image, target}
        /\ SyncReturn("size") \/ SyncReturn("failed")
     \/ /\ Read(target, 0, Len(image)) # image
        /\ SyncGoto("write")
        /\ UNCHANGED <<target, page>>

\* One write(); less than all of it is a failure.  close() may fail after it.
WriteFile ==
  /\ spc = "write"
  /\ \E n \in Some :
       /\ target' = Prefix(n)
       /\ SyncReturn("failed") \/ (n = Len(image) /\ SyncReturn("size"))

\* Mutant of CopyPage: the last page is copied only when it is full.
CopyPage_FullOnly ==
  /\ spc = "copy" /\ blksz = "right"
  /\ (page + 1) * P <= Len(image) /\ (page + 1) * P <= Len(target)
  /\ target' = Write(target, page * P, Padded(Read(image, page * P, P)))
  /\ page' = page + 1
  /\ SyncGoto("copy")

\* Mutant of CopyPage: it goes on to the end of the device.
CopyPage_ToEnd ==
  /\ spc = "copy" /\ blksz = "right"
  /\ (page + 1) * P <= Len(target)
  /\ target' = Write(target, page * P, Padded(Read(image, page * P, P)))
  /\ page' = page + 1
  /\ SyncGoto("copy")

CopyPage ==
  /\ spc = "copy" /\ blksz = "right"
  /\ page < Pages /\ (page + 1) * P <= Len(target)
  /\ target' = Write(target, page * P, Padded(Read(image, page * P, P)))
  /\ page' = page + 1
  /\ SyncGoto("copy")

\* The mapping goes on behind the end of the device; or the one "page" is
\* larger than the mappings, and what is copied of it before the fault anything.
Fault ==
  /\ spc = "copy"
  /\ \/ blksz = "right" /\ page < Pages /\ (page + 1) * P > Len(target) /\ target' = target
     \/ blksz = "huge" /\ \E n \in {n \in Some : n <= Len(target)} : target' = Prefix(n)
  /\ SyncReturn("none")

\* What is behind the image is discarded, or that fails.  With a negative size
\* of pages there are none to be copied.
FinishDevice ==
  /\ spc = "copy"
  /\ (blksz = "right" /\ page >= Pages) \/ blksz = "negative"
  /\ target' \in {target, [i \in DOMAIN target |-> IF i <= Len(image) THEN target[i] ELSE Zero]}
  /\ \/ SyncReturn("size")
     \/ SyncReturn("failed")       \* close()

\* A killed write() has written some of the file.
SyncKill ==
  /\ spc # "idle"
  /\ IF spc = "write" THEN \E n \in Some : target' = Prefix(n)
                      ELSE target' = target
  /\ SyncReturn("none")

SyncStep == CompareFile \/ WriteFile \/ CopyPage \/ Fault \/ FinishDevice

Init ==
  /\ ImageInit
  /\ \E t \in Targets : target = t.units /\ device = t.device
  /\ spc = "idle" /\ blksz = "right" /\ page = 0 /\ sret = "none"

\* From the start of a script on, the latest result is that of another image.
ScriptStarts ==
  \E w \in 1 .. 2 : spc = "idle" /\ Start(w) /\ sret' = "none" /\ blksz' = "right"

Next ==
  \/ ScriptStarts /\ UNCHANGED <<target, device, spc, page>>
  \/ (Step \/ Kill) /\ UNCHANGED syncVars
  \/ SyncStart \/ SyncStep \/ SyncKill

Spec ==
  Init /\ [][Next]_vars /\ WF_vars(Step /\ UNCHANGED syncVars) /\ WF_vars(SyncStep)

------------------------------------------------------------------------------
(* Properties. *)

\* The types of the variables; positions stay within the file, or what its header
\* speaks of, and page counts within the image.
TypeOK ==
  /\ pc \in {"idle", "kernel", "ramdisk", "grow", "write", "shrink", "truncate", "header"}
  /\ what \in 1 .. 2 /\ ret \in {0, 1} /\ runs \in 0 .. MaxRuns
  /\ pc # "idle" => head = image[1] /\ pos \in 0 .. Longer(Len(image), Total(head)) + P
  /\ pc = "idle" <=> head = <<>>
  /\ image[1][1] = "head"
  /\ spc \in {"idle", "compare", "write", "copy"} /\ (spc # "idle" => pc = "idle")
  /\ page \in 0 .. Pages
  /\ blksz \in BlockSizes \cup {"right"}
  /\ sret \in {"none", "size", "failed"}

\* When copyfile() returns the size, the target holds the source: a device from
\* its first block on, a file as a whole, except that one which was longer may
\* keep its end.  The exception is a block size that was read as a negative
\* number: nothing is copied then, and the size is returned all the same.
SyncedMeansCopied ==
  [][ sret' = "size" /\ spc # "idle" /\ blksz # "negative" =>
        /\ Read(target', 0, Len(image)) = image
        /\ Len(target) <= Len(image) /\ ~device => target' = image
        /\ device => Len(target') = Len(target) ]_vars

\* From image file to flash: after finished runs of the scripts, in any order,
\* and of syncfile, whatever of these was killed in between and repeated, a boot
\* loader finds each section as a whole, of one version.  (The exceptions are a
\* script killed while it changed the image, which is lost, and a latest run of
\* syncfile that read a negative block size and has copied nothing.)
InstalledBoots ==
  sret = "size" /\ blksz # "negative" /\ ~spoiled =>
    /\ HoldsAll(target)
    /\ \A s \in 1 .. 4 : \E v \in 0 .. MaxRuns :
         Section(target, s) = Units(Sections[s], v, Size(target[1], s))

\* Every run of either program ends, of the scripts those on a file that holds
\* all its header speaks of.
EveryRunEnds ==
  /\ []<>(pc = "idle" \/ ~HoldsAll(began))
  /\ []<>(spc = "idle")
==============================================================================
