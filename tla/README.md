# lg-v20-tools: a TLA+ model

`lg-v20-tools` are command line programs that rewrite the flash of an LG V20 while the
phone is running: partition tables, the boot loader, whole slices from the vendor's KDZ
files.  Almost everything they do is irreversible, is done in several steps, and may be
interrupted by a signal, an I/O error or a power cut.  The repository has no tests and no
documentation besides usage texts and comments; what the programs promise is read from
those.  Paths and line numbers below are relative to `src/src/`.

## 1. Inventory

| Part | State it keeps | Operations | Talks to |
|---|---|---|---|
| **GPT library** `gpt.c`, `gpt.h` | none; the two copies of the partition table on a device | `readgpt`, `readgptb`, `testgpt`; `writegpt`, `_writegpt`, `__writegpt`, `__gptpwrite`; `comparegpt`; `writegptboot` (no caller) | block devices through the page cache; called by rmOP and the KDZ library |
| **rmOP** `rmOP.c` | table of the device with OP; `official_op_resize.cfg` on the cust slice; the kernel's table | `-e`, `-d`, `-F`; `check_intervene` | GPT library, mount/umount, BLKDISCARD, BLKRRPART |
| **KDZ library** `kdz.c`, `kdz.h` | the mapped KDZ file and mapped disks; an unpack context per chunk | `open_kdzfile`, `test_kdzfile`, `report_kdzfile`, `fix_gpts`, `write_kdzfile`, `unpackchunk*` | GPT library, zlib, MD5, block devices; reads the cfg file rmOP rewrites |
| **kdzwriter** `kdzwriter.c` | option bits; kernel modules in memory | option parsing, confirmation, `read_kmods`, `write_kmods` | KDZ library, mount/umount of /system |
| **Dirty Santa** `dirtysanta.c` | slices aboot, boot, recovery; backup files; `aboot.img` | `dobackups`, `copyfile`, flash and reversal, `tryexec` | block devices, /storage/emulated/0 |
| **syncfile** `syncfile.c` | source and target file | `copyfile` | files or devices |
| **fix-h990-modem** `fix-h990-modem.c`, `bootimg.h` | misc slice, boot image, sysfs | `read_misc`, `write_misc`, `write_sysfs`, `write_bootimg` | block devices |
| **boot image scripts** `../scripts/switch-bootimg-kernel.py`, `../scripts/bootimg-mod-ramdisk.py` | a boot image file, edited in place | replace the kernel; change the ramdisk | what syncfile installs |
| **other scripts** `../scripts/rr*.py`, `unlock-boot-v20.py` | resource images, a boot loader file | decode, encode, patch bytes | offline files |
| `md5.c`, `my-run-as.cpp`, `packagelistparser.c`, `../include/selinux` | - | run-time linking wrapper; third-party code | - |

How they meet: rmOP and `kdzwriter -P` (`fix_gpts`) share the partition table and the cfg
file, by which the second learns how large OP is to be; all table writes go through
`writegpt`; `kdzwriter` asks `test_kdzfile` before any writing and calls `fix_gpts` or
`write_kdzfile`; the kernel keeps a table of its own until BLKRRPART, and a page cache per
opened device.

What is hard here, and what makes each part correct:

* **GPT library.** Two copies written block by block, each block only if it differs. After
  any interruption a reader must find a whole table, the old one or the new; success means
  both copies; no block of the data area is touched; the backup copy must be first *on the
  media*.
* **rmOP.** Two stores (table and cfg file) change in one command, with a rename and a link
  that are not atomic together, a journal, and a discard of raw blocks. The cfg text must
  never be lost, the table must not lose OP before the cfg says so, no block in use is
  discarded, every run ends.
* **test_kdzfile.** A verdict over chunks in the order of the file, with early exits, bits that
  only fall, two copies of the phone's table and one of the KDZ's.  A file may be accepted only
  when it fits the phone, in whatever order its chunks are, and be refused only for a cause; what
  rmOP changed is none.
* **fix_gpts.** Several devices in turn, a result from a file another tool rewrites, signed
  arithmetic on the border between OP and userdata. The restored table must agree with the
  cfg file and must leave userdata where it was when nothing changed.
* **write_kdzfile.** Chunks verified one at a time; comparison with a mapping that does not
  see the slice's own cache; a buffer reused between chunks; unsigned lengths for TRIM.
  Only verified data is written, success means the slice holds what the KDZ file says,
  nothing is written under a mounted file system, only spare blocks are discarded.
* **kdzwriter.** Options in any order; /system unmounted, read, overwritten and mounted
  again. Nothing is written without consent and the verdict it needs; the modules are in
  memory before /system is overwritten.
* **Dirty Santa.** Backup, flash, reversal. While aboot is being overwritten its backup is
  complete.
* **Boot image scripts, syncfile.** Sections moved page by page inside one file, the header last;
  then a copy to the flash by pages of a size the kernel only half fills in. A finished script
  has replaced one section and kept the others; what is reported as copied is; what is installed
  can be booted.
* **fix-h990-modem.** A text patched in place, over and over, by keys and lengths; four stores
  changed one after the other. Nothing but the program's own words may change, a rerun
  changes nothing, the next kernel is told what the running one was told, a copy through a
  pipe is complete or fails.

The full list of hazards, with lines, is in `PROJECT.json`.

## 2. Modules

| Module | Models | Composes |
|---|---|---|
| `AtomicGpt` | what `writegpt()` promises: the table changes in one step | - |
| `Gpt` | `gpt.c` over page cache and media | implements `AtomicGpt` (`ImplementsAtomicGpt`) |
| `GptProofs` | theorems about `Gpt` | extends `Gpt`, `TLAPS` |
| `GptRefinement` | the theorem that `Gpt` implements `AtomicGpt` | extends `GptProofs` |
| `RmOP` | `rmOP.c`; uses `writegpt()` by its promise | - |
| `FixGpts` | `fix_gpts()` with rmOP on the same phone | extends `RmOP`, instantiates `KdzTest` |
| `FixGptsProofs` | theorems about rmOP and `fix_gpts()` | extends `FixGpts`, `TLAPS` |
| `KdzSlice` | `write_kdzfile()`, `unpackchunk*()` | - |
| `KdzSliceProofs` | theorems about `KdzSlice` | extends `KdzSlice`, `TLAPS` |
| `KdzTest` | `open_kdzfile()`, `test_kdzfile()`, `comparegpt()` as operators; what a verdict is to mean | - |
| `KdzWriter` | `kdzwriter.c`; the KDZ library's writers by their results | extends `KdzTest` |
| `KdzWriterProofs` | theorems about `KdzWriter` and the verdict of `KdzTest` | extends `KdzWriter`, `TLAPS` |
| `DirtySanta` | `dirtysanta.c` | - |
| `DirtySantaProofs` | theorems about `DirtySanta` | extends `DirtySanta`, `TLAPS` |
| `FixModem` | `fix-h990-modem.c`, the header of `bootimg.h` | - |
| `FixModemProofs` | theorems about `FixModem` | extends `FixModem`, `TLAPS` |
| `BootImage` | both boot image scripts on one file | - |
| `SyncFile` | `syncfile.c`, which installs that file | extends `BootImage` |
| `SyncFileProofs` | theorems about `SyncFile` and `BootImage` | extends `SyncFile`, `TLAPS` |
| `MCGpt`, `MCRmOP`, `MCOpSlice`, `MCKdzSlice`, `MCKdzWriter`, `MCDirtySanta`, `MCFixModem`, `MCBootInstall` | instances for TLC | |

`RmOP` and `FixGpts` write a table in one step, or have it cut short.  While the primary copy is
whole at the start that is `AtomicGpt`, which `Gpt` is proved to implement (`WritesAtomically`): the
table found afterwards is the old one or the new.  Which copies are whole is a variable of `RmOP`
(`copies`), since it decides what the next command meets: a write of another table that starts
with nothing but the backup copy may leave no table at all (`CutShort`), and the test before
`fix_gpts()` refuses a device whose copies differ. The promise holds for a descriptor opened O_SYNC
or a machine that keeps its power; `fix_gpts` opens without O_SYNC, which `gpt_media` shows to
matter, and so `FixGpts` has no power cut while it has the devices open.

### Correspondence

**Gpt.** `media` is what survives a power cut, `cache` what programs read; `sync` says
whether the descriptor is O_SYNC. A block is an entry block of some table, a header
`[my, alt, es, ds, de, tbl]` (the CRCs are the table's identity: a header is valid when
`my`'s entries are those of `tbl`), or anything else. `head`, `at`, `i` are the local header
of `_writegpt()`, the copy being written and the loop of `__gptpwrite()`. One action per
block written. `Begin` has all refusals of lines 292-344, with `Sane` in 64-bit arithmetic
(`Sub64`, `Add64`) because a wrong `altLBA` makes it wrap. `WriteModified` is rmOP's way
in (the header just read, another table), `WriteImage` that of `fix_gpts` (a header and a
table from the KDZ file). `IOFailure`, `Kill`, `PowerCut` and `WriteBack` interrupt at any
block. `old` and `target` are history: the table a reader found when the command began, and the one
asked for. Any command may follow one that was interrupted, in `Begin`, while the primary
copy is whole. When only the backup copy is, the model has the same command again and not another
one: that would begin by overwriting the only whole copy, nothing in the code prevents it,
and the promise does not hold for it. `RmOP` has this case (`CutShort`), and its properties say
"as long as there is a table".

**RmOP.** `gpt` is the table on the device, `kern` the kernel's, `files` the cust directory
as programs see it and `disk` what a power cut leaves of it, `erased` what BLKDISCARD threw
away. `pc` names the next call of `main()`; each call that may fail has its failure in
`SystemCallFails` or beside it, and `Exit` is the label `abort:` with its `umount`. ext4 is
modelled as ordered by directory operation (`Journal`), with file data written any time
later (`WriteBack`). `Flush` is `umount("/cust")`, whose result nobody looks at (`rmOP.c:498`): it
may find the file system busy and leave everything as it was. A table write that fails, or in
which the process is killed or the power goes, leaves one of `CutShort`.

**FixGpts.** `kpc` walks through `fix_gpts()`; `opsz` is the size read from the cfg, in
blocks. `read()` does not end the text (`kdz.c:752-761`): a file without "=" is searched in memory
nobody wrote to, and a number at the end of the text may go on there. `SizeIn` has what is
written or any of `StraySizes`, which the theorems take to be any size at all, and `goesOn`
says that the text goes on behind its first number. `AdjustOP` is lines 840-873 in numbers that
wrap (`Wrap`; `W` is 2^64). rmOP and `fix_gpts` run one at a time, in any order, any number of
times. `kdzwriter` gets to `fix_gpts()` only when the test of the tables finds no fault
(`Accepts`: both copies of each device's table are there and equal, and `Matches`, by `KdzTest`);
`OnlyCutShortRefuses` says that the only thing the two programs do that makes a phone lose that is
to have a table write cut short.

**KdzTest.** A KDZ file is a sequence of chunks; a chunk has a name, a device, how its contents
compare with the device (a checksum that fails, blocks beyond the device), its size in the file
and, for the two GPT chunks, its length, which end of the device it is for and the table in it.
`ChunkVerdict` is a turn of the loop at lines 346-545 on the set of bits of `maxreturn`, `Verdicts`
the loop as a recursive function of the number of turns,
`GptVerdict` its special case, `TableVerdict` lines 518-536, `EntryFails` and `IdDiffers`
`test_kdzfile_gpt_entry()`. `Unpacks` has the consequence of the loop at line 459, which never
counts: a backup chunk longer than the buffer runs out of data. The last part of the module is no
code: `Fit` says, without order and early exits, how well a file fits a phone, `Judgeable` that
it is not damaged. `Handled` is a list of limits of the code, not of the file: data beyond the end of
the device (a fault at line 429), chunks whose length is not the one the code takes for granted
(line 459), two copies on the phone that differ or cannot be read (line 496, `AgreeingCopies`).
`RefusedForCause` leaves these refusals out and so does not call them right: the first two stop the
program over a file that is in order, against the comment of line 458 ("chew off enough for the
remainder to fill buffer"), and the third refuses to repair what only this command could.

**KdzSlice.** One slice. `media` and `dirty` are the disk and the slice's own page cache;
`view` is the whole-disk mapping of `open_kdzfile()` (`kdz.c:259`): each of its pages was read at
some time before (`ReadPage`) and stays as it was. A comparison sees the page or the disk
(`Seen`), for the kernel may have dropped the page. `i`, `j`, `buf`,
`ctx` are the function's variables. `Unpack`, `Verify`, `WriteBlock`, `Discard` are its
phases per chunk; a write step is a block.

**KdzWriter.** `mode` is the set of option bits (`Bits`), `CheckMode` and `BadMode` the tests
at lines 78-134. The result of `test_kdzfile` is that of `KdzTest` for some KDZ file
and phone; those of `fix_gpts`, `write_kdzfile` and every system call in `read_kmods` and
`write_kmods` are chosen freely. `WriteKmods` puts the saved modules beside those that came with
the new system (`Beside`). History variables hold what was written with what consent, and
what the KDZ file was really worth.

**DirtySanta.** `copyfile()` is one set of actions used for backup, flash and reversal, a
step for each block written; its results are the code's -100, -1, 0 and size. The
`ftruncate()`s whose results are ignored (lines 325, 365, 403) may fail (`Cut`), so a backup over
a longer file may keep that file's end, and the properties ask for its beginning (`Copied`). A kill
may come anywhere; the power does not go.

**FixModem.** `misc`, `sysfs` and `image` are the stores; `pc` follows `main()` and
`write_bootimg()`. A command line is a sequence of words `key=value`, a value a sequence of
parts, so that "LG-H990" is a beginning of "LG-H990ds"; `Find`, `PutEntry` and `Edited` are the
loop of lines 437-466 in terms of words, `Size` counts a key as one, a part as one and each space
as one. `image.cmd` is the command line up to the first NUL and `image.extra` what is behind it in
`extra_cmdline`: lines 433-435 put both arrays into one buffer, whose text ends at that NUL, and
468-469 wipe the rest, so a header as mkbootimg writes it for a long line loses its supplemental words
with status 0 (`WriteHeader`; `OtherWordsKept` is about the words before the NUL). `Stored` is the
`strlcpy()` of line 312 into a field three bytes shorter than the name. The pipe is read and written by half pages, which is what tells a short read from
a full one.

**BootImage.** A file is a sequence of units, `P` to a page; a unit is named by section, version
and place, so that a property can say where each came from. `grow`, `write`, `shrink`,
`truncate`, `header` are the phases of both scripts, one page per step; `what` tells which
section is replaced. The two scripts are the same code but for where the section starts, which
is why one set of actions serves both; the loop of `grow` ends at the second page in both.
`began` is the file when the script started, `spoiled` says that a script was killed after its
first write or that the file was cut short from the start. `ImagesAssumption` says what the image
files at the start are: a header page with the sizes of four sections, a kernel among them, and
if all of it is there, sections as they were built.

**SyncFile.** `copyfile()` to a file compares as a whole and writes once; to a device page by page
through a mapping. `blksz` is an `off64_t` of which the kernel fills four bytes: the other half is
what was on the stack. The model and the run have the right size, a huge one (the first comparison
faults) and a negative one, with which no page is copied and the size is returned:
`SyncedMeansCopied` and `InstalledBoots` say that this is the only way in which they are wrong.  Two
more things the code does are in the model and denied by no property: `main()` exits 0 whatever
`copyfile()` returned, and a longer target file that differs keeps its end (line 103). Comparing
before writing spares the flash and is not told apart from writing.

## 3. Runs

| Run | Question | Bounds |
|---|---|---|
| `gpt_write` | is `writegpt()` crash safe, does it implement `AtomicGpt`? | 11 blocks, 3 tables of 2 entry blocks, 3 geometries (sound, data area running into the backup's entries, altLBA pointing at itself), O_SYNC or not (power cuts only with O_SYNC) |
| `gpt_media` (violated) | does backup-first hold on the media without O_SYNC? | the same with the sound geometry, and power cuts |
| `rmop_hang` (violated) | does every run end without userdata? | a layout without userdata |
| `op_slice` | rmOP's three modes, repeated, killed, cut off; do rmOP and `kdzwriter -P` agree? | 6 layouts of 4 slots on a dozen blocks: OP before and after userdata, beside it or apart, another slice between them, OP left over at userdata's place with one block and with more; cfg with sizes, with zeros, without a size, and stray sizes of none and of one that wraps (numbers wrap at 16); KDZ tables with OP after and before userdata; 2 devices |
| `kdz_slice` | is a slice restored safely? | 6 blocks, 4 of them the slice's; 12 KDZ files of up to 3 chunks of up to 2 blocks, the second one sound, cut off, damaged, with wrong sums, too long for its trim count, no whole number of blocks, or for another device |
| `kdz_pwrite` (violated) | ... when the flash refuses a write? | same |
| `kdzwriter` | what is written with which consent and on what verdict, when is a file refused, and the exit status | all sequences of up to 3 options (`MaxOptions`), any number of runs; all KDZ files of up to 2 chunks (`MaxChunks`; 3 was run too) of 35 kinds, cut short anywhere, with right and wrong magic and MD5; 6 phones: as sold, after `rmOP -F` and `-d`, copies that differ, one copy unreadable, a backup header that names itself; tables of 4 entries on device 0, of 2 on sdg |
| `dirtysanta` | is the original held while aboot is written? | aboot of 3 blocks, 6 images (none, empty, shorter, equal, longer), 3 old backups |
| `fix_modem` | what is left in image, sysfs, misc and pipe? | 3 models, each the beginning of the next, the last too long for misc; 6 command lines: empty, the name first, last, twice, beside other words, one near the limit (18); supplemental words behind a NUL or none; a SIM count given or not; images of 2 pages whose last is cut |
| `santa_revert` (violated) | does the reversal restore aboot? | same |
| `boot_install` | do edited and installed boot images boot? | pages of 2 units; 3 images: one whose kernel and ramdisk grow, with something behind it; one where they shrink, with its last page not filled; one cut in its ramdisk; 3 targets: a device that is too small for some images, a shorter file, a longer one that begins with an image; the three block sizes; 2 runs of the scripts (`MaxRuns`), any number of syncfile |
| `boot_ramdisk` (violated) | does a larger ramdisk leave the kernel alone? | a kernel of 3 pages, ramdisks of 1 and 2 |

The bounds are small because the programs treat blocks, slots and chunks uniformly: what
distinguishes cases is whether there is a first, a middle and a last of each, whether the
neighbours are of the same or another kind, and which of two copies is damaged. Every
action of each specification fires in its passing run. Deadlock is checked where a program
may be started again; where the run says otherwise the system may really stop.

### What the violated runs show

* `gpt_media`: `fix_gpts()` (`kdz.c:779`) opens devices without O_SYNC, so the order of
  `gpt.c:348` is not the order on the media.
* `rmop_hang`: `rmOP.c:228` restarts the search at -1 forever.
* `kdz_pwrite`: the result of `pwrite64()` is not looked at (`kdz.c:1048`).
* `santa_revert`: the reversal reads `aboot.img`, not `abootbackup.img` (`dirtysanta.c:85`).
* `boot_ramdisk`: the loop that makes room for a larger ramdisk
  (`../scripts/bootimg-mod-ramdisk.py:254`) ends at the second page of the file instead of at the
  ramdisk, and moves kernel pages over kernel pages. `boot_install` has kernels of at most two pages
  where the ramdisk grows, which is why it does not see this.

More disagreements are in the models without a run of their own. rmOP starts from the link
by-name/OP (`rmOP.c:169`): once the kernel has read the table in which `-d` named the slice XOPX
there is none, and `-e` ends with "Could not find /OP's device", while the usage text says "can
still be reenabled later" (`StartWithoutDevice`). And fix-h990-modem leaves a value alone that
begins with the wanted one (`fix-h990-modem.c:458`): LG-H990ds stays when LG-H990 is asked for
(`Same`).  After a merge of rmOP that was cut short with only the backup copy written, rmOP reads that
copy and finds no OP, and `kdzwriter -P` refuses copies that differ: neither writes the primary copy
again (`CutShort`, `Accepts`).  The supplemental words of a boot image, a negative `blksz` and
the refusals of `Handled` are told of in section 2.

### Fairness

Weak fairness is stated where a run has a liveness property (`Spec` of `FixGpts` and of
`SyncFile`, and `RmSpec` of rmOP alone), and only for the steps of the program itself: a single-threaded program that is
not killed goes on to its next statement. Nothing is assumed of the user, of other
programs, of the kernel's write-back, of kills or of power cuts.

## 4. Proofs

A theorem is about every value of the constants that satisfies the assumptions named in the
modules: every disk size, table, KDZ file, command line and bound, where the runs have a few
small ones.  `TypeCorrect` is `Spec => []TypeOK` in each module and is not repeated below.  Every
invariant was checked with TLC before it was proved; in each module there is one lemma per action,
or one step per action of one lemma, and the last step of a theorem is temporal.

### writegpt(): `GptProofs`, `GptRefinement`

| Theorem | States | Assumes |
|---|---|---|
| `CrashConsistent` | `Spec => []Recoverable` | `CarefulUse` |
| `SuccessIsComplete` | `Spec => []BothCopiesWritten` | `CarefulUse` |
| `DataKept` | `Spec => DataUntouched` | `~PowerCutUnsynced` |
| `WritesAtomically` | `Spec => ImplementsAtomicGpt` | `CarefulUse` |

`CarefulUse` is what a caller has to respect: the tables fill whole blocks, or a part of a
single one (else line 419 of `gpt.c` spoils the last), the power stays on while a device is
open without O_SYNC, and the device starts with a readable primary copy: with only the backup
copy whole, the first thing `writegpt()` does is to overwrite the one copy there is.
`DataKept` needs only the second: without O_SYNC a power cut may bring back older blocks.

`Recoverable` is not inductive: that one copy is whole *now* says nothing about the next
block written. The inductive invariant `IInv` is a conjunction of named parts: `TypeOK`;
`SomeCopy` (the primary copy is whole and old, or the backup copy whole and new: the reason
for the order of the two); `PrimaryHeaderInv` and `BackupAltInv` (what the headers on the
device can be); `SyncInv` (O_SYNC keeps media and cache equal); `SettledInv` (between requests
nothing is half done); `OkInv` (after success the backup is whole as well); `BackupPhase` and
`PrimaryPhase` (how far the copy being written has come, and what the local header is).

The refinement maps the blocks to the table a reader finds.  That a step is one of `AtomicGpt` or
a stutter needs two facts more (`RInv`): each entry block of the primary copy is the old table's
or the new one's (`MixedInv`), so a primary copy that is whole is one of the two and not a mixture,
and block 1 always holds a header (`HeaderInv`).

### rmOP and fix_gpts(): `FixGptsProofs`

| Theorem | States |
|---|---|
| `NothingErased` | `Spec => []NothingInUseErased` |
| `CfgSurvives` | `Spec => []CfgTextKept` |
| `CfgBeforeTable` | `Spec => OpGoneAfterCfg` |
| `SlicesSafe` | `Spec => []SlicesKept` |
| `RestoresTable` | `Spec => RestoredTable` |
| `StaysAccepted` | `Spec => OnlyCutShortRefuses` |
| `TrueIsRestored` | `Spec => TrueMeansRestored` |
| `UserdataSafe` | `Spec => UserdataStays`, if `\A k \in KdzGpts : OpBeside(k)` |

All are about both programs on one phone, in any order, killed and restarted anywhere.
`RmOPAssumption` says of the tables that come with a phone that they are sound (`Sound`: real
slices, one OP and one userdata at most, all apart but for what is left of OP at userdata's
start); `FixGptsAssumption` the same of the KDZ's tables, all slices apart. Of the cfg file's size, and of
what is read where it has none, nothing is assumed but that it is a number below 2^64 (`W`):
`RestoresTable` has the KDZ's other slices for every size, and the border between OP and userdata for
those that leave some of userdata (`Fitting`).  `OpBeside` says that OP has userdata beside it, in the table as on the
device: where it has not, `fix_gpts()` cannot know where userdata's border is and the KDZ's is used.

`RunInv` has the types and `FlightInv`: what the table in rmOP's memory is, compared with the one
on the device, at each call (`MergedFrom`, `RenamedFrom`), which is what a discard and a
write rely on several steps later.  `CfgInv` follows the text of the cfg file through rename and
link, in what programs see and in what a power cut leaves.  `HistInv` compares the table with the
one the phone came with after any number of runs; `KInv` says what `fix_gpts()` has read and
which devices it has done.  The theorems hold for both orders of the devices in the KDZ file
(`OpFirst`), while the run has one; proving the other found that the model's `NextDevice` never
came to the device with OP in it, which was corrected.

### write_kdzfile(): `KdzSliceProofs`

| Theorem | States | Assumes |
|---|---|---|
| `NeverUnderMount` | `Spec => []QuietWhenMounted` | - |
| `OnlyVouchedWritten` | `Spec => OnlyVerifiedWritten` | - |
| `OnlySpareLost` | `Spec => OnlySpareDiscarded` | `LaidOut`, `GoneIsOther` |
| `SuccessRestores` | `Spec => SuccessMeansRestored` | `LaidOut`, `FlashFails = FALSE` |

For every device, slice table and set of KDZ files whose chunks lie on the device
(`KdzSliceAssumption`), damaged and shortened streams included.
`QuietWhenMounted` needs `QuietInv`: between the O_EXCL open and the close nobody else can
mount, and a return leaves no dirty block. `OnlyVerifiedWritten` is about a step, and what
vouches for the block was decided several steps before it: `SumInv` carries it from `finish()`
of the hash (the digest is of the buffer's first `chunk.size` blocks) to the write loop (the
buffer is the chunk's sum), and says that the chunk at hand is one of the named slice. It
rests on `TypeInv`, `TypeOK` with the program's part split by `pc`: the buffer is at least as
long as the chunk at hand, and `j` stays within it.

`LaidOut` says what the code takes as given of a KDZ file: the slice's chunks do not overlap, the
blocks a `trim_count` covers behind a chunk's data are no other chunk's, and all are in the slice
(`pwrite64()` beyond it fails unnoticed). `GoneIsOther` only says that a discarded block can be
told from data; with it `DataInv` shows that neither buffer nor page cache ever holds one. The
instance of `kdz_slice` satisfies both. `FlashFails = FALSE` excludes what `kdz_pwrite` shows.
`SuccessMeansRestored` is about blocks written in any of several turns, skipped because they
seemed right already, in the cache or on the media: `RestInv` says of every place in the slice's chunks
that it holds what the sum says once the function is past it, or an old page of the mapping shows it to
(`view`), and that before that it is clean. The exception is no more than that: the theorem says
that a block which the mapping does not show as right is right on the media, however old the mapping is.

### test_kdzfile() and kdzwriter: `KdzWriterProofs`

| Theorem | States |
|---|---|
| `WritesByConsent` | `Spec => ConsentedWrites` |
| `RefusesForCause` | `Spec => []RefusedForCause` |
| `ModulesSaved` | `Spec => SavedBeforeOverwritten` |
| `ZeroIsWhole` | `Spec => []ZeroMeansSystem` |

For every sequence of options and every sequence of chunks.  The heart is `VerdictMeans`: whenever
the loop of `test_kdzfile()` ends, the level it returns is one the file really fits (`Fit`), and a
lower one than it fits is returned only for a file that is damaged (`Judgeable`) or beyond the code
(`Handled`).  The
loop is the recursive function `Verdicts`, which the provers cannot do an induction over; the lemma
takes the smallest turn after which the claim is wrong instead (`WFMin` over the natural numbers)
and shows from one turn (`ChunkSound`, `ChunkComplete`) that there is none.  `TableSound` and
`TableComplete` do the same for the comparison of tables.  They rest on `TablesAssumption`: tables
are laid out the one way LG's tools do it, a table's header tells its number of entries, and the
last entry, which the code never compares (`kdz.c:534`), is one of those that do not count.
Without that last clause the theorem is false, which is the hazard of that line.

`JudgedInv` keeps consent and verdict from the question to the writes (`ConsentInv`), `SavedInv` says
that until `read_kmods()` has read the modules they are untouched (`UntouchedInv`), and that
`write_kdzfile("system")` is reached with them in memory (`HeldInv`); `ZeroInv` says that as long
as nothing has failed the slice is whole and the modules are back (`WholeInv`), and that the
exclusive modes do not come near it (`ExclusiveInv`).

### Dirty Santa: `DirtySantaProofs`

| Theorem | States |
|---|---|
| `NeverWithoutBackup` | `Spec => []BackupHeldWhileFlashing` |
| `FinishedIsFlashed` | `Spec => []FinishedMeansFlashed` |
| `OriginalKept` | `Spec => OriginalLostOnlyLater` |

`SantaInv` adds to the properties how far the copy at hand has come (`CopyInv`: what was written
agrees with an existing source) and that, while backups are made, aboot is as it was found and the
earlier entries of the list are done (`DoneInv`).

### fix-h990-modem: `FixModemProofs`

| Theorem | States |
|---|---|
| `RerunsAlike` | `Spec => []RerunChangesNothing` |
| `KernelsAgree` | `Spec => []SimSettingsAgree`, if `PlainLines` |
| `PipeWhole` | `Spec => []PipeCopiesWhole` |
| `MiscAsNamed` | `Spec => MiscNamedByUser` |

The first two rest on what the loop over `entries[]` does to any command line.  `FindIs` and
`FoundAt` say which word `strstr()` and the `strncmp()` after it find; `PutSettles` that a turn
leaves its entry with nothing to do (`Settled`), `PutLeaves` that a turn leaves every other
entry as it was, so after five turns none has anything to do (`EditedSettled`) and a second pass
changes nothing (`EditedTwice`).  `PlainLines` says that the SIM words of the images' own command lines
have values of one part: a longer value that begins with the wanted one is taken for it
(`fix-h990-modem.c:458`), and then the kernels are told different things.  `PipeInv` says that
what was written, what of the page in hand is still to be written and what is in the pipe are the
image in its order; `ToldInv`, `EditInv`, `AgreeInv` and `NameInv` what is done at each step.

### Boot image scripts and syncfile: `SyncFileProofs`

| Theorem | States | Assumes |
|---|---|---|
| `SectionReplaced` | `Spec => OneSectionReplaced` | `KernelSpared` |
| `CopiesWhole` | `Spec => SyncedMeansCopied` | - |
| `Boots` | `Spec => []InstalledBoots` | `KernelSpared` |

For every page size, image, target and sequence of runs. `KernelSpared` excludes the disagreement
that `boot_ramdisk` shows: where a ramdisk needs more pages than the one it replaces, the
kernel ends before the first place a page is moved to. The instance of `boot_install` satisfies
it (image of one kernel page), that of `boot_ramdisk` does not; a ramdisk that needs as many pages as
before, or fewer, always does. Both properties are about the copies for which the half-filled `blksz`
was not read as a negative number, which makes `copyfile()` return the size without a page
copied (`syncfile.c:115`).

`MoveInv` is where each part of the file is at each step of moving: units of the file the script
began with (`began`) that are still in their places, units that are `delta` further on, and pages of the
new section (`Copied`). A page is read and written whole, so the steps need that a move never
overwrites what has still to be moved (`MoveUpKeeps` from the end, `MoveDownKeeps` from the
beginning), and that the position stays a page's (`Multiple`, `Gap`), which keeps the last page of
the new section out of what is behind it. `PosInv` bounds the position; proving that found the
bound of `TypeOK` too small for an image that ends in its kernel, and it was corrected. `GoodInv`
carries the versions of the sections from run to run, and `CopyInv` says how much of the image the
target has.

### Only model-checked

* `EveryRunEnds` (both): liveness is out of the prover's reach.
* `OtherWordsKept` of `FixModem`: the words that are no one's are taken from the command line by
  `SelectSeq`, which is defined by recursion; the claim needs an induction over the line.

## 5. Not modelled

Byte order, UTF-16 names and UUIDs; block sizes guessed on image files; `writegptboot()`
(no caller; note that the backup header `_writegpt()` writes has an `altLBA` that names itself,
`gpt.c:327-331`); finding the DZ inside the KDZ container; `report_kdzfile()`, which only prints;
`tryexec()` of Dirty Santa, which changes nothing the rest reads; the cpio archive inside a
ramdisk; formatting and verbosity; DEBUG and DISABLE_WRITES builds; third-party code
(`my-run-as`, `packagelistparser`, libselinux headers); `md5.c`, which links three functions at
run time; the resource image and unlock scripts, which read one file and write another.

## 6. Plan

Done: the models, the runs and the theorems above; every invariant the passing runs check is a
theorem, and every action property but one. `OtherWordsKept` would need a definition of the foreign words
of a command line that does without recursion.
