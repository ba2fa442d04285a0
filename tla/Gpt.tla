--------------------------------- MODULE Gpt ---------------------------------
(***************************************************************************)
(* gpt.c: reading and rewriting the two copies of a GUID partition table.  *)
(*                                                                         *)
(* The device is a function from block number (LBA) to block.  Block 1     *)
(* holds the primary header, the blocks from 2 on its entry table; the     *)
(* last block holds the backup header and the EntryBlks blocks before it   *)
(* the backup's entry table.  writegpt() goes over the blocks one at a     *)
(* time; between any two of them the process may be killed, the power may  *)
(* go, or an operation may fail.  A device opened with O_SYNC (rmOP) has   *)
(* each block on the media before the next is written; without it          *)
(* (kdzwriter's fix_gpts) blocks reach the media later and in any order.   *)
(*                                                                         *)
(* A checksum that matches is modelled as equality with what it was        *)
(* computed from: a header carries the table its entryCRC32 stands for.    *)
(***************************************************************************)
EXTENDS Integers

CONSTANTS
  Content,          \* what one block's worth of entries can say
  Tables,           \* the partition tables that occur, block by block
  Junk,             \* a block that is no part of any GPT
  NoGpt,            \* readgptb() returning NULL
  TableBlks,        \* blocks the entry table fills
  EntryBlks,        \* blocks reserved for it ("entryblks" in _writegpt)
  LastLBA,          \* number of the device's last block
  Wrap,             \* 2^64: where unsigned LBA arithmetic wraps
  Geometries,       \* the [alt, ds, de] the headers may carry at the start
  ImageGeometry,    \* the one of the primary GPT inside the KDZ file
  Starts,           \* which copies are intact at the start
  PartialTail,      \* the table does not fill its last block
  PowerCutUnsynced  \* power may be lost while the device is open unsynced

LBAs      == 0 .. LastLBA
Primary   == 1
\* struct gpt_header: myLBA, altLBA, entryStart, dataStartLBA, dataEndLBA and
\* the table its entryCRC32 was computed from.
Headers   == [my : LBAs, alt : LBAs, es : 0 .. Wrap, ds : LBAs, de : LBAs,
              tbl : Tables]
Blocks    == Content \cup Headers \cup {Junk}

\* The layouts a GPT can be found in: altLBA points at the backup or at block 1.
ASSUME LayoutAssumption ==
  /\ TableBlks \in Nat \ {0}
  /\ Tables \subseteq [1 .. TableBlks -> Content]
  /\ EntryBlks \in Nat
  /\ TableBlks <= EntryBlks
  /\ LastLBA \in Nat
  /\ 2 * EntryBlks + 3 <= LastLBA
  /\ Wrap \in Nat
  /\ LastLBA + EntryBlks < Wrap
ASSUME BlockKindsAssumption ==
  /\ Junk \notin Content \cup Headers
  /\ NoGpt \notin Headers \cup Tables
  /\ Content \cap Headers = {}
ASSUME ModeAssumption ==
  /\ PartialTail \in BOOLEAN
  /\ PowerCutUnsynced \in BOOLEAN
  /\ Starts \subseteq {"both", "primaryOnly", "backupOnly"}
ASSUME GeometryAssumption ==
  Geometries \cup {ImageGeometry}
    \subseteq [alt : {1, LastLBA}, ds : LBAs, de : LBAs]

VARIABLES
  media,     \* what survives a power cut
  cache,     \* what a read returns now
  sync,      \* the device was opened with O_SYNC
  at,        \* the copy writegpt() is at: "idle", "backup" or "primary"
  i,         \* the next block of that copy; TableBlks is the header's turn
  head,      \* "new->head" of the running call, NoGpt between calls
  result,    \* what the latest call returned: "none", "ok" or "failed"
  old,       \* history: the table in place before the latest call
  target,    \* history: the table of the latest call
  pending    \* history: a call for target began and none has succeeded yet

vars == <<media, cache, sync, at, i, head, result, old, target, pending>>

------------------------------------------------------------------------------
(* Reading: testgpt() and readgptb(). *)

\* Where testgpt() looks for the entries of a header: the backup's are found
\* relative to the end of the device.
EntriesOf(h) ==
  IF h.my = 1 THEN h.es ELSE LastLBA + 1 - (h.my + 1 - h.es)

\* testgpt() accepts the header in block lba of device d.
Valid(d, lba) ==
  /\ d[lba] \in Headers
  /\ \A j \in 1 .. TableBlks :
       /\ EntriesOf(d[lba]) + j - 1 \in LBAs
       /\ d[EntriesOf(d[lba]) + j - 1] = d[lba].tbl[j]

ReadGptB(d, type) ==
  IF type # "backup" /\ Valid(d, Primary) THEN d[Primary]
  ELSE IF type # "primary" /\ Valid(d, LastLBA) THEN d[LastLBA]
  ELSE NoGpt

\* The table a caller of readgpt(fd, GPT_ANY) sees.
ReadTable(d) ==
  IF ReadGptB(d, "any") = NoGpt THEN NoGpt ELSE ReadGptB(d, "any").tbl

------------------------------------------------------------------------------
(* Writing: writegpt(), _writegpt(), __writegpt(), __gptpwrite(). *)

Sub64(a, b) == IF a >= b THEN a - b ELSE a - b + Wrap
Add64(a, b) == IF a + b < Wrap THEN a + b ELSE a + b - Wrap

\* A header read from the primary copy is turned into the backup's; a header
\* read from the backup is used as it is.  altLBA is left alone either way.
ToBackup(h) ==
  IF h.my = 1 THEN [h EXCEPT !.my = h.alt, !.es = Sub64(h.alt, EntryBlks)]
              ELSE h

\* Mutant of ToPrimary: the header still goes where the backup's went.
ToPrimary_KeepsPlace(h) == [h EXCEPT !.es = 2]

ToPrimary(h) == [h EXCEPT !.my = 1, !.es = 2]

\* Mutant of Sane: the room at the end of the data area is not checked.
Sane_NoRoomAtEnd(h) ==
  /\ Add64(EntryBlks, h.es) <= h.my
  /\ EntryBlks + 1 < h.ds

\* The sanity tests of _writegpt().
Sane(h) ==
  /\ h.es > h.de
  /\ Add64(EntryBlks, h.es) <= h.my
  /\ EntryBlks + 1 < h.ds

\* Mutant of EntryBlock: the tail code is taken for a last block that is full.
EntryBlock_AlwaysTail(tbl, j) == IF j = TableBlks THEN tbl[1] ELSE tbl[j]

\* What __gptpwrite() puts in the j-th block of an entry table.  A last block
\* which is only partly filled goes through the tail code, which compares with
\* the right bytes but writes those at the start of the table.
EntryBlock(tbl, j) ==
  IF PartialTail /\ j = TableBlks THEN tbl[1] ELSE tbl[j]

\* A write() of one block; the page cache is the media when opened O_SYNC.
Put(lba, b) ==
  /\ lba \in LBAs
  /\ cache' = [cache EXCEPT ![lba] = b]
  /\ media' = IF sync THEN [media EXCEPT ![lba] = b] ELSE media

Return(r) ==
  /\ at' = "idle"
  /\ i' = 0
  /\ head' = NoGpt
  /\ result' = r

Idle == at = "idle"

\* The part of writegpt() before the first write, given header h and table t.
\* What may follow an interrupted call is a rerun of the same command, or any
\* other while the primary copy is whole.  Another command that overwrites a
\* backup that is the only copy loses the table when it is interrupted in turn;
\* that case is in RmOP.
Begin(h, t) ==
  LET new == ToBackup([h EXCEPT !.tbl = t]) IN
  /\ Idle
  /\ pending /\ t # target => Valid(cache, Primary)
  /\ \/ /\ Sane(new)
        /\ at' = "backup"
        /\ i' = 0
        /\ head' = new
        /\ result' = "none"
        /\ old' = IF Valid(cache, Primary) THEN cache[Primary].tbl ELSE old
        /\ target' = t
        /\ pending' = TRUE
     \/ /\ ~Sane(new)
        /\ result' = "failed"
        /\ UNCHANGED <<at, i, head, old, target, pending>>
  /\ UNCHANGED <<media, cache, sync>>

\* rmOP: readgpt(dev, GPT_ANY), change some entries, writegpt(dev, gpt).
WriteModified(t) ==
  /\ ReadGptB(cache, "any") # NoGpt
  /\ Begin(ReadGptB(cache, "any"), t)

\* The headers of the two copies, as a factory writes them.
PrimaryHeader(g, t) ==
  [my |-> 1, alt |-> g.alt, es |-> 2, ds |-> g.ds, de |-> g.de, tbl |-> t]

BackupHeader(g, t) ==
  [my |-> LastLBA, alt |-> 1, es |-> LastLBA - EntryBlks, ds |-> g.ds,
   de |-> g.de, tbl |-> t]

\* fix_gpts(): the primary GPT of the KDZ file, adjusted, is written.
WriteImage(t) == Begin(PrimaryHeader(ImageGeometry, t), t)

\* ioctl(BLKSSZGET) fills four bytes of an eight byte blocksz; what the other
\* four held decides whether the comparison with new->blocksz fails.
BlockSizeMismatch ==
  /\ Idle
  /\ result' = "failed"
  /\ UNCHANGED <<media, cache, sync, at, i, head, old, target, pending>>

\* One turn of __gptpwrite()'s loop over the entry table.  A block that already
\* has the right content is not written, which leaves the same state.
WriteEntryBlock ==
  /\ ~Idle
  /\ i < TableBlks
  /\ Put(head.es + i, EntryBlock(head.tbl, i + 1))
  /\ i' = i + 1
  /\ UNCHANGED <<sync, at, head, result, old, target, pending>>

\* Mutant of WriteBackupHeader: the header of the backup is kept for later.
WriteBackupHeader_Skipped ==
  /\ at = "backup"
  /\ i = TableBlks
  /\ at' = "primary"
  /\ i' = 0
  /\ head' = ToPrimary(head)
  /\ UNCHANGED <<media, cache, sync, result, old, target, pending>>

\* Mutant of WriteBackupHeader: the block counter is not started again.
WriteBackupHeader_NoReset ==
  /\ at = "backup"
  /\ i = TableBlks
  /\ Put(head.my, head)
  /\ at' = "primary"
  /\ i' = i + 1
  /\ head' = ToPrimary(head)
  /\ UNCHANGED <<sync, result, old, target, pending>>

\* The backup's header ends the first __writegpt(); the primary comes next.
WriteBackupHeader ==
  /\ at = "backup"
  /\ i = TableBlks
  /\ Put(head.my, head)
  /\ at' = "primary"
  /\ i' = 0
  /\ head' = ToPrimary(head)
  /\ UNCHANGED <<sync, result, old, target, pending>>

\* The primary's header ends the second one: writegpt() returns true.
WritePrimaryHeader ==
  /\ at = "primary"
  /\ i = TableBlks
  /\ Put(head.my, head)
  /\ Return("ok")
  /\ old' = target
  /\ pending' = FALSE
  /\ UNCHANGED <<sync, target>>

\* A seek, read or write fails; a seek outside the device always does.
IOFailure ==
  /\ ~Idle
  /\ Return("failed")
  /\ UNCHANGED <<media, cache, sync, old, target, pending>>

------------------------------------------------------------------------------
(* The environment. *)

\* The process is killed; the kernel, and so the page cache, lives on.
Kill ==
  /\ ~Idle
  /\ Return("none")
  /\ UNCHANGED <<media, cache, sync, old, target, pending>>

\* Power is lost: only what is on the media is left.
PowerCut ==
  /\ sync \/ PowerCutUnsynced
  /\ Return("none")
  /\ cache' = media
  /\ UNCHANGED <<media, sync, old, target, pending>>

\* The kernel writes a dirty block back.
WriteBack(lba) ==
  /\ media[lba] # cache[lba]
  /\ media' = [media EXCEPT ![lba] = cache[lba]]
  /\ UNCHANGED <<cache, sync, at, i, head, result, old, target, pending>>

------------------------------------------------------------------------------

\* A device holding table t with the geometry g and the named copies intact.
Device(g, t, start) ==
  [l \in LBAs |->
     IF start # "backupOnly" /\ l = 1 THEN PrimaryHeader(g, t)
     ELSE IF start # "backupOnly" /\ l \in 2 .. TableBlks + 1 THEN t[l - 1]
     ELSE IF start # "primaryOnly" /\ l = LastLBA THEN BackupHeader(g, t)
     ELSE IF start # "primaryOnly" /\ l \in LastLBA - EntryBlks ..
                                            LastLBA - EntryBlks + TableBlks - 1
          THEN t[l - (LastLBA - EntryBlks) + 1]
     ELSE Junk]

Init ==
  /\ \E g \in Geometries, t \in Tables, start \in Starts :
       /\ media = Device(g, t, start)
       /\ target = t
  /\ cache = media
  /\ sync \in BOOLEAN
  /\ at = "idle"
  /\ i = 0
  /\ head = NoGpt
  /\ result = "none"
  /\ old = target
  /\ pending = FALSE

Next ==
  \/ \E t \in Tables : WriteModified(t)
  \/ \E t \in Tables : WriteImage(t)
  \/ BlockSizeMismatch
  \/ WriteEntryBlock
  \/ WriteBackupHeader
  \/ WritePrimaryHeader
  \/ IOFailure
  \/ Kill
  \/ PowerCut
  \/ \E lba \in LBAs : WriteBack(lba)

Spec == Init /\ [][Next]_vars

------------------------------------------------------------------------------
(* Properties. *)

\* The types of the variables; block counters stay within an entry table.
TypeOK ==
  /\ media \in [LBAs -> Blocks]
  /\ cache \in [LBAs -> Blocks]
  /\ sync \in BOOLEAN
  /\ at \in {"idle", "backup", "primary"}
  /\ i \in 0 .. TableBlks
  /\ IF Idle THEN head = NoGpt ELSE head \in Headers
  /\ result \in {"none", "ok", "failed"}
  /\ old \in Tables
  /\ target \in Tables
  /\ pending \in BOOLEAN

\* Whatever is interrupted, wherever, and whatever commands are run then,
\* readgpt(GPT_ANY) finds a whole partition table, and it is the one from
\* before the command or the one the command asked for (the reason for the
\* order "backupGPT first, primaryGPT second" in _writegpt).
Recoverable == ReadTable(cache) \in {old, target}

\* When writegpt() has returned true, each copy on its own yields the table
\* that was asked for.
BothCopiesWritten ==
  (Idle /\ ~pending) /\ result = "ok" =>
    \A type \in {"primary", "backup"} :
      /\ ReadGptB(cache, type) # NoGpt
      /\ ReadGptB(cache, type).tbl = target

\* No step of a running call changes a block of the data area its header
\* declares (the sanity tests of _writegpt are there for this).
DataUntouched ==
  [][ ~Idle => \A l \in head.ds .. head.de : cache'[l] = cache[l] ]_vars

\* Media never has a block of the primary copy replaced by the wanted one
\* while the backup copy on the media is not already whole and new: "UEFI
\* specification, write backupGPT first, primaryGPT second".
BackupReachesMediaFirst ==
  [][ \A l \in 1 .. TableBlks + 1 :
        media'[l] # media[l] =>
          /\ ReadGptB(media, "backup") # NoGpt
          /\ ReadGptB(media, "backup").tbl = target ]_vars

\* The reader's table changes at once from the old table to the wanted one,
\* and success is reported only with the wanted one in place.
Promise == INSTANCE AtomicGpt
             WITH table <- ReadTable(cache), want <- target, busy <- ~Idle

ImplementsAtomicGpt == Promise!Spec
==============================================================================
