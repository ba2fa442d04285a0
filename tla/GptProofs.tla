------------------------------ MODULE GptProofs ------------------------------
(***************************************************************************)
(* Gpt.tla for every table, device size and number of blocks: the types,   *)
(* the crash consistency of writegpt(), and what it keeps clear of.        *)
(***************************************************************************)
EXTENDS Gpt, TLAPS

\* What the theorems assume of the way the code is used: the table fills its
\* blocks, the primary copy is intact at the start, and power is not lost
\* while the device is open without O_SYNC.
CarefulUse ==
  /\ ~PartialTail \/ TableBlks = 1
  /\ Starts \subseteq {"both", "primaryOnly"}
  /\ ~PowerCutUnsynced

BackupStart == LastLBA - EntryBlks

\* The first n blocks of table t are at block base of device d.
Holds(d, base, t, n) == \A j \in 1 .. n : d[base + j - 1] = t[j]

PrimaryCopy(d, t) ==
  /\ d[1] \in Headers
  /\ d[1].my = 1 /\ d[1].es = 2 /\ d[1].tbl = t
  /\ Holds(d, 2, t, TableBlks)

BackupCopy(d, t) ==
  /\ d[LastLBA] \in Headers
  /\ d[LastLBA].my = LastLBA /\ d[LastLBA].es = BackupStart
  /\ d[LastLBA].tbl = t
  /\ Holds(d, BackupStart, t, TableBlks)

\* One copy is whole: the old primary until the new backup is complete.
SomeCopy == PrimaryCopy(cache, old) \/ BackupCopy(cache, target)

\* The header in block 1 is the old one or the wanted one.
PrimaryHeaderInv ==
  cache[1] \in Headers =>
    /\ cache[1].my = 1 /\ cache[1].es = 2
    /\ cache[1].alt \in {1, LastLBA}
    /\ cache[1].tbl \in {old, target}

BackupAltInv == cache[LastLBA] \in Headers => cache[LastLBA].alt \in {1, LastLBA}

SyncInv == sync => media = cache

\* Between requests nothing is half done.
SettledInv == ~pending => Idle /\ old = target /\ PrimaryCopy(cache, target)

\* Success was reported and nothing asked since: the backup is whole as well.
OkInv == ~pending /\ result = "ok" => BackupCopy(cache, target)

\* Progress of a running call.  A header whose altLBA points at itself has
\* entryStart wrap around: that call is stopped by its first seek.
BackupPhase ==
  at = "backup" =>
    /\ head.tbl = target
    /\ head.alt \in {1, LastLBA}
    /\ \/ /\ head.my = LastLBA /\ head.es = BackupStart
          /\ Holds(cache, BackupStart, target, i)
       \/ head.es > LastLBA /\ i = 0

PrimaryPhase ==
  at = "primary" =>
    /\ head.tbl = target
    /\ head.alt \in {1, LastLBA}
    /\ head.my = 1 /\ head.es = 2
    /\ BackupCopy(cache, target)
    /\ Holds(cache, 2, target, i)

IInv ==
  /\ TypeOK
  /\ SomeCopy
  /\ PrimaryHeaderInv
  /\ BackupAltInv
  /\ SyncInv
  /\ SettledInv
  /\ OkInv
  /\ BackupPhase
  /\ PrimaryPhase

------------------------------------------------------------------------------
(* Facts about the layout and the operators. *)

LEMMA Layout ==
  /\ LBAs = 0 .. LastLBA
  /\ LastLBA \in Nat /\ EntryBlks \in Nat \ {0} /\ TableBlks \in Nat \ {0}
  /\ TableBlks <= EntryBlks
  /\ BackupStart \in Nat
  /\ TableBlks + 1 < BackupStart
  /\ BackupStart + TableBlks - 1 < LastLBA
  /\ 1 \in LBAs /\ LastLBA \in LBAs /\ 1 < LastLBA
  /\ Wrap \in Nat /\ LastLBA + EntryBlks < Wrap
BY LayoutAssumption DEF LBAs, BackupStart

\* A header with another table, turned into the backup's or the primary's, is
\* a header.
LEMMA HeaderTypes ==
  ASSUME NEW h \in Headers, NEW t \in Tables
  PROVE  /\ [h EXCEPT !.tbl = t] \in Headers
         /\ ToBackup([h EXCEPT !.tbl = t]) \in Headers
         /\ ToPrimary(h) \in Headers
<1> DEFINE n == [h EXCEPT !.tbl = t]
<1>1. n \in Headers /\ n.my = h.my /\ n.alt = h.alt
  BY DEF Headers
<1>2. Sub64(n.alt, EntryBlks) \in 0 .. Wrap
  BY <1>1, Layout DEF Headers, LBAs, Sub64
<1>3. [n EXCEPT !.my = n.alt, !.es = Sub64(n.alt, EntryBlks)] \in Headers
  BY <1>1, <1>2 DEF Headers
<1>4. ToPrimary(h) \in Headers
  <2>1. 2 \in 0 .. Wrap
    BY Layout
  <2>2. QED
    BY <2>1, Layout DEF ToPrimary, Headers
<1> HIDE DEF n
<1>5. ToBackup(n) \in Headers
  BY <1>1, <1>3 DEF ToBackup
<1>6. QED
  BY <1>1, <1>4, <1>5 DEF n

\* readgptb() returns a header it found in one of the two places, or nothing.
LEMMA ReadType ==
  ASSUME NEW d \in [LBAs -> Blocks], NEW type
  PROVE  ReadGptB(d, type) \in Headers \cup {NoGpt}
BY Layout DEF ReadGptB, Valid, Primary

LEMMA ImageHeader ==
  ASSUME NEW t \in Tables
  PROVE  /\ PrimaryHeader(ImageGeometry, t) \in Headers
         /\ PrimaryHeader(ImageGeometry, t).my = 1
         /\ PrimaryHeader(ImageGeometry, t).alt \in {1, LastLBA}
BY Layout, GeometryAssumption DEF PrimaryHeader, Headers, LBAs

\* What goes into an entry block is entries.
LEMMA EntryBlockType ==
  ASSUME NEW h \in Headers, NEW j \in 1 .. TableBlks
  PROVE  EntryBlock(h.tbl, j) \in Content
BY LayoutAssumption DEF EntryBlock, Headers

LEMMA PutType ==
  ASSUME media \in [LBAs -> Blocks], cache \in [LBAs -> Blocks],
         NEW lba, NEW b \in Blocks, Put(lba, b)
  PROVE  /\ media' \in [LBAs -> Blocks]
         /\ cache' \in [LBAs -> Blocks]
BY DEF Put

------------------------------------------------------------------------------
(* The types. *)

LEMMA InitType == Init => TypeOK
<1> SUFFICES ASSUME NEW g \in Geometries, NEW t \in Tables, NEW s \in Starts,
                    media = Device(g, t, s), target = t,
                    cache = media, sync \in BOOLEAN, at = "idle", i = 0,
                    head = NoGpt, result = "none", old = target,
                    pending = FALSE
             PROVE  TypeOK
  BY DEF Init
<1>1. PrimaryHeader(g, t) \in Headers /\ BackupHeader(g, t) \in Headers
  BY Layout, GeometryAssumption
     DEF PrimaryHeader, BackupHeader, Headers, LBAs, BackupStart
<1>2. \A j \in 1 .. TableBlks : t[j] \in Content
  BY LayoutAssumption
<1>3. media \in [LBAs -> Blocks]
  BY <1>1, <1>2, Layout DEF Device, Blocks, LBAs, BackupStart
<1>4. 0 \in 0 .. TableBlks
  BY Layout
<1>5. QED
  BY <1>3, <1>4 DEF TypeOK, Idle

LEMMA NextType == TypeOK /\ [Next]_vars => TypeOK'
<1> SUFFICES ASSUME TypeOK, [Next]_vars
             PROVE  TypeOK'
  OBVIOUS
<1> USE DEF TypeOK, Idle
<1>0. 0 \in 0 .. TableBlks
  BY Layout
<1>1. ASSUME NEW h \in Headers, NEW t \in Tables, Begin(h, t)
      PROVE  TypeOK'
  <2> DEFINE new == ToBackup([h EXCEPT !.tbl = t])
  <2>1. new \in Headers
    BY HeaderTypes
  <2> HIDE DEF new
  <2>2. CASE /\ Sane(new) /\ at' = "backup" /\ i' = 0 /\ head' = new
             /\ result' = "none"
             /\ old' = IF Valid(cache, Primary) THEN cache[Primary].tbl ELSE old
             /\ target' = t /\ pending' = TRUE
             /\ UNCHANGED <<media, cache, sync>>
    <3>1. old' \in Tables
      BY <2>2 DEF Valid, Headers
    <3>2. QED
      BY <2>1, <2>2, <3>1, <1>0
  <2>3. CASE result' = "failed" /\ UNCHANGED <<at, i, head, old, target, pending>>
                               /\ UNCHANGED <<media, cache, sync>>
    BY <2>3
  <2>4. QED
    BY <1>1, <2>2, <2>3 DEF Begin, new
<1>2. ASSUME NEW t \in Tables, WriteModified(t)
      PROVE  TypeOK'
  BY <1>1, <1>2, ReadType DEF WriteModified
<1>3. ASSUME NEW t \in Tables, WriteImage(t)
      PROVE  TypeOK'
  BY <1>1, <1>3, ImageHeader DEF WriteImage
<1>4. CASE BlockSizeMismatch
  BY <1>4 DEF BlockSizeMismatch
<1>5. CASE WriteEntryBlock
  <2>1. EntryBlock(head.tbl, i + 1) \in Blocks
    BY <1>5, EntryBlockType, Layout DEF WriteEntryBlock, Blocks
  <2>2. media' \in [LBAs -> Blocks] /\ cache' \in [LBAs -> Blocks]
    BY <1>5, <2>1, PutType DEF WriteEntryBlock
  <2>3. i' \in 0 .. TableBlks
    BY <1>5, Layout DEF WriteEntryBlock
  <2>4. QED
    BY <1>5, <2>2, <2>3 DEF WriteEntryBlock
<1>6. CASE WriteBackupHeader
  <2>1. media' \in [LBAs -> Blocks] /\ cache' \in [LBAs -> Blocks]
    BY <1>6, PutType DEF WriteBackupHeader, Blocks
  <2>2. ToPrimary(head) \in Headers
    BY <1>6, HeaderTypes DEF WriteBackupHeader, Headers
  <2>3. QED
    BY <1>6, <2>1, <2>2, <1>0 DEF WriteBackupHeader
<1>7. CASE WritePrimaryHeader
  <2>1. media' \in [LBAs -> Blocks] /\ cache' \in [LBAs -> Blocks]
    BY <1>7, PutType DEF WritePrimaryHeader, Blocks
  <2>2. QED
    BY <1>7, <2>1, <1>0 DEF WritePrimaryHeader, Return
<1>8. CASE IOFailure
  BY <1>8, <1>0 DEF IOFailure, Return
<1>9. CASE Kill
  BY <1>9, <1>0 DEF Kill, Return
<1>10. CASE PowerCut
  BY <1>10, <1>0 DEF PowerCut, Return
<1>11. ASSUME NEW lba \in LBAs, WriteBack(lba)
       PROVE  TypeOK'
  BY <1>11 DEF WriteBack
<1>12. CASE UNCHANGED vars
  BY <1>12 DEF vars
<1>13. QED
  BY <1>2, <1>3, <1>4, <1>5, <1>6, <1>7, <1>8, <1>9, <1>10, <1>11, <1>12
     DEF Next

\* Every variable keeps its type; in particular the block counter of
\* __gptpwrite() never runs past the entry table and its header.
THEOREM TypeCorrect == Spec => []TypeOK
<1>1. Init => TypeOK
  BY InitType
<1>2. TypeOK /\ [Next]_vars => TypeOK'
  BY NextType
<1>3. QED
  BY <1>1, <1>2, PTL DEF Spec

------------------------------------------------------------------------------
(* Crash consistency: IInv is inductive. *)

LEMMA InitInv == CarefulUse /\ Init => IInv
<1> SUFFICES ASSUME CarefulUse, Init,
                    NEW g \in Geometries, NEW t \in Tables, NEW s \in Starts,
                    media = Device(g, t, s), target = t
             PROVE  IInv
  BY DEF Init
<1>1. TypeOK
  BY InitType
<1>2. cache = media /\ old = target /\ at = "idle" /\ pending = FALSE
      /\ result = "none"
  BY DEF Init
<1>3. s # "backupOnly"
  BY DEF CarefulUse
<1>4. PrimaryHeader(g, t) \in Headers /\ BackupHeader(g, t) \in Headers
  BY Layout, GeometryAssumption
     DEF PrimaryHeader, BackupHeader, Headers, LBAs, BackupStart
<1>5. media[1] = PrimaryHeader(g, t)
  BY <1>3, Layout DEF Device
<1>6. \A j \in 1 .. TableBlks : media[2 + j - 1] = t[j]
  BY <1>3, Layout DEF Device, LBAs
<1>7. media[LastLBA] \in {BackupHeader(g, t), Junk}
  BY Layout DEF Device, LBAs
<1>8. g.alt \in {1, LastLBA}
  BY GeometryAssumption
<1>9. PrimaryCopy(cache, target)
  BY <1>2, <1>4, <1>5, <1>6 DEF PrimaryCopy, Holds, PrimaryHeader
<1>10. PrimaryHeaderInv
  BY <1>2, <1>4, <1>5, <1>8 DEF PrimaryHeaderInv, PrimaryHeader
<1>11. BackupAltInv
  BY <1>2, <1>7, BlockKindsAssumption DEF BackupAltInv, BackupHeader
<1>12. QED
  BY <1>1, <1>2, <1>9, <1>10, <1>11
     DEF IInv, SomeCopy, SyncInv, SettledInv, OkInv, BackupPhase, PrimaryPhase,
         Idle

\* The header a call starts with leads to the backup's place, or to a seek
\* outside the device.
LEMMA NewHeader ==
  ASSUME NEW h \in Headers, NEW t \in Tables, h.alt \in {1, LastLBA},
         h.my = 1 \/ (h.my = LastLBA /\ h.es = BackupStart),
         Sane(ToBackup([h EXCEPT !.tbl = t]))
  PROVE  LET new == ToBackup([h EXCEPT !.tbl = t]) IN
         /\ new.tbl = t
         /\ new.alt \in {1, LastLBA}
         /\ (new.my = LastLBA /\ new.es = BackupStart) \/ new.es > LastLBA
<1> DEFINE n == [h EXCEPT !.tbl = t]
<1>1. n \in Headers /\ n.my = h.my /\ n.alt = h.alt /\ n.es = h.es /\ n.tbl = t
  BY DEF Headers
<1>2. n.de \in Nat
  BY <1>1, Layout DEF Headers, LBAs
<1> HIDE DEF n
<1>3. CASE h.my = 1
  <2> DEFINE m == [n EXCEPT !.my = n.alt, !.es = Sub64(n.alt, EntryBlks)]
  <2>1. /\ m.my = h.alt /\ m.es = Sub64(h.alt, EntryBlks) /\ m.tbl = t
        /\ m.alt = h.alt /\ m.de = n.de
    BY <1>1 DEF Headers
  <2>2. ToBackup(n) = m
    BY <1>1, <1>3 DEF ToBackup
  <2>3. m.es > m.de
    BY <2>2 DEF Sane, n
  <2> HIDE DEF m
  <2>4. CASE h.alt = LastLBA
    <3>1. Sub64(LastLBA, EntryBlks) = BackupStart
      BY Layout DEF Sub64, BackupStart
    <3>2. QED
      BY <2>1, <2>2, <2>4, <3>1 DEF n
  <2>5. CASE h.alt = 1
    <3>1. Sub64(1, EntryBlks) = 0 \/ Sub64(1, EntryBlks) > LastLBA
      BY Layout DEF Sub64
    <3>2. m.es > LastLBA
      BY <1>2, <2>1, <2>3, <2>5, <3>1
    <3>3. QED
      BY <2>1, <2>2, <2>5, <3>2 DEF n
  <2>6. QED
    BY <2>4, <2>5
<1>4. CASE h.my = LastLBA /\ h.es = BackupStart
  <2>1. ToBackup(n) = n
    BY <1>1, <1>4, Layout DEF ToBackup
  <2>2. QED
    BY <1>1, <1>4, <2>1 DEF n
<1>5. QED
  BY <1>3, <1>4

\* A copy that is whole is accepted by testgpt().
LEMMA CopiesValid ==
  ASSUME NEW d, NEW t
  PROVE  /\ PrimaryCopy(d, t) => Valid(d, 1)
         /\ BackupCopy(d, t) => Valid(d, LastLBA)
BY Layout DEF PrimaryCopy, BackupCopy, Holds, Valid, EntriesOf, LBAs

\* A primary copy that testgpt() accepts is whole.
LEMMA ValidIsCopy ==
  ASSUME PrimaryHeaderInv, Valid(cache, 1)
  PROVE  PrimaryCopy(cache, cache[1].tbl)
BY DEF PrimaryHeaderInv, Valid, EntriesOf, PrimaryCopy, Holds

LEMMA BeginInv ==
  ASSUME IInv, TypeOK', NEW h \in Headers, NEW t \in Tables,
         h.alt \in {1, LastLBA},
         h.my = 1 \/ (h.my = LastLBA /\ h.es = BackupStart),
         Begin(h, t)
  PROVE  IInv'
<1> DEFINE new == ToBackup([h EXCEPT !.tbl = t])
<1>1. UNCHANGED <<media, cache, sync>> /\ Idle
  BY DEF Begin
<1>2. CASE /\ Sane(new) /\ at' = "backup" /\ i' = 0 /\ head' = new
           /\ old' = IF Valid(cache, Primary) THEN cache[Primary].tbl ELSE old
           /\ target' = t /\ pending' = TRUE
  <2>1. Valid(cache, Primary) => old' = cache[1].tbl /\ PrimaryCopy(cache, old')
    BY <1>2, ValidIsCopy DEF IInv, Primary
  <2>2. ~Valid(cache, Primary) => old' = old /\ target' = target /\ pending
    <3>1. ~Valid(cache, Primary) => pending
      BY CopiesValid DEF IInv, SettledInv, Primary
    <3>2. QED
      BY <1>2, <3>1 DEF Begin
  <2>4. SomeCopy'
    BY <1>1, <2>1, <2>2 DEF IInv, SomeCopy
  <2>5. PrimaryHeaderInv'
    BY <1>1, <2>1, <2>2 DEF IInv, PrimaryHeaderInv
  <2>6. BackupAltInv' /\ SyncInv'
    BY <1>1 DEF IInv, BackupAltInv, SyncInv
  <2>7. /\ new.tbl = t /\ new.alt \in {1, LastLBA}
        /\ (new.my = LastLBA /\ new.es = BackupStart) \/ new.es > LastLBA
    BY <1>2, NewHeader
  <2>8. BackupPhase'
    BY <1>2, <2>7 DEF BackupPhase, Holds
  <2>9. QED
    BY <1>2, <2>4, <2>5, <2>6, <2>8
       DEF IInv, SettledInv, OkInv, PrimaryPhase
<1>3. CASE /\ result' = "failed"
           /\ UNCHANGED <<at, i, head, old, target, pending>>
  BY <1>1, <1>3 DEF IInv, SomeCopy, PrimaryHeaderInv, BackupAltInv, SyncInv,
     SettledInv, OkInv, BackupPhase, PrimaryPhase, Idle
<1>4. QED
  BY <1>2, <1>3 DEF Begin

LEMMA EntryBlockIs ==
  ASSUME CarefulUse, NEW tbl \in Tables, NEW j \in 1 .. TableBlks
  PROVE  EntryBlock(tbl, j) = tbl[j]
BY Layout DEF CarefulUse, EntryBlock

\* One entry block more: the copy being written gets it, nothing else moves.
LEMMA WriteEntryBlockInv ==
  ASSUME CarefulUse, IInv, TypeOK', WriteEntryBlock
  PROVE  IInv'
<1> USE DEF Idle
<1>1. TypeOK /\ pending /\ at \in {"backup", "primary"}
  BY DEF IInv, SettledInv, TypeOK, WriteEntryBlock
<1>2. i \in 0 .. TableBlks - 1 /\ i + 1 \in 1 .. TableBlks /\ i' = i + 1
  BY <1>1, Layout DEF TypeOK, WriteEntryBlock
<1>3. head.tbl = target
  BY <1>1 DEF IInv, BackupPhase, PrimaryPhase
<1>4. /\ head.es + i \in LBAs
      /\ cache' = [cache EXCEPT ![head.es + i] = target[i + 1]]
      /\ media' = IF sync THEN [media EXCEPT ![head.es + i] = target[i + 1]]
                          ELSE media
      /\ UNCHANGED <<sync, at, head, result, old, target, pending>>
  BY <1>1, <1>2, <1>3, EntryBlockIs DEF WriteEntryBlock, Put, TypeOK
<1>5. cache \in [LBAs -> Blocks]
  BY <1>1 DEF TypeOK
<1>6. SyncInv'
  BY <1>4 DEF IInv, SyncInv
<1>7. CASE at = "backup"
  <2>1. /\ head.my = LastLBA /\ head.es = BackupStart
        /\ Holds(cache, BackupStart, target, i)
    <3>1. head.es \in Nat
      BY <1>1, Layout DEF TypeOK, Headers
    <3>2. ~(head.es > LastLBA /\ i = 0)
      BY <1>4, <3>1, Layout
    <3>3. QED
      BY <1>7, <3>2 DEF IInv, BackupPhase
  <2>2. \A l \in 1 .. TableBlks + 1 : cache'[l] = cache[l]
    BY <1>2, <1>4, <1>5, <2>1, Layout
  <2>3. cache'[LastLBA] = cache[LastLBA]
    BY <1>2, <1>4, <1>5, <2>1, Layout
  <2>4. \A j \in 1 .. TableBlks :
          cache'[BackupStart + j - 1] =
            IF j = i + 1 THEN target[j] ELSE cache[BackupStart + j - 1]
    BY <1>2, <1>4, <1>5, <2>1, Layout
  <2>5. Holds(cache', BackupStart, target, i + 1)
    BY <1>2, <2>1, <2>4, Layout DEF Holds
  <2>6. PrimaryCopy(cache, old) => PrimaryCopy(cache', old)
    <3>1. \A j \in 1 .. TableBlks : cache'[2 + j - 1] = cache[2 + j - 1]
      BY <2>2, Layout
    <3>2. cache'[1] = cache[1]
      BY <2>2, Layout
    <3>3. QED
      BY <3>1, <3>2 DEF PrimaryCopy, Holds
  <2>7. BackupCopy(cache, target) => BackupCopy(cache', target)
    BY <2>3, <2>4 DEF BackupCopy, Holds
  <2>8. SomeCopy'
    BY <1>4, <2>6, <2>7 DEF IInv, SomeCopy
  <2>9. PrimaryHeaderInv' /\ BackupAltInv'
    <3>1. cache'[1] = cache[1]
      BY <2>2, Layout
    <3>2. QED
      BY <1>4, <2>3, <3>1 DEF IInv, PrimaryHeaderInv, BackupAltInv
  <2>10. BackupPhase'
    BY <1>2, <1>4, <1>7, <2>1, <2>5 DEF IInv, BackupPhase
  <2>11. QED
    BY <1>1, <1>4, <1>6, <1>7, <2>8, <2>9, <2>10
       DEF IInv, SettledInv, OkInv, PrimaryPhase
<1>8. CASE at = "primary"
  <2>1. /\ head.es = 2 /\ Holds(cache, 2, target, i)
        /\ BackupCopy(cache, target)
    BY <1>8 DEF IInv, PrimaryPhase
  <2>2. \A l \in BackupStart .. LastLBA : cache'[l] = cache[l]
    BY <1>2, <1>4, <1>5, <2>1, Layout
  <2>3. cache'[1] = cache[1] /\ cache'[LastLBA] = cache[LastLBA]
    BY <1>2, <1>4, <1>5, <2>1, Layout
  <2>4. \A j \in 1 .. TableBlks :
          cache'[2 + j - 1] = IF j = i + 1 THEN target[j] ELSE cache[2 + j - 1]
    BY <1>2, <1>4, <1>5, <2>1, Layout
  <2>5. Holds(cache', 2, target, i + 1)
    BY <1>2, <2>1, <2>4, Layout DEF Holds
  <2>6. BackupCopy(cache', target)
    <3>1. \A j \in 1 .. TableBlks :
            cache'[BackupStart + j - 1] = cache[BackupStart + j - 1]
      BY <2>2, Layout
    <3>2. QED
      BY <2>1, <2>3, <3>1 DEF BackupCopy, Holds
  <2>7. PrimaryHeaderInv' /\ BackupAltInv'
    BY <1>4, <2>3 DEF IInv, PrimaryHeaderInv, BackupAltInv
  <2>8. PrimaryPhase'
    BY <1>2, <1>4, <1>8, <2>1, <2>5, <2>6 DEF IInv, PrimaryPhase
  <2>9. QED
    BY <1>1, <1>4, <1>6, <1>8, <2>6, <2>7, <2>8
       DEF IInv, SomeCopy, SettledInv, OkInv, BackupPhase
<1>9. QED
  BY <1>1, <1>7, <1>8

\* The backup copy is complete, and the primary can be started on.
LEMMA WriteBackupHeaderInv ==
  ASSUME IInv, TypeOK', WriteBackupHeader
  PROVE  IInv'
<1>1. TypeOK /\ pending /\ at = "backup" /\ i = TableBlks
  BY DEF IInv, SettledInv, Idle, WriteBackupHeader
<1>2. /\ head.tbl = target /\ head.alt \in {1, LastLBA}
      /\ head.my = LastLBA /\ head.es = BackupStart
      /\ Holds(cache, BackupStart, target, TableBlks)
  BY <1>1, Layout DEF IInv, BackupPhase
<1>3. /\ cache' = [cache EXCEPT ![LastLBA] = head]
      /\ media' = IF sync THEN [media EXCEPT ![LastLBA] = head] ELSE media
      /\ at' = "primary" /\ i' = 0 /\ head' = ToPrimary(head)
      /\ UNCHANGED <<sync, result, old, target, pending>>
  BY <1>2 DEF WriteBackupHeader, Put
<1>4. cache \in [LBAs -> Blocks] /\ head \in Headers
  BY <1>1 DEF TypeOK, Idle
<1>5. cache'[LastLBA] = head /\ cache'[1] = cache[1]
  BY <1>3, <1>4, Layout
<1>6. \A j \in 1 .. TableBlks :
        cache'[BackupStart + j - 1] = cache[BackupStart + j - 1]
  BY <1>3, <1>4, Layout
<1>7. BackupCopy(cache', target)
  BY <1>2, <1>4, <1>5, <1>6 DEF BackupCopy, Holds
<1>8. PrimaryHeaderInv' /\ BackupAltInv'
  BY <1>2, <1>3, <1>5 DEF IInv, PrimaryHeaderInv, BackupAltInv
<1>9. /\ head'.tbl = target /\ head'.alt \in {1, LastLBA}
      /\ head'.my = 1 /\ head'.es = 2
  BY <1>2, <1>3, <1>4 DEF ToPrimary, Headers
<1>10. PrimaryPhase'
  BY <1>3, <1>7, <1>9 DEF PrimaryPhase, Holds
<1>11. SyncInv'
  BY <1>3 DEF IInv, SyncInv
<1>12. QED
  BY <1>1, <1>3, <1>7, <1>8, <1>10, <1>11
     DEF IInv, SomeCopy, SettledInv, OkInv, BackupPhase

\* The primary copy is complete as well: success.
LEMMA WritePrimaryHeaderInv ==
  ASSUME IInv, TypeOK', WritePrimaryHeader
  PROVE  IInv'
<1>1. TypeOK /\ at = "primary" /\ i = TableBlks
  BY DEF IInv, WritePrimaryHeader
<1>2. /\ head.tbl = target /\ head.alt \in {1, LastLBA}
      /\ head.my = 1 /\ head.es = 2
      /\ BackupCopy(cache, target) /\ Holds(cache, 2, target, TableBlks)
  BY <1>1 DEF IInv, PrimaryPhase
<1>3. /\ cache' = [cache EXCEPT ![1] = head]
      /\ media' = IF sync THEN [media EXCEPT ![1] = head] ELSE media
      /\ at' = "idle" /\ old' = target /\ pending' = FALSE
      /\ UNCHANGED <<sync, target>>
  BY <1>2 DEF WritePrimaryHeader, Put, Return
<1>4. cache \in [LBAs -> Blocks] /\ head \in Headers
  BY <1>1 DEF TypeOK, Idle
<1>5. cache'[1] = head /\ cache'[LastLBA] = cache[LastLBA]
  BY <1>3, <1>4, Layout
<1>6. \A j \in 1 .. TableBlks :
        /\ cache'[BackupStart + j - 1] = cache[BackupStart + j - 1]
        /\ cache'[2 + j - 1] = cache[2 + j - 1]
  BY <1>3, <1>4, Layout
<1>7. PrimaryCopy(cache', target) /\ BackupCopy(cache', target)
  BY <1>2, <1>4, <1>5, <1>6 DEF PrimaryCopy, BackupCopy, Holds
<1>8. PrimaryHeaderInv' /\ BackupAltInv'
  BY <1>2, <1>3, <1>5 DEF IInv, PrimaryHeaderInv, BackupAltInv
<1>9. SyncInv'
  BY <1>3 DEF IInv, SyncInv
<1>10. QED
  BY <1>3, <1>7, <1>8, <1>9
     DEF IInv, SomeCopy, SettledInv, OkInv, BackupPhase, PrimaryPhase, Idle

LEMMA NextInv == CarefulUse /\ IInv /\ [Next]_vars => IInv'
<1> SUFFICES ASSUME CarefulUse, IInv, [Next]_vars
             PROVE  IInv'
  OBVIOUS
<1>1. TypeOK'
  BY NextType DEF IInv
<1>2. ASSUME NEW t \in Tables, WriteModified(t)
      PROVE  IInv'
  <2> DEFINE h == ReadGptB(cache, "any")
  <2>1. h # NoGpt /\ Begin(h, t)
    BY <1>2 DEF WriteModified
  <2>2. h \in Headers
    BY <2>1, ReadType DEF IInv, TypeOK
  <2>3. CASE Valid(cache, 1)
    <3>1. h = cache[1]
      BY <2>3 DEF ReadGptB, Primary
    <3>2. h.my = 1 /\ h.alt \in {1, LastLBA}
      BY <2>2, <3>1 DEF IInv, PrimaryHeaderInv
    <3>3. QED
      BY <1>1, <2>1, <2>2, <3>2, BeginInv
  <2>4. CASE ~Valid(cache, 1)
    <3>1. h = cache[LastLBA]
      BY <2>1, <2>4 DEF ReadGptB, Primary
    <3>2. ~PrimaryCopy(cache, old)
      BY <2>4, Layout DEF Valid, PrimaryCopy, Holds, EntriesOf, LBAs
    <3>3. h.my = LastLBA /\ h.es = BackupStart
      BY <3>1, <3>2 DEF IInv, SomeCopy, BackupCopy
    <3>4. h.alt \in {1, LastLBA}
      BY <2>2, <3>1 DEF IInv, BackupAltInv
    <3>5. QED
      BY <1>1, <2>1, <2>2, <3>3, <3>4, BeginInv
  <2>5. QED
    BY <2>3, <2>4
<1>3. ASSUME NEW t \in Tables, WriteImage(t)
      PROVE  IInv'
  BY <1>1, <1>3, ImageHeader, BeginInv DEF WriteImage
<1> USE DEF IInv, SomeCopy, PrimaryHeaderInv, BackupAltInv, SyncInv,
            SettledInv, OkInv, BackupPhase, PrimaryPhase, Idle
<1>4. CASE BlockSizeMismatch
  BY <1>1, <1>4 DEF BlockSizeMismatch
<1>5. CASE WriteEntryBlock
  BY <1>1, <1>5, WriteEntryBlockInv
<1>6. CASE WriteBackupHeader
  BY <1>1, <1>6, WriteBackupHeaderInv
<1>7. CASE WritePrimaryHeader
  BY <1>1, <1>7, WritePrimaryHeaderInv
<1>8. CASE IOFailure
  BY <1>1, <1>8 DEF IOFailure, Return
<1>9. CASE Kill
  BY <1>1, <1>9 DEF Kill, Return
<1>10. CASE PowerCut
  BY <1>1, <1>10 DEF PowerCut, Return, CarefulUse
<1>11. ASSUME NEW lba \in LBAs, WriteBack(lba)
       PROVE  IInv'
  BY <1>1, <1>11 DEF WriteBack
<1>12. CASE UNCHANGED vars
  BY <1>1, <1>12 DEF vars
<1>13. QED
  BY <1>2, <1>3, <1>4, <1>5, <1>6, <1>7, <1>8, <1>9, <1>10, <1>11, <1>12
     DEF Next

LEMMA InvRecoverable == IInv => Recoverable
<1> SUFFICES ASSUME IInv PROVE Recoverable
  OBVIOUS
<1>1. CASE Valid(cache, 1)
  <2>1. ReadGptB(cache, "any") = cache[1] /\ cache[1] \in Headers
    BY <1>1 DEF ReadGptB, Primary, Valid
  <2>2. ReadTable(cache) = cache[1].tbl
    BY <2>1, BlockKindsAssumption DEF ReadTable
  <2>3. QED
    BY <2>1, <2>2 DEF IInv, PrimaryHeaderInv, Recoverable
<1>2. CASE ~Valid(cache, 1)
  <2>1. BackupCopy(cache, target)
    BY <1>2, CopiesValid DEF IInv, SomeCopy
  <2>2. ReadGptB(cache, "any") = cache[LastLBA]
    BY <1>2, <2>1, CopiesValid DEF ReadGptB, Primary
  <2>3. ReadTable(cache) = target
    BY <2>1, <2>2, BlockKindsAssumption DEF ReadTable, BackupCopy
  <2>4. QED
    BY <2>3 DEF Recoverable
<1>3. QED
  BY <1>1, <1>2

LEMMA InvBothCopies == IInv => BothCopiesWritten
<1> SUFFICES ASSUME IInv, ~pending, result = "ok",
                    NEW type \in {"primary", "backup"}
             PROVE  /\ ReadGptB(cache, type) # NoGpt
                    /\ ReadGptB(cache, type).tbl = target
  BY DEF BothCopiesWritten
<1>1. PrimaryCopy(cache, target) /\ BackupCopy(cache, target)
  BY DEF IInv, SettledInv, OkInv
<1>2. Valid(cache, 1) /\ Valid(cache, LastLBA)
  BY <1>1, CopiesValid
<1>3. CASE type = "primary"
  BY <1>1, <1>2, <1>3, BlockKindsAssumption DEF ReadGptB, Primary, PrimaryCopy
<1>4. CASE type = "backup"
  BY <1>1, <1>2, <1>4, BlockKindsAssumption DEF ReadGptB, Primary, BackupCopy
<1>5. QED
  BY <1>3, <1>4

\* However writegpt() is interrupted and rerun, for every table, size of table
\* and size of device, readgpt(GPT_ANY) finds the whole old or the whole new
\* partition table.
THEOREM CrashConsistent ==
  ASSUME CarefulUse
  PROVE  Spec => []Recoverable
<1>1. Init => IInv
  BY InitInv
<1>2. IInv /\ [Next]_vars => IInv'
  BY NextInv
<1>3. IInv => Recoverable
  BY InvRecoverable
<1>4. QED
  BY <1>1, <1>2, <1>3, PTL DEF Spec

\* A writegpt() that returned true has left both copies whole with the table
\* it was given.
THEOREM SuccessIsComplete ==
  ASSUME CarefulUse
  PROVE  Spec => []BothCopiesWritten
<1>1. Init => IInv
  BY InitInv
<1>2. IInv /\ [Next]_vars => IInv'
  BY NextInv
<1>3. IInv => BothCopiesWritten
  BY InvBothCopies
<1>4. QED
  BY <1>1, <1>2, <1>3, PTL DEF Spec

------------------------------------------------------------------------------
(* The data area. *)

\* What is written with the header in hand lies outside the data area the header
\* declares; with an entryStart past the device not even one block is written.
OutsideData ==
  /\ at = "backup" => Sane(head) /\ (i > 0 => head.es <= LastLBA)
  /\ at = "primary" => head.my = 1 /\ head.es = 2 /\ EntryBlks + 1 < head.ds

DataInv == TypeOK /\ SyncInv /\ OutsideData

LEMMA InitData == Init => DataInv
BY InitType DEF Init, DataInv, SyncInv, OutsideData

LEMMA NextData == ~PowerCutUnsynced /\ DataInv /\ [Next]_vars => DataInv'
<1> SUFFICES ASSUME ~PowerCutUnsynced, DataInv, [Next]_vars
             PROVE  DataInv'
  OBVIOUS
<1>0. TypeOK /\ TypeOK'
  BY NextType DEF DataInv
<1> USE DEF DataInv, SyncInv, OutsideData
<1>1. ASSUME NEW h \in Headers, NEW t \in Tables, Begin(h, t)
      PROVE  DataInv'
  <2> DEFINE new == ToBackup([h EXCEPT !.tbl = t])
  <2>1. SyncInv' /\ Idle
    BY <1>1 DEF Begin
  <2>2. CASE Sane(new) /\ at' = "backup" /\ i' = 0 /\ head' = new
    <3>1. Sane(head')
      BY <2>2
    <3>2. QED
      BY <1>0, <2>1, <2>2, <3>1
  <2>3. CASE UNCHANGED <<at, i, head>>
    BY <1>0, <2>1, <2>3 DEF Idle
  <2>4. QED
    BY <1>1, <2>2, <2>3 DEF Begin
<1>2. ASSUME NEW t \in Tables, WriteModified(t)
      PROVE  DataInv'
  BY <1>0, <1>1, <1>2, ReadType DEF WriteModified, TypeOK
<1>3. ASSUME NEW t \in Tables, WriteImage(t)
      PROVE  DataInv'
  BY <1>1, <1>3, ImageHeader DEF WriteImage
<1>4. CASE BlockSizeMismatch
  BY <1>0, <1>4 DEF BlockSizeMismatch
<1>5. CASE WriteEntryBlock
  <2>1. head \in Headers /\ head.es \in Nat /\ i \in Nat
    BY <1>0, <1>5, Layout DEF WriteEntryBlock, TypeOK, Headers
  <2>2. head.es + i <= LastLBA
    BY <1>5 DEF WriteEntryBlock, Put, LBAs
  <2>3. head.es <= LastLBA
    BY <2>1, <2>2, Layout
  <2>4. QED
    BY <1>0, <1>5, <2>3 DEF WriteEntryBlock, Put, Sane
<1>6. CASE WriteBackupHeader
  <2>1. head \in Headers /\ EntryBlks + 1 < head.ds
    BY <1>0, <1>6 DEF WriteBackupHeader, TypeOK, Idle, Sane
  <2>2. head'.my = 1 /\ head'.es = 2 /\ EntryBlks + 1 < head'.ds
    BY <1>6, <2>1 DEF WriteBackupHeader, ToPrimary, Headers
  <2>3. QED
    BY <1>0, <1>6, <2>2 DEF WriteBackupHeader, Put
<1>7. CASE WritePrimaryHeader
  BY <1>0, <1>7 DEF WritePrimaryHeader, Put, Return
<1>8. CASE IOFailure
  BY <1>0, <1>8 DEF IOFailure, Return
<1>9. CASE Kill
  BY <1>0, <1>9 DEF Kill, Return
<1>10. CASE PowerCut
  BY <1>0, <1>10 DEF PowerCut, Return
<1>11. ASSUME NEW lba \in LBAs, WriteBack(lba)
       PROVE  DataInv'
  BY <1>0, <1>11 DEF WriteBack
<1>12. CASE UNCHANGED vars
  BY <1>0, <1>12 DEF vars
<1>13. QED
  BY <1>2, <1>3, <1>4, <1>5, <1>6, <1>7, <1>8, <1>9, <1>10, <1>11, <1>12
     DEF Next

\* Every write of a running call misses the header's data area: the entry blocks
\* and the header of the backup lie above it, those of the primary copy below.
LEMMA StepOutsideData ==
  ASSUME ~PowerCutUnsynced, DataInv, [Next]_vars, ~Idle,
         NEW l \in head.ds .. head.de
  PROVE  cache'[l] = cache[l]
<1>1. /\ head \in Headers /\ head.es \in Nat /\ head.my \in LBAs
      /\ head.de \in Nat /\ head.ds \in Nat /\ i \in 0 .. TableBlks
      /\ l \in LBAs /\ cache \in [LBAs -> Blocks]
  BY Layout DEF DataInv, TypeOK, Headers, LBAs
<1>2. at = "backup" => Sane(head)
  BY DEF DataInv, OutsideData
<1>3. at = "primary" => head.my = 1 /\ head.es = 2 /\ EntryBlks + 1 < head.ds
  BY DEF DataInv, OutsideData
<1>4. at \in {"backup", "primary"}
  BY DEF DataInv, TypeOK, Idle
<1>5. CASE WriteEntryBlock
  <2>1. i < TableBlks /\ cache' = [cache EXCEPT ![head.es + i] =
                                     EntryBlock(head.tbl, i + 1)]
    BY <1>5 DEF WriteEntryBlock, Put
  <2>2. head.es + i # l
    BY <1>1, <1>2, <1>3, <1>4, <2>1, Layout DEF Sane
  <2>3. QED
    BY <1>1, <2>1, <2>2
<1>6. CASE WriteBackupHeader
  <2>1. at = "backup" /\ i = TableBlks
        /\ cache' = [cache EXCEPT ![head.my] = head]
    BY <1>6 DEF WriteBackupHeader, Put
  <2>2. head.es <= LastLBA
    BY <2>1, Layout DEF DataInv, OutsideData
  <2>3. Add64(EntryBlks, head.es) = EntryBlks + head.es
    BY <1>1, <2>2, Layout DEF Add64
  <2>4. head.my # l
    BY <1>1, <1>2, <2>1, <2>3, Layout DEF Sane, LBAs
  <2>5. QED
    BY <1>1, <2>1, <2>4
<1>7. CASE WritePrimaryHeader
  <2>1. at = "primary" /\ cache' = [cache EXCEPT ![head.my] = head]
    BY <1>7 DEF WritePrimaryHeader, Put
  <2>2. QED
    BY <1>1, <1>3, <2>1, Layout
<1>8. CASE PowerCut
  BY <1>8 DEF PowerCut, DataInv, SyncInv
<1>9. CASE UNCHANGED cache
  BY <1>9
<1>10. QED
  BY <1>5, <1>6, <1>7, <1>8, <1>9
     DEF Next, vars, WriteModified, WriteImage, Begin, BlockSizeMismatch,
         IOFailure, Kill, WriteBack

\* While the power stays on where O_SYNC is not used, a running call changes no
\* block of the data area its header declares, whatever header it was given.
THEOREM DataKept ==
  ASSUME ~PowerCutUnsynced
  PROVE  Spec => DataUntouched
<1>1. Spec => []DataInv
  <2>1. DataInv /\ [Next]_vars => DataInv'
    BY NextData
  <2>2. QED
    BY <2>1, InitData, PTL DEF Spec
<1>2. DataInv /\ [Next]_vars =>
        [ ~Idle => \A l \in head.ds .. head.de : cache'[l] = cache[l] ]_vars
  BY StepOutsideData
<1>3. QED
  BY <1>1, <1>2, PTL DEF Spec, DataUntouched
==============================================================================
