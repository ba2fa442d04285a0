---------------------------- MODULE GptRefinement ----------------------------
(***************************************************************************)
(* writegpt() keeps its promise: Gpt implements AtomicGpt.  The table a    *)
(* reader finds is in one of the two copies; which one, and so the moment  *)
(* at which it changes, is decided by whether the primary copy is whole.   *)
(***************************************************************************)
EXTENDS GptProofs

\* While the primary's header stands, each of its entry blocks is the old
\* table's or the wanted one's, whatever was interrupted before.
MixedInv == \A j \in 1 .. TableBlks : cache[j + 1] \in {old[j], target[j]}

\* Block 1 always holds a header.
HeaderInv == cache[1] \in Headers

RInv == IInv /\ MixedInv /\ HeaderInv

------------------------------------------------------------------------------
(* What a reader finds. *)

\* A whole primary copy is what is read, whatever the backup holds.
LEMMA ReadPrimary ==
  ASSUME NEW d, Valid(d, 1) PROVE ReadTable(d) = d[1].tbl
<1>1. ReadGptB(d, "any") = d[1] /\ d[1] \in Headers
  BY DEF ReadGptB, Primary, Valid
<1>2. QED
  BY <1>1, BlockKindsAssumption DEF ReadTable

\* Without one the table is read from a whole backup copy.
LEMMA ReadBackup ==
  ASSUME NEW d, NEW t, BackupCopy(d, t), ~Valid(d, 1)
  PROVE  ReadTable(d) = t
<1>1. ReadGptB(d, "any") = d[LastLBA] /\ d[LastLBA] \in Headers
  BY CopiesValid DEF ReadGptB, Primary, BackupCopy
<1>2. QED
  BY <1>1, BlockKindsAssumption DEF ReadTable, BackupCopy

\* A primary copy is whole when its entries are those of its header's table.
LEMMA PrimaryValid ==
  ASSUME NEW d, d[1] \in Headers, d[1].my = 1, d[1].es = 2
  PROVE  Valid(d, 1) <=> \A j \in 1 .. TableBlks : d[j + 1] = d[1].tbl[j]
<1>1. EntriesOf(d[1]) = 2
  BY DEF EntriesOf
<1>2. \A j \in 1 .. TableBlks : 2 + j - 1 \in LBAs /\ 2 + j - 1 = j + 1
  BY Layout
<1>3. QED
  BY <1>1, <1>2 DEF Valid

LEMMA SameTable ==
  ASSUME NEW s \in Tables, NEW t \in Tables, \A j \in 1 .. TableBlks : s[j] = t[j]
  PROVE  s = t
BY LayoutAssumption

------------------------------------------------------------------------------
(* The invariant. *)

LEMMA InitR == CarefulUse /\ Init => RInv
<1> SUFFICES ASSUME CarefulUse, Init PROVE RInv
  OBVIOUS
<1>1. IInv
  BY InitInv
<1>2. PrimaryCopy(cache, target) /\ old = target
  BY <1>1 DEF Init, IInv, SettledInv
<1>3. \A j \in 1 .. TableBlks : cache[j + 1] = target[j]
  BY <1>2, Layout DEF PrimaryCopy, Holds
<1>4. QED
  BY <1>1, <1>2, <1>3 DEF RInv, MixedInv, HeaderInv, PrimaryCopy

\* Which blocks of the primary copy a write changes: one of its entries, or its
\* header, and only while it is the primary's turn.
LEMMA EntryWritten ==
  ASSUME CarefulUse, IInv, WriteEntryBlock
  PROVE  /\ at \in {"backup", "primary"} /\ at' = at
         /\ UNCHANGED <<old, target, pending, result>>
         /\ i + 1 \in 1 .. TableBlks
         /\ cache'[1] = cache[1]
         /\ \A j \in 1 .. TableBlks :
              cache'[j + 1] = IF at = "primary" /\ j = i + 1 THEN target[j]
                              ELSE cache[j + 1]
<1> USE DEF Idle
<1>1. TypeOK /\ at \in {"backup", "primary"} /\ cache \in [LBAs -> Blocks]
      /\ UNCHANGED <<at, old, target, pending, result>>
  BY DEF IInv, TypeOK, WriteEntryBlock
<1>2. i \in 0 .. TableBlks - 1 /\ i + 1 \in 1 .. TableBlks
  BY <1>1, Layout DEF TypeOK, WriteEntryBlock
<1>3. head.tbl = target
  BY <1>1 DEF IInv, BackupPhase, PrimaryPhase
<1>4. /\ head.es + i \in LBAs
      /\ cache' = [cache EXCEPT ![head.es + i] = target[i + 1]]
  BY <1>1, <1>2, <1>3, EntryBlockIs DEF WriteEntryBlock, Put, TypeOK
<1>5. CASE at = "backup"
  <2>1. head.es \in Nat
    BY <1>1, Layout DEF TypeOK, Headers
  <2>2. head.es = BackupStart
    BY <1>4, <1>5, <2>1, Layout DEF IInv, BackupPhase
  <2>3. \A l \in 1 .. TableBlks + 1 : cache'[l] = cache[l]
    BY <1>1, <1>2, <1>4, <2>2, Layout
  <2>4. QED
    BY <1>1, <1>2, <1>5, <2>3, Layout
<1>6. CASE at = "primary"
  <2>1. head.es = 2
    BY <1>6 DEF IInv, PrimaryPhase
  <2>2. QED
    BY <1>1, <1>2, <1>4, <1>6, <2>1, Layout
<1>7. QED
  BY <1>1, <1>5, <1>6

LEMMA BackupHeaderWritten ==
  ASSUME IInv, WriteBackupHeader
  PROVE  /\ UNCHANGED <<old, target, pending, result>>
         /\ at = "backup" /\ at' = "primary"
         /\ \A l \in 1 .. TableBlks + 1 : cache'[l] = cache[l]
<1>1. TypeOK /\ at = "backup" /\ i = TableBlks
  BY DEF IInv, WriteBackupHeader
<1>2. head.my = LastLBA
  BY <1>1, Layout DEF IInv, BackupPhase
<1>3. cache' = [cache EXCEPT ![LastLBA] = head] /\ cache \in [LBAs -> Blocks]
  BY <1>1, <1>2 DEF WriteBackupHeader, Put, TypeOK
<1>4. QED
  BY <1>1, <1>3, Layout DEF WriteBackupHeader

LEMMA PrimaryHeaderWritten ==
  ASSUME IInv, WritePrimaryHeader
  PROVE  /\ PrimaryCopy(cache', target)
         /\ at = "primary" /\ at' = "idle" /\ result' = "ok"
         /\ old' = target /\ target' = target
         /\ \A j \in 1 .. TableBlks : cache[j + 1] = target[j]
<1>1. TypeOK /\ at = "primary" /\ i = TableBlks
  BY DEF IInv, WritePrimaryHeader
<1>2. /\ head.tbl = target /\ head.my = 1 /\ head.es = 2
      /\ Holds(cache, 2, target, TableBlks)
  BY <1>1 DEF IInv, PrimaryPhase
<1>3. /\ cache' = [cache EXCEPT ![1] = head]
      /\ cache \in [LBAs -> Blocks] /\ head \in Headers
  BY <1>1, <1>2 DEF WritePrimaryHeader, Put, TypeOK, Idle
<1>4. \A j \in 1 .. TableBlks :
        cache'[2 + j - 1] = cache[2 + j - 1] /\ 2 + j - 1 = j + 1
  BY <1>3, Layout
<1>5. QED
  BY <1>1, <1>2, <1>3, <1>4, Layout
     DEF PrimaryCopy, Holds, WritePrimaryHeader, Return

\* A call starts from a whole primary copy, or repeats the one before it.
LEMMA BeginR ==
  ASSUME RInv, NEW h, NEW t, Begin(h, t)
  PROVE  MixedInv' /\ HeaderInv'
<1>1. cache' = cache /\ \A j \in 1 .. TableBlks : 2 + j - 1 = j + 1
  BY Layout DEF Begin
<1>2. CASE /\ target' = t
           /\ old' = IF Valid(cache, Primary) THEN cache[Primary].tbl ELSE old
  <2>1. CASE Valid(cache, Primary)
    <3>1. PrimaryCopy(cache, old')
      BY <1>2, <2>1, ValidIsCopy DEF RInv, IInv, Primary
    <3>2. QED
      BY <1>1, <3>1 DEF MixedInv, HeaderInv, PrimaryCopy, Holds
  <2>2. CASE ~Valid(cache, Primary)
    <3>1. pending
      BY <2>2, CopiesValid DEF RInv, IInv, SettledInv, Primary
    <3>2. old' = old /\ target' = target
      BY <1>2, <2>2, <3>1 DEF Begin
    <3>3. QED
      BY <1>1, <3>2 DEF RInv, MixedInv, HeaderInv
  <2>3. QED
    BY <2>1, <2>2
<1>3. CASE UNCHANGED <<old, target>>
  BY <1>1, <1>3 DEF RInv, MixedInv, HeaderInv
<1>4. QED
  BY <1>2, <1>3 DEF Begin

LEMMA NextR == CarefulUse /\ RInv /\ [Next]_vars => RInv'
<1> SUFFICES ASSUME CarefulUse, RInv, [Next]_vars
             PROVE  MixedInv' /\ HeaderInv'
  BY NextInv DEF RInv
<1>0. IInv
  BY DEF RInv
<1>1. CASE \E t \in Tables : WriteModified(t) \/ WriteImage(t)
  BY <1>1, BeginR DEF WriteModified, WriteImage
<1> USE DEF RInv, MixedInv, HeaderInv
<1>2. CASE WriteEntryBlock
  BY <1>0, <1>2, EntryWritten
<1>3. CASE WriteBackupHeader
  <2>1. \A j \in 1 .. TableBlks : j + 1 \in 1 .. TableBlks + 1
    BY Layout
  <2>2. 1 \in 1 .. TableBlks + 1
    BY Layout
  <2>3. QED
    BY <1>0, <1>3, <2>1, <2>2, BackupHeaderWritten
<1>4. CASE WritePrimaryHeader
  <2>1. \A j \in 1 .. TableBlks : 2 + j - 1 = j + 1
    BY Layout
  <2>2. QED
    BY <1>0, <1>4, <2>1, PrimaryHeaderWritten DEF PrimaryCopy, Holds
<1>5. CASE UNCHANGED <<cache, old, target>>
  BY <1>5
<1>6. CASE PowerCut
  BY <1>0, <1>6 DEF PowerCut, IInv, SyncInv, CarefulUse
<1>7. QED
  BY <1>1, <1>2, <1>3, <1>4, <1>5, <1>6
     DEF Next, BlockSizeMismatch, IOFailure, Kill, WriteBack, vars

------------------------------------------------------------------------------
(* The steps. *)

LEMMA InitPromise == CarefulUse /\ Init => Promise!Init
<1> SUFFICES ASSUME CarefulUse, Init PROVE Promise!Init
  OBVIOUS
<1>1. IInv
  BY InitInv
<1>2. PrimaryCopy(cache, target) /\ target \in Tables
  BY <1>1 DEF Init, IInv, SettledInv, TypeOK
<1>3. ReadTable(cache) = target
  BY <1>2, CopiesValid, ReadPrimary DEF PrimaryCopy
<1>4. QED
  BY <1>2, <1>3 DEF Init, Promise!Init, Idle

\* A block that is written changes the table that is read, if at all, to the
\* wanted one.
LEMMA EntryPromise ==
  ASSUME CarefulUse, RInv, RInv', WriteEntryBlock
  PROVE  ReadTable(cache') \in {ReadTable(cache), target}
<1> USE DEF RInv
<1>1. /\ at \in {"backup", "primary"} /\ UNCHANGED <<at, old, target>>
      /\ i + 1 \in 1 .. TableBlks /\ cache'[1] = cache[1]
      /\ \A j \in 1 .. TableBlks :
           cache'[j + 1] = IF at = "primary" /\ j = i + 1 THEN target[j]
                           ELSE cache[j + 1]
  BY EntryWritten
<1>2. /\ cache[1] \in Headers /\ cache[1].my = 1 /\ cache[1].es = 2
      /\ cache[1].tbl \in {old, target}
  BY DEF IInv, HeaderInv, PrimaryHeaderInv
<1>3. CASE ~Valid(cache', 1)
  <2>1. BackupCopy(cache', target)
    BY <1>1, <1>3, CopiesValid DEF IInv, SomeCopy
  <2>2. QED
    BY <1>3, <2>1, ReadBackup
<1>4. CASE Valid(cache', 1) /\ cache[1].tbl = target
  BY <1>1, <1>4, ReadPrimary
<1>5. CASE Valid(cache', 1) /\ cache[1].tbl = old /\ old # target
  \* The block written is the old table's too: the copy was whole before.
  <2>1. \A j \in 1 .. TableBlks : cache'[j + 1] = old[j]
    BY <1>1, <1>2, <1>5, PrimaryValid
  <2>2. \A j \in 1 .. TableBlks : cache[j + 1] = old[j]
    BY <1>1, <2>1 DEF MixedInv
  <2>3. Valid(cache, 1)
    BY <1>2, <1>5, <2>2, PrimaryValid
  <2>4. QED
    BY <1>1, <1>5, <2>3, ReadPrimary
<1>6. QED
  BY <1>2, <1>3, <1>4, <1>5

\* The backup's header changes nothing a reader sees: it reads the primary copy,
\* or reads the wanted table from the backup already.
LEMMA BackupHeaderPromise ==
  ASSUME RInv, RInv', WriteBackupHeader
  PROVE  ReadTable(cache') = ReadTable(cache)
<1> USE DEF RInv
<1>1. /\ target' = target /\ at = "backup" /\ at' = "primary"
      /\ \A l \in 1 .. TableBlks + 1 : cache'[l] = cache[l]
  BY BackupHeaderWritten
<1>2. /\ cache[1] \in Headers /\ cache[1].my = 1 /\ cache[1].es = 2
  BY DEF IInv, HeaderInv, PrimaryHeaderInv
<1>3. cache'[1] = cache[1]
      /\ \A j \in 1 .. TableBlks : cache'[j + 1] = cache[j + 1]
  BY <1>1, Layout
<1>4. Valid(cache', 1) <=> Valid(cache, 1)
  BY <1>2, <1>3, PrimaryValid
<1>5. CASE Valid(cache, 1)
  BY <1>3, <1>4, <1>5, ReadPrimary
<1>6. CASE ~Valid(cache, 1)
  <2>1. BackupCopy(cache, target)
    BY <1>6, CopiesValid DEF IInv, SomeCopy
  <2>2. BackupCopy(cache', target)
    BY <1>1 DEF IInv, PrimaryPhase
  <2>3. QED
    BY <1>4, <1>6, <2>1, <2>2, ReadBackup
<1>7. QED
  BY <1>5, <1>6

\* When the primary's header is written all its entries are the wanted ones: the
\* wanted table is read before and after.
LEMMA PrimaryHeaderPromise ==
  ASSUME RInv, RInv', WritePrimaryHeader
  PROVE  ReadTable(cache) = target /\ ReadTable(cache') = target
<1> USE DEF RInv
<1>1. /\ PrimaryCopy(cache', target) /\ at = "primary"
      /\ \A j \in 1 .. TableBlks : cache[j + 1] = target[j]
  BY PrimaryHeaderWritten
<1>2. ReadTable(cache') = target
  BY <1>1, CopiesValid, ReadPrimary DEF PrimaryCopy
<1>3. CASE Valid(cache, 1)
  <2>1. /\ cache[1] \in Headers /\ cache[1].my = 1 /\ cache[1].es = 2
    BY DEF IInv, HeaderInv, PrimaryHeaderInv
  <2>2. \A j \in 1 .. TableBlks : cache[1].tbl[j] = target[j]
    BY <1>1, <1>3, <2>1, PrimaryValid
  <2>3. cache[1].tbl \in Tables /\ target \in Tables
    BY <2>1 DEF Headers, IInv, TypeOK
  <2>4. cache[1].tbl = target
    BY <2>2, <2>3, SameTable
  <2>5. QED
    BY <1>2, <1>3, <2>4, ReadPrimary
<1>4. CASE ~Valid(cache, 1)
  <2>1. BackupCopy(cache, target)
    BY <1>4, CopiesValid DEF IInv, SomeCopy
  <2>2. QED
    BY <1>2, <1>4, <2>1, ReadBackup
<1>5. QED
  BY <1>3, <1>4

LEMMA StepPromise ==
  CarefulUse /\ RInv /\ RInv' /\ [Next]_vars => [Promise!Next]_(Promise!avars)
<1> SUFFICES ASSUME CarefulUse, RInv, RInv', [Next]_vars
             PROVE  [Promise!Next]_(Promise!avars)
  OBVIOUS
<1> USE DEF Idle
<1>0. target' \in Tables
  BY DEF RInv, IInv, TypeOK
<1>1. ASSUME NEW h, NEW t, Begin(h, t) PROVE Promise!Next
  <2>1. CASE at' = "backup" /\ result' = "none"
    <3>1. Promise!Begin
      BY <1>0, <1>1, <2>1 DEF Begin, Promise!Begin
    <3>2. QED
      BY <3>1 DEF Promise!Next
  <2>2. CASE result' = "failed" /\ UNCHANGED <<at, i, head, old, target, pending>>
    <3>1. Promise!Refuse
      BY <1>1, <2>2 DEF Begin, Promise!Refuse
    <3>2. QED
      BY <3>1 DEF Promise!Next
  <2>3. QED
    BY <1>1, <2>1, <2>2 DEF Begin
<1>2. CASE \E t \in Tables : WriteModified(t) \/ WriteImage(t)
  BY <1>1, <1>2 DEF WriteModified, WriteImage
<1>3. CASE BlockSizeMismatch
  <2>1. Promise!Refuse
    BY <1>3 DEF BlockSizeMismatch, Promise!Refuse
  <2>2. QED
    BY <2>1 DEF Promise!Next
<1>4. CASE WriteEntryBlock
  <2>1. /\ at \in {"backup", "primary"} /\ at' = at
        /\ UNCHANGED <<target, result>>
    BY <1>4, EntryWritten DEF RInv
  <2>2. CASE ReadTable(cache') = ReadTable(cache)
    BY <2>1, <2>2 DEF Promise!avars
  <2>3. CASE ReadTable(cache') = target
    <3>1. Promise!Commit
      BY <2>1, <2>3 DEF Promise!Commit
    <3>2. QED
      BY <3>1 DEF Promise!Next
  <2>4. QED
    BY <1>4, <2>2, <2>3, EntryPromise
<1>5. CASE WriteBackupHeader
  <2>1. at = "backup" /\ at' = "primary" /\ UNCHANGED <<target, result>>
    BY <1>5, BackupHeaderWritten DEF RInv
  <2>2. QED
    BY <1>5, <2>1, BackupHeaderPromise DEF Promise!avars
<1>6. CASE WritePrimaryHeader
  <2>1. /\ at = "primary" /\ at' = "idle" /\ result' = "ok"
        /\ target' = target
    BY <1>6, PrimaryHeaderWritten DEF RInv
  <2>2. Promise!Succeed
    BY <1>6, <2>1, PrimaryHeaderPromise DEF Promise!Succeed
  <2>3. QED
    BY <2>2 DEF Promise!Next
<1>7. CASE IOFailure \/ Kill \/ PowerCut
  <2>1. cache' = cache
    BY <1>7 DEF IOFailure, Kill, PowerCut, RInv, IInv, SyncInv, CarefulUse
  <2>2. Promise!GiveUp
    BY <1>7, <2>1 DEF IOFailure, Kill, PowerCut, Return, Promise!GiveUp
  <2>3. QED
    BY <2>2 DEF Promise!Next
<1>8. CASE (\E lba \in LBAs : WriteBack(lba)) \/ UNCHANGED vars
  BY <1>8 DEF WriteBack, vars, Promise!avars
<1>9. QED
  BY <1>2, <1>3, <1>4, <1>5, <1>6, <1>7, <1>8 DEF Next

------------------------------------------------------------------------------

\* To a reader of the device writegpt() is atomic, for every geometry, size of
\* table and interruption: the table found changes in one step from the old one
\* to the wanted one, never back, and success means that the step has been taken.
THEOREM WritesAtomically ==
  ASSUME CarefulUse
  PROVE  Spec => ImplementsAtomicGpt
<1>1. Spec => []RInv
  <2>1. Init => RInv
    BY InitR
  <2>2. RInv /\ [Next]_vars => RInv'
    BY NextR
  <2>3. QED
    BY <2>1, <2>2, PTL DEF Spec
<1>2. Init => Promise!Init
  BY InitPromise
<1>3. RInv /\ RInv' /\ [Next]_vars => [Promise!Next]_(Promise!avars)
  BY StepPromise
<1>4. QED
  BY <1>1, <1>2, <1>3, PTL DEF Spec, ImplementsAtomicGpt, Promise!Spec
==============================================================================
