--------------------------- MODULE DirtySantaProofs ---------------------------
(***************************************************************************)
(* dirtysanta.c for every size and contents of the slices, of the image    *)
(* and of older backups, and for every number of runs, failures and kills: *)
(* the boot loader is written to only when the backups are whole.          *)
(***************************************************************************)
EXTENDS DirtySanta, SequenceTheorems, TLAPS

\* Files and slices: what they hold is typed, and a slice keeps its size.
StoreType ==
  /\ slice \in [Slices -> Seq(Data)]
  /\ \A s \in Slices : Len(slice[s]) = Len(Stock[s])
  /\ backup \in [Slices -> Seq(Data) \cup {Absent}]
  /\ image \in Images
  /\ aboot0 \in Seq(Data)

\* The program.
RunType ==
  /\ pc \in Busy \cup Ends
  /\ step \in 1 .. 4
  /\ at \in {"open", "write", "tail"} /\ pos \in Nat

\* The copy at hand has an existing source; it agrees with it so far.
CopyInv ==
  pc \in Busy /\ at # "open" =>
    /\ Source \in Seq(Data) /\ Target \in Seq(Data)
    /\ pos <= Len(Source) /\ pos <= Len(Target)
    /\ \A k \in 1 .. pos : Target[k] = Source[k]
    /\ at = "tail" => pos = Len(Source)

\* While backups are made, aboot is as it was found and the backups of the
\* earlier entries of the list are whole.
DoneInv ==
  pc = "backup" =>
    /\ slice["aboot"] = aboot0
    /\ \A k \in 1 .. step - 1 : Copied(backup[BackupList[k]], slice[BackupList[k]])

SantaInv ==
  StoreType /\ RunType /\ CopyInv /\ DoneInv
    /\ BackupHeldWhileFlashing /\ FinishedMeansFlashed

------------------------------------------------------------------------------
(* The list, and sequences. *)

LEMMA List ==
  /\ Len(BackupList) = 4 /\ DOMAIN BackupList = 1 .. 4
  /\ BackupList[1] = "aboot" /\ BackupList[2] = "boot"
  /\ BackupList[3] = "recovery" /\ BackupList[4] = "fdt"
  /\ Slices = {"aboot", "boot", "recovery", "fdt"}
<1>1. /\ Len(BackupList) = 4 /\ DOMAIN BackupList = 1 .. 4
      /\ BackupList[1] = "aboot" /\ BackupList[2] = "boot"
      /\ BackupList[3] = "recovery" /\ BackupList[4] = "fdt"
  BY DEF BackupList
<1>2. Slices = {BackupList[k] : k \in 1 .. 4}
  BY <1>1 DEF Slices, Range
<1>3. 1 .. 4 = {1, 2, 3, 4}
  OBVIOUS
<1>4. QED
  BY <1>1, <1>2, <1>3

\* A function on 1 .. n is a sequence of that length.
LEMMA FunctionIsSeq ==
  ASSUME NEW S, NEW n \in Nat, NEW f \in [1 .. n -> S]
  PROVE  f \in Seq(S) /\ Len(f) = n
<1>1. f \in Seq(S)
  BY SeqDef
<1>2. QED
  BY <1>1, LenProperties

\* A file is contents, or none.
LEMMA ContentsType ==
  ASSUME NEW file \in Seq(Data) \cup {Absent}
  PROVE  Contents(file) \in Seq(Data) /\ (file # Absent => Contents(file) = file)
BY EmptySeq DEF Contents

LEMMA ResizedType ==
  ASSUME NEW d \in Seq(Data), NEW n \in Nat
  PROVE  /\ Resized(d, n) \in Seq(Data) /\ Len(Resized(d, n)) = n
         /\ \A k \in 1 .. n : k <= Len(d) => Resized(d, n)[k] = d[k]
<1>1. Resized(d, n) \in [1 .. n -> Data]
  <2>1. \A k \in 1 .. n : k <= Len(d) => d[k] \in Data
    BY LenProperties, ElementOfSeq
  <2>2. Zero \in Data
    BY DEF Data
  <2>3. QED
    BY <2>1, <2>2 DEF Resized
<1>2. QED
  BY <1>1, FunctionIsSeq DEF Resized

LEMMA CutType ==
  ASSUME NEW d \in Seq(Data), NEW n \in Nat, NEW e \in Cut(d, n)
  PROVE  e \in Seq(Data)
BY ResizedType DEF Cut

LEMMA PrefixByElements ==
  ASSUME NEW s \in Seq(Data), NEW d \in Seq(Data)
  PROVE  IsPrefix(s, d) <=>
           Len(s) <= Len(d) /\ \A k \in 1 .. Len(s) : d[k] = s[k]
<1>1. Len(s) \in Nat /\ Len(d) \in Nat
  BY LenProperties
<1>2. SubSeq(s, 1, Len(s)) = s
  BY SubSeqFull
<1>3. ASSUME Len(s) <= Len(d)
      PROVE  SubSeq(d, 1, Len(s)) = s <=> \A k \in 1 .. Len(s) : d[k] = s[k]
  <2>1. \A k \in 1 .. Len(s) : d[k] \in Data
    BY <1>1, <1>3, ElementOfSeq
  <2>2. /\ SubSeq(d, 1, Len(s)) \in Seq(Data)
        /\ Len(SubSeq(d, 1, Len(s))) = Len(s)
        /\ \A k \in 1 .. Len(s) : SubSeq(d, 1, Len(s))[k] = d[k]
    BY <1>1, <2>1, SubSeqProperties
  <2>3. QED
    BY <2>2, SeqEqual
<1>4. QED
  BY <1>2, <1>3 DEF IsPrefix

\* A file that begins like the source is a copy, whether it is cut or not.
LEMMA CutCopy ==
  ASSUME NEW s \in Seq(Data), NEW d \in Seq(Data), NEW e \in Cut(d, Len(s)),
         Len(s) <= Len(d), \A k \in 1 .. Len(s) : d[k] = s[k]
  PROVE  Copied(e, s)
<1>1. Len(s) \in Nat /\ Len(d) \in Nat
  BY LenProperties
<1>2. e \in Seq(Data) /\ e # Absent
  BY <1>1, CutType, DirtySantaAssumption
<1>3. Len(s) <= Len(e) /\ \A k \in 1 .. Len(s) : e[k] = s[k]
  <2>1. CASE e = d
    BY <2>1
  <2>2. CASE e = Resized(d, Len(s))
    <3>1. Len(e) = Len(s) /\ \A k \in 1 .. Len(s) : k <= Len(d) => e[k] = d[k]
      BY <1>1, <2>2, ResizedType
    <3>2. \A k \in 1 .. Len(s) : k <= Len(d)
      BY <1>1
    <3>3. QED
      BY <1>1, <3>1, <3>2
  <2>3. QED
    BY <2>1, <2>2 DEF Cut
<1>4. IsPrefix(s, e)
  BY <1>2, <1>3, PrefixByElements
<1>5. QED
  BY <1>2, <1>4 DEF Copied, Contents

------------------------------------------------------------------------------
(* The initial states. *)

LEMMA InitSanta == Init => SantaInv
<1> SUFFICES ASSUME Init PROVE SantaInv
  OBVIOUS
<1>1. "aboot" \in Slices
  BY List
<1>2. \A s \in Slices : Stock[s] \in Seq(Data)
  BY DirtySantaAssumption, SeqMonotonic DEF Data
<1>3. slice \in [Slices -> Seq(Data)]
  BY <1>2, DirtySantaAssumption DEF Init
<1>4. \A f \in OldBackups : f \in Seq(Data) \cup {Absent}
  BY DirtySantaAssumption, SeqMonotonic DEF Data
<1>5. StoreType
  BY <1>1, <1>2, <1>3, <1>4 DEF Init, StoreType
<1>6. QED
  BY <1>5 DEF Init, SantaInv, RunType, CopyInv, DoneInv, BackupHeldWhileFlashing,
              FinishedMeansFlashed, Busy, Ends

------------------------------------------------------------------------------
(* What a step of copyfile() may change: its target, and nothing else. *)

Kept ==
  /\ StoreType'
  /\ UNCHANGED <<image, aboot0>>
  /\ pc = "backup" =>
       /\ slice' = slice
       /\ \A k \in 1 .. 4 : k # step => backup'[BackupList[k]] = backup[BackupList[k]]
  /\ pc # "backup" =>
       /\ backup' = backup
       /\ \A s \in Slices \ {"aboot"} : slice'[s] = slice[s]

LEMMA UnchangedKept ==
  ASSUME SantaInv, UNCHANGED <<slice, backup, image, aboot0>>
  PROVE  Kept
BY DEF SantaInv, StoreType, Kept

\* A slice that is written to keeps its size.
LEMMA SetTargetKept ==
  ASSUME SantaInv, UNCHANGED <<image, aboot0>>, NEW data \in Seq(Data),
         SetTarget(data), ToDevice => Len(data) = Len(Target)
  PROVE  Kept /\ (IF ToDevice THEN slice'["aboot"] ELSE backup'[BackupList[step]]) = data
<1> USE DEF SantaInv, StoreType, Kept, ToDevice
<1>1. CASE pc = "backup"
  <2>1. BackupList[step] \in Slices
        /\ \A k \in 1 .. 4 : k # step => BackupList[k] # BackupList[step]
    BY List DEF RunType
  <2>2. backup' = [backup EXCEPT ![BackupList[step]] = data] /\ slice' = slice
    BY <1>1 DEF SetTarget
  <2>3. \A k \in 1 .. 4 : BackupList[k] \in Slices
    BY List
  <2>4. QED
    BY <1>1, <2>1, <2>2, <2>3
<1>2. CASE pc # "backup"
  <2>1. slice' = [slice EXCEPT !["aboot"] = data] /\ backup' = backup
    BY <1>2 DEF SetTarget
  <2>2. Len(data) = Len(slice["aboot"]) /\ "aboot" \in Slices
    BY <1>2, List DEF Target
  <2>3. QED
    BY <1>2, <2>1, <2>2
<1>3. QED
  BY <1>1, <1>2

\* copyfile() goes on.
LEMMA GoOnSanta ==
  ASSUME SantaInv, Kept, pc \in Busy, UNCHANGED <<pc, step>>, RunType', CopyInv'
  PROVE  SantaInv'
<1> USE DEF SantaInv, Kept
<1>1. DoneInv'
  <2>1. \A k \in 1 .. step - 1 : k \in 1 .. 4 /\ k # step
    BY DEF RunType
  <2>2. QED
    BY <2>1 DEF DoneInv
<1>2. BackupHeldWhileFlashing' /\ FinishedMeansFlashed'
  BY DEF BackupHeldWhileFlashing, FinishedMeansFlashed, Busy
<1>3. QED
  BY <1>1, <1>2

\* copyfile() returns; the next backup or the flash begins only after "copied".
LEMMA ReturnSanta ==
  ASSUME SantaInv, Kept, pc \in Busy,
         NEW result \in {"copied", "empty", "error", "torn"}, Returned(result),
         pc = "backup" /\ result = "copied" =>
           Copied(backup'[BackupList[step]], slice[BackupList[step]]),
         pc = "flash" /\ result = "copied" => IsPrefix(image, slice'["aboot"])
  PROVE  SantaInv'
<1> USE DEF SantaInv, Kept
<1>1. at' = "open" /\ pos' = 0
  BY DEF Returned, Call
<1>2. CASE pc = "backup"
  <2>1. slice' = slice /\ AfterBackup(result) /\ DoneInv
    BY <1>2 DEF Returned
  <2>2. CASE result # "copied"
    <3>1. pc' = "exit" /\ step' = step
      BY <2>1, <2>2 DEF AfterBackup
    <3>2. QED
      BY <1>1, <3>1 DEF RunType, CopyInv, DoneInv, BackupHeldWhileFlashing,
                        FinishedMeansFlashed, Busy, Ends
  <2>3. CASE result = "copied"
    <3>1. \A k \in 1 .. step : Copied(backup'[BackupList[k]], slice'[BackupList[k]])
      BY <1>2, <2>1, <2>3 DEF DoneInv, RunType
    <3>2. CASE step < 4 /\ step' = step + 1 /\ pc' = pc
      BY <1>1, <1>2, <2>1, <3>1, <3>2
         DEF RunType, CopyInv, DoneInv, BackupHeldWhileFlashing, FinishedMeansFlashed
    <3>3. CASE step = 4 /\ step' = step /\ pc' = "flash"
      <4>1. \A s \in Slices : Copied(backup'[s], slice'[s])
        BY <3>1, <3>3, List
      <4>2. aboot0' = slice'["aboot"]
        BY <1>2, <2>1 DEF DoneInv
      <4>3. QED
        BY <1>1, <3>3, <4>1, <4>2, List
           DEF RunType, CopyInv, DoneInv, BackupHeldWhileFlashing,
               FinishedMeansFlashed, Busy
    <3>4. QED
      BY <2>1, <2>3, <3>2, <3>3, List DEF AfterBackup, RunType
  <2>4. QED
    BY <2>2, <2>3
<1>3. CASE pc = "flash"
  <2>1. AfterFlash(result) /\ step' = step
    BY <1>3 DEF Returned
  <2>2. /\ pc' \in {"finished", "skipped", "notopened", "revert"}
        /\ pc' = "finished" => result = "copied"
    BY <2>1 DEF AfterFlash
  <2>3. BackupHeldWhileFlashing'
    BY <1>3 DEF BackupHeldWhileFlashing
  <2>4. QED
    BY <1>1, <1>3, <2>1, <2>2, <2>3
       DEF RunType, CopyInv, DoneInv, FinishedMeansFlashed, Busy, Ends
<1>4. CASE pc = "revert"
  <2>1. pc' \in {"reverted", "panic"} /\ step' = step
    BY <1>4 DEF Returned
  <2>2. QED
    BY <1>1, <2>1 DEF RunType, CopyInv, DoneInv, BackupHeldWhileFlashing,
                      FinishedMeansFlashed, Busy, Ends
<1>5. QED
  BY <1>2, <1>3, <1>4 DEF Busy

------------------------------------------------------------------------------
(* The steps. *)

\* Source and target of the call at hand.  A slice cannot be missing or empty.
LEMMA SourceTarget ==
  ASSUME SantaInv
  PROVE  /\ Source \in Seq(Data) \cup {Absent}
         /\ pc = "backup" =>
              Source = slice[BackupList[step]] /\ Source \in Seq(Data) /\ Source # <<>>
         /\ pc # "backup" => Source = image
         /\ Target \in Seq(Data) \cup {Absent}
         /\ Contents(Target) \in Seq(Data)
         /\ ToDevice => Target = slice["aboot"] /\ Target \in Seq(Data) /\ Contents(Target) = Target
<1> USE DEF SantaInv, StoreType, RunType
<1>1. BackupList[step] \in Slices /\ "aboot" \in Slices
  BY List
<1>2. \A s \in Slices : slice[s] \in Seq(Data) /\ slice[s] # <<>>
  <2>1. \A s \in Slices : Len(Stock[s]) # 0
    BY DirtySantaAssumption, EmptySeq
  <2>2. QED
    BY <2>1, EmptySeq
<1>3. image \in Seq(Data) \cup {Absent}
  BY DirtySantaAssumption, SeqMonotonic DEF Data
<1>4. Target \in Seq(Data) \cup {Absent}
  BY <1>1, <1>2 DEF Target
<1>5. ToDevice => Target = slice["aboot"] /\ Target # Absent
  BY <1>1, <1>2, DirtySantaAssumption DEF ToDevice, Target
<1>6. QED
  BY <1>1, <1>2, <1>3, <1>4, <1>5, ContentsType DEF Source

LEMMA OpenFailsSanta == SantaInv /\ OpenFails => SantaInv'
<1> SUFFICES ASSUME SantaInv, OpenFails PROVE SantaInv'
  OBVIOUS
<1>1. pc \in Busy /\ Returned("error") /\ UNCHANGED <<image, aboot0>>
  BY DEF OpenFails
<1>2. Kept
  <2>1. CASE UNCHANGED <<slice, backup>>
    BY <1>1, <2>1, UnchangedKept
  <2>2. CASE SetTarget(Contents(Target))
    BY <1>1, <2>2, SourceTarget, SetTargetKept
  <2>3. QED
    BY <2>1, <2>2 DEF OpenFails
<1>3. QED
  BY <1>1, <1>2, ReturnSanta

LEMMA EmptySourceSanta == SantaInv /\ EmptySource => SantaInv'
<1> SUFFICES ASSUME SantaInv, EmptySource PROVE SantaInv'
  OBVIOUS
<1>1. /\ pc \in Busy /\ Returned("empty") /\ UNCHANGED <<image, aboot0>>
      /\ SetTarget(IF ToDevice THEN Target ELSE <<>>)
  BY DEF EmptySource
<1>2. Kept
  BY <1>1, SourceTarget, SetTargetKept, EmptySeq
<1>3. QED
  BY <1>1, <1>2, ReturnSanta

LEMMA SkipIdenticalSanta == SantaInv /\ SkipIdentical => SantaInv'
<1> SUFFICES ASSUME SantaInv, SkipIdentical PROVE SantaInv'
  OBVIOUS
<1>0. PICK data \in IF ToDevice THEN {Target} ELSE Cut(Contents(Target), Len(Source)) :
        SetTarget(data)
  BY DEF SkipIdentical
<1>1. /\ pc \in Busy /\ UNCHANGED <<image, aboot0>> /\ SetTarget(data)
      /\ Source \in Seq(Data) /\ IsPrefix(Source, Contents(Target))
  BY <1>0, SourceTarget DEF SkipIdentical, Identical
<1>2. PICK result \in {"copied", "error"} : Returned(result)
  BY DEF SkipIdentical
<1>3. Len(Source) \in Nat
  BY <1>1, LenProperties
<1>4. data \in Seq(Data) /\ (ToDevice => data = Target)
  BY <1>0, <1>3, SourceTarget, CutType
<1>5. Kept /\ (IF ToDevice THEN slice'["aboot"] ELSE backup'[BackupList[step]]) = data
  BY <1>1, <1>4, SetTargetKept
<1>6. ~ToDevice => Copied(data, Source)
  <2>1. Len(Source) <= Len(Contents(Target))
        /\ \A k \in 1 .. Len(Source) : Contents(Target)[k] = Source[k]
    BY <1>1, SourceTarget, PrefixByElements
  <2>2. QED
    BY <1>0, <1>1, <2>1, SourceTarget, CutCopy
<1>7. pc = "backup" => Copied(backup'[BackupList[step]], slice[BackupList[step]])
  BY <1>5, <1>6, SourceTarget DEF ToDevice
<1>8. pc = "flash" => IsPrefix(image, slice'["aboot"])
  BY <1>1, <1>4, <1>5, SourceTarget DEF ToDevice
<1>9. QED
  BY <1>1, <1>2, <1>5, <1>7, <1>8, ReturnSanta

\* Nothing is copied yet.
LEMMA BeginCopySanta == SantaInv /\ BeginCopy => SantaInv'
<1> SUFFICES ASSUME SantaInv, BeginCopy PROVE SantaInv'
  OBVIOUS
<1>0. PICK data \in IF Unmappable THEN Cut(Contents(Target), Len(Source))
                                  ELSE {Contents(Target)} :
        SetTarget(data)
  BY DEF BeginCopy
<1>1. /\ pc \in Busy /\ UNCHANGED <<image, pc, step, aboot0>> /\ SetTarget(data)
      /\ Source \in Seq(Data) /\ Source # <<>> /\ at' = "write" /\ pos' = 0
  BY <1>0, SourceTarget DEF BeginCopy
<1>2. ToDevice => ~Unmappable
  BY <1>1 DEF Unmappable, ToDevice
<1>3. Len(Source) \in Nat
  BY <1>1, LenProperties
<1>4. data \in Seq(Data) /\ (ToDevice => data = Target)
  BY <1>0, <1>2, <1>3, SourceTarget, CutType
<1>5. Kept /\ (IF ToDevice THEN slice'["aboot"] ELSE backup'[BackupList[step]]) = data
  BY <1>1, <1>4, SetTargetKept
<1>6. Source' = Source /\ Target' = data
  BY <1>1, <1>5 DEF Source, Target, ToDevice, Kept
<1>7. Len(data) \in Nat
  BY <1>4, LenProperties
<1>8. CopyInv'
  BY <1>1, <1>3, <1>4, <1>6, <1>7 DEF CopyInv
<1>9. RunType'
  BY <1>1 DEF SantaInv, RunType
<1>10. QED
  BY <1>1, <1>5, <1>8, <1>9, GoOnSanta

\* One block more: the target grows by it, or has room for it.
LEMMA WriteBlockSanta == SantaInv /\ WriteBlock => SantaInv'
<1> SUFFICES ASSUME SantaInv, WriteBlock PROVE SantaInv'
  OBVIOUS
<1> DEFINE n == IF pos < Len(Target) THEN Len(Target) ELSE pos + 1
           data == [k \in 1 .. n |-> IF k = pos + 1 THEN Source[k] ELSE Target[k]]
<1>1. /\ pc \in Busy /\ at = "write" /\ pos < Len(Source)
      /\ (ToDevice => pos < Len(Target)) /\ SetTarget(data)
      /\ pos' = pos + 1 /\ at' = IF pos' = Len(Source) THEN "tail" ELSE "write"
      /\ UNCHANGED <<image, pc, step, aboot0>>
  BY DEF WriteBlock, Room
<1>2. /\ Source \in Seq(Data) /\ Target \in Seq(Data) /\ pos \in Nat
      /\ pos <= Len(Target) /\ \A k \in 1 .. pos : Target[k] = Source[k]
  BY <1>1 DEF SantaInv, CopyInv, RunType
<1>3. Len(Source) \in Nat /\ Len(Target) \in Nat
  BY <1>2, LenProperties
<1>4. n \in Nat /\ pos + 1 <= n /\ \A k \in 1 .. n : k # pos + 1 => k \in 1 .. Len(Target)
  BY <1>2, <1>3
<1>5. data \in [1 .. n -> Data]
  <2>1. \A k \in 1 .. n : k # pos + 1 => Target[k] \in Data
    BY <1>2, <1>4, ElementOfSeq
  <2>2. Source[pos + 1] \in Data
    BY <1>1, <1>2, <1>3, ElementOfSeq
  <2> HIDE DEF n
  <2>3. QED
    BY <2>1, <2>2
<1>6. data \in Seq(Data) /\ Len(data) = n
  BY <1>4, <1>5, FunctionIsSeq
<1>7. \A k \in 1 .. pos + 1 : data[k] = Source[k]
  <2>1. \A k \in 1 .. pos + 1 : k \in 1 .. n
    BY <1>2, <1>4
  <2> HIDE DEF n
  <2>2. QED
    BY <1>2, <2>1
<1>8. ToDevice => Len(data) = Len(Target)
  BY <1>1, <1>6
<1> HIDE DEF data, n
<1>9. Kept /\ (IF ToDevice THEN slice'["aboot"] ELSE backup'[BackupList[step]]) = data
  BY <1>1, <1>6, <1>8, SetTargetKept
<1>10. Source' = Source /\ Target' = data
  BY <1>1, <1>9 DEF Source, Target, ToDevice, Kept
<1>11. CopyInv'
  <2>1. /\ Source' \in Seq(Data) /\ Target' \in Seq(Data)
        /\ \A k \in 1 .. pos' : Target'[k] = Source'[k]
    BY <1>1, <1>2, <1>6, <1>7, <1>10
  <2>2. pos' <= Len(Source') /\ pos' <= Len(Target')
    BY <1>1, <1>2, <1>3, <1>4, <1>6, <1>10
  <2>3. at' = "tail" => pos' = Len(Source')
    BY <1>1, <1>10
  <2>4. QED
    BY <2>1, <2>2, <2>3 DEF CopyInv
<1>12. RunType'
  BY <1>1, <1>2 DEF SantaInv, RunType
<1>13. QED
  BY <1>1, <1>9, <1>11, <1>12, GoOnSanta

\* The copy is complete; what lies behind it is cut off or discarded.
LEMMA FinishSanta == SantaInv /\ Finish => SantaInv'
<1> SUFFICES ASSUME SantaInv, Finish PROVE SantaInv'
  OBVIOUS
<1>1. pc \in Busy /\ at = "tail" /\ UNCHANGED <<image, aboot0>>
  BY DEF Finish
<1>2. PICK result \in {"copied", "torn"} : Returned(result)
  BY DEF Finish
<1>3. /\ Source \in Seq(Data) /\ Target \in Seq(Data)
      /\ Len(Source) <= Len(Target)
      /\ \A k \in 1 .. Len(Source) : Target[k] = Source[k]
  BY <1>1 DEF SantaInv, CopyInv
<1>4. Len(Source) \in Nat /\ Len(Target) \in Nat
  BY <1>3, LenProperties
<1>5. CASE ~ToDevice
  <2>1. PICK data \in IF Unmappable THEN {Target} ELSE Cut(Target, Len(Source)) :
          SetTarget(data)
    BY <1>5 DEF Finish
  <2>2. data \in Cut(Target, Len(Source))
    BY <2>1 DEF Cut
  <2>3. data \in Seq(Data) /\ Copied(data, Source)
    BY <1>3, <1>4, <2>2, CutType, CutCopy
  <2>4. Kept /\ backup'[BackupList[step]] = data
    BY <1>1, <1>5, <2>1, <2>3, SetTargetKept
  <2>5. pc = "backup"
    BY <1>5 DEF ToDevice
  <2>6. Copied(backup'[BackupList[step]], slice[BackupList[step]])
    BY <2>3, <2>4, <2>5, SourceTarget
  <2>7. QED
    BY <1>1, <1>2, <2>4, <2>5, <2>6, ReturnSanta
<1>6. CASE ToDevice
  <2>1. pc # "backup" /\ Source = image /\ Target = slice["aboot"]
    BY <1>6, SourceTarget DEF ToDevice
  <2>2. CASE UNCHANGED <<slice, backup>>
    <3>1. IsPrefix(image, slice'["aboot"])
      BY <1>3, <2>1, <2>2, PrefixByElements
    <3>2. QED
      BY <1>1, <1>2, <2>1, <2>2, <3>1, UnchangedKept, ReturnSanta
  <2>3. ASSUME SetTarget([k \in DOMAIN Target |->
                            IF k <= Len(Source) THEN Target[k] ELSE Gone])
        PROVE  SantaInv'
    <3> DEFINE data == [k \in 1 .. Len(Target) |->
                          IF k <= Len(Source) THEN Target[k] ELSE Gone]
    <3>1. SetTarget(data)
      BY <1>3, <2>3, LenProperties
    <3>2. data \in [1 .. Len(Target) -> Data]
      BY <1>3, <1>4, ElementOfSeq DEF Data
    <3>3. data \in Seq(Data) /\ Len(data) = Len(Target)
      BY <1>4, <3>2, FunctionIsSeq
    <3>4. \A k \in 1 .. Len(Source) : data[k] = Source[k]
      BY <1>3, <1>4
    <3> HIDE DEF data
    <3>5. Kept /\ slice'["aboot"] = data
      BY <1>1, <1>6, <3>1, <3>3, SetTargetKept
    <3>6. IsPrefix(image, slice'["aboot"])
      BY <1>3, <2>1, <3>3, <3>4, <3>5, PrefixByElements
    <3>7. QED
      BY <1>1, <1>2, <2>1, <3>5, <3>6, ReturnSanta
  <2>4. QED
    BY <1>6, <2>2, <2>3 DEF Finish
<1>7. QED
  BY <1>5, <1>6

LEMMA StepSanta == SantaInv /\ [Next]_vars => SantaInv'
<1> SUFFICES ASSUME SantaInv, [Next]_vars PROVE SantaInv'
  OBVIOUS
<1>1. CASE Start
  BY <1>1, List DEF Start, Call, SantaInv, StoreType, RunType, CopyInv, DoneInv,
     BackupHeldWhileFlashing, FinishedMeansFlashed, Busy
<1>2. CASE OpenFails \/ EmptySource \/ SkipIdentical
  BY <1>2, OpenFailsSanta, EmptySourceSanta, SkipIdenticalSanta
<1>3. CASE BeginCopy \/ WriteBlock \/ Finish
  BY <1>3, BeginCopySanta, WriteBlockSanta, FinishSanta
<1>4. CASE WriteFails
  BY <1>4, UnchangedKept, ReturnSanta DEF WriteFails
<1>5. CASE Kill
  BY <1>5 DEF Kill, Call, SantaInv, StoreType, RunType, CopyInv, DoneInv,
     BackupHeldWhileFlashing, FinishedMeansFlashed, Busy, Ends
<1>6. CASE UNCHANGED vars
  BY <1>6 DEF vars, SantaInv, StoreType, RunType, CopyInv, DoneInv,
     BackupHeldWhileFlashing, FinishedMeansFlashed, Source, Target
<1>7. QED
  BY <1>1, <1>2, <1>3, <1>4, <1>5, <1>6 DEF Next

------------------------------------------------------------------------------
(* The theorems. *)

LEMMA SantaInvariant == Spec => []SantaInv
BY InitSanta, StepSanta, PTL DEF Spec

\* Every variable keeps its type and every slice its size, whatever aboot.img
\* holds.
THEOREM TypeCorrect == Spec => []TypeOK
<1>1. SantaInv => TypeOK
  BY List DEF SantaInv, StoreType, RunType, TypeOK
<1>2. QED
  BY <1>1, SantaInvariant, PTL

\* The boot loader's slice is written to only while every backup file begins with a
\* whole copy of its slice as the run found it.
THEOREM NeverWithoutBackup == Spec => []BackupHeldWhileFlashing
<1>1. SantaInv => BackupHeldWhileFlashing
  BY DEF SantaInv
<1>2. QED
  BY <1>1, SantaInvariant, PTL

\* A run that says it is finished has put the whole image into aboot.
THEOREM FinishedIsFlashed == Spec => []FinishedMeansFlashed
<1>1. SantaInv => FinishedMeansFlashed
  BY DEF SantaInv
<1>2. QED
  BY <1>1, SantaInvariant, PTL

\* A run that begins with the original boot loader leaves it in the slice or in
\* the backup file, wherever the run ends.
THEOREM OriginalKept == Spec => OriginalLostOnlyLater
<1>1. ASSUME SantaInv, [Next]_vars, OriginalHeld, aboot0 = Stock["aboot"]
      PROVE  OriginalHeld'
  <2>1. CASE pc = "backup"
    <3>1. slice' = slice
      BY <1>1, <2>1 DEF Next, vars, Start, Ends, OpenFails, EmptySource, SkipIdentical,
           BeginCopy, WriteBlock, WriteFails, Finish, Kill, SetTarget, ToDevice
    <3>2. QED
      BY <1>1, <2>1, <3>1 DEF SantaInv, DoneInv, OriginalHeld
  <2>2. CASE pc \in {"flash", "revert"}
    <3>1. backup' = backup
      BY <1>1, <2>2 DEF Next, vars, Start, Ends, OpenFails, EmptySource, SkipIdentical,
           BeginCopy, WriteBlock, WriteFails, Finish, Kill, SetTarget, ToDevice
    <3>2. QED
      BY <1>1, <2>2, <3>1 DEF SantaInv, BackupHeldWhileFlashing, OriginalHeld
  <2>3. CASE pc \in Ends
    <3>1. UNCHANGED <<slice, backup>>
      BY <1>1, <2>3 DEF Next, vars, Start, Ends, Busy, OpenFails, EmptySource,
           SkipIdentical, BeginCopy, WriteBlock, WriteFails, Finish, Kill
    <3>2. QED
      BY <1>1, <3>1 DEF OriginalHeld
  <2>4. QED
    BY <1>1, <2>1, <2>2, <2>3 DEF SantaInv, RunType, Busy
<1>2. SantaInv /\ [Next]_vars =>
        [ OriginalHeld /\ ~OriginalHeld' => aboot0 # Stock["aboot"] ]_vars
  BY <1>1
<1>3. QED
  BY <1>2, SantaInvariant, PTL DEF Spec, OriginalLostOnlyLater
===============================================================================
