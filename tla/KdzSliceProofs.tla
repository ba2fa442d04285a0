--------------------------- MODULE KdzSliceProofs ---------------------------
(* What write_kdzfile() writes: only under exclusive access, only blocks a   *)
(* KDZ file's checksums vouch for, and all of them before it returns 1; and  *)
(* what it discards: none of them.                                           *)
EXTENDS KdzSlice, WellFoundedInduction, TLAPS

Closed == {"idle", "find", "open"}
Held   == {"unpack", "verify", "write"}

------------------------------------------------------------------------------
(* Mounted or written. *)

\* Only the function writes to the slice's page cache, while it has the slice
\* open exclusively.
QuietInv ==
  /\ pc \in Closed \/ simulate => dirty = NoDirty
  /\ pc \notin Closed /\ ~simulate => ~mounted

LEMMA InitQuiet == Init => QuietInv
  BY DEF Init, QuietInv, Closed

LEMMA StepQuiet == QuietInv /\ [Next]_vars => QuietInv'
<1> SUFFICES ASSUME QuietInv, [Next]_vars PROVE QuietInv'
  OBVIOUS
<1> USE DEF QuietInv, Closed, disk
<1>0. ASSUME NEW r, Return(r) PROVE QuietInv'
  BY <1>0 DEF Return
<1>1. ASSUME NEW sim \in BOOLEAN, Start(sim) PROVE QuietInv'
  BY <1>1 DEF Start
<1>2. CASE FindSlice
  BY <1>0, <1>2 DEF FindSlice
<1>3. CASE Open
  BY <1>0, <1>3 DEF Open, MayOpen
<1>4. CASE SkipChunk
  BY <1>4 DEF SkipChunk
<1>5. CASE Alloc
  BY <1>5 DEF Alloc
<1>6. CASE AllocFails
  BY <1>0, <1>6 DEF AllocFails
<1>7. CASE Unpack
  BY <1>0, <1>7 DEF Unpack
<1>8. CASE Verify
  BY <1>0, <1>8 DEF Verify
<1>9. CASE WriteBlock
  BY <1>9 DEF WriteBlock, Pwrite
<1>10. CASE Discard
  BY <1>10 DEF Discard
<1>11. CASE Done
  BY <1>0, <1>11 DEF Done
<1>12. CASE Mount
  BY <1>12 DEF Mount
<1>13. CASE Umount
  BY <1>13 DEF Umount
<1>14. CASE FsWrite
  BY <1>14 DEF FsWrite
<1>15. CASE WriteBack
  <2>1. PICK b \in Blocks : dirty[b] # Clean
    BY <1>15 DEF WriteBack
  <2>2. dirty # NoDirty
    BY <2>1 DEF NoDirty
  <2> QED
    BY <1>15, <2>2 DEF WriteBack
<1>16. CASE Kill
  BY <1>0, <1>16 DEF Kill
<1>17. CASE PowerCut
  BY <1>17 DEF PowerCut
<1>18. CASE ReadPage
  BY <1>18 DEF ReadPage
<1>19. CASE UNCHANGED vars
  BY <1>19 DEF vars
<1> QED
  BY <1>1, <1>2, <1>3, <1>4, <1>5, <1>6, <1>7, <1>8, <1>9, <1>10, <1>11, <1>12,
     <1>13, <1>14, <1>15, <1>16, <1>17, <1>18, <1>19 DEF Next

\* Nothing is written under a mounted file system, and nothing by a simulated run,
\* for every disk, table and set of KDZ files (kdz.c:970-986).
THEOREM NeverUnderMount == Spec => []QuietWhenMounted
<1>1. QuietInv => QuietWhenMounted
  BY DEF QuietInv, QuietWhenMounted, NoDirty
<1> QED
  BY <1>1, InitQuiet, StepQuiet, PTL DEF Spec

------------------------------------------------------------------------------
(* Types. *)

\* The disk's variables, and those of the function.
DiskType ==
  /\ media \in [Blocks -> Data] /\ view \in [Blocks -> Data]
  /\ dirty \in [Blocks -> Data \cup {Clean}]
  /\ mounted \in BOOLEAN /\ simulate \in BOOLEAN
  /\ kdz \in Kdzs
ProgType ==
  /\ pc \in Closed \cup Held \cup {"chunk"}
  /\ i \in 1 .. Len(kdz) + 1 /\ j \in Nat \ {0}
  /\ buf \in Seq(Data)
  /\ pc \in Held => i \in 1 .. Len(kdz) /\ chunk.size <= Len(buf)
  /\ IF pc = "write" THEN j <= chunk.size + 1 ELSE j = 1
  /\ ctx.valid <=> pc \in {"unpack", "verify"}
  /\ ctx \in [valid : BOOLEAN, finished : BOOLEAN, hashed : Seq(Data)]
  /\ res \in {"none", "ok", "fail"}
TypeInv == DiskType /\ ProgType

LEMMA ChunkType ==
  ASSUME kdz \in Kdzs, NEW c \in 1 .. Len(kdz)
  PROVE  /\ kdz[c] \in Chunk
         /\ kdz[c].addr + kdz[c].size <= LastBlock + 1
<1>1. kdz \in Seq(Chunk)
  BY KdzSliceAssumption
<1>2. DOMAIN kdz = 1 .. Len(kdz)
  BY <1>1
<1> QED
  BY <1>1, <1>2, KdzSliceAssumption

\* The first of a nonempty set of indices.
LEMMA LeastIndex ==
  ASSUME NEW S, S \subseteq Nat, S # {}
  PROVE  \E x \in S : \A y \in S : x <= y
<1>1. PICK x \in S : \A y \in S : ~ (<<y, x>> \in OpToRel(<, Nat))
  BY WFMin, NatLessThanWellFounded
<1>2. ASSUME NEW y \in S PROVE x <= y
  <2>1. ~ (y < x)
    BY <1>1, <1>2 DEF OpToRel
  <2> QED
    BY <2>1
<1> QED
  BY <1>2

LEMMA SyncedType ==
  ASSUME DiskType PROVE Synced \in [Blocks -> Data]
  BY DEF DiskType, Synced

LEMMA InitType == Init => TypeInv
<1> SUFFICES ASSUME Init PROVE TypeInv
  OBVIOUS
<1>1. kdz \in Seq(Chunk)
  BY KdzSliceAssumption DEF Init
<1>2. DiskType
  BY DEF Init, DiskType, Data, NoDirty
<1>3. ProgType
  BY <1>1 DEF Init, ProgType, Closed, Held, NoCtx
<1> QED
  BY <1>2, <1>3 DEF TypeInv

LEMMA ReturnType ==
  ASSUME TypeInv, NEW r \in {"none", "ok", "fail"}, Return(r) PROVE TypeInv'
<1>1. kdz \in Seq(Chunk)
  BY KdzSliceAssumption DEF TypeInv, DiskType
<1>2. DiskType'
  BY SyncedType DEF Return, TypeInv, DiskType, NoDirty
<1>3. ProgType'
  BY <1>1 DEF Return, ProgType, Closed, Held, NoCtx
<1> QED
  BY <1>2, <1>3 DEF TypeInv

LEMMA StepType == TypeInv /\ [Next]_vars => TypeInv'
<1> SUFFICES ASSUME TypeInv, [Next]_vars PROVE TypeInv'
  OBVIOUS
<1>a. kdz \in Seq(Chunk) /\ Len(kdz) \in Nat /\ DOMAIN kdz = 1 .. Len(kdz)
  BY KdzSliceAssumption DEF TypeInv, DiskType
<1> USE DEF TypeInv, DiskType, ProgType, Closed, Held, disk, chunk
<1>1. ASSUME NEW sim \in BOOLEAN, Start(sim) PROVE TypeInv'
  BY <1>1 DEF Start
<1>2. CASE FindSlice
  <2>1. CASE Return("fail")
    BY <2>1, ReturnType
  <2>2. CASE OwnChunks # {} /\ SliceBlocks # {} /\ ~Return("fail")
    <3>1. OwnChunks \subseteq 1 .. Len(kdz)
      BY <1>a DEF OwnChunks
    <3>2. \E c \in OwnChunks : \A d \in OwnChunks : c <= d
      <4>1. OwnChunks \subseteq Nat
        BY <1>a, <3>1
      <4> QED
        BY <2>2, <4>1, LeastIndex
    <3>3. i' \in OwnChunks
      BY <1>2, <2>2, <3>2 DEF FindSlice
    <3>4. i' \in 1 .. Len(kdz) + 1
      BY <1>a, <3>1, <3>3
    <3>5. /\ pc = "find" /\ pc' = "open"
          /\ UNCHANGED <<disk, simulate, j, buf, ctx, res>>
      BY <1>2, <2>2 DEF FindSlice
    <3> QED
      BY <3>4, <3>5
  <2> QED
    BY <1>2, <2>1, <2>2 DEF FindSlice
<1>3. CASE Open
  BY <1>3, ReturnType DEF Open
<1>4. CASE SkipChunk
  BY <1>4, <1>a DEF SkipChunk
<1>5. CASE Alloc
  <2>1. chunk \in Chunk /\ i \in 1 .. Len(kdz)
    BY <1>5, <1>a DEF Alloc, chunk
  <2>2. Buffer \in Seq(Data) /\ chunk.size <= Len(Buffer)
    BY <2>1 DEF Buffer, Fresh, Chunk, Data
  <2> QED
    <3>1. ctx' = [valid |-> TRUE, finished |-> FALSE, hashed |-> <<>>]
      BY <1>5 DEF Alloc, NoCtx
    <3>2. ctx' \in [valid : BOOLEAN, finished : BOOLEAN, hashed : Seq(Data)] /\ ctx'.valid
      BY <3>1
    <3>3. /\ pc = "chunk" /\ pc' = "unpack" /\ buf' = Buffer
          /\ UNCHANGED <<disk, simulate, i, j, res>>
      BY <1>5 DEF Alloc
    <3> QED
      BY <2>1, <2>2, <3>2, <3>3
<1>6. CASE AllocFails
  BY <1>6, ReturnType DEF AllocFails
<1>7. CASE Unpack
  <2>1. CASE Return("fail")
    BY <2>1, ReturnType
  <2>2. CASE ~Return("fail")
    <3> DEFINE n == Smaller(chunk.size, Len(chunk.stream))
    <3>1. chunk \in Chunk /\ i \in 1 .. Len(kdz) /\ chunk.size <= Len(buf)
      BY <1>7, <1>a DEF Unpack, chunk
    <3>2. n \in Nat /\ n <= Len(chunk.stream) /\ chunk.stream \in Seq(Data)
      BY <3>1, SMTT(30) DEF Smaller, Chunk, Data
    <3>3. buf' = [k \in DOMAIN buf |-> IF k <= n THEN chunk.stream[k] ELSE buf[k]]
      BY <1>7, <2>2 DEF Unpack
    <3> HIDE DEF n
    <3>4. buf' \in Seq(Data) /\ Len(buf') = Len(buf)
      <4>1. DOMAIN buf = 1 .. Len(buf) /\ Len(buf) \in Nat
        OBVIOUS
      <4>2. ASSUME NEW k \in 1 .. Len(buf) PROVE buf'[k] \in Data
        <5>1. CASE k <= n
          <6>1. k \in 1 .. Len(chunk.stream)
            BY <3>2, <5>1, <4>1
          <6> QED
            BY <3>2, <3>3, <4>1, <5>1, <6>1
        <5>2. CASE ~ (k <= n)
          BY <3>3, <4>1, <5>2
        <5> QED
          BY <5>1, <5>2
      <4> QED
        BY <3>3, <4>1, <4>2
    <3>5. SubSeq(buf', 1, chunk.size) \in Seq(Data)
      <4>1. chunk.size \in 1 .. Len(buf')
        BY <3>1, <3>4 DEF Chunk
      <4>2. \A k \in 1 .. chunk.size : buf'[k] \in Data
        BY <3>4, <4>1
      <4> QED
        BY <3>4, <4>1, <4>2
    <3>6. ctx' = [ctx EXCEPT !.hashed = SubSeq(buf', 1, chunk.size),
                             !.finished = chunk.ends = "end" /\ Len(chunk.stream) = n]
      BY <1>7, <2>2 DEF Unpack, n
    <3>7. ctx' \in [valid : BOOLEAN, finished : BOOLEAN, hashed : Seq(Data)] /\ ctx'.valid
      BY <1>7, <3>5, <3>6 DEF Unpack
    <3>8. /\ pc = "unpack" /\ pc' = "verify"
          /\ UNCHANGED <<disk, simulate, i, j, res>>
      BY <1>7, <2>2 DEF Unpack
    <3> QED
      BY <3>1, <3>4, <3>7, <3>8
  <2> QED
    BY <2>1, <2>2
<1>8. CASE Verify
  <2>1. CASE Return("fail")
    BY <2>1, ReturnType
  <2>2. CASE ~Return("fail")
    <3>1. chunk \in Chunk
      BY <1>8, <1>a DEF Verify
    <3> QED
      <4>1. ctx' = [ctx EXCEPT !.valid = FALSE]
        BY <1>8, <2>2 DEF Verify
      <4>2. ctx' \in [valid : BOOLEAN, finished : BOOLEAN, hashed : Seq(Data)] /\ ~ctx'.valid
        BY <4>1
      <4>3. /\ pc = "verify" /\ pc' = "write"
            /\ UNCHANGED <<disk, simulate, i, j, buf, res>>
        BY <1>8, <2>2 DEF Verify
      <4>4. 1 <= chunk.size + 1
        BY <3>1 DEF Chunk
      <4> QED
        BY <4>2, <4>3, <4>4
  <2> QED
    BY <2>1, <2>2
<1>9. CASE WriteBlock
  <2>1. chunk \in Chunk /\ chunk.addr + chunk.size <= LastBlock + 1
    BY <1>9, <1>a, ChunkType DEF WriteBlock
  <2>2. j' \in Nat \ {0} /\ j' <= chunk.size + 1
    <3>1. j' = j + 1 /\ j <= chunk.size
      BY <1>9 DEF WriteBlock
    <3>2. chunk.size \in Nat
      BY <2>1 DEF Chunk
    <3> QED
      BY <3>1, <3>2
  <2>3. dirty' \in [Blocks -> Data \cup {Clean}]
    <3>1. buf[j] \in Data
      BY <1>9, <2>1 DEF WriteBlock, Chunk
    <3>2. dirty' = dirty \/ dirty' = [dirty EXCEPT ![chunk.addr + j - 1] = buf[j]]
      BY <1>9 DEF WriteBlock, Pwrite
    <3> QED
      BY <3>1, <3>2
  <2>4. /\ pc = "write" /\ pc' = pc
        /\ UNCHANGED <<media, mounted, kdz, simulate, i, buf, ctx, res, view>>
    BY <1>9 DEF WriteBlock
  <2> QED
    BY <2>2, <2>3, <2>4
<1>10. CASE Discard
  <2>1. media' \in [Blocks -> Data]
    BY <1>10 DEF Discard, Data
  <2>2. /\ pc = "write" /\ pc' = "chunk" /\ i' = i + 1 /\ j' = 1
        /\ UNCHANGED <<dirty, mounted, kdz, simulate, buf, ctx, res, view>>
    BY <1>10 DEF Discard
  <2> QED
    BY <1>a, <2>1, <2>2
<1>11. CASE Done
  BY <1>11, ReturnType DEF Done
<1>12. CASE Mount
  BY <1>12 DEF Mount
<1>13. CASE Umount
  BY <1>13 DEF Umount
<1>14. CASE FsWrite
  <2>1. media' \in [Blocks -> Data]
    BY <1>14 DEF FsWrite, Data
  <2> QED
    BY <1>14, <2>1 DEF FsWrite
<1>15. CASE WriteBack
  <2>1. PICK b \in Blocks : /\ dirty[b] # Clean
                            /\ media' = [media EXCEPT ![b] = dirty[b]]
                            /\ dirty' = [dirty EXCEPT ![b] = Clean]
    BY <1>15 DEF WriteBack
  <2>2. media' \in [Blocks -> Data] /\ dirty' \in [Blocks -> Data \cup {Clean}]
    BY <2>1
  <2> QED
    BY <1>15, <2>2 DEF WriteBack
<1>16. CASE Kill
  BY <1>16, ReturnType DEF Kill
<1>17. CASE PowerCut
  <2>1. DiskType'
    BY <1>17 DEF PowerCut, NoDirty
  <2>2. ctx' \in [valid : BOOLEAN, finished : BOOLEAN, hashed : Seq(Data)] /\ ~ctx'.valid
    BY <1>17 DEF PowerCut, NoCtx
  <2>3. /\ pc' = "idle" /\ res' = "none" /\ i' = 1 /\ j' = 1 /\ buf' = <<>>
        /\ UNCHANGED kdz
    BY <1>17 DEF PowerCut
  <2>4. ProgType'
    BY <1>a, <2>2, <2>3
  <2> QED
    BY <2>1, <2>4
<1>18. CASE ReadPage
  <2>1. view' \in [Blocks -> Data]
    BY <1>18 DEF ReadPage
  <2> QED
    BY <1>18, <2>1 DEF ReadPage
<1>19. CASE UNCHANGED vars
  BY <1>19 DEF vars
<1> QED
  BY <1>1, <1>2, <1>3, <1>4, <1>5, <1>6, <1>7, <1>8, <1>9, <1>10, <1>11, <1>12,
     <1>13, <1>14, <1>15, <1>16, <1>17, <1>18, <1>19 DEF Next

\* The model is well typed, and the buffer always holds the chunk at hand, for
\* every disk, table and set of KDZ files.
THEOREM TypeCorrect == Spec => []TypeOK
<1>1. TypeInv => TypeOK
  BY DEF TypeInv, DiskType, ProgType, TypeOK, Closed, Held
<1> QED
  BY <1>1, InitType, StepType, PTL DEF Spec

------------------------------------------------------------------------------
(* What the checksums vouch for. *)

\* From verification on, the buffer begins with what the sums are of.
SumInv ==
  /\ pc \in Held => chunk.slice = SliceName
  /\ pc = "verify" => ctx.hashed = SubSeq(buf, 1, chunk.size)
  /\ pc = "write" => \A k \in 1 .. chunk.size : buf[k] = chunk.sum[k]

LEMMA InitSum == Init => SumInv
  BY DEF Init, SumInv, Held

LEMMA StepSum == TypeInv /\ SumInv /\ [Next]_vars => SumInv'
<1> SUFFICES ASSUME TypeInv, SumInv, [Next]_vars PROVE SumInv'
  OBVIOUS
<1> USE DEF SumInv, Held, disk, chunk
<1>0. ASSUME NEW r, Return(r) PROVE SumInv'
  BY <1>0 DEF Return
<1>1. ASSUME NEW sim \in BOOLEAN, Start(sim) PROVE SumInv'
  BY <1>1 DEF Start
<1>2. CASE FindSlice
  BY <1>0, <1>2 DEF FindSlice
<1>3. CASE Open
  BY <1>0, <1>3 DEF Open
<1>4. CASE SkipChunk
  BY <1>4 DEF SkipChunk
<1>5. CASE Alloc
  BY <1>5 DEF Alloc
<1>6. CASE AllocFails
  BY <1>0, <1>6 DEF AllocFails
<1>7. CASE Unpack
  <2>1. CASE ~Return("fail")
    <3>1. /\ pc = "unpack" /\ pc' = "verify" /\ UNCHANGED <<kdz, i>>
          /\ ctx'.hashed = SubSeq(buf', 1, chunk.size)
      BY <1>7, <2>1 DEF Unpack, TypeInv, ProgType
    <3> QED
      BY <3>1
  <2> QED
    BY <1>0, <2>1
<1>8. CASE Verify
  <2>1. CASE ~Return("fail")
    <3>1. /\ pc = "verify" /\ pc' = "write" /\ UNCHANGED <<kdz, i, buf>>
          /\ ctx.hashed = chunk.sum
      BY <1>8, <2>1 DEF Verify, Verified
    <3>2. chunk.size \in Nat /\ chunk.size <= Len(buf) /\ buf \in Seq(Data)
      BY <3>1, ChunkType DEF TypeInv, DiskType, ProgType, Chunk
    <3>3. ASSUME NEW k \in 1 .. chunk.size PROVE buf[k] = chunk.sum[k]
      BY <3>1, <3>2
    <3> QED
      BY <3>1, <3>3
  <2> QED
    BY <1>0, <2>1
<1>9. CASE WriteBlock
  BY <1>9 DEF WriteBlock
<1>10. CASE Discard
  BY <1>10 DEF Discard
<1>11. CASE Done
  BY <1>0, <1>11 DEF Done
<1>12. CASE Mount \/ Umount
  BY <1>12 DEF Mount, Umount
<1>13. CASE FsWrite
  BY <1>13 DEF FsWrite
<1>14. CASE WriteBack
  BY <1>14 DEF WriteBack
<1>15. CASE Kill
  BY <1>0, <1>15 DEF Kill
<1>16. CASE PowerCut
  BY <1>16 DEF PowerCut
<1>17. CASE ReadPage
  BY <1>17 DEF ReadPage
<1>18. CASE UNCHANGED vars
  BY <1>18 DEF vars
<1> QED
  BY <1>1, <1>2, <1>3, <1>4, <1>5, <1>6, <1>7, <1>8, <1>9, <1>10, <1>11, <1>12,
     <1>13, <1>14, <1>15, <1>16, <1>17, <1>18 DEF Next

\* What one step may write.
Vouched ==
  \A b \in Blocks : Written(b) =>
    \E c \in OwnChunks : /\ b \in Extent(kdz[c])
                         /\ dirty'[b] = kdz[c].sum[b - kdz[c].addr + 1]

LEMMA StepVouched == TypeInv /\ SumInv /\ [Next]_vars => Vouched
<1> SUFFICES ASSUME TypeInv, SumInv, [Next]_vars,
                    NEW b \in Blocks, dirty'[b] # dirty[b], dirty'[b] # Clean
             PROVE  \E c \in OwnChunks :
                      /\ b \in Extent(kdz[c])
                      /\ dirty'[b] = kdz[c].sum[b - kdz[c].addr + 1]
  BY DEF Vouched, Written
<1>1. CASE WriteBlock
  <2> DEFINE blk == chunk.addr + j - 1
  <2>1. /\ pc = "write" /\ j \in 1 .. chunk.size /\ i \in 1 .. Len(kdz)
        /\ dirty \in [Blocks -> Data \cup {Clean}] /\ kdz \in Kdzs
    BY <1>1, ChunkType DEF WriteBlock, TypeInv, DiskType, ProgType, Held, chunk, Chunk
  <2>2. dirty' = [dirty EXCEPT ![blk] = buf[j]]
    BY <1>1 DEF WriteBlock, Pwrite
  <2>3. b = blk /\ dirty'[b] = buf[j]
    BY <2>1, <2>2
  <2>4. chunk.addr \in Nat /\ chunk.size \in Nat /\ b - chunk.addr + 1 = j
    BY <2>1, <2>3, ChunkType DEF chunk, Chunk, Blocks
  <2>5. i \in OwnChunks
    BY <2>1, KdzSliceAssumption DEF SumInv, Held, OwnChunks, chunk
  <2>6. b \in Extent(chunk)
    BY <2>1, <2>3, <2>4 DEF Extent
  <2>7. dirty'[b] = chunk.sum[b - chunk.addr + 1]
    BY <2>1, <2>3, <2>4 DEF SumInv
  <2> QED
    BY <2>5, <2>6, <2>7 DEF chunk
<1>2. ASSUME NEW r, Return(r) PROVE FALSE
  BY <1>2 DEF Return, NoDirty
<1>3. CASE WriteBack
  BY <1>3 DEF WriteBack, TypeInv, DiskType
<1>4. CASE PowerCut
  BY <1>4 DEF PowerCut, NoDirty
<1>5. ASSUME ~WriteBlock, ~WriteBack, ~PowerCut PROVE dirty' = dirty
  BY <1>2, <1>5 DEF Next, vars, disk, Start, FindSlice, Open, SkipChunk, Alloc, AllocFails,
     Unpack, Verify, Discard, Done, Mount, Umount, FsWrite, ReadPage, Kill
<1> QED
  BY <1>1, <1>3, <1>4, <1>5

\* Only blocks the KDZ file's checksums vouch for are written, of a chunk of this
\* slice, whatever the streams hold and wherever they end (kdz.c:1001-1049).
THEOREM OnlyVouchedWritten == Spec => OnlyVerifiedWritten
<1>1. Spec => [](TypeInv /\ SumInv)
  BY InitType, StepType, InitSum, StepSum, PTL DEF Spec
<1>2. TypeInv /\ SumInv /\ [Next]_vars => [Vouched]_vars
  BY StepVouched
<1>3. [Vouched]_vars <=> [ \A b \in Blocks : Written(b) =>
        \E c \in OwnChunks : /\ b \in Extent(kdz[c])
                             /\ dirty'[b] = kdz[c].sum[b - kdz[c].addr + 1] ]_vars
  BY DEF Vouched
<1> QED
  BY <1>1, <1>2, <1>3, PTL DEF Spec, OnlyVerifiedWritten
------------------------------------------------------------------------------
(* What is discarded, and what a finished call leaves. *)

\* The blocks behind the data of chunk c that its trim_count covers.
Spare(c) == c.addr + c.size .. c.addr + c.trim - 1

\* A KDZ file's chunks of the slice lie apart, and so does what they discard; the
\* slice has room for them.  The code takes it as given.
LaidOut ==
  \A k \in Kdzs : \A c, d \in {x \in DOMAIN k : k[x].slice = SliceName} :
    /\ c # d => Extent(k[c]) \cap Extent(k[d]) = {}
    /\ Spare(k[c]) \cap Extent(k[d]) = {}
    /\ Extent(k[c]) \subseteq SliceBlocks

\* A discarded block can be told from any data.
GoneIsOther == Gone \notin Content \cup {Garbage, Fs}

\* Neither the buffer nor the page cache ever holds what a discard leaves.
Kept == Content \cup {Garbage}
DataInv == buf \in Seq(Kept) /\ dirty \in [Blocks -> Kept \cup {Clean}]

\* The block of the k-th piece of chunk c, whether it is behind write_kdzfile()
\* already, and what is read there once the cache is written.
Spot(c, k)    == kdz[c].addr + k - 1
Handled(c, k) == c < i \/ (c = i /\ k < j)
Holds(b)      == IF dirty[b] = Clean THEN media[b] ELSE dirty[b]

\* What is behind the function is right, or shown as right by a stale page; of
\* what is ahead of it nothing has been written.
RestInv ==
  /\ pc = "open" => \A c \in OwnChunks : i <= c
  /\ pc \notin Closed /\ ~simulate =>
       \A c \in OwnChunks : \A k \in 1 .. kdz[c].size :
         IF Handled(c, k) THEN kdz[c].sum[k] \in {Holds(Spot(c, k)), view[Spot(c, k)]}
         ELSE dirty[Spot(c, k)] = Clean

\* The chunk at hand is one of the slice's, and lies on the disk.
LEMMA AtHand ==
  ASSUME TypeInv, SumInv, pc \in Held
  PROVE  /\ i \in OwnChunks /\ i \in 1 .. Len(kdz) /\ chunk = kdz[i] /\ chunk \in Chunk
         /\ chunk.addr \in Nat /\ chunk.size \in Nat \ {0} /\ chunk.size <= Len(buf)
         /\ chunk.addr + chunk.size <= LastBlock + 1
<1>1. i \in 1 .. Len(kdz) /\ chunk.size <= Len(buf) /\ kdz \in Kdzs
  BY DEF TypeInv, DiskType, ProgType
<1>2. kdz[i] \in Chunk /\ kdz[i].addr + kdz[i].size <= LastBlock + 1
  BY <1>1, ChunkType
<1>3. DOMAIN kdz = 1 .. Len(kdz)
  BY <1>1, KdzSliceAssumption
<1>4. i \in OwnChunks
  BY <1>1, <1>3 DEF SumInv, OwnChunks, chunk
<1> QED
  BY <1>1, <1>2, <1>4, KdzSliceAssumption DEF chunk, Chunk, Blocks

LEMMA InitData == Init => DataInv
  BY DEF Init, DataInv, NoDirty

LEMMA StepData == TypeInv /\ SumInv /\ DataInv /\ [Next]_vars => DataInv'
<1> SUFFICES ASSUME TypeInv, SumInv, DataInv, [Next]_vars PROVE DataInv'
  OBVIOUS
<1>0. ASSUME NEW r, Return(r) PROVE DataInv'
  BY <1>0 DEF Return, DataInv, NoDirty
<1>1. CASE PowerCut
  BY <1>1 DEF PowerCut, DataInv, NoDirty
<1>2. CASE Alloc
  <2>1. i \in 1 .. Len(kdz)
    BY <1>2 DEF Alloc, TypeInv, ProgType, DiskType
  <2>2. chunk.size \in Nat
    BY <2>1, ChunkType DEF TypeInv, DiskType, Chunk, chunk
  <2>3. Buffer \in Seq(Kept)
    BY <2>2 DEF Buffer, Fresh, Kept, DataInv
  <2>4. buf' = Buffer /\ dirty' = dirty
    BY <1>2 DEF Alloc, disk
  <2> QED
    BY <2>3, <2>4 DEF DataInv
<1>3. CASE Unpack /\ ~ Return("fail")
  <2> DEFINE n == Smaller(chunk.size, Len(chunk.stream))
  <2>1. chunk \in Chunk
    BY <1>3, AtHand DEF Unpack, Held
  <2>2. n \in Nat /\ n <= Len(chunk.stream) /\ chunk.stream \in Seq(Kept)
    BY <2>1 DEF Smaller, Chunk, Kept
  <2>3. /\ buf' = [k \in DOMAIN buf |-> IF k <= n THEN chunk.stream[k] ELSE buf[k]]
        /\ dirty' = dirty
    BY <1>3 DEF Unpack, disk
  <2> HIDE DEF n
  <2>4. DOMAIN buf = 1 .. Len(buf) /\ Len(buf) \in Nat /\ buf \in Seq(Kept)
    BY DEF DataInv
  <2>5. ASSUME NEW k \in 1 .. Len(buf) PROVE buf'[k] \in Kept
    <3>1. CASE k <= n
      <4>1. k \in 1 .. Len(chunk.stream)
        BY <2>2, <2>4, <3>1
      <4> QED
        BY <2>2, <2>3, <2>4, <3>1, <4>1
    <3>2. CASE ~ (k <= n)
      BY <2>3, <2>4, <3>2
    <3> QED
      BY <3>1, <3>2
  <2>6. buf' \in Seq(Kept)
    BY <2>3, <2>4, <2>5
  <2> QED
    BY <2>3, <2>6 DEF DataInv
<1>4. CASE WriteBlock
  <2>1. j \in 1 .. Len(buf)
    BY <1>4, AtHand DEF WriteBlock, Held, TypeInv, ProgType
  <2>2. buf[j] \in Kept
    BY <2>1 DEF DataInv
  <2>3. dirty' = dirty \/ dirty' = [dirty EXCEPT ![chunk.addr + j - 1] = buf[j]]
    BY <1>4 DEF WriteBlock, Pwrite
  <2>4. buf' = buf
    BY <1>4 DEF WriteBlock
  <2> QED
    BY <2>2, <2>3, <2>4 DEF DataInv
<1>5. CASE WriteBack
  <2>1. PICK b \in Blocks : dirty' = [dirty EXCEPT ![b] = Clean]
    BY <1>5 DEF WriteBack
  <2>2. buf' = buf
    BY <1>5 DEF WriteBack
  <2> QED
    BY <2>1, <2>2 DEF DataInv
<1>6. ASSUME UNCHANGED <<buf, dirty>> PROVE DataInv'
  BY <1>6 DEF DataInv
<1>7. CASE Verify
  BY <1>0, <1>6, <1>7 DEF Verify, disk
<1>8. CASE FindSlice \/ Open
  BY <1>0, <1>6, <1>8 DEF FindSlice, Open, disk
<1>9. CASE AllocFails \/ Done \/ Kill \/ Return("fail")
  BY <1>0, <1>9 DEF AllocFails, Done, Kill
<1>10. CASE SkipChunk \/ Discard \/ \E sim \in BOOLEAN : Start(sim)
  BY <1>6, <1>10 DEF SkipChunk, Discard, Start, disk
<1>11. CASE Mount \/ Umount \/ FsWrite \/ ReadPage
  BY <1>6, <1>11 DEF Mount, Umount, FsWrite, ReadPage
<1>12. CASE UNCHANGED vars
  BY <1>6, <1>12 DEF vars
<1> QED
  BY <1>1, <1>2, <1>3, <1>4, <1>5, <1>7, <1>8, <1>9, <1>10, <1>11, <1>12 DEF Next

\* What one step may discard.
SpareGone ==
  \A b \in Blocks : media'[b] = Gone /\ media[b] # Gone =>
    \A c \in OwnChunks : b \notin Extent(kdz[c])

LEMMA StepGone ==
  ASSUME LaidOut, GoneIsOther
  PROVE  TypeInv /\ SumInv /\ DataInv /\ [Next]_vars => SpareGone
<1> SUFFICES ASSUME TypeInv, SumInv, DataInv, [Next]_vars,
                    NEW b \in Blocks, media'[b] = Gone, media[b] # Gone,
                    NEW c \in OwnChunks
             PROVE  b \notin Extent(kdz[c])
  BY DEF SpareGone
<1>1. dirty[b] # Gone /\ Fs # Gone
  BY KdzSliceAssumption DEF DataInv, Kept, GoneIsOther, Data
<1>2. ASSUME NEW r, Return(r) PROVE FALSE
  BY <1>1, <1>2 DEF Return, Synced
<1>3. CASE Discard
  <2>1. b \in DiscardRange
    BY <1>3 DEF Discard
  <2>2. i \in OwnChunks
    BY <1>3, AtHand DEF Discard, Held
  <2>3. Spare(kdz[i]) \cap Extent(kdz[c]) = {}
    BY <2>2 DEF LaidOut, OwnChunks, TypeInv, DiskType
  <2> QED
    BY <2>1, <2>3 DEF DiscardRange, Spare, chunk
<1>4. CASE WriteBack
  BY <1>1, <1>4 DEF WriteBack, TypeInv, DiskType
<1>5. CASE FsWrite
  BY <1>1, <1>5 DEF FsWrite, TypeInv, DiskType
<1>6. ASSUME ~ Discard, ~ WriteBack, ~ FsWrite PROVE media' = media
  BY <1>2, <1>6 DEF Next, vars, disk, Start, FindSlice, Open, SkipChunk, Alloc, AllocFails,
     Unpack, Verify, WriteBlock, Done, Mount, Umount, ReadPage, Kill, PowerCut
<1> QED
  BY <1>3, <1>4, <1>5, <1>6

\* A discard takes no block of the slice's chunks, neither one written before nor
\* one still to come, for every KDZ file laid out as LaidOut says
\* (kdz.c:1052-1071).
THEOREM OnlySpareLost ==
  ASSUME LaidOut, GoneIsOther
  PROVE  Spec => OnlySpareDiscarded
<1>1. Spec => [](TypeInv /\ SumInv /\ DataInv)
  BY InitType, StepType, InitSum, StepSum, InitData, StepData, PTL DEF Spec
<1>2. TypeInv /\ SumInv /\ DataInv /\ [Next]_vars => [SpareGone]_vars
  BY StepGone
<1>3. [SpareGone]_vars <=> [ \A b \in Blocks : media'[b] = Gone /\ media[b] # Gone =>
        \A c \in OwnChunks : b \notin Extent(kdz[c]) ]_vars
  BY DEF SpareGone
<1> QED
  BY <1>1, <1>2, <1>3, PTL DEF Spec, OnlySpareDiscarded

\* A block of one of the slice's chunks is a block of the disk, and of the chunk.
LEMMA SpotIn ==
  ASSUME kdz \in Kdzs, NEW c \in OwnChunks, NEW k \in 1 .. kdz[c].size
  PROVE  /\ c \in 1 .. Len(kdz) /\ kdz[c].addr \in Nat /\ kdz[c].size \in Nat
         /\ Spot(c, k) \in Blocks /\ Spot(c, k) \in Extent(kdz[c])
         /\ Spot(c, k) = kdz[c].addr + k - 1
<1>1. c \in 1 .. Len(kdz)
  BY KdzSliceAssumption DEF OwnChunks
<1>2. kdz[c] \in Chunk /\ kdz[c].addr + kdz[c].size <= LastBlock + 1
  BY <1>1, ChunkType
<1>3. kdz[c].addr \in Nat /\ kdz[c].size \in Nat
  BY <1>2, KdzSliceAssumption DEF Chunk, Blocks
<1> QED
  BY <1>1, <1>2, <1>3, KdzSliceAssumption, SMTT(30) DEF Spot, Extent, Blocks

\* Two places in the slice's chunks are two blocks.
LEMMA SpotsApart ==
  ASSUME LaidOut, kdz \in Kdzs,
         NEW c \in OwnChunks, NEW k \in 1 .. kdz[c].size,
         NEW d \in OwnChunks, NEW l \in 1 .. kdz[d].size,
         Spot(c, k) = Spot(d, l)
  PROVE  c = d /\ k = l
<1>1. Spot(c, k) \in Extent(kdz[c]) /\ Spot(d, l) \in Extent(kdz[d])
  BY SpotIn
<1>2. c = d
  BY <1>1 DEF LaidOut, OwnChunks
<1>3. kdz[c].addr \in Nat /\ kdz[d].addr \in Nat
  BY SpotIn
<1> QED
  BY <1>2, <1>3 DEF Spot

\* What RestInv says of one place.
SpotOk(c, k) ==
  /\ Handled(c, k) => kdz[c].sum[k] \in {Holds(Spot(c, k)), view[Spot(c, k)]}
  /\ ~ Handled(c, k) => dirty[Spot(c, k)] = Clean
Running == pc \notin Closed /\ ~simulate

LEMMA RestIs ==
  RestInv <=> /\ pc = "open" => \A c \in OwnChunks : i <= c
              /\ Running => \A c \in OwnChunks : \A k \in 1 .. kdz[c].size : SpotOk(c, k)
  BY DEF RestInv, SpotOk, Running

LEMMA InitRest == Init => RestInv
  BY DEF Init, RestInv, Closed

LEMMA StepRest ==
  ASSUME LaidOut, FlashFails = FALSE
  PROVE  TypeInv /\ SumInv /\ QuietInv /\ RestInv /\ [Next]_vars => RestInv'
<1> SUFFICES ASSUME TypeInv, SumInv, QuietInv, RestInv, [Next]_vars PROVE RestInv'
  OBVIOUS
<1>a. /\ kdz \in Kdzs /\ i \in Nat /\ j \in Nat /\ OwnChunks \subseteq Nat
      /\ media \in [Blocks -> Data] /\ dirty \in [Blocks -> Data \cup {Clean}]
      /\ pc # "write" => j = 1
  BY KdzSliceAssumption DEF TypeInv, DiskType, ProgType, OwnChunks
<1>b. ASSUME pc' \in Closed, pc' # "open" PROVE RestInv'
  BY <1>b DEF RestInv, Closed
<1>c. ASSUME NEW r, Return(r) PROVE RestInv'
  BY <1>b, <1>c DEF Return, Closed
<1>d. ASSUME pc' \notin Closed, kdz' = kdz,
             ~simulate' => \A c \in OwnChunks : \A k \in 1 .. kdz[c].size : SpotOk(c, k)'
      PROVE  RestInv'
  BY <1>d DEF RestInv, SpotOk, Closed, OwnChunks
<1>1. ASSUME NEW sim \in BOOLEAN, Start(sim) PROVE RestInv'
  BY <1>1, <1>b DEF Start, Closed
<1>2. CASE FindSlice /\ ~ Return("fail")
  <2>1. /\ OwnChunks # {} /\ pc' = "open" /\ kdz' = kdz
        /\ i' = CHOOSE c \in OwnChunks : \A d \in OwnChunks : c <= d
    BY <1>2 DEF FindSlice, disk
  <2>2. \E c \in OwnChunks : \A d \in OwnChunks : c <= d
    BY <1>a, <2>1, LeastIndex
  <2>3. \A d \in OwnChunks : i' <= d
    BY <2>1, <2>2
  <2> QED
    BY <2>1, <2>3 DEF RestInv, OwnChunks, Closed
<1>3. CASE Open /\ ~ Return("fail")
  <2>1. /\ pc = "open" /\ pc' = "chunk"
        /\ UNCHANGED <<media, dirty, kdz, simulate, i, j>>
    BY <1>3 DEF Open, disk
  <2>2. ASSUME NEW c \in OwnChunks, NEW k \in 1 .. kdz[c].size PROVE SpotOk(c, k)'
    <3>1. i <= c /\ c \in Nat /\ dirty = NoDirty /\ j = 1
      BY <1>a, <2>1 DEF RestInv, QuietInv, Closed
    <3>2. ~ Handled(c, k)' /\ Spot(c, k)' = Spot(c, k)
      BY <1>a, <2>1, <3>1 DEF Handled, Spot
    <3>3. dirty'[Spot(c, k)] = Clean
      BY <1>a, <2>1, <3>1, SpotIn DEF NoDirty
    <3> QED
      BY <3>2, <3>3 DEF SpotOk
  <2> QED
    BY <1>d, <2>1, <2>2 DEF Closed
\* Steps inside the chunk that leave the disk and the place alone.
<1>4. ASSUME pc' \notin Closed, pc \notin Closed,
             UNCHANGED <<media, dirty, kdz, simulate, i, j, view>>
      PROVE  RestInv'
  <2>1. ASSUME ~simulate, NEW c \in OwnChunks, NEW k \in 1 .. kdz[c].size
        PROVE  SpotOk(c, k)'
    <3>1. SpotOk(c, k)
      BY <1>4, <2>1, RestIs DEF Running
    <3> QED
      BY <1>4, <3>1 DEF SpotOk, Handled, Holds, Spot
  <2> QED
    BY <1>4, <1>d, <2>1
<1>5. CASE SkipChunk
  <2>1. /\ pc = "chunk" /\ pc' = pc /\ i' = i + 1 /\ chunk.slice # SliceName
        /\ UNCHANGED <<media, dirty, kdz, simulate, j, view>>
    BY <1>5 DEF SkipChunk, disk
  <2>2. ASSUME ~simulate, NEW c \in OwnChunks, NEW k \in 1 .. kdz[c].size
        PROVE  SpotOk(c, k)'
    <3>1. SpotOk(c, k)
      BY <2>1, <2>2, RestIs DEF Running, Closed
    <3>2. c # i /\ c \in Nat
      BY <1>a, <2>1 DEF OwnChunks, chunk
    <3>3. Handled(c, k)' <=> Handled(c, k)
      BY <1>a, <2>1, <3>2 DEF Handled
    <3> QED
      BY <2>1, <3>1, <3>3 DEF SpotOk, Holds, Spot
  <2> QED
    BY <1>d, <2>1, <2>2 DEF Closed
<1>6. CASE Alloc
  BY <1>4, <1>6 DEF Alloc, disk, Closed
<1>7. CASE Unpack /\ ~ Return("fail")
  BY <1>4, <1>7 DEF Unpack, disk, Closed
<1>8. CASE Verify /\ ~ Return("fail")
  BY <1>4, <1>8 DEF Verify, disk, Closed
<1>9. CASE WriteBlock
  <2> DEFINE blk == chunk.addr + j - 1
  <2>1. /\ pc = "write" /\ pc' = pc /\ j' = j + 1 /\ j <= chunk.size
        /\ UNCHANGED <<media, kdz, simulate, i, view>>
    BY <1>9 DEF WriteBlock
  <2>2. /\ i \in OwnChunks /\ chunk = kdz[i] /\ j \in 1 .. kdz[i].size
        /\ buf[j] = kdz[i].sum[j] /\ buf[j] \in Data
    <3>1. i \in OwnChunks /\ chunk = kdz[i] /\ chunk.size \in Nat /\ chunk.size <= Len(buf)
      BY <2>1, AtHand DEF Held
    <3>2. j \in 1 .. chunk.size
      BY <2>1, <3>1 DEF TypeInv, ProgType
    <3> QED
      BY <2>1, <3>1, <3>2 DEF SumInv, TypeInv, ProgType
  <2>3. blk = Spot(i, j) /\ blk \in Blocks /\ blk \in SliceBlocks
    <3>1. Spot(i, j) \in Blocks /\ Spot(i, j) \in Extent(kdz[i])
      BY <1>a, <2>2, SpotIn
    <3>2. Extent(kdz[i]) \subseteq SliceBlocks
      BY <1>a, <2>2 DEF LaidOut, OwnChunks
    <3> QED
      BY <2>2, <3>1, <3>2 DEF Spot
  <2> HIDE DEF blk
  <2>4. CASE ~simulate
    <3>1. \E seen \in Seen(blk) : \/ seen # buf[j] /\ dirty' = [dirty EXCEPT ![blk] = buf[j]]
                                  \/ seen = buf[j] /\ dirty' = dirty
      BY <1>9, <2>3, <2>4 DEF WriteBlock, Pwrite, blk
    <3>2. ASSUME NEW c \in OwnChunks, NEW k \in 1 .. kdz[c].size PROVE SpotOk(c, k)'
      <4>0. SpotOk(c, k)
        BY <2>1, <2>4, <3>2, RestIs DEF Running, Closed
      <4>1. CASE c = i /\ k = j
        <5>1. ~ Handled(c, k)
          BY <1>a, <4>1 DEF Handled
        <5>2. dirty[blk] = Clean
          BY <2>3, <4>0, <4>1, <5>1 DEF SpotOk
        <5>3. CASE dirty' = [dirty EXCEPT ![blk] = buf[j]]
          BY <1>a, <2>1, <2>2, <2>3, <4>1, <5>3, KdzSliceAssumption
             DEF SpotOk, Handled, Holds, Spot
        <5>4. CASE dirty' = dirty /\ buf[j] \in {media[blk], view[blk]}
          <6>1. kdz[c].sum[k] \in {Holds(Spot(c, k))', view[Spot(c, k)]'}
            BY <2>1, <2>2, <2>3, <4>1, <5>2, <5>4 DEF Holds, Spot
          <6>2. Handled(c, k)'
            BY <1>a, <2>1, <4>1 DEF Handled
          <6> QED
            BY <2>1, <6>1, <6>2 DEF SpotOk
        <5> QED
          BY <3>1, <5>2, <5>3, <5>4 DEF Seen
      <4>2. CASE ~ (c = i /\ k = j)
        <5>1. Spot(c, k) # blk /\ Spot(c, k) \in Blocks
          BY <1>a, <2>2, <2>3, <4>2, SpotsApart, SpotIn
        <5>2. dirty'[Spot(c, k)] = dirty[Spot(c, k)]
          BY <1>a, <3>1, <5>1
        <5>3. Handled(c, k)' <=> Handled(c, k)
          BY <1>a, <2>1, <4>2 DEF Handled
        <5> QED
          BY <2>1, <4>0, <5>2, <5>3 DEF SpotOk, Holds, Spot
      <4> QED
        BY <4>1, <4>2
    <3> QED
      BY <1>d, <2>1, <3>2 DEF Closed
  <2> QED
    BY <1>d, <2>1, <2>4 DEF Closed
<1>10. CASE Discard
  <2>1. /\ pc = "write" /\ pc' = "chunk" /\ i' = i + 1 /\ j' = 1 /\ j > chunk.size
        /\ UNCHANGED <<dirty, kdz, simulate, view>>
        /\ \/ media' = media
           \/ media' = [b \in Blocks |-> IF b \in DiscardRange THEN Gone ELSE media[b]]
    BY <1>10 DEF Discard
  <2>2. i \in OwnChunks /\ chunk = kdz[i]
    BY <2>1, AtHand DEF Held
  <2>3. ASSUME ~simulate, NEW c \in OwnChunks, NEW k \in 1 .. kdz[c].size
        PROVE  SpotOk(c, k)'
    <3>1. SpotOk(c, k)
      BY <2>1, <2>3, RestIs DEF Running, Closed
    <3>2. Spot(c, k) \notin DiscardRange
      <4>1. Spare(kdz[i]) \cap Extent(kdz[c]) = {}
        BY <1>a, <2>2 DEF LaidOut, OwnChunks
      <4>2. Spot(c, k) \in Extent(kdz[c])
        BY <1>a, SpotIn
      <4> QED
        BY <2>2, <4>1, <4>2 DEF DiscardRange, Spare
    <3>3. media'[Spot(c, k)] = media[Spot(c, k)]
      BY <1>a, <2>1, <3>2, SpotIn
    <3>4. Handled(c, k)' <=> Handled(c, k)
      <4>1. c \in Nat /\ k \in 1 .. kdz[c].size /\ kdz[c].size \in Nat
        BY <1>a, SpotIn
      <4>2. c = i => k < j
        BY <1>a, <2>1, <2>2, <4>1
      <4> QED
        BY <1>a, <2>1, <4>1, <4>2 DEF Handled
    <3> QED
      BY <2>1, <3>1, <3>3, <3>4 DEF SpotOk, Holds, Spot
  <2> QED
    BY <1>d, <2>1, <2>3 DEF Closed
<1>11. CASE WriteBack
  <2>1. PICK b \in Blocks : /\ dirty[b] # Clean
                            /\ media' = [media EXCEPT ![b] = dirty[b]]
                            /\ dirty' = [dirty EXCEPT ![b] = Clean]
    BY <1>11 DEF WriteBack
  <2>2. UNCHANGED <<kdz, pc, simulate, i, j, view>>
    BY <1>11 DEF WriteBack
  <2>3. Running
    BY <2>1 DEF QuietInv, NoDirty, Running
  <2>4. ASSUME NEW c \in OwnChunks, NEW k \in 1 .. kdz[c].size PROVE SpotOk(c, k)'
    <3>1. SpotOk(c, k)
      BY <2>3, <2>4, RestIs
    <3>2. Spot(c, k) \in Blocks /\ Spot(c, k)' = Spot(c, k)
      BY <1>a, <2>2, SpotIn DEF Spot
    <3>3. Handled(c, k)' <=> Handled(c, k)
      BY <2>2 DEF Handled
    <3>4. CASE Spot(c, k) = b
      BY <1>a, <2>1, <2>2, <3>1, <3>2, <3>3, <3>4 DEF SpotOk, Holds
    <3>5. CASE Spot(c, k) # b
      BY <1>a, <2>1, <2>2, <3>1, <3>2, <3>3, <3>5 DEF SpotOk, Holds
    <3> QED
      BY <3>4, <3>5
  <2> QED
    BY <1>d, <2>2, <2>3, <2>4 DEF Running
\* While the slice is open exclusively nobody mounts it or writes to it.
<1>12. ASSUME Mount \/ Umount \/ FsWrite PROVE RestInv'
  <2>1. UNCHANGED <<dirty, kdz, pc, simulate, i, j, view>>
    BY <1>12 DEF Mount, Umount, FsWrite
  <2>2. Running => media' = media
    BY <1>12 DEF Mount, Umount, FsWrite, QuietInv, Running
  <2>3. CASE pc \in Closed \/ simulate
    BY <2>1, <2>3 DEF RestInv, OwnChunks
  <2>4. CASE Running
    BY <1>4, <2>1, <2>2, <2>4 DEF Running
  <2> QED
    BY <2>3, <2>4 DEF Running
<1>13. CASE PowerCut
  BY <1>b, <1>13 DEF PowerCut, Closed
<1>14. CASE AllocFails \/ Done \/ Kill \/ Return("fail")
  BY <1>c, <1>14 DEF AllocFails, Done, Kill
<1>15. CASE ReadPage
  BY <1>15 DEF ReadPage, RestInv, OwnChunks, Closed
<1>16. CASE UNCHANGED vars
  BY <1>16 DEF vars, disk, RestInv, Handled, Holds, Spot, OwnChunks, Closed
<1> QED
  BY <1>1, <1>2, <1>3, <1>5, <1>6, <1>7, <1>8, <1>9, <1>10, <1>11, <1>12, <1>13, <1>14,
     <1>15, <1>16 DEF Next

\* What a call that returns 1 leaves.
Restored ==
  res = "none" /\ res' = "ok" /\ ~simulate =>
    \A c \in OwnChunks : \A b \in Extent(kdz[c]) :
      kdz[c].sum[b - kdz[c].addr + 1] \in {media'[b], view[b]}

LEMMA StepRestored == TypeInv /\ RestInv /\ [Next]_vars => Restored
<1> SUFFICES ASSUME TypeInv, RestInv, [Next]_vars, res = "none", res' = "ok", ~simulate,
                    NEW c \in OwnChunks, NEW b \in Extent(kdz[c])
             PROVE  kdz[c].sum[b - kdz[c].addr + 1] \in {media'[b], view[b]}
  BY DEF Restored
<1>1. Done
  BY DEF Next, vars, disk, Return, Start, FindSlice, Open, SkipChunk, Alloc, AllocFails, Unpack,
     Verify, WriteBlock, Discard, Done, Mount, Umount, FsWrite, WriteBack, ReadPage, Kill,
     PowerCut
<1>2. pc = "chunk" /\ i > Len(kdz) /\ media' = Synced
  BY <1>1 DEF Done, Return
<1> DEFINE k == b - kdz[c].addr + 1
<1>3. c \in 1 .. Len(kdz) /\ kdz \in Kdzs
  BY KdzSliceAssumption DEF OwnChunks, TypeInv, DiskType
<1>4. kdz[c].addr \in Nat /\ kdz[c].size \in Nat
  BY <1>3, ChunkType DEF Chunk, Blocks
<1>5. k \in 1 .. kdz[c].size /\ Spot(c, k) = b
  BY <1>4 DEF Extent, Spot
<1>6. Handled(c, k)
  BY <1>2, <1>3 DEF Handled, TypeInv, ProgType
<1>7. kdz[c].sum[k] \in {Holds(b), view[b]}
  BY <1>2, <1>5, <1>6, RestIs DEF SpotOk, Running, Closed
<1>8. b \in Blocks
  BY <1>3, <1>5, SpotIn
<1> QED
  BY <1>2, <1>7, <1>8 DEF Holds, Synced

\* A call that returns 1 leaves all of the slice's chunks on the flash, however
\* many calls were killed before it or lost to a power cut, where the flash fails
\* no write (kdz.c:917-1091), but for those blocks that the mapping of the disk,
\* read at any time before the slice was opened, shows as right already.
THEOREM SuccessRestores ==
  ASSUME LaidOut, FlashFails = FALSE
  PROVE  Spec => SuccessMeansRestored
<1>1. Spec => [](TypeInv /\ SumInv /\ QuietInv /\ RestInv)
  BY InitType, StepType, InitSum, StepSum, InitQuiet, StepQuiet, InitRest, StepRest, PTL
     DEF Spec
<1>2. TypeInv /\ RestInv /\ [Next]_vars => [Restored]_vars
  BY StepRestored
<1>3. [Restored]_vars <=> [ res = "none" /\ res' = "ok" /\ ~simulate =>
        \A c \in OwnChunks : \A b \in Extent(kdz[c]) :
          kdz[c].sum[b - kdz[c].addr + 1] \in {media'[b], view[b]} ]_vars
  BY DEF Restored
<1> QED
  BY <1>1, <1>2, <1>3, PTL DEF Spec, SuccessMeansRestored
==============================================================================
