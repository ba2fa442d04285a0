------------------------------- MODULE KdzSlice -------------------------------
(***************************************************************************)
(* kdz.c: write_kdzfile() writes the chunks of a KDZ file that belong to   *)
(* one slice, and unpackchunk_alloc(), unpackchunk(), unpackchunk_free()   *)
(* inflate and verify a chunk.                                             *)
(*                                                                         *)
(* The slice is opened as a device of its own, and exclusively.  What is   *)
(* written there is in the page cache at first ("dirty"), and on the media *)
(* at the latest when the slice is closed.  What the slice holds is read   *)
(* through a mapping of the whole disk, made when the KDZ file was opened, *)
(* whose pages may have been read long before and show no later write      *)
(* ("view").  Other programs may mount the slice.  CRC32 and MD5 are taken for the    *)
(* text they are the sums of.                                              *)
(***************************************************************************)
EXTENDS Integers, Sequences

CONSTANTS
  Content,      \* what a block of a KDZ file can hold
  Garbage,      \* what fresh memory holds
  Fs,           \* what a file system writes
  Gone,         \* what a discarded block holds
  LastBlock,    \* the disk's blocks are 0 .. LastBlock
  Table,        \* the slices in the GPT, in its order
  SliceName,    \* slice_name
  Kdzs,         \* the chunks of KDZ files
  Clean,        \* a block that has nothing in the page cache
  FlashFails    \* writing to the flash may fail

Blocks == 0 .. LastBlock
Data   == Content \cup {Garbage, Fs, Gone}

\* dz_chunk: target_size in blocks, "whole" when it is a multiple of the block
\* size; the stream inflates to the blocks "stream", and has its end there, is
\* cut off there, or is damaged there; sum stands for crc32 and md5.
Chunk == [slice : STRING, device : {"disk", "other"}, addr : Blocks,
          size : Nat \ {0}, whole : BOOLEAN, stream : Seq(Content),
          ends : {"end", "cut", "error"}, sum : Seq(Data), trim : Nat]

ASSUME KdzSliceAssumption ==
  /\ LastBlock \in Nat
  /\ \A s \in DOMAIN Table : Table[s].lo \in 1 .. LastBlock /\ Table[s].hi \in Blocks
  /\ Kdzs \subseteq Seq(Chunk)
  /\ \A k \in Kdzs : \A c \in DOMAIN k : k[c].addr + k[c].size <= LastBlock + 1
  /\ Clean \notin Data /\ FlashFails \in BOOLEAN

VARIABLES
  media,     \* the blocks on the disk
  dirty,     \* the slice's blocks that are newer in its page cache, else Clean
  mounted,   \* somebody has the slice mounted
  kdz,       \* the chunks of the KDZ file
  pc,        \* where write_kdzfile() is
  simulate,  \* its argument
  i, j,      \* its chunk and block counters
  buf,       \* its buffer; blocks of earlier chunks stay in it
  ctx,       \* the unpack context
  res,       \* what the latest call returned
  view       \* the disk as the pages of the mapping show it

vars == <<media, dirty, mounted, kdz, pc, simulate, i, j, buf, ctx, res, view>>
disk == <<media, dirty, mounted, kdz, view>>

NoCtx   == [valid |-> FALSE, finished |-> FALSE, hashed |-> <<>>]
NoDirty == [b \in Blocks |-> Clean]
Synced  == [b \in Blocks |-> IF dirty[b] = Clean THEN media[b] ELSE dirty[b]]
chunk   == kdz[i]
Smaller(x, y) == IF x < y THEN x ELSE y

\* The GPT's entries that are looked at: not its last.
Entries == {s \in 1 .. Len(Table) - 1 : Table[s].name = SliceName}
SliceBlocks ==
  IF Entries = {} THEN {}
  ELSE LET s == CHOOSE x \in Entries : \A y \in Entries : x <= y
       IN Table[s].lo .. Table[s].hi

OwnChunks == {c \in DOMAIN kdz : kdz[c].slice = SliceName}

------------------------------------------------------------------------------

\* return, with fd closed and its last block written to the media.
Return(r) ==
  /\ pc' = "idle" /\ res' = r
  /\ media' = Synced /\ dirty' = NoDirty
  /\ i' = 1 /\ j' = 1 /\ buf' = <<>> /\ ctx' = NoCtx /\ simulate' = FALSE
  /\ UNCHANGED <<mounted, kdz, view>>

Start(sim) ==
  /\ pc = "idle"
  /\ pc' = "find" /\ simulate' = sim /\ res' = "none"
  /\ UNCHANGED <<disk, i, j, buf, ctx>>

\* The first chunk of the slice leads to its place in the table.
FindSlice ==
  /\ pc = "find"
  /\ \/ /\ OwnChunks # {} /\ SliceBlocks # {}
        /\ pc' = "open"
        /\ i' = CHOOSE c \in OwnChunks : \A d \in OwnChunks : c <= d
        /\ UNCHANGED <<disk, simulate, j, buf, ctx, res>>
     \/ /\ OwnChunks = {} \/ SliceBlocks = {}
        /\ Return("fail")

\* Mutant of MayOpen: without O_EXCL.
MayOpen_Shared == TRUE

\* O_EXCL fails with EBUSY on a mounted slice.
MayOpen == simulate \/ ~mounted

Open ==
  /\ pc = "open"
  /\ \/ /\ MayOpen
        /\ pc' = "chunk"
        /\ UNCHANGED <<disk, simulate, i, j, buf, ctx, res>>
     \/ Return("fail")

SkipChunk ==
  /\ pc = "chunk" /\ i <= Len(kdz)
  /\ chunk.slice # SliceName
  /\ i' = i + 1
  /\ UNCHANGED <<disk, pc, simulate, j, buf, ctx, res>>

Fresh == [k \in 1 .. chunk.size |-> Garbage]

\* Mutant of Buffer: allocated once.
Buffer_Once == IF buf = <<>> THEN Fresh ELSE buf

\* The buffer is replaced by a larger one when needed.
Buffer == IF Len(buf) < chunk.size THEN Fresh ELSE buf

\* unpackchunk_alloc()
Alloc ==
  /\ pc = "chunk" /\ i <= Len(kdz)
  /\ chunk.slice = SliceName
  /\ kdz[i].device = "disk" /\ chunk.whole
  /\ buf' = Buffer
  /\ ctx' = [NoCtx EXCEPT !.valid = TRUE]
  /\ pc' = "unpack"
  /\ UNCHANGED <<disk, simulate, i, j, res>>

\* PANIC: chunks on several devices; target_size is no multiple of the block
\* size; there is no memory.
AllocFails ==
  /\ pc = "chunk" /\ i <= Len(kdz)
  /\ chunk.slice = SliceName
  /\ Return("fail")

\* unpackchunk(): a stream that ends early leaves the rest of buf as it was,
\* and bufsz bytes are hashed all the same.
Unpack ==
  /\ pc = "unpack"
  /\ LET n == Smaller(chunk.size, Len(chunk.stream)) IN
     \/ /\ n < chunk.size /\ chunk.ends = "error"
        /\ Return("fail")
     \/ /\ ~(n < chunk.size /\ chunk.ends = "error")
        /\ buf' = [k \in DOMAIN buf |-> IF k <= n THEN chunk.stream[k] ELSE buf[k]]
        /\ ctx' = [ctx EXCEPT !.hashed = SubSeq(buf', 1, chunk.size),
                              !.finished = chunk.ends = "end" /\ Len(chunk.stream) = n]
        /\ pc' = "verify"
        /\ UNCHANGED <<disk, simulate, i, j, res>>

\* Mutant of Verified: a stream that came to its end is good.
Verified_EndOnly == ctx.valid /\ ctx.finished

\* unpackchunk_free(ctx, false)
Verified == ctx.valid /\ ctx.finished /\ ctx.hashed = chunk.sum

Verify ==
  /\ pc = "verify"
  /\ \/ /\ Verified
        /\ ctx' = [ctx EXCEPT !.valid = FALSE]
        /\ pc' = "write"
        /\ UNCHANGED <<disk, simulate, i, j, buf, res>>
     \/ ~Verified /\ Return("fail")

\* The page is dropped and read again just now, or shows what it did before.
Seen(b) == {media[b], view[b]}

\* pwrite64() at the block's place in the slice.  Where it fails, outside the
\* slice or because the flash does, nobody notices.
Pwrite(b, data) ==
  dirty' \in (IF b \in SliceBlocks /\ ~simulate
              THEN {[dirty EXCEPT ![b] = data]} ELSE {dirty})
            \cup (IF FlashFails THEN {dirty} ELSE {})

\* Mutant of WriteBlock: the last block of a chunk is left out.
WriteBlock_LastSkipped ==
  /\ pc = "write" /\ j <= chunk.size
  /\ LET blk == chunk.addr + j - 1 IN
     \E seen \in Seen(blk) :
       \/ seen # buf[j] /\ j < chunk.size /\ Pwrite(blk, buf[j])
       \/ (seen = buf[j] \/ j = chunk.size) /\ dirty' = dirty
  /\ j' = j + 1
  /\ UNCHANGED <<media, mounted, kdz, pc, simulate, i, buf, ctx, res, view>>

WriteBlock ==
  /\ pc = "write" /\ j <= chunk.size
  /\ LET blk == chunk.addr + j - 1 IN
     \E seen \in Seen(blk) :
       \/ seen # buf[j] /\ Pwrite(blk, buf[j])
       \/ seen = buf[j] /\ dirty' = dirty
  /\ j' = j + 1
  /\ UNCHANGED <<media, mounted, kdz, pc, simulate, i, buf, ctx, res, view>>

\* Mutant of DiscardRange: the range begins with the chunk.
DiscardRange_FromStart == chunk.addr .. chunk.addr + chunk.trim - 1

\* From behind the chunk's data to the end of its trim_count blocks.  A
\* trim_count below target_size makes the length wrap around to more than
\* 2^40, which is no discard.
DiscardRange == chunk.addr + chunk.size .. chunk.addr + chunk.trim - 1

\* BLKDISCARD fails beyond the slice, nobody minds; or it does nothing.
Discard ==
  /\ pc = "write" /\ j > chunk.size
  /\ media' \in {media} \cup
       IF simulate \/ ~(DiscardRange \subseteq SliceBlocks) THEN {}
       ELSE {[b \in Blocks |-> IF b \in DiscardRange THEN Gone ELSE media[b]]}
  /\ i' = i + 1 /\ j' = 1
  /\ pc' = "chunk"
  /\ UNCHANGED <<dirty, mounted, kdz, simulate, buf, ctx, res, view>>

Done ==
  /\ pc = "chunk" /\ i > Len(kdz)
  /\ Return("ok")

------------------------------------------------------------------------------
(* The environment. *)

\* A mount is refused while the slice is open exclusively.
Mount ==
  /\ ~mounted
  /\ pc \in {"idle", "find", "open"} \/ simulate
  /\ mounted' = TRUE
  /\ UNCHANGED <<media, dirty, kdz, pc, simulate, i, j, buf, ctx, res, view>>

Umount ==
  /\ mounted
  /\ mounted' = FALSE
  /\ UNCHANGED <<media, dirty, kdz, pc, simulate, i, j, buf, ctx, res, view>>

FsWrite ==
  /\ mounted
  /\ \E b \in SliceBlocks : media' = [media EXCEPT ![b] = Fs]
  /\ UNCHANGED <<dirty, mounted, kdz, pc, simulate, i, j, buf, ctx, res, view>>

\* The kernel writes a block of the page cache to the disk when it likes.
WriteBack ==
  /\ \E b \in Blocks :
       /\ dirty[b] # Clean
       /\ media' = [media EXCEPT ![b] = dirty[b]]
       /\ dirty' = [dirty EXCEPT ![b] = Clean]
  /\ UNCHANGED <<mounted, kdz, pc, simulate, i, j, buf, ctx, res, view>>

\* The kernel drops a page of the mapping and reads it again.  (While the slice
\* is open only write_kdzfile() changes it, and Seen allows for this.)
ReadPage ==
  /\ pc \in {"idle", "find", "open"}
  /\ \E b \in Blocks : view' = [view EXCEPT ![b] = media[b]]
  /\ UNCHANGED <<media, dirty, mounted, kdz, pc, simulate, i, j, buf, ctx, res>>

Kill == pc # "idle" /\ Return("none")

\* What WriteBack has not written is lost.
PowerCut ==
  /\ pc' = "idle" /\ res' = "none"
  /\ dirty' = NoDirty /\ mounted' = FALSE
  /\ i' = 1 /\ j' = 1 /\ buf' = <<>> /\ ctx' = NoCtx /\ simulate' = FALSE
  /\ view' = media
  /\ UNCHANGED <<media, kdz>>

------------------------------------------------------------------------------

Init ==
  /\ media \in [Blocks -> Content]
  /\ \A b \in Blocks \ SliceBlocks : media[b] = media[0]
  /\ dirty = NoDirty
  /\ mounted \in BOOLEAN
  /\ kdz \in Kdzs
  /\ pc = "idle" /\ simulate = FALSE /\ res = "none"
  /\ i = 1 /\ j = 1 /\ buf = <<>> /\ ctx = NoCtx
  /\ view = media

Next ==
  \/ \E sim \in BOOLEAN : Start(sim)
  \/ FindSlice \/ Open \/ SkipChunk \/ Alloc \/ AllocFails \/ Unpack \/ Verify
  \/ WriteBlock \/ Discard \/ Done
  \/ Mount \/ Umount \/ FsWrite \/ WriteBack \/ ReadPage \/ Kill \/ PowerCut

Spec == Init /\ [][Next]_vars

------------------------------------------------------------------------------
(* Properties. *)

Extent(c)  == c.addr .. c.addr + c.size - 1
Written(b) == dirty'[b] # dirty[b] /\ dirty'[b] # Clean

\* The types of the variables; the buffer always holds the chunk at hand.
TypeOK ==
  /\ media \in [Blocks -> Data] /\ view \in [Blocks -> Data]
  /\ dirty \in [Blocks -> Data \cup {Clean}]
  /\ mounted \in BOOLEAN /\ simulate \in BOOLEAN
  /\ kdz \in Kdzs
  /\ pc \in {"idle", "find", "open", "chunk", "unpack", "verify", "write"}
  /\ i \in 1 .. Len(kdz) + 1 /\ j \in Nat
  /\ buf \in Seq(Data)
  /\ pc \in {"unpack", "verify", "write"} => chunk.size <= Len(buf)
  /\ pc = "write" => j <= chunk.size + 1
  /\ ctx.valid <=> pc \in {"unpack", "verify"}
  /\ res \in {"none", "ok", "fail"}

\* Every block written is the one the KDZ file's checksums vouch for, of a chunk
\* of this slice: a damaged or shortened stream, or what an earlier chunk left
\* in the buffer, never reaches the flash.
OnlyVerifiedWritten ==
  [][ \A b \in Blocks : Written(b) =>
        \E c \in OwnChunks : /\ b \in Extent(kdz[c])
                             /\ dirty'[b] = kdz[c].sum[b - kdz[c].addr + 1] ]_vars

\* A call that returns 1 leaves all of the slice's chunks on the flash, however
\* many earlier calls were killed, failed half way or lost to a power cut; the
\* only blocks that may be wrong are those a stale page of the mapping shows as
\* right, which the code skips (kdz.c:1025).
SuccessMeansRestored ==
  [][ res = "none" /\ res' = "ok" /\ ~simulate =>
        \A c \in OwnChunks : \A b \in Extent(kdz[c]) :
          kdz[c].sum[b - kdz[c].addr + 1] \in {media'[b], view[b]} ]_vars

\* Nothing is written to a slice that is mounted, nor by a simulated run ("on
\* Linux O_EXCL refuses if mounted").
QuietWhenMounted == (\E b \in Blocks : dirty[b] # Clean) => ~mounted /\ ~simulate

\* Only blocks behind the chunks' data are discarded, never one that was written
\* or found to be right already.
OnlySpareDiscarded ==
  [][ \A b \in Blocks : media'[b] = Gone /\ media[b] # Gone =>
        \A c \in OwnChunks : b \notin Extent(kdz[c]) ]_vars
==============================================================================
