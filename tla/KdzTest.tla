------------------------------- MODULE KdzTest -------------------------------
(***************************************************************************)
(* kdz.c, open_kdzfile() and test_kdzfile(): is this KDZ file one for this *)
(* phone?  The chunks are gone through in the order of the file; each may  *)
(* lower the quality of the match, and one that cannot be judged ends the  *)
(* test.  What the verdict is to mean is stated apart, chunk order or not, *)
(* at the end.                                                             *)
(*                                                                         *)
(* A chunk is a record: name and dev; data, how its contents compare with  *)
(* the device ("same", "differs", "damaged": inflate() or a checksum       *)
(* fails; "outside": its blocks are not on this device); size, what it     *)
(* takes of the file.  For a chunk with a GPT: first, whether it starts in *)
(* the first four blocks; blocks, its length; span, how many blocks from   *)
(* that end of the device its table takes; and the table.                  *)
(***************************************************************************)
EXTENDS Integers, Sequences
LOCAL INSTANCE Functions

Required == {"raw_resourcesbak", "sec"}
Wanted ==
  {"apdp", "cmnlib", "cmnlib64", "cmnlib64bak", "cmnlibbak", "devcfg", "devcfgbak",
   "factory", "hyp", "hypbak", "keymaster", "keymasterbak", "laf", "lafbak", "msadp",
   "pmic", "pmicbak", "raw_resources", "rpm", "rpmbak", "tz", "tzbak", "xbl", "xbl2",
   "xbl2bak", "xblbak"}
GptChunks == {"PrimaryGPT", "BackupGPT"}

\* Entries "likely to be modified by LineageOS or LGE".
Ignored ==
  {"", "OP", "cache", "cust", "grow", "grow2", "grow3", "grow4", "grow5", "grow6",
   "grow7", "system", "userdata"}

\* The bits of "maxreturn" a chunk bears on; 4 marks the special case.
Class(name) ==
  CASE name \in GptChunks -> {1, 2, 4}
    [] name \in Required  -> {1, 2}
    [] name \in Wanted    -> {2}
    [] OTHER              -> {}

BufBlocks  == 5       \* "bufsz" in blocks
Sdg        == 6
Unreadable == [none |-> TRUE]

\* "maxreturn" at the labels abort: and, where the process dies, nowhere.
Abort  == {-1}
Killed == {-2}

------------------------------------------------------------------------------
(* open_kdzfile() *)

\* Where chunk i's header starts; chunk 0 is the DZ file's own header.
Offset(file, i) == i + FoldFunction(+, 0, [j \in 1 .. i - 1 |-> file.chunks[j].size])

\* Every chunk's header has to lie inside the file and their MD5 to be right;
\* the data of the last chunk is not looked at.
Opens(file) ==
  /\ file.magic
  /\ Len(file.chunks) > 0
  /\ \A i \in 1 .. Len(file.chunks) : Offset(file, i) + 1 <= file.len
  /\ file.md5

\* Reading the data through mmap() ends in SIGBUS.
CutShort(file, i) == Offset(file, i) + 1 + file.chunks[i].size > file.len

------------------------------------------------------------------------------
(* comparegpt() *)

\* The room the entries leave to the header or the data area on either side.
Placement(t) ==
  IF t.my = 1
  THEN <<t.es - t.my, t.ds - t.es, t.ds - t.my>>
  ELSE <<t.es - t.de, t.my - t.es, t.my - t.de>>

CompareGpt(a, b) ==
  /\ a.head = b.head /\ a.ds = b.ds /\ a.de = b.de
  /\ Placement(a) = Placement(b)
  /\ a.entries = b.entries

------------------------------------------------------------------------------
(* test_kdzfile_gpt_entry() and the comparison of the tables *)

\* Mutant of Skipped: the name on the device decides.
Skipped_ByDevice(k, d) == d.name \in Ignored

Skipped(k, d) == k.name \in Ignored

\* The KDZ's entry and the device's are of different slices.
EntryFails(k, d) ==
  ~Skipped(k, d) /\ <<d.flags, d.type, d.name, d.lo, d.hi>> #
                    <<k.flags, k.type, k.name, k.lo, k.hi>>

IdDiffers(k, d, dev) == ~Skipped(k, d) /\ dev # Sdg /\ k.id # d.id

\* All entries but the last are compared.
Compared(t) == 1 .. Len(t.entries) - 1

HeadFails(k, d) ==
  \/ <<d.head, d.my, d.ds, d.de, d.es>> # <<k.head, k.my, k.ds, k.de, k.es>>
  \/ d.alt # k.alt /\ k.alt # 1 /\ d.alt # k.my

TableVerdict(bits, k, d, dev) ==
  IF HeadFails(k, d) \/ \E i \in Compared(d) : EntryFails(k.entries[i], d.entries[i])
  THEN {}
  ELSE IF \E i \in Compared(d) : IdDiffers(k.entries[i], d.entries[i], dev)
  THEN bits \ {2}
  ELSE bits

\* The buffer is filled with the GPT's end of the chunk.  The loop that chews
\* off what is before a backup never counts; a chunk shorter than the buffer
\* fails its checksums, which are taken over the whole buffer.
Unpacks(c) == IF c.first THEN c.blocks >= BufBlocks ELSE c.blocks = BufBlocks

GptVerdict(bits, c, device) ==
  LET dev   == IF c.first THEN device.primary ELSE device.backup
      other == IF c.first THEN device.backup ELSE device.primary
  IN
  IF \/ ~Unpacks(c)
     \/ dev = Unreadable \/ other = Unreadable \/ ~CompareGpt(dev, other)
     \/ c.table = Unreadable \/ c.span > BufBlocks
  THEN Abort
  ELSE TableVerdict(bits, c.table, dev, c.dev)

------------------------------------------------------------------------------
(* test_kdzfile() *)

\* Mutant of ChunkVerdict: a chunk that cannot be unpacked only fails itself.
ChunkVerdict_Damaged(bits, c, cut, phone) ==
  IF bits \cap Class(c.name) = {} THEN bits
  ELSE IF cut \/ c.data = "outside" THEN Killed
  ELSE IF c.data \in {"same", "damaged"} THEN bits
  ELSE IF c.name \notin GptChunks THEN bits \ Class(c.name)
  ELSE GptVerdict(bits, c, phone[c.dev])

\* A chunk that can lower nothing any more is not even unpacked.
ChunkVerdict(bits, c, cut, phone) ==
  IF bits \cap Class(c.name) = {} THEN bits
  ELSE IF cut \/ c.data = "outside" THEN Killed
  ELSE IF c.data = "damaged" THEN Abort
  ELSE IF c.data = "same" THEN bits
  ELSE IF c.name \notin GptChunks THEN bits \ Class(c.name)
  ELSE GptVerdict(bits, c, phone[c.dev])

\* "maxreturn" after the first n chunks; an abort or a signal is the end.
Verdicts(file, phone) ==
  LET v[n \in 0 .. Len(file.chunks)] ==
        IF n = 0 THEN {1, 2}
        ELSE IF v[n - 1] \in {Abort, Killed} THEN v[n - 1]
        ELSE ChunkVerdict(v[n - 1], file.chunks[n], CutShort(file, n), phone)
  IN v

\* What test_kdzfile() returns; -2 for a process that dies of a signal.
TestKdz(file, phone) ==
  LET v == Verdicts(file, phone)[Len(file.chunks)]
  IN CASE v = Abort  -> -1
       [] v = Killed -> -2
       [] 2 \in v    -> 2
       [] v = {1}    -> 1
       [] v = {}     -> 0

------------------------------------------------------------------------------
(* What the verdict is to mean. *)

OnDevice(c, phone) == IF c.first THEN phone[c.dev].primary ELSE phone[c.dev].backup

\* "The type-UUIDs *must* match, but Id-UUIDs can differ"; the entries LG or
\* LineageOS changes do not count.
SameSlices(k, d) ==
  /\ k # Unreadable /\ d # Unreadable
  /\ <<k.head, k.ds, k.de, k.es>> = <<d.head, d.ds, d.de, d.es>>
  /\ k.alt \in {1, d.alt} \/ d.alt = k.my
  /\ \A i \in DOMAIN k.entries :
       LET a == k.entries[i]
           b == d.entries[i]
       IN a.name \in Ignored \/ [a EXCEPT !.id = 0] = [b EXCEPT !.id = 0]

SameIds(k, d) ==
  \A i \in DOMAIN k.entries :
    k.entries[i].name \in Ignored \/ k.entries[i].id = d.entries[i].id

IsSame(file, i) == file.chunks[i].data = "same" /\ ~CutShort(file, i)

\* Chunk i does for a phone that is at least of the right kind (1), or for the
\* very phone with its original contents (2).
Fits(file, i, phone, level) ==
  LET c == file.chunks[i] IN
  IF c.name \in GptChunks
  THEN IsSame(file, i) \/ /\ SameSlices(c.table, OnDevice(c, phone))
                          /\ level = 2 /\ c.dev # Sdg => SameIds(c.table, OnDevice(c, phone))
  ELSE IsSame(file, i) \/ c.name \notin Required \cup (IF level = 2 THEN Wanted ELSE {})

\* How well the file fits the phone: the best result a test may have.
Fit(file, phone) ==
  LET fits(level) == \A i \in DOMAIN file.chunks : Fits(file, i, phone, level) IN
  IF fits(2) THEN 2 ELSE IF fits(1) THEN 1 ELSE 0

AgreeingCopies(p, b) ==
  <<p.head, p.ds, p.de, p.entries>> = <<b.head, b.ds, b.de, b.entries>>

\* Damage to a chunk that counts keeps a file from being judged.
Judgeable(file) ==
  \A i \in DOMAIN file.chunks :
    LET c == file.chunks[i] IN
    Class(c.name) # {} =>
      /\ c.data # "damaged" /\ ~CutShort(file, i)
      /\ c.name \in GptChunks /\ c.data # "same" => c.table # Unreadable

\* What test_kdzfile() cannot cope with though nothing is wrong with the file: blocks
\* the phone's device does not have; a GPT chunk, or a table in it, that is not as
\* long as the code takes it to be; a phone whose two copies of the GPT are not
\* both there and the same.
Handled(file, phone) ==
  \A i \in DOMAIN file.chunks :
    LET c == file.chunks[i]
        d == phone[c.dev]
    IN Class(c.name) # {} =>
         /\ c.data # "outside"
         /\ c.name \in GptChunks /\ c.data # "same" =>
              /\ c.span <= BufBlocks
              /\ IF c.first THEN c.blocks >= BufBlocks ELSE c.blocks = BufBlocks
              /\ Unreadable \notin {d.primary, d.backup}
              /\ AgreeingCopies(d.primary, d.backup)
==============================================================================
