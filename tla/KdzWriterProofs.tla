--------------------------- MODULE KdzWriterProofs ---------------------------
(***************************************************************************)
(* What the verdict of test_kdzfile() means for any KDZ file and phone; and *)
(* with it, what kdzwriter writes, refuses and promises by its exit status. *)
(***************************************************************************)
EXTENDS KdzWriter, WellFoundedInduction, TLAPS

------------------------------------------------------------------------------
(* test_kdzfile() as a function of the number of chunks. *)

\* What one turn of test_kdzfile()'s loop makes of "maxreturn".
Turn(file, phone, v, n) ==
  IF v \in {Abort, Killed} THEN v
  ELSE ChunkVerdict(v, file.chunks[n], CutShort(file, n), phone)

\* f tells "maxreturn" after each of the first n chunks.
Tells(f, n, file, phone) ==
  f = [m \in 0 .. n |-> IF m = 0 THEN {1, 2} ELSE Turn(file, phone, f[m - 1], m)]

LEMMA Smallest ==
  ASSUME NEW S, S \subseteq Nat, S # {}
  PROVE  \E x \in S : \A y \in S : x <= y
<1>1. PICK x \in S : \A y \in S : ~ (<<y, x>> \in OpToRel(<, Nat))
  BY WFMin, NatLessThanWellFounded
<1>2. ASSUME NEW y \in S PROVE x <= y
  <2>1. ~ (y < x)
    BY <1>1, <1>2 DEF OpToRel
  <2> QED
    BY <2>1
<1> QED
  BY <1>2

\* Such a function exists for every number of chunks: a smallest one without
\* would have its predecessor's to go on from.
LEMMA Told ==
  ASSUME NEW file, NEW phone, NEW n \in Nat
  PROVE  \E f : Tells(f, n, file, phone)
<1> DEFINE S == {m \in Nat : ~ \E f : Tells(f, m, file, phone)}
<1> SUFFICES ASSUME S # {} PROVE FALSE
  OBVIOUS
<1>1. PICK x \in S : \A y \in S : x <= y
  <2>1. S \subseteq Nat
    OBVIOUS
  <2> HIDE DEF S
  <2> QED
    BY <2>1, Smallest
<1>2. x # 0
  <2>1. Tells([m \in 0 .. 0 |-> {1, 2}], 0, file, phone)
    BY DEF Tells
  <2> QED
    BY <2>1
<1>3. x - 1 \in Nat /\ x - 1 \notin S
  <2>1. x \in Nat /\ x - 1 \in Nat
    BY <1>2
  <2> QED
    BY <1>1, <2>1
<1>4. PICK f : Tells(f, x - 1, file, phone)
  BY <1>3
<1> DEFINE g == [m \in 0 .. x |-> IF m = x THEN Turn(file, phone, f[x - 1], x) ELSE f[m]]
<1>5. Tells(g, x, file, phone)
  <2>1. \A m \in 0 .. x - 1 : g[m] = f[m]
    OBVIOUS
  <2>2. \A m \in 0 .. x - 1 :
          f[m] = IF m = 0 THEN {1, 2} ELSE Turn(file, phone, f[m - 1], m)
    BY <1>4 DEF Tells
  <2>3. \A m \in 0 .. x : g[m] = IF m = 0 THEN {1, 2} ELSE Turn(file, phone, g[m - 1], m)
    <3> TAKE m \in 0 .. x
    <3>1. CASE m = x
      <4>1. g[m - 1] = f[x - 1] /\ g[m] = Turn(file, phone, f[x - 1], x)
        BY <1>2, <1>3, <3>1, <2>1
      <4> QED
        BY <1>2, <3>1, <4>1
    <3>2. CASE m = 0
      BY <1>2, <3>2, <2>1, <2>2
    <3>3. CASE m # x /\ m # 0
      <4>1. g[m - 1] = f[m - 1] /\ g[m] = f[m]
        BY <3>3, <2>1
      <4> QED
        BY <3>3, <4>1, <2>2
    <3> QED
      BY <3>1, <3>2, <3>3
  <2>4. g = [m \in 0 .. x |-> IF m = 0 THEN {1, 2} ELSE Turn(file, phone, g[m - 1], m)]
    <3> DEFINE h == [m \in 0 .. x |-> IF m = 0 THEN {1, 2} ELSE Turn(file, phone, g[m - 1], m)]
    <3>1. \A m \in 0 .. x : g[m] = h[m]
      BY <2>3
    <3> QED
      BY <3>1
  <2> QED
    BY <2>4 DEF Tells
<1> QED
  BY <1>5

LEMMA VerdictsAre ==
  ASSUME NEW file, NEW phone, Len(file.chunks) \in Nat
  PROVE  /\ Verdicts(file, phone)[0] = {1, 2}
         /\ \A n \in 1 .. Len(file.chunks) :
              Verdicts(file, phone)[n] = Turn(file, phone, Verdicts(file, phone)[n - 1], n)
<1> DEFINE L == Len(file.chunks)
           W == CHOOSE f : Tells(f, L, file, phone)
<1>1. Tells(W, L, file, phone)
  BY Told
<1>2. Verdicts(file, phone) = W
  BY DEF Verdicts, Tells, Turn
<1>3. /\ W[0] = {1, 2}
      /\ \A n \in 1 .. L : W[n] = Turn(file, phone, W[n - 1], n)
  <2>1. L \in Nat
    OBVIOUS
  <2> HIDE DEF W, L
  <2>2. W = [m \in 0 .. L |-> IF m = 0 THEN {1, 2} ELSE Turn(file, phone, W[m - 1], m)]
    BY <1>1 DEF Tells
  <2>3. 0 \in 0 .. L
    BY <2>1
  <2>4. W[0] = {1, 2}
    BY <2>2, <2>3
  <2>5. ASSUME NEW n \in 1 .. L PROVE W[n] = Turn(file, phone, W[n - 1], n)
    <3>1. n \in 0 .. L /\ n # 0
      BY <2>1, <2>5
    <3>2. W[n] = IF n = 0 THEN {1, 2} ELSE Turn(file, phone, W[n - 1], n)
      BY <2>2, <3>1, Zenon
    <3> QED
      BY <3>1, <3>2
  <2> QED
    BY <2>4, <2>5
<1> QED
  BY <1>2, <1>3

------------------------------------------------------------------------------
(* Tables. *)

LEMMA ClassIs ==
  ASSUME NEW name
  PROVE  /\ 1 \in Class(name) <=> name \in GptChunks \cup Required
         /\ 2 \in Class(name) <=> name \in GptChunks \cup Required \cup Wanted
<1>1. CASE name \in GptChunks
  BY <1>1 DEF Class, GptChunks, Required, Wanted
<1>2. CASE name \notin GptChunks /\ name \in Required
  BY <1>2 DEF Class, GptChunks, Required, Wanted
<1>3. CASE name \notin GptChunks \cup Required /\ name \in Wanted
  BY <1>3 DEF Class
<1>4. CASE name \notin GptChunks \cup Required \cup Wanted
  BY <1>4 DEF Class
<1> QED
  BY <1>1, <1>2, <1>3, <1>4

LEMMA TableTypes ==
  /\ \A k \in KdzTables : \E first : k \in Tables(first)
  /\ \A d \in DevTables : \E first : d \in Tables(first)
<1>1. ASSUME NEW k \in KdzTables PROVE \E first : k \in Tables(first)
  BY TablesAssumption DEF KdzTables
<1>2. ASSUME NEW d \in DevTables PROVE \E first : d \in Tables(first)
  <2>1. PICK p \in Phones, c \in KdzChunks :
          d \in {p[c.dev].primary, p[c.dev].backup} /\ d # Unreadable
    BY DEF DevTables
  <2>2. /\ p[c.dev].primary \in Tables(TRUE) \cup {Unreadable}
        /\ p[c.dev].backup \in Tables(FALSE) \cup {Unreadable}
    BY TablesAssumption, Zenon
  <2>3. d \in Tables(TRUE) \/ d \in Tables(FALSE)
    BY <2>1, <2>2, Zenon
  <2> QED
    BY <2>3
<1> QED
  BY <1>1, <1>2

LEMMA TableFields ==
  ASSUME NEW t, NEW first, t \in Tables(first)
  PROVE  /\ t.entries \in Seq(Entries)
         /\ DOMAIN t.entries = 1 .. Len(t.entries) /\ Len(t.entries) \in Nat
         /\ {t.my, t.alt, t.es, t.ds, t.de} \subseteq Nat
         /\ t # Unreadable
<1>1. t.entries \in Seq(Entries) /\ {t.my, t.alt, t.es, t.ds, t.de} \subseteq Nat
  BY DEF Tables
<1>2. DOMAIN t = {"head", "my", "alt", "es", "ds", "de", "entries"}
  BY DEF Tables
<1>3. "head" \notin DOMAIN Unreadable
  BY DEF Unreadable
<1>4. t # Unreadable
  BY <1>2, <1>3
<1>5. DOMAIN t.entries = 1 .. Len(t.entries) /\ Len(t.entries) \in Nat
  BY <1>1
<1> QED
  BY <1>1, <1>4, <1>5

LEMMA PlacementIs ==
  ASSUME NEW t
  PROVE  /\ t \in Tables(TRUE) => Placement(t) = <<1, t.ds - 2, t.ds - 1>>
         /\ t \in Tables(FALSE) => Placement(t) = <<1, t.ds - 2, t.ds - 1>>
<1>1. ASSUME t \in Tables(TRUE) PROVE Placement(t) = <<1, t.ds - 2, t.ds - 1>>
  <2>1. t.my = 1 /\ t.es = 2
    BY <1>1 DEF Tables
  <2> QED
    BY <2>1 DEF Placement
<1>2. ASSUME t \in Tables(FALSE) PROVE Placement(t) = <<1, t.ds - 2, t.ds - 1>>
  <2>1. t.my # 1 /\ t.es = t.de + 1 /\ t.my = t.es + t.ds - 2
    BY <1>2 DEF Tables
  <2>2. t.de \in Nat /\ t.ds \in Nat
    BY <1>2 DEF Tables
  <2>3. t.es - t.de = 1 /\ t.my - t.es = t.ds - 2 /\ t.my - t.de = t.ds - 1
    BY <2>1, <2>2
  <2> QED
    BY <2>1, <2>3 DEF Placement
<1> QED
  BY <1>1, <1>2

\* An entry but for its id.
LEMMA EntryButId ==
  ASSUME NEW a \in Entries, NEW b \in Entries
  PROVE  [a EXCEPT !.id = 0] = [b EXCEPT !.id = 0] <=>
           <<b.flags, b.type, b.name, b.lo, b.hi>> = <<a.flags, a.type, a.name, a.lo, a.hi>>
BY DEF Entries

\* The tables have as many entries, and what the loop leaves out does not count.
LEMMA SameLength ==
  ASSUME NEW k \in KdzTables, NEW d \in DevTables, k.head = d.head
  PROVE  /\ DOMAIN k.entries = DOMAIN d.entries
         /\ \A i \in DOMAIN k.entries :
              /\ k.entries[i] \in Entries /\ d.entries[i] \in Entries
              /\ i \in Compared(d) \/ k.entries[i].name \in Ignored
<1>1. PICK fk : k \in Tables(fk)
  BY TableTypes
<1>2. PICK fd : d \in Tables(fd)
  BY TableTypes
<1>3. Len(k.entries) = Len(d.entries)
  BY TablesAssumption
<1>4. /\ k.entries \in Seq(Entries) /\ DOMAIN k.entries = 1 .. Len(k.entries)
      /\ d.entries \in Seq(Entries) /\ DOMAIN d.entries = 1 .. Len(d.entries)
      /\ Len(k.entries) \in Nat
  BY <1>1, <1>2, TableFields
<1>5. ASSUME NEW i \in DOMAIN k.entries
      PROVE  /\ k.entries[i] \in Entries /\ d.entries[i] \in Entries
             /\ i \in Compared(d) \/ k.entries[i].name \in Ignored
  <2>1. k.entries[i] \in Entries /\ d.entries[i] \in Entries
    BY <1>3, <1>4, <1>5
  <2>2. i \in 1 .. Len(k.entries)
    BY <1>4, <1>5
  <2>3. CASE i = Len(k.entries)
    BY <2>1, <2>2, <2>3, TablesAssumption
  <2>4. CASE i # Len(k.entries)
    BY <1>3, <1>4, <2>2, <2>4 DEF Compared
  <2> QED
    BY <2>1, <2>3, <2>4
<1> QED
  BY <1>3, <1>4, <1>5

\* A level is left only by a table with the same slices, and the best one only by
\* one with the same ids.
LEMMA TableSound ==
  ASSUME NEW k \in KdzTables, NEW d \in DevTables, NEW bits \in SUBSET {1, 2}, NEW dev,
         NEW level \in TableVerdict(bits, k, d, dev)
  PROVE  /\ level \in bits
         /\ SameSlices(k, d)
         /\ level = 2 /\ dev # Sdg => SameIds(k, d)
<1>1. /\ level \in bits /\ ~ HeadFails(k, d)
      /\ \A i \in Compared(d) : ~ EntryFails(k.entries[i], d.entries[i])
      /\ level = 2 => \A i \in Compared(d) : ~ IdDiffers(k.entries[i], d.entries[i], dev)
  BY DEF TableVerdict
<1>2. /\ <<k.head, k.ds, k.de, k.es>> = <<d.head, d.ds, d.de, d.es>>
      /\ k.alt \in {1, d.alt} \/ d.alt = k.my
  BY <1>1 DEF HeadFails
<1>3. k.head = d.head
  BY <1>2
<1>4. k # Unreadable /\ d # Unreadable
  BY TableTypes, TableFields
<1>5. ASSUME NEW i \in DOMAIN k.entries, k.entries[i].name \notin Ignored
      PROVE  /\ [k.entries[i] EXCEPT !.id = 0] = [d.entries[i] EXCEPT !.id = 0]
             /\ level = 2 /\ dev # Sdg => k.entries[i].id = d.entries[i].id
  <2>1. /\ k.entries[i] \in Entries /\ d.entries[i] \in Entries
        /\ i \in Compared(d)
    BY <1>3, <1>5, SameLength
  <2>2. ~ EntryFails(k.entries[i], d.entries[i])
    BY <1>1, <2>1
  <2>3. [k.entries[i] EXCEPT !.id = 0] = [d.entries[i] EXCEPT !.id = 0]
    BY <1>5, <2>1, <2>2, EntryButId DEF EntryFails, Skipped
  <2>4. ASSUME level = 2, dev # Sdg PROVE k.entries[i].id = d.entries[i].id
    BY <1>1, <1>5, <2>1, <2>4 DEF IdDiffers, Skipped
  <2> QED
    BY <2>3, <2>4
<1>6. SameSlices(k, d)
  BY <1>2, <1>4, <1>5 DEF SameSlices
<1>7. level = 2 /\ dev # Sdg => SameIds(k, d)
  BY <1>5 DEF SameIds
<1> QED
  BY <1>1, <1>6, <1>7

\* And such a table leaves it.
LEMMA TableComplete ==
  ASSUME NEW k \in KdzTables, NEW d \in DevTables, NEW bits \in SUBSET {1, 2}, NEW dev,
         NEW level \in bits, k.my = d.my, SameSlices(k, d),
         level = 2 /\ dev # Sdg => SameIds(k, d)
  PROVE  level \in TableVerdict(bits, k, d, dev)
<1>1. k.head = d.head /\ ~ HeadFails(k, d)
  BY DEF SameSlices, HeadFails
<1>2. ASSUME NEW i \in Compared(d)
      PROVE  /\ i \in DOMAIN k.entries
             /\ k.entries[i] \in Entries /\ d.entries[i] \in Entries
  <2>1. PICK first : d \in Tables(first)
    BY TableTypes
  <2>2. i \in DOMAIN d.entries
    BY <1>2, <2>1, TableFields DEF Compared
  <2> QED
    BY <1>1, <2>2, SameLength
<1>3. ASSUME NEW i \in Compared(d) PROVE ~ EntryFails(k.entries[i], d.entries[i])
  BY <1>2, <1>3, EntryButId DEF EntryFails, Skipped, SameSlices
<1>4. ASSUME NEW i \in Compared(d), level = 2
      PROVE  ~ IdDiffers(k.entries[i], d.entries[i], dev)
  BY <1>2, <1>4 DEF IdDiffers, Skipped, SameIds
<1>5. CASE \E i \in Compared(d) : IdDiffers(k.entries[i], d.entries[i], dev)
  BY <1>1, <1>3, <1>4, <1>5 DEF TableVerdict
<1>6. CASE ~ \E i \in Compared(d) : IdDiffers(k.entries[i], d.entries[i], dev)
  BY <1>1, <1>3, <1>6 DEF TableVerdict
<1> QED
  BY <1>5, <1>6

------------------------------------------------------------------------------
(* test_kdzfile() *)

LEMMA FileTypes ==
  ASSUME NEW file \in KdzFiles
  PROVE  /\ Len(file.chunks) \in Nat /\ DOMAIN file.chunks = 1 .. Len(file.chunks)
         /\ \A n \in DOMAIN file.chunks : file.chunks[n] \in KdzChunks
<1>1. file.chunks \in UNION {[1 .. n -> KdzChunks] : n \in 1 .. MaxChunks}
  BY DEF KdzFiles
<1>2. PICK n \in 1 .. MaxChunks : file.chunks \in [1 .. n -> KdzChunks]
  BY <1>1
<1>3. n \in Nat
  BY KdzWriterAssumption
<1>4. file.chunks \in Seq(KdzChunks)
  BY <1>2, <1>3
<1> QED
  BY <1>4

\* What the phone has where a chunk's table goes, and at the other end.
LEMMA DevicesTables ==
  ASSUME NEW c \in KdzChunks, NEW phone \in Phones
  PROVE  /\ phone[c.dev].primary \in DevTables \cup {Unreadable}
         /\ phone[c.dev].backup \in DevTables \cup {Unreadable}
         /\ OnDevice(c, phone) \in Tables(c.first) \cup {Unreadable}
<1>1. /\ phone[c.dev].primary \in DevTables \cup {Unreadable}
      /\ phone[c.dev].backup \in DevTables \cup {Unreadable}
  BY DEF DevTables
<1>2. /\ phone[c.dev].primary \in Tables(TRUE) \cup {Unreadable}
      /\ phone[c.dev].backup \in Tables(FALSE) \cup {Unreadable}
  BY TablesAssumption, Zenon
<1>3. OnDevice(c, phone) \in Tables(c.first) \cup {Unreadable}
  <2>1. CASE c.first
    BY <1>2, <2>1 DEF OnDevice, Tables
  <2>2. CASE ~ c.first
    BY <1>2, <2>2 DEF OnDevice, Tables
  <2> QED
    BY <2>1, <2>2
<1> QED
  BY <1>1, <1>3

Sound(file, phone, n, bits, v) ==
  v \in {Abort, Killed} \/ (/\ v \in SUBSET {1, 2}
                            /\ \A level \in v : level \in bits /\ Fits(file, n, phone, level))

\* What a chunk leaves it fits.
LEMMA ChunkSound ==
  ASSUME NEW file \in KdzFiles, NEW phone \in Phones, NEW n \in DOMAIN file.chunks,
         NEW bits \in SUBSET {1, 2}
  PROVE  Sound(file, phone, n, bits,
               ChunkVerdict(bits, file.chunks[n], CutShort(file, n), phone))
<1> DEFINE c   == file.chunks[n]
           cut == CutShort(file, n)
           v   == ChunkVerdict(bits, c, cut, phone)
<1> USE DEF Sound
<1>1. c \in KdzChunks
  BY FileTypes
<1>2. ASSUME v = bits \ Class(c.name), c.name \notin GptChunks PROVE Sound(file, phone, n, bits, v)
  <2>1. ASSUME NEW level \in v PROVE level \in bits /\ Fits(file, n, phone, level)
    BY <1>2, <2>1, ClassIs DEF Fits
  <2> QED
    BY <1>2, <2>1
<1>3. CASE bits \cap Class(c.name) = {}
  <2>1. v = bits
    BY <1>3 DEF ChunkVerdict
  <2>2. ASSUME c.name \in GptChunks PROVE bits = {}
    BY <1>3, <2>2, ClassIs
  <2> QED
    BY <1>2, <1>3, <2>1, <2>2
<1>4. CASE bits \cap Class(c.name) # {} /\ (cut \/ c.data = "outside")
  BY <1>4 DEF ChunkVerdict
<1>5. CASE bits \cap Class(c.name) # {} /\ ~ cut /\ c.data = "damaged"
  BY <1>5 DEF ChunkVerdict
<1>6. CASE bits \cap Class(c.name) # {} /\ ~ cut /\ c.data = "same"
  <2>1. v = bits
    BY <1>6 DEF ChunkVerdict
  <2>2. IsSame(file, n)
    BY <1>6 DEF IsSame
  <2> QED
    BY <2>1, <2>2 DEF Fits
<1>7. CASE bits \cap Class(c.name) # {} /\ ~ cut /\ c.data \notin {"outside", "damaged", "same"}
  <2>1. CASE c.name \notin GptChunks
    BY <1>2, <1>7, <2>1 DEF ChunkVerdict
  <2>2. CASE c.name \in GptChunks
    <3>1. v = GptVerdict(bits, c, phone[c.dev])
      BY <1>7, <2>2 DEF ChunkVerdict
    <3>2. CASE v # Abort
      <4>1. /\ OnDevice(c, phone) # Unreadable /\ c.table # Unreadable
            /\ v = TableVerdict(bits, c.table, OnDevice(c, phone), c.dev)
        BY <3>1, <3>2 DEF GptVerdict, OnDevice
      <4>2. c.table \in KdzTables /\ OnDevice(c, phone) \in DevTables
        BY <1>1, <4>1, DevicesTables DEF KdzTables, OnDevice
      <4>3. v \in SUBSET {1, 2}
        BY <4>1 DEF TableVerdict
      <4>4. ASSUME NEW level \in v PROVE level \in bits /\ Fits(file, n, phone, level)
        BY <2>2, <4>1, <4>2, <4>4, TableSound DEF Fits
      <4> QED
        BY <4>3, <4>4
    <3> QED
      BY <3>2
  <2> QED
    BY <2>1, <2>2
<1> QED
  BY <1>3, <1>4, <1>5, <1>6, <1>7

\* What can be judged is, and what a chunk fits it leaves.
LEMMA ChunkComplete ==
  ASSUME NEW file \in KdzFiles, NEW phone \in Phones, NEW n \in DOMAIN file.chunks,
         NEW bits \in SUBSET {1, 2}, Judgeable(file), Handled(file, phone)
  PROVE  LET v == ChunkVerdict(bits, file.chunks[n], CutShort(file, n), phone) IN
         /\ v \in SUBSET {1, 2}
         /\ \A level \in bits : Fits(file, n, phone, level) => level \in v
<1> DEFINE c   == file.chunks[n]
           cut == CutShort(file, n)
           v   == ChunkVerdict(bits, c, cut, phone)
           d   == phone[c.dev]
<1>1. c \in KdzChunks
  BY FileTypes
<1>2. CASE bits \cap Class(c.name) = {}
  BY <1>2 DEF ChunkVerdict
<1>3. CASE bits \cap Class(c.name) # {}
  <2>1. /\ c.data \notin {"damaged", "outside"} /\ ~ cut
        /\ c.name \in GptChunks /\ c.data # "same" =>
             /\ c.table # Unreadable /\ c.span <= BufBlocks
             /\ Unpacks(c)
             /\ Unreadable \notin {d.primary, d.backup}
             /\ AgreeingCopies(d.primary, d.backup)
    BY <1>3 DEF Judgeable, Handled, Unpacks
  <2>2. CASE c.data = "same"
    BY <1>3, <2>1, <2>2 DEF ChunkVerdict
  <2>3. CASE c.data # "same" /\ c.name \notin GptChunks
    <3>1. v = bits \ Class(c.name)
      BY <1>3, <2>1, <2>3 DEF ChunkVerdict
    <3>2. ASSUME NEW level \in bits, Fits(file, n, phone, level) PROVE level \in v
      <4>1. c.name \notin Required /\ (level = 2 => c.name \notin Wanted)
        BY <2>3, <3>2 DEF Fits, IsSame
      <4> QED
        BY <2>3, <3>1, <3>2, <4>1, ClassIs
    <3> QED
      BY <3>1, <3>2
  <2>4. CASE c.data # "same" /\ c.name \in GptChunks
    <3> DEFINE dev   == OnDevice(c, phone)
               other == IF c.first THEN d.backup ELSE d.primary
    <3>1. /\ d.primary \in Tables(TRUE) /\ d.backup \in Tables(FALSE)
          /\ dev \in Tables(c.first) /\ dev \in DevTables
      <4>1. d.primary # Unreadable /\ d.backup # Unreadable
        BY <2>1, <2>4
      <4>2. /\ d.primary \in Tables(TRUE) \cup {Unreadable}
            /\ d.backup \in Tables(FALSE) \cup {Unreadable}
        BY <1>1, TablesAssumption, Zenon
      <4>3. d.primary \in Tables(TRUE)
        BY <4>1, <4>2, Zenon
      <4>4. d.backup \in Tables(FALSE)
        BY <4>1, <4>2, Zenon
      <4>5. dev \in {d.primary, d.backup}
        BY DEF OnDevice
      <4>6. dev \in Tables(c.first) \cup {Unreadable}
        BY <1>1, DevicesTables
      <4>7. dev \in DevTables
        BY <1>1, <4>1, <4>5, DevicesTables
      <4> QED
        BY <4>1, <4>3, <4>4, <4>5, <4>6, <4>7
    <3>2. CompareGpt(d.primary, d.backup) /\ CompareGpt(d.backup, d.primary)
      <4> DEFINE p == d.primary
                 b == d.backup
      <4>1. p.head = b.head /\ p.ds = b.ds /\ p.de = b.de /\ p.entries = b.entries
        BY <2>1, <2>4 DEF AgreeingCopies
      <4>2. Placement(p) = <<1, p.ds - 2, p.ds - 1>> /\ Placement(b) = <<1, b.ds - 2, b.ds - 1>>
        BY <3>1, PlacementIs
      <4> HIDE DEF p, b
      <4>3. CompareGpt(p, b) /\ CompareGpt(b, p)
        BY <4>1, <4>2 DEF CompareGpt
      <4> QED
        BY <4>3 DEF p, b
    <3>3. v = TableVerdict(bits, c.table, dev, c.dev)
      <4>1. v = GptVerdict(bits, c, d)
        BY <1>3, <2>1, <2>4 DEF ChunkVerdict
      <4> QED
        <5>1. /\ Unpacks(c) /\ c.table # Unreadable /\ ~ (c.span > BufBlocks)
              /\ d.primary # Unreadable /\ d.backup # Unreadable
          <6>1. c.span \in Nat
            BY <1>1, TablesAssumption
          <6> QED
            BY <2>1, <2>4, <6>1 DEF BufBlocks
        <5>2. CASE c.first
          BY <3>2, <4>1, <5>1, <5>2 DEF GptVerdict, OnDevice
        <5>3. CASE ~ c.first
          BY <3>2, <4>1, <5>1, <5>3 DEF GptVerdict, OnDevice
        <5> QED
          BY <5>2, <5>3
    <3>4. v \in SUBSET {1, 2}
      BY <3>3 DEF TableVerdict
    <3>5. c.table \in Tables(c.first) /\ c.table \in KdzTables
      BY <1>1, <2>1, <2>4, TablesAssumption DEF KdzTables
    <3>6. ASSUME NEW level \in bits, Fits(file, n, phone, level) PROVE level \in v
      <4>1. /\ SameSlices(c.table, dev)
            /\ level = 2 /\ c.dev # Sdg => SameIds(c.table, dev)
        BY <2>4, <3>6 DEF Fits, IsSame
      <4>2. c.table.my = dev.my
        BY <3>1, <3>5, <4>1 DEF SameSlices, Tables
      <4> QED
        BY <3>1, <3>3, <3>5, <3>6, <4>1, <4>2, TableComplete
    <3> QED
      BY <3>4, <3>6
  <2> QED
    BY <2>1, <2>2, <2>3, <2>4
<1> QED
  BY <1>2, <1>3

\* The two by induction over the chunks: a first one that goes wrong has one
\* before it that does not.
LEMMA FilesSound ==
  ASSUME NEW file \in KdzFiles, NEW phone \in Phones, NEW n \in 0 .. Len(file.chunks)
  PROVE  LET v == Verdicts(file, phone)[n] IN
         v \in {Abort, Killed} \/
           (/\ v \in SUBSET {1, 2}
            /\ \A level \in v : \A i \in 1 .. n : Fits(file, i, phone, level))
<1> DEFINE V == Verdicts(file, phone)
           Good(m) == V[m] \in {Abort, Killed} \/
                        (/\ V[m] \in SUBSET {1, 2}
                         /\ \A level \in V[m] : \A i \in 1 .. m : Fits(file, i, phone, level))
           Bad == {m \in 0 .. Len(file.chunks) : ~ Good(m)}
<1>0. /\ Len(file.chunks) \in Nat /\ DOMAIN file.chunks = 1 .. Len(file.chunks)
      /\ V[0] = {1, 2}
      /\ \A m \in 1 .. Len(file.chunks) : V[m] = Turn(file, phone, V[m - 1], m)
  BY FileTypes, VerdictsAre
<1> SUFFICES ASSUME Bad # {} PROVE FALSE
  OBVIOUS
<1> HIDE DEF V
<1>1. PICK x \in Bad : \A y \in Bad : x <= y
  <2>1. Bad \subseteq Nat
    BY <1>0
  <2> HIDE DEF Bad
  <2> QED
    BY <2>1, Smallest
<1>2. x # 0
  BY <1>0
<1>3. x \in 1 .. Len(file.chunks) /\ x \in DOMAIN file.chunks
  BY <1>0, <1>2
<1>4. x - 1 \in 0 .. Len(file.chunks) /\ x - 1 \notin Bad
  BY <1>0, <1>1, <1>3
<1>5. Good(x - 1)
  BY <1>4
<1>6. V[x] = Turn(file, phone, V[x - 1], x)
  BY <1>0, <1>3
<1>7. CASE V[x - 1] \in {Abort, Killed}
  BY <1>6, <1>7 DEF Turn
<1>8. CASE V[x - 1] \notin {Abort, Killed}
  <2>1. V[x] = ChunkVerdict(V[x - 1], file.chunks[x], CutShort(file, x), phone)
    BY <1>6, <1>8 DEF Turn
  <2>2. V[x - 1] \in SUBSET {1, 2}
    BY <1>5, <1>8
  <2>3. Sound(file, phone, x, V[x - 1], V[x])
    <3>1. Sound(file, phone, x, V[x - 1],
                ChunkVerdict(V[x - 1], file.chunks[x], CutShort(file, x), phone))
      BY <1>3, <2>2, ChunkSound
    <3> QED
      BY <2>1, <3>1
  <2>4. CASE V[x] \in {Abort, Killed}
    BY <2>4
  <2>5. CASE V[x] \notin {Abort, Killed}
    <3>1. /\ V[x] \in SUBSET {1, 2}
          /\ \A level \in V[x] : level \in V[x - 1] /\ Fits(file, x, phone, level)
      BY <2>3, <2>5 DEF Sound
    <3>2. ASSUME NEW level \in V[x], NEW i \in 1 .. x PROVE Fits(file, i, phone, level)
      <4>1. CASE i = x
        BY <3>1, <4>1
      <4>2. CASE i # x
        <5>1. i \in 1 .. x - 1
          BY <1>3, <4>2
        <5> QED
          BY <1>5, <1>8, <3>1, <5>1
      <4> QED
        BY <4>1, <4>2
    <3> QED
      BY <3>1, <3>2
  <2> QED
    BY <2>4, <2>5
<1> QED
  BY <1>7, <1>8

LEMMA FilesComplete ==
  ASSUME NEW file \in KdzFiles, NEW phone \in Phones, NEW n \in 0 .. Len(file.chunks),
         Judgeable(file), Handled(file, phone)
  PROVE  LET v == Verdicts(file, phone)[n] IN
         /\ v \in SUBSET {1, 2}
         /\ \A level \in {1, 2} :
              (\A i \in 1 .. n : Fits(file, i, phone, level)) => level \in v
<1> DEFINE V == Verdicts(file, phone)
           Good(m) == /\ V[m] \in SUBSET {1, 2}
                      /\ \A level \in {1, 2} :
                           (\A i \in 1 .. m : Fits(file, i, phone, level)) => level \in V[m]
           Bad == {m \in 0 .. Len(file.chunks) : ~ Good(m)}
<1>0. /\ Len(file.chunks) \in Nat /\ DOMAIN file.chunks = 1 .. Len(file.chunks)
      /\ V[0] = {1, 2}
      /\ \A m \in 1 .. Len(file.chunks) : V[m] = Turn(file, phone, V[m - 1], m)
  BY FileTypes, VerdictsAre
<1> SUFFICES ASSUME Bad # {} PROVE FALSE
  OBVIOUS
<1> HIDE DEF V
<1>1. PICK x \in Bad : \A y \in Bad : x <= y
  <2>1. Bad \subseteq Nat
    BY <1>0
  <2> HIDE DEF Bad
  <2> QED
    BY <2>1, Smallest
<1>2. x # 0
  BY <1>0
<1>3. x \in 1 .. Len(file.chunks) /\ x \in DOMAIN file.chunks
  BY <1>0, <1>2
<1>4. x - 1 \in 0 .. Len(file.chunks) /\ x - 1 \notin Bad
  BY <1>0, <1>1, <1>3, SMTT(30)
<1>5. Good(x - 1)
  BY <1>4
<1>6. V[x] = ChunkVerdict(V[x - 1], file.chunks[x], CutShort(file, x), phone)
  <2>1. V[x - 1] \notin {Abort, Killed}
    <3>1. V[x - 1] \in SUBSET {1, 2}
      BY <1>5
    <3>2. -1 \notin V[x - 1] /\ -2 \notin V[x - 1]
      BY <3>1
    <3>3. -1 \in Abort /\ -2 \in Killed
      BY DEF Abort, Killed
    <3> QED
      BY <3>2, <3>3
  <2> QED
    BY <1>0, <1>3, <2>1 DEF Turn
<1>7. /\ V[x] \in SUBSET {1, 2}
      /\ \A level \in V[x - 1] : Fits(file, x, phone, level) => level \in V[x]
  <2>1. V[x - 1] \in SUBSET {1, 2}
    BY <1>5
  <2>2. LET v == ChunkVerdict(V[x - 1], file.chunks[x], CutShort(file, x), phone) IN
        /\ v \in SUBSET {1, 2}
        /\ \A level \in V[x - 1] : Fits(file, x, phone, level) => level \in v
    BY <1>3, <2>1, ChunkComplete
  <2> QED
    BY <1>6, <2>2
<1>8. ASSUME NEW level \in {1, 2}, \A i \in 1 .. x : Fits(file, i, phone, level)
      PROVE  level \in V[x]
  <2>1. (\A i \in 1 .. x - 1 : Fits(file, i, phone, level)) /\ Fits(file, x, phone, level)
    BY <1>3, <1>8
  <2> QED
    BY <1>5, <1>7, <2>1
<1> QED
  BY <1>7, <1>8

\* A verdict is what the phone is worth, or less for a reason.
LEMMA VerdictMeans ==
  ASSUME NEW file \in KdzFiles, NEW phone \in Phones
  PROVE  /\ TestKdz(file, phone) \in -2 .. 2 /\ Fit(file, phone) \in 0 .. 2
         /\ TestKdz(file, phone) > 0 => Fit(file, phone) >= TestKdz(file, phone)
         /\ Judgeable(file) /\ Handled(file, phone) =>
              TestKdz(file, phone) >= Fit(file, phone)
<1> DEFINE L == Len(file.chunks)
           good == Judgeable(file) /\ Handled(file, phone)
           v == Verdicts(file, phone)[L]
           fits(level) == \A i \in DOMAIN file.chunks : Fits(file, i, phone, level)
<1>1. L \in 0 .. L /\ DOMAIN file.chunks = 1 .. L
  BY FileTypes
<1>2. v \in {Abort, Killed} \/ (v \in SUBSET {1, 2} /\ \A level \in v : fits(level))
  BY <1>1, FilesSound
<1>3. ASSUME good
      PROVE  v \in SUBSET {1, 2} /\ \A level \in {1, 2} : fits(level) => level \in v
  BY <1>1, <1>3, FilesComplete
<1>4. Fit(file, phone) = IF fits(2) THEN 2 ELSE IF fits(1) THEN 1 ELSE 0
  BY DEF Fit
<1>5. TestKdz(file, phone) = CASE v = Abort  -> -1
                               [] v = Killed -> -2
                               [] 2 \in v    -> 2
                               [] v = {1}    -> 1
                               [] v = {}     -> 0
  BY DEF TestKdz
<1> HIDE DEF v, fits, good
<1>6. CASE v = Abort
  <2>1. v # Killed /\ 2 \notin v /\ v # {1} /\ v # {}
    BY <1>6 DEF Abort, Killed
  <2>2. TestKdz(file, phone) = -1
    BY <1>5, <1>6, <2>1
  <2>3. ~ good
    BY <1>3, <1>6 DEF Abort
  <2> QED
    BY <1>4, <2>2, <2>3 DEF good
<1>7. CASE v = Killed
  <2>1. v # Abort /\ 2 \notin v /\ v # {1} /\ v # {}
    BY <1>7 DEF Abort, Killed
  <2>2. TestKdz(file, phone) = -2
    BY <1>5, <1>7, <2>1
  <2>3. ~ good
    BY <1>3, <1>7 DEF Killed
  <2> QED
    BY <1>4, <2>2, <2>3 DEF good
<1>8. CASE v \in SUBSET {1, 2}
  <2>1. v # Abort /\ v # Killed /\ \A level \in v : fits(level)
    BY <1>2, <1>8 DEF Abort, Killed
  <2>2. CASE 2 \in v
    <3>1. TestKdz(file, phone) = 2
      BY <1>5, <2>1, <2>2
    <3> QED
      BY <1>4, <2>1, <2>2, <3>1
  <2>3. CASE v = {1}
    <3>1. TestKdz(file, phone) = 1
      BY <1>5, <2>1, <2>3
    <3>2. good => ~ fits(2)
      BY <1>3, <2>3
    <3> QED
      BY <1>4, <2>1, <2>3, <3>1, <3>2 DEF good
  <2>4. CASE v = {}
    <3>1. TestKdz(file, phone) = 0
      BY <1>5, <2>1, <2>4
    <3>2. good => ~ fits(1) /\ ~ fits(2)
      BY <1>3, <2>4
    <3> QED
      BY <1>4, <3>1, <3>2 DEF good
  <2> QED
    BY <1>8, <2>2, <2>3, <2>4
<1> QED
  BY <1>2, <1>6, <1>7, <1>8

LEMMA OutcomeMeans ==
  ASSUME NEW o \in Outcomes
  PROVE  /\ o.verdict \in -2 .. 2
         /\ Worth(o) \in Worths
         /\ Worth(o).fit \in 0 .. 2
         /\ o.verdict > 0 => Worth(o).fit >= o.verdict
         /\ o.verdict >= Worth(o).fit \/ ~ Worth(o).judgeable \/ ~ Worth(o).handled
<1>1. PICK p \in Phones :
        o \in {[verdict |-> TestKdz(f, p), fit |-> Fit(f, p), judgeable |-> Judgeable(f),
                handled |-> Handled(f, p)]
                 : f \in {f \in KdzFiles : Possible(f, p)}}
  BY DEF Outcomes
<1>2. PICK f \in KdzFiles :
        o = [verdict |-> TestKdz(f, p), fit |-> Fit(f, p), judgeable |-> Judgeable(f),
             handled |-> Handled(f, p)]
  BY <1>1
<1>3. Judgeable(f) \in BOOLEAN /\ Handled(f, p) \in BOOLEAN
  BY DEF Judgeable, Handled
<1>4. /\ o.verdict = TestKdz(f, p)
      /\ Worth(o) = [fit |-> Fit(f, p), judgeable |-> Judgeable(f),
                      handled |-> Handled(f, p)]
  BY <1>2 DEF Worth
<1> QED
  BY <1>3, <1>4, VerdictMeans DEF Worths

------------------------------------------------------------------------------
(* The kernel modules are in memory before the system slice is overwritten. *)

\* Until read_kmods() has read them, the modules are those the run began with.
Unread == {"options", "confirm", "action", "exclusive", "system", "readkmods"}

UntouchedInv == pc \in Unread => modules = modules0
HeldInv      == pc = "writesystem" /\ savekmods => kmods = modules0
TargetInv    == \A t \in Targets : t \in DOMAIN target

SavedInv == UntouchedInv /\ HeldInv /\ TargetInv

------------------------------------------------------------------------------

LEMMA InitSaved == Init => SavedInv
  BY DEF Init, SavedInv, UntouchedInv, HeldInv, TargetInv, Unread, Targets

\* After Exit and Kill the program is idle, where the first two parts say nothing.
LEMMA StepSaved == SavedInv /\ [Next]_vars => SavedInv'
<1> SUFFICES ASSUME SavedInv, [Next]_vars PROVE SavedInv'
  OBVIOUS
<1> USE DEF SavedInv, UntouchedInv, HeldInv, TargetInv, Unread, machine, history
<1>1. CASE Start
  BY <1>1 DEF Start, Targets
<1>2. ASSUME NEW opt \in Options, ParseOption(opt) PROVE SavedInv'
  BY <1>2 DEF ParseOption, Exit, Stop
<1>3. CASE OpenKdz
  BY <1>3 DEF OpenKdz, Exit, Stop
<1>4. CASE Confirm
  BY <1>4 DEF Confirm, Exit, Stop
<1>5. CASE ReadOnly
  BY <1>5 DEF ReadOnly, Exit, Stop
<1>6. CASE Test
  BY <1>6 DEF Test, Stop
<1>7. CASE Exclusive
  BY <1>7 DEF Exclusive, Exit, Stop
<1>8. CASE SkipSystem
  BY <1>8 DEF SkipSystem, Goto
<1>9. CASE NoSaving
  BY <1>9 DEF NoSaving, Goto
<1>10. CASE ReadKmodsMount
  BY <1>10 DEF ReadKmodsMount, Goto, Exit, Stop
<1>11. CASE ReadKmodsFails
  BY <1>11 DEF ReadKmodsFails, Exit, Stop
<1>12. CASE ReadKmods
  BY <1>12 DEF ReadKmods
<1>13. CASE WriteSystem
  BY <1>13 DEF WriteSystem
<1>14. CASE WriteKmodsFails
  BY <1>14 DEF WriteKmodsFails
<1>15. CASE WriteKmods
  BY <1>15 DEF WriteKmods
<1>16. CASE WriteOthers
  BY <1>16 DEF WriteOthers, Exit, Stop
<1>17. CASE Kill
  BY <1>17 DEF Kill, Exit, Stop
<1>18. CASE Busy
  BY <1>18 DEF Busy
<1>19. CASE UNCHANGED vars
  BY <1>19 DEF vars
<1> QED
  BY <1>1, <1>2, <1>3, <1>4, <1>5, <1>6, <1>7, <1>8, <1>9, <1>10, <1>11, <1>12,
     <1>13, <1>14, <1>15, <1>16, <1>17, <1>18, <1>19 DEF Next

------------------------------------------------------------------------------

\* What one step may do to the system slice.
Saved == pc # "idle" /\ savekmods /\ target'.system # target.system => kmods = modules0

\* Only write_kdzfile() changes it: -P writes other targets, and the other slices
\* come after it.
LEMMA StepKeepsSystem ==
  SavedInv /\ [Next]_vars => Saved
<1> SUFFICES ASSUME SavedInv, [Next]_vars,
                    pc # "idle", savekmods, target'.system # target.system
             PROVE  kmods = modules0
  BY DEF Saved
<1> USE DEF SavedInv, machine
<1>1. CASE WriteSystem
  BY <1>1 DEF WriteSystem, HeldInv
<1>2. CASE Exclusive
  BY <1>2 DEF Exclusive, TargetInv, Targets
<1>3. CASE WriteOthers
  <2>1. "system" \in Targets
    BY DEF Targets
  <2>2. target'["system"] = target["system"]
    BY <1>3, <2>1 DEF WriteOthers
  <2> QED
    BY <2>2
<1>4. ASSUME ~WriteSystem, ~Exclusive, ~WriteOthers PROVE target' = target
  BY <1>4 DEF Next, vars, Start, ParseOption, OpenKdz, Confirm, ReadOnly, Test,
              SkipSystem, NoSaving, ReadKmodsMount, ReadKmodsFails, ReadKmods,
              WriteKmodsFails, WriteKmods, Kill, Busy
<1> QED
  BY <1>1, <1>2, <1>3, <1>4

\* The modules of the system slice are overwritten only when a copy of them is
\* in memory (kdzwriter.c:322-331), for every set of KDZ files and phones.
THEOREM ModulesSaved == Spec => SavedBeforeOverwritten
<1>1. Spec => []SavedInv
  BY InitSaved, StepSaved, PTL DEF Spec
<1>2. SavedInv /\ [Next]_vars => [Saved]_vars
  BY StepKeepsSystem
<1>3. [Saved]_vars <=> [ pc # "idle" /\ savekmods /\ target'.system # target.system =>
        kmods = modules0 ]_vars
  BY DEF Saved
<1> QED
  BY <1>1, <1>2, <1>3, PTL DEF Spec, SavedBeforeOverwritten

------------------------------------------------------------------------------
(* Types. *)

LEMMA InitType == Init => TypeOK
<1> SUFFICES ASSUME Init PROVE TypeOK
  OBVIOUS
<1>1. target \in [Targets -> {"old", "torn", "kdz"}]
  BY DEF Init
<1>2. argv \in Seq(Options) /\ Len(argv) <= MaxOptions
  BY KdzWriterAssumption DEF Init
<1>3. found \in Worths
  BY DEF Init, Untested, Worths
<1> QED
  BY <1>1, <1>2, <1>3 DEF Init, TypeOK, ModuleSets, Worths

LEMMA StopType ==
  ASSUME TypeOK, NEW status \in {-2, -1, 0, 1, 2, 7, 8, 64, 128}, Stop(status),
         found' \in Worths,
         target' \in [Targets -> {"old", "torn", "kdz"}],
         modules' \in ModuleSets \cup {"none"},
         {mnt', lazy'} \subseteq {"no", "ro", "rw"}, clock' \in {"right", "set"},
         busy' \in BOOLEAN, busy' => mnt' # "no" \/ lazy' # "no", lazy' # "no" => busy'
  PROVE  TypeOK'
<1>1. argv' \in Seq(Options) /\ Len(argv') <= MaxOptions
  BY KdzWriterAssumption DEF Stop
<1> QED
  BY <1>1 DEF Stop, TypeOK, history, ModuleSets, Worths

LEMMA StepType == TypeOK /\ [Next]_vars => TypeOK'
<1> SUFFICES ASSUME TypeOK, [Next]_vars PROVE TypeOK'
  OBVIOUS
<1> USE DEF machine, history, simulate
<1>0. /\ target \in [Targets -> {"old", "torn", "kdz"}]
      /\ found \in Worths
      /\ modules \in ModuleSets \cup {"none"}
      /\ {mnt, lazy} \subseteq {"no", "ro", "rw"} /\ clock \in {"right", "set"}
      /\ busy \in BOOLEAN /\ (busy => mnt # "no" \/ lazy # "no") /\ (lazy # "no" => busy)
      /\ argv \in Seq(Options) /\ Len(argv) <= MaxOptions /\ MaxOptions \in Nat
      /\ <<>> \in Seq(Options) /\ Len(<<>>) = 0
  BY KdzWriterAssumption DEF TypeOK, ModuleSets, Worths
\* Leaving without a trace.
<1>1. ASSUME NEW status \in {-2, -1, 0, 1, 2, 7, 8, 64, 128}, Exit(status), UNCHANGED machine
      PROVE  TypeOK'
  BY <1>0, <1>1, StopType DEF Exit
<1>2. ASSUME NEW label \in {"others", "writesystem", "readkmods"}, Goto(label),
             label = "writesystem" => ~ savekmods, UNCHANGED machine
      PROVE  TypeOK'
  BY <1>2 DEF Goto, TypeOK
<1>3. CASE Start
  <2>1. target' \in [Targets -> {"old", "torn", "kdz"}]
    BY <1>3 DEF Start
  <2>2. found' \in Worths
    BY <1>3 DEF Start, Untested, Worths
  <2> QED
    BY <1>3, <2>1, <2>2 DEF Start, TypeOK, ModuleSets, Worths
<1>4. ASSUME NEW opt \in Options, ParseOption(opt) PROVE TypeOK'
  <2>1. CASE Exit(1)
    BY <1>1, <1>4, <2>1 DEF ParseOption
  <2>2. CASE ~ Exit(1)
    <3>1. argv' \in Seq(Options) /\ Len(argv') <= MaxOptions
      BY <1>0, <1>4, <2>2 DEF ParseOption
    <3>2. Bits(opt) \subseteq {"TEST", "READ", "WRITE", "SHARED", "EXCLUSIVE", "1", "2", "4",
                               "8", "10", "80"}
      BY <1>4 DEF Bits, Options, SharWrite, ExclWrite
    <3>3. mode' = mode \cup Bits(opt)
      BY <1>4, <2>2 DEF ParseOption
    <3>4. savekmods' \in BOOLEAN
      BY <1>4, <2>2 DEF ParseOption, TypeOK
    <3>5. pc = "options" /\ UNCHANGED <<pc, kmods, ret, machine, history, found>>
      BY <1>4, <2>2 DEF ParseOption
    <3> QED
      BY <3>1, <3>2, <3>3, <3>4, <3>5 DEF TypeOK
  <2> QED
    BY <2>1, <2>2
<1>5. CASE OpenKdz
  <2>1. CASE Exit(1)
    BY <1>1, <1>5, <2>1 DEF OpenKdz
  <2>2. CASE ~ Exit(1)
    <3>1. argv' \in Seq(Options) /\ Len(argv') <= MaxOptions
      <4>1. argv' = <<>>
        BY <1>5, <2>2 DEF OpenKdz
      <4> QED
        BY <1>0, <4>1
    <3>2. /\ pc' \in {"confirm", "action"}
          /\ UNCHANGED <<mode, savekmods, kmods, ret, history, found, machine>>
      BY <1>5, <2>2 DEF OpenKdz
    <3> QED
      BY <3>1, <3>2 DEF TypeOK
  <2> QED
    BY <2>1, <2>2
<1>6. CASE Confirm
  <2>1. CASE Exit(64)
    BY <1>1, <1>6, <2>1 DEF Confirm
  <2>2. CASE ~ Exit(64)
    <3>1. /\ pc' = "action" /\ confirmed' = TRUE
          /\ UNCHANGED <<argv, mode, savekmods, kmods, ret, modules0, mnt0, found, machine>>
      BY <1>6, <2>2 DEF Confirm
    <3> QED
      BY <3>1 DEF TypeOK
  <2> QED
    BY <2>1, <2>2
<1>7. CASE ReadOnly
  <2>1. CASE \E status \in {0, 1, 128} : Exit(status)
    BY <1>1, <1>7, <2>1 DEF ReadOnly
  <2>2. CASE \E o \in Outcomes : Stop(o.verdict) /\ found' = Worth(o)
    <3>1. PICK o \in Outcomes : Stop(o.verdict) /\ found' = Worth(o)
      BY <2>2
    <3>2. o.verdict \in {-2, -1, 0, 1, 2} /\ found' \in Worths
      BY <3>1, OutcomeMeans DEF Worths
    <3>3. UNCHANGED machine
      BY <1>7 DEF ReadOnly
    <3> QED
      BY <1>0, <3>1, <3>2, <3>3, StopType
  <2> QED
    BY <1>7, <2>1, <2>2 DEF ReadOnly
<1>8. CASE Test
  <2>1. PICK o \in Outcomes :
          /\ found' = Worth(o)
          /\ \/ o.verdict = -2 /\ Stop(-2)
             \/ o.verdict \in -1 .. Needed - 1 /\ Stop(8)
             \/ /\ o.verdict >= Needed
                /\ pc' = IF Shared THEN "system" ELSE "exclusive"
                /\ UNCHANGED <<argv, mode, savekmods, kmods, ret, history>>
    BY <1>8 DEF Test
  <2>2. UNCHANGED machine /\ found' \in Worths
    BY <1>8, <2>1, OutcomeMeans DEF Test, Worths
  <2>3. CASE Stop(-2) \/ Stop(8)
    BY <1>0, <2>2, <2>3, StopType
  <2>4. CASE /\ pc' = IF Shared THEN "system" ELSE "exclusive"
             /\ UNCHANGED <<argv, mode, savekmods, kmods, ret, history>>
    BY <2>2, <2>4 DEF TypeOK, ModuleSets, Worths
  <2> QED
    BY <2>1, <2>3, <2>4
<1>9. CASE Exclusive
  <2>1. target' \in [Targets -> {"old", "torn", "kdz"}]
    BY <1>0, <1>9 DEF Exclusive
  <2>2. /\ UNCHANGED <<modules, mnt, lazy, busy, clock, found>>
        /\ Stop(0) \/ Stop(1)
    BY <1>9 DEF Exclusive, Exit
  <2> QED
    BY <1>0, <2>1, <2>2, StopType
<1>10. CASE SkipSystem
  BY <1>2, <1>10 DEF SkipSystem
<1>11. CASE NoSaving
  BY <1>2, <1>11 DEF NoSaving
<1>12. CASE ReadKmodsMount
  <2>1. CASE Goto("readkmods")
    BY <1>0, <1>12, <2>1 DEF ReadKmodsMount, Goto, TypeOK
  <2>2. CASE Exit(64)
    <3>1. /\ {mnt', lazy'} \subseteq {"no", "ro", "rw"}
          /\ busy' => mnt' # "no" \/ lazy' # "no"
          /\ lazy' # "no" => busy'
          /\ UNCHANGED <<target, modules, busy, clock, found>>
      BY <1>0, <1>12, <2>2 DEF ReadKmodsMount, Exit, Goto, Stop
    <3> QED
      BY <1>0, <2>2, <3>1, StopType DEF Exit
  <2> QED
    BY <1>12, <2>1, <2>2 DEF ReadKmodsMount
<1>13. CASE ReadKmodsFails
  <2>1. /\ mnt' \in {"no", "ro", "rw"}
        /\ busy => mnt' # "no" \/ lazy # "no"
        /\ UNCHANGED <<target, modules, lazy, busy, clock, found>>
        /\ Stop(64)
    BY <1>0, <1>13 DEF ReadKmodsFails, Exit, Unused
  <2> QED
    BY <1>0, <2>1, StopType
<1>14. CASE ReadKmods
  <2>1. /\ mnt' \in {"no", "ro", "rw"}
        /\ busy => mnt' # "no" \/ lazy # "no"
    BY <1>0, <1>14 DEF ReadKmods, Unused
  <2> QED
    BY <1>14, <2>1 DEF ReadKmods, TypeOK
<1>15. CASE WriteSystem
  <2>1. target' \in [Targets -> {"old", "torn", "kdz"}]
    BY <1>0, <1>15 DEF WriteSystem
  <2>2. modules' \in ModuleSets \cup {"none"}
    BY <1>0, <1>15 DEF WriteSystem, StockModules, ModuleSets
  <2> QED
    <3>1. /\ pc = "writesystem" /\ pc' = IF savekmods THEN "writekmods" ELSE "others"
          /\ UNCHANGED <<argv, mode, savekmods, kmods, history, found, mnt, lazy, busy, clock>>
          /\ ret' \in {ret, 7}
      BY <1>15 DEF WriteSystem
    <3> QED
      BY <2>1, <2>2, <3>1 DEF TypeOK, ModuleSets, Worths
<1>16. CASE WriteKmodsFails
  BY <1>16 DEF WriteKmodsFails, TypeOK, ModuleSets, Beside
<1>17. CASE WriteKmods
  BY <1>17 DEF WriteKmods, TypeOK, ModuleSets, Beside
<1>18. CASE WriteOthers
  <2>1. /\ target' \in [Targets -> {"old", "torn", "kdz"}]
        /\ UNCHANGED <<modules, mnt, lazy, busy, clock, found>>
        /\ Stop(ret) /\ ret \in {-2, -1, 0, 1, 2, 7, 8, 64, 128}
    BY <1>18 DEF WriteOthers, Exit, TypeOK
  <2> QED
    BY <1>0, <2>1, StopType
<1>19. CASE Kill
  BY <1>1, <1>19 DEF Kill
<1>20. CASE Busy
  <2>1. /\ UNCHANGED <<pc, argv, mode, savekmods, kmods, ret, target, modules, mnt, clock,
                        history, found>>
        /\ busy' \in BOOLEAN /\ lazy' \in {"no", "ro", "rw"}
        /\ busy' => mnt # "no" \/ lazy' # "no"
        /\ lazy' # "no" => busy'
    BY <1>0, <1>20 DEF Busy
  <2> QED
    BY <2>1 DEF TypeOK
<1>21. CASE UNCHANGED vars
  <2>1. UNCHANGED <<pc, argv, mode, savekmods, kmods, ret, found>>
    BY <1>21 DEF vars
  <2>2. UNCHANGED machine /\ UNCHANGED history
    BY <1>21 DEF vars
  <2> QED
    BY <2>1, <2>2 DEF TypeOK
<1> QED
  BY <1>3, <1>4, <1>5, <1>6, <1>7, <1>8, <1>9, <1>10, <1>11, <1>12, <1>13, <1>14, <1>15,
     <1>16, <1>17, <1>18, <1>19, <1>20, <1>21 DEF Next

\* The model of kdzwriter.c is well typed, and somebody who uses /system uses a
\* mounted one, for every set of KDZ files and phones.
THEOREM TypeCorrect == Spec => []TypeOK
  BY InitType, StepType, PTL DEF Spec

------------------------------------------------------------------------------
(* What is written is asked for, and what is refused is for a reason. *)

\* After test_kdzfile().
Tested == {"exclusive", "system", "readkmods", "writesystem", "writekmods", "others"}

ConsentInv ==
  /\ pc \in Tested \/ (pc = "action" /\ "WRITE" \in mode) => confirmed \/ simulate
  /\ pc \in Tested => found.fit >= Needed

\* A result of 8 is one of test_kdzfile()'s, and the last of its run.
RefusedInv ==
  /\ pc # "idle" => ret # 8
  /\ RefusedForCause

JudgedInv == ConsentInv /\ RefusedInv

LEMMA InitJudged == Init => JudgedInv
  BY DEF Init, JudgedInv, ConsentInv, RefusedInv, RefusedForCause, Tested

LEMMA StepJudged == TypeOK /\ JudgedInv /\ [Next]_vars => JudgedInv'
<1> SUFFICES ASSUME TypeOK, JudgedInv, [Next]_vars PROVE JudgedInv'
  OBVIOUS
<1> USE DEF machine, history, simulate, Tested
\* Leaving for other reasons.
<1>1. ASSUME NEW status, status # 8, Stop(status) PROVE JudgedInv'
  BY <1>1 DEF Stop, JudgedInv, ConsentInv, RefusedInv, RefusedForCause
\* Going on.
<1>2. ASSUME ret' # 8, UNCHANGED <<mode, confirmed, found>>,
             pc' \in Tested => pc \in Tested,
             pc' = "action" /\ "WRITE" \in mode => confirmed \/ simulate
      PROVE  JudgedInv'
  BY <1>2 DEF JudgedInv, ConsentInv, RefusedInv, RefusedForCause, Needed
<1>3. pc # "idle" => ret # 8
  BY DEF JudgedInv, RefusedInv
<1>4. CASE Start
  BY <1>4 DEF Start, JudgedInv, ConsentInv, RefusedInv, RefusedForCause
<1>5. ASSUME NEW opt \in Options, ParseOption(opt) PROVE JudgedInv'
  <2>1. CASE Exit(1)
    BY <1>1, <2>1 DEF Exit
  <2>2. CASE ~ Exit(1)
    <3>1. pc' = "options" /\ ret' = ret /\ ret # 8
      BY <1>3, <1>5, <2>2 DEF ParseOption
    <3> QED
      BY <3>1 DEF JudgedInv, ConsentInv, RefusedInv, RefusedForCause
  <2> QED
    BY <2>1, <2>2
<1>6. CASE OpenKdz
  <2>1. CASE Exit(1)
    BY <1>1, <2>1 DEF Exit
  <2>2. CASE ~ Exit(1)
    <3>1. /\ pc' = IF "WRITE" \in mode /\ ~simulate THEN "confirm" ELSE "action"
          /\ ret' = ret /\ ret # 8 /\ UNCHANGED <<mode, confirmed, found>>
      BY <1>3, <1>6, <2>2 DEF OpenKdz
    <3> QED
      BY <1>2, <3>1
  <2> QED
    BY <2>1, <2>2
<1>7. CASE Confirm
  <2>1. CASE Exit(64)
    BY <1>1, <2>1 DEF Exit
  <2>2. CASE ~ Exit(64)
    <3>1. pc' = "action" /\ confirmed' = TRUE /\ ret' = ret /\ ret # 8
      BY <1>3, <1>7, <2>2 DEF Confirm
    <3> QED
      BY <3>1 DEF JudgedInv, ConsentInv, RefusedInv, RefusedForCause
  <2> QED
    BY <2>1, <2>2
<1>8. CASE ReadOnly
  <2>1. \E status : status # 8 /\ Stop(status)
    BY <1>8, OutcomeMeans DEF ReadOnly, Exit
  <2> QED
    BY <1>1, <2>1
<1>9. CASE Test
  <2>1. pc = "action" /\ "WRITE" \in mode
    BY <1>9 DEF Test
  <2>2. confirmed \/ simulate
    BY <2>1 DEF JudgedInv, ConsentInv
  <2>3. PICK o \in Outcomes :
          /\ found' = Worth(o)
          /\ \/ o.verdict = -2 /\ Stop(-2)
             \/ o.verdict \in -1 .. Needed - 1 /\ Stop(8)
             \/ /\ o.verdict >= Needed
                /\ pc' = IF Shared THEN "system" ELSE "exclusive"
                /\ UNCHANGED <<argv, mode, savekmods, kmods, ret, history>>
    BY <1>9 DEF Test
  <2>4. Needed \in {1, 2} /\ o.verdict \in -2 .. 2 /\ found'.fit \in 0 .. 2
    BY <2>3, OutcomeMeans DEF Needed
  <2>5. CASE Stop(-2)
    BY <1>1, <2>5
  <2>6. CASE o.verdict \in -1 .. Needed - 1 /\ Stop(8)
    <3>1. found'.fit < Needed \/ ~ found'.judgeable \/ ~ found'.handled
      BY <2>3, <2>4, <2>6, OutcomeMeans
    <3>2. pc' = "idle" /\ mode' = mode
      BY <2>6 DEF Stop
    <3>3. Needed' = Needed
      BY <3>2 DEF Needed
    <3> QED
      BY <3>1, <3>2, <3>3 DEF JudgedInv, ConsentInv, RefusedInv, RefusedForCause
  <2>7. CASE /\ o.verdict >= Needed
             /\ pc' = IF Shared THEN "system" ELSE "exclusive"
             /\ UNCHANGED <<argv, mode, savekmods, kmods, ret, history>>
    <3>1. found'.fit >= Needed
      BY <2>3, <2>4, <2>7, OutcomeMeans
    <3>2. Needed' = Needed
      BY <2>7 DEF Needed
    <3>3. ret' # 8
      BY <1>3, <2>1, <2>7
    <3> QED
      BY <2>2, <2>7, <3>1, <3>2, <3>3 DEF JudgedInv, ConsentInv, RefusedInv, RefusedForCause
  <2> QED
    BY <2>3, <2>5, <2>6, <2>7
<1>10. CASE Exclusive
  BY <1>1, <1>10 DEF Exclusive, Exit
<1>11. CASE SkipSystem
  BY <1>2, <1>3, <1>11 DEF SkipSystem, Goto
<1>12. CASE NoSaving
  BY <1>2, <1>3, <1>12 DEF NoSaving, Goto
<1>13. CASE ReadKmodsMount
  <2>1. CASE Goto("readkmods")
    BY <1>2, <1>3, <1>13, <2>1 DEF ReadKmodsMount, Goto
  <2>2. CASE Exit(64)
    BY <1>1, <2>2 DEF Exit
  <2> QED
    BY <1>13, <2>1, <2>2 DEF ReadKmodsMount
<1>14. CASE ReadKmodsFails
  BY <1>1, <1>14 DEF ReadKmodsFails, Exit
<1>15. CASE ReadKmods
  BY <1>2, <1>3, <1>15 DEF ReadKmods
<1>16. CASE WriteSystem
  BY <1>2, <1>3, <1>16 DEF WriteSystem
<1>17. CASE WriteKmodsFails
  BY <1>2, <1>3, <1>17 DEF WriteKmodsFails
<1>18. CASE WriteKmods
  BY <1>2, <1>3, <1>18 DEF WriteKmods
<1>19. CASE WriteOthers
  BY <1>1, <1>3, <1>19 DEF WriteOthers, Exit
<1>20. CASE Kill
  BY <1>1, <1>20 DEF Kill, Exit
<1>21. CASE Busy
  BY <1>21 DEF Busy, JudgedInv, ConsentInv, RefusedInv, RefusedForCause, Needed
<1>22. CASE UNCHANGED vars
  BY <1>22 DEF vars, JudgedInv, ConsentInv, RefusedInv, RefusedForCause, Needed
<1> QED
  BY <1>4, <1>5, <1>6, <1>7, <1>8, <1>9, <1>10, <1>11, <1>12, <1>13, <1>14, <1>15,
     <1>16, <1>17, <1>18, <1>19, <1>20, <1>21, <1>22 DEF Next

LEMMA Judged == Spec => [](TypeOK /\ JudgedInv)
  BY InitType, StepType, InitJudged, StepJudged, PTL DEF Spec

\* A KDZ file is refused (kdzwriter.c:266-317) only when it does not fit the phone,
\* is damaged, or is one that test_kdzfile() cannot cope with in the ways Handled
\* lists, for every set of KDZ files and phones.
THEOREM RefusesForCause == Spec => []RefusedForCause
<1>1. JudgedInv => RefusedForCause
  BY DEF JudgedInv, RefusedInv
<1> QED
  BY <1>1, Judged, PTL

\* What one step may write.
Consented ==
  pc # "idle" /\ (target' # target \/ modules' # modules) =>
    /\ confirmed /\ ~simulate
    /\ found.fit >= IF target'.gpts # target.gpts THEN 2 ELSE 1

LEMMA StepConsented == TypeOK /\ JudgedInv /\ [Next]_vars => Consented
<1> SUFFICES ASSUME TypeOK, JudgedInv, [Next]_vars, pc # "idle",
                    target' # target \/ modules' # modules
             PROVE  /\ confirmed /\ ~simulate
                    /\ found.fit >= IF target'.gpts # target.gpts THEN 2 ELSE 1
  BY DEF Consented
<1> USE DEF machine
<1>0. /\ target \in [Targets -> {"old", "torn", "kdz"}] /\ found.fit \in 0 .. 2
      /\ Needed \in {1, 2}
  BY DEF TypeOK, Needed, ModuleSets, Worths
<1>1. ASSUME pc \in Tested, ~ simulate,
             target'.gpts # target.gpts => Needed = 2
      PROVE  /\ confirmed /\ ~simulate
             /\ found.fit >= IF target'.gpts # target.gpts THEN 2 ELSE 1
  BY <1>0, <1>1 DEF JudgedInv, ConsentInv
<1>2. "gpts" \in Selected => Needed = 2
  BY DEF Selected, Needed, Kind, ExclWrite, SharWrite
<1>3. CASE Exclusive
  <2>1. pc \in Tested /\ modules' = modules
    BY <1>3 DEF Exclusive, Tested
  <2>2. ~ simulate /\ "gpts" \in Selected
    BY <1>3, <2>1 DEF Exclusive
  <2> QED
    BY <1>1, <1>2, <2>1, <2>2
<1>4. CASE WriteSystem
  <2>1. pc \in Tested /\ ~ simulate
    BY <1>4 DEF WriteSystem, Tested
  <2>2. target'.gpts = target.gpts
    BY <1>0, <1>4 DEF WriteSystem, Targets
  <2> QED
    BY <1>1, <2>1, <2>2
<1>5. CASE WriteKmodsFails
  BY <1>1, <1>5 DEF WriteKmodsFails, Tested
<1>6. CASE WriteKmods
  BY <1>1, <1>6 DEF WriteKmods, Tested
<1>7. CASE WriteOthers
  <2>1. /\ pc \in Tested /\ modules' = modules
        /\ target' \in [Targets -> {"old", "torn", "kdz"}]
        /\ \A s \in Targets :
             target'[s] = target[s] \/ (s \in Selected \ {"system"} /\ ~simulate)
    BY <1>7 DEF WriteOthers, Tested
  <2>2. \E s \in Targets : target'[s] # target[s]
    BY <1>0, <2>1
  <2>3. ~ simulate
    BY <2>1, <2>2
  <2>4. target'.gpts # target.gpts => Needed = 2
    BY <1>2, <2>1 DEF Targets
  <2> QED
    BY <1>1, <2>1, <2>3, <2>4
<1>8. ASSUME ~ Exclusive, ~ WriteSystem, ~ WriteKmodsFails, ~ WriteKmods, ~ WriteOthers
      PROVE  target' = target /\ modules' = modules
  BY <1>8 DEF Next, vars, Start, ParseOption, OpenKdz, Confirm, ReadOnly, Test,
              SkipSystem, NoSaving, ReadKmodsMount, ReadKmodsFails, ReadKmods, Kill, Busy
<1> QED
  BY <1>3, <1>4, <1>5, <1>6, <1>7, <1>8

\* Nothing is written, and no module restored, without the user's yes, in a
\* simulated run, or from a KDZ file that is not one for the phone
\* (kdzwriter.c:187-317), for every set of KDZ files and phones.
THEOREM WritesByConsent == Spec => ConsentedWrites
<1>1. TypeOK /\ JudgedInv /\ [Next]_vars => [Consented]_vars
  BY StepConsented
<1>2. [Consented]_vars <=>
        [ pc # "idle" /\ (target' # target \/ modules' # modules) =>
            /\ confirmed /\ ~simulate
            /\ found.fit >= IF target'.gpts # target.gpts THEN 2 ELSE 1 ]_vars
  BY DEF Consented
<1> QED
  BY <1>1, <1>2, Judged, PTL DEF Spec, ConsentedWrites

------------------------------------------------------------------------------
(* Exit status 0. *)

\* What a whole system slice looks like, and with the modules put back.
Rewritten == target.system = "kdz"
Restored  == savekmods /\ KdzHasModules => modules \in Beside(modules0) /\ mnt = "no"

\* As long as nothing has failed.
ExclusiveInv == pc = "exclusive" => ~ Shared
WholeInv ==
  ret = 0 /\ "system" \in Selected /\ ~ simulate =>
    /\ pc = "writekmods" => /\ Rewritten /\ modules = StockModules
                            /\ kmods = modules0 /\ mnt = "no" /\ savekmods
    /\ pc \in {"others", "idle"} => Rewritten /\ Restored

ZeroInv == ExclusiveInv /\ WholeInv

\* "system" is selected by -s and -a alone.
LEMMA SystemShared == "system" \in Selected <=> Shared /\ "1" \in mode
  BY DEF Selected, Shared, Kind, SharWrite, ExclWrite, Targets

LEMMA InitZero == Init => ZeroInv
  BY SystemShared DEF Init, ZeroInv, ExclusiveInv, WholeInv, Shared, SharWrite

LEMMA StepZero == TypeOK /\ SavedInv /\ ZeroInv /\ [Next]_vars => ZeroInv'
<1> SUFFICES ASSUME TypeOK, SavedInv, ZeroInv, [Next]_vars PROVE ZeroInv'
  OBVIOUS
<1> USE DEF machine, history
<1> DEFINE wanted == "system" \in Selected /\ ~ simulate
<1>0. /\ TypeOK' /\ target \in [Targets -> {"old", "torn", "kdz"}]
      /\ {mnt, lazy} \subseteq {"no", "ro", "rw"} /\ modules \in ModuleSets \cup {"none"}
  BY StepType DEF TypeOK
<1>1. mode' = mode => (wanted' <=> wanted)
  BY DEF Selected, Shared, Kind, simulate
<1>2. mode' = mode => (Shared' <=> Shared)
  BY DEF Shared
<1> HIDE DEF wanted
\* Leaving with another result, or with nothing to do with the system slice.
<1>3. ASSUME NEW status, Stop(status), status # 0 \/ ~ wanted PROVE ZeroInv'
  BY <1>1, <1>3 DEF Stop, ZeroInv, ExclusiveInv, WholeInv, wanted
<1>4. ASSUME mode' = mode, pc' \notin {"exclusive", "writekmods", "others", "idle"}
      PROVE  ZeroInv'
  BY <1>4 DEF ZeroInv, ExclusiveInv, WholeInv
<1>5. CASE Start
  BY <1>5 DEF Start, ZeroInv, ExclusiveInv, WholeInv
<1>6. ASSUME NEW opt \in Options, ParseOption(opt) PROVE ZeroInv'
  <2>1. CASE Exit(1)
    BY <1>3, <2>1 DEF Exit
  <2>2. CASE ~ Exit(1)
    <3>1. pc' = "options"
      BY <1>6, <2>2 DEF ParseOption
    <3> QED
      BY <3>1 DEF ZeroInv, ExclusiveInv, WholeInv
  <2> QED
    BY <2>1, <2>2
<1>7. CASE OpenKdz
  <2>1. CASE Exit(1)
    BY <1>3, <2>1 DEF Exit
  <2>2. CASE ~ Exit(1)
    BY <1>4, <1>7, <2>2 DEF OpenKdz
  <2> QED
    BY <2>1, <2>2
<1>8. CASE Confirm
  <2>1. CASE Exit(64)
    BY <1>3, <2>1 DEF Exit
  <2>2. CASE ~ Exit(64)
    BY <1>4, <1>8, <2>2 DEF Confirm
  <2> QED
    BY <2>1, <2>2
<1>9. CASE ReadOnly
  <2>1. ~ wanted
    BY <1>9, SystemShared DEF ReadOnly, Shared, SharWrite, wanted
  <2>2. \E status : Stop(status)
    BY <1>9 DEF ReadOnly, Exit
  <2> QED
    BY <1>3, <2>1, <2>2
<1>10. CASE Test
  <2>1. CASE \E status \in {-2, 8} : Stop(status)
    BY <1>3, <2>1
  <2>2. CASE /\ pc' = IF Shared THEN "system" ELSE "exclusive"
             /\ UNCHANGED <<argv, mode, savekmods, kmods, ret, history>>
    BY <1>2, <2>2 DEF ZeroInv, ExclusiveInv, WholeInv
  <2> QED
    BY <1>10, <2>1, <2>2 DEF Test
<1>11. CASE Exclusive
  <2>1. ~ wanted
    BY <1>11, SystemShared DEF Exclusive, ZeroInv, ExclusiveInv, wanted
  <2>2. \E status : Stop(status)
    BY <1>11 DEF Exclusive, Exit
  <2> QED
    BY <1>3, <2>1, <2>2
<1>12. CASE SkipSystem
  <2>1. pc' = "others" /\ mode' = mode /\ ~ wanted
    BY <1>12 DEF SkipSystem, Goto, wanted
  <2> QED
    BY <1>1, <2>1 DEF ZeroInv, ExclusiveInv, WholeInv, wanted
<1>13. CASE NoSaving
  BY <1>4, <1>13 DEF NoSaving, Goto
<1>14. CASE ReadKmodsMount
  <2>1. CASE Goto("readkmods")
    BY <1>4, <2>1 DEF Goto
  <2>2. CASE Exit(64)
    BY <1>3, <2>2 DEF Exit
  <2> QED
    BY <1>14, <2>1, <2>2 DEF ReadKmodsMount
<1>15. CASE ReadKmodsFails
  BY <1>3, <1>15 DEF ReadKmodsFails, Exit
<1>16. CASE ReadKmods
  BY <1>4, <1>16 DEF ReadKmods
<1>17. CASE WriteSystem
  <2>1. /\ pc = "writesystem" /\ pc' = IF savekmods THEN "writekmods" ELSE "others"
        /\ UNCHANGED <<mode, savekmods, kmods, mnt, modules0>>
    BY <1>17 DEF WriteSystem
  <2>2. savekmods => kmods = modules0
    BY <2>1 DEF SavedInv, HeldInv
  <2>3. ASSUME wanted, ret' = 0
        PROVE  target'.system = "kdz" /\ modules' = StockModules /\ mnt' = "no"
    BY <1>0, <1>17, <2>3 DEF WriteSystem, wanted, Targets
  <2>4. savekmods' = savekmods /\ kmods' = kmods /\ modules0' = modules0
    BY <2>1
  <2> QED
    BY <1>1, <2>1, <2>2, <2>3, <2>4
       DEF ZeroInv, ExclusiveInv, WholeInv, Rewritten, Restored, StockModules, wanted
<1>18. CASE WriteKmodsFails
  BY <1>18 DEF WriteKmodsFails, ZeroInv, ExclusiveInv, WholeInv
<1>19. CASE WriteKmods
  <2>1. /\ pc = "writekmods" /\ pc' = "others"
        /\ UNCHANGED <<mode, savekmods, ret, mnt, modules0, target>>
    BY <1>19 DEF WriteKmods
  <2>2. ASSUME wanted, ret = 0
        PROVE  /\ target.system = "kdz" /\ mnt = "no"
               /\ KdzHasModules => modules' \in Beside(modules0)
    <3>1. /\ target.system = "kdz" /\ modules = StockModules
          /\ kmods = modules0 /\ mnt = "no"
      BY <2>1, <2>2 DEF ZeroInv, WholeInv, Rewritten, wanted
    <3>2. KdzHasModules => modules' \in Beside(kmods)
      BY <1>19, <2>2, <3>1 DEF WriteKmods, StockModules, wanted
    <3> QED
      BY <3>1, <3>2
  <2> QED
    BY <1>1, <2>1, <2>2 DEF ZeroInv, ExclusiveInv, WholeInv, Rewritten, Restored, wanted
<1>20. CASE WriteOthers
  <2>1. /\ pc = "others" /\ pc' = "idle" /\ ret' = ret
        /\ UNCHANGED <<mode, savekmods, modules, mnt, modules0>>
    BY <1>20 DEF WriteOthers, Exit, Stop
  <2>2. target'.system = target.system
    BY <1>20 DEF WriteOthers, Targets
  <2>3. ASSUME wanted, ret = 0 PROVE Rewritten /\ Restored
    BY <2>1, <2>3 DEF ZeroInv, WholeInv, wanted
  <2> QED
    BY <1>1, <2>1, <2>2, <2>3 DEF ZeroInv, ExclusiveInv, WholeInv, Rewritten, Restored, wanted
<1>21. CASE Kill
  BY <1>3, <1>21 DEF Kill, Exit
<1>22. CASE Busy
  <2>1. UNCHANGED <<pc, mode, savekmods, kmods, ret, target, modules, mnt, modules0>>
    BY <1>22 DEF Busy
  <2> QED
    BY <1>1, <1>2, <2>1 DEF ZeroInv, ExclusiveInv, WholeInv, Rewritten, Restored, wanted
<1>23. CASE UNCHANGED vars
  <2>1. UNCHANGED <<pc, mode, savekmods, kmods, ret, target, modules, mnt, modules0>>
    BY <1>23 DEF vars
  <2> QED
    BY <1>1, <1>2, <2>1 DEF ZeroInv, ExclusiveInv, WholeInv, Rewritten, Restored, wanted
<1> QED
  BY <1>5, <1>6, <1>7, <1>8, <1>9, <1>10, <1>11, <1>12, <1>13, <1>14, <1>15, <1>16,
     <1>17, <1>18, <1>19, <1>20, <1>21, <1>22, <1>23 DEF Next

\* An exit status of 0 after -s means that the system slice was rewritten as a
\* whole and has its modules back (kdzwriter.c:319-340), for every set of KDZ
\* files and phones.
THEOREM ZeroIsWhole == Spec => []ZeroMeansSystem
<1>1. ZeroInv => ZeroMeansSystem
  BY DEF ZeroInv, WholeInv, ZeroMeansSystem, Rewritten, Restored
<1> QED
  BY <1>1, InitType, StepType, InitSaved, StepSaved, InitZero, StepZero, PTL DEF Spec
==============================================================================
