----------------------------- MODULE MCKdzWriter -----------------------------
(* kdzwriter with small KDZ files on phones with two storage devices. *)
EXTENDS KdzWriter

E(name, id, lo, hi) ==
  [name |-> name, type |-> 1, flags |-> 0, id |-> id, lo |-> lo, hi |-> hi]
Zeroed == [name |-> "", type |-> 0, flags |-> 0, id |-> 0, lo |-> 0, hi |-> 0]

\* A copy of a GPT on a device of 32 blocks.
Copy(first, entries) ==
  [head |-> IF Len(entries) = 4 THEN "h4" ELSE "h2",
   my |-> IF first THEN 1 ELSE 31, alt |-> IF first THEN 31 ELSE 1,
   es |-> IF first THEN 2 ELSE 27, ds |-> 6, de |-> 26, entries |-> entries]
Both(entries) == [primary |-> Copy(TRUE, entries), backup |-> Copy(FALSE, entries)]

Stock   == <<E("sec", 1, 6, 7), E("userdata", 2, 8, 20), E("OP", 3, 21, 26), Zeroed>>
NoOp    == <<E("sec", 1, 6, 7), E("userdata", 2, 8, 26), Zeroed, Zeroed>>
XOpx    == [Stock EXCEPT ![3].name = "XOPX"]
NewIds  == [Stock EXCEPT ![1].id = 9, ![2].id = 8]
Moved   == [Stock EXCEPT ![1].hi = 8]
Sdg1    == <<E("frp", 1, 6, 7), Zeroed>>
Sdg2    == <<E("frp", 2, 6, 7), Zeroed>>

\* Phones: as sold, after rmOP, and what an interrupted change of the table or a
\* damaged block leaves.
Phone(sda) == [d \in {0, Sdg} |-> IF d = Sdg THEN Both(Sdg1) ELSE sda]
SixPhones ==
  {Phone(sda) : sda \in
     {Both(Stock), Both(NoOp), Both(XOpx),
      [primary |-> Copy(TRUE, Stock), backup |-> Copy(FALSE, NoOp)],
      [primary |-> Copy(TRUE, Stock), backup |-> Unreadable],
      [Both(Stock) EXCEPT !.backup.alt = 31]}}

Chunk(name, data) ==
  [name |-> name, dev |-> 0, data |-> data, size |-> 1, first |-> TRUE, blocks |-> 6,
   span |-> 5, table |-> Unreadable]
GptChunk(dev, first, t, data, blocks, span) ==
  [Chunk(IF first THEN "PrimaryGPT" ELSE "BackupGPT", data) EXCEPT
     !.dev = dev, !.first = first, !.table = t, !.blocks = blocks, !.span = span]

Usual(first) == IF first THEN 6 ELSE 5

OwnCopies(first) ==
  {IF first THEN p[0].primary ELSE p[0].backup : p \in SixPhones} \ {Unreadable}

\* The KDZ's tables; "same" stands for the very one on the phone.
GptKinds(first) ==
  {GptChunk(0, first, t, "differs", Usual(first), 5) :
     t \in {Copy(first, es) : es \in {Stock, NewIds, Moved}}
            \cup {[Copy(first, Stock) EXCEPT !.head = "other"], Unreadable}}
  \cup {GptChunk(0, first, t, "same", Usual(first), 5) : t \in OwnCopies(first)}
  \cup {GptChunk(0, first, Copy(first, Stock), "differs", blocks, 5) : blocks \in {4, 6}}
  \cup {GptChunk(0, first, Copy(first, Stock), "differs", Usual(first), 6),
        GptChunk(0, first, Copy(first, Stock), "damaged", Usual(first), 5),
        GptChunk(Sdg, first, Copy(first, Sdg2), "differs", Usual(first), 5)}

ChunkKinds ==
  UNION {GptKinds(first) : first \in BOOLEAN}
    \cup {Chunk("sec", data) : data \in {"same", "differs", "damaged", "outside"}}
    \cup {Chunk("laf", data) : data \in {"same", "differs", "damaged"}}
    \cup {Chunk("system", data) : data \in {"differs", "damaged"}}
==============================================================================
