---------------------------- MODULE FixModemProofs ----------------------------
(***************************************************************************)
(* fix-h990-modem: the editing of a command line, for any line and model;  *)
(* what the kernels are told, what a pipe gets, and what happens to misc.  *)
(***************************************************************************)
EXTENDS FixModem, WellFoundedInduction, TLAPS

Lines == {c \in Seq(Word) : c # <<>>}
Entry == [key : Keys, val : Seq(Texts), overwrite : BOOLEAN]

------------------------------------------------------------------------------
(* Find *)

LEMMA Smallest ==
  ASSUME NEW S, S \subseteq Nat, S # {}
  PROVE  \E x \in S : \A y \in S : x <= y
<1> DEFINE R == OpToRel(<, Nat)
<1>1. IsWellFoundedOn(R, Nat)
  BY NatLessThanWellFounded
<1>2. \A x, y \in Nat : x < y => <<x, y>> \in R
  BY DEF OpToRel
<1> HIDE DEF R
<1>3. PICK x \in S : \A y \in S : ~ (<<y, x>> \in R)
  BY <1>1, WFMin
<1>4. ASSUME NEW y \in S PROVE x <= y
  <2>1. x \in Nat /\ y \in Nat /\ ~ (<<y, x>> \in R)
    BY <1>3, <1>4
  <2>2. ~ (y < x)
    BY <1>2, <2>1
  <2> QED
    BY <2>1, <2>2
<1> QED
  BY <1>4

LEMMA LineIs ==
  ASSUME NEW c \in Lines
  PROVE  /\ c \in Seq(Word) /\ Len(c) \in Nat \ {0} /\ DOMAIN c = 1 .. Len(c)
         /\ \A i \in 1 .. Len(c) : c[i] \in Word
BY DEF Lines

\* A word that is found has the key; the one that is, is the first but the first.
LEMMA FindIs ==
  ASSUME NEW c \in Lines, NEW key
  PROVE  /\ Find(c, key) \in 0 .. Len(c)
         /\ Find(c, key) # 0 => c[Find(c, key)].key = key
         /\ Find(c, key) = 0 => \A i \in 1 .. Len(c) : c[i].key # key
         /\ Find(c, key) > 1 => \A i \in 2 .. Find(c, key) - 1 : c[i].key # key
         /\ Find(c, key) = 1 => \A i \in 2 .. Len(c) : c[i].key # key
<1> DEFINE at == {k \in 2 .. Len(c) : c[k].key = key}
           first == CHOOSE k \in at : \A l \in at : k <= l
<1>1. Find(c, key) = IF at # {} THEN first ELSE IF c[1].key = key THEN 1 ELSE 0
  BY DEF Find
<1>2. Len(c) \in Nat \ {0}
  BY LineIs
<1>3. CASE at # {}
  <2>1. at \subseteq Nat /\ at \subseteq 2 .. Len(c)
    BY <1>2
  <2>2. first \in at /\ \A l \in at : first <= l
    <3> HIDE DEF at
    <3>1. \E k \in at : \A l \in at : k <= l
      BY <1>3, <2>1, Smallest
    <3> QED
      BY <3>1
  <2> HIDE DEF first
  <2>3. Find(c, key) = first
    BY <1>1, <1>3
  <2>4. ASSUME NEW i \in 2 .. first - 1 PROVE c[i].key # key
    BY <1>2, <2>1, <2>2, <2>4
  <2> QED
    BY <1>2, <2>1, <2>2, <2>3, <2>4
<1>4. CASE at = {}
  <2>1. \A i \in 2 .. Len(c) : c[i].key # key
    BY <1>4
  <2> HIDE DEF at, first
  <2> QED
    BY <1>1, <1>2, <1>4, <2>1
<1> QED
  BY <1>3, <1>4

\* And what these say of a place is enough to know it.
LEMMA FoundAt ==
  ASSUME NEW c \in Lines, NEW key, NEW k \in 1 .. Len(c), c[k].key = key,
         k > 1 => \A i \in 2 .. k - 1 : c[i].key # key,
         k = 1 => \A i \in 2 .. Len(c) : c[i].key # key
  PROVE  Find(c, key) = k
<1> DEFINE f == Find(c, key)
<1>1. /\ f \in 0 .. Len(c) /\ Len(c) \in Nat \ {0}
      /\ f # 0 => c[f].key = key
      /\ f = 0 => \A i \in 1 .. Len(c) : c[i].key # key
      /\ f > 1 => \A i \in 2 .. f - 1 : c[i].key # key
      /\ f = 1 => \A i \in 2 .. Len(c) : c[i].key # key
  BY FindIs, LineIs
<1>2. /\ k \in 1 .. Len(c) /\ c[k].key = key
      /\ k > 1 => \A i \in 2 .. k - 1 : c[i].key # key
      /\ k = 1 => \A i \in 2 .. Len(c) : c[i].key # key
  OBVIOUS
<1>3. f \in Nat /\ k \in Nat /\ f # 0 /\ f <= Len(c)
  BY <1>1, <1>2
<1> HIDE DEF f
<1>4. ASSUME k = 1 PROVE f = k
  <2>1. f \notin 2 .. Len(c)
    BY <1>1, <1>2, <1>3, <1>4
  <2> QED
    BY <1>1, <1>3, <1>4, <2>1
<1>5. ASSUME k > 1 PROVE f = k
  <2>1. f # 1
    <3>1. k \in 2 .. Len(c)
      BY <1>1, <1>2, <1>5
    <3> QED
      BY <1>1, <1>2, <3>1
  <2>2. ~ (f < k)
    <3>1. f < k => f \in 2 .. k - 1
      BY <1>3, <1>5, <2>1
    <3> QED
      BY <1>1, <1>2, <1>3, <1>5, <3>1
  <2>3. ~ (k < f)
    <3>1. k < f => k \in 2 .. f - 1 /\ f > 1
      BY <1>3, <1>5
    <3> QED
      BY <1>1, <1>2, <3>1
  <2> QED
    BY <1>3, <2>2, <2>3
<1>6. k = 1 \/ k > 1
  BY <1>1, <1>2
<1> QED
  BY <1>4, <1>5, <1>6 DEF f

LEMMA NotFound ==
  ASSUME NEW c \in Lines, NEW key, \A i \in 1 .. Len(c) : c[i].key # key
  PROVE  Find(c, key) = 0
<1>1. Find(c, key) \in 0 .. Len(c) /\ (Find(c, key) # 0 => c[Find(c, key)].key = key)
  BY FindIs
<1>2. Len(c) \in Nat
  BY LineIs
<1> QED
  BY <1>1, <1>2

------------------------------------------------------------------------------
(* PutEntry *)

LEMMA SameSelf ==
  ASSUME NEW v \in Seq(Texts)
  PROVE  Same(v, v)
BY DEF Same, IsPrefix

\* The words keep their places and keys; only the entry's may change, or is new.
LEMMA PutIs ==
  ASSUME NEW c \in Lines, NEW e \in Entry
  PROVE  LET d == PutEntry(c, e)
             k == Find(c, e.key)
         IN /\ d \in Lines
            /\ \A i \in 1 .. Len(c) : /\ d[i].key = c[i].key
                                      /\ c[i].key # e.key => d[i] = c[i]
                                      /\ d[i].val \in {c[i].val, e.val}
            /\ k = 0 => Len(d) = Len(c) + 1 /\ d[Len(c) + 1] = Words(e.key, e.val)
            /\ k # 0 => Len(d) = Len(c) /\ (e.overwrite => Same(d[k].val, e.val))
<1> DEFINE d == PutEntry(c, e)
           k == Find(c, e.key)
<1>1. /\ c \in Seq(Word) /\ Len(c) \in Nat \ {0}
      /\ \A i \in 1 .. Len(c) : c[i] \in Word
  BY LineIs
<1>2. k \in 0 .. Len(c) /\ (k # 0 => c[k].key = e.key)
  BY FindIs
<1>3. Words(e.key, e.val) \in Word /\ e.val \in Seq(Texts)
  BY DEF Words, Word, Entry
<1>4. CASE k = 0
  <2>1. d = Append(c, Words(e.key, e.val))
    BY <1>4 DEF PutEntry
  <2>2. /\ d \in Seq(Word) /\ Len(d) = Len(c) + 1
        /\ \A i \in 1 .. Len(c) : d[i] = c[i]
        /\ d[Len(c) + 1] = Words(e.key, e.val)
    BY <1>1, <1>3, <2>1
  <2>3. d # <<>>
    BY <1>1, <2>2
  <2> QED
    BY <1>4, <2>2, <2>3 DEF Lines
<1>5. CASE k # 0 /\ (~ e.overwrite \/ Same(c[k].val, e.val))
  <2>1. d = c
    BY <1>5 DEF PutEntry
  <2> QED
    BY <1>5, <2>1
<1>6. CASE k # 0 /\ e.overwrite /\ ~ Same(c[k].val, e.val)
  <2>1. d = [c EXCEPT ![k].val = e.val]
    BY <1>6 DEF PutEntry
  <2>2. k \in 1 .. Len(c) /\ DOMAIN c = 1 .. Len(c) /\ c[k].key = e.key /\ c[k] \in Word
    BY <1>1, <1>2, <1>6
  <2>3. [c[k] EXCEPT !.val = e.val] \in Word
    BY <1>3, <2>2 DEF Word
  <2>4. d = [c EXCEPT ![k] = [c[k] EXCEPT !.val = e.val]]
    BY <2>1
  <2>5. /\ d \in Seq(Word) /\ Len(d) = Len(c)
        /\ \A i \in 1 .. Len(c) : i # k => d[i] = c[i]
        /\ d[k] = [c[k] EXCEPT !.val = e.val]
    BY <1>1, <2>2, <2>3, <2>4
  <2>6. d[k].key = c[k].key /\ d[k].val = e.val
    BY <2>2, <2>5 DEF Word
  <2>7. d # <<>>
    BY <1>1, <2>5
  <2>8. Same(d[k].val, e.val)
    BY <1>3, <2>6, SameSelf
  <2>9. ASSUME NEW i \in 1 .. Len(c)
        PROVE  /\ d[i].key = c[i].key
               /\ c[i].key # e.key => d[i] = c[i]
               /\ d[i].val \in {c[i].val, e.val}
    BY <2>2, <2>5, <2>6
  <2> QED
    BY <1>6, <2>5, <2>7, <2>8, <2>9 DEF Lines
<1> QED
  BY <1>4, <1>5, <1>6

\* An entry that has nothing left to do on a command line.
Settled(c, e) ==
  /\ Find(c, e.key) # 0
  /\ e.overwrite => Same(c[Find(c, e.key)].val, e.val)

LEMMA PutSettles ==
  ASSUME NEW c \in Lines, NEW e \in Entry
  PROVE  Settled(PutEntry(c, e), e)
<1> DEFINE d == PutEntry(c, e)
           k == Find(c, e.key)
<1>1. /\ d \in Lines
      /\ \A i \in 1 .. Len(c) : d[i].key = c[i].key
      /\ k = 0 => Len(d) = Len(c) + 1 /\ d[Len(c) + 1] = Words(e.key, e.val)
      /\ k # 0 => Len(d) = Len(c) /\ (e.overwrite => Same(d[k].val, e.val))
  BY PutIs
<1>2. /\ Len(c) \in Nat \ {0} /\ k \in 0 .. Len(c)
      /\ k # 0 => c[k].key = e.key
      /\ k = 0 => \A i \in 1 .. Len(c) : c[i].key # e.key
      /\ k > 1 => \A i \in 2 .. k - 1 : c[i].key # e.key
      /\ k = 1 => \A i \in 2 .. Len(c) : c[i].key # e.key
  BY LineIs, FindIs
<1> HIDE DEF d, k
<1>3. CASE k = 0
  <2> DEFINE n == Len(c) + 1
  <2>1. /\ n \in 1 .. Len(d) /\ n > 1 /\ d[n].key = e.key /\ d[n].val = e.val
        /\ \A i \in 2 .. n - 1 : d[i].key # e.key
    BY <1>1, <1>2, <1>3 DEF Words
  <2> HIDE DEF n
  <2>2. Find(d, e.key) = n
    BY <1>1, <2>1, FoundAt
  <2>3. Same(e.val, e.val)
    BY SameSelf DEF Entry
  <2>4. Settled(d, e)
    BY <2>1, <2>2, <2>3 DEF Settled
  <2> QED
    BY <2>4 DEF d
<1>4. CASE k # 0
  <2>1. /\ k \in 1 .. Len(d) /\ d[k].key = e.key
        /\ k > 1 => \A i \in 2 .. k - 1 : d[i].key # e.key
        /\ k = 1 => \A i \in 2 .. Len(d) : d[i].key # e.key
    BY <1>1, <1>2, <1>4
  <2>2. Find(d, e.key) = k
    BY <1>1, <2>1, FoundAt
  <2>3. Settled(d, e)
    BY <1>1, <1>4, <2>2 DEF Settled
  <2> QED
    BY <2>3 DEF d
<1> QED
  BY <1>3, <1>4

\* An entry leaves what another key has.
LEMMA PutLeaves ==
  ASSUME NEW c \in Lines, NEW e \in Entry, NEW f \in Entry, f.key # e.key, Settled(c, f)
  PROVE  Settled(PutEntry(c, e), f)
<1> DEFINE d == PutEntry(c, e)
           k == Find(c, f.key)
<1>1. /\ d \in Lines
      /\ \A i \in 1 .. Len(c) : d[i].key = c[i].key /\ (c[i].key # e.key => d[i] = c[i])
      /\ Len(d) = Len(c) \/ (Len(d) = Len(c) + 1 /\ d[Len(c) + 1].key = e.key)
  <2>1. Words(e.key, e.val).key = e.key
    BY DEF Words
  <2> QED
    BY <2>1, PutIs
<1>2. /\ Len(c) \in Nat \ {0} /\ k \in 1 .. Len(c)
      /\ c[k].key = f.key
      /\ k > 1 => \A i \in 2 .. k - 1 : c[i].key # f.key
      /\ k = 1 => \A i \in 2 .. Len(c) : c[i].key # f.key
      /\ f.overwrite => Same(c[k].val, f.val)
  BY LineIs, FindIs DEF Settled
<1> HIDE DEF d, k
<1>3. /\ k \in 1 .. Len(d) /\ d[k] = c[k]
      /\ k > 1 => \A i \in 2 .. k - 1 : d[i].key # f.key
      /\ k = 1 => \A i \in 2 .. Len(d) : d[i].key # f.key
  BY <1>1, <1>2
<1>4. Find(d, f.key) = k
  BY <1>1, <1>2, <1>3, FoundAt
<1>5. Settled(d, f)
  BY <1>2, <1>3, <1>4 DEF Settled
<1> QED
  BY <1>5 DEF d

LEMMA PutNothing ==
  ASSUME NEW c \in Lines, NEW e \in Entry, Settled(c, e)
  PROVE  PutEntry(c, e) = c
BY DEF Settled, PutEntry

------------------------------------------------------------------------------
(* The loop over entries[] *)

LEMMA EntriesAre ==
  ASSUME NEW m \in Seq(Texts), NEW n \in 1 .. 4
  PROVE  /\ Len(EntryList(m, n)) = 5
         /\ \A i \in 1 .. 5 : EntryList(m, n)[i] \in Entry
         /\ \A i, j \in 1 .. 5 : i # j => EntryList(m, n)[i].key # EntryList(m, n)[j].key
<1>1. \A t \in {"1", "2", "3", "4", "none", "dsds", "false", "true"} : <<t>> \in Seq(Texts)
  BY FixModemAssumption
<1>2. SimText(n) \in Seq(Texts) /\ DsdsText(n) \in Seq(Texts)
  <2>1. n = 1 \/ n = 2 \/ n = 3 \/ n = 4
    OBVIOUS
  <2>2. SimText(n) = <<"1">> \/ SimText(n) = <<"2">> \/ SimText(n) = <<"3">>
          \/ SimText(n) = <<"4">>
    BY <2>1 DEF SimText
  <2>3. SimText(n) \in Seq(Texts)
    BY <1>1, <2>2
  <2> QED
    BY <1>1, <2>3 DEF DsdsText
<1>3. <<"false">> \in Seq(Texts) /\ <<"true">> \in Seq(Texts)
  BY <1>1
<1>4. Len(EntryList(m, n)) = 5
  BY DEF EntryList
<1>5. /\ EntryList(m, n)[1] \in Entry /\ EntryList(m, n)[2] \in Entry
      /\ EntryList(m, n)[3] \in Entry /\ EntryList(m, n)[4] \in Entry
      /\ EntryList(m, n)[5] \in Entry
  BY <1>2, <1>3, FixModemAssumption DEF EntryList, Entry
<1>6. /\ EntryList(m, n)[1].key = "model.name" /\ EntryList(m, n)[2].key = "lge.sim_num"
      /\ EntryList(m, n)[3].key = "lge.dsds" /\ EntryList(m, n)[4].key = "bl_unlock"
      /\ EntryList(m, n)[5].key = "authorized"
  BY DEF EntryList
<1>7. \A i \in 1 .. 5 : i = 1 \/ i = 2 \/ i = 3 \/ i = 4 \/ i = 5
  OBVIOUS
<1> QED
  BY <1>4, <1>5, <1>6, <1>7

\* Five turns, one entry after the other.
LEMMA EditedIs ==
  ASSUME NEW c, NEW m \in Seq(Texts), NEW n \in 1 .. 4
  PROVE  LET es == EntryList(m, n) IN
         Edited(c, m, n) =
           PutEntry(PutEntry(PutEntry(PutEntry(PutEntry(c, es[1]), es[2]), es[3]), es[4]),
                    es[5])
<1> DEFINE es == EntryList(m, n)
           p1 == PutEntry(c, es[1])
           p2 == PutEntry(p1, es[2])
           p3 == PutEntry(p2, es[3])
           p4 == PutEntry(p3, es[4])
           p5 == PutEntry(p4, es[5])
           Turns(f) == f = [k \in 0 .. Len(es) |-> IF k = 0 THEN c ELSE PutEntry(f[k - 1], es[k])]
           w == CHOOSE f : Turns(f)
           g == [k \in 0 .. 5 |-> IF k = 0 THEN c ELSE IF k = 1 THEN p1 ELSE IF k = 2 THEN p2
                                  ELSE IF k = 3 THEN p3 ELSE IF k = 4 THEN p4 ELSE p5]
<1>1. Len(es) = 5
  BY EntriesAre
<1>2. Edited(c, m, n) = w[Len(es)]
  BY DEF Edited
<1> HIDE DEF es
<1>3. Turns(g)
  <2>1. g = [k \in 0 .. 5 |-> IF k = 0 THEN c ELSE PutEntry(g[k - 1], es[k])]
    <3>1. ASSUME NEW k \in 0 .. 5
          PROVE  g[k] = IF k = 0 THEN c ELSE PutEntry(g[k - 1], es[k])
      <4>1. k = 0 \/ k = 1 \/ k = 2 \/ k = 3 \/ k = 4 \/ k = 5
        OBVIOUS
      <4>2. g[0] = c /\ g[1] = p1 /\ g[2] = p2 /\ g[3] = p3 /\ g[4] = p4 /\ g[5] = p5
        <5> HIDE DEF p1, p2, p3, p4, p5
        <5> QED
          OBVIOUS
      <4> HIDE DEF g
      <4> QED
        BY <4>1, <4>2
    <3>2. \A k \in 0 .. 5 : g[k] = IF k = 0 THEN c ELSE PutEntry(g[k - 1], es[k])
      BY <3>1
    <3> DEFINE h == [k \in 0 .. 5 |-> IF k = 0 THEN c ELSE PutEntry(g[k - 1], es[k])]
    <3>3. g = h
      <4>1. g = [k \in 0 .. 5 |-> g[k]]
        OBVIOUS
      <4> HIDE DEF g
      <4> QED
        BY <3>2, <4>1
    <3> QED
      BY <3>3
  <2> QED
    BY <1>1, <2>1
<1>4. Turns(w)
  <2> HIDE DEF g, Turns
  <2> QED
    BY <1>3
<1>5. w = [k \in 0 .. 5 |-> IF k = 0 THEN c ELSE PutEntry(w[k - 1], es[k])]
  BY <1>1, <1>4
<1> HIDE DEF w, g
<1>6. w[0] = c /\ w[1] = PutEntry(w[0], es[1]) /\ w[2] = PutEntry(w[1], es[2])
      /\ w[3] = PutEntry(w[2], es[3]) /\ w[4] = PutEntry(w[3], es[4])
      /\ w[5] = PutEntry(w[4], es[5])
  BY <1>5
<1>7. Edited(c, m, n) = p5
  BY <1>1, <1>2, <1>6
<1> QED
  BY <1>7 DEF es

LEMMA PutLine ==
  ASSUME NEW c \in Lines, NEW e \in Entry
  PROVE  PutEntry(c, e) \in Lines
BY PutIs

\* The first k entries have nothing left to do.
SettledTo(c, es, k) == c \in Lines /\ \A i \in 1 .. k : Settled(c, es[i])

LEMMA OneTurn ==
  ASSUME NEW es, \A i \in 1 .. 5 : es[i] \in Entry,
         \A i, j \in 1 .. 5 : i # j => es[i].key # es[j].key,
         NEW k \in 1 .. 5, NEW c, SettledTo(c, es, k - 1)
  PROVE  SettledTo(PutEntry(c, es[k]), es, k)
<1>1. c \in Lines /\ es[k] \in Entry
  BY DEF SettledTo
<1>2. PutEntry(c, es[k]) \in Lines
  BY <1>1, PutLine
<1>3. ASSUME NEW i \in 1 .. k PROVE Settled(PutEntry(c, es[k]), es[i])
  <2>1. CASE i = k
    BY <1>1, <2>1, PutSettles
  <2>2. CASE i # k
    <3>1. Settled(c, es[i]) /\ es[i] \in Entry /\ es[i].key # es[k].key
      BY <2>2 DEF SettledTo
    <3> QED
      BY <1>1, <3>1, PutLeaves
  <2> QED
    BY <2>1, <2>2
<1> QED
  BY <1>2, <1>3 DEF SettledTo

LEMMA EditedSettled ==
  ASSUME NEW c \in Lines, NEW m \in Seq(Texts), NEW n \in 1 .. 4
  PROVE  /\ Edited(c, m, n) \in Lines
         /\ \A i \in 1 .. 5 : Settled(Edited(c, m, n), EntryList(m, n)[i])
<1> DEFINE es == EntryList(m, n)
           c1 == PutEntry(c, es[1])
           c2 == PutEntry(c1, es[2])
           c3 == PutEntry(c2, es[3])
           c4 == PutEntry(c3, es[4])
           c5 == PutEntry(c4, es[5])
<1>1. Edited(c, m, n) = c5
  BY EditedIs
<1>2. /\ \A i \in 1 .. 5 : es[i] \in Entry
      /\ \A i, j \in 1 .. 5 : i # j => es[i].key # es[j].key
  BY EntriesAre
<1>3. \A d : \A k \in 1 .. 5 : SettledTo(d, es, k - 1) => SettledTo(PutEntry(d, es[k]), es, k)
  <2> HIDE DEF es
  <2> QED
    BY <1>2, OneTurn
<1> HIDE DEF es
<1>4. SettledTo(c, es, 0)
  BY DEF SettledTo
<1>5. SettledTo(c1, es, 1)
  BY <1>3, <1>4
<1> HIDE DEF c1
<1>6. SettledTo(c2, es, 2)
  BY <1>3, <1>5
<1> HIDE DEF c2
<1>7. SettledTo(c3, es, 3)
  BY <1>3, <1>6
<1> HIDE DEF c3
<1>8. SettledTo(c4, es, 4)
  BY <1>3, <1>7
<1> HIDE DEF c4
<1>9. SettledTo(c5, es, 5)
  BY <1>3, <1>8
<1> HIDE DEF c5
<1> QED
  BY <1>1, <1>9 DEF es, SettledTo

\* The loop finds nothing to do where it has been.
LEMMA EditedTwice ==
  ASSUME NEW c \in Lines, NEW m \in Seq(Texts), NEW n \in 1 .. 4
  PROVE  Edited(Edited(c, m, n), m, n) = Edited(c, m, n)
<1> DEFINE d  == Edited(c, m, n)
           es == EntryList(m, n)
<1>1. d \in Lines /\ \A i \in 1 .. 5 : Settled(d, es[i]) /\ es[i] \in Entry
  BY EditedSettled, EntriesAre
<1> HIDE DEF d
<1>2. \A i \in 1 .. 5 : PutEntry(d, es[i]) = d
  BY <1>1, PutNothing
<1>3. Edited(d, m, n) = d
  BY <1>2, EditedIs
<1> QED
  BY <1>3 DEF d

\* The SIM settings of a command line are of one part, like those written there.
SimKeys  == {"lge.sim_num", "lge.dsds"}
Plain(c) == \A i \in 1 .. Len(c) : c[i].key \in SimKeys => Len(c[i].val) = 1

LEMMA PutPlain ==
  ASSUME NEW c \in Lines, NEW e \in Entry, Plain(c), e.key \in SimKeys => Len(e.val) = 1
  PROVE  Plain(PutEntry(c, e))
<1> DEFINE d == PutEntry(c, e)
           k == Find(c, e.key)
<1>1. /\ \A i \in 1 .. Len(c) : /\ d[i].key = c[i].key
                                /\ c[i].key # e.key => d[i] = c[i]
                                /\ d[i].val \in {c[i].val, e.val}
      /\ k = 0 => Len(d) = Len(c) + 1 /\ d[Len(c) + 1] = Words(e.key, e.val)
      /\ k # 0 => Len(d) = Len(c)
  BY PutIs
<1>2. Len(c) \in Nat
  BY LineIs
<1> HIDE DEF d, k
<1>3. ASSUME NEW i \in 1 .. Len(d), d[i].key \in SimKeys PROVE Len(d[i].val) = 1
  <2>1. CASE i \in 1 .. Len(c)
    BY <1>1, <1>3, <2>1 DEF Plain
  <2>2. CASE i \notin 1 .. Len(c)
    <3>1. i = Len(c) + 1 /\ d[i] = Words(e.key, e.val)
      BY <1>1, <1>2, <1>3, <2>2
    <3> QED
      BY <1>3, <3>1 DEF Words
  <2> QED
    BY <2>1, <2>2
<1>4. Plain(d)
  BY <1>3 DEF Plain
<1> QED
  BY <1>4 DEF d

LEMMA EditedPlain ==
  ASSUME NEW c \in Lines, NEW m \in Seq(Texts), NEW n \in 1 .. 4, Plain(c)
  PROVE  LET d == Edited(c, m, n) IN
         /\ Plain(d)
         /\ Value(d, "lge.sim_num") = SimText(n)
         /\ Value(d, "lge.dsds") = DsdsText(n)
<1> DEFINE es == EntryList(m, n)
           d  == Edited(c, m, n)
<1>1. /\ d \in Lines
      /\ \A i \in 1 .. 5 : es[i] \in Entry /\ Settled(d, es[i])
  BY EditedSettled, EntriesAre
<1>2. /\ es[1].key = "model.name"
      /\ es[2].key = "lge.sim_num" /\ es[2].val = SimText(n) /\ es[2].overwrite
      /\ es[3].key = "lge.dsds" /\ es[3].val = DsdsText(n) /\ es[3].overwrite
      /\ es[4].key = "bl_unlock" /\ es[5].key = "authorized"
  BY DEF EntryList
<1>3. Len(SimText(n)) = 1 /\ Len(DsdsText(n)) = 1
  <2>1. n = 1 \/ n = 2 \/ n = 3 \/ n = 4
    OBVIOUS
  <2>2. SimText(n) = <<"1">> \/ SimText(n) = <<"2">> \/ SimText(n) = <<"3">>
          \/ SimText(n) = <<"4">>
    BY <2>1 DEF SimText
  <2> QED
    BY <2>2 DEF DsdsText
<1>4. d = PutEntry(PutEntry(PutEntry(PutEntry(PutEntry(c, es[1]), es[2]), es[3]), es[4]),
                   es[5])
  BY EditedIs
<1> HIDE DEF es, d
<1>5. \A i \in 1 .. 5 : es[i].key \in SimKeys => Len(es[i].val) = 1
  <2>1. \A i \in 1 .. 5 : i = 1 \/ i = 2 \/ i = 3 \/ i = 4 \/ i = 5
    OBVIOUS
  <2> QED
    BY <1>2, <1>3, <2>1 DEF SimKeys
<1>6. Plain(d)
  <2> DEFINE c1 == PutEntry(c, es[1])
             c2 == PutEntry(c1, es[2])
             c3 == PutEntry(c2, es[3])
             c4 == PutEntry(c3, es[4])
  <2>1. \A b : \A i \in 1 .. 5 : b \in Lines /\ Plain(b) =>
          PutEntry(b, es[i]) \in Lines /\ Plain(PutEntry(b, es[i]))
    BY <1>1, <1>5, PutLine, PutPlain
  <2>2. c1 \in Lines /\ Plain(c1)
    BY <2>1
  <2> HIDE DEF c1
  <2>3. c2 \in Lines /\ Plain(c2)
    BY <2>1, <2>2
  <2> HIDE DEF c2
  <2>4. c3 \in Lines /\ Plain(c3)
    BY <2>1, <2>3
  <2> HIDE DEF c3
  <2>5. c4 \in Lines /\ Plain(c4)
    BY <2>1, <2>4
  <2> HIDE DEF c4
  <2>6. Plain(PutEntry(c4, es[5]))
    BY <2>1, <2>5
  <2> QED
    BY <1>4, <2>6 DEF c1, c2, c3, c4
\* A text of one part that begins with another is that.
<1>7. ASSUME NEW i \in {2, 3}, es[i].overwrite, es[i].key \in SimKeys, Len(es[i].val) = 1
      PROVE  Value(d, es[i].key) = es[i].val
  <2> DEFINE f == Find(d, es[i].key)
             v == d[f].val
             u == es[i].val
  <2>1. f \in 1 .. Len(d) /\ d[f].key = es[i].key /\ Same(v, u)
    <3>1. i \in 1 .. 5 /\ d \in Lines /\ Settled(d, es[i])
      BY <1>1, <1>7
    <3>2. f \in 0 .. Len(d) /\ (f # 0 => d[f].key = es[i].key)
      BY <3>1, FindIs
    <3>3. f # 0 /\ Same(v, u)
      BY <1>7, <3>1 DEF Settled
    <3> QED
      BY <3>1, <3>2, <3>3, LineIs
  <2>2. v \in Seq(Texts) /\ Len(v) = 1 /\ u \in Seq(Texts) /\ Len(u) = 1
    <3>1. d[f] \in Word /\ es[i] \in Entry
      BY <1>1, <2>1, LineIs
    <3>2. Len(v) = 1
      BY <1>6, <1>7, <2>1 DEF Plain
    <3> QED
      BY <1>7, <3>1, <3>2 DEF Word, Entry
  <2>3. Value(d, es[i].key) = v
    BY DEF Value
  <2> HIDE DEF f, v, u
  <2>4. SubSeq(u, 1, 1) = SubSeq(v, 1, 1)
    BY <2>1, <2>2 DEF Same, IsPrefix
  <2>5. SubSeq(u, 1, 1)[1] = u[1] /\ SubSeq(v, 1, 1)[1] = v[1]
    BY <2>2
  <2>6. u = v
    BY <2>2, <2>4, <2>5
  <2> QED
    BY <2>3, <2>6 DEF u
<1>8. /\ Plain(d)
      /\ Value(d, "lge.sim_num") = SimText(n)
      /\ Value(d, "lge.dsds") = DsdsText(n)
  BY <1>2, <1>3, <1>6, <1>7 DEF SimKeys
<1> QED
  BY <1>8 DEF d

------------------------------------------------------------------------------
(* Types *)

\* The name is one of the user's, or one that misc may hold; until misc has been
\* looked at it is the one given.
Names == Models \cup MiscNames

KnownInv ==
  /\ TypeOK
  /\ model \in Names /\ DOMAIN sysfs = {"model", "sim"}
  /\ image \in [sound : BOOLEAN, cmd : Lines, extra : Seq(Word)]
  /\ pc = "read_misc" => model = opts.given
  /\ pc = "write_header" => cmd \in Lines

\* After the name is found: where it came from.
NameInv ==
  pc = "write_misc" =>
    /\ model \in {opts.given, misc.model} \cup (IF opts.boot THEN {Fallback} ELSE {})
    /\ opts.given # NoName => model = opts.given

\* The steps after the running kernel was told.
Later == {"read_image", "write_header", "write_page", "read_page", "close"}

\* What is done by each of them, and by a run that has ended with success.
ToldInv ==
  /\ pc # "idle" => status = "running"
  /\ pc \in Later \/ status = "0" => ~bad /\ sim # 0
  /\ pc = "sysfs_done" \/ pc \in Later \/ status = "0" =>
       (kernel /\ ~bad => sysfs.sim = SimText(sim))
  /\ pc = "write_header" => opts.target = "file" /\ cmd = Edited(image.cmd, model, sim)
  /\ pc \in {"write_page", "read_page"} => opts.target = "pipe"
  /\ pc = "read_image" => opts.target # "none"

\* An image that was written has nothing more to be changed.
EditInv ==
  pc = "close" \/ status = "0" =>
    (opts.target = "file" => Edited(image.cmd, model, sim) = image.cmd)

\* And its SIM settings are those told.
AgreeInv ==
  /\ Plain(image.cmd)
  /\ pc = "close" \/ status = "0" =>
       (opts.target = "file" => /\ Value(image.cmd, "lge.sim_num") = SimText(sim)
                                /\ Value(image.cmd, "lge.dsds") = DsdsText(sim))

\* An image of n half pages on its way: what was written, what of the page in hand is
\* still to be written, what is still in the pipe.
InOrder(out, b, held, in, n) ==
  /\ out \in Seq(Int) /\ in \in Seq(Int) /\ n \in Nat /\ held \in 0 .. 2
  /\ Len(out) + held + Len(in) = n
  /\ \A k \in 1 .. Len(out) : out[k] = k - 2
  /\ \A k \in 1 .. held : b[k] = Len(out) + k - 2
  /\ \A k \in 1 .. Len(in) : in[k] = Len(out) + held + k - 2

PipeInv ==
  /\ opts.pages \in Nat /\ buf \in Seq(Int)
  /\ pc \notin {"idle", "write_header", "write_page", "read_page", "close"} =>
       InOrder(Header, buf, 0, input, opts.pages + 2) /\ output = <<>>
  /\ pc = "write_page" => InOrder(output, buf, cnt, input, opts.pages + 2)
  /\ pc = "read_page"  => InOrder(output, buf, 0, input, opts.pages + 2)
  /\ pc = "close" \/ status = "0" =>
       (opts.target = "pipe" => output = Header \o [k \in 1 .. opts.pages |-> k])

LEMMA OptionsAre ==
  ASSUME NEW o \in Options \cup {NoOptions}
  PROVE  /\ o.given \in Models \cup {NoName} /\ o.sim \in 0 .. 4 /\ o.pages \in Nat
         /\ o \in [given : Models \cup {NoName}, sim : 0 .. 4, boot : BOOLEAN,
                   write : BOOLEAN, target : {"none", "file", "pipe"}, pages : Nat]
<1> DEFINE O == [given : Models \cup {NoName}, sim : 0 .. 4, boot : BOOLEAN,
                 write : BOOLEAN, target : {"none", "file", "pipe"}, pages : Nat]
<1>1. NoOptions \in O
  BY DEF NoOptions
<1>2. Options \subseteq O
  BY FixModemAssumption DEF Options
<1>3. o \in O
  BY <1>1, <1>2
<1> QED
  BY <1>3

\* What fits is stored as it is.
LEMMA StoredIs ==
  ASSUME NEW m \in Seq(Texts)
  PROVE  Stored(m) \in Seq(Texts) /\ Stored(Stored(m)) = Stored(m)
<1> DEFINE n == IF Len(m) <= MiscParts THEN Len(m) ELSE MiscParts
           u == SubSeq(m, 1, n)
           l == IF Len(u) <= MiscParts THEN Len(u) ELSE MiscParts
           v == SubSeq(u, 1, l)
<1>1. MiscParts \in Nat /\ Len(m) \in Nat
  BY FixModemAssumption
<1>2. n \in 0 .. Len(m) /\ n <= MiscParts
  BY <1>1
<1> HIDE DEF n
<1>3. u \in Seq(Texts) /\ Len(u) = n
  BY <1>2
<1> HIDE DEF u
<1>4. l = n
  BY <1>1, <1>2, <1>3
<1> HIDE DEF l
<1>5. v = u
  <2>1. l \in 0 .. Len(u) /\ l = Len(u)
    BY <1>2, <1>3, <1>4
  <2>2. v \in Seq(Texts) /\ Len(v) = Len(u) /\ \A k \in 1 .. Len(u) : v[k] = u[k]
    BY <1>3, <2>1
  <2> QED
    BY <1>3, <2>2
<1>6. Stored(m) = u
  BY DEF Stored, u, n
<1>7. Stored(u) = v
  BY DEF Stored, v, l
<1> QED
  BY <1>3, <1>5, <1>6, <1>7

LEMMA NamesAre ==
  /\ Fallback \in Models /\ Fallback # NoName
  /\ NoName \in MiscNames
  /\ \A m \in Names : m \in Seq(Texts) /\ Stored(m) \in MiscNames
  /\ \A m \in MiscNames : Stored(m) = m
<1>1. NoName \in Seq(Texts)
  BY DEF NoName
<1>2. Stored(NoName) = NoName
  BY FixModemAssumption DEF Stored, NoName
<1>3. NoName \in MiscNames
  BY <1>2 DEF MiscNames
<1>4. \A m \in Models \cup {NoName} : m \in Seq(Texts)
  BY <1>1, FixModemAssumption
<1>5. \A m \in MiscNames : m \in Seq(Texts) /\ Stored(m) = m
  BY <1>4, StoredIs DEF MiscNames
<1>6. \A m \in Models : Stored(m) \in MiscNames
  BY DEF MiscNames
<1>7. \A m \in Names : m \in Seq(Texts) /\ Stored(m) \in MiscNames
  BY <1>4, <1>5, <1>6 DEF Names
<1>8. Fallback \in Models /\ Fallback # NoName
  BY FixModemAssumption
<1> QED
  BY <1>3, <1>5, <1>7, <1>8

\* The program starting or ending: what it has in memory is as its options say.
LEMMA MemoryKnown ==
  ASSUME KnownInv, NEW o \in Options \cup {NoOptions}, Memory(o), UNCHANGED found,
         pc' = "read_misc" \/ pc' = "idle"
  PROVE  KnownInv'
<1>1. /\ o.given \in Models \cup {NoName} /\ o.sim \in 0 .. 4 /\ o.pages \in Nat
      /\ o \in [given : Models \cup {NoName}, sim : 0 .. 4, boot : BOOLEAN,
                write : BOOLEAN, target : {"none", "file", "pipe"}, pages : Nat]
  BY OptionsAre
<1>2. /\ opts' = o /\ model' = o.given /\ sim' = o.sim /\ bad' = FALSE
      /\ Len(cmd') = 1 /\ Len(buf') = 2 /\ cnt' = 0
  BY DEF Memory, Header
<1>3. /\ misc' = misc /\ kernel' = kernel /\ sysfs' = sysfs /\ image' = image
      /\ o.given \in Names
  BY <1>1, NamesAre DEF found, Names
<1>4. /\ misc \in [magic : BOOLEAN, model : MiscNames] /\ kernel \in BOOLEAN
      /\ Len(image.cmd) > 0
  BY DEF KnownInv, TypeOK
<1>5. bad' \in BOOLEAN /\ kernel' \in BOOLEAN
  BY <1>2, <1>3, <1>4
<1>6. /\ misc' \in [magic : BOOLEAN, model : MiscNames]
      /\ opts' \in [given : Models \cup {NoName}, sim : 0 .. 4, boot : BOOLEAN,
                    write : BOOLEAN, target : {"none", "file", "pipe"}, pages : Nat]
  BY <1>1, <1>2, <1>3, <1>4
<1>7. /\ sim' \in 0 .. 4 /\ cnt' \in 0 .. 2
      /\ Len(buf') = 2 /\ Len(cmd') > 0 /\ Len(image.cmd)' > 0
  BY <1>1, <1>2, <1>3, <1>4
<1>8. TypeOK'
  BY <1>5, <1>6, <1>7 DEF TypeOK
<1> QED
  BY <1>1, <1>2, <1>3, <1>8 DEF KnownInv

LEMMA FailKnown ==
  ASSUME KnownInv, NEW how, Fail(how)
  PROVE  KnownInv'
BY MemoryKnown DEF Fail

LEMMA KnownInit ==
  ASSUME Init
  PROVE  KnownInv
<1>1. image \in [sound : BOOLEAN, cmd : Lines, extra : Seq(Word)] /\ Len(image.cmd) > 0
  <2>1. (\A c \in CmdLines : c \in Lines /\ Len(c) > 0) /\ Extras \subseteq Seq(Word)
    BY FixModemAssumption DEF Lines
  <2> QED
    BY <2>1 DEF Init
<1>2. NoOptions \in [given : Models \cup {NoName}, sim : 0 .. 4, boot : BOOLEAN,
                     write : BOOLEAN, target : {"none", "file", "pipe"}, pages : Nat]
  BY DEF NoOptions
<1>3. /\ opts = NoOptions /\ sim = 0 /\ bad = FALSE /\ cnt = 0 /\ pc = "idle" /\ Len(buf) = 2
      /\ Len(cmd) = 1 /\ kernel \in BOOLEAN
      /\ misc \in [magic : BOOLEAN, model : MiscNames]
  BY DEF Init, Header
<1>4. bad \in BOOLEAN
  BY <1>3
<1>5. opts \in [given : Models \cup {NoName}, sim : 0 .. 4, boot : BOOLEAN,
                write : BOOLEAN, target : {"none", "file", "pipe"}, pages : Nat]
  BY <1>2, <1>3
<1>6. TypeOK
  BY <1>1, <1>3, <1>4, <1>5 DEF TypeOK
<1> QED
  BY <1>1, <1>6, NamesAre DEF Init, KnownInv, Names

LEMMA KnownStep ==
  ASSUME KnownInv, [Next]_vars
  PROVE  KnownInv'
<1> USE DEF found, stream, known
<1>1. ASSUME NEW o \in Options, Start(o) PROVE KnownInv'
  BY <1>1, MemoryKnown DEF Start
<1>2. CASE ReadMisc
  <2>1. misc.model \in MiscNames /\ misc.model \in Names
    BY DEF KnownInv, TypeOK, Names
  <2>2. TypeOK'
    BY <1>2 DEF ReadMisc, KnownInv, TypeOK
  <2> QED
    BY <1>2, <2>1, <2>2 DEF ReadMisc, KnownInv
<1>3. CASE NoMisc
  <2>1. model' \in Names /\ model' # NoName /\ pc' = "write_misc"
    BY <1>3, NamesAre DEF NoMisc, KnownInv, Names
  <2>2. TypeOK'
    BY <1>3, <2>1, FixModemAssumption DEF NoMisc, KnownInv, TypeOK
  <2> QED
    BY <1>3, <2>1, <2>2 DEF NoMisc, KnownInv
<1>4. CASE NoNameAtAll
  BY <1>4, FailKnown DEF NoNameAtAll
<1>5. CASE WriteMisc
  <2>1. misc' \in [magic : BOOLEAN, model : MiscNames]
    <3>1. misc' = misc \/ misc' = [magic |-> TRUE, model |-> Stored(model)]
      BY <1>5 DEF WriteMisc
    <3>2. misc \in [magic : BOOLEAN, model : MiscNames]
      BY DEF KnownInv, TypeOK
    <3>3. [magic |-> TRUE, model |-> Stored(model)] \in [magic : BOOLEAN, model : MiscNames]
      BY NamesAre DEF KnownInv
    <3> QED
      BY <3>1, <3>2, <3>3
  <2>2. sim' \in 1 .. 4
    BY <1>5 DEF WriteMisc, KnownInv, TypeOK, SimCount
  <2>3. TypeOK'
    BY <1>5, <2>1, <2>2 DEF WriteMisc, KnownInv, TypeOK
  <2> QED
    BY <1>5, <2>3 DEF WriteMisc, KnownInv
<1>6. ASSUME NEW file, NEW text, WriteSysfs(file, text)
      PROVE  bad' \in BOOLEAN /\ DOMAIN sysfs' = {"model", "sim"}
  BY <1>6 DEF WriteSysfs, KnownInv, TypeOK
<1>7. CASE WriteSysfsModel
  <2>1. bad' \in BOOLEAN /\ DOMAIN sysfs' = {"model", "sim"}
    BY <1>6, <1>7 DEF WriteSysfsModel
  <2>2. TypeOK'
    BY <1>7, <2>1 DEF WriteSysfsModel, KnownInv, TypeOK
  <2> QED
    BY <1>7, <2>1, <2>2 DEF WriteSysfsModel, KnownInv
<1>8. CASE WriteSysfsSim
  <2>1. bad' \in BOOLEAN /\ DOMAIN sysfs' = {"model", "sim"}
    BY <1>6, <1>8 DEF WriteSysfsSim
  <2>2. TypeOK'
    BY <1>8, <2>1 DEF WriteSysfsSim, KnownInv, TypeOK
  <2> QED
    BY <1>8, <2>1, <2>2 DEF WriteSysfsSim, KnownInv
<1>9. CASE SysfsFailed
  BY <1>9, FailKnown DEF SysfsFailed
<1>10. CASE AfterSysfs
  <2>1. pc' \in {"idle", "read_image"}
    BY <1>10 DEF AfterSysfs, Succeed
  <2>2. TypeOK'
    BY <1>10, <2>1 DEF AfterSysfs, KnownInv, TypeOK
  <2> QED
    BY <1>10, <2>1, <2>2 DEF AfterSysfs, KnownInv
<1>11. CASE ReadImage
  <2>1. cmd' \in Lines
    <3>1. image.cmd \in Lines /\ model \in Seq(Texts) /\ sim \in 1 .. 4
      BY <1>11, NamesAre DEF ReadImage, KnownInv, TypeOK
    <3> QED
      BY <1>11, <3>1, EditedSettled DEF ReadImage
  <2>2. Len(cmd') > 0
    BY <2>1 DEF Lines
  <2>3. TypeOK'
    BY <1>11, <2>2 DEF ReadImage, KnownInv, TypeOK, Header
  <2> QED
    BY <1>11, <2>1, <2>3 DEF ReadImage, KnownInv
<1>12. CASE WriteHeader
  <2>1. cmd \in Lines /\ Len(cmd) > 0 /\ image' = [image EXCEPT !.cmd = cmd, !.extra = <<>>]
    BY <1>12 DEF WriteHeader, KnownInv, Lines
  <2>2. image' \in [sound : BOOLEAN, cmd : Lines, extra : Seq(Word)] /\ image'.cmd = cmd
    <3>1. image \in [sound : BOOLEAN, cmd : Lines, extra : Seq(Word)]
      BY DEF KnownInv
    <3>2. <<>> \in Seq(Word)
      OBVIOUS
    <3> QED
      BY <2>1, <3>1, <3>2
  <2>3. TypeOK'
    BY <1>12, <2>1, <2>2 DEF WriteHeader, KnownInv, TypeOK
  <2> QED
    BY <1>12, <2>2, <2>3 DEF WriteHeader, KnownInv
<1>13. ASSUME NEW n \in 1 .. 2, WritePage(n) PROVE KnownInv'
  <2>1. TypeOK'
    BY <1>13 DEF WritePage, KnownInv, TypeOK
  <2> QED
    BY <1>13, <2>1 DEF WritePage, KnownInv
<1>14. ASSUME NEW n \in 0 .. 2, ReadPage(n) PROVE KnownInv'
  <2>1. Len(buf') = 2
    BY <1>14 DEF ReadPage
  <2>2. TypeOK'
    BY <1>14, <2>1 DEF ReadPage, KnownInv, TypeOK
  <2> QED
    BY <1>14, <2>2 DEF ReadPage, KnownInv
<1>15. CASE Close
  <2>1. TypeOK'
    BY <1>15 DEF Close, Succeed, KnownInv, TypeOK
  <2> QED
    BY <1>15, <2>1 DEF Close, Succeed, KnownInv
<1>16. CASE ImageFails
  BY <1>16, FailKnown DEF ImageFails
<1>17. CASE Kill
  BY <1>17, FailKnown DEF Kill
<1>18. CASE UNCHANGED vars
  BY <1>18 DEF vars, KnownInv, TypeOK
<1> QED
  BY <1>1, <1>2, <1>3, <1>4, <1>5, <1>7, <1>8, <1>9, <1>10, <1>11, <1>12, <1>13, <1>14,
     <1>15, <1>16, <1>17, <1>18 DEF Next

LEMMA KnownAlways == Spec => []KnownInv
<1>1. KnownInv /\ [Next]_vars => KnownInv'
  BY KnownStep
<1> QED
  BY <1>1, KnownInit, PTL DEF Spec

\* The variables keep their types; the command line in hand and the one in the image
\* never lose their last word, and past read_misc() the SIM count is set (154-172).
THEOREM TypeCorrect == Spec => []TypeOK
<1>1. KnownInv => TypeOK
  BY DEF KnownInv
<1> QED
  BY <1>1, KnownAlways, PTL

------------------------------------------------------------------------------
(* The name in misc *)

LEMMA NameStep ==
  ASSUME KnownInv, NameInv, [Next]_vars
  PROVE  NameInv'
<1> USE DEF found, stream, known
<1>1. CASE ReadMisc
  BY <1>1 DEF ReadMisc, NameInv, KnownInv
<1>2. CASE NoMisc
  BY <1>2 DEF NoMisc, NameInv, KnownInv
<1>3. ASSUME pc' # "write_misc" PROVE NameInv'
  BY <1>3 DEF NameInv
<1>4. ASSUME ~ ReadMisc, ~ NoMisc, ~ UNCHANGED vars PROVE pc' # "write_misc"
  <2>1. ASSUME NEW n \in 1 .. 2, WritePage(n) PROVE pc' # "write_misc"
    BY <2>1 DEF WritePage
  <2>2. ASSUME NEW n \in 0 .. 2, ReadPage(n) PROVE pc' # "write_misc"
    BY <2>2 DEF ReadPage
  <2>3. ASSUME NEW o \in Options, Start(o) PROVE pc' # "write_misc"
    BY <2>3 DEF Start
  <2> QED
    BY <1>4, <2>1, <2>2, <2>3 DEF Next, NoNameAtAll, WriteMisc, WriteSysfsModel, WriteSysfsSim,
       SysfsFailed, AfterSysfs, ReadImage, WriteHeader, Close, ImageFails, Kill, Fail, Succeed
<1>5. CASE UNCHANGED vars
  BY <1>5 DEF vars, NameInv
<1> QED
  BY <1>1, <1>2, <1>3, <1>4, <1>5

\* misc is written on request only, with the name in use, as far as it fits: the one
\* given, the one that was there, or the fallback in boot mode (main(), 154-165; write_misc(), 297-332).
THEOREM MiscAsNamed == Spec => MiscNamedByUser
<1> USE DEF found, stream, known
<1>1. Init => NameInv
  BY DEF Init, NameInv
<1>2. KnownInv /\ NameInv /\ [Next]_vars => NameInv'
  BY NameStep
<1> DEFINE Named == /\ opts.write /\ misc'.magic
                    /\ misc'.model \in {Stored(opts.given), misc.model} \cup
                                         (IF opts.boot THEN {Stored(Fallback)} ELSE {})
                    /\ opts.given # NoName => misc'.model = Stored(opts.given)
<1>3. ASSUME KnownInv, NameInv, [Next]_vars PROVE Named \/ misc' = misc
  <2>1. CASE WriteMisc
    <3>1. misc' = misc \/ (opts.write /\ misc' = [magic |-> TRUE, model |-> Stored(model)])
      BY <2>1 DEF WriteMisc
    <3>2. pc = "write_misc" /\ Stored(misc.model) = misc.model
      BY <1>3, <2>1, NamesAre DEF WriteMisc, KnownInv, TypeOK
    <3> QED
      BY <1>3, <3>1, <3>2 DEF NameInv
  <2>2. ASSUME ~ WriteMisc PROVE misc' = misc
    <3>1. ASSUME NEW n \in 1 .. 2, WritePage(n) PROVE misc' = misc
      BY <3>1 DEF WritePage
    <3>2. ASSUME NEW n \in 0 .. 2, ReadPage(n) PROVE misc' = misc
      BY <3>2 DEF ReadPage
    <3>3. ASSUME NEW o \in Options, Start(o) PROVE misc' = misc
      BY <3>3 DEF Start
    <3>4. \A how : Fail(how) => misc' = misc
      BY DEF Fail
    <3> QED
      BY <1>3, <2>2, <3>1, <3>2, <3>3, <3>4 DEF Next, ReadMisc, NoMisc, NoNameAtAll,
         WriteSysfsModel, WriteSysfsSim, SysfsFailed, AfterSysfs, ReadImage, WriteHeader,
         Close, ImageFails, Kill, vars
  <2> QED
    BY <2>1, <2>2
<1>4. KnownInv /\ NameInv /\ [Next]_vars => [Named]_misc
  BY <1>3
<1> QED
  BY <1>1, <1>2, <1>4, KnownAlways, PTL DEF Spec, MiscNamedByUser

------------------------------------------------------------------------------
(* The pipe *)

LEMMA TakeIs ==
  ASSUME NEW S, NEW b \in Seq(S), NEW held \in 0 .. 2, Len(b) = 2
  PROVE  /\ SubSeq(b, 1, held) \in Seq(S) /\ Len(SubSeq(b, 1, held)) = held
         /\ \A k \in 1 .. held : SubSeq(b, 1, held)[k] = b[k]
<1>1. \A k \in 1 .. held : b[k] \in S
  OBVIOUS
<1> QED
  BY <1>1

LEMMA PageIs ==
  ASSUME NEW S, NEW b \in Seq(S), Len(b) = 2
  PROVE  \A k \in 1 .. 2 : b[k] \in S
OBVIOUS

LEMMA JoinIs ==
  ASSUME NEW S, NEW a \in Seq(S), NEW b \in Seq(S)
  PROVE  /\ a \o b \in Seq(S) /\ Len(a \o b) = Len(a) + Len(b)
         /\ \A k \in 1 .. Len(a) : (a \o b)[k] = a[k]
         /\ \A k \in Len(a) + 1 .. Len(a) + Len(b) : (a \o b)[k] = b[k - Len(a)]
OBVIOUS

\* A write() moves what is held to the output.
LEMMA WriteInOrder ==
  ASSUME NEW out, NEW b \in Seq(Int), NEW held, NEW in, NEW n,
         InOrder(out, b, held, in, n), Len(b) = 2
  PROVE  InOrder(out \o SubSeq(b, 1, held), b, 0, in, n)
<1> DEFINE w == SubSeq(b, 1, held)
           new == out \o w
<1>1. held \in 0 .. 2 /\ out \in Seq(Int) /\ in \in Seq(Int) /\ n \in Nat
  BY DEF InOrder
<1>2. w \in Seq(Int) /\ Len(w) = held /\ \A k \in 1 .. held : w[k] = b[k]
  <2>1. b \in Seq(Int) /\ held \in 0 .. 2 /\ Len(b) = 2
    BY <1>1
  <2>2. /\ SubSeq(b, 1, held) \in Seq(Int) /\ Len(SubSeq(b, 1, held)) = held
        /\ \A k \in 1 .. held : SubSeq(b, 1, held)[k] = b[k]
    BY <2>1, TakeIs
  <2> QED
    BY <2>2 DEF w
<1> HIDE DEF w
<1>3. /\ new \in Seq(Int) /\ Len(new) = Len(out) + held
      /\ \A k \in 1 .. Len(out) : new[k] = out[k]
      /\ \A k \in Len(out) + 1 .. Len(out) + held : new[k] = w[k - Len(out)]
  BY <1>1, <1>2
<1> HIDE DEF new
<1>4. Len(out) \in Nat /\ Len(in) \in Nat
  BY <1>1
<1>5. ASSUME NEW k \in 1 .. Len(new) PROVE new[k] = k - 2
  <2>1. CASE k <= Len(out)
    BY <1>3, <1>4, <2>1 DEF InOrder
  <2>2. CASE k > Len(out)
    <3> DEFINE j == k - Len(out)
    <3>1. j \in 1 .. held /\ k \in Len(out) + 1 .. Len(out) + held /\ k = Len(out) + j
      BY <1>1, <1>3, <1>4, <2>2
    <3>2. new[k] = b[j]
      BY <1>2, <1>3, <3>1
    <3>3. b[j] = Len(out) + j - 2
      BY <3>1 DEF InOrder
    <3> QED
      BY <1>4, <3>1, <3>2, <3>3
  <2> QED
    BY <1>3, <1>4, <2>1, <2>2
<1>6. /\ Len(new) + 0 + Len(in) = n
      /\ \A k \in 1 .. Len(in) : in[k] = Len(new) + 0 + k - 2
  BY <1>1, <1>3, <1>4 DEF InOrder
<1>7. InOrder(new, b, 0, in, n)
  BY <1>1, <1>3, <1>5, <1>6 DEF InOrder
<1> QED
  BY <1>7 DEF new, w

\* A read() moves what it gets from the pipe into the page.
LEMMA ReadInOrder ==
  ASSUME NEW out, NEW b, NEW in, NEW n, InOrder(out, b, 0, in, n),
         NEW got \in 0 .. 2, got <= Len(in)
  PROVE  InOrder(out, [k \in 1 .. 2 |-> IF k <= got THEN in[k] ELSE b[k]], got,
                 SubSeq(in, got + 1, Len(in)), n)
<1> DEFINE page == [k \in 1 .. 2 |-> IF k <= got THEN in[k] ELSE b[k]]
           rest == SubSeq(in, got + 1, Len(in))
<1>1. /\ out \in Seq(Int) /\ in \in Seq(Int) /\ n \in Nat
      /\ Len(out) \in Nat /\ Len(in) \in Nat
      /\ Len(out) + Len(in) = n
      /\ \A k \in 1 .. Len(out) : out[k] = k - 2
      /\ \A k \in 1 .. Len(in) : in[k] = Len(out) + k - 2
  BY DEF InOrder
<1>2. /\ rest \in Seq(Int) /\ Len(rest) = Len(in) - got
      /\ \A k \in 1 .. Len(rest) : rest[k] = in[got + k]
  BY <1>1
<1> HIDE DEF rest
<1>3. ASSUME NEW k \in 1 .. got PROVE page[k] = Len(out) + k - 2
  <2>1. page[k] = in[k] /\ k \in 1 .. Len(in)
    BY <1>1
  <2> QED
    BY <1>1, <2>1
<1>4. ASSUME NEW k \in 1 .. Len(rest) PROVE rest[k] = Len(out) + got + k - 2
  <2>1. got + k \in 1 .. Len(in) /\ rest[k] = in[got + k]
    BY <1>1, <1>2, SMTT(30)
  <2>2. in[got + k] = Len(out) + (got + k) - 2
    BY <1>1, <2>1
  <2> QED
    BY <1>1, <2>1, <2>2
<1>5. Len(out) + got + Len(rest) = n
  BY <1>1, <1>2
<1> HIDE DEF page
<1>6. InOrder(out, page, got, rest, n)
  BY <1>1, <1>2, <1>3, <1>4, <1>5 DEF InOrder
<1> QED
  BY <1>6 DEF page, rest

\* All written: the image is whole.
LEMMA AllInOrder ==
  ASSUME NEW out, NEW b, NEW pages \in Nat, InOrder(out, b, 0, <<>>, pages + 2)
  PROVE  out = Header \o [k \in 1 .. pages |-> k]
<1> DEFINE t == [k \in 1 .. pages |-> k]
           whole == Header \o t
<1>1. out \in Seq(Int) /\ Len(out) = pages + 2 /\ \A k \in 1 .. Len(out) : out[k] = k - 2
  BY DEF InOrder
<1>2. t \in Seq(Int) /\ Len(t) = pages /\ \A k \in 1 .. pages : t[k] = k
  OBVIOUS
<1>3. Header \in Seq(Int) /\ Len(Header) = 2 /\ Header[1] = -1 /\ Header[2] = 0
  BY DEF Header
<1> HIDE DEF t
<1>4. /\ whole \in Seq(Int) /\ Len(whole) = pages + 2
      /\ \A k \in 1 .. 2 : whole[k] = Header[k]
      /\ \A k \in 3 .. pages + 2 : whole[k] = t[k - 2]
  <2>1. /\ whole \in Seq(Int) /\ Len(whole) = Len(Header) + Len(t)
        /\ \A k \in 1 .. Len(Header) : whole[k] = Header[k]
        /\ \A k \in Len(Header) + 1 .. Len(Header) + Len(t) : whole[k] = t[k - Len(Header)]
    BY <1>2, <1>3, JoinIs
  <2> QED
    BY <1>2, <1>3, <2>1
<1> HIDE DEF whole
<1>5. ASSUME NEW k \in 1 .. pages + 2 PROVE whole[k] = k - 2
  <2>1. k = 1 \/ k = 2 \/ k \in 3 .. pages + 2
    OBVIOUS
  <2> QED
    BY <1>2, <1>3, <1>4, <2>1
<1>6. out = whole
  <2>1. Len(out) = Len(whole) /\ \A k \in 1 .. Len(out) : out[k] = whole[k]
    BY <1>1, <1>4, <1>5
  <2> QED
    BY <1>1, <1>4, <2>1
<1> QED
  BY <1>6 DEF whole, t

\* The steps that leave the page and the pipe alone stay on the way to the image.
Before == {"read_misc", "write_misc", "sysfs_model", "sysfs_sim", "sysfs_done", "read_image"}

LEMMA FreshInOrder ==
  ASSUME NEW b, NEW pages \in Nat
  PROVE  InOrder(Header, b, 0, [k \in 1 .. pages |-> k], pages + 2)
<1> DEFINE t == [k \in 1 .. pages |-> k]
<1>1. t \in Seq(Int) /\ Len(t) = pages /\ \A k \in 1 .. pages : t[k] = k
  OBVIOUS
<1>2. Header \in Seq(Int) /\ Len(Header) = 2 /\ \A k \in 1 .. 2 : Header[k] = k - 2
  BY DEF Header
<1> HIDE DEF t
<1>3. InOrder(Header, b, 0, t, pages + 2)
  BY <1>1, <1>2 DEF InOrder
<1> QED
  BY <1>3 DEF t

LEMMA HeaderInOrder ==
  ASSUME NEW b, NEW in, NEW n, InOrder(Header, b, 0, in, n)
  PROVE  InOrder(<<>>, Header, 2, in, n)
<1>1. Header \in Seq(Int) /\ Len(Header) = 2 /\ \A k \in 1 .. 2 : Header[k] = k - 2
  BY DEF Header
<1>2. <<>> \in Seq(Int) /\ Len(<<>>) = 0
  OBVIOUS
<1> QED
  BY <1>1, <1>2 DEF InOrder

LEMMA MemoryPipe ==
  ASSUME NEW o \in Options \cup {NoOptions}, Memory(o),
         pc' = "read_misc" \/ pc' = "idle", status' # "0"
  PROVE  PipeInv'
<1>1. o.pages \in Nat /\ opts' = o /\ buf' = Header /\ Header \in Seq(Int) /\ output' = <<>>
      /\ input' = [k \in 1 .. o.pages |-> k]
  BY OptionsAre DEF Memory, Header
<1>2. InOrder(Header, buf', 0, input', opts'.pages + 2)
  BY <1>1, FreshInOrder
<1> QED
  BY <1>1, <1>2 DEF PipeInv

LEMMA ToldInit ==
  ASSUME Init
  PROVE  ToldInv /\ EditInv /\ PipeInv
<1>1. ToldInv
  BY DEF Init, ToldInv, Later
<1>2. EditInv
  BY DEF Init, EditInv
<1>3. opts.pages \in Nat /\ buf \in Seq(Int)
  BY OptionsAre DEF Init, Header
<1> QED
  BY <1>1, <1>2, <1>3 DEF Init, PipeInv

LEMMA ToldStep ==
  ASSUME KnownInv, ToldInv, [Next]_vars
  PROVE  ToldInv'
<1> USE DEF found, stream, known, Later
<1>1. ASSUME NEW o \in Options, Start(o) PROVE ToldInv'
  BY <1>1 DEF Start, ToldInv
<1>2. \A how \in {"1", "killed"} : Fail(how) => ToldInv'
  BY DEF Fail, ToldInv
<1>3. CASE ReadMisc \/ NoMisc
  BY <1>3 DEF ReadMisc, NoMisc, ToldInv
<1>4. CASE WriteMisc
  BY <1>4 DEF WriteMisc, ToldInv
<1>5. CASE WriteSysfsModel
  BY <1>5 DEF WriteSysfsModel, ToldInv
<1>6. CASE WriteSysfsSim
  <2>1. bad' \/ (kernel => sysfs'.sim = SimText(sim))
    BY <1>6 DEF WriteSysfsSim, WriteSysfs, KnownInv, TypeOK
  <2> QED
    BY <1>6, <2>1 DEF WriteSysfsSim, ToldInv
<1>7. CASE AfterSysfs
  <2>1. sim # 0 /\ ~ bad
    BY <1>7 DEF AfterSysfs, KnownInv, TypeOK
  <2> QED
    BY <1>7, <2>1 DEF AfterSysfs, Succeed, ToldInv
<1>8. CASE ReadImage
  <2>1. opts.target \in {"file", "pipe"}
    BY <1>8 DEF ReadImage, ToldInv, KnownInv, TypeOK
  <2> QED
    BY <1>8, <2>1 DEF ReadImage, ToldInv
<1>9. CASE WriteHeader
  BY <1>9 DEF WriteHeader, ToldInv
<1>10. ASSUME NEW n \in 1 .. 2, WritePage(n) PROVE ToldInv'
  BY <1>10 DEF WritePage, ToldInv
<1>11. ASSUME NEW n \in 0 .. 2, ReadPage(n) PROVE ToldInv'
  BY <1>11 DEF ReadPage, ToldInv
<1>12. CASE Close
  BY <1>12 DEF Close, Succeed, ToldInv
<1>13. CASE UNCHANGED vars
  BY <1>13 DEF vars, ToldInv
<1>14. NoNameAtAll \/ SysfsFailed \/ ImageFails \/ Kill => ToldInv'
  BY <1>2 DEF NoNameAtAll, SysfsFailed, ImageFails, Kill
<1> QED
  BY <1>1, <1>3, <1>4, <1>5, <1>6, <1>7, <1>8, <1>9, <1>10, <1>11, <1>12, <1>13, <1>14
     DEF Next

LEMMA PipeStep ==
  ASSUME KnownInv, ToldInv, PipeInv, [Next]_vars
  PROVE  PipeInv'
<1> USE DEF found, stream, known
<1>1. ASSUME NEW o \in Options, Start(o) PROVE PipeInv'
  BY <1>1, MemoryPipe DEF Start
<1>2. \A how \in {"1", "killed"} : Fail(how) => PipeInv'
  BY MemoryPipe DEF Fail
\* Nothing moves before the header is read.
<1>3. ASSUME UNCHANGED <<opts, buf, input, output>>, pc \in Before, pc' \in Before,
             status' = status
      PROVE  PipeInv'
  <2>1. InOrder(Header, buf', 0, input', opts'.pages + 2) /\ output' = <<>>
    BY <1>3 DEF PipeInv, Before
  <2>2. opts'.pages \in Nat /\ buf' \in Seq(Int) /\ status' # "0"
    BY <1>3 DEF PipeInv, ToldInv, Before
  <2> QED
    BY <1>3, <2>1, <2>2 DEF PipeInv, Before
<1>4. CASE ReadMisc \/ NoMisc \/ WriteMisc \/ WriteSysfsModel \/ WriteSysfsSim
  <2>1. /\ UNCHANGED <<opts, buf, input, output>> /\ status' = status
        /\ pc \in Before /\ pc' \in Before
    BY <1>4 DEF ReadMisc, NoMisc, WriteMisc, WriteSysfsModel, WriteSysfsSim, Before
  <2> QED
    BY <1>3, <2>1
<1>5. CASE AfterSysfs
  <2>1. CASE opts.target = "none"
    BY <1>5, <2>1 DEF AfterSysfs, Succeed, PipeInv
  <2>2. CASE opts.target # "none"
    BY <1>3, <1>5, <2>2 DEF AfterSysfs, Before
  <2> QED
    BY <2>1, <2>2
<1>6. CASE ReadImage
  <2>1. InOrder(Header, buf, 0, input, opts.pages + 2) /\ output = <<>>
    BY <1>6 DEF ReadImage, PipeInv
  <2>2. InOrder(<<>>, Header, 2, input, opts.pages + 2)
    BY <2>1, HeaderInOrder
  <2>3. /\ buf' = Header /\ cnt' = 2 /\ input' = input /\ output' = <<>> /\ opts' = opts
        /\ pc' \in {"write_header", "write_page"} /\ status' = "running"
        /\ Header \in Seq(Int)
    BY <1>6, <2>1 DEF ReadImage, ToldInv, Header
  <2> QED
    BY <2>2, <2>3 DEF PipeInv
<1>7. CASE WriteHeader
  <2>1. opts'.target = "file" /\ status' = "running"
    BY <1>7 DEF WriteHeader, ToldInv
  <2> QED
    BY <1>7, <2>1 DEF WriteHeader, PipeInv
<1>8. ASSUME NEW n \in 1 .. 2, WritePage(n) PROVE PipeInv'
  <2>1. InOrder(output, buf, cnt, input, opts.pages + 2) /\ buf \in Seq(Int) /\ Len(buf) = 2
    BY <1>8 DEF WritePage, PipeInv, KnownInv, TypeOK
  <2>2. InOrder(output \o SubSeq(buf, 1, cnt), buf, 0, input, opts.pages + 2)
    BY <2>1, WriteInOrder
  <2>3. /\ output' = output \o SubSeq(buf, 1, cnt) /\ buf' = buf /\ input' = input
        /\ opts' = opts /\ pc' = "read_page" /\ status' = "running"
    BY <1>8 DEF WritePage, Enough, ToldInv
  <2> QED
    BY <2>2, <2>3 DEF PipeInv
<1>9. ASSUME NEW n \in 0 .. 2, ReadPage(n) PROVE PipeInv'
  <2>1. InOrder(output, buf, 0, input, opts.pages + 2) /\ n <= Len(input)
        /\ buf \in Seq(Int) /\ Len(buf) = 2
    BY <1>9 DEF ReadPage, PipeInv, KnownInv, TypeOK
  <2>2. /\ buf' = [k \in 1 .. 2 |-> IF k <= n THEN input[k] ELSE buf[k]]
        /\ input' = SubSeq(input, n + 1, Len(input)) /\ cnt' = n /\ output' = output
        /\ opts' = opts /\ status' = "running" /\ opts.pages \in Nat
    BY <1>9 DEF ReadPage, ToldInv, PipeInv
  <2>3. InOrder(output, buf', n, input', opts.pages + 2)
    BY <2>1, <2>2, ReadInOrder
  <2>4. buf' \in Seq(Int)
    <3>1. \A k \in 1 .. 2 : buf[k] \in Int /\ (k <= n => input[k] \in Int)
      <4>1. \A k \in 1 .. 2 : buf[k] \in Int
        BY <2>1, PageIs
      <4>2. input \in Seq(Int)
        BY <2>1 DEF InOrder
      <4>3. \A k \in 1 .. n : input[k] \in Int
        BY <2>1, <4>2
      <4> QED
        BY <4>1, <4>3
    <3> QED
      BY <2>2, <3>1
  <2>5. CASE n = 0
    <3>1. input = <<>> /\ pc' = "close"
      BY <1>9, <2>5 DEF ReadPage
    <3>2. output = Header \o [k \in 1 .. opts.pages |-> k]
      BY <2>1, <2>2, <3>1, AllInOrder
    <3> QED
      BY <2>2, <2>4, <3>1, <3>2 DEF PipeInv
  <2>6. CASE n # 0
    <3>1. pc' = "write_page"
      BY <1>9, <2>6 DEF ReadPage
    <3> QED
      BY <2>2, <2>3, <2>4, <3>1 DEF PipeInv
  <2> QED
    BY <2>5, <2>6
<1>10. CASE Close
  BY <1>10 DEF Close, Succeed, PipeInv
<1>11. CASE UNCHANGED vars
  BY <1>11 DEF vars, PipeInv
<1>12. NoNameAtAll \/ SysfsFailed \/ ImageFails \/ Kill => PipeInv'
  BY <1>2 DEF NoNameAtAll, SysfsFailed, ImageFails, Kill
<1> QED
  BY <1>1, <1>4, <1>5, <1>6, <1>7, <1>8, <1>9, <1>10, <1>11, <1>12 DEF Next

\* An image that was copied through a pipe is whole, whatever the lengths of the reads
\* were, and each of its bytes is at its place (write_bootimg(), 498-514).
THEOREM PipeWhole == Spec => []PipeCopiesWhole
<1>1. Init => ToldInv /\ PipeInv
  BY ToldInit
<1>2. KnownInv /\ ToldInv /\ PipeInv /\ [Next]_vars => ToldInv' /\ PipeInv'
  BY ToldStep, PipeStep
<1>3. PipeInv => PipeCopiesWhole
  BY DEF PipeInv, PipeCopiesWhole
<1> QED
  BY <1>1, <1>2, <1>3, KnownAlways, PTL DEF Spec

------------------------------------------------------------------------------
(* The command line in the image *)

LEMMA EditStep ==
  ASSUME KnownInv, ToldInv, EditInv, [Next]_vars
  PROVE  EditInv'
<1> USE DEF found, stream, known
<1>1. ASSUME NEW o \in Options, Start(o) PROVE EditInv'
  BY <1>1 DEF Start, EditInv
<1>2. \A how \in {"1", "killed"} : Fail(how) => EditInv'
  BY DEF Fail, EditInv
<1>3. ASSUME pc' # "close", status' = "running" PROVE EditInv'
  BY <1>3 DEF EditInv
<1>4. CASE \/ ReadMisc \/ NoMisc \/ WriteMisc \/ WriteSysfsModel \/ WriteSysfsSim
           \/ ReadImage \/ \E n \in 1 .. 2 : WritePage(n)
  BY <1>3, <1>4 DEF ReadMisc, NoMisc, WriteMisc, WriteSysfsModel, WriteSysfsSim, ReadImage,
     WritePage, ToldInv
<1>5. CASE AfterSysfs
  BY <1>3, <1>5 DEF AfterSysfs, Succeed, EditInv, ToldInv
<1>6. CASE WriteHeader
  <2>1. image.cmd \in Lines /\ model \in Seq(Texts) /\ sim \in 1 .. 4
        /\ cmd = Edited(image.cmd, model, sim)
    BY <1>6, NamesAre DEF WriteHeader, KnownInv, TypeOK, ToldInv
  <2>2. image'.cmd = cmd /\ model' = model /\ sim' = sim
    BY <1>6 DEF WriteHeader, KnownInv
  <2>3. Edited(cmd, model, sim) = cmd
    BY <2>1, EditedTwice
  <2> QED
    BY <2>2, <2>3 DEF EditInv
<1>7. ASSUME NEW n \in 0 .. 2, ReadPage(n) PROVE EditInv'
  BY <1>7 DEF ReadPage, EditInv, ToldInv
<1>8. CASE Close
  BY <1>8 DEF Close, Succeed, EditInv
<1>9. CASE UNCHANGED vars
  BY <1>9 DEF vars, EditInv
<1>10. NoNameAtAll \/ SysfsFailed \/ ImageFails \/ Kill => EditInv'
  BY <1>2 DEF NoNameAtAll, SysfsFailed, ImageFails, Kill
<1> QED
  BY <1>1, <1>4, <1>5, <1>6, <1>7, <1>8, <1>9, <1>10 DEF Next

\* An image patched with success is not changed by a run with the same settings
\* (the comparison at 458 finds each entry as it is to be).
THEOREM RerunsAlike == Spec => []RerunChangesNothing
<1>1. Init => ToldInv /\ EditInv
  BY ToldInit
<1>2. KnownInv /\ ToldInv /\ EditInv /\ [Next]_vars => ToldInv' /\ EditInv'
  BY ToldStep, EditStep
<1>3. EditInv => RerunChangesNothing
  BY DEF EditInv, RerunChangesNothing, Patched
<1> QED
  BY <1>1, <1>2, <1>3, KnownAlways, PTL DEF Spec

PlainLines == \A c \in CmdLines : Plain(c)

LEMMA AgreeStep ==
  ASSUME KnownInv, ToldInv, AgreeInv, [Next]_vars
  PROVE  AgreeInv'
<1> USE DEF found, stream, known
<1>1. ASSUME NEW o \in Options, Start(o) PROVE AgreeInv'
  BY <1>1 DEF Start, AgreeInv
<1>2. \A how \in {"1", "killed"} : Fail(how) => AgreeInv'
  BY DEF Fail, AgreeInv
<1>3. ASSUME pc' # "close", status' = "running", image' = image PROVE AgreeInv'
  BY <1>3 DEF AgreeInv
<1>4. CASE \/ ReadMisc \/ NoMisc \/ WriteMisc \/ WriteSysfsModel \/ WriteSysfsSim
           \/ ReadImage \/ \E n \in 1 .. 2 : WritePage(n)
  BY <1>3, <1>4 DEF ReadMisc, NoMisc, WriteMisc, WriteSysfsModel, WriteSysfsSim, ReadImage,
     WritePage, ToldInv
<1>5. CASE AfterSysfs
  BY <1>3, <1>5 DEF AfterSysfs, Succeed, AgreeInv, ToldInv
<1>6. CASE WriteHeader
  <2>1. image.cmd \in Lines /\ model \in Seq(Texts) /\ sim \in 1 .. 4 /\ Plain(image.cmd)
        /\ cmd = Edited(image.cmd, model, sim)
    BY <1>6, NamesAre DEF WriteHeader, KnownInv, TypeOK, ToldInv, AgreeInv
  <2>2. image'.cmd = cmd /\ sim' = sim
    BY <1>6 DEF WriteHeader, KnownInv
  <2>3. /\ Plain(cmd)
        /\ Value(cmd, "lge.sim_num") = SimText(sim)
        /\ Value(cmd, "lge.dsds") = DsdsText(sim)
    BY <2>1, EditedPlain
  <2> QED
    BY <2>2, <2>3 DEF AgreeInv
<1>7. ASSUME NEW n \in 0 .. 2, ReadPage(n) PROVE AgreeInv'
  BY <1>7 DEF ReadPage, AgreeInv, ToldInv
<1>8. CASE Close
  BY <1>8 DEF Close, Succeed, AgreeInv
<1>9. CASE UNCHANGED vars
  BY <1>9 DEF vars, AgreeInv
<1>10. NoNameAtAll \/ SysfsFailed \/ ImageFails \/ Kill => AgreeInv'
  BY <1>2 DEF NoNameAtAll, SysfsFailed, ImageFails, Kill
<1> QED
  BY <1>1, <1>4, <1>5, <1>6, <1>7, <1>8, <1>9, <1>10 DEF Next

\* After success both kernels have been told the same SIM count, the next one in both
\* of its words; for images whose own SIM settings are not longer than a setting is,
\* since strncmp() over the wanted length takes a longer one for the same (458).
THEOREM KernelsAgree ==
  ASSUME PlainLines
  PROVE  Spec => []SimSettingsAgree
<1>1. Init => ToldInv /\ AgreeInv
  <2>1. Init => Plain(image.cmd) /\ status # "0" /\ pc # "close"
    BY DEF Init, PlainLines
  <2> QED
    BY <2>1, ToldInit DEF AgreeInv
<1>2. KnownInv /\ ToldInv /\ AgreeInv /\ [Next]_vars => ToldInv' /\ AgreeInv'
  BY ToldStep, AgreeStep
<1>3. ToldInv /\ AgreeInv => SimSettingsAgree
  BY DEF ToldInv, AgreeInv, SimSettingsAgree, Patched
<1> QED
  BY <1>1, <1>2, <1>3, KnownAlways, PTL DEF Spec
==============================================================================
