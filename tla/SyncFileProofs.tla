---------------------------- MODULE SyncFileProofs ----------------------------
(***************************************************************************)
(* The boot image scripts and syncfile: what is moved inside the image,    *)
(* what is copied to the target, and that the result can be booted, for    *)
(* any page size, images and targets.                                      *)
(***************************************************************************)
EXTENDS SyncFile, TLAPS

\* What the theorems about the contents assume: a ramdisk that needs more pages than
\* the one it replaces comes after a kernel that ends before the first place a page is
\* moved to (the loop of bootimg-mod-ramdisk.py:254 does not stop at the kernel).
KernelSpared ==
  \A f \in Images : \A n \in NewRamdisks :
    \A k \in {Size(f[1], 1)} \cup NewKernels, m \in {Size(f[1], 2)} \cup NewRamdisks :
      Space(n) > Space(m) => k <= Space(n) - Space(m) + 1

\* A place that is a page's.
Multiple(x) == \E m \in Int : x = m * P

\* Units first to last of f are in g, d places on, as far as f has them.
Copied(f, first, last, g, d) ==
  \A i \in first .. last :
    i <= Len(f) => i + d \in 1 .. Len(g) /\ g[i + d] = f[i]

\* The image is a file with a header, whose kernel and ramdisk are of known sizes.
Sized(h) ==
  \E f \in Images : /\ Size(h, 1) \in {Size(f[1], 1)} \cup NewKernels
                    /\ Size(h, 2) \in {Size(f[1], 2)} \cup NewRamdisks

IsImage(f) == IsSequence(f) /\ Len(f) >= P /\ IsHeader(f[1]) /\ Sized(f[1])

\* Writing, a script knows what it writes.
Writing == {"grow", "write", "shrink", "truncate", "header"}

FileInv ==
  /\ IsImage(image)
  /\ what \in 1 .. 2 /\ ret \in {0, 1} /\ runs \in 0 .. MaxRuns
  /\ pc \in {"idle", "kernel", "ramdisk"} \cup Writing
  /\ pc = "idle" => head = <<>>
  /\ pc # "idle" => head = image[1] /\ IsImage(began) /\ began[1] = head
  /\ pc \in {"kernel", "ramdisk"} => image = began /\ pos = 0
  /\ pc = "kernel" => what = 1
  /\ pc = "ramdisk" => what = 2
  /\ pc \in Writing =>
       /\ Len(new) \in (IF what = 1 THEN NewKernels ELSE NewRamdisks)
       /\ new = Units(Sections[what], runs, Len(new))

\* How far the position has come.
PosInv ==
  /\ pc = "grow" => delta > 0 /\ pos \in 0 .. Len(began) - P
  /\ pc = "write" => pos \in 0 .. Space(Len(new)) /\ pos <= Len(image) /\ Multiple(pos)
  /\ pc = "shrink" => /\ delta < 0 /\ pos \in Nat /\ pos >= start + Space(Size(head, what))
                      /\ pos <= Longer(Len(image), Total(head)) + P
  /\ pc \in {"grow", "write", "shrink"} => Len(image) >= Len(began)
  /\ pc \in {"truncate", "header"} => pos = 0

\* syncfile: nothing runs beside it.
SyncInv ==
  /\ spc \in {"idle", "compare", "write", "copy"}
  /\ spc # "idle" => pc = "idle"
  /\ pc # "idle" => sret = "none"
  /\ sret \in {"none", "size", "failed"}
  /\ blksz \in BlockSizes \cup {"right"}
  /\ page \in 0 .. Pages
  /\ spc # "copy" => page = 0

TypeInv == FileInv /\ PosInv /\ SyncInv

\* What is before the section, but for the end of its last page; what is behind it.
Front  == IF what = 1 THEN P ELSE P + Size(head, 1)
Behind == start + Space(Size(head, what)) + 1

\* Where what the script has not to do with is, and what it has written.
MoveInv ==
  /\ pc \in Writing => Copied(began, 1, Front, image, 0)
  /\ pc = "grow" => /\ Copied(began, 1, pos + P, image, 0)
                    /\ Copied(began, pos + P + 1, Len(began), image, delta)
  /\ pc = "write" => /\ Copied(new, 1, pos, image, start)
                     /\ Copied(began, Behind, Len(began), image,
                               IF delta > 0 THEN delta ELSE 0)
  /\ pc \in {"shrink", "truncate", "header"} => Copied(new, 1, Len(new), image, start)
  /\ pc = "shrink" => /\ Copied(began, Behind, pos, image, delta)
                      /\ Copied(began, pos + 1, Len(began), image, 0)
  /\ pc = "truncate" => Copied(began, Behind, Len(began), image, delta)
  /\ pc = "header" => /\ Len(image) = Total(newHead)
                      /\ Copied(began, Behind, Total(newHead) - delta, image, delta)

\* Every section is there, of one version.
GoodImage(f) ==
  /\ HoldsAll(f)
  /\ \A s \in 1 .. 4 : \E v \in 0 .. MaxRuns :
       Section(f, s) = Units(Sections[s], v, Size(f[1], s))

GoodInv ==
  /\ pc = "idle" /\ ~spoiled => GoodImage(image)
  /\ pc # "idle" /\ ~spoiled => GoodImage(began)

\* What syncfile has copied.
CopyInv ==
  /\ IsSequence(target)
  /\ spc \in {"compare", "write"} => ~device /\ Len(target) >= Len(image)
  /\ spc = "copy" => /\ device
                     /\ page * P <= Len(target)
                     /\ Copied(image, 1, page * P, target, 0)
  /\ sret = "size" => /\ spc = "idle"
                      /\ blksz # "negative" => Read(target, 0, Len(image)) = image

------------------------------------------------------------------------------
(* Pages. *)

LEMMA PIs == P \in Nat /\ P > 0 /\ P \in Int
BY BootImageAssumption

LEMMA SpaceIs ==
  ASSUME NEW n \in Nat
  PROVE  n <= Space(n) /\ Space(n) < n + P /\ Space(n) \in Nat /\ Multiple(Space(n))
<1> DEFINE q == (n + P - 1) \div P
<1>1. q \in Int /\ q * P <= n + P - 1 /\ n + P - 1 < (q + 1) * P
  BY PIs
<1>2. (q + 1) * P = q * P + P /\ q * P \in Int
  BY PIs, <1>1
<1>3. Multiple(q * P)
  BY <1>1 DEF Multiple
<1> HIDE DEF q
<1> QED
  BY PIs, <1>1, <1>2, <1>3 DEF Space, q

\* From one page's place to a later one's it is a page at least.
LEMMA Gap ==
  ASSUME NEW x, NEW y, Multiple(x), Multiple(y), x < y
  PROVE  x + P <= y
<1>1. PICK m \in Int : x = m * P
  BY DEF Multiple
<1>2. PICK n \in Int : y = n * P
  BY DEF Multiple
<1>3. m < n
  BY PIs, <1>1, <1>2
<1>4. (m + 1) * P <= n * P
  BY PIs, <1>3
<1>5. (m + 1) * P = m * P + P
  BY PIs
<1> QED
  BY PIs, <1>1, <1>2, <1>4, <1>5

LEMMA Multiples ==
  ASSUME NEW x, NEW y, Multiple(x), Multiple(y)
  PROVE  Multiple(x + y) /\ Multiple(x - y) /\ x \in Int /\ y \in Int
<1>1. PICK m \in Int : x = m * P
  BY DEF Multiple
<1>2. PICK n \in Int : y = n * P
  BY DEF Multiple
<1>3. x + y = (m + n) * P /\ x - y = (m - n) * P /\ x \in Int /\ y \in Int
  BY PIs, <1>1, <1>2
<1>4. m + n \in Int /\ m - n \in Int
  OBVIOUS
<1>5. Multiple(x + y)
  BY <1>3, <1>4 DEF Multiple
<1>6. Multiple(x - y)
  BY <1>3, <1>4 DEF Multiple
<1> QED
  BY <1>3, <1>5, <1>6

LEMMA FirstPages == Multiple(0) /\ Multiple(P)
<1>1. \A m \in Int : Multiple(m * P)
  BY DEF Multiple
<1>2. 0 = 0 * P /\ P = 1 * P
  BY PIs
<1> QED
  BY <1>1, <1>2

LEMMA PagesAre ==
  ASSUME NEW n \in Nat
  PROVE  Space(n) \div P \in Nat /\ (Space(n) \div P) * P = Space(n)
<1> DEFINE q == (n + P - 1) \div P
<1>1. q \in Int /\ q * P <= n + P - 1 /\ n + P - 1 < (q + 1) * P
  BY PIs
<1>2. q >= 0
  <2>1. (q + 1) * P > 0
    BY PIs, <1>1
  <2>2. q + 1 > 0
    BY PIs, <1>1, <2>1
  <2> QED
    BY <1>1, <2>2
<1> HIDE DEF q
<1>3. (q * P) \div P = q
  BY PIs, <1>1
<1> QED
  BY <1>1, <1>2, <1>3 DEF Space, q

------------------------------------------------------------------------------
(* Files. *)

LEMMA SequenceIs ==
  ASSUME NEW f, IsSequence(f)
  PROVE  Len(f) \in Nat /\ DOMAIN f = 1 .. Len(f) /\ f = [i \in 1 .. Len(f) |-> f[i]]
<1> DEFINE S == {f[i] : i \in DOMAIN f}
<1>1. f \in Seq(S)
  BY DEF IsSequence
<1> HIDE DEF S
<1> QED
  BY <1>1

LEMMA IsOne ==
  ASSUME NEW f, NEW n \in Nat, f = [i \in 1 .. n |-> f[i]]
  PROVE  IsSequence(f) /\ Len(f) = n /\ DOMAIN f = 1 .. n
<1> DEFINE S == {f[i] : i \in DOMAIN f}
<1>1. DOMAIN f = 1 .. n
  OBVIOUS
<1>2. \A i \in 1 .. n : f[i] \in S
  BY <1>1
<1>3. f \in Seq(S)
  <2> HIDE DEF S
  <2>1. f \in [1 .. n -> S]
    BY <1>2
  <2> QED
    BY <2>1
<1>4. Len(f) = n
  <2> HIDE DEF S
  <2> QED
    BY <1>1, <1>3
<1> QED
  BY <1>1, <1>3, <1>4 DEF IsSequence

LEMMA SameFile ==
  ASSUME NEW f, NEW g, IsSequence(f), IsSequence(g), Len(f) = Len(g),
         \A i \in 1 .. Len(f) : f[i] = g[i]
  PROVE  f = g
<1>1. f = [i \in 1 .. Len(f) |-> f[i]] /\ g = [i \in 1 .. Len(f) |-> g[i]]
  BY SequenceIs
<1> QED
  BY <1>1

LEMMA WriteIs ==
  ASSUME NEW f, NEW buf, NEW at \in Nat, IsSequence(f), IsSequence(buf)
  PROVE  /\ IsSequence(Write(f, at, buf))
         /\ Len(Write(f, at, buf)) = Longer(Len(f), at + Len(buf))
         /\ \A i \in 1 .. Len(Write(f, at, buf)) :
              Write(f, at, buf)[i] = IF i \in at + 1 .. at + Len(buf) THEN buf[i - at]
                                     ELSE IF i <= Len(f) THEN f[i] ELSE Zero
<1> DEFINE w == Write(f, at, buf)
           n == Longer(Len(f), at + Len(buf))
<1>1. n \in Nat
  BY SequenceIs DEF Longer
<1>2. w = [i \in 1 .. n |-> w[i]]
  BY DEF Write
<1>3. \A i \in 1 .. n : w[i] = IF i \in at + 1 .. at + Len(buf) THEN buf[i - at]
                               ELSE IF i <= Len(f) THEN f[i] ELSE Zero
  BY DEF Write
<1> HIDE DEF w, n
<1>4. IsSequence(w) /\ Len(w) = n
  BY <1>1, <1>2, IsOne
<1> QED
  BY <1>3, <1>4 DEF w, n

LEMMA ResizeIs ==
  ASSUME NEW f, NEW n \in Nat, IsSequence(f)
  PROVE  /\ IsSequence(Resize(f, n)) /\ Len(Resize(f, n)) = n
         /\ \A i \in 1 .. n : Resize(f, n)[i] = IF i <= Len(f) THEN f[i] ELSE Zero
<1> DEFINE w == Resize(f, n)
<1>1. w = [i \in 1 .. n |-> w[i]]
  BY DEF Resize
<1>2. \A i \in 1 .. n : w[i] = IF i <= Len(f) THEN f[i] ELSE Zero
  BY DEF Resize
<1> HIDE DEF w
<1> QED
  BY <1>1, <1>2, IsOne DEF w

LEMMA UnitsIs ==
  ASSUME NEW name, NEW v, NEW n \in Nat
  PROVE  /\ IsSequence(Units(name, v, n)) /\ Len(Units(name, v, n)) = n
         /\ \A i \in 1 .. n : Units(name, v, n)[i] = <<name, v, i>>
<1> DEFINE w == Units(name, v, n)
<1>1. w = [i \in 1 .. n |-> w[i]]
  BY DEF Units
<1>2. \A i \in 1 .. n : w[i] = <<name, v, i>>
  BY DEF Units
<1> HIDE DEF w
<1> QED
  BY <1>1, <1>2, IsOne DEF w

\* Reading ends with the file.
LEMMA ReadIs ==
  ASSUME NEW f, NEW at \in Nat, NEW n \in Nat, IsSequence(f)
  PROVE  /\ IsSequence(Read(f, at, n)) /\ Len(Read(f, at, n)) \in 0 .. n
         /\ at + n <= Len(f) => Len(Read(f, at, n)) = n
         /\ at < Len(f) /\ Len(f) < at + n => Len(Read(f, at, n)) = Len(f) - at
         /\ at >= Len(f) => Len(Read(f, at, n)) = 0
         /\ \A i \in 1 .. Len(Read(f, at, n)) : i + at <= Len(f) /\ Read(f, at, n)[i] = f[i + at]
<1> DEFINE w == Read(f, at, n)
           m == Shorter(at + n, Len(f))
           k == IF at + 1 <= m THEN m - at ELSE 0
<1>1. Len(f) \in Nat /\ m \in Nat /\ m <= Len(f) /\ m <= at + n
  BY SequenceIs DEF Shorter
<1>2. w = [i \in 1 .. k |-> f[i + at]]
  <2> DEFINE S == {f[i] : i \in DOMAIN f}
  <2>1. f \in Seq(S)
    BY DEF IsSequence
  <2> HIDE DEF S, m
  <2>2. SubSeq(f, at + 1, m) = [i \in 1 .. k |-> f[i + at]]
    BY <2>1, <1>1
  <2> QED
    BY <2>2 DEF Read, m
<1>3. k \in Nat /\ k <= n /\ k + at <= Longer(at, Len(f))
  BY <1>1 DEF Longer
<1>4. \A i \in 1 .. k : i + at <= Len(f)
  BY <1>1
<1>5. /\ at + n <= Len(f) => k = n
      /\ at < Len(f) /\ Len(f) < at + n => k = Len(f) - at
      /\ at >= Len(f) => k = 0
  BY <1>1 DEF Shorter
<1> HIDE DEF w, k, m
<1>6. w = [i \in 1 .. k |-> w[i]] /\ \A i \in 1 .. k : w[i] = f[i + at]
  BY <1>2
<1>7. IsSequence(w) /\ Len(w) = k
  BY <1>3, <1>6, IsOne
<1> QED
  BY <1>3, <1>4, <1>5, <1>6, <1>7 DEF w

\* A write elsewhere leaves what was copied.
LEMMA WriteKeeps ==
  ASSUME NEW e, NEW x \in Nat, NEW y \in Int, NEW f, NEW d \in Int, NEW at \in Nat, NEW buf,
         IsSequence(e), IsSequence(f), IsSequence(buf), Copied(e, x, y, f, d),
         \/ y + d <= at
         \/ x + d > at + Len(buf)
  PROVE  Copied(e, x, y, Write(f, at, buf), d)
<1> DEFINE w == Write(f, at, buf)
<1>1. Len(e) \in Nat /\ Len(f) \in Nat /\ Len(buf) \in Nat
  BY SequenceIs
<1>2. /\ Len(w) = Longer(Len(f), at + Len(buf))
      /\ \A i \in 1 .. Len(w) : w[i] = IF i \in at + 1 .. at + Len(buf) THEN buf[i - at]
                                       ELSE IF i <= Len(f) THEN f[i] ELSE Zero
  BY WriteIs
<1>3. Len(w) >= Len(f) /\ Len(w) \in Nat
  BY <1>1, <1>2 DEF Longer
<1> HIDE DEF w
<1>4. ASSUME NEW i \in x .. y, i <= Len(e)
      PROVE  i + d \in 1 .. Len(w) /\ w[i + d] = e[i]
  <2>1. i + d \in 1 .. Len(f) /\ f[i + d] = e[i]
    BY <1>4 DEF Copied
  <2>2. i + d \in 1 .. Len(w)
    BY <1>1, <1>3, <2>1
  <2>3. ~ (i + d \in at + 1 .. at + Len(buf))
    BY <1>1, <1>4
  <2> QED
    BY <1>1, <1>2, <2>1, <2>2, <2>3
<1> QED
  BY <1>4 DEF Copied, w

\* What is written is there.
LEMMA Written ==
  ASSUME NEW f, NEW at \in Nat, NEW buf, IsSequence(f), IsSequence(buf)
  PROVE  Copied(buf, 1, Len(buf), Write(f, at, buf), at)
<1> DEFINE w == Write(f, at, buf)
<1>1. Len(f) \in Nat /\ Len(buf) \in Nat
  BY SequenceIs
<1>2. /\ Len(w) = Longer(Len(f), at + Len(buf))
      /\ \A i \in 1 .. Len(w) : w[i] = IF i \in at + 1 .. at + Len(buf) THEN buf[i - at]
                                       ELSE IF i <= Len(f) THEN f[i] ELSE Zero
  BY WriteIs
<1>3. Len(w) >= at + Len(buf) /\ Len(w) \in Nat
  BY <1>1, <1>2 DEF Longer
<1> HIDE DEF w
<1>4. ASSUME NEW i \in 1 .. Len(buf)
      PROVE  i + at \in 1 .. Len(w) /\ w[i + at] = buf[i]
  <2>1. i + at \in 1 .. Len(w) /\ i + at \in at + 1 .. at + Len(buf)
    BY <1>1, <1>3
  <2>2. (i + at) - at = i
    OBVIOUS
  <2> QED
    BY <1>2, <2>1, <2>2
<1> QED
  BY <1>4 DEF Copied, w

LEMMA PageIs ==
  ASSUME NEW f, NEW at \in Nat, IsSequence(f)
  PROVE  /\ IsSequence(Read(f, at, P)) /\ Len(Read(f, at, P)) \in 0 .. P
         /\ at + P <= Len(f) => Len(Read(f, at, P)) = P
         /\ at < Len(f) /\ Len(f) < at + P => Len(Read(f, at, P)) = Len(f) - at
         /\ \A i \in 1 .. Len(Read(f, at, P)) : Read(f, at, P)[i] = f[i + at]
<1>1. P \in Nat
  BY PIs
<1> DEFINE r == Read(f, at, P)
<1>2. /\ IsSequence(r) /\ Len(r) \in 0 .. P
      /\ at + P <= Len(f) => Len(r) = P
      /\ at < Len(f) /\ Len(f) < at + P => Len(r) = Len(f) - at
  <2>1. IsSequence(r) /\ Len(r) \in 0 .. P
    BY <1>1, ReadIs
  <2>2. at + P <= Len(f) => Len(r) = P
    BY <1>1, ReadIs
  <2>3. ASSUME at < Len(f), Len(f) < at + P PROVE Len(r) = Len(f) - at
    BY <1>1, <2>3, ReadIs, ZenonT(40)
  <2> QED
    BY <2>1, <2>2, <2>3
<1>3. \A i \in 1 .. Len(r) : r[i] = f[i + at]
  BY <1>1, ReadIs
<1> QED
  BY <1>2, <1>3

\* A page that is in its place is there after it has been moved.
LEMMA PageMoved ==
  ASSUME NEW e, NEW f, NEW at \in Nat, NEW d \in Int, NEW to \in Nat, to = at + d,
         IsSequence(e), IsSequence(f), Copied(e, at + 1, at + P, f, 0)
  PROVE  Copied(e, at + 1, at + P, Write(f, to, Read(f, at, P)), d)
<1> DEFINE r == Read(f, at, P)
           w == Write(f, to, r)
<1>1. Len(e) \in Nat /\ Len(f) \in Nat
  BY SequenceIs
<1>2. /\ IsSequence(r) /\ Len(r) \in 0 .. P
      /\ at + P <= Len(f) => Len(r) = P
      /\ at < Len(f) /\ Len(f) < at + P => Len(r) = Len(f) - at
      /\ \A i \in 1 .. Len(r) : r[i] = f[i + at]
  BY PageIs
<1> HIDE DEF r
<1>3. \A i \in 1 .. Len(r) : i + to \in 1 .. Len(w) /\ w[i + to] = r[i]
  <2>1. Copied(r, 1, Len(r), w, to)
    BY <1>2, Written
  <2> QED
    BY <1>2, <2>1 DEF Copied
<1> HIDE DEF w
<1>4. ASSUME NEW i \in at + 1 .. at + P, i <= Len(e)
      PROVE  i + d \in 1 .. Len(w) /\ w[i + d] = e[i]
  <2>1. i \in 1 .. Len(f) /\ f[i] = e[i]
    BY PIs, <1>4 DEF Copied
  <2>2. i - at \in 1 .. Len(r)
    BY PIs, <1>1, <1>2, <2>1
  <2>3. r[i - at] = f[i]
    <3>1. (i - at) + at = i
      OBVIOUS
    <3> QED
      BY <1>2, <2>2, <3>1
  <2>4. (i - at) + to = i + d
    BY <2>1
  <2> QED
    BY <1>3, <2>1, <2>2, <2>3, <2>4
<1> QED
  BY <1>4 DEF Copied, r, w

\* A page of the new section.
LEMMA PageWritten ==
  ASSUME NEW e, NEW f, NEW at \in Nat, NEW d \in Nat, NEW to \in Nat, to = d + at,
         IsSequence(e), IsSequence(f)
  PROVE  /\ IsSequence(Padded(Read(e, at, P))) /\ Len(Padded(Read(e, at, P))) = P
         /\ Copied(e, at + 1, at + P, Write(f, to, Padded(Read(e, at, P))), d)
<1> DEFINE r == Read(e, at, P)
           b == Padded(r)
           w == Write(f, to, b)
<1>1. Len(e) \in Nat /\ Len(f) \in Nat
  BY SequenceIs
<1>2. /\ IsSequence(r) /\ Len(r) \in 0 .. P
      /\ at + P <= Len(e) => Len(r) = P
      /\ at < Len(e) /\ Len(e) < at + P => Len(r) = Len(e) - at
      /\ \A i \in 1 .. Len(r) : r[i] = e[i + at]
  BY PageIs
<1> HIDE DEF r
<1>3. /\ IsSequence(b) /\ Len(b) = P
      /\ \A i \in 1 .. P : b[i] = IF i <= Len(r) THEN r[i] ELSE Zero
  BY <1>2, PIs, ResizeIs DEF Padded
<1> HIDE DEF b
<1>4. \A i \in 1 .. P : i + to \in 1 .. Len(w) /\ w[i + to] = b[i]
  <2>1. Copied(b, 1, Len(b), w, to)
    BY <1>3, Written
  <2> QED
    BY PIs, <1>3, <2>1 DEF Copied
<1> HIDE DEF w
<1>5. ASSUME NEW i \in at + 1 .. at + P, i <= Len(e)
      PROVE  i + d \in 1 .. Len(w) /\ w[i + d] = e[i]
  <2>1. i - at \in 1 .. P /\ i - at \in 1 .. Len(r)
    BY PIs, <1>1, <1>2, <1>5
  <2>2. r[i - at] = e[i]
    <3>1. (i - at) + at = i
      OBVIOUS
    <3> QED
      BY <1>2, <2>1, <3>1
  <2>3. b[i - at] = e[i]
    BY <1>3, <2>1, <2>2
  <2>4. (i - at) + to = i + d
    BY <1>5
  <2> QED
    BY <1>4, <2>1, <2>3, <2>4
<1> QED
  BY <1>3, <1>5 DEF Copied, r, b, w

\* One file after the other.
LEMMA Joined ==
  ASSUME NEW e, NEW x \in Int, NEW y \in Int, NEW z \in Int, NEW f, NEW d,
         Copied(e, x, y, f, d), Copied(e, y + 1, z, f, d)
  PROVE  Copied(e, x, z, f, d)
<1>1. \A i \in x .. z : i \in x .. y \/ i \in y + 1 .. z
  OBVIOUS
<1> QED
  BY <1>1 DEF Copied

LEMMA PartOf ==
  ASSUME NEW e, NEW x \in Int, NEW y \in Int, NEW x1 \in Int, NEW y1 \in Int, NEW f, NEW d,
         Copied(e, x, y, f, d), x <= x1, y1 <= y
  PROVE  Copied(e, x1, y1, f, d)
<1>1. x1 .. y1 \subseteq x .. y
  OBVIOUS
<1> QED
  BY <1>1 DEF Copied

\* What a file holds it still holds when it is cut behind it.
LEMMA ResizeKeeps ==
  ASSUME NEW e, NEW x \in Nat, NEW y \in Int, NEW f, NEW d \in Int, NEW n \in Nat,
         IsSequence(f), Copied(e, x, y, f, d), y + d <= n
  PROVE  Copied(e, x, y, Resize(f, n), d)
<1> DEFINE w == Resize(f, n)
<1>1. Len(f) \in Nat
  BY SequenceIs
<1>2. Len(w) = n /\ \A i \in 1 .. n : w[i] = IF i <= Len(f) THEN f[i] ELSE Zero
  BY ResizeIs
<1> HIDE DEF w
<1>3. ASSUME NEW i \in x .. y, i <= Len(e)
      PROVE  i + d \in 1 .. Len(w) /\ w[i + d] = e[i]
  <2>1. i + d \in 1 .. Len(f) /\ f[i + d] = e[i]
    BY <1>3 DEF Copied
  <2>2. i + d \in 1 .. n /\ i + d <= Len(f)
    BY <1>1, <1>3, <2>1
  <2> QED
    BY <1>2, <2>1, <2>2
<1> QED
  BY <1>3 DEF Copied, w

------------------------------------------------------------------------------
(* Headers. *)

LEMMA StartIs ==
  ASSUME NEW h, IsHeader(h)
  PROVE  /\ \A s \in 1 .. 4 : Size(h, s) \in Nat /\ Space(Size(h, s)) \in Nat
         /\ StartOf(h, 1) = P
         /\ \A s \in 1 .. 3 : StartOf(h, s + 1) = StartOf(h, s) + Space(Size(h, s))
         /\ Total(h) = StartOf(h, 4) + Space(Size(h, 4))
         /\ \A s \in 1 .. 4 : StartOf(h, s) \in Nat /\ StartOf(h, s) >= P
         /\ Total(h) \in Nat /\ Total(h) >= P
<1>1. \A s \in 1 .. 4 : Size(h, s) \in Nat
  BY DEF IsHeader
<1>2. \A s \in 1 .. 4 : Space(Size(h, s)) \in Nat
  BY <1>1, SpaceIs
<1>3. StartOf(h, 1) = P /\ StartOf(h, 2) = P + Space(Size(h, 1))
  BY PIs, <1>2 DEF StartOf
<1>4. StartOf(h, 3) = P + Space(Size(h, 1)) + Space(Size(h, 2))
  BY PIs, <1>2 DEF StartOf
<1>5. StartOf(h, 4) = P + Space(Size(h, 1)) + Space(Size(h, 2)) + Space(Size(h, 3))
  BY PIs, <1>2 DEF StartOf
<1>6. \A s \in 1 .. 3 : StartOf(h, s + 1) = StartOf(h, s) + Space(Size(h, s))
  BY PIs, <1>2, <1>3, <1>4, <1>5
<1>7. \A s \in 1 .. 4 : StartOf(h, s) \in Nat /\ StartOf(h, s) >= P
  BY PIs, <1>2, <1>3, <1>4, <1>5
<1>8. Total(h) = StartOf(h, 4) + Space(Size(h, 4))
  BY DEF Total
<1>9. Total(h) \in Nat /\ Total(h) >= P
  BY PIs, <1>2, <1>7, <1>8
<1> QED
  BY <1>1, <1>2, <1>3, <1>6, <1>7, <1>8, <1>9

LEMMA NewHeader ==
  ASSUME IsHeader(head), what \in 1 .. 2, Len(new) \in Nat
  PROVE  /\ IsHeader(newHead)
         /\ \A s \in 1 .. 4 : Size(newHead, s) = IF s = what THEN Len(new) ELSE Size(head, s)
<1>1. DOMAIN head = 1 .. 5 /\ head[1] = "head" /\ \A s \in 1 .. 4 : head[s + 1] \in Nat
  BY DEF IsHeader, Size
<1>2. DOMAIN newHead = 1 .. 5 /\ newHead[1] = "head"
  BY <1>1 DEF newHead
<1>3. \A s \in 1 .. 4 : newHead[s + 1] = IF s = what THEN Len(new) ELSE head[s + 1]
  BY <1>1 DEF newHead
<1>4. \A s \in 1 .. 4 : Size(newHead, s) \in Nat
  BY <1>1, <1>3 DEF Size
<1> QED
  BY <1>2, <1>3, <1>4 DEF IsHeader, Size

LEMMA ImageIs ==
  ASSUME NEW f, IsImage(f)
  PROVE  IsSequence(f) /\ Len(f) \in Nat /\ Len(f) >= P /\ 1 \in DOMAIN f /\ IsHeader(f[1])
BY PIs, SequenceIs DEF IsImage

LEMMA ImageWritten ==
  ASSUME NEW f, IsImage(f), NEW to \in Nat, to >= P, NEW buf, IsSequence(buf)
  PROVE  /\ IsImage(Write(f, to, buf)) /\ Write(f, to, buf)[1] = f[1]
         /\ Len(Write(f, to, buf)) >= Len(f) /\ Len(Write(f, to, buf)) >= to + Len(buf)
<1> DEFINE w == Write(f, to, buf)
<1>1. /\ IsSequence(w) /\ Len(w) = Longer(Len(f), to + Len(buf))
      /\ \A i \in 1 .. Len(w) : w[i] = IF i \in to + 1 .. to + Len(buf) THEN buf[i - to]
                                       ELSE IF i <= Len(f) THEN f[i] ELSE Zero
  BY ImageIs, WriteIs
<1>2. Len(buf) \in Nat /\ Len(f) \in Nat /\ Len(f) >= P
  BY ImageIs, SequenceIs
<1> HIDE DEF w
<1>3. Len(w) >= Len(f) /\ Len(w) >= to + Len(buf) /\ Len(w) \in Nat
  BY <1>1, <1>2 DEF Longer
<1>4. w[1] = f[1]
  <2>1. 1 \in 1 .. Len(w) /\ ~ (1 \in to + 1 .. to + Len(buf)) /\ 1 <= Len(f)
    BY PIs, <1>2, <1>3
  <2> QED
    BY <1>1, <2>1
<1>5. IsImage(w)
  BY PIs, <1>1, <1>2, <1>3, <1>4 DEF IsImage
<1> QED
  BY <1>3, <1>4, <1>5 DEF w

LEMMA ImageResized ==
  ASSUME NEW f, IsImage(f), NEW n \in Nat, n >= P
  PROVE  IsImage(Resize(f, n)) /\ Resize(f, n)[1] = f[1] /\ Len(Resize(f, n)) = n
<1> DEFINE w == Resize(f, n)
<1>1. /\ IsSequence(w) /\ Len(w) = n
      /\ \A i \in 1 .. n : w[i] = IF i <= Len(f) THEN f[i] ELSE Zero
  BY ImageIs, ResizeIs
<1> HIDE DEF w
<1>2. w[1] = f[1]
  BY PIs, <1>1, ImageIs
<1>3. IsImage(w)
  BY PIs, <1>1, <1>2 DEF IsImage
<1> QED
  BY <1>1, <1>2, <1>3 DEF w

\* The last step of a script.
LEMMA WriteHeaderIs ==
  ASSUME FileInv, WriteHeader
  PROVE  /\ IsImage(image') /\ image'[1] = newHead /\ Len(image') = Len(image)
         /\ \A i \in 2 .. Len(image) : image'[i] = image[i]
         /\ IsHeader(newHead) /\ what \in 1 .. 2 /\ Len(new) \in Nat
         /\ \A s \in 1 .. 4 : Size(newHead, s) = IF s = what THEN Len(new) ELSE Size(head, s)
<1>1. /\ pc = "header" /\ image' = [image EXCEPT ![1] = newHead] /\ IsImage(image)
      /\ what \in 1 .. 2 /\ Len(new) \in (IF what = 1 THEN NewKernels ELSE NewRamdisks)
      /\ head = image[1]
  BY DEF WriteHeader, FileInv, Writing
<1>2. Len(new) \in Nat
  BY <1>1, BootImageAssumption
<1>3. IsHeader(head) /\ Len(image) \in Nat /\ DOMAIN image = 1 .. Len(image) /\ Len(image) >= P
  BY <1>1, ImageIs, SequenceIs
<1>4. IsHeader(newHead)
  BY <1>1, <1>2, <1>3, NewHeader
<1>5. \A s \in 1 .. 4 : Size(newHead, s) = IF s = what THEN Len(new) ELSE Size(head, s)
  BY <1>1, <1>2, <1>3, NewHeader
<1>6. /\ image' = [i \in 1 .. Len(image) |-> image'[i]] /\ image'[1] = newHead
      /\ \A i \in 2 .. Len(image) : image'[i] = image[i]
  <2>1. image' = [i \in 1 .. Len(image) |-> IF i = 1 THEN newHead ELSE image[i]]
    BY <1>1, <1>3
  <2>2. 1 \in 1 .. Len(image)
    BY PIs, <1>3
  <2>3. image' = [i \in 1 .. Len(image) |-> image'[i]]
    BY <2>1
  <2> QED
    BY <2>1, <2>2, <2>3
<1>7. IsSequence(image') /\ Len(image') = Len(image)
  <2>1. \A y : y = [i \in 1 .. Len(image) |-> y[i]] => IsSequence(y) /\ Len(y) = Len(image)
    BY <1>3, IsOne
  <2> QED
    BY <1>6, <2>1
<1>8. Sized(newHead)
  <2>1. PICK e \in Images : /\ Size(head, 1) \in {Size(e[1], 1)} \cup NewKernels
                            /\ Size(head, 2) \in {Size(e[1], 2)} \cup NewRamdisks
    BY <1>1 DEF IsImage, Sized
  <2>2. Size(newHead, 1) = (IF what = 1 THEN Len(new) ELSE Size(head, 1))
        /\ Size(newHead, 2) = (IF what = 2 THEN Len(new) ELSE Size(head, 2))
    BY <1>5
  <2> HIDE DEF newHead
  <2>3. Size(newHead, 1) \in {Size(e[1], 1)} \cup NewKernels
    BY <1>1, <2>1, <2>2
  <2>4. Size(newHead, 2) \in {Size(e[1], 2)} \cup NewRamdisks
    BY <1>1, <2>1, <2>2
  <2> QED
    BY <2>3, <2>4 DEF Sized
<1>9. IsImage(image')
  BY <1>3, <1>4, <1>6, <1>7, <1>8 DEF IsImage
<1> QED
  BY <1>1, <1>2, <1>4, <1>5, <1>6, <1>7, <1>9

------------------------------------------------------------------------------
(* Types. *)

LEMMA InitTypeInv == Init => TypeInv
<1> SUFFICES ASSUME Init
             PROVE  TypeInv
  OBVIOUS
<1> USE DEF Init, ImageInit
<1>1. image \in Images /\ pc = "idle"
  OBVIOUS
<1>2. IsSequence(image) /\ Len(image) >= P /\ IsHeader(image[1])
  BY <1>1, ImagesAssumption
<1>3. Sized(image[1])
  BY <1>1 DEF Sized
<1>4. IsImage(image)
  BY <1>2, <1>3 DEF IsImage
<1>5. FileInv
  BY <1>4, BootImageAssumption DEF FileInv, Writing
<1>6. PosInv
  BY DEF PosInv
<1>7. Pages \in Nat
  BY <1>4, ImageIs, PagesAre DEF Pages
<1>8. SyncInv
  BY <1>7 DEF SyncInv
<1> QED
  BY <1>5, <1>6, <1>8 DEF TypeInv

\* What a running script's step keeps: its header, its section, its file.
LEMMA SizesIs ==
  ASSUME FileInv, pc \in Writing
  PROVE  /\ Len(new) \in Nat /\ Len(new) > 0 /\ IsSequence(new)
         /\ IsHeader(head) /\ start \in Nat /\ start >= P
         /\ Space(Len(new)) \in Nat /\ Space(Size(head, what)) \in Nat
         /\ delta = Space(Len(new)) - Space(Size(head, what)) /\ delta \in Int
         /\ start + Space(Size(head, what)) <= Total(head)
<1>1. what \in 1 .. 2 /\ IsHeader(head)
  BY ImageIs DEF FileInv, Writing
<1>2. Len(new) \in (IF what = 1 THEN NewKernels ELSE NewRamdisks)
  BY DEF FileInv
<1>3. Len(new) \in Nat /\ Len(new) > 0
  BY <1>2, BootImageAssumption
<1>4. IsSequence(new)
  BY <1>3, UnitsIs DEF FileInv
<1>5. Space(Len(new)) \in Nat
  BY <1>3, SpaceIs
<1>6. start \in Nat /\ start >= P /\ Space(Size(head, what)) \in Nat
  BY <1>1, StartIs DEF start
<1>7. start + Space(Size(head, what)) <= Total(head)
  <2>1. /\ Space(Size(head, 1)) \in Nat /\ Space(Size(head, 2)) \in Nat
        /\ Space(Size(head, 3)) \in Nat /\ Space(Size(head, 4)) \in Nat
    BY <1>1, StartIs
  <2>2. Total(head) = P + Space(Size(head, 1)) + Space(Size(head, 2))
                        + Space(Size(head, 3)) + Space(Size(head, 4))
    BY PIs, <2>1 DEF Total, StartOf
  <2>3. CASE what = 1
    BY PIs, <2>1, <2>2, <2>3 DEF start, StartOf
  <2>4. CASE what = 2
    BY PIs, <2>1, <2>2, <2>4 DEF start, StartOf
  <2> QED
    BY <1>1, <2>3, <2>4
<1> QED
  BY <1>1, <1>3, <1>4, <1>5, <1>6, <1>7 DEF delta

\* A script that stops, or has not started to write, leaves the file as it is.
LEMMA IdleStep ==
  ASSUME TypeInv, IsImage(image'), pc' = "idle", head' = <<>>, what' = 1, ret' \in {0, 1},
         runs' = runs, pc # "idle", UNCHANGED syncVars
  PROVE  TypeInv'
<1>1. FileInv'
  BY DEF TypeInv, FileInv, Writing
<1>2. PosInv'
  BY DEF PosInv
<1>3. Pages' \in Nat
  BY ImageIs, PagesAre DEF Pages
<1>4. SyncInv'
  BY <1>3 DEF TypeInv, SyncInv, syncVars
<1> QED
  BY <1>1, <1>2, <1>4 DEF TypeInv

\* A script that goes on.
LEMMA BusyStep ==
  ASSUME TypeInv, IsImage(image'), image'[1] = image[1], pc # "idle", pc' # "idle", PosInv',
         UNCHANGED <<what, head, ret, runs, began>>, UNCHANGED syncVars,
         pc' \in Writing, Len(new') \in (IF what = 1 THEN NewKernels ELSE NewRamdisks),
         new' = Units(Sections[what], runs, Len(new'))
  PROVE  TypeInv'
<1>1. FileInv'
  BY DEF TypeInv, FileInv, Writing
<1>3. Pages' \in Nat
  BY ImageIs, PagesAre DEF Pages
<1>4. SyncInv'
  BY <1>3 DEF TypeInv, SyncInv, syncVars
<1> QED
  BY <1>1, <1>4 DEF TypeInv

\* The writing steps: where is written, and how much.
LEMMA MoveUpIs ==
  ASSUME TypeInv, MoveUp
  PROVE  /\ pos + delta \in Nat /\ pos + delta >= P /\ IsSequence(Read(image, pos, P))
         /\ IsImage(image') /\ image'[1] = image[1] /\ Len(image') >= Len(image)
<1>1. pc = "grow" /\ pos \in Nat /\ pos > P /\ delta > 0
  BY PIs, ImageIs DEF MoveUp, Last, TypeInv, FileInv, PosInv
<1>2. delta \in Int /\ IsImage(image)
  BY <1>1, SizesIs DEF TypeInv, FileInv, Writing
<1>3. pos + delta \in Nat /\ pos + delta >= P
  BY PIs, <1>1, <1>2
<1>4. IsSequence(Read(image, pos, P))
  BY <1>1, <1>2, ImageIs, PageIs
<1>5. image' = Write(image, pos + delta, Read(image, pos, P))
  BY DEF MoveUp
<1> QED
  BY <1>2, <1>3, <1>4, <1>5, ImageWritten

LEMMA WritePageIs ==
  ASSUME TypeInv, WritePage
  PROVE  /\ pos \in Nat /\ start + pos \in Nat /\ start + pos >= P
         /\ IsSequence(Padded(Read(new, pos, P))) /\ Len(Padded(Read(new, pos, P))) = P
         /\ IsImage(image') /\ image'[1] = image[1] /\ Len(image') >= Len(image)
         /\ Len(image') >= pos + P /\ pos + P <= Space(Len(new)) /\ Multiple(pos + P)
<1>1. pc = "write" /\ pos \in Nat /\ pos < Len(new) /\ Multiple(pos)
  BY SizesIs DEF WritePage, TypeInv, PosInv, Writing
<1>2. /\ Len(new) \in Nat /\ IsSequence(new) /\ start \in Nat /\ start >= P
      /\ Space(Len(new)) \in Nat
  BY <1>1, SizesIs DEF TypeInv, Writing
<1>3. IsImage(image)
  BY DEF TypeInv, FileInv
<1>4. start + pos \in Nat /\ start + pos >= P
  BY PIs, <1>1, <1>2
<1>5. IsSequence(Padded(Read(new, pos, P))) /\ Len(Padded(Read(new, pos, P))) = P
  BY <1>1, <1>2, <1>3, <1>4, ImageIs, PageWritten
<1>6. image' = Write(image, start + pos, Padded(Read(new, pos, P)))
  BY DEF WritePage
<1>7. /\ IsImage(image') /\ image'[1] = image[1] /\ Len(image') >= Len(image)
      /\ Len(image') >= start + pos + P
  BY <1>3, <1>4, <1>5, <1>6, ImageWritten
<1>8. pos + P <= Space(Len(new))
  <2>1. Len(new) <= Space(Len(new)) /\ Multiple(Space(Len(new)))
    BY <1>2, SpaceIs
  <2>2. pos < Space(Len(new))
    BY <1>1, <1>2, <2>1
  <2> QED
    BY <1>1, <2>1, <2>2, Gap
<1>9. Multiple(pos + P)
  BY <1>1, FirstPages, Multiples
<1>10. Len(image') >= pos + P
  <2>1. Len(image') \in Nat
    BY <1>7, ImageIs
  <2> QED
    BY PIs, <1>1, <1>2, <1>7, <2>1
<1> QED
  BY <1>1, <1>4, <1>5, <1>7, <1>8, <1>9, <1>10

LEMMA MoveDownIs ==
  ASSUME TypeInv, MoveDown
  PROVE  /\ pos \in Nat /\ pos + delta \in Nat /\ pos + delta >= start + Space(Len(new))
         /\ pos + delta >= P /\ IsSequence(Read(image, pos, P)) /\ pos < Len(image)
         /\ IsImage(image') /\ image'[1] = image[1] /\ Len(image') >= Len(image)
<1>1. /\ pc = "shrink" /\ pos \in Nat /\ pos < Len(image)
      /\ pos >= start + Space(Size(head, what))
  BY DEF MoveDown, TypeInv, PosInv
<1>2. /\ Len(new) \in Nat /\ start \in Nat /\ start >= P
      /\ Space(Len(new)) \in Nat /\ Space(Size(head, what)) \in Nat
      /\ delta = Space(Len(new)) - Space(Size(head, what))
  BY <1>1, SizesIs DEF TypeInv, Writing
<1>3. IsImage(image)
  BY DEF TypeInv, FileInv
<1>4. /\ pos + delta \in Nat /\ pos + delta >= start + Space(Len(new))
      /\ pos + delta >= P
  BY PIs, <1>1, <1>2
<1>5. IsSequence(Read(image, pos, P))
  BY <1>1, <1>3, ImageIs, PageIs
<1>6. image' = Write(image, pos + delta, Read(image, pos, P))
  BY DEF MoveDown
<1> QED
  BY <1>1, <1>3, <1>4, <1>5, <1>6, ImageWritten

\* What is written is a section's size.
LEMMA NewIs ==
  ASSUME TypeInv, OpenKernel \/ ModifyRamdisk, pc' # "idle"
  PROVE  /\ image' = image /\ UNCHANGED <<what, head, ret, runs, began, spoiled>>
         /\ Len(new') \in (IF what = 1 THEN NewKernels ELSE NewRamdisks)
         /\ new' = Units(Sections[what], runs, Len(new'))
         /\ image = began /\ BeginWriting
<1>1. CASE OpenKernel
  <2>1. /\ \E n \in NewKernels : new' = Units("kernel", runs, n)
        /\ UNCHANGED <<image, what, head, ret, runs, began, spoiled>> /\ BeginWriting
    BY <1>1 DEF OpenKernel, Exit
  <2>2. what = 1 /\ image = began
    BY <1>1 DEF OpenKernel, TypeInv, FileInv
  <2>3. PICK n \in NewKernels : new' = Units("kernel", runs, n)
    BY <2>1
  <2>4. Len(new') = n
    BY <2>3, UnitsIs, BootImageAssumption
  <2> QED
    BY <2>1, <2>2, <2>3, <2>4 DEF Sections
<1>2. CASE ModifyRamdisk
  <2>1. /\ \E n \in NewRamdisks : new' = Units("ramdisk", runs, n)
        /\ UNCHANGED <<image, what, head, ret, runs, began, spoiled>> /\ BeginWriting
    BY <1>2 DEF ModifyRamdisk, Exit
  <2>2. what = 2 /\ image = began
    BY <1>2 DEF ModifyRamdisk, TypeInv, FileInv
  <2>3. PICK n \in NewRamdisks : new' = Units("ramdisk", runs, n)
    BY <2>1
  <2>4. Len(new') = n
    BY <2>3, UnitsIs, BootImageAssumption
  <2> QED
    BY <2>1, <2>2, <2>3, <2>4 DEF Sections
<1> QED
  BY <1>1, <1>2

LEMMA TypeStep ==
  ASSUME TypeInv, Next
  PROVE  TypeInv'
<1>0. IsImage(image) /\ Len(image) \in Nat /\ Len(image) >= P
  BY ImageIs DEF TypeInv, FileInv
<1>1. CASE ScriptStarts /\ UNCHANGED <<target, device, spc, page>>
  <2>1. PICK w \in 1 .. 2 : spc = "idle" /\ Start(w) /\ sret' = "none"
    BY <1>1 DEF ScriptStarts
  <2>2. image' = image /\ began' = image /\ head' = image[1] /\ what' = w /\ pos' = 0
        /\ ret' = 1 /\ runs' = runs + 1 /\ runs < MaxRuns
        /\ pc' = (IF w = 1 THEN "kernel" ELSE "ramdisk")
    BY <2>1 DEF Start
  <2>3. runs' \in 0 .. MaxRuns
    BY <2>2, BootImageAssumption DEF TypeInv, FileInv
  <2>4. FileInv'
    BY <1>0, <2>2, <2>3 DEF FileInv, Writing
  <2>5. PosInv'
    BY <2>2 DEF PosInv
  <2>6. Pages' = Pages
    BY <2>2 DEF Pages
  <2>7. blksz' = "right"
    BY <1>1 DEF ScriptStarts
  <2>8. SyncInv'
    BY <1>1, <2>1, <2>2, <2>6, <2>7 DEF TypeInv, SyncInv
  <2> QED
    BY <2>4, <2>5, <2>8 DEF TypeInv
<1>2. CASE Kill /\ UNCHANGED syncVars
  BY <1>0, <1>2, IdleStep DEF Kill, Exit
<1>3. CASE (OpenKernel \/ ModifyRamdisk) /\ UNCHANGED syncVars
  <2>1. CASE pc' = "idle"
    <3>1. UNCHANGED <<image, runs>> /\ Exit(1) /\ pc # "idle"
      BY <1>3, <2>1 DEF OpenKernel, ModifyRamdisk, BeginWriting
    <3> QED
      BY <1>0, <1>3, <2>1, <3>1, IdleStep DEF Exit
  <2>2. CASE pc' # "idle"
    <3>1. /\ image' = image /\ UNCHANGED <<what, head, ret, runs, began, spoiled>>
          /\ Len(new') \in (IF what = 1 THEN NewKernels ELSE NewRamdisks)
          /\ new' = Units(Sections[what], runs, Len(new'))
          /\ image = began /\ BeginWriting
      BY <1>3, <2>2, NewIs
    <3>2. pc # "idle" /\ pc' \in {"grow", "write"}
      BY <1>3, <3>1 DEF OpenKernel, ModifyRamdisk, BeginWriting
    <3>3. Space(Len(new')) \in Nat
      <4>1. Len(new') \in Nat
        BY <3>1, BootImageAssumption
      <4> QED
        BY <4>1, SpaceIs
    <3>4. CASE delta' > 0
      <4>1. pc' = "grow" /\ pos' = Len(image) - P
        BY <3>1, <3>4 DEF BeginWriting
      <4> HIDE DEF delta
      <4>2. PosInv'
        BY PIs, <1>0, <3>1, <3>4, <4>1 DEF PosInv
      <4> QED
        BY <1>0, <1>3, <3>1, <3>2, <4>2, BusyStep DEF Writing
    <3>5. CASE ~ (delta' > 0)
      <4>1. pc' = "write" /\ pos' = 0
        BY <3>1, <3>5 DEF BeginWriting
      <4>2. PosInv'
        BY FirstPages, <1>0, <3>1, <3>3, <4>1 DEF PosInv
      <4> QED
        BY <1>0, <1>3, <3>1, <3>2, <4>2, BusyStep DEF Writing
    <3> QED
      BY <3>4, <3>5
  <2> QED
    BY <2>1, <2>2
<1>4. CASE WriteHeader /\ UNCHANGED syncVars
  <2>1. pc = "header" /\ Exit(0) /\ runs' = runs
    BY <1>4 DEF WriteHeader
  <2>2. IsImage(image')
    BY <1>4, WriteHeaderIs DEF TypeInv
  <2> QED
    BY <1>4, <2>1, <2>2, IdleStep DEF Exit
<1>5. CASE (MoveUp \/ MovedUp \/ WritePage \/ SectionWritten \/ MoveDown \/ MovedDown
              \/ Truncate) /\ UNCHANGED syncVars
  <2>1. /\ UNCHANGED <<what, head, ret, runs, began>> /\ new' = new
        /\ pc \in Writing /\ pc' \in Writing
    BY <1>5 DEF MoveUp, MovedUp, WritePage, SectionWritten, MoveDown, MovedDown, Truncate,
                Goto, Writing
  <2>2. /\ Len(new) \in (IF what = 1 THEN NewKernels ELSE NewRamdisks)
        /\ new = Units(Sections[what], runs, Len(new))
    BY <2>1 DEF TypeInv, FileInv
  <2>3. delta' = delta /\ start' = start
    BY <2>1 DEF delta, start
  <2>4. /\ Len(new) \in Nat /\ IsHeader(head) /\ start \in Nat /\ start >= P
        /\ Space(Len(new)) \in Nat /\ Space(Size(head, what)) \in Nat
        /\ delta = Space(Len(new)) - Space(Size(head, what)) /\ delta \in Int
        /\ start + Space(Size(head, what)) <= Total(head)
    BY <2>1, SizesIs DEF TypeInv
  <2>5. Len(began) \in Nat /\ Len(began) >= P /\ Total(head) \in Nat
    BY <2>1, <2>4, ImageIs, StartIs DEF TypeInv, FileInv, Writing
  <2> SUFFICES IsImage(image') /\ image'[1] = image[1] /\ PosInv'
    BY <1>5, <2>1, <2>2, BusyStep DEF Writing
  <2>6. CASE MoveUp
    <3>1. IsImage(image') /\ image'[1] = image[1] /\ Len(image') >= Len(image)
      BY <2>6, MoveUpIs
    <3>2. pc = "grow" /\ pos > P /\ pos \in 0 .. Len(began) - P /\ delta > 0
          /\ Len(image) >= Len(began)
      BY <2>6 DEF MoveUp, Last, TypeInv, PosInv
    <3>3. pc' = "grow" /\ pos' = pos - P
      BY <2>6 DEF MoveUp, Goto
    <3>4. Len(image') \in Nat
      BY <3>1, ImageIs
    <3>5. PosInv'
      <4> HIDE DEF delta, start
      <4> QED
        BY PIs, <1>0, <2>1, <2>3, <2>5, <3>1, <3>2, <3>3, <3>4 DEF PosInv
    <3> QED
      BY <3>1, <3>5
  <2>7. CASE MovedUp
    <3>1. image' = image /\ pc' = "write" /\ pos' = 0 /\ Len(image) >= Len(began)
      BY <2>7 DEF MovedUp, Goto, TypeInv, PosInv
    <3>2. PosInv'
      BY <1>0, <2>1, <2>4, <3>1, FirstPages DEF PosInv
    <3> QED
      BY <1>0, <3>1, <3>2
  <2>8. CASE WritePage
    <3>1. /\ IsImage(image') /\ image'[1] = image[1] /\ Len(image') >= Len(image)
          /\ Len(image') >= pos + P /\ pos + P <= Space(Len(new)) /\ Multiple(pos + P)
          /\ pos \in Nat
      BY <2>8, WritePageIs
    <3>2. pc' = "write" /\ pos' = pos + P /\ Len(image) >= Len(began)
      BY <2>8 DEF WritePage, Goto, TypeInv, PosInv
    <3>3. Len(image') \in Nat
      BY <3>1, ImageIs
    <3>4. PosInv'
      BY PIs, <1>0, <2>1, <2>4, <2>5, <3>1, <3>2, <3>3 DEF PosInv
    <3> QED
      BY <3>1, <3>4
  <2>9. CASE SectionWritten
    <3>1. image' = image /\ Len(image) >= Len(began) /\ pc' \in {"shrink", "truncate"}
          /\ (pc' = "shrink" => delta < 0 /\ pos' = start + Space(Size(head, what)))
          /\ (pc' = "truncate" => pos' = 0)
      BY <2>9 DEF SectionWritten, Goto, TypeInv, PosInv
    <3>2. start + Space(Size(head, what)) <= Longer(Len(image), Total(head)) + P
      BY PIs, <1>0, <2>4, <2>5 DEF Longer
    <3>3. start + Space(Size(head, what)) \in Nat
      BY <2>4
    <3>4. PosInv'
      <4> HIDE DEF delta, start
      <4> QED
        BY <2>1, <2>3, <3>1, <3>2, <3>3 DEF PosInv
    <3> QED
      BY <1>0, <3>1, <3>4
  <2>10. CASE MoveDown
    <3>1. /\ IsImage(image') /\ image'[1] = image[1] /\ Len(image') >= Len(image)
          /\ pos \in Nat /\ pos < Len(image)
      BY <2>10, MoveDownIs
    <3>2. pc' = "shrink" /\ pos' = pos + P /\ delta < 0 /\ Len(image) >= Len(began)
          /\ pos >= start + Space(Size(head, what))
      BY <2>10 DEF MoveDown, Goto, TypeInv, PosInv
    <3>3. Len(image') \in Nat
      BY <3>1, ImageIs
    <3>4. pos + P <= Longer(Len(image'), Total(head)) + P
      BY PIs, <1>0, <2>5, <3>1, <3>3 DEF Longer
    <3>5. pos + P \in Nat /\ pos + P >= start + Space(Size(head, what))
      BY PIs, <2>4, <3>1, <3>2
    <3>6. PosInv'
      <4> HIDE DEF delta, start
      <4> QED
        BY <1>0, <2>1, <2>3, <2>5, <3>1, <3>2, <3>3, <3>4, <3>5 DEF PosInv
    <3> QED
      BY <3>1, <3>6
  <2>11. CASE MovedDown
    <3>1. image' = image /\ pc' = "truncate" /\ pos' = 0
      BY <2>11 DEF MovedDown, Goto
    <3>2. PosInv'
      BY <3>1 DEF PosInv
    <3> QED
      BY <1>0, <3>1, <3>2
  <2>12. CASE Truncate
    <3>1. image' = Resize(image, Total(newHead)) /\ pc' = "header" /\ pos' = 0
      BY <2>12 DEF Truncate, Goto
    <3>2. Total(newHead) \in Nat /\ Total(newHead) >= P
      <4>1. what \in 1 .. 2
        BY DEF TypeInv, FileInv
      <4>2. IsHeader(newHead)
        BY <2>4, <4>1, NewHeader
      <4> QED
        BY <4>2, StartIs
    <3>3. IsImage(image') /\ image'[1] = image[1]
      BY <1>0, <3>1, <3>2, ImageResized
    <3>4. PosInv'
      BY <3>1 DEF PosInv
    <3> QED
      BY <3>3, <3>4
  <2> QED
    BY <1>5, <2>6, <2>7, <2>8, <2>9, <2>10, <2>11, <2>12
<1>6. CASE SyncStart \/ SyncStep \/ SyncKill
  <2>1. UNCHANGED imageVars
    BY <1>6 DEF SyncStart, SyncStep, SyncKill, CompareFile, WriteFile, CopyPage, Fault,
                FinishDevice, SyncReturn, SyncGoto
  <2>2. FileInv' /\ PosInv'
    BY <2>1 DEF TypeInv, FileInv, PosInv, imageVars, delta, start
  <2>3. Pages' = Pages /\ Pages \in Nat
    BY <1>0, <2>1, PagesAre DEF Pages, imageVars
  <2>4. SyncInv'
    BY <1>6, <2>1, <2>3 DEF TypeInv, SyncInv, imageVars, SyncStart, SyncStep, SyncKill,
       CompareFile, WriteFile, CopyPage, Fault, FinishDevice, SyncReturn, SyncGoto
  <2> QED
    BY <2>2, <2>4 DEF TypeInv
<1> QED
  BY <1>1, <1>2, <1>3, <1>4, <1>5, <1>6 DEF Next, Step

LEMMA TypeInvImplies == TypeInv => TypeOK
<1> SUFFICES ASSUME TypeInv
             PROVE  TypeOK
  OBVIOUS
<1>0. IsHeader(image[1]) /\ Len(image) \in Nat /\ Len(image) >= P
  BY ImageIs DEF TypeInv, FileInv
<1>1. pc \in {"idle", "kernel", "ramdisk", "grow", "write", "shrink", "truncate", "header"}
  BY DEF TypeInv, FileInv, Writing
<1>2. what \in 1 .. 2 /\ ret \in {0, 1} /\ runs \in 0 .. MaxRuns
  BY DEF TypeInv, FileInv
<1>3. image[1][1] = "head" /\ image[1] # <<>>
  BY <1>0 DEF IsHeader
<1>4. pc = "idle" <=> head = <<>>
  BY <1>3 DEF TypeInv, FileInv
<1>5. ASSUME pc # "idle"
      PROVE  head = image[1] /\ pos \in 0 .. Longer(Len(image), Total(head)) + P
  <2>1. head = image[1] /\ Total(head) \in Nat /\ Len(began) \in Nat /\ IsImage(began)
    BY <1>0, <1>5, ImageIs, StartIs DEF TypeInv, FileInv
  <2>2. pos \in Nat /\ (pos <= Len(image) \/ pos <= Longer(Len(image), Total(head)) + P)
    <3>1. CASE pc \in {"kernel", "ramdisk", "truncate", "header"}
      BY <1>0, <3>1 DEF TypeInv, FileInv, PosInv, Writing
    <3>2. CASE pc = "grow"
      BY PIs, <1>0, <2>1, <3>2, ImageIs DEF TypeInv, PosInv
    <3>3. CASE pc = "write"
      <4>1. Space(Len(new)) \in Nat
        BY <3>3, SizesIs DEF TypeInv, Writing
      <4> QED
        BY <3>3, <4>1 DEF TypeInv, PosInv
    <3>4. CASE pc = "shrink"
      BY <3>4 DEF TypeInv, PosInv
    <3> QED
      BY <1>1, <1>5, <3>1, <3>2, <3>3, <3>4
  <2> QED
    BY PIs, <1>0, <2>1, <2>2 DEF Longer
<1> QED
  BY <1>1, <1>2, <1>3, <1>4, <1>5 DEF TypeInv, SyncInv, TypeOK

LEMMA TypeKept == TypeInv /\ [Next]_vars => TypeInv'
<1> SUFFICES ASSUME TypeInv, [Next]_vars
             PROVE  TypeInv'
  OBVIOUS
<1>1. CASE UNCHANGED vars
  BY <1>1 DEF vars, imageVars, syncVars, TypeInv, FileInv, PosInv, SyncInv, Pages, delta, start
<1> QED
  BY <1>1, TypeStep

\* The types of the variables of the boot image scripts and of syncfile; positions in
\* the image, or behind it, never leave it for more than a page (TypeOK).
THEOREM TypeCorrect == Spec => []TypeOK
<1>1. Init => TypeInv
  BY InitTypeInv
<1>2. TypeInv /\ [Next]_vars => TypeInv'
  BY TypeKept
<1>3. TypeInv => TypeOK
  BY TypeInvImplies
<1> QED
  BY <1>1, <1>2, <1>3, PTL DEF Spec

------------------------------------------------------------------------------
(* syncfile. *)

LEMMA ReadFirst ==
  ASSUME NEW f, NEW n \in Nat, IsSequence(f)
  PROVE  /\ IsSequence(Read(f, 0, n)) /\ (n <= Len(f) => Len(Read(f, 0, n)) = n)
         /\ \A i \in 1 .. Len(Read(f, 0, n)) : Read(f, 0, n)[i] = f[i]
<1> DEFINE r == Read(f, 0, n)
<1>1. IsSequence(r) /\ (0 + n <= Len(f) => Len(r) = n)
  BY ReadIs
<1>2. \A i \in 1 .. Len(r) : r[i] = f[i + 0]
  BY ReadIs
<1>3. Len(r) \in Nat
  BY <1>1, SequenceIs
<1> HIDE DEF r
<1>4. \A i \in 1 .. Len(r) : i + 0 = i
  BY <1>3
<1>5. \A i \in 1 .. Len(r) : r[i] = f[i]
  BY <1>2, <1>4
<1> QED
  BY <1>1, <1>5 DEF r

\* A file written over the beginning of another.
LEMMA ReadWritten ==
  ASSUME NEW f, NEW g, IsSequence(f), IsSequence(g)
  PROVE  /\ IsSequence(Write(g, 0, f)) /\ Read(Write(g, 0, f), 0, Len(f)) = f
         /\ Len(g) <= Len(f) => Write(g, 0, f) = f
<1> DEFINE w == Write(g, 0, f)
           r == Read(w, 0, Len(f))
<1>1. Len(f) \in Nat /\ Len(g) \in Nat
  BY SequenceIs
<1>2. /\ IsSequence(w) /\ Len(w) = Longer(Len(g), 0 + Len(f))
      /\ \A i \in 1 .. Len(w) : w[i] = IF i \in 0 + 1 .. 0 + Len(f) THEN f[i - 0]
                                       ELSE IF i <= Len(g) THEN g[i] ELSE Zero
  BY WriteIs
<1> HIDE DEF w
<1>3. Len(w) >= Len(f) /\ Len(w) \in Nat /\ (Len(g) <= Len(f) => Len(w) = Len(f))
  BY <1>1, <1>2 DEF Longer
<1>4. \A i \in 1 .. Len(f) : w[i] = f[i]
  BY <1>1, <1>2, <1>3
<1>5. /\ IsSequence(r) /\ (Len(f) <= Len(w) => Len(r) = Len(f))
      /\ \A i \in 1 .. Len(r) : r[i] = w[i]
  BY <1>1, <1>2, ReadFirst
<1> HIDE DEF r
<1>6. Len(r) = Len(f) /\ \A i \in 1 .. Len(f) : r[i] = f[i]
  BY <1>1, <1>3, <1>4, <1>5
<1>7. r = f
  BY <1>5, <1>6, SameFile
<1>8. Len(g) <= Len(f) => w = f
  BY <1>2, <1>3, <1>4, SameFile
<1> QED
  BY <1>2, <1>7, <1>8 DEF w, r

\* A file that has all of another one at its beginning.
LEMMA ReadCopied ==
  ASSUME NEW f, NEW g, IsSequence(f), IsSequence(g), Copied(f, 1, Len(f), g, 0)
  PROVE  Read(g, 0, Len(f)) = f
<1> DEFINE r == Read(g, 0, Len(f))
<1>1. Len(f) \in Nat /\ Len(g) \in Nat
  BY SequenceIs
<1>2. \A i \in 1 .. Len(f) : i \in 1 .. Len(g) /\ g[i] = f[i]
  BY <1>1 DEF Copied
<1>3. Len(f) <= Len(g)
  <2>1. CASE Len(f) = 0
    BY <1>1, <2>1
  <2>2. CASE Len(f) > 0
    <3>1. Len(f) \in 1 .. Len(f)
      BY <1>1, <2>2
    <3> QED
      BY <1>1, <1>2, <3>1
  <2> QED
    BY <1>1, <2>1, <2>2
<1>4. /\ IsSequence(r) /\ (Len(f) <= Len(g) => Len(r) = Len(f))
      /\ \A i \in 1 .. Len(r) : r[i] = g[i]
  BY <1>1, ReadFirst
<1> HIDE DEF r
<1>5. Len(r) = Len(f) /\ \A i \in 1 .. Len(f) : r[i] = f[i]
  BY <1>1, <1>2, <1>3, <1>4
<1>6. r = f
  BY <1>4, <1>5, SameFile
<1> QED
  BY <1>6 DEF r

\* What is written of the image, a part of it or all.
LEMMA PrefixIs ==
  ASSUME IsSequence(image), IsSequence(target), NEW n \in 0 .. Len(image)
  PROVE  /\ IsSequence(Prefix(n))
         /\ n = Len(image) => /\ Read(Prefix(n), 0, Len(image)) = image
                              /\ Len(target) <= Len(image) => Prefix(n) = image
<1>0. Len(image) \in Nat /\ n \in Nat
  BY SequenceIs
<1> DEFINE r == Read(image, 0, n)
<1>1. IsSequence(r)
  BY <1>0, ReadFirst
<1>2. n = Len(image) => r = image
  <2> HAVE n = Len(image)
  <2>1. Copied(image, 1, Len(image), image, 0)
    BY <1>0 DEF Copied
  <2> QED
    BY <2>1, ReadCopied
<1> HIDE DEF r
<1>3. Prefix(n) = Write(target, 0, r)
  BY DEF Prefix, r
<1>4. IsSequence(Prefix(n))
  BY <1>1, <1>3, ReadWritten
<1>5. n = Len(image) => /\ Read(Prefix(n), 0, Len(image)) = image
                        /\ Len(target) <= Len(image) => Prefix(n) = image
  BY <1>2, <1>3, ReadWritten
<1> QED
  BY <1>4, <1>5

LEMMA CopyPageIs ==
  ASSUME IsSequence(image), IsSequence(target), page \in Nat, CopyPage,
         page * P <= Len(target), Copied(image, 1, page * P, target, 0)
  PROVE  /\ IsSequence(target') /\ page' * P <= Len(target')
         /\ Copied(image, 1, page' * P, target', 0)
<1> DEFINE at == page * P
           b == Padded(Read(image, at, P))
<1>1. at \in Nat /\ page' = page + 1 /\ (page + 1) * P = at + P /\ at + P <= Len(target)
  BY PIs DEF CopyPage
<1>2. target' = Write(target, at, b)
  BY DEF CopyPage
<1>3. Len(target) \in Nat /\ Copied(image, 1, at, target, 0)
  BY SequenceIs
<1> HIDE DEF at
<1>4. /\ IsSequence(b) /\ Len(b) = P
      /\ Copied(image, at + 1, at + P, Write(target, at, b), 0)
  <2>1. at = 0 + at
    BY <1>1
  <2> QED
    BY <1>1, <2>1, PageWritten
<1> HIDE DEF b
<1>5. IsSequence(target') /\ Len(target') = Longer(Len(target), at + Len(b))
  BY <1>1, <1>2, <1>4, WriteIs
<1>6. Copied(image, 1, at, target', 0)
  <2>1. 1 \in Nat /\ at + 0 <= at /\ 0 \in Int /\ at \in Int
    BY <1>1
  <2> QED
    BY <1>1, <1>2, <1>3, <1>4, <2>1, WriteKeeps
<1>7. Copied(image, 1, at + P, target', 0)
  BY PIs, <1>1, <1>2, <1>4, <1>6, Joined
<1>8. at + P <= Len(target')
  BY PIs, <1>1, <1>3, <1>4, <1>5 DEF Longer
<1> QED
  BY <1>1, <1>5, <1>7, <1>8

\* A device is done when all of the image has been copied; the rest may be cleared.
LEMMA FinishDeviceIs ==
  ASSUME TypeInv, CopyInv, FinishDevice
  PROVE  /\ IsSequence(target') /\ Len(target') = Len(target)
         /\ blksz # "negative" => Read(target', 0, Len(image)) = image
<1>1. IsSequence(image) /\ Len(image) \in Nat /\ IsSequence(target) /\ Len(target) \in Nat
  BY ImageIs, SequenceIs DEF TypeInv, FileInv, CopyInv
<1>2. ASSUME blksz # "negative"
      PROVE  page \in Nat /\ page = Pages /\ Copied(image, 1, page * P, target, 0)
  <2>1. spc = "copy" /\ page >= Pages
    BY <1>2 DEF FinishDevice, TypeInv, SyncInv
  <2>2. Pages \in Nat
    BY <1>1, PagesAre DEF Pages
  <2> QED
    BY <2>1, <2>2 DEF TypeInv, SyncInv, CopyInv
<1>3. ASSUME blksz # "negative"
      PROVE  page * P >= Len(image) /\ page * P \in Nat
  <2>1. page * P = Space(Len(image))
    BY <1>1, <1>2, <1>3, PagesAre DEF Pages
  <2> QED
    BY <1>1, <2>1, SpaceIs
<1>4. ASSUME blksz # "negative"
      PROVE  Copied(image, 1, Len(image), target, 0)
  <2>1. page * P >= Len(image) /\ page * P \in Nat /\ Copied(image, 1, page * P, target, 0)
    BY <1>2, <1>3, <1>4
  <2> QED
    BY <1>1, <2>1, PartOf
<1>5. CASE target' = target
  BY <1>1, <1>4, <1>5, ReadCopied
<1>6. CASE target' = [i \in DOMAIN target |-> IF i <= Len(image) THEN target[i] ELSE Zero]
  <2>1. DOMAIN target = 1 .. Len(target)
    BY <1>1, SequenceIs
  <2>2. target' = [i \in 1 .. Len(target) |-> target'[i]]
    BY <1>6, <2>1
  <2>3. IsSequence(target') /\ Len(target') = Len(target)
    <3>1. \A y : y = [i \in 1 .. Len(target) |-> y[i]]
                   => IsSequence(y) /\ Len(y) = Len(target)
      BY <1>1, IsOne
    <3> QED
      BY <2>2, <3>1
  <2>4. \A i \in 1 .. Len(target) : i <= Len(image) => target'[i] = target[i]
    BY <1>6, <2>1
  <2>5. ASSUME blksz # "negative"
        PROVE  Copied(image, 1, Len(image), target', 0)
    <3>1. Copied(image, 1, Len(image), target, 0)
      BY <1>4, <2>5
    <3> QED
      BY <1>1, <2>3, <2>4, <3>1 DEF Copied
  <2>6. ASSUME blksz # "negative"
        PROVE  Read(target', 0, Len(image)) = image
    BY <1>1, <2>3, <2>5, <2>6, ReadCopied
  <2> QED
    BY <2>3, <2>6
<1> QED
  BY <1>5, <1>6 DEF FinishDevice

LEMMA InitCopyInv == Init => CopyInv
<1> SUFFICES ASSUME Init
             PROVE  CopyInv
  OBVIOUS
<1>1. IsSequence(target)
  BY SyncFileAssumption DEF Init
<1> QED
  BY <1>1 DEF Init, CopyInv

LEMMA MappedIs ==
  ASSUME IsSequence(image), IsSequence(target)
  PROVE  /\ IsSequence(Mapped) /\ (device => Mapped = target)
         /\ ~device => Len(Mapped) >= Len(image)
<1>1. Len(image) \in Nat /\ Len(target) \in Nat
  BY SequenceIs
<1>2. IsSequence(Resize(target, Len(image))) /\ Len(Resize(target, Len(image))) = Len(image)
  BY <1>1, ResizeIs
<1> QED
  BY <1>1, <1>2 DEF Mapped

LEMMA CopyStep ==
  ASSUME TypeInv, CopyInv, Next
  PROVE  CopyInv'
<1>1. IsSequence(image) /\ Len(image) \in Nat /\ IsSequence(target) /\ Len(target) \in Nat
  BY ImageIs, SequenceIs DEF TypeInv, FileInv, CopyInv
<1>2. CASE ScriptStarts /\ UNCHANGED <<target, device, spc, page>>
  BY <1>2 DEF ScriptStarts, CopyInv
<1>3. CASE (Step \/ Kill) /\ UNCHANGED syncVars
  <2>1. pc # "idle"
    BY <1>3 DEF Step, Kill, OpenKernel, ModifyRamdisk, MoveUp, MovedUp, WritePage,
                SectionWritten, MoveDown, MovedDown, Truncate, WriteHeader
  <2> QED
    BY <1>3, <2>1 DEF TypeInv, SyncInv, CopyInv, syncVars
<1>4. CASE SyncStart
  <2>1. /\ IsSequence(Mapped) /\ (device => Mapped = target)
        /\ ~device => Len(Mapped) >= Len(image)
    BY <1>1, MappedIs
  <2>2. UNCHANGED <<image, device, page>> /\ target' \in {target, Mapped} /\ page = 0
        /\ sret' \in {"none", "failed"}
    BY <1>4 DEF SyncStart, imageVars, TypeInv, SyncInv
  <2>3. spc' \in {"compare", "copy"} => target' = Mapped /\ spc' = IF device THEN "copy" ELSE "compare"
    BY <1>4 DEF SyncStart
  <2>4. spc' \in {"idle", "compare", "copy"}
    BY <1>4 DEF SyncStart
  <2>5. 0 * P = 0
    BY PIs
  <2>6. Copied(image, 1, 0, target, 0)
    BY DEF Copied
  <2> HIDE DEF Mapped
  <2> QED
    BY <1>1, <2>1, <2>2, <2>3, <2>4, <2>5, <2>6 DEF CopyInv
<1>5. CASE CompareFile
  <2>1. UNCHANGED <<image, device>> /\ spc' \in {"idle", "write"} /\ spc = "compare"
    BY <1>5 DEF CompareFile, SyncReturn, SyncGoto, imageVars
  <2>2. CASE spc' = "idle"
    <3>1. target' \in {image, target} /\ Read(target, 0, Len(image)) = image
      BY <1>5, <2>2 DEF CompareFile, SyncGoto
    <3>2. Copied(image, 1, Len(image), image, 0)
      BY <1>1 DEF Copied
    <3>3. Read(image, 0, Len(image)) = image
      BY <1>1, <3>2, ReadCopied
    <3>4. IsSequence(target') /\ Read(target', 0, Len(image)) = image
      BY <1>1, <3>1, <3>3
    <3> QED
      BY <2>1, <2>2, <3>4 DEF CopyInv
  <2>3. CASE spc' = "write"
    <3>1. target' = target /\ sret' = sret
      BY <1>5, <2>3 DEF CompareFile, SyncReturn, SyncGoto
    <3> QED
      BY <1>1, <2>1, <2>3, <3>1 DEF CopyInv
  <2> QED
    BY <2>1, <2>2, <2>3
<1>6. CASE WriteFile
  <2>1. PICK n \in Some : /\ target' = Prefix(n)
                          /\ SyncReturn("failed") \/ (n = Len(image) /\ SyncReturn("size"))
    BY <1>6 DEF WriteFile
  <2>2. n \in 0 .. Len(image)
    BY <1>1 DEF Some
  <2>3. /\ IsSequence(Prefix(n))
        /\ n = Len(image) => Read(Prefix(n), 0, Len(image)) = image
    BY <1>1, <2>2, PrefixIs
  <2>4. UNCHANGED <<image, device>> /\ spc' = "idle" /\ (sret' = "size" => n = Len(image))
    BY <2>1 DEF SyncReturn, imageVars
  <2> QED
    BY <2>1, <2>3, <2>4 DEF CopyInv
<1>7. CASE CopyPage
  <2>1. page \in Nat /\ page * P <= Len(target) /\ Copied(image, 1, page * P, target, 0) /\ device
    <3>1. Pages \in Nat
      BY <1>1, PagesAre DEF Pages
    <3> QED
      BY <1>7, <3>1 DEF CopyPage, TypeInv, SyncInv, CopyInv
  <2>2. /\ IsSequence(target') /\ page' * P <= Len(target')
        /\ Copied(image, 1, page' * P, target', 0)
    BY <1>1, <1>7, <2>1, CopyPageIs
  <2>3. UNCHANGED <<image, device, sret>> /\ spc' = "copy"
    BY <1>7 DEF CopyPage, SyncGoto, imageVars
  <2>4. sret # "size"
    BY <1>7 DEF CopyPage, CopyInv
  <2> QED
    BY <2>1, <2>2, <2>3, <2>4 DEF CopyInv
<1>8. CASE Fault
  <2>1. UNCHANGED <<image, device>> /\ spc' = "idle" /\ sret' = "none"
    BY <1>8 DEF Fault, SyncReturn, imageVars
  <2>2. IsSequence(target')
    <3>1. target' = target \/ \E n \in Some : target' = Prefix(n)
      BY <1>8 DEF Fault
    <3>2. Some \subseteq 0 .. Len(image)
      BY <1>1 DEF Some
    <3> QED
      BY <1>1, <3>1, <3>2, PrefixIs
  <2> QED
    BY <2>1, <2>2 DEF CopyInv
<1>9. CASE FinishDevice
  <2>1. UNCHANGED <<image, device>> /\ spc' = "idle"
    BY <1>9 DEF FinishDevice, SyncReturn, imageVars
  <2>2. IsSequence(target') /\ (blksz # "negative" => Read(target', 0, Len(image)) = image)
    BY <1>9, FinishDeviceIs
  <2>3. blksz' = blksz
    BY <1>9 DEF FinishDevice, SyncReturn
  <2> QED
    BY <2>1, <2>2, <2>3 DEF CopyInv
<1>10. CASE SyncKill
  <2>1. UNCHANGED <<image, device>> /\ spc' = "idle" /\ sret' = "none"
    BY <1>10 DEF SyncKill, SyncReturn, imageVars
  <2>2. IsSequence(target')
    <3>1. target' = target \/ \E n \in Some : target' = Prefix(n)
      BY <1>10 DEF SyncKill
    <3>2. Some \subseteq 0 .. Len(image)
      BY <1>1 DEF Some
    <3> QED
      BY <1>1, <3>1, <3>2, PrefixIs
  <2> QED
    BY <2>1, <2>2 DEF CopyInv
<1> QED
  BY <1>2, <1>3, <1>4, <1>5, <1>6, <1>7, <1>8, <1>9, <1>10 DEF Next, SyncStep

LEMMA CopiesWholeStep ==
  ASSUME TypeInv, CopyInv, CopyInv', [Next]_vars,
         sret' = "size", spc # "idle", blksz # "negative"
  PROVE  /\ Read(target', 0, Len(image)) = image
         /\ Len(target) <= Len(image) /\ ~device => target' = image
         /\ device => Len(target') = Len(target)
<1>1. IsSequence(image) /\ Len(image) \in Nat /\ IsSequence(target) /\ Len(target) \in Nat
  BY ImageIs, SequenceIs DEF TypeInv, FileInv, CopyInv
<1>2. sret # "size" /\ pc = "idle"
  BY DEF TypeInv, SyncInv, CopyInv
<1>3. CompareFile \/ WriteFile \/ FinishDevice
  BY <1>2 DEF Next, vars, syncVars, SyncStart, SyncStep, SyncKill, CopyPage, Fault, SyncReturn,
       SyncGoto, ScriptStarts, Step, Kill, OpenKernel, ModifyRamdisk, MoveUp, MovedUp,
       WritePage, SectionWritten, MoveDown, MovedDown, Truncate, WriteHeader
<1>4. image' = image /\ blksz' = blksz
  BY <1>3 DEF CompareFile, WriteFile, FinishDevice, SyncReturn, SyncGoto, imageVars
<1>5. Read(target', 0, Len(image)) = image
  BY <1>4 DEF CopyInv
<1>6. CASE CompareFile
  <2>1. ~device /\ target' \in {image, target} /\ Read(target, 0, Len(image)) = image
    BY <1>2, <1>6 DEF CompareFile, SyncGoto, CopyInv
  <2>2. Len(target) <= Len(image) => target = image
    <3>1. /\ \A i \in 1 .. Len(image) : i <= Len(target) /\ image[i] = target[i]
      <4> DEFINE r == Read(target, 0, Len(image))
      <4>1. \A i \in 1 .. Len(r) : r[i] = target[i]
        BY <1>1, ReadFirst
      <4>2. IsSequence(target) /\ Len(image) \in Nat /\ 0 \in Nat
        BY <1>1
      <4>3. \A i \in 1 .. Len(r) : i + 0 <= Len(target)
        BY <4>2, ReadIs
      <4>4. r = image
        BY <2>1
      <4> HIDE DEF r
      <4> QED
        BY <1>1, <4>1, <4>3, <4>4
    <3> QED
      BY <1>1, <3>1, SameFile
  <2> QED
    BY <1>5, <2>1, <2>2
<1>7. CASE WriteFile
  <2>1. PICK n \in Some : /\ target' = Prefix(n)
                          /\ SyncReturn("failed") \/ (n = Len(image) /\ SyncReturn("size"))
    BY <1>7 DEF WriteFile
  <2>2. n \in 0 .. Len(image) /\ n = Len(image)
    BY <1>1, <2>1 DEF Some, SyncReturn
  <2>3. Len(target) <= Len(image) => target' = image
    BY <1>1, <2>1, <2>2, PrefixIs
  <2>4. ~device
    BY <1>7 DEF WriteFile, CopyInv
  <2> QED
    BY <1>5, <2>3, <2>4
<1>8. CASE FinishDevice
  <2>1. device /\ Len(target') = Len(target)
    BY <1>8, FinishDeviceIs DEF FinishDevice, CopyInv
  <2> QED
    BY <1>5, <2>1
<1> QED
  BY <1>3, <1>6, <1>7, <1>8

\* A target that copyfile() returns the size for holds the source, unless the block
\* size was read as a negative number (SyncedMeansCopied): it copies nothing then and
\* returns the size all the same (syncfile.c:115).
THEOREM CopiesWhole == Spec => SyncedMeansCopied
<1>1. Init => TypeInv /\ CopyInv
  BY InitTypeInv, InitCopyInv
<1>2. TypeInv /\ CopyInv /\ [Next]_vars => TypeInv' /\ CopyInv'
  <2> SUFFICES ASSUME TypeInv, CopyInv, [Next]_vars
               PROVE  TypeInv' /\ CopyInv'
    OBVIOUS
  <2>1. TypeInv'
    BY TypeKept
  <2>2. CASE UNCHANGED vars
    BY <2>2, <2>1 DEF vars, imageVars, syncVars, CopyInv
  <2>3. CASE Next
    BY <2>1, <2>3, CopyStep
  <2> QED
    BY <2>1, <2>2, <2>3
<1>3. TypeInv /\ CopyInv /\ CopyInv' /\ [Next]_vars =>
        [ sret' = "size" /\ spc # "idle" /\ blksz # "negative" =>
            /\ Read(target', 0, Len(image)) = image
            /\ Len(target) <= Len(image) /\ ~device => target' = image
            /\ device => Len(target') = Len(target) ]_vars
  BY CopiesWholeStep
<1> QED
  BY <1>1, <1>2, <1>3, PTL DEF Spec, SyncedMeansCopied

------------------------------------------------------------------------------
(* What is moved. *)

LEMMA SectionsAre ==
  ASSUME FileInv, pc \in Writing
  PROVE  /\ Front \in Nat /\ Front <= start /\ Front >= 1
         /\ Behind \in Nat /\ Behind > 2 * P /\ Behind > start
         /\ Behind = start + Space(Size(head, what)) + 1
         /\ Total(newHead) = Total(head) + delta /\ Total(newHead) \in Nat
         /\ start + Space(Len(new)) <= Total(newHead)
         /\ \A s \in 1 .. 4 : StartOf(newHead, s) =
              StartOf(head, s) + (IF s > what THEN delta ELSE 0)
<1>1. what \in 1 .. 2 /\ IsHeader(head) /\ Len(new) \in Nat
  BY SizesIs DEF FileInv
<1>2. delta = Space(Len(new)) - Space(Size(head, what)) /\ Space(Len(new)) \in Nat
  BY SizesIs
<1>3. Size(head, 1) \in Nat /\ Size(head, 1) > 0
  <2>1. Sized(head)
    BY DEF FileInv, IsImage, Writing
  <2>2. PICK f \in Images : Size(head, 1) \in {Size(f[1], 1)} \cup NewKernels
    BY <2>1 DEF Sized
  <2>3. Size(f[1], 1) \in Nat /\ Size(f[1], 1) > 0
    BY <2>2, ImagesAssumption DEF IsHeader
  <2> QED
    BY <2>2, <2>3, BootImageAssumption
<1>4. Space(Size(head, 1)) >= P /\ Space(Size(head, 1)) >= Size(head, 1)
  <2>1. Multiple(Space(Size(head, 1))) /\ Space(Size(head, 1)) >= Size(head, 1)
        /\ Space(Size(head, 1)) \in Nat
    BY <1>3, SpaceIs
  <2>2. 0 < Space(Size(head, 1))
    BY <1>3, <2>1
  <2>3. 0 + P <= Space(Size(head, 1))
    BY <2>1, <2>2, FirstPages, Gap
  <2> QED
    BY PIs, <2>1, <2>3
<1> DEFINE a1 == Space(Size(head, 1))
           a2 == Space(Size(head, 2))
           a3 == Space(Size(head, 3))
           a4 == Space(Size(head, 4))
           b  == Space(Len(new))
<1>5. a1 \in Nat /\ a2 \in Nat /\ a3 \in Nat /\ a4 \in Nat
  BY <1>1, StartIs
<1>6. \A s \in 1 .. 4 : Size(newHead, s) = IF s = what THEN Len(new) ELSE Size(head, s)
  BY <1>1, NewHeader
<1>7. StartOf(head, 1) = P /\ StartOf(head, 2) = P + a1 /\ StartOf(head, 3) = P + a1 + a2
      /\ StartOf(head, 4) = P + a1 + a2 + a3 /\ Total(head) = P + a1 + a2 + a3 + a4
  <2> HIDE DEF a1, a2, a3, a4
  <2> QED
    BY PIs, <1>5 DEF StartOf, Total, a1, a2, a3, a4
<1>8. CASE what = 1
  <2>1. Size(newHead, 1) = Len(new) /\ Size(newHead, 2) = Size(head, 2)
        /\ Size(newHead, 3) = Size(head, 3) /\ Size(newHead, 4) = Size(head, 4)
    BY <1>6, <1>8
  <2>2. /\ StartOf(newHead, 1) = P /\ StartOf(newHead, 2) = P + b
        /\ StartOf(newHead, 3) = P + b + a2 /\ StartOf(newHead, 4) = P + b + a2 + a3
        /\ Total(newHead) = P + b + a2 + a3 + a4
    BY PIs, <1>2, <1>5, <2>1 DEF StartOf, Total
  <2>3. start = P /\ delta = b - a1
    BY <1>2, <1>7, <1>8 DEF start
  <2>4. a1 >= P /\ b \in Nat
    BY <1>2, <1>4
  <2>5. Front = P /\ Behind = P + a1 + 1
    BY <1>8, <2>3 DEF Front, Behind
  <2>6. Behind = start + Space(Size(head, what)) + 1
    BY DEF Behind
  <2> HIDE DEF a1, a2, a3, a4, b
  <2>7. /\ StartOf(newHead, 1) = StartOf(head, 1)
        /\ StartOf(newHead, 2) = StartOf(head, 2) + delta
        /\ StartOf(newHead, 3) = StartOf(head, 3) + delta
        /\ StartOf(newHead, 4) = StartOf(head, 4) + delta
        /\ StartOf(head, 1) \in Int
    BY PIs, <1>5, <1>7, <2>2, <2>3, <2>4
  <2>8. \A s \in 1 .. 4 : StartOf(newHead, s) =
              StartOf(head, s) + (IF s > what THEN delta ELSE 0)
    BY <1>8, <2>7
  <2>9. start + b <= Total(newHead) /\ Total(newHead) = Total(head) + delta
        /\ Total(newHead) \in Nat
    BY PIs, <1>5, <1>7, <2>2, <2>3, <2>4
  <2>10. Front \in Nat /\ Front <= start /\ Front >= 1
         /\ Behind \in Nat /\ Behind > 2 * P /\ Behind > start
    BY PIs, <1>5, <2>3, <2>4, <2>5
  <2> QED
    BY <2>6, <2>8, <2>9, <2>10 DEF b
<1>9. CASE what = 2
  <2>1. Size(newHead, 2) = Len(new) /\ Size(newHead, 1) = Size(head, 1)
        /\ Size(newHead, 3) = Size(head, 3) /\ Size(newHead, 4) = Size(head, 4)
    BY <1>6, <1>9
  <2>2. /\ StartOf(newHead, 1) = P /\ StartOf(newHead, 2) = P + a1
        /\ StartOf(newHead, 3) = P + a1 + b /\ StartOf(newHead, 4) = P + a1 + b + a3
        /\ Total(newHead) = P + a1 + b + a3 + a4
    BY PIs, <1>2, <1>5, <2>1 DEF StartOf, Total
  <2>3. start = P + a1 /\ delta = b - a2
    BY <1>2, <1>7, <1>9 DEF start
  <2>4. Front = P + Size(head, 1) /\ Behind = P + a1 + a2 + 1
    BY <1>9, <2>3 DEF Front, Behind
  <2>5. a1 >= P /\ a1 >= Size(head, 1) /\ b \in Nat
    BY <1>2, <1>4
  <2>6. Behind = start + Space(Size(head, what)) + 1
    BY DEF Behind
  <2> HIDE DEF a1, a2, a3, a4, b
  <2>7. /\ StartOf(newHead, 1) = StartOf(head, 1)
        /\ StartOf(newHead, 2) = StartOf(head, 2)
        /\ StartOf(newHead, 3) = StartOf(head, 3) + delta
        /\ StartOf(newHead, 4) = StartOf(head, 4) + delta
        /\ StartOf(head, 1) \in Int /\ StartOf(head, 2) \in Int
    BY PIs, <1>5, <1>7, <2>2, <2>3, <2>5
  <2>8. \A s \in 1 .. 4 : StartOf(newHead, s) =
              StartOf(head, s) + (IF s > what THEN delta ELSE 0)
    BY <1>9, <2>7
  <2>9. start + b <= Total(newHead) /\ Total(newHead) = Total(head) + delta
        /\ Total(newHead) \in Nat
    BY PIs, <1>5, <1>7, <2>2, <2>3, <2>5
  <2>10. Front \in Nat /\ Front <= start /\ Front >= 1
         /\ Behind \in Nat /\ Behind > 2 * P /\ Behind > start
    BY PIs, <1>3, <1>5, <2>3, <2>4, <2>5
  <2> QED
    BY <2>6, <2>8, <2>9, <2>10 DEF b
<1> QED
  BY <1>1, <1>8, <1>9

\* A kernel that ends before what is moved over it.
LEMMA FrontSpared ==
  ASSUME FileInv, pc \in Writing, delta > 0, KernelSpared
  PROVE  Front <= P + delta + 1
<1>1. delta \in Int /\ delta = Space(Len(new)) - Space(Size(head, what)) /\ what \in 1 .. 2
  BY SizesIs DEF FileInv
<1>2. CASE what = 1
  BY PIs, <1>1, <1>2 DEF Front
<1>3. CASE what = 2
  <2>1. Sized(head) /\ Len(new) \in NewRamdisks
    BY <1>3 DEF FileInv, IsImage, Writing
  <2>2. PICK f \in Images : /\ Size(head, 1) \in {Size(f[1], 1)} \cup NewKernels
                            /\ Size(head, 2) \in {Size(f[1], 2)} \cup NewRamdisks
    BY <2>1 DEF Sized
  <2>3. Space(Len(new)) > Space(Size(head, 2))
        => Size(head, 1) <= Space(Len(new)) - Space(Size(head, 2)) + 1
    BY <2>1, <2>2 DEF KernelSpared
  <2>4. Space(Len(new)) \in Nat /\ Space(Size(head, 2)) \in Nat /\ Size(head, 1) \in Nat
    BY <1>3, SizesIs DEF IsHeader
  <2> QED
    BY PIs, <1>1, <1>3, <2>3, <2>4 DEF Front
<1> QED
  BY <1>1, <1>2, <1>3

LEMMA ToTheEnd ==
  ASSUME NEW e, NEW x \in Int, NEW y \in Int, NEW f, NEW d, IsSequence(e),
         Copied(e, x, Len(e), f, d)
  PROVE  Copied(e, x, y, f, d)
<1>1. Len(e) \in Nat
  BY SequenceIs
<1>2. \A i \in x .. y : i <= Len(e) => i \in x .. Len(e)
  BY <1>1
<1> QED
  BY <1>2 DEF Copied

LEMMA Same ==
  ASSUME UNCHANGED <<what, head>>, new' = new
  PROVE  Front' = Front /\ Behind' = Behind /\ delta' = delta /\ start' = start
         /\ newHead' = newHead
BY DEF Front, Behind, delta, start, newHead

LEMMA MoveUpKeeps ==
  ASSUME TypeInv, MoveInv, MoveUp, KernelSpared
  PROVE  MoveInv'
<1>1. /\ pc = "grow" /\ pc' = "grow" /\ pos' = pos - P /\ pos > P /\ delta > 0
      /\ pos \in 0 .. Len(began) - P /\ UNCHANGED <<what, head, began>> /\ new' = new
      /\ Copied(began, 1, Front, image, 0) /\ Copied(began, 1, pos + P, image, 0)
      /\ Copied(began, pos + P + 1, Len(began), image, delta)
  BY DEF MoveUp, Last, Goto, TypeInv, PosInv, MoveInv, Writing
<1>2. /\ IsSequence(image) /\ IsSequence(began) /\ Len(began) \in Nat /\ pos \in Nat
      /\ delta \in Int /\ P \in Nat
  BY <1>1, PIs, SizesIs, ImageIs DEF TypeInv, FileInv, Writing
<1>3. Front' = Front /\ delta' = delta
  BY <1>1, Same
<1>4. Front \in Nat /\ Front <= P + delta + 1
  BY <1>1, SectionsAre, FrontSpared DEF TypeInv, Writing
<1> DEFINE r == Read(image, pos, P)
           to == pos + delta
<1>5. to \in Nat /\ IsSequence(r) /\ Len(r) \in 0 .. P
  BY <1>1, <1>2, PageIs
<1>6. image' = Write(image, to, r) /\ to = pos + delta
  BY DEF MoveUp
<1> HIDE DEF to
<1>7. Copied(began, pos + 1, pos + P, image, 0)
  BY PIs, <1>1, <1>2, PartOf
<1>8. Copied(began, pos + 1, pos + P, image', delta)
  BY <1>2, <1>5, <1>6, <1>7, PageMoved
<1> HIDE DEF r, delta
<1>9. Copied(began, pos + P + 1, Len(began), image', delta)
  <2>1. pos + P + 1 \in Nat /\ pos + P + 1 + delta > to + Len(r)
    BY PIs, <1>1, <1>2, <1>5, <1>6
  <2> QED
    BY <1>1, <1>2, <1>5, <1>6, <2>1, WriteKeeps
<1>10. Copied(began, pos + 1, Len(began), image', delta)
  <2>1. pos + 1 \in Int /\ pos + P \in Int
    BY PIs, <1>2
  <2> QED
    BY <1>2, <1>8, <1>9, <2>1, Joined
<1>11. Copied(began, 1, pos, image', 0)
  <2>1. Copied(began, 1, pos, image, 0)
    BY PIs, <1>1, <1>2, PartOf
  <2>2. pos + 0 <= to /\ pos \in Int
    BY <1>1, <1>2, <1>6
  <2> QED
    BY <1>2, <1>5, <1>6, <2>1, <2>2, WriteKeeps
<1>12. Copied(began, 1, Front, image', 0)
  <2>1. Front + 0 <= to /\ Front \in Int
    BY PIs, <1>1, <1>2, <1>4, <1>6
  <2> QED
    BY <1>1, <1>2, <1>5, <1>6, <2>1, WriteKeeps
<1>13. pos' + P = pos /\ pos' + P + 1 = pos + 1
  BY PIs, <1>1, <1>2
<1> QED
  BY <1>1, <1>3, <1>10, <1>11, <1>12, <1>13 DEF MoveInv

LEMMA WritePageKeeps ==
  ASSUME TypeInv, MoveInv, WritePage
  PROVE  MoveInv'
<1>1. /\ pc = "write" /\ pc' = "write" /\ pos' = pos + P
      /\ UNCHANGED <<what, head, began>> /\ new' = new
      /\ Copied(began, 1, Front, image, 0) /\ Copied(new, 1, pos, image, start)
      /\ Copied(began, Behind, Len(began), image, IF delta > 0 THEN delta ELSE 0)
  BY DEF WritePage, Goto, TypeInv, PosInv, MoveInv, Writing
<1> DEFINE b == Padded(Read(new, pos, P))
           to == start + pos
<1>2. /\ pos \in Nat /\ to \in Nat /\ IsSequence(b) /\ Len(b) = P
      /\ pos + P <= Space(Len(new))
  BY WritePageIs
<1>3. /\ IsSequence(image) /\ IsSequence(began) /\ IsSequence(new) /\ Len(new) \in Nat
      /\ Len(began) \in Nat /\ start \in Nat /\ delta \in Int /\ P \in Nat
      /\ Space(Len(new)) \in Nat /\ Space(Size(head, what)) \in Nat
      /\ delta = Space(Len(new)) - Space(Size(head, what))
  BY <1>1, PIs, SizesIs, ImageIs DEF TypeInv, FileInv, Writing
<1>4. /\ Front \in Nat /\ Front <= start /\ Behind \in Nat
      /\ Behind = start + Space(Size(head, what)) + 1
  BY <1>1, SectionsAre DEF TypeInv, Writing
<1>5. image' = Write(image, to, b) /\ to = start + pos
  BY DEF WritePage
<1> HIDE DEF to
<1>6. Copied(new, pos + 1, pos + P, image', start)
  BY <1>2, <1>3, <1>5, PageWritten
<1> HIDE DEF b
<1>7. Copied(new, 1, pos, image', start)
  <2>1. pos + start <= to /\ pos \in Int
    BY <1>2, <1>3, <1>5
  <2> QED
    BY <1>1, <1>2, <1>3, <1>5, <2>1, WriteKeeps
<1>8. Copied(new, 1, pos + P, image', start)
  BY <1>2, <1>3, <1>6, <1>7, Joined
<1>9. Copied(began, 1, Front, image', 0)
  <2>1. Front + 0 <= to /\ Front \in Int
    BY <1>2, <1>3, <1>4, <1>5
  <2> QED
    BY <1>1, <1>2, <1>3, <1>5, <2>1, WriteKeeps
<1>10. Copied(began, Behind, Len(began), image', IF delta > 0 THEN delta ELSE 0)
  <2> DEFINE d == IF delta > 0 THEN delta ELSE 0
  <2>1. d \in Int /\ Behind + d > to + Len(b)
    BY <1>2, <1>3, <1>4, <1>5, SMTT(30)
  <2>2. Copied(began, Behind, Len(began), image, d)
    BY <1>1
  <2> HIDE DEF d
  <2>3. /\ Behind \in Nat /\ Len(began) \in Int /\ to \in Nat
        /\ IsSequence(began) /\ IsSequence(image) /\ IsSequence(b)
    BY <1>2, <1>3, <1>4
  <2>4. image' = Write(image, to, b)
    BY <1>5
  <2> HIDE DEF Behind, start, delta
  <2>5. Copied(began, Behind, Len(began), image', d)
    BY <2>1, <2>2, <2>3, <2>4, WriteKeeps
  <2> QED
    BY <2>5 DEF d
<1>11. Front' = Front /\ Behind' = Behind /\ delta' = delta /\ start' = start
  BY <1>1, Same
<1> HIDE DEF delta, start, Front, Behind
<1> QED
  BY <1>1, <1>8, <1>9, <1>10, <1>11 DEF MoveInv

LEMMA MoveDownKeeps ==
  ASSUME TypeInv, MoveInv, MoveDown
  PROVE  MoveInv'
<1>1. /\ pc = "shrink" /\ pc' = "shrink" /\ pos' = pos + P /\ delta < 0
      /\ pos >= start + Space(Size(head, what))
      /\ UNCHANGED <<what, head, began>> /\ new' = new
      /\ Copied(began, 1, Front, image, 0) /\ Copied(new, 1, Len(new), image, start)
      /\ Copied(began, Behind, pos, image, delta)
      /\ Copied(began, pos + 1, Len(began), image, 0)
  BY DEF MoveDown, Goto, TypeInv, PosInv, MoveInv, Writing
<1> DEFINE r == Read(image, pos, P)
           to == pos + delta
<1>2. /\ IsSequence(image) /\ IsSequence(began) /\ IsSequence(new) /\ Len(new) \in Nat
      /\ Len(began) \in Nat /\ start \in Nat /\ delta \in Int /\ P \in Nat
      /\ Space(Len(new)) \in Nat
  BY <1>1, PIs, SizesIs, ImageIs DEF TypeInv, FileInv, Writing
<1>3. /\ Front \in Nat /\ Front <= start /\ Behind \in Nat
      /\ Behind = start + Space(Size(head, what)) + 1
  BY <1>1, SectionsAre DEF TypeInv, Writing
<1>4. /\ pos \in Nat /\ to \in Nat /\ to >= start + Space(Len(new)) /\ IsSequence(r)
  BY MoveDownIs
<1>5. Len(r) \in 0 .. P
  BY <1>2, <1>4, PageIs
<1>6. image' = Write(image, to, r) /\ to = pos + delta
  BY DEF MoveDown
<1> HIDE DEF to
<1>7. Copied(began, pos + 1, pos + P, image, 0)
  BY <1>1, <1>2, <1>4, ToTheEnd
<1>8. Copied(began, pos + 1, pos + P, image', delta)
  BY <1>2, <1>4, <1>6, <1>7, PageMoved
<1> HIDE DEF r, delta, start
<1>9. Copied(began, Behind, pos, image', delta)
  <2>1. pos + delta <= to /\ pos \in Int
    BY <1>2, <1>4, <1>6
  <2> QED
    BY <1>1, <1>2, <1>3, <1>4, <1>6, <2>1, WriteKeeps
<1>10. Copied(began, Behind, pos + P, image', delta)
  <2>1. Behind \in Int /\ pos \in Int /\ pos + P \in Int
    BY <1>2, <1>3, <1>4
  <2> QED
    BY <1>8, <1>9, <2>1, Joined
<1>11. Copied(began, pos + P + 1, Len(began), image', 0)
  <2>1. pos + P + 1 \in Nat /\ pos + P + 1 + 0 > to + Len(r)
    BY <1>1, <1>2, <1>4, <1>5, <1>6
  <2>2. Copied(began, pos + P + 1, Len(began), image, 0)
    BY <1>1, <1>2, <1>4, PartOf
  <2> QED
    BY <1>2, <1>4, <1>6, <2>1, <2>2, WriteKeeps
<1>12. Copied(new, 1, Len(new), image', start)
  <2>1. Len(new) <= Space(Len(new))
    BY <1>2, SpaceIs
  <2>2. Len(new) + start <= to
    BY <1>2, <1>4, <2>1
  <2> QED
    BY <1>1, <1>2, <1>4, <1>6, <2>2, WriteKeeps
<1>13. Copied(began, 1, Front, image', 0)
  <2>1. Front + 0 <= to /\ Front \in Int
    BY <1>2, <1>3, <1>4
  <2> QED
    BY <1>1, <1>2, <1>4, <1>6, <2>1, WriteKeeps
<1>14. Front' = Front /\ Behind' = Behind /\ delta' = delta /\ start' = start
  BY <1>1, Same
<1> HIDE DEF Front, Behind
<1>15. pos' + 1 = pos + P + 1
  BY <1>1
<1> QED
  BY <1>1, <1>10, <1>11, <1>12, <1>13, <1>14, <1>15 DEF MoveInv, Writing

\* Writing begins with a file that is as it was.
LEMMA BeginMove ==
  ASSUME TypeInv, OpenKernel \/ ModifyRamdisk, TypeInv'
  PROVE  MoveInv'
<1>1. CASE pc' = "idle"
  BY <1>1 DEF MoveInv, Writing
<1>2. CASE pc' # "idle"
  <2>1. /\ image' = image /\ image = began /\ UNCHANGED <<what, head, began>>
        /\ (delta' > 0 => pc' = "grow" /\ pos' = Len(image) - P)
        /\ (~ (delta' > 0) => pc' = "write" /\ pos' = 0)
    BY <1>2, NewIs DEF BeginWriting
  <2>2. IsImage(image) /\ what \in 1 .. 2 /\ head = image[1]
    BY <1>2 DEF OpenKernel, ModifyRamdisk, TypeInv, FileInv
  <2>3. Front' = Front /\ Behind' = Behind
    BY <2>1 DEF Front, Behind, start
  <2>4. Front \in Nat /\ Behind \in Nat /\ Behind >= 1 /\ P \in Nat /\ Len(image) \in Nat
    <3>1. IsHeader(head) /\ Len(image) \in Nat
      BY <2>2, ImageIs
    <3>2. /\ Size(head, 1) \in Nat /\ start \in Nat /\ Space(Size(head, what)) \in Nat
      <4>1. \A s \in 1 .. 4 : Size(head, s) \in Nat /\ Space(Size(head, s)) \in Nat
                             /\ StartOf(head, s) \in Nat
        BY <3>1, StartIs
      <4>2. what \in 1 .. 4 /\ 1 \in 1 .. 4
        BY <2>2
      <4> QED
        BY <4>1, <4>2 DEF start
    <3> QED
      BY PIs, <2>2, <3>1, <3>2 DEF Front, Behind
  <2>5. \A x \in Nat : x >= 1 => \A y \in Int : Copied(began', x, y, image', 0)
    BY <2>1, <2>4 DEF Copied
  <2>6. Copied(began', 1, Front', image', 0)
    BY <2>3, <2>4, <2>5
  <2>7. CASE delta' > 0
    <3>1. pos' + P = Len(image) /\ pc' = "grow"
      BY <2>1, <2>4, <2>7
    <3>2. Copied(began', 1, pos' + P, image', 0)
      BY <2>4, <2>5, <3>1
    <3>3. Copied(began', pos' + P + 1, Len(began'), image', delta')
      <4>1. Len(began') = Len(image)
        BY <2>1
      <4>2. \A i \in Len(image) + 1 .. Len(image) : FALSE
        BY <2>4
      <4> QED
        BY <3>1, <4>1, <4>2 DEF Copied
    <3> QED
      BY <2>6, <3>1, <3>2, <3>3 DEF MoveInv
  <2>8. CASE ~ (delta' > 0)
    <3>1. pos' = 0 /\ pc' = "write"
      BY <2>1, <2>8
    <3>2. Copied(new', 1, pos', image', start')
      BY <3>1 DEF Copied
    <3>3. Copied(began', Behind', Len(began'), image', 0)
      BY <2>1, <2>3, <2>4, <2>5
    <3> QED
      BY <2>6, <2>8, <3>1, <3>2, <3>3 DEF MoveInv
  <2> QED
    BY <2>7, <2>8
<1> QED
  BY <1>1, <1>2

LEMMA MovedUpKeeps ==
  ASSUME TypeInv, MoveInv, MovedUp
  PROVE  MoveInv'
<1>1. /\ pc = "grow" /\ pc' = "write" /\ pos' = 0 /\ pos <= P /\ delta > 0 /\ pos \in Int
      /\ UNCHANGED <<what, head, began, image>> /\ new' = new
      /\ Copied(began, 1, Front, image, 0)
      /\ Copied(began, pos + P + 1, Len(began), image, delta)
  BY DEF MovedUp, Last, Goto, TypeInv, PosInv, MoveInv, Writing
<1>2. /\ Behind \in Nat /\ Behind > 2 * P /\ IsSequence(began) /\ Len(began) \in Nat
  BY <1>1, SectionsAre, ImageIs DEF TypeInv, FileInv, Writing
<1>3. Copied(began, Behind, Len(began), image, delta)
  <2>1. pos + P + 1 \in Int /\ pos + P + 1 <= Behind
    BY PIs, <1>1, <1>2
  <2> HIDE DEF delta, Behind
  <2> QED
    BY <1>1, <1>2, <2>1, PartOf
<1>4. Copied(new, 1, 0, image, start)
  BY DEF Copied
<1>5. Front' = Front /\ Behind' = Behind /\ delta' = delta /\ start' = start
  BY <1>1, Same
<1> QED
  BY <1>1, <1>3, <1>4, <1>5 DEF MoveInv

LEMMA SectionWrittenKeeps ==
  ASSUME TypeInv, MoveInv, SectionWritten
  PROVE  MoveInv'
<1>1. /\ pc = "write" /\ pos >= Len(new) /\ UNCHANGED <<what, head, began, image>> /\ new' = new
      /\ Copied(began, 1, Front, image, 0) /\ Copied(new, 1, pos, image, start)
      /\ Copied(began, Behind, Len(began), image, IF delta > 0 THEN delta ELSE 0)
      /\ (delta < 0 => pc' = "shrink" /\ pos' = start + Space(Size(head, what)))
      /\ (~ (delta < 0) => pc' = "truncate")
  BY DEF SectionWritten, Goto, MoveInv, Writing
<1>2. /\ pos \in Nat /\ Len(new) \in Nat /\ IsSequence(new) /\ Len(began) \in Nat
      /\ IsSequence(began) /\ delta \in Int /\ Behind \in Nat
      /\ Behind = start + Space(Size(head, what)) + 1
      /\ start + Space(Size(head, what)) \in Nat
  <2>1. /\ Len(new) \in Nat /\ IsSequence(new) /\ delta \in Int /\ start \in Nat
        /\ Space(Size(head, what)) \in Nat /\ Space(Len(new)) \in Nat
    BY <1>1, SizesIs DEF TypeInv, Writing
  <2>2. Behind \in Nat /\ Behind = start + Space(Size(head, what)) + 1
    BY <1>1, SectionsAre DEF TypeInv, Writing
  <2>3. pos \in Nat
    BY <1>1, <2>1 DEF TypeInv, PosInv
  <2>4. IsSequence(began) /\ Len(began) \in Nat
    BY <1>1, ImageIs DEF TypeInv, FileInv
  <2> QED
    BY <2>1, <2>2, <2>3, <2>4
<1>3. Copied(new, 1, Len(new), image, start)
  BY <1>1, <1>2, PartOf
<1>4. Front' = Front /\ Behind' = Behind /\ delta' = delta /\ start' = start
  BY <1>1, Same
<1>5. CASE delta < 0
  <2>1. pc' = "shrink" /\ pos' + 1 = Behind
    BY <1>1, <1>2, <1>5
  <2>2. Copied(began, Behind, Len(began), image, 0)
    BY <1>1, <1>2, <1>5
  <2>3. Copied(began, Behind, pos', image, delta)
    <3>1. pos' = Behind - 1
      BY <1>1, <1>2, <1>5
    <3>2. Behind .. Behind - 1 = {}
      BY <1>2
    <3> QED
      BY <3>1, <3>2 DEF Copied
  <2> QED
    BY <1>1, <1>3, <1>4, <2>1, <2>2, <2>3 DEF MoveInv
<1>6. CASE ~ (delta < 0)
  <2>1. (IF delta > 0 THEN delta ELSE 0) = delta
    BY <1>2, <1>6
  <2>2. pc' = "truncate" /\ Copied(began, Behind, Len(began), image, delta)
    BY <1>1, <1>6, <2>1
  <2> QED
    BY <1>1, <1>3, <1>4, <2>2 DEF MoveInv
<1> QED
  BY <1>5, <1>6

LEMMA MovedDownKeeps ==
  ASSUME TypeInv, MoveInv, MovedDown
  PROVE  MoveInv'
<1>1. /\ pc = "shrink" /\ pos >= Len(image) /\ Len(image) >= Len(began) /\ pos \in Nat
      /\ UNCHANGED <<what, head, began, image>> /\ new' = new /\ pc' = "truncate"
      /\ Copied(began, 1, Front, image, 0) /\ Copied(new, 1, Len(new), image, start)
      /\ Copied(began, Behind, pos, image, delta)
  BY DEF MovedDown, Goto, TypeInv, PosInv, MoveInv, Writing
<1>2. /\ Len(began) \in Nat /\ Len(image) \in Nat /\ Behind \in Nat
  BY <1>1, SectionsAre, ImageIs DEF TypeInv, FileInv, Writing
<1>3. Copied(began, Behind, Len(began), image, delta)
  <2>1. Len(began) <= pos
    BY <1>1, <1>2
  <2> HIDE DEF Behind, delta
  <2> QED
    BY <1>1, <1>2, <2>1, PartOf
<1>4. Front' = Front /\ Behind' = Behind /\ delta' = delta /\ start' = start
  BY <1>1, Same
<1> QED
  BY <1>1, <1>3, <1>4 DEF MoveInv

LEMMA TruncateKeeps ==
  ASSUME TypeInv, MoveInv, Truncate
  PROVE  MoveInv'
<1>1. /\ pc = "truncate" /\ pc' = "header" /\ image' = Resize(image, Total(newHead))
      /\ UNCHANGED <<what, head, began>> /\ new' = new
      /\ Copied(began, 1, Front, image, 0) /\ Copied(new, 1, Len(new), image, start)
      /\ Copied(began, Behind, Len(began), image, delta)
  BY DEF Truncate, Goto, MoveInv, Writing
<1>2. /\ Front \in Nat /\ Front <= start /\ Behind \in Nat /\ Total(newHead) \in Nat
      /\ start + Space(Len(new)) <= Total(newHead)
  BY <1>1, SectionsAre DEF TypeInv, Writing
<1>3. /\ IsSequence(image) /\ IsSequence(began) /\ IsSequence(new) /\ Len(new) \in Nat
      /\ start \in Nat /\ delta \in Int /\ Space(Len(new)) \in Nat
  BY <1>1, SizesIs, ImageIs DEF TypeInv, FileInv, Writing
<1>4. Len(new) + start <= Total(newHead) /\ Front + 0 <= Total(newHead)
  <2>1. Len(new) <= Space(Len(new))
    BY <1>3, SpaceIs
  <2> QED
    BY <1>2, <1>3, <2>1
<1> DEFINE n == Total(newHead)
<1>5. n \in Nat /\ image' = Resize(image, n) /\ Len(new) + start <= n /\ Front + 0 <= n
      /\ Front \in Int /\ n - delta \in Int /\ (n - delta) + delta <= n
  BY <1>1, <1>2, <1>3, <1>4
<1> HIDE DEF n, delta, start, Front, Behind
<1>6. Copied(began, 1, Front, image', 0)
  BY <1>1, <1>3, <1>5, ResizeKeeps
<1>7. Copied(new, 1, Len(new), image', start)
  BY <1>1, <1>3, <1>5, ResizeKeeps
<1>8. Copied(began, Behind, n - delta, image', delta)
  <2>1. Copied(began, Behind, n - delta, image, delta)
    BY <1>1, <1>2, <1>3, <1>5, ToTheEnd
  <2> QED
    BY <1>2, <1>3, <1>5, <2>1, ResizeKeeps
<1>9. Len(image') = n
  BY <1>3, <1>5, ResizeIs
<1>10. Front' = Front /\ Behind' = Behind /\ delta' = delta /\ start' = start
       /\ newHead' = newHead
  BY <1>1, Same
<1>11. Total(newHead') = n
  BY <1>10 DEF n
<1> QED
  BY <1>1, <1>6, <1>7, <1>8, <1>9, <1>10, <1>11 DEF MoveInv

LEMMA InitMoveInv == Init => MoveInv
BY DEF Init, ImageInit, MoveInv, Writing

LEMMA MoveStep ==
  ASSUME TypeInv, MoveInv, TypeInv', [Next]_vars, KernelSpared
  PROVE  MoveInv'
<1>1. CASE UNCHANGED imageVars
  BY <1>1 DEF imageVars, MoveInv, Front, Behind, delta, start, newHead
<1>2. CASE \E w \in 1 .. 2 : Start(w)
  <2>1. pc' \in {"kernel", "ramdisk"}
    BY <1>2 DEF Start
  <2> QED
    BY <2>1 DEF MoveInv, Writing
<1>3. CASE WriteHeader \/ Kill
  <2>1. pc' = "idle"
    BY <1>3 DEF WriteHeader, Kill, Exit
  <2> QED
    BY <2>1 DEF MoveInv, Writing
<1>4. CASE Step
  BY <1>3, <1>4, BeginMove, MoveUpKeeps, MovedUpKeeps, WritePageKeeps, SectionWrittenKeeps,
     MoveDownKeeps, MovedDownKeeps, TruncateKeeps DEF Step
<1>5. CASE SyncStart \/ SyncStep \/ SyncKill \/ UNCHANGED vars
  <2>1. UNCHANGED imageVars
    BY <1>5 DEF vars, SyncStart, SyncStep, SyncKill, CompareFile, WriteFile, CopyPage, Fault,
                FinishDevice, SyncReturn, SyncGoto
  <2> QED
    BY <1>1, <2>1
<1> QED
  BY <1>2, <1>3, <1>4, <1>5 DEF Next, ScriptStarts

------------------------------------------------------------------------------
(* What is in the sections. *)

\* A part of a file that is in another one, elsewhere.
Has(g, to, f, at, n) ==
  \A i \in 1 .. n : i + at <= Len(f) => i + to \in 1 .. Len(g) /\ g[i + to] = f[i + at]

LEMMA ReadAs ==
  ASSUME NEW f, NEW g, NEW at \in Nat, NEW to \in Nat, NEW n \in Nat,
         IsSequence(f), IsSequence(g), n <= Len(Read(f, at, n)), Has(g, to, f, at, n)
  PROVE  Read(g, to, n) = Read(f, at, n)
<1> DEFINE r == Read(f, at, n)
           q == Read(g, to, n)
<1>1. Len(f) \in Nat /\ Len(g) \in Nat
  BY SequenceIs
<1>2. IsSequence(r) /\ \A i \in 1 .. Len(r) : i + at <= Len(f) /\ r[i] = f[i + at]
  <2>1. IsSequence(r)
    BY ReadIs
  <2>2. \A i \in 1 .. Len(r) : i + at <= Len(f) /\ r[i] = f[i + at]
    BY ReadIs, SMTT(30)
  <2> QED
    BY <2>1, <2>2
<1>3. IsSequence(q) /\ \A i \in 1 .. Len(q) : q[i] = g[i + to]
  <2>1. IsSequence(q)
    BY ReadIs
  <2>2. \A i \in 1 .. Len(q) : q[i] = g[i + to]
    BY ReadIs, SMTT(30)
  <2> QED
    BY <2>1, <2>2
<1>4. Len(q) \in 0 .. n /\ (to + n <= Len(g) => Len(q) = n)
  BY ReadIs
<1>6. Len(r) = n
  <2>1. Len(r) \in 0 .. n
    BY ReadIs
  <2> QED
    BY <2>1
<1> HIDE DEF r, q
<1>5. Len(q) = n
  <2>1. CASE n = 0
    BY <1>4, <2>1
  <2>2. CASE n > 0
    <3>1. n \in 1 .. Len(r) /\ n \in 1 .. n
      BY <1>6, <2>2
    <3>2. n + to \in 1 .. Len(g)
      BY <1>2, <1>6, <3>1 DEF Has
    <3>3. to + n <= Len(g)
      BY <1>1, <3>2
    <3> QED
      BY <1>4, <3>3
  <2> QED
    BY <2>1, <2>2
<1>7. ASSUME NEW i \in 1 .. n
      PROVE  q[i] = r[i]
  <2>1. i + at <= Len(f) /\ r[i] = f[i + at]
    BY <1>2, <1>6
  <2>2. q[i] = g[i + to]
    BY <1>3, <1>5
  <2>3. g[i + to] = f[i + at]
    BY <2>1 DEF Has
  <2> QED
    BY <2>1, <2>2, <2>3
<1>8. q = r
  BY <1>2, <1>3, <1>5, <1>6, <1>7, SameFile
<1> QED
  BY <1>8 DEF r, q

\* The header goes to a file that has all the sections where it says.
LEMMA OneReplaced ==
  ASSUME FileInv, MoveInv, WriteHeader, HoldsAll(began)
  PROVE  /\ \A s \in 1 .. 4 :
              Section(image', s) = IF s = what THEN new ELSE Section(began, s)
         /\ Len(image') = Total(image'[1])
<1>1. /\ pc = "header" /\ Len(image) = Total(newHead) /\ began[1] = head
      /\ Copied(began, 1, Front, image, 0) /\ Copied(new, 1, Len(new), image, start)
      /\ Copied(began, Behind, Total(newHead) - delta, image, delta)
  BY DEF WriteHeader, FileInv, MoveInv, Writing
<1>2. /\ IsSequence(image') /\ image'[1] = newHead /\ Len(image') = Len(image)
      /\ \A i \in 2 .. Len(image) : image'[i] = image[i]
      /\ IsHeader(newHead) /\ what \in 1 .. 2 /\ Len(new) \in Nat
      /\ \A s \in 1 .. 4 : Size(newHead, s) = IF s = what THEN Len(new) ELSE Size(head, s)
  BY WriteHeaderIs, ImageIs
<1>3. /\ IsSequence(image) /\ IsSequence(began) /\ Len(image) \in Nat /\ Len(began) \in Nat
      /\ IsHeader(head)
  BY <1>1, ImageIs DEF FileInv
<1>4. IsSequence(new) /\ start \in Nat /\ start >= P /\ delta \in Int
  BY <1>1, SizesIs DEF Writing
<1>5. /\ Front \in Nat /\ Behind \in Nat /\ Total(newHead) \in Nat
      /\ Behind = start + Space(Size(head, what)) + 1 /\ Total(newHead) = Total(head) + delta
      /\ \A s \in 1 .. 4 : StartOf(newHead, s) =
           StartOf(head, s) + (IF s > what THEN delta ELSE 0)
  BY <1>1, SectionsAre DEF Writing
<1>6. /\ \A s \in 1 .. 4 : Size(head, s) \in Nat /\ StartOf(head, s) \in Nat
                         /\ StartOf(head, s) >= P
      /\ \A s \in 1 .. 4 : StartOf(newHead, s) \in Nat /\ StartOf(newHead, s) >= P
      /\ Total(head) \in Nat
  BY <1>2, <1>3, StartIs
<1>7. \A i \in Nat : i > P /\ i <= Len(image) => image'[i] = image[i] /\ i \in 1 .. Len(image')
  BY PIs, <1>2, <1>3
<1>8. Len(image') = Total(image'[1])
  BY <1>1, <1>2
<1>9. Section(image', what) = new
  <2>1. Copied(new, 1, Len(new), new, 0)
    BY <1>2 DEF Copied
  <2>2. Read(new, 0, Len(new)) = new
    BY <1>4, <2>1, ReadCopied
  <2>3. Has(image', start, new, 0, Len(new))
    <3> SUFFICES ASSUME NEW i \in 1 .. Len(new)
                 PROVE  i + start \in 1 .. Len(image') /\ image'[i + start] = new[i + 0]
      BY DEF Has
    <3>1. i + start \in 1 .. Len(image) /\ image[i + start] = new[i] /\ i + 0 = i
      BY <1>1, <1>2 DEF Copied
    <3>2. i + start \in Nat /\ i + start > P /\ i + start <= Len(image)
      BY PIs, <1>2, <1>3, <1>4, <3>1
    <3> QED
      BY <1>7, <3>1, <3>2
  <2>4. Read(image', start, Len(new)) = Read(new, 0, Len(new))
    <3>1. 0 \in Nat /\ Len(new) <= Len(Read(new, 0, Len(new)))
      BY <1>2, <2>2
    <3> QED
      BY <3>1, <1>2, <1>4, <2>2, <2>3, ReadAs
  <2>5. StartOf(newHead, what) = start /\ Size(newHead, what) = Len(new)
    <3>1. what \in 1 .. 4 /\ ~ (what > what)
      BY <1>2
    <3>2. start = StartOf(head, what)
      BY DEF start
    <3> QED
      BY <1>2, <1>4, <1>5, <3>1, <3>2
  <2> QED
    BY <1>2, <2>2, <2>4, <2>5 DEF Section
<1>10. ASSUME NEW s \in 1 .. 4, s # what
       PROVE  Section(image', s) = Section(began, s)
  <2> DEFINE at == StartOf(head, s)
             to == StartOf(newHead, s)
             n  == Size(head, s)
  <2>1. n \in Nat /\ at \in Nat /\ to \in Nat /\ at >= P /\ to >= P
    BY <1>6
  <2>2. Len(Read(began, at, n)) = n
    BY <1>1 DEF HoldsAll, Section
  <2>3. to = at + (IF s > what THEN delta ELSE 0)
    BY <1>5
  <2>4. Section(image', s) = Read(image', to, n) /\ Section(began, s) = Read(began, at, n)
    BY <1>1, <1>2, <1>10 DEF Section
  <2>5. IF s > what THEN Behind <= at + 1 /\ at + n <= Total(newHead) - delta
                    ELSE at + n <= Front
    <3>1. /\ \A t \in 1 .. 4 : Size(head, t) \in Nat /\ Space(Size(head, t)) \in Nat
                             /\ Size(head, t) <= Space(Size(head, t))
          /\ StartOf(head, 1) = P
          /\ \A t \in 1 .. 3 : StartOf(head, t + 1) = StartOf(head, t) + Space(Size(head, t))
          /\ Total(head) = StartOf(head, 4) + Space(Size(head, 4))
      BY <1>3, StartIs, SpaceIs
    <3>2. /\ StartOf(head, 2) = StartOf(head, 1) + Space(Size(head, 1))
          /\ StartOf(head, 3) = StartOf(head, 2) + Space(Size(head, 2))
          /\ StartOf(head, 4) = StartOf(head, 3) + Space(Size(head, 3))
      <4>1. 1 + 1 = 2 /\ 2 + 1 = 3 /\ 3 + 1 = 4 /\ 1 \in 1 .. 3 /\ 2 \in 1 .. 3 /\ 3 \in 1 .. 3
        OBVIOUS
      <4> QED
        BY <3>1, <4>1
    <3>3. CASE what = 1
      <4>1. Behind = StartOf(head, 2) + 1 /\ s \in 2 .. 4 /\ s > what
        BY <1>5, <1>10, <3>1, <3>2, <3>3 DEF start
      <4>2. Behind <= at + 1 /\ at + n <= Total(head)
        BY PIs, <1>6, <3>1, <3>2, <4>1
      <4> QED
        BY <1>4, <1>5, <1>6, <4>1, <4>2
    <3>4. CASE what = 2
      <4>1. Behind = StartOf(head, 3) + 1 /\ s \in {1, 3, 4}
        BY <1>5, <1>10, <3>1, <3>2, <3>4 DEF start
      <4>2. CASE s = 1
        <5>1. Front = P + Size(head, 1)
          BY <3>4 DEF Front
        <5> QED
          BY PIs, <1>6, <3>1, <3>4, <4>2, <5>1
      <4>3. CASE s \in {3, 4}
        <5>1. Behind <= at + 1 /\ at + n <= Total(head) /\ s > what
          BY PIs, <1>6, <3>1, <3>2, <3>4, <4>1, <4>3
        <5> QED
          BY <1>4, <1>5, <1>6, <5>1
      <4> QED
        BY <4>1, <4>2, <4>3
    <3> QED
      BY <1>2, <3>3, <3>4
  <2> HIDE DEF at, to, n
  <2>6. Has(image', to, began, at, n)
    <3> SUFFICES ASSUME NEW i \in 1 .. n, i + at <= Len(began)
                 PROVE  i + to \in 1 .. Len(image') /\ image'[i + to] = began[i + at]
      BY DEF Has
    <3>1. i + to \in 1 .. Len(image) /\ image[i + to] = began[i + at]
      <4>1. CASE s > what
        <5>1. i + at \in Behind .. Total(newHead) - delta
          <6>1. Behind <= at + 1 /\ at + n <= Total(newHead) - delta
            BY <2>5, <4>1
          <6>2. Behind \in Int /\ Total(newHead) - delta \in Int
            BY <1>4, <1>5
          <6> HIDE DEF Behind, delta, newHead
          <6> QED
            BY <2>1, <6>1, <6>2
        <5>2. (i + at) + delta = i + to
          BY <1>4, <2>1, <2>3, <4>1
        <5>3. (i + at) + delta \in 1 .. Len(image) /\ image[(i + at) + delta] = began[i + at]
          BY <1>1, <5>1 DEF Copied
        <5> QED
          BY <5>2, <5>3
      <4>2. CASE ~ (s > what)
        <5>1. i + at \in 1 .. Front /\ (i + at) + 0 = i + to
          BY <1>5, <2>1, <2>3, <2>5, <4>2
        <5>2. (i + at) + 0 \in 1 .. Len(image) /\ image[(i + at) + 0] = began[i + at]
          BY <1>1, <5>1 DEF Copied
        <5> QED
          BY <5>1, <5>2
      <4> QED
        BY <4>1, <4>2
    <3>2. i + to \in Nat /\ i + to > P /\ i + to <= Len(image)
      BY PIs, <1>3, <2>1, <3>1
    <3> QED
      BY <1>7, <3>1, <3>2
  <2>7. Read(image', to, n) = Read(began, at, n)
    <3>1. IsSequence(image') /\ IsSequence(began)
      BY <1>2, <1>3
    <3>2. n <= Len(Read(began, at, n))
      BY <2>1, <2>2
    <3> QED
      BY <2>1, <2>6, <3>1, <3>2, ReadAs
  <2> QED
    BY <2>4, <2>7
<1> QED
  BY <1>8, <1>9, <1>10

\* A script that has changed its file to the end of the way has replaced the section it is
\* for, left the other three as they were, each where the new header says, and nothing
\* behind them (OneSectionReplaced), for a kernel that is out of the way (KernelSpared).
THEOREM SectionReplaced ==
  ASSUME KernelSpared
  PROVE  Spec => OneSectionReplaced
<1>1. Init => TypeInv /\ MoveInv
  BY InitTypeInv, InitMoveInv
<1>2. TypeInv /\ MoveInv /\ [Next]_vars => TypeInv' /\ MoveInv'
  <2> SUFFICES ASSUME TypeInv, MoveInv, [Next]_vars
               PROVE  TypeInv' /\ MoveInv'
    OBVIOUS
  <2>1. TypeInv'
    BY TypeKept
  <2> QED
    BY <2>1, MoveStep
<1>3. TypeInv /\ MoveInv /\ [Next]_vars =>
        [ pc = "header" /\ ret' = 0 /\ HoldsAll(began) =>
            /\ \A s \in 1 .. 4 :
                 Section(image', s) = IF s = what THEN new ELSE Section(began, s)
            /\ Len(image') = Total(image'[1]) ]_imageVars
  <2> SUFFICES ASSUME TypeInv, MoveInv, [Next]_vars, ~ UNCHANGED imageVars,
                      pc = "header", ret' = 0, HoldsAll(began)
               PROVE  /\ \A s \in 1 .. 4 :
                           Section(image', s) = IF s = what THEN new ELSE Section(began, s)
                      /\ Len(image') = Total(image'[1])
    OBVIOUS
  <2>1. ~ UNCHANGED vars
    BY DEF vars
  <2>2. ~ Kill
    BY DEF Kill, Exit
  <2>3. WriteHeader
    BY <2>1, <2>2 DEF Next, ScriptStarts, Start, Step, OpenKernel, ModifyRamdisk, MoveUp, MovedUp,
       WritePage, SectionWritten, MoveDown, MovedDown, Truncate, SyncStart, SyncStep,
       SyncKill, CompareFile, WriteFile, CopyPage, Fault, FinishDevice, SyncReturn, SyncGoto,
       imageVars
  <2> QED
    BY <2>3, OneReplaced DEF TypeInv
<1> QED
  BY <1>1, <1>2, <1>3, PTL DEF Spec, OneSectionReplaced

------------------------------------------------------------------------------
(* What can be booted. *)

LEMMA InitGoodInv == Init => GoodInv
<1> SUFFICES ASSUME Init
             PROVE  GoodInv
  OBVIOUS
<1>1. image \in Images /\ pc = "idle" /\ spoiled = ~HoldsAll(image)
  BY DEF Init, ImageInit
<1>2. ASSUME ~spoiled
      PROVE  GoodImage(image)
  <2>1. HoldsAll(image) /\ 0 \in 0 .. MaxRuns
    <3>1. HoldsAll(image)
      BY <1>1, <1>2, Zenon
    <3>2. 0 \in 0 .. MaxRuns
      BY BootImageAssumption
    <3> QED
      BY <3>1, <3>2
  <2>2. \A s \in 1 .. 4 : Section(image, s) = Units(Sections[s], 0, Size(image[1], s))
    BY <1>1, <2>1, ImagesAssumption
  <2> QED
    BY <2>1, <2>2 DEF GoodImage
<1> QED
  BY <1>1, <1>2 DEF GoodInv

\* The file of a script that is done.
LEMMA WrittenGood ==
  ASSUME FileInv, MoveInv, WriteHeader, GoodImage(began)
  PROVE  GoodImage(image')
<1>1. HoldsAll(began) /\ pc = "header" /\ began[1] = head
  BY DEF GoodImage, WriteHeader, FileInv
<1>2. \A s \in 1 .. 4 : Section(image', s) = IF s = what THEN new ELSE Section(began, s)
  BY <1>1, OneReplaced
<1>3. /\ image'[1] = newHead /\ what \in 1 .. 2
      /\ \A s \in 1 .. 4 : Size(newHead, s) = IF s = what THEN Len(new) ELSE Size(head, s)
  BY WriteHeaderIs
<1>4. new = Units(Sections[what], runs, Len(new)) /\ runs \in 0 .. MaxRuns
  BY <1>1 DEF FileInv, Writing
<1>5. ASSUME NEW s \in 1 .. 4
      PROVE  /\ Len(Section(image', s)) = Size(image'[1], s)
             /\ \E v \in 0 .. MaxRuns :
                  Section(image', s) = Units(Sections[s], v, Size(image'[1], s))
  <2>1. CASE s = what
    <3>1. Section(image', s) = new /\ Size(image'[1], s) = Len(new)
      BY <1>2, <1>3, <2>1
    <3> QED
      BY <1>4, <2>1, <3>1
  <2>2. CASE s # what
    <3>1. Section(image', s) = Section(began, s) /\ Size(image'[1], s) = Size(began[1], s)
      BY <1>1, <1>2, <1>3, <2>2
    <3>2. Len(Section(began, s)) = Size(began[1], s)
      BY <1>1 DEF HoldsAll
    <3>3. \E v \in 0 .. MaxRuns :
            Section(began, s) = Units(Sections[s], v, Size(began[1], s))
      BY DEF GoodImage
    <3> QED
      BY <3>1, <3>2, <3>3
  <2> QED
    BY <2>1, <2>2
<1> QED
  BY <1>5 DEF GoodImage, HoldsAll

LEMMA GoodStep ==
  ASSUME TypeInv, MoveInv, GoodInv, [Next]_vars
  PROVE  GoodInv'
<1>1. CASE UNCHANGED imageVars
  BY <1>1 DEF imageVars, GoodInv
<1>2. CASE \E w \in 1 .. 2 : Start(w)
  <2>1. pc = "idle" /\ began' = image /\ spoiled' = spoiled /\ pc' # "idle"
    BY <1>2 DEF Start
  <2> QED
    BY <2>1 DEF GoodInv
<1>3. CASE Kill
  <2>1. pc # "idle" /\ pc' = "idle" /\ image' = image
        /\ (~spoiled' => ~spoiled /\ image = began)
    BY <1>3 DEF Kill, Exit
  <2> QED
    BY <2>1 DEF GoodInv
<1>4. CASE WriteHeader
  <2>1. pc # "idle" /\ pc' = "idle" /\ spoiled' = spoiled
    BY <1>4 DEF WriteHeader, Exit
  <2>2. ~spoiled => GoodImage(image')
    BY <1>4, <2>1, WrittenGood DEF GoodInv, TypeInv
  <2> QED
    BY <2>1, <2>2 DEF GoodInv
<1>5. CASE OpenKernel \/ ModifyRamdisk
  <2>1. pc # "idle" /\ spoiled' = spoiled /\ image = began
    BY <1>5 DEF OpenKernel, ModifyRamdisk, TypeInv, FileInv
  <2>2. CASE pc' = "idle"
    <3>1. image' = image
      BY <1>5 DEF OpenKernel, ModifyRamdisk
    <3> QED
      BY <2>1, <2>2, <3>1 DEF GoodInv
  <2>3. CASE pc' # "idle"
    <3>1. began' = began
      BY <1>5, <2>3 DEF OpenKernel, ModifyRamdisk, Exit
    <3> QED
      BY <2>1, <2>3, <3>1 DEF GoodInv
  <2> QED
    BY <2>2, <2>3
<1>6. CASE MoveUp \/ MovedUp \/ WritePage \/ SectionWritten \/ MoveDown \/ MovedDown \/ Truncate
  <2>1. pc # "idle" /\ pc' # "idle" /\ began' = began /\ spoiled' = spoiled
    BY <1>6 DEF MoveUp, MovedUp, WritePage, SectionWritten, MoveDown, MovedDown, Truncate, Goto
  <2> QED
    BY <2>1 DEF GoodInv
<1>7. CASE SyncStart \/ SyncStep \/ SyncKill \/ UNCHANGED vars
  <2>1. UNCHANGED imageVars
    BY <1>7 DEF vars, SyncStart, SyncStep, SyncKill, CompareFile, WriteFile, CopyPage, Fault,
                FinishDevice, SyncReturn, SyncGoto
  <2> QED
    BY <1>1, <2>1
<1> QED
  BY <1>2, <1>3, <1>4, <1>5, <1>6, <1>7 DEF Next, ScriptStarts, Step

\* What syncfile has copied has the sections the image has.
LEMMA CopyGood ==
  ASSUME TypeInv, CopyInv, GoodInv
  PROVE  InstalledBoots
<1> SUFFICES ASSUME sret = "size", blksz # "negative", ~spoiled
             PROVE  GoodImage(target) 
  BY DEF InstalledBoots, GoodImage
<1>1. pc = "idle" /\ Read(target, 0, Len(image)) = image /\ IsSequence(target)
  BY DEF TypeInv, SyncInv, CopyInv
<1>2. GoodImage(image) /\ IsSequence(image) /\ Len(image) \in Nat /\ Len(image) >= P
      /\ IsHeader(image[1])
  BY <1>1, ImageIs DEF GoodInv, TypeInv, FileInv
<1>3. \A i \in 1 .. Len(image) : i \in 1 .. Len(target) /\ target[i] = image[i]
  <2> DEFINE r == Read(target, 0, Len(image))
  <2>1. \A i \in 1 .. Len(r) : i + 0 <= Len(target) /\ r[i] = target[i]
    <3>1. \A i \in 1 .. Len(r) : r[i] = target[i]
      BY <1>1, <1>2, ReadFirst
    <3>2. IsSequence(target) /\ Len(image) \in Nat /\ 0 \in Nat
      BY <1>1, <1>2
    <3>3. \A i \in 1 .. Len(r) : i + 0 <= Len(target)
      BY <3>2, ReadIs
    <3> QED
      BY <3>1, <3>3
  <2>2. r = image /\ Len(target) \in Nat
    BY <1>1, SequenceIs
  <2> HIDE DEF r
  <2> QED
    BY <1>2, <2>1, <2>2
<1>4. target[1] = image[1]
  BY PIs, <1>2, <1>3
<1>5. ASSUME NEW s \in 1 .. 4
      PROVE  Section(target, s) = Section(image, s)
  <2> DEFINE at == StartOf(image[1], s)
             n  == Size(image[1], s)
  <2>1. at \in Nat /\ n \in Nat
    BY <1>2, StartIs
  <2>2. n <= Len(Read(image, at, n))
    BY <1>2, <2>1, SMTT(30) DEF GoodImage, HoldsAll, Section
  <2>3. Section(target, s) = Read(target, at, n) /\ Section(image, s) = Read(image, at, n)
    BY <1>4 DEF Section
  <2> HIDE DEF at, n
  <2>4. Has(target, at, image, at, n)
    BY <1>2, <1>3, <2>1 DEF Has
  <2>5. Read(target, at, n) = Read(image, at, n)
    BY <1>1, <1>2, <2>1, <2>2, <2>4, ReadAs
  <2> QED
    BY <2>3, <2>5
<1> QED
  BY <1>2, <1>4, <1>5 DEF GoodImage, HoldsAll

\* From image file to flash: after runs of the scripts in any order, killed before they
\* wrote or ended, and of syncfile, killed anywhere, what syncfile has returned the
\* size for, other than after a negative block size, has every section as a whole, of one
\* version (InstalledBoots); on the condition that SectionReplaced gives.
THEOREM Boots ==
  ASSUME KernelSpared
  PROVE  Spec => []InstalledBoots
<1> DEFINE Inv == TypeInv /\ MoveInv /\ GoodInv /\ CopyInv
<1>1. Init => Inv
  BY InitTypeInv, InitMoveInv, InitGoodInv, InitCopyInv
<1>2. Inv /\ [Next]_vars => Inv'
  <2> SUFFICES ASSUME TypeInv, MoveInv, GoodInv, CopyInv, [Next]_vars
               PROVE  TypeInv' /\ MoveInv' /\ GoodInv' /\ CopyInv'
    OBVIOUS
  <2>1. TypeInv'
    BY TypeKept
  <2>2. MoveInv'
    BY <2>1, MoveStep
  <2>3. GoodInv'
    BY GoodStep
  <2>4. CopyInv'
    <3>1. CASE UNCHANGED vars
      BY <3>1 DEF vars, imageVars, syncVars, CopyInv
    <3>2. CASE Next
      BY <3>2, CopyStep
    <3> QED
      BY <3>1, <3>2
  <2> QED
    BY <2>1, <2>2, <2>3, <2>4
<1>3. Inv => InstalledBoots
  BY CopyGood
<1> HIDE DEF Inv
<1> QED
  BY <1>1, <1>2, <1>3, PTL DEF Spec

==============================================================================
