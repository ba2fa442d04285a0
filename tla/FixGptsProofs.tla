---------------------------- MODULE FixGptsProofs ----------------------------
(***************************************************************************)
(* rmOP and fix_gpts() on one phone, for every table, device, cfg file and *)
(* KDZ file that satisfy the assumptions of RmOP and FixGpts.              *)
(***************************************************************************)
EXTENDS FixGpts, Sequences, WellFoundedInduction, TLAPS

Hidden == {"OP", "XOPX"}

\* The parts of a run of rmOP -F from the table being made to its writing.
Merging == {"confirm", "mount", "readcfg", "remount", "creat", "writetmp",
            "rename", "link", "umount", "discard"}

\* Only the slices o and d start or end in lo .. hi.
Clear(g, o, d, lo, hi) ==
  \A s \in Slots \ {o, d} : g[s].lo \notin lo .. hi /\ g[s].hi \notin lo .. hi

\* Where userdata, slot d, may be when it has taken over OP, slot o.
Joins(g, o, d, lo, hi) ==
  \/ /\ g[d].lo > g[o].lo /\ lo = g[o].lo /\ hi = g[d].hi
     /\ g[d].lo = g[o].hi + 1 \/ Clear(g, o, d, lo, hi)
  \/ /\ g[d].lo < g[o].lo /\ lo = g[d].lo /\ hi = g[o].hi
     /\ g[d].hi + 1 = g[o].lo \/ Clear(g, o, d, lo, hi)
  \/ g[d].lo = g[o].lo /\ lo = g[d].lo /\ hi = g[d].hi

\* Table m is what "rmOP -F" makes of table g.
MergedFrom(g, m, o, d) ==
  /\ o \in Named(g, Hidden) /\ d \in Named(g, {"userdata"})
  /\ m[o] = NoSlice /\ m[d].name = "userdata"
  /\ Joins(g, o, d, m[d].lo, m[d].hi)
  /\ \A s \in Slots \ {o, d} : m[s] = g[s]

\* Table m is what "rmOP -d" or "rmOP -e" makes of table g.
RenamedFrom(g, m, o) ==
  /\ o \in Named(g, Hidden)
  /\ m[o].name \in Hidden /\ m[o].lo = g[o].lo /\ m[o].hi = g[o].hi
  /\ \A s \in Slots \ {o} : m[s] = g[s]

\* How far rmOP has come with the table in its memory; nobody else writes the
\* device's table meanwhile.
FlightInv ==
  /\ erased = {}
  /\ pc \in {"findOP", "findData", "mode"} => new = gpt
  /\ pc \in {"findData", "mode", "writegpt"} \cup Merging => op \in Named(gpt, Hidden)
  /\ pc \in {"mode", "writegpt"} \cup Merging => data \in Named(gpt, {"userdata"})
  /\ pc \in Merging => mode = "merge"
  /\ pc \in {"writegpt"} \cup Merging /\ mode = "merge" => MergedFrom(gpt, new, op, data)
  /\ pc = "writegpt" /\ mode # "merge" => RenamedFrom(gpt, new, op)
  /\ pc = "rrpart" => gpt = new /\ op \in Slots /\ data \in Slots

RunInv ==
  /\ TypeOK /\ FlightInv
  /\ kpc # "idle" => pc = "idle"
  /\ kdz \in KdzGpts

\* The text c is there, and no sizes that are not those of c.
Holds(fs, c) ==
  /\ c \in {fs.cfg, fs.orig}
  /\ fs.tmp # "sizes" /\ (fs.cfg = "sizes" => c = "sizes")

\* Where the text the cfg file had at the start is, and where zeros are.
CfgInv ==
  /\ cfg0 # "dirty" /\ Holds(files, cfg0) /\ Holds(disk, cfg0)
  /\ pc \in {"remount", "creat", "writetmp", "rename"} => files.cfg = "sizes"
  /\ pc = "link" => files.orig = cfg0
  /\ pc = "umount" => files.cfg # "sizes"
  /\ pc \in {"discard", "writegpt", "rrpart"} /\ mode = "merge" =>
       files.cfg # "sizes" /\ (mnt = "no" => disk.cfg # "sizes")

\* Table g is table g0, but for the name OP goes by.
Like(g0, g) ==
  \A s \in Slots :
    \/ g[s] = g0[s]
    \/ /\ s \in Named(g, Hidden) \cap Named(g0, Hidden)
       /\ g[s].lo = g0[s].lo /\ g[s].hi = g0[s].hi

\* What rmOP has made of a sound table: OP has another name, or userdata has it.
HistInv ==
  /\ gpt0 \in Gpts
  /\ Sound(gpt0) =>
       Like(gpt0, gpt) \/ \E o, d \in Slots : MergedFrom(gpt0, gpt, o, d)

\* What fix_gpts() has read and what it has written.
KInv ==
  /\ kpc \in {"mount", "readcfg"} => kdone = {}
  /\ kpc = "readcfg" => disk.cfg = files.cfg /\ mnt = "ro" /\ files.cfg # "dirty"
  /\ kpc \in {"device", "rrpart"} /\ goesOn =>
       opsz = 0 \/ (mnt # "rw" /\ disk.cfg # "zeros")
  /\ kpc = "rrpart" => kdone # Devices /\ ~simulate
  /\ kpc = "rrpart" => IF NextDevice = "op" THEN gpt = AdjustOP(kdz, opsz)
                                            ELSE other = "kdz"
  /\ kpc \in {"device", "rrpart"} /\ ~simulate =>
       /\ "op" \in kdone => gpt = AdjustOP(kdz, opsz) /\ (kret => kern = gpt)
       /\ "other" \in kdone => other = "kdz"

------------------------------------------------------------------------------
(* Slots, texts and tables. *)

LEMMA MinimumIs ==
  ASSUME NEW S, S \subseteq Nat, S # {}
  PROVE  Minimum(S) \in S /\ \A y \in S : Minimum(S) <= y
<1>1. PICK x \in S : \A y \in S : ~ (<<y, x>> \in OpToRel(<, Nat))
  BY WFMin, NatLessThanWellFounded
<1>2. ASSUME NEW y \in S PROVE x <= y
  <2>1. ~ (y < x)
    BY <1>1, <1>2 DEF OpToRel
  <2>2. QED
    BY <2>1
<1>3. QED
  BY <1>2 DEF Minimum

LEMMA SettleIs ==
  ASSUME NEW fs \in Files, NEW t \in Texts
  PROVE  /\ Settle(fs, t) \in Files
         /\ Settle(fs, t).cfg = IF fs.cfg = "dirty" THEN t ELSE fs.cfg
         /\ Settle(fs, t).orig = IF fs.orig = "dirty" THEN t ELSE fs.orig
         /\ Settle(fs, t).tmp = IF fs.tmp = "dirty" THEN t ELSE fs.tmp
BY DEF Settle, Files

\* A slice of a table is a slice.
LEMMA SliceType ==
  ASSUME NEW g \in Gpts, NEW s \in Slots
  PROVE  /\ g[s] \in Slice /\ g[s].name \in Names
         /\ g[s].lo \in 0 .. W - 1 /\ g[s].hi \in 0 .. W - 1
BY DEF Gpts, Slice

LEMMA NoSliceType == NoSlice \in Slice /\ NoTable \in Gpts
<1>1. "" \in Names /\ 0 \in 0 .. W - 1
  BY RmOPAssumption DEF Names
<1>2. NoSlice \in Slice
  BY <1>1 DEF NoSlice, Slice
<1>3. QED
  BY <1>2 DEF NoTable, Gpts

------------------------------------------------------------------------------
(* AdjustOP(): moving the border between OP and userdata. *)

\* The sizes that leave some of userdata.
FitSizes(k) == {n \in 0 .. W - 1 : Fitting(k, n)}

\* OP, slot j, comes right after userdata, slot u, and gets size blocks.
AfterUser(k, j, u, size) ==
  LET a == AdjustOP(k, size) IN
  /\ a[u].name = "userdata" /\ a[u].lo = k[u].lo /\ a[u].hi = k[j].hi - size
  /\ IF size = 0 THEN a[j] = NoSlice
     ELSE a[j].name = "OP" /\ a[j].lo = k[j].hi + 1 - size /\ a[j].hi = k[j].hi

\* OP comes right before userdata.
BeforeUser(k, j, u, size) ==
  LET a == AdjustOP(k, size) IN
  /\ a[u].name = "userdata" /\ a[u].lo = k[j].lo + size /\ a[u].hi = k[u].hi
  /\ IF size = 0 THEN a[j] = NoSlice
     ELSE a[j].name = "OP" /\ a[j].lo = k[j].lo /\ a[j].hi = k[j].lo + size - 1

\* Whichever way, it is the same for every size that fits.
Adjusts(k, j, u) ==
  /\ j \in Named(k, {"OP"}) /\ u \in Named(k, {"userdata"})
  /\ \A size \in FitSizes(k), s \in Slots \ {j, u} : AdjustOP(k, size)[s] = k[s]
  /\ \/ k[u].hi + 1 = k[j].lo /\ \A size \in FitSizes(k) : AfterUser(k, j, u, size)
     \/ k[j].hi + 1 = k[u].lo /\ \A size \in FitSizes(k) : BeforeUser(k, j, u, size)

\* OP has userdata beside it, in the table as on the device.
OpBeside(k) ==
  \A j \in Named(k, {"OP"}) :
    \/ j - 1 \in Named(k, {"userdata"}) /\ k[j - 1].hi + 1 = k[j].lo
    \/ j + 1 \in Named(k, {"userdata"}) /\ k[j].hi + 1 = k[j + 1].lo

LEMMA WrapIs ==
  ASSUME NEW n \in Int
  PROVE  /\ -W <= n /\ n < W + W => Wrap(n) \in 0 .. W - 1
         /\ 0 <= n /\ n < W => Wrap(n) = n
BY RmOPAssumption DEF Wrap

LEMMA SliceFields ==
  ASSUME NEW x \in Slice, NEW lo \in Int, NEW hi \in Int
  PROVE  /\ [x EXCEPT !.lo = lo, !.hi = hi] = [name |-> x.name, lo |-> lo, hi |-> hi]
         /\ x = [name |-> x.name, lo |-> x.lo, hi |-> x.hi]
<1> DEFINE y == [x EXCEPT !.lo = lo, !.hi = hi]
<1>1. y \in [name : Names, lo : Int, hi : Int]
  BY DEF Slice
<1>2. y.name = x.name /\ y.lo = lo /\ y.hi = hi
  BY DEF Slice
<1> HIDE DEF y
<1>3. y = [name |-> y.name, lo |-> y.lo, hi |-> y.hi]
  BY <1>1
<1>4. x = [name |-> x.name, lo |-> x.lo, hi |-> x.hi]
  BY DEF Slice
<1>5. QED
  BY <1>2, <1>3, <1>4 DEF y

\* How far the border may have to be moved.
Moves == -W .. W

\* Slice s of table g when the border has been moved.
Moved(g, start, end, delta, s) ==
  [name |-> g[s].name,
   lo |-> IF s = start THEN Wrap(g[s].lo + delta) ELSE g[s].lo,
   hi |-> IF s = end THEN Wrap(g[s].hi + delta) ELSE g[s].hi]

LEMMA MoveBorderIs ==
  ASSUME NEW g \in Gpts, NEW j \in Slots, NEW start \in Slots, NEW end \in Slots,
         NEW delta \in Moves, NEW size \in Sizes, start # end, j \in {start, end},
         NEW m, m = MoveBorder(g, j, start, end, delta, size)
  PROVE  /\ m \in Gpts
         /\ \A s \in Slots : s # j \/ size # 0 =>
              m[s] = Moved(g, start, end, delta, s)
         /\ \A s \in Slots \ {start, end} : m[s] = g[s]
         /\ size = 0 => m[j] = NoSlice
<1>1. size = 0 => m[j] = NoSlice
  BY DEF MoveBorder
<1>2. ASSUME NEW s \in Slots, s # j \/ size # 0
      PROVE  /\ m[s] = Moved(g, start, end, delta, s)
             /\ m[s] \in Slice
  <2> DEFINE x  == g[s]
             lo == IF s = start THEN Wrap(g[s].lo + delta) ELSE g[s].lo
             hi == IF s = end THEN Wrap(g[s].hi + delta) ELSE g[s].hi
  <2>1. m[s] = [x EXCEPT !.lo = lo, !.hi = hi]
    BY <1>2 DEF MoveBorder
  <2>2. x \in Slice
    BY SliceType
  <2>3. lo \in 0 .. W - 1 /\ hi \in 0 .. W - 1
    <3>1. /\ g[s].lo \in 0 .. W - 1 /\ g[s].hi \in 0 .. W - 1 /\ W \in Nat
          /\ delta \in -W .. W
      BY SliceType, RmOPAssumption DEF Moves
    <3>2. Wrap(g[s].lo + delta) \in 0 .. W - 1
      <4>1. g[s].lo + delta \in Int /\ -W <= g[s].lo + delta /\ g[s].lo + delta < W + W
        BY <3>1
      <4>2. QED
        BY <3>1, <4>1, WrapIs
    <3>3. Wrap(g[s].hi + delta) \in 0 .. W - 1
      <4>1. g[s].hi + delta \in Int /\ -W <= g[s].hi + delta /\ g[s].hi + delta < W + W
        BY <3>1
      <4>2. QED
        BY <3>1, <4>1, WrapIs
    <3>4. QED
      BY <3>1, <3>2, <3>3
  <2> HIDE DEF x, lo, hi
  <2>4. m[s] = [name |-> x.name, lo |-> lo, hi |-> hi]
    <3>1. lo \in Int /\ hi \in Int
      BY <2>3
    <3>2. QED
      BY <2>1, <2>2, <3>1, SliceFields
  <2>5. m[s] \in Slice
    BY <2>2, <2>3, <2>4 DEF Slice
  <2>6. QED
    BY <2>4, <2>5 DEF x, lo, hi, Moved
<1>3. ASSUME NEW s \in Slots \ {start, end} PROVE m[s] = g[s]
  <2>1. s # j /\ s \in Slots /\ s # start /\ s # end
    BY <1>3
  <2>2. m[s] = [name |-> g[s].name, lo |-> g[s].lo, hi |-> g[s].hi]
    BY <1>2, <2>1 DEF Moved
  <2>3. g[s] \in Slice /\ 0 \in Int
    BY SliceType, <2>1
  <2>4. QED
    BY <2>2, <2>3, SliceFields
<1>4. m \in Gpts
  <2>1. m = [s \in Slots |-> m[s]]
    BY DEF MoveBorder
  <2>2. ASSUME NEW s \in Slots PROVE m[s] \in Slice
    BY <1>1, <1>2, NoSliceType
  <2>3. QED
    BY <2>1, <2>2 DEF Gpts
<1>5. QED
  BY <1>1, <1>2, <1>3, <1>4

\* The room that userdata and OP have together.
LEMMA KdzRoom ==
  ASSUME NEW k \in KdzGpts, NEW j \in Named(k, {"OP"}), NEW u \in Named(k, {"userdata"})
  PROVE  /\ k \in Gpts /\ j \in Slots /\ u \in Slots /\ j # u
         /\ k[j].name = "OP" /\ k[u].name = "userdata"
         /\ k[j].lo \in Nat /\ k[u].lo \in Nat /\ k[j].hi \in Nat /\ k[u].hi \in Nat
         /\ FirstData <= k[j].lo /\ FirstData <= k[u].lo /\ FirstData \in Nat \ {0}
         /\ k[j].lo <= k[j].hi /\ k[u].lo <= k[u].hi
         /\ k[j].hi <= LastBlock /\ k[u].hi <= LastBlock
         /\ LastBlock \in Nat /\ W \in Nat /\ LastBlock + 1 < W
<1>1. /\ k \in Gpts /\ Sound(k) /\ LastBlock \in Nat /\ FirstData \in Nat \ {0}
      /\ W \in Nat /\ LastBlock + 1 < W
  BY FixGptsAssumption, RmOPAssumption
<1>2. j \in Slots /\ u \in Slots /\ k[j].name = "OP" /\ k[u].name = "userdata"
  BY DEF Named
<1>3. /\ k[j].lo \in 0 .. W - 1 /\ k[j].hi \in 0 .. W - 1
      /\ k[u].lo \in 0 .. W - 1 /\ k[u].hi \in 0 .. W - 1
  BY <1>1, <1>2, SliceType
<1>4. /\ FirstData <= k[j].lo /\ FirstData <= k[u].lo
      /\ k[j].lo <= k[j].hi /\ k[u].lo <= k[u].hi
      /\ k[j].hi <= LastBlock /\ k[u].hi <= LastBlock
  BY <1>1, <1>2 DEF Sound
<1>5. QED
  BY <1>1, <1>2, <1>3, <1>4

LEMMA FitRoom ==
  ASSUME NEW k \in KdzGpts, NEW j \in Named(k, {"OP"}), NEW u \in Named(k, {"userdata"}),
         NEW size \in FitSizes(k)
  PROVE  /\ size \in Nat /\ size \in Sizes /\ InBlocks(size) = size
         /\ size <= (k[j].hi - k[j].lo + 1) + (k[u].hi - k[u].lo)
<1>1. size \in 0 .. W - 1 /\ Fitting(k, size)
  BY DEF FitSizes
<1>2. QED
  BY <1>1, RmOPAssumption DEF Fitting, Sizes, Crumbs, InBlocks

\* The table is left as it is, or the border is moved.
LEMMA BorderIs ==
  ASSUME NEW k \in KdzGpts
  PROVE  \/ /\ \A size \in Sizes : AdjustOP(k, size) = k
            /\ OpBeside(k) => Named(k, {"OP"}) = {}
         \/ \E j \in Named(k, {"OP"}), u \in Named(k, {"userdata"}) :
              \/ /\ k[u].hi + 1 = k[j].lo
                 /\ \A size \in Sizes :
                      AdjustOP(k, size) =
                        MoveBorder(k, j, j, u, -(InBlocks(size) - (k[j].hi - k[j].lo + 1)), size)
              \/ /\ k[j].hi + 1 = k[u].lo
                 /\ \A size \in Sizes :
                      AdjustOP(k, size) =
                        MoveBorder(k, j, u, j, InBlocks(size) - (k[j].hi - k[j].lo + 1), size)
<1> DEFINE ops == Named(k, {"OP"})
           j == Minimum(ops)
<1>1. CASE ops = {}
  BY <1>1 DEF AdjustOP
<1>2. CASE ops # {}
  <2>1. j \in ops /\ ops \subseteq Slots /\ Slots \subseteq Nat
    <3>1. ops \subseteq Slots /\ Slots \subseteq Nat
      BY RmOPAssumption DEF Named, Slots
    <3> HIDE DEF ops
    <3>2. QED
      BY <1>2, <3>1, MinimumIs
  <2> DEFINE before == j - 1 \in Slots /\ k[j - 1].name = "userdata"
             after  == j + 1 \in Slots /\ k[j + 1].name = "userdata"
             room(size) == InBlocks(size) - (k[j].hi - k[j].lo + 1)
  <2>2. ASSUME NEW size \in Sizes
        PROVE  AdjustOP(k, size) =
                 IF before
                 THEN IF k[j - 1].hi + 1 = k[j].lo
                      THEN MoveBorder(k, j, j, j - 1, -room(size), size) ELSE k
                 ELSE IF after /\ k[j + 1].lo = k[j].hi + 1
                      THEN MoveBorder(k, j, j + 1, j, room(size), size) ELSE k
    BY <1>2 DEF AdjustOP
  <2> HIDE DEF j, ops
  <2>3. CASE before /\ k[j - 1].hi + 1 = k[j].lo
    <3>1. j \in Named(k, {"OP"}) /\ j - 1 \in Named(k, {"userdata"})
      BY <2>1, <2>3 DEF Named, ops
    <3>2. \A size \in Sizes :
            AdjustOP(k, size) = MoveBorder(k, j, j, j - 1, -room(size), size)
      BY <2>2, <2>3
    <3>3. QED
      BY <2>3, <3>1, <3>2
  <2>4. CASE ~before /\ after /\ k[j + 1].lo = k[j].hi + 1
    <3>1. j \in Named(k, {"OP"}) /\ j + 1 \in Named(k, {"userdata"})
      BY <2>1, <2>4 DEF Named, ops
    <3>2. \A size \in Sizes :
            AdjustOP(k, size) = MoveBorder(k, j, j + 1, j, room(size), size)
      BY <2>2, <2>4
    <3>3. QED
      BY <2>4, <3>1, <3>2
  <2>5. CASE /\ ~(before /\ k[j - 1].hi + 1 = k[j].lo)
             /\ ~(~before /\ after /\ k[j + 1].lo = k[j].hi + 1)
    <3>1. \A size \in Sizes : AdjustOP(k, size) = k
      BY <2>2, <2>5
    <3>2. ~(before /\ after)
      <4>1. \A s, t \in Named(k, {"userdata"}) : s = t
        BY FixGptsAssumption DEF Sound
      <4>2. j - 1 # j + 1
        BY <2>1
      <4>3. QED
        BY <4>1, <4>2 DEF Named
    <3>3. ASSUME OpBeside(k) PROVE FALSE
      <4>1. \/ before /\ k[j - 1].hi + 1 = k[j].lo
            \/ after /\ k[j].hi + 1 = k[j + 1].lo
        BY <2>1, <3>3 DEF OpBeside, Named, ops
      <4>2. QED
        BY <2>5, <3>2, <4>1
    <3>4. QED
      BY <3>1, <3>3
  <2>6. QED
    BY <2>3, <2>4, <2>5
<1>3. QED
  BY <1>1, <1>2

\* Whatever the size, the result is a table, and only OP and userdata change.
LEMMA AdjustType ==
  ASSUME NEW k \in KdzGpts, NEW size \in Sizes
  PROVE  /\ k \in Gpts /\ AdjustOP(k, size) \in Gpts
         /\ \A s \in Slots : k[s].name \notin {"OP", "userdata"} => AdjustOP(k, size)[s] = k[s]
<1>1. k \in Gpts
  BY FixGptsAssumption
<1>2. CASE AdjustOP(k, size) = k
  BY <1>1, <1>2
<1>3. ASSUME NEW j \in Named(k, {"OP"}), NEW u \in Named(k, {"userdata"}),
             NEW delta \in Moves, NEW start \in {j, u}, NEW end \in {j, u}, start # end,
             AdjustOP(k, size) = MoveBorder(k, j, start, end, delta, size)
      PROVE  /\ AdjustOP(k, size) \in Gpts
             /\ \A s \in Slots : k[s].name \notin {"OP", "userdata"} => AdjustOP(k, size)[s] = k[s]
  <2>1. /\ j \in Slots /\ u \in Slots /\ start \in Slots /\ end \in Slots
        /\ j \in {start, end}
        /\ \A s \in Slots : k[s].name \notin {"OP", "userdata"} => s \in Slots \ {start, end}
    BY <1>3 DEF Named
  <2>2. /\ AdjustOP(k, size) \in Gpts
        /\ \A s \in Slots \ {start, end} : AdjustOP(k, size)[s] = k[s]
    BY <1>1, <1>3, <2>1, MoveBorderIs
  <2>3. QED
    BY <2>1, <2>2
<1>4. CASE \E j \in Named(k, {"OP"}), u \in Named(k, {"userdata"}) :
             \/ AdjustOP(k, size) =
                  MoveBorder(k, j, j, u, -(InBlocks(size) - (k[j].hi - k[j].lo + 1)), size)
             \/ AdjustOP(k, size) =
                  MoveBorder(k, j, u, j, InBlocks(size) - (k[j].hi - k[j].lo + 1), size)
  <2>1. PICK j \in Named(k, {"OP"}), u \in Named(k, {"userdata"}) :
             \/ AdjustOP(k, size) =
                  MoveBorder(k, j, j, u, -(InBlocks(size) - (k[j].hi - k[j].lo + 1)), size)
             \/ AdjustOP(k, size) =
                  MoveBorder(k, j, u, j, InBlocks(size) - (k[j].hi - k[j].lo + 1), size)
    BY <1>4
  <2>2. InBlocks(size) \in 0 .. W - 1
    BY RmOPAssumption DEF Sizes, Crumbs, InBlocks
  <2>3. /\ -(InBlocks(size) - (k[j].hi - k[j].lo + 1)) \in Moves
        /\ InBlocks(size) - (k[j].hi - k[j].lo + 1) \in Moves
    BY <2>2, KdzRoom DEF Moves
  <2>4. j # u
    BY KdzRoom
  <2>5. CASE AdjustOP(k, size) =
               MoveBorder(k, j, j, u, -(InBlocks(size) - (k[j].hi - k[j].lo + 1)), size)
    BY <1>1, <1>3, <2>3, <2>4, <2>5
  <2>6. CASE AdjustOP(k, size) =
               MoveBorder(k, j, u, j, InBlocks(size) - (k[j].hi - k[j].lo + 1), size)
    BY <1>1, <1>3, <2>3, <2>4, <2>6
  <2>7. QED
    BY <1>1, <2>1, <2>5, <2>6
<1>5. QED
  BY <1>1, <1>2, <1>4, BorderIs

LEMMA AdjustAfter ==
  ASSUME NEW k \in KdzGpts, NEW j \in Named(k, {"OP"}), NEW u \in Named(k, {"userdata"}),
         NEW size \in FitSizes(k), k[u].hi + 1 = k[j].lo,
         AdjustOP(k, size) =
           MoveBorder(k, j, j, u, -(InBlocks(size) - (k[j].hi - k[j].lo + 1)), size)
  PROVE  /\ \A s \in Slots \ {j, u} : AdjustOP(k, size)[s] = k[s]
         /\ AfterUser(k, j, u, size)
<1> DEFINE delta == -(size - (k[j].hi - k[j].lo + 1))
           a == AdjustOP(k, size)
<1>1. delta \in Moves /\ size \in Sizes /\ a = MoveBorder(k, j, j, u, delta, size)
  BY KdzRoom, FitRoom DEF Moves
<1>2. k[u].hi + delta = k[j].hi - size /\ k[j].lo + delta = k[j].hi + 1 - size
  BY KdzRoom, FitRoom
<1>3. /\ 0 <= k[j].hi - size /\ k[j].hi - size < W
      /\ 0 <= k[j].hi + 1 - size /\ k[j].hi + 1 - size < W
  BY KdzRoom, FitRoom
<1>4. Wrap(k[u].hi + delta) = k[j].hi - size /\ Wrap(k[j].lo + delta) = k[j].hi + 1 - size
  <2>1. k[j].hi - size \in Int /\ k[j].hi + 1 - size \in Int
    BY KdzRoom, FitRoom
  <2>2. QED
    BY <1>2, <1>3, <2>1, WrapIs
<1> HIDE DEF delta, a
<1>5. /\ \A s \in Slots \ {j, u} : a[s] = k[s]
      /\ a[u] = [name |-> "userdata", lo |-> k[u].lo, hi |-> Wrap(k[u].hi + delta)]
      /\ size # 0 => a[j] = [name |-> "OP", lo |-> Wrap(k[j].lo + delta), hi |-> k[j].hi]
      /\ size = 0 => a[j] = NoSlice
  <2>1. /\ k \in Gpts /\ j \in Slots /\ u \in Slots /\ j # u
        /\ k[j].name = "OP" /\ k[u].name = "userdata"
    BY KdzRoom
  <2>2. j # u /\ j \in {j, u} /\ delta \in Moves /\ size \in Sizes
        /\ a = MoveBorder(k, j, j, u, delta, size)
    BY <1>1, <2>1
  <2>3. \A s \in Slots : s # j \/ size # 0 =>
          a[s] = Moved(k, j, u, delta, s)
    BY <2>1, <2>2, MoveBorderIs
  <2>4. /\ \A s \in Slots \ {j, u} : a[s] = k[s]
        /\ size = 0 => a[j] = NoSlice
    BY <2>1, <2>2, MoveBorderIs
  <2>5. QED
    BY <2>1, <2>3, <2>4 DEF Moved
<1>6. QED
  BY <1>4, <1>5 DEF AfterUser, a

LEMMA AdjustBefore ==
  ASSUME NEW k \in KdzGpts, NEW j \in Named(k, {"OP"}), NEW u \in Named(k, {"userdata"}),
         NEW size \in FitSizes(k), k[j].hi + 1 = k[u].lo,
         AdjustOP(k, size) =
           MoveBorder(k, j, u, j, InBlocks(size) - (k[j].hi - k[j].lo + 1), size)
  PROVE  /\ \A s \in Slots \ {j, u} : AdjustOP(k, size)[s] = k[s]
         /\ BeforeUser(k, j, u, size)
<1> DEFINE delta == size - (k[j].hi - k[j].lo + 1)
           a == AdjustOP(k, size)
<1>1. delta \in Moves /\ size \in Sizes /\ a = MoveBorder(k, j, u, j, delta, size)
  BY KdzRoom, FitRoom DEF Moves
<1>2. k[u].lo + delta = k[j].lo + size /\ k[j].hi + delta = k[j].lo + size - 1
  BY KdzRoom, FitRoom
<1>3. /\ 0 <= k[j].lo + size /\ k[j].lo + size < W
      /\ 0 <= k[j].lo + size - 1 /\ k[j].lo + size - 1 < W
  BY KdzRoom, FitRoom
<1>4. Wrap(k[u].lo + delta) = k[j].lo + size /\ Wrap(k[j].hi + delta) = k[j].lo + size - 1
  <2>1. k[j].lo + size \in Int /\ k[j].lo + size - 1 \in Int
    BY KdzRoom, FitRoom
  <2>2. QED
    BY <1>2, <1>3, <2>1, WrapIs
<1> HIDE DEF delta, a
<1>5. /\ \A s \in Slots \ {j, u} : a[s] = k[s]
      /\ a[u] = [name |-> "userdata", lo |-> Wrap(k[u].lo + delta), hi |-> k[u].hi]
      /\ size # 0 => a[j] = [name |-> "OP", lo |-> k[j].lo, hi |-> Wrap(k[j].hi + delta)]
      /\ size = 0 => a[j] = NoSlice
  <2>1. /\ k \in Gpts /\ j \in Slots /\ u \in Slots /\ j # u
        /\ k[j].name = "OP" /\ k[u].name = "userdata"
    BY KdzRoom
  <2>2. u # j /\ j \in {u, j} /\ delta \in Moves /\ size \in Sizes
        /\ a = MoveBorder(k, j, u, j, delta, size)
    BY <1>1, <2>1
  <2>3. \A s \in Slots : s # j \/ size # 0 =>
          a[s] = Moved(k, u, j, delta, s)
    BY <2>1, <2>2, MoveBorderIs
  <2>4. /\ \A s \in Slots \ {u, j} : a[s] = k[s]
        /\ size = 0 => a[j] = NoSlice
    BY <2>1, <2>2, MoveBorderIs
  <2>5. QED
    BY <2>1, <2>3, <2>4 DEF Moved
<1>6. QED
  BY <1>4, <1>5 DEF BeforeUser, a

\* AdjustOP() leaves a table as it is or moves the border.
LEMMA AdjustIs ==
  ASSUME NEW k \in KdzGpts
  PROVE  \/ /\ \A size \in FitSizes(k) : AdjustOP(k, size) = k
            /\ OpBeside(k) => Named(k, {"OP"}) = {}
         \/ \E j, u \in Slots : Adjusts(k, j, u)
<1>1. FitSizes(k) \subseteq Sizes
  BY RmOPAssumption DEF FitSizes, Sizes, Crumbs
<1>2. CASE /\ \A size \in Sizes : AdjustOP(k, size) = k
           /\ OpBeside(k) => Named(k, {"OP"}) = {}
  BY <1>1, <1>2
<1>3. ASSUME NEW j \in Named(k, {"OP"}), NEW u \in Named(k, {"userdata"}),
             k[u].hi + 1 = k[j].lo,
             \A size \in Sizes :
               AdjustOP(k, size) =
                 MoveBorder(k, j, j, u, -(InBlocks(size) - (k[j].hi - k[j].lo + 1)), size)
      PROVE  Adjusts(k, j, u)
  <2>1. ASSUME NEW size \in FitSizes(k)
        PROVE  /\ \A s \in Slots \ {j, u} : AdjustOP(k, size)[s] = k[s]
               /\ AfterUser(k, j, u, size)
    <3>1. AdjustOP(k, size) =
            MoveBorder(k, j, j, u, -(InBlocks(size) - (k[j].hi - k[j].lo + 1)), size)
      BY <1>1, <1>3
    <3>2. QED
      BY <1>3, <3>1, AdjustAfter
  <2>2. QED
    BY <1>3, <2>1 DEF Adjusts
<1>4. ASSUME NEW j \in Named(k, {"OP"}), NEW u \in Named(k, {"userdata"}),
             k[j].hi + 1 = k[u].lo,
             \A size \in Sizes :
               AdjustOP(k, size) =
                 MoveBorder(k, j, u, j, InBlocks(size) - (k[j].hi - k[j].lo + 1), size)
      PROVE  Adjusts(k, j, u)
  <2>1. ASSUME NEW size \in FitSizes(k)
        PROVE  /\ \A s \in Slots \ {j, u} : AdjustOP(k, size)[s] = k[s]
               /\ BeforeUser(k, j, u, size)
    <3>1. AdjustOP(k, size) =
            MoveBorder(k, j, u, j, InBlocks(size) - (k[j].hi - k[j].lo + 1), size)
      BY <1>1, <1>4
    <3>2. QED
      BY <1>4, <3>1, AdjustBefore
  <2>2. QED
    BY <1>4, <2>1 DEF Adjusts
<1>5. Named(k, {"OP"}) \subseteq Slots /\ Named(k, {"userdata"}) \subseteq Slots
  BY DEF Named
<1>6. QED
  BY <1>2, <1>3, <1>4, <1>5, BorderIs

------------------------------------------------------------------------------
(* The types, and rmOP's way from the table it reads to the one it writes. *)

RmInv == RmTypeOK /\ FlightInv

LEMMA FlushIs ==
  ASSUME files \in Files, disk \in Files, mnt \in {"no", "ro", "rw"}, Flush
  PROVE  /\ mnt' \in {"no", "ro", "rw"} /\ files' \in Files /\ disk' \in Files
         /\ \/ mnt' = "no" /\ disk' = files' /\ files' = Settle(files, "zeros")
            \/ mnt' # "no" /\ UNCHANGED <<mnt, files, disk>>
BY SettleIs DEF Flush, Texts

\* A table cut short is the old one or the new one.
LEMMA CutShortIs ==
  ASSUME NEW t, copies \in CopyStates, WriteCutShort(t)
  PROVE  gpt' \in {gpt, t} /\ copies' \in CopyStates
BY DEF WriteCutShort, CutShort, CopyStates

LEMMA InterruptedIs ==
  ASSUME copies \in CopyStates, Interrupted
  PROVE  /\ gpt' \in {gpt, new} /\ copies' \in CopyStates
         /\ pc # "writegpt" => gpt' = gpt /\ copies' = copies
BY CutShortIs DEF Interrupted

LEMMA GoneIs ==
  ASSUME Gone, erased = {}, erased' = erased, gpt' \in Gpts, kern' \in Gpts,
         copies' \in CopyStates,
         files' \in Files, disk' \in Files, mnt' \in {"no", "ro", "rw"}
  PROVE  RmInv'
<1>1. NoTable \in Gpts /\ 0 \in 0 .. NSlots /\ erased' \subseteq 0 .. LastBlock
  BY NoSliceType, RmOPAssumption
<1>2. pc' = "idle" /\ mode' = "none" /\ new' = NoTable /\ op' = 0 /\ data' = 0
  BY DEF Gone
<1>3. RmTypeOK'
  BY <1>1, <1>2 DEF RmTypeOK
<1>4. FlightInv'
  BY <1>2 DEF FlightInv, Merging
<1>5. QED
  BY <1>3, <1>4 DEF RmInv

LEMMA ExitIs ==
  ASSUME RmInv, Exit
  PROVE  RmInv'
<1>1. /\ Gone /\ Flush /\ gpt' = gpt /\ copies' = copies /\ kern' = kern
      /\ erased' = erased
  BY DEF Exit
<1>2. /\ files \in Files /\ disk \in Files /\ mnt \in {"no", "ro", "rw"}
      /\ gpt \in Gpts /\ copies \in CopyStates /\ kern \in Gpts /\ erased = {}
  BY DEF RmInv, RmTypeOK, FlightInv
<1>3. QED
  BY <1>1, <1>2, FlushIs, GoneIs

\* A step that only goes on, with the table in memory and its slots as they are.
LEMMA GotoIs ==
  ASSUME RmInv, NEW label, Goto(label),
         pc \in Merging, label \in Merging \cup {"writegpt"},
         UNCHANGED <<gpt, copies, kern, new, op, data>>, erased' = {},
         files' \in Files, disk' \in Files, mnt' \in {"no", "ro", "rw"}
  PROVE  RmInv'
<1>1. pc' = label /\ mode' = mode
  BY DEF Goto
<1>2. /\ op \in Named(gpt, Hidden) /\ data \in Named(gpt, {"userdata"})
      /\ mode = "merge" /\ MergedFrom(gpt, new, op, data)
      /\ pc # "idle" /\ label # "idle"
  BY DEF RmInv, FlightInv, Merging
<1>3. RmTypeOK'
  BY <1>1, <1>2 DEF RmInv, RmTypeOK, Merging
<1>4. FlightInv'
  BY <1>1, <1>2 DEF FlightInv, Merging
<1>5. QED
  BY <1>3, <1>4 DEF RmInv

LEMMA StartInv ==
  ASSUME RmInv, NEW m \in {"enable", "disable", "merge"}, Start(m)
  PROVE  RmInv'
<1>1. 1 \in 0 .. NSlots /\ 0 \in 0 .. NSlots
  BY RmOPAssumption
<1>2. RmTypeOK'
  BY <1>1 DEF RmInv, RmTypeOK, Start, envVars
<1>3. FlightInv'
  BY DEF RmInv, FlightInv, Start, envVars, Merging
<1>4. QED
  BY <1>2, <1>3 DEF RmInv

LEMMA FindOPInv ==
  ASSUME RmInv, FindOP
  PROVE  RmInv'
<1>1. CASE Exit
  BY <1>1, ExitIs
<1>2. CASE /\ Named(new, {"OP", "XOPX"}) # {}
           /\ op' = Minimum(Named(new, {"OP", "XOPX"}))
           /\ Goto("findData")
           /\ UNCHANGED <<gpt, copies, kern, files, disk, mnt, erased, new, data>>
  <2>1. pc = "findOP" /\ new = gpt
    BY DEF FindOP, RmInv, FlightInv
  <2>2. op' \in Named(gpt, Hidden) /\ op' \in Slots /\ op' \in 0 .. NSlots /\ op' # 0
    <3>1. Named(new, {"OP", "XOPX"}) \subseteq Nat
      BY RmOPAssumption DEF Named, Slots
    <3>2. op' \in Named(new, {"OP", "XOPX"})
      BY <1>2, <3>1, MinimumIs
    <3>3. QED
      BY <2>1, <3>2, RmOPAssumption DEF Named, Slots, Hidden
  <2>3. pc' = "findData" /\ mode' = mode
    BY <1>2 DEF Goto
  <2>4. RmTypeOK'
    BY <1>2, <2>1, <2>2, <2>3 DEF RmInv, RmTypeOK
  <2>5. FlightInv'
    BY <1>2, <2>1, <2>2, <2>3 DEF RmInv, FlightInv, Merging
  <2>6. QED
    BY <2>4, <2>5 DEF RmInv
<1>3. QED
  BY <1>1, <1>2 DEF FindOP

LEMMA FindDataInv ==
  ASSUME RmInv, FindData
  PROVE  RmInv'
<1>1. /\ pc = "findData" /\ new = gpt /\ op \in Named(gpt, Hidden) /\ mode' = mode
      /\ UNCHANGED <<gpt, copies, kern, files, disk, mnt, erased, new, op>>
  BY DEF FindData, RmInv, FlightInv, Goto
<1>2. \/ data \in Named(gpt, {"userdata"}) /\ pc' = "mode" /\ data' = data
      \/ pc' = "findData" /\ data' \in 0 .. NSlots
  <2>1. data \in 0 .. NSlots /\ NSlots \in Nat
    BY RmOPAssumption DEF RmInv, RmTypeOK
  <2>2. (IF data + 1 > NSlots THEN 0 ELSE data + 1) \in 0 .. NSlots
    BY <2>1
  <2>3. QED
    BY <1>1, <2>2 DEF FindData, Goto, Named
<1>3. RmTypeOK'
  BY <1>1, <1>2 DEF RmInv, RmTypeOK
<1>4. FlightInv'
  BY <1>1, <1>2 DEF RmInv, FlightInv, Merging
<1>5. QED
  BY <1>3, <1>4 DEF RmInv

LEMMA MergeInv ==
  ASSUME RmInv, Merge
  PROVE  RmInv'
<1>1. /\ pc = "mode" /\ mode = "merge" /\ new = gpt /\ gpt \in Gpts
      /\ op \in Slots /\ gpt[op].name \in Hidden
      /\ data \in Slots /\ gpt[data].name = "userdata" /\ op # data
  BY DEF Merge, RmInv, RmTypeOK, FlightInv, Named, Hidden
<1>2. /\ gpt[op].lo \in 0 .. W - 1 /\ gpt[op].hi \in 0 .. W - 1
      /\ gpt[data].lo \in 0 .. W - 1 /\ gpt[data].hi \in 0 .. W - 1
  BY <1>1, SliceType
<1>3. \A lo, hi : ~Intervening(gpt, lo, hi) => Clear(gpt, op, data, lo, hi)
  BY DEF Intervening, Clear
<1> DEFINE merged(lo, hi) == [gpt EXCEPT ![data].lo = lo, ![data].hi = hi, ![op] = NoSlice]
<1>4. ASSUME NEW lo \in 0 .. W - 1, NEW hi \in 0 .. W - 1,
             Joins(gpt, op, data, lo, hi),
             new' = merged(lo, hi), Goto("confirm"),
             UNCHANGED <<gpt, copies, kern, files, disk, mnt, erased, op, data>>
      PROVE  RmInv'
  <2>1. /\ new' \in Gpts /\ new'[op] = NoSlice
        /\ new'[data].name = "userdata" /\ new'[data].lo = lo /\ new'[data].hi = hi
        /\ \A s \in Slots \ {op, data} : new'[s] = gpt[s]
    BY <1>1, <1>4, NoSliceType DEF Gpts, Slice
  <2>2. MergedFrom(gpt, new', op, data)
    BY <1>1, <1>4, <2>1 DEF MergedFrom, Named
  <2>3. pc' = "confirm" /\ mode' = "merge"
    BY <1>1, <1>4 DEF Goto
  <2>4. RmTypeOK'
    BY <1>1, <1>4, <2>1, <2>3 DEF RmInv, RmTypeOK
  <2>5. FlightInv'
    BY <1>1, <1>4, <2>2, <2>3 DEF RmInv, FlightInv, Merging, Named
  <2>6. QED
    BY <2>4, <2>5 DEF RmInv
<1> HIDE DEF merged
<1> DEFINE join(lo, hi, adjacent) ==
             \E garbage \in BeyondTable :
               IF ~adjacent /\ (Intervening(gpt, lo, hi) \/ garbage) THEN Exit
               ELSE /\ new' = merged(lo, hi)
                    /\ Goto("confirm")
                    /\ UNCHANGED <<gpt, copies, kern, files, disk, mnt, erased, op, data>>
           d == gpt[data]
           o == gpt[op]
<1>5. \/ d.lo > o.lo /\ join(o.lo, d.hi, d.lo = o.hi + 1)
      \/ d.lo < o.lo /\ join(d.lo, o.hi, d.hi + 1 = o.lo)
      \/ d.lo = o.lo /\ o.lo = o.hi /\ Exit
      \/ d.lo = o.lo /\ o.lo # o.hi /\ join(d.lo, d.hi, TRUE)
  BY <1>1 DEF Merge, merged
<1>6. ASSUME NEW lo, NEW hi, NEW adjacent, join(lo, hi, adjacent)
      PROVE  \/ Exit
             \/ /\ adjacent \/ Clear(gpt, op, data, lo, hi)
                /\ new' = merged(lo, hi) /\ Goto("confirm")
                /\ UNCHANGED <<gpt, copies, kern, files, disk, mnt, erased, op, data>>
  BY <1>3, <1>6
<1> HIDE DEF join
<1>7. CASE Exit
  BY <1>7, ExitIs
<1>8. CASE ~Exit
  <2>1. CASE d.lo > o.lo /\ join(o.lo, d.hi, d.lo = o.hi + 1)
    <3>1. Joins(gpt, op, data, o.lo, d.hi)
      BY <1>6, <1>8, <2>1 DEF Joins
    <3>2. QED
      BY <1>2, <1>4, <1>6, <1>8, <2>1, <3>1
  <2>2. CASE d.lo < o.lo /\ join(d.lo, o.hi, d.hi + 1 = o.lo)
    <3>1. Joins(gpt, op, data, d.lo, o.hi)
      BY <1>6, <1>8, <2>2 DEF Joins
    <3>2. QED
      BY <1>2, <1>4, <1>6, <1>8, <2>2, <3>1
  <2>3. CASE d.lo = o.lo /\ join(d.lo, d.hi, TRUE)
    <3>1. Joins(gpt, op, data, d.lo, d.hi)
      BY <2>3 DEF Joins
    <3>2. QED
      BY <1>2, <1>4, <1>6, <1>8, <2>3, <3>1
  <2>4. QED
    BY <1>5, <1>8, <2>1, <2>2, <2>3
<1>9. QED
  BY <1>7, <1>8

LEMMA RenameInv ==
  ASSUME RmInv, Rename
  PROVE  RmInv'
<1>1. /\ pc = "mode" /\ mode \in {"enable", "disable"} /\ new = gpt /\ gpt \in Gpts
      /\ op \in Slots /\ op \in Named(gpt, Hidden) /\ data \in Named(gpt, {"userdata"})
      /\ pc' = "writegpt" /\ mode' = mode
      /\ UNCHANGED <<gpt, copies, kern, files, disk, mnt, erased, op, data>>
  BY DEF Rename, Goto, RmInv, RmTypeOK, FlightInv, Named
<1> DEFINE name == IF mode = "enable" THEN "OP" ELSE "XOPX"
<1>2. name \in Names /\ name \in Hidden
  BY DEF Names, Hidden
<1>3. new' = [gpt EXCEPT ![op].name = name]
  BY <1>1 DEF Rename
<1> HIDE DEF name
<1>4. /\ new' \in Gpts
      /\ new'[op].name = name /\ new'[op].lo = gpt[op].lo /\ new'[op].hi = gpt[op].hi
      /\ \A s \in Slots \ {op} : new'[s] = gpt[s]
  BY <1>1, <1>2, <1>3 DEF Gpts, Slice
<1>5. RenamedFrom(gpt, new', op)
  BY <1>1, <1>2, <1>4 DEF RenamedFrom
<1>6. RmTypeOK'
  BY <1>1, <1>4 DEF RmInv, RmTypeOK
<1>7. FlightInv'
  BY <1>1, <1>5 DEF RmInv, FlightInv, Merging
<1>8. QED
  BY <1>6, <1>7 DEF RmInv

\* rmOP's work on /cust.
LEMMA CustInv ==
  ASSUME RmInv,
         \/ Confirm \/ MountCust \/ ReadCfg \/ ReadCfgWithoutSize \/ RemountCust
         \/ CreatTmp \/ WriteTmp \/ RenameCfg \/ LinkTmp \/ UmountCust
         \/ SystemCallFails
  PROVE  RmInv'
<1>1. files \in Files /\ disk \in Files /\ erased = {} /\ mnt \in {"no", "ro", "rw"}
  BY DEF RmInv, RmTypeOK, FlightInv
<1>2. CASE Confirm
  BY <1>1, <1>2, ExitIs, GotoIs DEF Confirm, Merging
<1>3. CASE MountCust \/ ReadCfg \/ RemountCust
  BY <1>1, <1>3, GotoIs DEF MountCust, ReadCfg, RemountCust, Merging
<1>4. CASE ReadCfgWithoutSize \/ SystemCallFails
  BY <1>4, ExitIs DEF ReadCfgWithoutSize, SystemCallFails
<1>5. CASE CreatTmp \/ WriteTmp \/ RenameCfg \/ LinkTmp
  <2>1. files' \in Files
    BY <1>1, <1>5 DEF CreatTmp, WriteTmp, RenameCfg, LinkTmp, FileStep, Files, Texts
  <2>2. QED
    BY <1>1, <1>5, <2>1, GotoIs
       DEF CreatTmp, WriteTmp, RenameCfg, LinkTmp, FileStep, Merging
<1>6. CASE UmountCust
  <2>1. mnt' \in {"no", "ro", "rw"} /\ files' \in Files /\ disk' \in Files
    BY <1>1, <1>6, FlushIs DEF UmountCust
  <2>2. QED
    BY <1>1, <1>6, <2>1, GotoIs DEF UmountCust, Merging
<1>7. QED
  BY <1>2, <1>3, <1>4, <1>5, <1>6

\* BLKDISCARD gets the length of the zeroed entry: it throws away nothing.
LEMMA DiscardInv ==
  ASSUME RmInv, Discard
  PROVE  RmInv'
<1>1. pc = "discard" /\ erased = {} /\ new[op] = NoSlice
  BY DEF Discard, RmInv, FlightInv, Merging, MergedFrom
<1>2. DiscardRange = {}
  <2>1. NoSlice.hi = 0 /\ NoSlice.lo = 0
    BY DEF NoSlice
  <2>2. QED
    BY <1>1, <2>1 DEF DiscardRange
<1>3. /\ erased' = {} /\ Goto("writegpt")
      /\ UNCHANGED <<gpt, copies, kern, files, disk, mnt, new, op, data>>
  BY <1>1, <1>2 DEF Discard
<1>4. files \in Files /\ disk \in Files /\ mnt \in {"no", "ro", "rw"}
  BY DEF RmInv, RmTypeOK
<1>5. QED
  BY <1>1, <1>3, <1>4, GotoIs DEF Merging

LEMMA WriteInv ==
  ASSUME RmInv, WriteGpt \/ WriteGptFails \/ ReloadTable
  PROVE  RmInv'
<1>1. /\ gpt \in Gpts /\ new \in Gpts /\ kern \in Gpts /\ files \in Files
      /\ disk \in Files /\ mnt \in {"no", "ro", "rw"} /\ erased = {}
      /\ copies \in CopyStates
  BY DEF RmInv, RmTypeOK, FlightInv
<1>2. CASE WriteGpt
  <2>1. /\ pc = "writegpt" /\ gpt' = new /\ pc' = "rrpart" /\ mode' = mode
        /\ copies' = "both"
        /\ UNCHANGED <<kern, files, disk, mnt, erased, new, op, data>>
    BY <1>2 DEF WriteGpt, Goto
  <2>2. op \in Slots /\ data \in Slots
    BY <2>1 DEF RmInv, FlightInv, Named
  <2>3. RmTypeOK'
    BY <1>1, <2>1 DEF RmInv, RmTypeOK, CopyStates
  <2>4. FlightInv'
    BY <1>1, <2>1, <2>2 DEF FlightInv, Merging
  <2>5. QED
    BY <2>3, <2>4 DEF RmInv
<1>3. CASE WriteGptFails
  <2>1. /\ gpt' \in {gpt, new} /\ copies' \in CopyStates
        /\ Gone /\ Flush /\ UNCHANGED <<kern, erased>>
    BY <1>1, <1>3, CutShortIs DEF WriteGptFails
  <2>2. QED
    BY <1>1, <2>1, FlushIs, GoneIs
<1>4. CASE ReloadTable
  <2>1. kern' \in {kern, gpt} /\ Gone /\ Flush /\ UNCHANGED <<gpt, copies, erased>>
    BY <1>4 DEF ReloadTable
  <2>2. QED
    BY <1>1, <2>1, FlushIs, GoneIs
<1>5. QED
  BY <1>2, <1>3, <1>4

LEMMA StepInv ==
  ASSUME RmInv, Step
  PROVE  RmInv'
<1>1. CASE FindOP
  BY <1>1, FindOPInv
<1>2. CASE FindData
  BY <1>2, FindDataInv
<1>3. CASE Merge
  BY <1>3, MergeInv
<1>4. CASE Rename
  BY <1>4, RenameInv
<1>5. CASE \/ Confirm \/ MountCust \/ ReadCfg \/ ReadCfgWithoutSize \/ RemountCust
           \/ CreatTmp \/ WriteTmp \/ RenameCfg \/ LinkTmp \/ UmountCust
           \/ SystemCallFails
  BY <1>5, CustInv
<1>6. CASE Discard
  BY <1>6, DiscardInv
<1>7. CASE WriteGpt \/ WriteGptFails \/ ReloadTable
  BY <1>7, WriteInv
<1>8. QED
  BY <1>1, <1>2, <1>3, <1>4, <1>5, <1>6, <1>7 DEF Step

\* The file systems, a killed rmOP and a reset phone.
LEMMA EnvInv ==
  ASSUME RmInv, Journal \/ WriteBack \/ Kill \/ Reboot \/ StartWithoutDevice
  PROVE  RmInv'
<1>1. /\ gpt \in Gpts /\ new \in Gpts /\ kern \in Gpts /\ files \in Files
      /\ disk \in Files /\ mnt \in {"no", "ro", "rw"} /\ erased = {}
      /\ copies \in CopyStates
  BY DEF RmInv, RmTypeOK, FlightInv
<1>2. CASE Journal \/ WriteBack
  <2>1. files' \in Files /\ disk' \in Files
    BY <1>1, <1>2, SettleIs DEF Journal, WriteBack, Texts
  <2>2. UNCHANGED <<gpt, copies, kern, mnt, erased, pc, mode, new, op, data>>
    BY <1>2 DEF Journal, WriteBack, progVars
  <2>3. RmTypeOK'
    BY <2>1, <2>2 DEF RmInv, RmTypeOK
  <2>4. FlightInv'
    BY <2>2 DEF RmInv, FlightInv, Merging
  <2>5. QED
    BY <2>3, <2>4 DEF RmInv
<1>3. CASE Kill
  <2>1. /\ gpt' \in {gpt, new} /\ copies' \in CopyStates
        /\ Gone /\ UNCHANGED <<kern, files, disk, mnt, erased>>
    BY <1>1, <1>3, InterruptedIs DEF Kill
  <2>2. QED
    BY <1>1, <2>1, GoneIs
<1>4. CASE Reboot
  <2>1. /\ gpt' \in {gpt, new} /\ copies' \in CopyStates
        /\ kern' \in {NoTable, gpt'} /\ files' = disk /\ mnt' = "no"
        /\ Gone /\ UNCHANGED <<disk, erased>>
    BY <1>1, <1>4, InterruptedIs DEF Reboot
  <2>2. QED
    BY <1>1, <2>1, GoneIs, NoSliceType
<1>5. CASE StartWithoutDevice
  BY <1>5, ExitIs DEF StartWithoutDevice
<1>6. QED
  BY <1>2, <1>3, <1>4, <1>5

\* fix_gpts() leaves rmOP's memory alone, and rmOP is not there to notice.
LEMMA KRmInv ==
  ASSUME RmInv, KStep \/ KKill \/ (\E sim \in BOOLEAN : KStart(sim)),
         pc = "idle", kdz \in KdzGpts, opsz \in Sizes
  PROVE  RmInv'
<1>1. /\ gpt \in Gpts /\ new \in Gpts /\ kern \in Gpts /\ files \in Files
      /\ disk \in Files /\ mnt \in {"no", "ro", "rw"} /\ erased = {}
      /\ copies \in CopyStates
  BY DEF RmInv, RmTypeOK, FlightInv
<1>2. AdjustOP(kdz, opsz) \in Gpts
  BY AdjustType
<1>3. gpt' \in Gpts /\ copies' \in CopyStates
  <2>1. ASSUME NEW d, Restored(d) \/ RestoredInPart(d)
        PROVE  gpt' \in Gpts /\ copies' \in CopyStates
    <3>1. "both" \in CopyStates
      BY DEF CopyStates
    <3>2. QED
      BY <1>1, <1>2, <2>1, <3>1, CutShortIs DEF Restored, RestoredInPart
  <2>2. QED
    BY <1>1, <2>1 DEF KStep, KKill, KStart, NoByName, KMount, KReadCfg, KCfgFails,
                      KWriteGpt, KSimulate, KReload, KFails, KDone, InDevice, rmVars
<1>4. kern' \in Gpts
  BY <1>1 DEF KStep, KKill, KStart, NoByName, KMount, KReadCfg, KCfgFails,
              KWriteGpt, KSimulate, KReload, KFails, KDone, InDevice, rmVars
<1>5. files' \in Files /\ disk' \in Files /\ mnt' \in {"no", "ro", "rw"}
  <2>1. CASE KMount
    BY <1>1, <2>1, SettleIs DEF KMount, Texts
  <2>2. CASE KCfgFails
    BY <1>1, <2>2, FlushIs DEF KCfgFails
  <2>3. CASE ~KMount /\ ~KCfgFails
    BY <1>1, <2>3 DEF KStep, KKill, KStart, NoByName, KReadCfg,
                      KWriteGpt, KSimulate, KReload, KFails, KDone, InDevice, rmVars
  <2>4. QED
    BY <2>1, <2>2, <2>3
<1>6. UNCHANGED <<erased, progVars>>
  BY DEF KStep, KKill, KStart, NoByName, KMount, KReadCfg, KCfgFails,
         KWriteGpt, KSimulate, KReload, KFails, KDone, InDevice, rmVars
<1>7. RmTypeOK'
  BY <1>3, <1>4, <1>5, <1>6 DEF RmInv, RmTypeOK, progVars
<1>8. FlightInv'
  BY <1>1, <1>6 DEF RmInv, FlightInv, Merging, progVars
<1>9. QED
  BY <1>7, <1>8 DEF RmInv

LEMMA InitRun == FixInit => RunInv
<1> SUFFICES ASSUME FixInit PROVE RunInv
  OBVIOUS
<1>1. gpt \in Gpts /\ cfg0 \in Texts
  BY RmOPAssumption DEF FixInit, Init
<1>2. files \in Files /\ disk \in Files
  BY RmOPAssumption DEF FixInit, Init, Files, Texts
<1>3. NoTable \in Gpts /\ 0 \in 0 .. NSlots /\ 0 \in Sizes /\ kdz \in Gpts
  BY NoSliceType, RmOPAssumption, FixGptsAssumption DEF FixInit, Sizes, Crumbs
<1>4. RmTypeOK
  BY <1>1, <1>2, <1>3 DEF RmTypeOK, CopyStates, FixInit, Init
<1>5. TypeOK
  BY <1>3, <1>4 DEF TypeOK, FixInit
<1>6. FlightInv
  BY DEF FlightInv, FixInit, Init, Merging
<1>7. QED
  BY <1>5, <1>6 DEF RunInv, FixInit, Init

\* What fix_gpts() reads from the cfg file is a size.
LEMMA SizeInIs ==
  ASSUME NEW text, NEW on PROVE SizeIn(text, on) \subseteq Sizes
<1>1. OpSize \in Sizes /\ 0 \in Sizes
  BY FixGptsAssumption, RmOPAssumption DEF Sizes, Crumbs
<1>2. Written(text) \subseteq {0, OpSize}
  BY DEF Written
<1>3. QED
  BY <1>1, <1>2, FixGptsAssumption DEF SizeIn

\* fix_gpts()'s own variables keep their types.
LEMMA KTypes ==
  ASSUME TypeOK, KStep \/ KKill \/ (\E sim \in BOOLEAN : KStart(sim))
  PROVE  /\ kdz' = kdz /\ other' \in {"device", "kdz", "cut"} /\ goesOn' \in BOOLEAN
         /\ kpc' \in {"idle", "mount", "readcfg", "device", "rrpart"}
         /\ simulate' \in BOOLEAN /\ kret' \in BOOLEAN
         /\ opsz' \in Sizes
         /\ kdone' \subseteq Devices
         /\ kres' \in {"none", "true", "false"}
<1>1. 0 \in Sizes /\ NextDevice \in Devices
  BY RmOPAssumption DEF NextDevice, Devices, Sizes, Crumbs
<1>2. CASE KStart(TRUE) \/ KStart(FALSE)
  BY <1>1, <1>2 DEF TypeOK, KStart
<1>3. CASE NoByName
  BY <1>1, <1>3 DEF TypeOK, NoByName
<1>4. CASE KMount
  BY <1>4 DEF TypeOK, KMount
<1>5. CASE KReadCfg
  BY <1>5, SizeInIs DEF TypeOK, KReadCfg
<1>6. CASE KCfgFails
  BY <1>1, <1>6 DEF TypeOK, KCfgFails, Return
<1>7. CASE KWriteGpt
  BY <1>7 DEF TypeOK, KWriteGpt, Restored
<1>8. CASE KSimulate
  BY <1>1, <1>8 DEF TypeOK, KSimulate
<1>9. CASE KReload
  BY <1>1, <1>9 DEF TypeOK, KReload
<1>10. CASE KFails
  BY <1>1, <1>10 DEF TypeOK, KFails, Return, InDevice, RestoredInPart
<1>11. CASE KDone
  BY <1>1, <1>11 DEF TypeOK, KDone, Return
<1>12. CASE KKill
  BY <1>1, <1>12 DEF TypeOK, KKill, Return, InDevice, RestoredInPart
<1>13. QED
  BY <1>2, <1>3, <1>4, <1>5, <1>6, <1>7, <1>8, <1>9, <1>10, <1>11, <1>12 DEF KStep

LEMMA NextRun == RunInv /\ [Next]_vars => RunInv'
<1> SUFFICES ASSUME RunInv, [Next]_vars PROVE RunInv'
  OBVIOUS
<1>1. RmInv /\ TypeOK /\ kdz \in KdzGpts /\ opsz \in Sizes /\ kdz \in Gpts
  BY DEF RunInv, RmInv, TypeOK
<1>2. ASSUME RmInv', UNCHANGED <<kdz, other, kpc, simulate, opsz, goesOn, kdone, kret>>,
             kres' \in {"none", "true", "false"}, kpc = "idle" \/ pc' = pc
      PROVE  RunInv'
  BY <1>1, <1>2 DEF RunInv, RmInv, TypeOK
<1>3. CASE RmStart
  BY <1>1, <1>2, <1>3, StartInv, EnvInv DEF RmStart, ByRmOP
<1>4. CASE ByRmOP(Step)
  BY <1>1, <1>2, <1>4, StepInv DEF ByRmOP
<1>5. CASE ByRmOP(Kill)
  BY <1>1, <1>2, <1>5, EnvInv DEF ByRmOP
<1>6. CASE (Journal \/ WriteBack) /\ UNCHANGED kVars
  <2>1. RmInv' /\ pc' = pc
    BY <1>1, <1>6, EnvInv DEF Journal, WriteBack, progVars
  <2>2. QED
    BY <1>1, <1>2, <1>6, <2>1 DEF kVars, TypeOK
<1>7. CASE Restart
  <2>1. RmInv' /\ kpc = "idle" /\ UNCHANGED kVars
    BY <1>1, <1>7, EnvInv DEF Restart
  <2>2. QED
    BY <1>1, <1>2, <2>1 DEF kVars, TypeOK
<1>8. CASE KStep \/ KKill \/ \E sim \in BOOLEAN : KStart(sim)
  <2>1. pc = "idle" /\ pc' = "idle"
    BY <1>8 DEF RunInv, KStep, KKill, KStart, NoByName, KMount, KReadCfg, KCfgFails,
                KWriteGpt, KSimulate, KReload, KFails, KDone, InDevice, rmVars, progVars
  <2>2. RmInv'
    BY <1>1, <1>8, <2>1, KRmInv
  <2>3. QED
    BY <1>1, <1>8, <2>1, <2>2, KTypes DEF RunInv, RmInv, TypeOK
<1>9. CASE UNCHANGED vars
  <2>1. RmInv'
    BY <1>1, <1>9 DEF vars, rmVars, progVars, envVars, RmInv, RmTypeOK, FlightInv, Merging
  <2>2. UNCHANGED kVars /\ pc' = pc
    BY <1>9 DEF vars, rmVars, progVars
  <2>3. QED
    BY <1>1, <1>2, <2>1, <2>2 DEF kVars, TypeOK
<1>10. QED
  BY <1>3, <1>4, <1>5, <1>6, <1>7, <1>8, <1>9 DEF Next

\* In every state the variables of rmOP and of fix_gpts() have their types, the
\* tables are tables of slices of the device, and a run of rmOP has found OP
\* before it goes on.
THEOREM TypeCorrect == Spec => []TypeOK
<1>1. RunInv => TypeOK
  BY DEF RunInv
<1>2. QED
  BY InitRun, NextRun, <1>1, PTL DEF Spec

\* "rmOP -F" asks the device to discard a range, but by then the range is that
\* of a zeroed entry: neither the GPT nor any slice loses a block.
THEOREM NothingErased == Spec => []NothingInUseErased
<1>1. RunInv => NothingInUseErased
  BY DEF RunInv, FlightInv, NothingInUseErased
<1>2. QED
  BY InitRun, NextRun, <1>1, PTL DEF Spec

------------------------------------------------------------------------------
(* The cfg file. *)

LEMMA SettledText ==
  ASSUME NEW fs \in Files, NEW c, c # "dirty", Holds(fs, c),
         NEW t \in {"zeros", "empty"}
  PROVE  /\ Holds(Settle(fs, t), c)
         /\ Settle(fs, t).cfg = "sizes" => fs.cfg = "sizes"
         /\ fs.orig = c => Settle(fs, t).orig = c
         /\ fs.cfg = "sizes" => Settle(fs, t).cfg = "sizes"
BY SettleIs DEF Holds, Texts

\* When rmOP is over, the text only has to be there.
LEMMA IdleCfg ==
  ASSUME CfgInv, pc' = "idle", cfg0' = cfg0, Holds(files', cfg0), Holds(disk', cfg0)
  PROVE  CfgInv'
BY DEF CfgInv

LEMMA FlushCfg ==
  ASSUME RmInv, CfgInv, Flush
  PROVE  Holds(files', cfg0) /\ Holds(disk', cfg0)
<1>1. /\ files \in Files
      /\ \/ files' = Settle(files, "zeros") /\ disk' = files'
         \/ files' = files /\ disk' = disk
  BY FlushIs DEF RmInv, RmTypeOK
<1>2. QED
  BY <1>1, SettledText DEF CfgInv

LEMMA ExitCfg ==
  ASSUME RmInv, CfgInv, Gone, Flush, cfg0' = cfg0
  PROVE  CfgInv'
BY FlushCfg, IdleCfg DEF Gone

LEMMA StepCfg ==
  ASSUME RmInv, CfgInv, Step
  PROVE  CfgInv'
<1>1. cfg0 # "dirty" /\ Holds(files, cfg0) /\ Holds(disk, cfg0) /\ files \in Files
  BY DEF CfgInv, RmInv, RmTypeOK
<1>2. CASE Exit
  BY <1>2, ExitCfg DEF Exit, envVars
<1>3. CASE ReadCfgWithoutSize \/ SystemCallFails
  BY <1>3, ExitCfg DEF ReadCfgWithoutSize, SystemCallFails, Exit, envVars
<1>4. CASE WriteGptFails \/ ReloadTable
  BY <1>4, ExitCfg DEF WriteGptFails, ReloadTable, envVars
<1>5. CASE ~Exit /\ (FindOP \/ FindData \/ Confirm)
  BY <1>1, <1>5 DEF CfgInv, FindOP, FindData, Confirm, Goto, envVars
<1>6. CASE Rename
  BY <1>1, <1>6 DEF CfgInv, Rename, Goto, envVars
<1>7. CASE ~Exit /\ Merge
  <2>1. pc' = "confirm" /\ UNCHANGED <<files, disk, cfg0>>
    BY <1>7 DEF Merge, Goto, envVars
  <2>2. QED
    BY <1>1, <2>1 DEF CfgInv
<1>8. CASE MountCust \/ ReadCfg \/ RemountCust
  BY <1>1, <1>8 DEF CfgInv, MountCust, ReadCfg, RemountCust, Goto, envVars
<1>9. CASE CreatTmp
  <2>1. /\ pc = "creat" /\ pc' = "writetmp" /\ UNCHANGED <<disk, cfg0>>
        /\ files' = [files EXCEPT !.tmp = "empty"]
    BY <1>9 DEF CreatTmp, FileStep, Goto, envVars
  <2>2. files'.cfg = files.cfg /\ files'.orig = files.orig /\ files'.tmp = "empty"
    BY <1>1, <2>1 DEF Files
  <2>3. QED
    BY <1>1, <2>1, <2>2 DEF CfgInv, Holds
<1>10. CASE WriteTmp
  <2>1. /\ pc = "writetmp" /\ pc' = "rename" /\ UNCHANGED <<disk, cfg0>>
        /\ files' = [files EXCEPT !.tmp = "dirty"]
    BY <1>10 DEF WriteTmp, FileStep, Goto, envVars
  <2>2. files'.cfg = files.cfg /\ files'.orig = files.orig /\ files'.tmp = "dirty"
    BY <1>1, <2>1 DEF Files
  <2>3. QED
    BY <1>1, <2>1, <2>2 DEF CfgInv, Holds
<1>11. CASE RenameCfg
  <2>1. /\ pc = "rename" /\ pc' = "link" /\ UNCHANGED <<disk, cfg0>>
        /\ files' = [files EXCEPT !.orig = files.cfg, !.cfg = "absent"]
    BY <1>11 DEF RenameCfg, FileStep, Goto, envVars
  <2>2. /\ files'.cfg = "absent" /\ files'.orig = files.cfg /\ files'.tmp = files.tmp
        /\ files.cfg = "sizes" /\ cfg0 = "sizes"
    BY <1>1, <2>1 DEF Files, CfgInv, Holds
  <2>3. QED
    BY <1>1, <2>1, <2>2 DEF CfgInv, Holds
<1>12. CASE LinkTmp
  <2>1. /\ pc = "link" /\ pc' = "umount" /\ UNCHANGED <<disk, cfg0>>
        /\ files' = [files EXCEPT !.cfg = files.tmp]
    BY <1>12 DEF LinkTmp, FileStep, Goto, envVars
  <2>2. /\ files'.cfg = files.tmp /\ files'.orig = files.orig /\ files'.tmp = files.tmp
        /\ files.orig = cfg0
    BY <1>1, <2>1 DEF Files, CfgInv
  <2>3. QED
    BY <1>1, <2>1, <2>2 DEF CfgInv, Holds
<1>13. CASE UmountCust
  <2>1. pc = "umount" /\ pc' = "discard" /\ cfg0' = cfg0 /\ files.cfg # "sizes" /\ Flush
    BY <1>13 DEF UmountCust, Goto, envVars, CfgInv
  <2>2. CASE mnt' = "no" /\ files' = Settle(files, "zeros") /\ disk' = files'
    <3>1. Holds(files', cfg0) /\ Holds(disk', cfg0) /\ files'.cfg # "sizes"
      BY <1>1, <2>1, <2>2, SettledText
    <3>2. QED
      BY <1>1, <2>1, <2>2, <3>1 DEF CfgInv
  <2>3. CASE mnt # "no" /\ UNCHANGED <<mnt, files, disk>>
    BY <1>1, <2>1, <2>3 DEF CfgInv
  <2>4. QED
    BY <2>1, <2>2, <2>3 DEF Flush
<1>14. CASE Discard \/ WriteGpt
  <2>1. /\ pc \in {"discard", "writegpt"} /\ pc' \in {"writegpt", "rrpart"}
        /\ UNCHANGED <<mode, mnt, files, disk, cfg0>>
    BY <1>14 DEF Discard, WriteGpt, Goto, envVars
  <2>2. QED
    BY <1>1, <2>1 DEF CfgInv
<1>15. QED
  BY <1>2, <1>3, <1>4, <1>5, <1>6, <1>7, <1>8, <1>9, <1>10, <1>11, <1>12, <1>13, <1>14
     DEF Step

LEMMA JournalCfg ==
  ASSUME RmInv, CfgInv, Journal \/ WriteBack
  PROVE  CfgInv'
<1>1. /\ cfg0 # "dirty" /\ Holds(files, cfg0) /\ Holds(disk, cfg0) /\ files \in Files
      /\ UNCHANGED <<pc, mode, mnt, cfg0>>
  BY DEF CfgInv, RmInv, RmTypeOK, Journal, WriteBack, progVars, envVars
<1>2. CASE Journal
  <2>1. mnt = "rw" /\ files' = files /\ disk' = Settle(files, "empty")
    BY <1>2 DEF Journal
  <2>2. Holds(disk', cfg0)
    BY <1>1, <2>1, SettledText
  <2>3. QED
    BY <1>1, <2>1, <2>2 DEF CfgInv
<1>3. CASE WriteBack
  <2>1. files' = Settle(files, "zeros") /\ disk' = disk
    BY <1>3 DEF WriteBack
  <2>2. /\ Holds(files', cfg0)
        /\ files'.cfg = "sizes" <=> files.cfg = "sizes"
        /\ files.orig = cfg0 => files'.orig = cfg0
    BY <1>1, <2>1, SettledText
  <2>3. QED
    BY <1>1, <2>1, <2>2 DEF CfgInv
<1>4. QED
  BY <1>2, <1>3

LEMMA KCfg ==
  ASSUME RmInv, CfgInv, KStep \/ KKill \/ (\E sim \in BOOLEAN : KStart(sim)), pc = "idle"
  PROVE  CfgInv'
<1>1. pc' = "idle" /\ cfg0' = cfg0
  BY DEF KStep, KKill, KStart, NoByName, KMount, KReadCfg, KCfgFails, KWriteGpt,
         KSimulate, KReload, KFails, KDone, InDevice, rmVars, progVars, envVars
<1>2. CASE KMount
  <2>1. files \in Files /\ files' = Settle(files, "zeros") /\ disk' = files'
    BY <1>2 DEF KMount, RmInv, RmTypeOK
  <2>2. Holds(files', cfg0)
    BY <2>1, SettledText DEF CfgInv
  <2>3. QED
    BY <1>1, <2>1, <2>2, IdleCfg
<1>3. CASE KCfgFails
  BY <1>1, <1>3, FlushCfg, IdleCfg DEF KCfgFails
<1>4. CASE ~KMount /\ ~KCfgFails
  <2>1. UNCHANGED <<files, disk>>
    BY <1>4 DEF KStep, KKill, KStart, NoByName, KReadCfg, KWriteGpt, KSimulate,
                KReload, KFails, KDone, InDevice, rmVars
  <2>2. QED
    BY <1>1, <2>1, IdleCfg DEF CfgInv
<1>5. QED
  BY <1>2, <1>3, <1>4

LEMMA NextCfg == RunInv /\ CfgInv /\ [Next]_vars => CfgInv'
<1> SUFFICES ASSUME RunInv, CfgInv, [Next]_vars PROVE CfgInv'
  OBVIOUS
<1>1. RmInv
  BY DEF RunInv, RmInv, TypeOK
<1>2. CASE RmStart
  <2>1. CASE \E m \in {"enable", "disable", "merge"} : Start(m)
    BY <2>1 DEF Start, CfgInv, envVars
  <2>2. CASE StartWithoutDevice
    BY <1>1, <2>2, ExitCfg DEF StartWithoutDevice, Exit, envVars
  <2>3. QED
    BY <1>2, <2>1, <2>2 DEF RmStart, ByRmOP
<1>3. CASE ByRmOP(Step)
  BY <1>1, <1>3, StepCfg DEF ByRmOP
<1>4. CASE ByRmOP(Kill)
  BY <1>4, IdleCfg DEF ByRmOP, Kill, Gone, envVars, CfgInv
<1>5. CASE (Journal \/ WriteBack) /\ UNCHANGED kVars
  BY <1>1, <1>5, JournalCfg
<1>6. CASE Restart
  BY <1>6, IdleCfg DEF Restart, Reboot, Gone, envVars, CfgInv
<1>7. CASE KStep \/ KKill \/ \E sim \in BOOLEAN : KStart(sim)
  <2>1. pc = "idle"
    BY <1>7 DEF RunInv, KStep, KKill, KStart, NoByName, KMount, KReadCfg, KCfgFails,
                KWriteGpt, KSimulate, KReload, KFails, KDone
  <2>2. QED
    BY <1>1, <1>7, <2>1, KCfg
<1>8. CASE UNCHANGED vars
  BY <1>8 DEF vars, rmVars, progVars, envVars, CfgInv
<1>9. QED
  BY <1>2, <1>3, <1>4, <1>5, <1>6, <1>7, <1>8 DEF Next

LEMMA InitCfg == FixInit => CfgInv
<1> SUFFICES ASSUME FixInit PROVE CfgInv
  OBVIOUS
<1>1. PICK t \in CfgTexts : files = [cfg |-> t, orig |-> "absent", tmp |-> "absent"]
  BY DEF FixInit, Init
<1>2. t # "dirty" /\ cfg0 = t /\ disk = files /\ files.cfg = t /\ files.tmp = "absent"
  BY <1>1, RmOPAssumption DEF FixInit, Init
<1>3. QED
  BY <1>2 DEF CfgInv, Holds, FixInit, Init

\* Whatever fails, is killed or loses power, and however often rmOP and
\* kdzwriter are run: the text that official_op_resize.cfg had at the start is
\* on the media, under its name or under .orig.
THEOREM CfgSurvives == Spec => []CfgTextKept
<1>1. CfgInv => CfgTextKept
  BY DEF CfgInv, Holds, CfgTextKept
<1>2. QED
  BY InitRun, NextRun, InitCfg, NextCfg, <1>1, PTL DEF Spec

\* Every step that takes OP out of the table finds zeros in the cfg file, and on
\* the media too, unless umount() has found /cust busy.
THEOREM CfgBeforeTable == Spec => OpGoneAfterCfg
<1>1. RunInv /\ CfgInv /\ [Next]_vars
        => [pc = "writegpt" /\ mode = "merge" /\ gpt' # gpt =>
              files.cfg # "sizes" /\ (mnt = "no" => disk.cfg # "sizes")]_rmVars
  BY DEF CfgInv
<1>2. QED
  BY InitRun, NextRun, InitCfg, NextCfg, <1>1, PTL DEF Spec, OpGoneAfterCfg

------------------------------------------------------------------------------
(* The slices. *)

Apart(g) == \A s, t \in Slots : s # t => Blocks(g[s]) \cap Blocks(g[t]) = {}

\* A slice without blocks has no name.
LEMMA SoundIs ==
  ASSUME NEW g, Sound(g)
  PROVE  /\ \A s \in Slots : g[s].name # "" =>
              FirstData <= g[s].lo /\ g[s].lo <= g[s].hi /\ g[s].hi <= LastBlock
         /\ \A s, t \in Named(g, Hidden) : s = t
         /\ \A s, t \in Named(g, {"userdata"}) : s = t
<1>1. /\ \A s, t \in Named(g, {"OP", "XOPX"}) : s = t
      /\ \A s, t \in Named(g, {"userdata"}) : s = t
  BY DEF Sound
<1>2. QED
  BY <1>1 DEF Sound, Hidden

\* Two slices overlap only when one is OP, at the start of userdata.
LEMMA OverlapIs ==
  ASSUME NEW g, Sound(g), NEW s \in Slots, NEW t \in Slots, s # t,
         Blocks(g[s]) \cap Blocks(g[t]) # {}
  PROVE  \E o, d \in {s, t} :
           /\ o \in Named(g, Hidden) /\ d \in Named(g, {"userdata"})
           /\ g[o].lo = g[d].lo /\ g[o].hi <= g[d].hi
<1>1. \A v, w \in Slots :
        v # w => \/ Blocks(g[v]) \cap Blocks(g[w]) = {}
                 \/ \E o, d \in {v, w} :
                      /\ g[o].name \in {"OP", "XOPX"} /\ g[d].name = "userdata"
                      /\ g[o].lo = g[d].lo /\ g[o].hi <= g[d].hi
  BY DEF Sound
<1>2. PICK o, d \in {s, t} :
        /\ g[o].name \in {"OP", "XOPX"} /\ g[d].name = "userdata"
        /\ g[o].lo = g[d].lo /\ g[o].hi <= g[d].hi
  BY <1>1
<1>3. o \in Named(g, Hidden) /\ d \in Named(g, {"userdata"})
  BY <1>2 DEF Hidden, Named
<1>4. QED
  BY <1>2, <1>3

\* lo .. hi cut in two before block m.
LEMMA CutInTwo ==
  ASSUME NEW lo \in Int, NEW m \in Int, NEW hi \in Int, lo <= m, m <= hi + 1
  PROVE  /\ (lo .. m - 1) \cup (m .. hi) = lo .. hi
         /\ (lo .. m - 1) \cap (m .. hi) = {}
OBVIOUS

\* Between the copies of the GPT.
Within(x) == FirstData <= x.lo /\ x.lo <= x.hi /\ x.hi <= LastBlock

\* Moving the border between OP and userdata.
LEMMA BorderMoved ==
  ASSUME NEW k \in KdzGpts, NEW j \in Slots, NEW u \in Slots, Adjusts(k, j, u),
         NEW size \in FitSizes(k), NEW a, a = AdjustOP(k, size)
  PROVE  /\ a \in Gpts /\ \A s \in Slots \ {j, u} : a[s] = k[s]
         /\ a[u].name = "userdata" /\ Within(a[u])
         /\ a[j] = NoSlice \/ (a[j].name = "OP" /\ Within(a[j]))
         /\ Blocks(a[u]) \cap Blocks(a[j]) = {}
         /\ Blocks(a[u]) \cup Blocks(a[j]) = Blocks(k[u]) \cup Blocks(k[j])
         /\ k[j].name = "OP" /\ k[u].name = "userdata" /\ j # u
<1>1. /\ a \in Gpts /\ \A s \in Slots \ {j, u} : a[s] = k[s]
      /\ j \in Named(k, {"OP"}) /\ u \in Named(k, {"userdata"})
  <2>1. j \in Named(k, {"OP"}) /\ u \in Named(k, {"userdata"})
    BY DEF Adjusts
  <2>2. size \in Sizes
    BY <2>1, FitRoom
  <2>3. QED
    BY <2>1, <2>2, AdjustType DEF Adjusts
<1>2. /\ k[j].name = "OP" /\ k[u].name = "userdata" /\ j # u
      /\ k[j].lo \in Nat /\ k[u].lo \in Nat /\ k[j].hi \in Nat /\ k[u].hi \in Nat
      /\ k[j].lo <= k[j].hi /\ k[u].lo <= k[u].hi
      /\ FirstData \in Nat /\ FirstData <= k[j].lo /\ FirstData <= k[u].lo
      /\ LastBlock \in Nat /\ k[j].hi <= LastBlock /\ k[u].hi <= LastBlock
      /\ size <= (k[j].hi - k[j].lo + 1) + (k[u].hi - k[u].lo)
      /\ size \in Nat
  BY <1>1, KdzRoom, FitRoom
<1>3. /\ Blocks(k[u]) = k[u].lo .. k[u].hi
      /\ Blocks(k[j]) = k[j].lo .. k[j].hi
  BY <1>2 DEF Blocks
<1>4. ASSUME a[u].name = "userdata" PROVE Blocks(a[u]) = a[u].lo .. a[u].hi
  BY <1>4 DEF Blocks
<1>5. ASSUME a[j].name = "OP" PROVE Blocks(a[j]) = a[j].lo .. a[j].hi
  BY <1>5 DEF Blocks
<1>6. ASSUME a[j] = NoSlice PROVE Blocks(a[j]) = {}
  <2>1. NoSlice.name = ""
    BY DEF NoSlice
  <2>2. QED
    BY <1>6, <2>1 DEF Blocks
<1>7. CASE k[u].hi + 1 = k[j].lo /\ AfterUser(k, j, u, size)
  <2>1. /\ a[u].name = "userdata" /\ a[u].lo = k[u].lo /\ a[u].hi = k[j].hi - size
        /\ \/ size = 0 /\ a[j] = NoSlice
           \/ size # 0 /\ a[j].name = "OP" /\ a[j].lo = k[j].hi + 1 - size
                       /\ a[j].hi = k[j].hi
    BY <1>7 DEF AfterUser
  <2>2. Within(a[u]) /\ (a[j] = NoSlice \/ (a[j].name = "OP" /\ Within(a[j])))
    BY <1>2, <1>7, <2>1 DEF Within
  <2>3. /\ Blocks(a[u]) \cap Blocks(a[j]) = {}
        /\ Blocks(a[u]) \cup Blocks(a[j]) = Blocks(k[u]) \cup Blocks(k[j])
    <3>1. Blocks(k[j]) \cup Blocks(k[u]) = k[u].lo .. k[j].hi
      <4>1. k[u].hi = k[j].lo - 1 /\ k[u].lo <= k[j].lo /\ k[j].lo <= k[j].hi + 1
        BY <1>2, <1>7
      <4>2. k[u].lo \in Int /\ k[j].lo \in Int /\ k[j].hi \in Int
        BY <1>2
      <4>3. (k[u].lo .. k[j].lo - 1) \cup (k[j].lo .. k[j].hi) = k[u].lo .. k[j].hi
        BY <4>1, <4>2, CutInTwo
      <4>4. QED
        BY <1>3, <4>1, <4>3
    <3>2. CASE size = 0
      <4>1. Blocks(a[u]) = k[u].lo .. k[j].hi
        BY <1>2, <1>4, <2>1, <3>2
      <4>2. QED
        BY <1>6, <2>1, <3>1, <3>2, <4>1
    <3>3. CASE size # 0
      <4> DEFINE m == k[j].hi + 1 - size
      <4>1. m \in Int /\ k[u].lo <= m /\ m <= k[j].hi + 1
        BY <1>2, <1>7
      <4>2. a[u].hi = m - 1 /\ a[j].lo = m /\ a[u].lo = k[u].lo /\ a[j].hi = k[j].hi
        BY <1>2, <2>1, <3>3
      <4> HIDE DEF m
      <4>3. Blocks(a[u]) = k[u].lo .. m - 1 /\ Blocks(a[j]) = m .. k[j].hi
        BY <1>4, <1>5, <2>1, <3>3, <4>2
      <4>4. /\ (k[u].lo .. m - 1) \cup (m .. k[j].hi) = k[u].lo .. k[j].hi
            /\ (k[u].lo .. m - 1) \cap (m .. k[j].hi) = {}
        BY <1>2, <4>1, CutInTwo
      <4>5. QED
        BY <3>1, <4>3, <4>4
    <3>4. QED
      BY <3>2, <3>3
  <2>4. QED
    BY <1>1, <1>2, <2>1, <2>2, <2>3
<1>8. CASE k[j].hi + 1 = k[u].lo /\ BeforeUser(k, j, u, size)
  <2>1. /\ a[u].name = "userdata" /\ a[u].lo = k[j].lo + size /\ a[u].hi = k[u].hi
        /\ \/ size = 0 /\ a[j] = NoSlice
           \/ size # 0 /\ a[j].name = "OP" /\ a[j].lo = k[j].lo
                       /\ a[j].hi = k[j].lo + size - 1
    BY <1>8 DEF BeforeUser
  <2>2. Within(a[u]) /\ (a[j] = NoSlice \/ (a[j].name = "OP" /\ Within(a[j])))
    BY <1>2, <1>8, <2>1 DEF Within
  <2>3. /\ Blocks(a[u]) \cap Blocks(a[j]) = {}
        /\ Blocks(a[u]) \cup Blocks(a[j]) = Blocks(k[u]) \cup Blocks(k[j])
    <3>1. Blocks(k[u]) \cup Blocks(k[j]) = k[j].lo .. k[u].hi
      <4>1. k[j].hi = k[u].lo - 1 /\ k[j].lo <= k[u].lo /\ k[u].lo <= k[u].hi + 1
        BY <1>2, <1>8
      <4>2. k[j].lo \in Int /\ k[u].lo \in Int /\ k[u].hi \in Int
        BY <1>2
      <4>3. (k[j].lo .. k[u].lo - 1) \cup (k[u].lo .. k[u].hi) = k[j].lo .. k[u].hi
        BY <4>1, <4>2, CutInTwo
      <4>4. QED
        BY <1>3, <4>1, <4>3
    <3>2. CASE size = 0
      <4>1. Blocks(a[u]) = k[j].lo .. k[u].hi
        BY <1>2, <1>4, <2>1, <3>2
      <4>2. QED
        BY <1>6, <2>1, <3>1, <3>2, <4>1
    <3>3. CASE size # 0
      <4> DEFINE m == k[j].lo + size
      <4>1. m \in Int /\ k[j].lo <= m /\ m <= k[u].hi + 1
        BY <1>2, <1>8
      <4>2. a[j].hi = m - 1 /\ a[u].lo = m /\ a[j].lo = k[j].lo /\ a[u].hi = k[u].hi
        BY <1>2, <2>1, <3>3
      <4> HIDE DEF m
      <4>3. Blocks(a[j]) = k[j].lo .. m - 1 /\ Blocks(a[u]) = m .. k[u].hi
        BY <1>4, <1>5, <2>1, <3>3, <4>2
      <4>4. /\ (k[j].lo .. m - 1) \cup (m .. k[u].hi) = k[j].lo .. k[u].hi
            /\ (k[j].lo .. m - 1) \cap (m .. k[u].hi) = {}
        BY <1>2, <4>1, CutInTwo
      <4>5. QED
        BY <3>1, <4>3, <4>4
    <3>4. QED
      BY <3>2, <3>3
  <2>4. QED
    BY <1>1, <1>2, <2>1, <2>2, <2>3
<1>9. QED
  BY <1>7, <1>8 DEF Adjusts

\* A table that fix_gpts() writes has its slices apart, as the KDZ's, when OP's
\* size leaves some of userdata.
LEMMA AdjustSound ==
  ASSUME NEW k \in KdzGpts, NEW size \in FitSizes(k), NEW a, a = AdjustOP(k, size)
  PROVE  Sound(a) /\ Apart(a)
<1>1. Sound(k) /\ Apart(k) /\ k \in Gpts
  BY FixGptsAssumption DEF Apart
<1>2. CASE a = k
  BY <1>1, <1>2
<1>3. ASSUME NEW j \in Slots, NEW u \in Slots, Adjusts(k, j, u)
      PROVE  Sound(a) /\ Apart(a)
  <2>1. /\ a \in Gpts /\ \A s \in Slots \ {j, u} : a[s] = k[s]
        /\ a[u].name = "userdata" /\ Within(a[u])
        /\ a[j] = NoSlice \/ (a[j].name = "OP" /\ Within(a[j]))
        /\ Blocks(a[u]) \cap Blocks(a[j]) = {}
        /\ Blocks(a[u]) \cup Blocks(a[j]) = Blocks(k[u]) \cup Blocks(k[j])
        /\ k[j].name = "OP" /\ k[u].name = "userdata" /\ j # u
    BY <1>3, BorderMoved
  <2>2. Apart(a)
    <3> SUFFICES ASSUME NEW s \in Slots, NEW t \in Slots, s # t
                 PROVE  Blocks(a[s]) \cap Blocks(a[t]) = {}
      BY DEF Apart
    <3>1. CASE s \notin {j, u} /\ t \notin {j, u}
      BY <1>1, <2>1, <3>1 DEF Apart
    <3>2. CASE s \in {j, u} /\ t \in {j, u}
      BY <2>1, <3>2
    <3>3. ASSUME NEW v \in {j, u}, NEW w \in Slots \ {j, u}
          PROVE  Blocks(a[v]) \cap Blocks(a[w]) = {}
      <4>1. Blocks(a[v]) \subseteq Blocks(k[u]) \cup Blocks(k[j])
        BY <2>1
      <4>2. /\ Blocks(k[u]) \cap Blocks(k[w]) = {} /\ Blocks(k[j]) \cap Blocks(k[w]) = {}
        BY <1>1 DEF Apart
      <4>3. a[w] = k[w]
        BY <2>1
      <4>4. QED
        BY <4>1, <4>2, <4>3
    <3>4. QED
      BY <3>1, <3>2, <3>3
  <2>3. NoSlice.name = ""
    BY DEF NoSlice
  <2>4. ASSUME NEW s \in Slots, a[s].name # "" PROVE Within(a[s])
    <3>1. k[s].name # "" => Within(k[s])
      BY <1>1, SoundIs DEF Within
    <3>2. QED
      BY <2>1, <2>3, <2>4, <3>1
  <2>5. \A names \in {{"OP", "XOPX"}, {"userdata"}} :
          \A s, t \in Named(a, names) : s = t
    <3>1. ASSUME NEW s \in Named(a, {"OP", "XOPX"}) PROVE s = j
      <4>1. s \in Slots /\ a[s].name \in {"OP", "XOPX"}
        BY DEF Named
      <4>2. s # u
        BY <2>1, <4>1
      <4>3. ASSUME s # j PROVE FALSE
        <5>1. s \in Named(k, Hidden) /\ j \in Named(k, Hidden)
          BY <2>1, <4>1, <4>2, <4>3 DEF Named, Hidden
        <5>2. QED
          BY <1>1, <4>3, <5>1, SoundIs
      <4>4. QED
        BY <4>3
    <3>2. ASSUME NEW s \in Named(a, {"userdata"}) PROVE s = u
      <4>1. s \in Slots /\ a[s].name = "userdata"
        BY DEF Named
      <4>2. s # j
        BY <2>1, <2>3, <4>1
      <4>3. ASSUME s # u PROVE FALSE
        <5>1. s \in Named(k, {"userdata"}) /\ u \in Named(k, {"userdata"})
          BY <2>1, <4>1, <4>2, <4>3 DEF Named
        <5>2. QED
          BY <1>1, <4>3, <5>1, SoundIs
      <4>4. QED
        BY <4>3
    <3>3. QED
      BY <3>1, <3>2
  <2>6. QED
    BY <2>2, <2>4, <2>5 DEF Sound, Apart, Within
<1>4. QED
  BY <1>2, <1>3, AdjustIs

\* Once userdata has taken over OP there is no OP.
LEMMA NoneHidden ==
  ASSUME NEW g, NEW m, NEW o, NEW d, Sound(g), MergedFrom(g, m, o, d)
  PROVE  Named(m, Hidden) = {}
<1> SUFFICES ASSUME NEW s \in Slots, m[s].name \in Hidden PROVE FALSE
  BY DEF Named
<1>1. NoSlice.name = ""
  BY DEF NoSlice
<1>2. s \notin {o, d}
  BY <1>1 DEF MergedFrom, Hidden
<1>3. s \in Named(g, Hidden) /\ o \in Named(g, Hidden)
  BY <1>2 DEF MergedFrom, Named
<1>4. QED
  BY <1>2, <1>3, SoundIs

\* It does not matter which name OP goes by when userdata takes it over.
LEMMA MergeLike ==
  ASSUME NEW g0, NEW g, NEW m, NEW o, NEW d,
         Sound(g0), Like(g0, g), MergedFrom(g, m, o, d)
  PROVE  MergedFrom(g0, m, o, d)
<1>1. /\ o \in Slots /\ g[o].name \in Hidden /\ d \in Slots /\ g[d].name = "userdata"
      /\ m[o] = NoSlice /\ m[d].name = "userdata"
      /\ Joins(g, o, d, m[d].lo, m[d].hi)
      /\ \A s \in Slots \ {o, d} : m[s] = g[s]
  BY DEF MergedFrom, Named
<1>2. \A s \in Slots : g[s].lo = g0[s].lo /\ g[s].hi = g0[s].hi
  BY DEF Like
<1>3. o \in Named(g0, Hidden)
  BY <1>1 DEF Like, Named
<1>4. ASSUME NEW s \in Slots, s # o PROVE g[s] = g0[s]
  <2>1. s \notin Named(g0, Hidden)
    BY <1>3, <1>4, SoundIs
  <2>2. QED
    BY <2>1 DEF Like
<1>5. "userdata" \notin Hidden
  BY DEF Hidden
<1>6. d # o /\ d \in Named(g0, {"userdata"})
  BY <1>1, <1>4, <1>5 DEF Named
<1>7. \A lo, hi : Clear(g, o, d, lo, hi) => Clear(g0, o, d, lo, hi)
  BY <1>2 DEF Clear
<1>8. Joins(g0, o, d, m[d].lo, m[d].hi)
  BY <1>1, <1>2, <1>7 DEF Joins
<1>9. QED
  BY <1>1, <1>3, <1>4, <1>6, <1>8 DEF MergedFrom

\* The table goes from one that rmOP can have made to another when the one in
\* memory is written.
LEMMA WrittenHist ==
  ASSUME RmInv, HistInv, pc = "writegpt", gpt' \in {gpt, new}, gpt0' = gpt0
  PROVE  HistInv'
<1>1. CASE gpt' = gpt
  BY <1>1 DEF HistInv
<1>2. CASE gpt' = new /\ ~Sound(gpt0)
  BY <1>2 DEF HistInv
<1>3. CASE gpt' = new /\ Sound(gpt0)
  <2>1. gpt0 \in Gpts /\ Sound(gpt0) /\ op \in Named(gpt, Hidden)
    BY <1>3 DEF HistInv, RmInv, FlightInv
  <2>2. Like(gpt0, gpt)
    BY <1>3, <2>1, NoneHidden DEF HistInv
  <2>3. CASE mode = "merge"
    <3>1. MergedFrom(gpt, new, op, data)
      BY <2>3 DEF RmInv, FlightInv
    <3>2. MergedFrom(gpt0, new, op, data)
      BY <2>1, <2>2, <3>1, MergeLike
    <3>3. op \in Slots /\ data \in Slots
      BY <3>1 DEF MergedFrom, Named
    <3>4. QED
      BY <1>3, <2>1, <3>2, <3>3 DEF HistInv
  <2>4. CASE mode # "merge"
    <3>1. RenamedFrom(gpt, new, op)
      BY <2>4 DEF RmInv, FlightInv
    <3>2. Like(gpt0, new)
      BY <2>2, <3>1 DEF Like, RenamedFrom, Named
    <3>3. QED
      BY <1>3, <2>1, <3>2 DEF HistInv
  <2>5. QED
    BY <2>3, <2>4
<1>4. QED
  BY <1>1, <1>2, <1>3

LEMMA SameHist ==
  ASSUME HistInv, UNCHANGED <<gpt, gpt0>>
  PROVE  HistInv'
BY DEF HistInv

LEMMA StepHist ==
  ASSUME RmInv, HistInv, Step
  PROVE  HistInv'
<1>1. CASE WriteGpt
  BY <1>1, WrittenHist DEF WriteGpt, Goto, envVars
<1>2. CASE WriteGptFails
  <2>1. gpt' \in {gpt, new} /\ gpt0' = gpt0 /\ pc = "writegpt"
    BY <1>2, CutShortIs DEF WriteGptFails, envVars, RmInv, RmTypeOK
  <2>2. QED
    BY <2>1, WrittenHist
<1>3. CASE ~WriteGpt /\ ~WriteGptFails
  <2>1. CASE FindOP \/ FindData \/ Rename \/ Confirm
    BY <2>1, SameHist DEF FindOP, FindData, Rename, Confirm, Goto, Exit, envVars
  <2>2. CASE Merge
    BY <2>2, SameHist DEF Merge, Goto, Exit, envVars
  <2>3. CASE MountCust \/ ReadCfg \/ ReadCfgWithoutSize \/ RemountCust \/ UmountCust
    BY <2>3, SameHist DEF MountCust, ReadCfg, ReadCfgWithoutSize, RemountCust,
                          UmountCust, Goto, Exit, envVars
  <2>4. CASE CreatTmp \/ WriteTmp \/ RenameCfg \/ LinkTmp
    BY <2>4, SameHist DEF CreatTmp, WriteTmp, RenameCfg, LinkTmp, FileStep, Goto, envVars
  <2>5. CASE Discard \/ ReloadTable \/ SystemCallFails
    BY <2>5, SameHist DEF Discard, ReloadTable, SystemCallFails, Exit, Goto, envVars
  <2>6. QED
    BY <1>3, <2>1, <2>2, <2>3, <2>4, <2>5 DEF Step
<1>4. QED
  BY <1>1, <1>2, <1>3

\* What fix_gpts() writes is where the history starts anew.
LEMMA RestoredHist ==
  ASSUME RunInv, HistInv, NEW d, Restored(d) \/ RestoredInPart(d)
  PROVE  HistInv'
<1>1. AdjustOP(kdz, opsz) \in Gpts /\ copies \in CopyStates
  BY AdjustType DEF RunInv, TypeOK, RmTypeOK
<1>2. \/ gpt' = gpt /\ gpt0' = gpt0
      \/ gpt' = AdjustOP(kdz, opsz) /\ gpt0' = gpt'
  BY <1>1, CutShortIs DEF Restored, RestoredInPart
<1>3. CASE gpt' = gpt /\ gpt0' = gpt0
  BY <1>3, SameHist
<1>4. CASE gpt' = AdjustOP(kdz, opsz) /\ gpt0' = gpt'
  BY <1>1, <1>4 DEF HistInv, Like
<1>5. QED
  BY <1>2, <1>3, <1>4

LEMMA NextHist == RunInv /\ HistInv /\ [Next]_vars => HistInv'
<1> SUFFICES ASSUME RunInv, HistInv, [Next]_vars PROVE HistInv'
  OBVIOUS
<1>1. RmInv /\ copies \in CopyStates
  BY DEF RunInv, RmInv, TypeOK, RmTypeOK
<1>2. CASE RmStart
  BY <1>2, SameHist DEF RmStart, ByRmOP, Start, StartWithoutDevice, Exit, envVars
<1>3. CASE ByRmOP(Step)
  BY <1>1, <1>3, StepHist DEF ByRmOP
<1>4. CASE ByRmOP(Kill)
  <2>1. gpt' = gpt \/ (pc = "writegpt" /\ gpt' \in {gpt, new})
    BY <1>1, <1>4, InterruptedIs DEF ByRmOP, Kill
  <2>2. gpt0' = gpt0
    BY <1>4 DEF ByRmOP, Kill, envVars
  <2>3. QED
    BY <1>1, <2>1, <2>2, SameHist, WrittenHist
<1>5. CASE (Journal \/ WriteBack) /\ UNCHANGED kVars
  BY <1>5, SameHist DEF Journal, WriteBack, envVars
<1>6. CASE Restart
  <2>1. gpt' = gpt \/ (pc = "writegpt" /\ gpt' \in {gpt, new})
    BY <1>1, <1>6, InterruptedIs DEF Restart, Reboot
  <2>2. gpt0' = gpt0
    BY <1>6 DEF Restart, Reboot, envVars
  <2>3. QED
    BY <1>1, <2>1, <2>2, SameHist, WrittenHist
<1>7. CASE KStep \/ KKill \/ \E sim \in BOOLEAN : KStart(sim)
  <2>1. CASE KWriteGpt
    BY <2>1, RestoredHist DEF KWriteGpt
  <2>2. CASE KFails \/ KKill
    BY <2>2, RestoredHist, SameHist DEF KFails, KKill, InDevice
  <2>3. CASE ~KWriteGpt /\ ~KFails /\ ~KKill
    <3>1. UNCHANGED <<gpt, gpt0>>
      BY <1>7, <2>3 DEF KStep, KStart, NoByName, KMount, KReadCfg, KCfgFails,
                        KSimulate, KReload, KDone, rmVars, envVars
    <3>2. QED
      BY <3>1, SameHist
  <2>4. QED
    BY <2>1, <2>2, <2>3
<1>8. CASE UNCHANGED vars
  BY <1>8, SameHist DEF vars, rmVars, envVars
<1>9. QED
  BY <1>2, <1>3, <1>4, <1>5, <1>6, <1>7, <1>8 DEF Next

LEMMA InitHist == FixInit => HistInv
BY RmOPAssumption DEF FixInit, Init, HistInv, Like

LEMMA LikeKept ==
  ASSUME Like(gpt0, gpt)
  PROVE  SlicesKept
<1>1. ASSUME NEW s \in Slots PROVE Blocks(gpt[s]) = Blocks(gpt0[s])
  BY DEF Like, Named, Hidden, Blocks
<1>2. \A s, t \in Slots :
        s # t /\ Blocks(gpt0[s]) \cap Blocks(gpt0[t]) = {}
          => Blocks(gpt[s]) \cap Blocks(gpt[t]) = {}
  BY <1>1
<1>3. ASSUME NEW s \in Slots
      PROVE  CASE gpt0[s].name = "userdata" ->
                    /\ gpt[s].name = "userdata"
                    /\ Blocks(gpt0[s]) \subseteq Blocks(gpt[s])
               [] gpt0[s].name \in {"OP", "XOPX"} ->
                    Blocks(gpt0[s]) \subseteq
                      Blocks(gpt[s]) \cup UNION {Blocks(gpt[d]) : d \in Named(gpt, {"userdata"})}
               [] OTHER -> gpt[s] = gpt0[s]
  <2>1. gpt0[s].name \notin {"OP", "XOPX"} => gpt[s] = gpt0[s]
    BY DEF Like, Named, Hidden
  <2>2. QED
    BY <1>1, <2>1
<1>4. QED
  BY <1>2, <1>3 DEF SlicesKept

\* The slice of userdata that has taken over OP covers both and, of the slices
\* apart from both, none.
LEMMA JoinsIs ==
  ASSUME NEW g \in Gpts, Sound(g), NEW o \in Slots, NEW d \in Slots,
         o \in Named(g, Hidden), d \in Named(g, {"userdata"}),
         NEW lo, NEW hi, Joins(g, o, d, lo, hi)
  PROVE  /\ lo \in Int /\ hi \in Int
         /\ Blocks(g[d]) \cup Blocks(g[o]) \subseteq lo .. hi
         /\ \A s \in Slots \ {o, d} :
              /\ Blocks(g[s]) \cap Blocks(g[d]) = {}
              /\ Blocks(g[s]) \cap (lo .. hi) = {}
<1>1. /\ g[o].name \in Hidden /\ g[d].name = "userdata" /\ o # d
      /\ g[o].name # "" /\ g[d].name # ""
  BY DEF Named, Hidden
<1>2. /\ g[o].lo \in Int /\ g[o].hi \in Int /\ g[d].lo \in Int /\ g[d].hi \in Int
      /\ g[o].lo <= g[o].hi /\ g[d].lo <= g[d].hi
  <2>1. \A s \in Slots : g[s].lo \in Int /\ g[s].hi \in Int
    BY SliceType, RmOPAssumption
  <2>2. QED
    BY <1>1, <2>1, SoundIs
<1>3. Blocks(g[o]) = g[o].lo .. g[o].hi /\ Blocks(g[d]) = g[d].lo .. g[d].hi
  BY <1>1 DEF Blocks
<1>4. \/ Blocks(g[o]) \cap Blocks(g[d]) = {}
      \/ g[o].lo = g[d].lo /\ g[o].hi <= g[d].hi
  <2>1. ASSUME NEW a \in {o, d}, NEW b \in {o, d},
               a \in Named(g, Hidden), b \in Named(g, {"userdata"})
        PROVE  a = o /\ b = d
    BY <2>1, SoundIs
  <2>2. ASSUME Blocks(g[o]) \cap Blocks(g[d]) # {}
        PROVE  g[o].lo = g[d].lo /\ g[o].hi <= g[d].hi
    <3>1. ASSUME NEW a \in {o, d}, NEW b \in {o, d},
                 a \in Named(g, Hidden), b \in Named(g, {"userdata"}),
                 g[a].lo = g[b].lo, g[a].hi <= g[b].hi
          PROVE  g[o].lo = g[d].lo /\ g[o].hi <= g[d].hi
      BY <2>1, <3>1
    <3>2. o # d
      BY <1>1
    <3>3. \E a, b \in {o, d} :
            /\ a \in Named(g, Hidden) /\ b \in Named(g, {"userdata"})
            /\ g[a].lo = g[b].lo /\ g[a].hi <= g[b].hi
      BY <2>2, <3>2, OverlapIs
    <3>4. QED
      BY <3>1, <3>3
  <2>3. QED
    BY <2>2
<1>5. \/ g[o].hi < g[d].lo
      \/ g[d].hi < g[o].lo
      \/ g[o].lo = g[d].lo /\ g[o].hi <= g[d].hi
  <2>1. CASE g[o].lo < g[d].lo /\ g[o].hi >= g[d].lo
    <3>1. g[d].lo \in Blocks(g[o]) \cap Blocks(g[d])
      BY <1>2, <1>3, <2>1
    <3>2. QED
      BY <1>2, <1>4, <2>1, <3>1
  <2>2. CASE g[d].lo <= g[o].lo /\ g[d].hi >= g[o].lo
    <3>1. g[o].lo \in Blocks(g[o]) \cap Blocks(g[d])
      BY <1>2, <1>3, <2>2
    <3>2. QED
      BY <1>4, <3>1
  <2>3. QED
    BY <1>2, <2>1, <2>2
<1>6. ASSUME NEW s \in Slots \ {o, d}
      PROVE  Blocks(g[s]) \cap Blocks(g[d]) = {} /\ Blocks(g[s]) \cap Blocks(g[o]) = {}
  <2>1. s \notin Named(g, Hidden) /\ s \notin Named(g, {"userdata"})
    BY SoundIs
  <2>2. ASSUME NEW v \in {o, d} PROVE Blocks(g[s]) \cap Blocks(g[v]) = {}
    <3>1. s \in Slots /\ v \in Slots /\ s # v
      OBVIOUS
    <3>2. v \in Named(g, Hidden) => v \notin Named(g, {"userdata"})
      BY DEF Named, Hidden
    <3>3. ASSUME NEW a \in {s, v}, NEW b \in {s, v},
                 a \in Named(g, Hidden), b \in Named(g, {"userdata"})
          PROVE  FALSE
      BY <2>1, <3>2, <3>3
    <3>4. QED
      BY <3>1, <3>3, OverlapIs
  <2>3. QED
    BY <2>2
<1>7. ASSUME NEW s \in Slots \ {o, d}, g[s].name # ""
      PROVE  /\ g[s].lo \in Int /\ g[s].hi \in Int /\ g[s].lo <= g[s].hi
             /\ Blocks(g[s]) = g[s].lo .. g[s].hi
  <2>1. s \in Slots /\ g[s].lo \in Int /\ g[s].hi \in Int
    BY SliceType, RmOPAssumption
  <2>2. QED
    BY <1>7, <2>1, SoundIs DEF Blocks
<1>8. ASSUME NEW s \in Slots \ {o, d}, g[s].name = ""
      PROVE  Blocks(g[s]) = {}
  BY <1>8 DEF Blocks
<1>9. /\ lo \in Int /\ hi \in Int
      /\ lo <= g[d].lo /\ g[d].hi <= hi /\ lo <= g[o].lo /\ g[o].hi <= hi
  BY <1>2, <1>5 DEF Joins
<1>10. Blocks(g[d]) \cup Blocks(g[o]) \subseteq lo .. hi
  BY <1>2, <1>3, <1>9
<1>11. \/ Clear(g, o, d, lo, hi)
       \/ \A x \in lo .. hi : x \in Blocks(g[d]) \cup Blocks(g[o])
  BY <1>2, <1>3 DEF Joins
<1>12. ASSUME NEW s \in Slots \ {o, d}, NEW x \in Blocks(g[s]), x \in lo .. hi
       PROVE  FALSE
  <2>1. g[s].name # ""
    BY <1>8, <1>12
  <2>2. /\ g[s].lo \in Int /\ g[s].hi \in Int /\ x \in Int
        /\ g[s].lo <= x /\ x <= g[s].hi /\ lo <= x /\ x <= hi
    <3>1. /\ g[s].lo \in Int /\ g[s].hi \in Int
          /\ x \in g[s].lo .. g[s].hi /\ x \in lo .. hi
      BY <1>7, <1>12, <2>1
    <3>2. QED
      BY <1>9, <3>1
  <2>3. CASE Clear(g, o, d, lo, hi)
    <3>1. g[s].lo \notin lo .. hi /\ g[s].hi \notin lo .. hi
      BY <2>3 DEF Clear
    <3>2. g[s].lo < lo /\ g[s].hi > hi
      BY <1>9, <2>2, <3>1
    <3>3. g[d].lo \in Blocks(g[s]) \cap Blocks(g[d])
      <4>1. g[d].lo \in g[s].lo .. g[s].hi
        BY <1>2, <1>9, <2>2, <3>2
      <4>2. g[d].lo \in g[d].lo .. g[d].hi
        BY <1>2
      <4>3. QED
        BY <1>3, <1>7, <2>1, <4>1, <4>2
    <3>4. QED
      BY <1>6, <3>3
  <2>4. CASE x \in Blocks(g[d]) \cup Blocks(g[o])
    BY <1>6, <1>12, <2>4
  <2>5. QED
    BY <1>11, <1>12, <2>3, <2>4
<1>13. QED
  BY <1>6, <1>9, <1>10, <1>12

LEMMA MergedKept ==
  ASSUME gpt0 \in Gpts, Sound(gpt0), NEW o \in Slots, NEW d \in Slots,
         MergedFrom(gpt0, gpt, o, d)
  PROVE  SlicesKept
<1>1. /\ o \in Named(gpt0, Hidden) /\ d \in Named(gpt0, {"userdata"})
      /\ gpt[o] = NoSlice /\ gpt[d].name = "userdata"
      /\ Joins(gpt0, o, d, gpt[d].lo, gpt[d].hi)
      /\ \A s \in Slots \ {o, d} : gpt[s] = gpt0[s]
  BY DEF MergedFrom
<1>2. /\ Blocks(gpt0[d]) \cup Blocks(gpt0[o]) \subseteq gpt[d].lo .. gpt[d].hi
      /\ \A s \in Slots \ {o, d} :
              Blocks(gpt0[s]) \cap (gpt[d].lo .. gpt[d].hi) = {}
  BY <1>1, JoinsIs
<1>3. Blocks(gpt[d]) = gpt[d].lo .. gpt[d].hi
  BY <1>1 DEF Blocks
<1>4. Blocks(gpt[o]) = {}
  <2>1. NoSlice.name = ""
    BY DEF NoSlice
  <2>2. QED
    BY <1>1, <2>1 DEF Blocks
<1>5. o # d
  BY <1>1 DEF Named, Hidden
<1>6. ASSUME NEW s \in Slots, NEW t \in Slots, s # t,
             Blocks(gpt0[s]) \cap Blocks(gpt0[t]) = {}
      PROVE  Blocks(gpt[s]) \cap Blocks(gpt[t]) = {}
  <2>1. CASE s = o \/ t = o
    BY <1>4, <2>1
  <2>2. CASE s # o /\ t # o /\ s = d
    BY <1>1, <1>2, <1>3, <1>6, <2>2
  <2>3. CASE s # o /\ t # o /\ t = d
    BY <1>1, <1>2, <1>3, <1>6, <2>3
  <2>4. CASE s \notin {o, d} /\ t \notin {o, d}
    BY <1>1, <1>6, <2>4
  <2>5. QED
    BY <2>1, <2>2, <2>3, <2>4
<1>7. ASSUME NEW s \in Slots
      PROVE  CASE gpt0[s].name = "userdata" ->
                    /\ gpt[s].name = "userdata"
                    /\ Blocks(gpt0[s]) \subseteq Blocks(gpt[s])
               [] gpt0[s].name \in {"OP", "XOPX"} ->
                    Blocks(gpt0[s]) \subseteq
                      Blocks(gpt[s]) \cup UNION {Blocks(gpt[e]) : e \in Named(gpt, {"userdata"})}
               [] OTHER -> gpt[s] = gpt0[s]
  <2>1. CASE s = d
    BY <1>1, <1>2, <1>3, <2>1 DEF Named
  <2>2. CASE s = o
    <3>1. gpt0[s].name \in {"OP", "XOPX"}
      BY <1>1, <2>2 DEF Named, Hidden
    <3>2. d \in Named(gpt, {"userdata"})
      BY <1>1 DEF Named
    <3>3. Blocks(gpt[d]) \in {Blocks(gpt[e]) : e \in Named(gpt, {"userdata"})}
      BY <3>2
    <3>4. Blocks(gpt0[s]) \subseteq UNION {Blocks(gpt[e]) : e \in Named(gpt, {"userdata"})}
      BY <1>2, <1>3, <2>2, <3>3
    <3>5. QED
      BY <3>1, <3>4
  <2>3. CASE s \notin {o, d}
    <3>1. gpt[s] = gpt0[s]
      BY <1>1, <2>3
    <3>2. QED
      BY <3>1
  <2>4. QED
    BY <2>1, <2>2, <2>3
<1>8. QED
  BY <1>6, <1>7 DEF SlicesKept

\* On a phone whose slices were sound, however often rmOP hides, shows or frees OP
\* and wherever it is interrupted, as long as there is a table, in either copy:
\* userdata has all its blocks and OP's are OP's or userdata's; the other slices
\* are as they were, and no two that were apart overlap.
THEOREM SlicesSafe == Spec => []SlicesKept
<1>1. HistInv => SlicesKept
  <2> SUFFICES ASSUME HistInv, Sound(gpt0) PROVE SlicesKept
    BY DEF SlicesKept
  <2>1. QED
    BY LikeKept, MergedKept DEF HistInv
<1>2. QED
  BY InitRun, NextRun, InitHist, NextHist, <1>1, PTL DEF Spec

------------------------------------------------------------------------------
(* What fix_gpts() writes, and what test_kdzfile() says to it. *)

LEMMA UserIs ==
  ASSUME NEW g, Sound(g), NEW u \in Named(g, {"userdata"})
  PROVE  UserBlocks(g) = Blocks(g[u])
<1>1. \A s \in Named(g, {"userdata"}) : s = u
  BY SoundIs
<1>2. Named(g, {"userdata"}) = {u}
  BY <1>1
<1>3. QED
  BY <1>2 DEF UserBlocks

LEMMA OpIs ==
  ASSUME NEW g, Sound(g), NEW j \in Slots, NEW o, o = Blocks(g[j]),
         \/ g[j].name = "OP"
         \/ Named(g, {"OP"}) = {} /\ o = {}
  PROVE  OpBlocks(g) = o
<1>1. CASE g[j].name = "OP"
  <2>1. ASSUME NEW s \in Named(g, {"OP"}) PROVE s = j
    <3>1. s \in Named(g, Hidden) /\ j \in Named(g, Hidden)
      BY <1>1 DEF Named, Hidden
    <3>2. QED
      BY <3>1, SoundIs
  <2>2. Named(g, {"OP"}) = {j}
    BY <1>1, <2>1 DEF Named
  <2>3. QED
    BY <2>2 DEF OpBlocks
<1>2. CASE Named(g, {"OP"}) = {} /\ o = {}
  BY <1>2 DEF OpBlocks
<1>3. QED
  BY <1>1, <1>2

LEMMA AdjustKeeps ==
  ASSUME NEW k \in KdzGpts, NEW size \in FitSizes(k), NEW a, a = AdjustOP(k, size)
  PROVE  UserBlocks(a) \cup OpBlocks(a) = UserBlocks(k) \cup OpBlocks(k)
<1>1. CASE a = k
  BY <1>1
<1>2. ASSUME NEW j \in Slots, NEW u \in Slots, Adjusts(k, j, u)
      PROVE  UserBlocks(a) \cup OpBlocks(a) = UserBlocks(k) \cup OpBlocks(k)
  <2>1. /\ \A s \in Slots \ {j, u} : a[s] = k[s]
        /\ a[u].name = "userdata"
        /\ a[j] = NoSlice \/ a[j].name = "OP"
        /\ Blocks(a[u]) \cup Blocks(a[j]) = Blocks(k[u]) \cup Blocks(k[j])
        /\ k[j].name = "OP" /\ k[u].name = "userdata" /\ j # u
    BY <1>2, BorderMoved
  <2>2. Sound(k) /\ Sound(a)
    BY AdjustSound, FixGptsAssumption
  <2>3. UserBlocks(a) = Blocks(a[u]) /\ UserBlocks(k) = Blocks(k[u])
    <3>1. u \in Named(a, {"userdata"}) /\ u \in Named(k, {"userdata"})
      BY <2>1 DEF Named
    <3>2. QED
      BY <2>2, <3>1, UserIs
  <2>4. OpBlocks(k) = Blocks(k[j])
    BY <2>1, <2>2, OpIs
  <2>5. OpBlocks(a) = Blocks(a[j])
    <3>1. CASE a[j].name = "OP"
      BY <2>2, <3>1, OpIs
    <3>2. CASE a[j] = NoSlice
      <4>1. NoSlice.name = ""
        BY DEF NoSlice
      <4>2. Blocks(a[j]) = {}
        BY <3>2, <4>1 DEF Blocks
      <4>3. ASSUME NEW s \in Slots, a[s].name = "OP" PROVE FALSE
        <5>1. s # j /\ s # u
          BY <2>1, <3>2, <4>1, <4>3
        <5>2. s \in Named(k, Hidden) /\ j \in Named(k, Hidden)
          BY <2>1, <4>3, <5>1 DEF Named, Hidden
        <5>3. QED
          BY <2>2, <5>1, <5>2, SoundIs
      <4>4. Named(a, {"OP"}) = {}
        BY <4>3 DEF Named
      <4>5. QED
        BY <2>2, <4>2, <4>4, OpIs
    <3>3. QED
      BY <2>1, <3>1, <3>2
  <2>6. QED
    BY <2>1, <2>3, <2>4, <2>5
<1>3. QED
  BY <1>1, <1>2, AdjustIs

LEMMA GptRestored ==
  ASSUME RunInv, [Next]_vars, kpc # "idle", gpt' # gpt
  PROVE  /\ gpt' = AdjustOP(kdz, opsz) /\ kdz \in KdzGpts /\ opsz \in Sizes
<1>1. kdz \in KdzGpts /\ opsz \in Sizes /\ copies \in CopyStates /\ pc = "idle"
  BY DEF RunInv, TypeOK, RmTypeOK
<1>2. ASSUME NEW d, Restored(d) \/ RestoredInPart(d)
      PROVE  gpt' = AdjustOP(kdz, opsz)
  BY <1>1, <1>2, CutShortIs DEF Restored, RestoredInPart
<1>3. KWriteGpt \/ KFails \/ KKill
  BY DEF Next, RmStart, ByRmOP, Journal, WriteBack, KStep, KStart, NoByName,
         KMount, KReadCfg, KCfgFails, KSimulate, KReload, KDone, Restart, rmVars, vars
<1>4. QED
  BY <1>1, <1>2, <1>3 DEF KWriteGpt, KFails, KKill, InDevice

\* Whatever size is read: the table that fix_gpts() writes has the KDZ's slices
\* but for OP and userdata.  When the size leaves some of userdata, none overlaps
\* another, and the blocks of OP and userdata are those they have in the KDZ, none
\* lost and none in both.
THEOREM RestoresTable == Spec => RestoredTable
<1>1. RunInv /\ [Next]_vars =>
        [kpc = "device" /\ gpt' # gpt =>
           /\ \A s \in Slots : kdz[s].name \notin {"OP", "userdata"} => gpt'[s] = kdz[s]
           /\ Fitting(kdz, opsz) =>
                /\ \A s, t \in Slots : s # t => Blocks(gpt'[s]) \cap Blocks(gpt'[t]) = {}
                /\ UserBlocks(gpt') \cup OpBlocks(gpt') = UserBlocks(kdz) \cup OpBlocks(kdz)
        ]_vars
  <2> SUFFICES ASSUME RunInv, [Next]_vars, kpc = "device", gpt' # gpt
               PROVE  /\ \A s \in Slots : kdz[s].name \notin {"OP", "userdata"}
                                            => gpt'[s] = kdz[s]
                      /\ Fitting(kdz, opsz) =>
                           /\ Apart(gpt')
                           /\ UserBlocks(gpt') \cup OpBlocks(gpt')
                                = UserBlocks(kdz) \cup OpBlocks(kdz)
    BY DEF Apart
  <2>1. gpt' = AdjustOP(kdz, opsz) /\ kdz \in KdzGpts /\ opsz \in Sizes
    BY GptRestored
  <2>2. \A s \in Slots : kdz[s].name \notin {"OP", "userdata"} => gpt'[s] = kdz[s]
    BY <2>1, AdjustType
  <2>3. ASSUME Fitting(kdz, opsz)
        PROVE  /\ Apart(gpt')
               /\ UserBlocks(gpt') \cup OpBlocks(gpt') = UserBlocks(kdz) \cup OpBlocks(kdz)
    <3>1. opsz # Crumbs
      BY <2>3 DEF Fitting
    <3>2. opsz \in FitSizes(kdz)
      BY <2>1, <2>3, <3>1, RmOPAssumption DEF FitSizes, Sizes, Crumbs
    <3>3. QED
      BY <2>1, <3>2, AdjustSound, AdjustKeeps
  <2>4. QED
    BY <2>2, <2>3
<1>2. QED
  BY InitRun, NextRun, <1>1, PTL DEF Spec, RestoredTable

\* test_kdzfile() compares the slices before the last, except those whose names
\* in the KDZ say that they may change.
LEMMA MatchesIs ==
  ASSUME NEW k \in Gpts, NEW g \in Gpts
  PROVE  Matches(k, g) <=>
           \A s \in 1 .. NSlots - 1 :
             \/ k[s].name \in KT!Ignored
             \/ g[s].name = k[s].name /\ g[s].lo = k[s].lo /\ g[s].hi = k[s].hi
<1>1. Len(AsTable(g).entries) = NSlots
  BY RmOPAssumption DEF AsTable, Slots
<1>2. KT!Compared(AsTable(g)) = 1 .. NSlots - 1 /\ 1 .. NSlots - 1 \subseteq Slots
  BY <1>1, RmOPAssumption DEF KT!Compared, Slots
<1>3. ~KT!HeadFails(AsTable(k), AsTable(g))
  BY DEF KT!HeadFails, AsTable
<1> DEFINE entry(t, s) ==
             [name |-> t[s].name, lo |-> t[s].lo, hi |-> t[s].hi, flags |-> 0,
              type |-> IF t[s].name = "" THEN 0 ELSE 1, id |-> IF t[s].name = "" THEN 0 ELSE s]
           same(s) == g[s].name = k[s].name /\ g[s].lo = k[s].lo /\ g[s].hi = k[s].hi
<1>4. \A s \in Slots : AsTable(k).entries[s] = entry(k, s) /\ AsTable(g).entries[s] = entry(g, s)
  BY DEF AsTable
<1>5. ASSUME NEW s \in Slots
      PROVE  /\ KT!EntryFails(entry(k, s), entry(g, s)) <=>
                  k[s].name \notin KT!Ignored /\ ~same(s)
             /\ KT!IdDiffers(entry(k, s), entry(g, s), 0) => ~same(s)
             /\ KT!IdDiffers(entry(k, s), entry(g, s), 0) => k[s].name \notin KT!Ignored
  BY DEF KT!EntryFails, KT!IdDiffers, KT!Skipped
<1> HIDE DEF entry
<1>6. (\E s \in 1 .. NSlots - 1 : KT!EntryFails(entry(k, s), entry(g, s)))
        <=> ~ \A s \in 1 .. NSlots - 1 : k[s].name \in KT!Ignored \/ same(s)
  BY <1>2, <1>5
<1>7. (\A s \in 1 .. NSlots - 1 : k[s].name \in KT!Ignored \/ same(s))
        => ~ \E s \in 1 .. NSlots - 1 : KT!IdDiffers(entry(k, s), entry(g, s), 0)
  BY <1>2, <1>5
<1>8. Matches(k, g) <=>
        /\ ~ \E s \in 1 .. NSlots - 1 : KT!EntryFails(entry(k, s), entry(g, s))
        /\ ~ \E s \in 1 .. NSlots - 1 : KT!IdDiffers(entry(k, s), entry(g, s), 0)
  BY <1>2, <1>3, <1>4 DEF Matches, KT!TableVerdict
<1>9. QED
  BY <1>6, <1>7, <1>8

\* Where a table has been cut short.
Cut ==
  \/ pc = "writegpt" /\ pc' = "idle"
  \/ kpc = "device" /\ kpc' = "idle" /\ ~simulate

\* The steps that change a table.
LEMMA TableSteps ==
  ASSUME RunInv, [Next]_vars, <<gpt, copies, other>>' # <<gpt, copies, other>>
  PROVE  /\ gpt' # gpt /\ kpc = "idle" => pc = "writegpt" /\ gpt' = new
         /\ \/ Cut
            \/ copies' = "both" /\ other' = other
            \/ copies' = copies /\ other' = "kdz"
<1> DEFINE R == /\ gpt' # gpt /\ kpc = "idle" => pc = "writegpt" /\ gpt' = new
                /\ \/ Cut
                   \/ copies' = "both" /\ other' = other
                   \/ copies' = copies /\ other' = "kdz"
<1> SUFFICES R
  OBVIOUS
<1>1. copies \in CopyStates /\ (kpc # "idle" => pc = "idle")
  BY DEF RunInv, TypeOK, RmTypeOK
<1>2. CASE \/ RmStart
           \/ (Journal \/ WriteBack) /\ UNCHANGED kVars
           \/ UNCHANGED vars
  BY <1>2 DEF RmStart, ByRmOP, Start, StartWithoutDevice, Exit, Journal, WriteBack,
              vars, rmVars, kVars
<1>3. ASSUME Interrupted, pc' = "idle", other' = other, kpc = "idle" PROVE R
  BY <1>1, <1>3, InterruptedIs DEF Cut
<1>4. CASE ByRmOP(Kill)
  BY <1>3, <1>4 DEF ByRmOP, Kill, Gone
<1>5. CASE Restart
  BY <1>3, <1>5 DEF Restart, Reboot, Gone, kVars
<1>6. CASE ByRmOP(Step)
  <2>1. Step /\ other' = other /\ kpc = "idle"
    BY <1>6 DEF ByRmOP
  <2>2. CASE FindOP \/ FindData \/ Rename \/ Confirm
    BY <2>1, <2>2 DEF FindOP, FindData, Rename, Confirm, Exit
  <2>3. CASE Merge
    BY <2>1, <2>3 DEF Merge, Exit
  <2>4. CASE MountCust \/ ReadCfg \/ ReadCfgWithoutSize \/ RemountCust \/ UmountCust
    BY <2>1, <2>4 DEF MountCust, ReadCfg, ReadCfgWithoutSize, RemountCust, UmountCust, Exit
  <2>5. CASE CreatTmp \/ WriteTmp \/ RenameCfg \/ LinkTmp
    BY <2>1, <2>5 DEF CreatTmp, WriteTmp, RenameCfg, LinkTmp, FileStep
  <2>6. CASE Discard \/ ReloadTable \/ SystemCallFails
    BY <2>1, <2>6 DEF Discard, ReloadTable, SystemCallFails, Exit
  <2>7. CASE WriteGpt
    BY <2>1, <2>7 DEF WriteGpt
  <2>8. CASE WriteGptFails
    BY <1>1, <2>1, <2>8, CutShortIs DEF WriteGptFails, Gone, Cut
  <2>9. QED
    BY <2>1, <2>2, <2>3, <2>4, <2>5, <2>6, <2>7, <2>8 DEF Step
<1>7. CASE KStep \/ KKill \/ \E sim \in BOOLEAN : KStart(sim)
  <2>1. CASE KWriteGpt
    BY <2>1 DEF KWriteGpt, Restored
  <2>2. CASE KFails \/ KKill
    <3>1. kpc' = "idle" /\ kpc # "idle" /\ InDevice
      BY <2>2 DEF KFails, KKill, Return
    <3>2. QED
      BY <3>1 DEF InDevice, Cut
  <2>3. CASE ~KWriteGpt /\ ~KFails /\ ~KKill
    BY <1>7, <2>3 DEF KStep, KStart, NoByName, KMount, KReadCfg, KCfgFails,
                      KSimulate, KReload, KDone, rmVars
  <2>4. QED
    BY <2>1, <2>2, <2>3
<1> HIDE DEF R
<1>8. QED
  BY <1>2, <1>4, <1>5, <1>6, <1>7 DEF Next

LEMMA KdzStays ==
  ASSUME [Next]_vars
  PROVE  kdz' = kdz
BY DEF Next, RmStart, ByRmOP, KStep, KKill, KStart, NoByName, KMount, KReadCfg,
       KCfgFails, KWriteGpt, KSimulate, KReload, KFails, KDone, Restart, InDevice,
       kVars, vars

\* rmOP changes no slice that test_kdzfile() compares.
LEMMA WrittenAccepted ==
  ASSUME RmInv, kdz \in KdzGpts, pc = "writegpt", Matches(kdz, gpt)
  PROVE  Matches(kdz, new)
<1>1. /\ gpt \in Gpts /\ new \in Gpts /\ kdz \in Gpts /\ Named(kdz, {"XOPX"}) = {}
  BY FixGptsAssumption DEF RmInv, RmTypeOK
<1>2. /\ op \in Slots /\ gpt[op].name \in Hidden
      /\ data \in Slots /\ gpt[data].name = "userdata"
      /\ \A s \in Slots \ {op, data} : new[s] = gpt[s]
      /\ mode # "merge" => \A s \in Slots \ {op} : new[s] = gpt[s]
  BY DEF RmInv, FlightInv, MergedFrom, RenamedFrom, Named
<1>3. 1 .. NSlots - 1 \subseteq Slots
  BY RmOPAssumption DEF Slots
<1>4. ASSUME NEW s \in 1 .. NSlots - 1
      PROVE  \/ kdz[s].name \in KT!Ignored
             \/ new[s].name = kdz[s].name /\ new[s].lo = kdz[s].lo /\ new[s].hi = kdz[s].hi
  <2>1. \/ kdz[s].name \in KT!Ignored
        \/ gpt[s].name = kdz[s].name /\ gpt[s].lo = kdz[s].lo /\ gpt[s].hi = kdz[s].hi
    BY <1>1, MatchesIs
  <2>2. CASE s \notin {op, data}
    BY <1>2, <1>3, <2>1, <2>2
  <2>3. CASE s \in {op, data} /\ gpt[s].name = kdz[s].name
    <3>1. kdz[s].name \in {"OP", "XOPX", "userdata"} /\ kdz[s].name # "XOPX"
      BY <1>1, <1>2, <1>3, <2>3 DEF Named, Hidden
    <3>2. QED
      BY <3>1 DEF KT!Ignored
  <2>4. QED
    BY <2>1, <2>2, <2>3
<1>5. QED
  BY <1>1, <1>4, MatchesIs

LEMMA RestoredAccepted ==
  ASSUME NEW k \in KdzGpts, NEW size \in Sizes
  PROVE  Matches(k, AdjustOP(k, size))
<1>1. k \in Gpts /\ AdjustOP(k, size) \in Gpts
  BY AdjustType
<1>2. 1 .. NSlots - 1 \subseteq Slots
  BY RmOPAssumption DEF Slots
<1> DEFINE a == AdjustOP(k, size)
<1>3. \A s \in Slots : k[s].name \notin {"OP", "userdata"} => a[s] = k[s]
  BY AdjustType
<1> HIDE DEF a
<1>4. {"OP", "userdata"} \subseteq KT!Ignored
  BY DEF KT!Ignored
<1>5. \A s \in 1 .. NSlots - 1 :
        \/ k[s].name \in KT!Ignored
        \/ a[s].name = k[s].name /\ a[s].lo = k[s].lo /\ a[s].hi = k[s].hi
  BY <1>2, <1>3, <1>4
<1>6. QED
  BY <1>1, <1>5, MatchesIs DEF a

\* A KDZ file that matches a phone's table matches it whatever rmOP and fix_gpts()
\* then do, whatever sizes they read and wherever they are interrupted; and only
\* one of them being cut short while it writes a table makes "kdzwriter -P"
\* refuse a file that it accepted before.
THEOREM StaysAccepted == Spec => OnlyCutShortRefuses
<1>1. RunInv /\ [Next]_vars =>
        [<<gpt, copies, other>>' # <<gpt, copies, other>> =>
           /\ Matches(kdz, gpt) => Matches(kdz, gpt')
           /\ Accepts /\ ~Accepts' =>
                \/ pc = "writegpt" /\ pc' = "idle"
                \/ kpc = "device" /\ kpc' = "idle" /\ ~simulate]_vars
  <2> SUFFICES ASSUME RunInv, [Next]_vars,
                      <<gpt, copies, other>>' # <<gpt, copies, other>>
               PROVE  /\ Matches(kdz, gpt) => Matches(kdz, gpt')
                      /\ Accepts /\ ~Accepts' => Cut
    BY DEF Cut
  <2>1. ASSUME Matches(kdz, gpt) PROVE Matches(kdz, gpt')
    <3>1. CASE gpt' = gpt
      BY <2>1, <3>1
    <3>2. CASE gpt' # gpt /\ kpc # "idle"
      BY <3>2, GptRestored, RestoredAccepted
    <3>3. CASE gpt' # gpt /\ kpc = "idle"
      <4>1. pc = "writegpt" /\ gpt' = new
        BY <3>3, TableSteps
      <4>2. RmInv /\ kdz \in KdzGpts
        BY DEF RunInv, RmInv, TypeOK
      <4>3. QED
        BY <2>1, <4>1, <4>2, WrittenAccepted
    <3>4. QED
      BY <3>1, <3>2, <3>3
  <2>2. ASSUME Accepts, ~Cut PROVE Accepts'
    <3>1. Matches(kdz, gpt') /\ kdz' = kdz
      BY <2>1, <2>2, KdzStays DEF Accepts
    <3>2. copies' = "both" /\ other' # "cut"
      BY <2>2, TableSteps DEF Accepts
    <3>3. QED
      BY <3>1, <3>2 DEF Accepts
  <2>3. QED
    BY <2>1, <2>2
<1>2. QED
  BY InitRun, NextRun, <1>1, PTL DEF Spec, OnlyCutShortRefuses

LEMMA NextDeviceIs ==
  /\ NextDevice \in Devices
  /\ kdone \subseteq Devices /\ kdone # Devices => NextDevice \notin kdone
<1>1. CASE OpFirst
  BY <1>1 DEF NextDevice, Devices
<1>2. CASE ~OpFirst
  BY <1>2 DEF NextDevice, Devices
<1>3. QED
  BY <1>1, <1>2

LEMMA InitK == FixInit => KInv
BY DEF FixInit, KInv

\* fix_gpts() steps leave what it has done so far true.
LEMMA KStepK ==
  ASSUME RunInv, KInv, KStep \/ KKill \/ (\E sim \in BOOLEAN : KStart(sim))
  PROVE  KInv'
<1>1. /\ kdone \subseteq Devices /\ files \in Files
      /\ simulate \in BOOLEAN /\ kret \in BOOLEAN
  BY DEF RunInv, TypeOK, RmTypeOK
<1>2. kpc \in {"device", "rrpart"} /\ goesOn =>
        opsz = 0 \/ (mnt # "rw" /\ disk.cfg # "zeros")
  BY DEF KInv
<1>3. ASSUME kpc' = "idle" PROVE KInv'
  BY <1>3 DEF KInv
<1>4. CASE KKill \/ KCfgFails \/ KFails \/ KDone
  BY <1>3, <1>4 DEF KKill, KCfgFails, KFails, KDone, Return
<1>5. CASE \E sim \in BOOLEAN : KStart(sim)
  BY <1>5 DEF KStart, KInv
<1>6. CASE NoByName
  BY <1>6 DEF NoByName, KInv
<1>7. CASE KMount
  <2>1. /\ kpc = "mount" /\ kpc' = "readcfg" /\ kdone' = kdone /\ mnt' = "ro"
        /\ files' = Settle(files, "zeros") /\ disk' = files'
    BY <1>7 DEF KMount
  <2>2. files'.cfg # "dirty"
    BY <1>1, <2>1, SettleIs DEF Texts
  <2>3. QED
    BY <2>1, <2>2 DEF KInv
<1>8. CASE KReadCfg
  <2>1. /\ kpc = "readcfg" /\ kpc' = "device" /\ kdone' = kdone /\ mnt' \in {"no", mnt}
        /\ disk' = disk /\ opsz' \in SizeIn(files.cfg, goesOn')
    BY <1>8 DEF KReadCfg
  <2>2. disk.cfg = files.cfg /\ kdone = {} /\ mnt = "ro"
    BY <2>1 DEF KInv
  <2>3. goesOn' => opsz' = 0 \/ (mnt' # "rw" /\ disk'.cfg # "zeros")
    <3>1. SizeIn("zeros", TRUE) = {0}
      BY DEF SizeIn, Written
    <3>2. ASSUME goesOn', disk'.cfg = "zeros" PROVE opsz' = 0
      <4>1. opsz' \in SizeIn("zeros", goesOn') /\ goesOn' = TRUE
        BY <1>8, <2>1, <2>2, <3>2 DEF KReadCfg
      <4>2. QED
        BY <3>1, <4>1
    <3>3. QED
      BY <2>1, <2>2, <3>2
  <2>4. QED
    BY <2>1, <2>2, <2>3 DEF KInv
<1>9. CASE KWriteGpt
  <2>1. /\ kpc = "device" /\ kdone # Devices /\ ~simulate /\ kpc' = "rrpart"
        /\ UNCHANGED <<kern, mnt, disk, kdz, simulate, opsz, goesOn, kdone, kret>>
        /\ Restored(NextDevice)
    BY <1>9 DEF KWriteGpt
  <2>2. NextDevice \in Devices /\ NextDevice \notin kdone /\ NextDevice' = NextDevice
    <3>1. NextDevice' = NextDevice
      BY <2>1 DEF NextDevice
    <3>2. QED
      BY <1>1, <2>1, <3>1, NextDeviceIs
  <2>3. /\ "op" \in kdone => gpt = AdjustOP(kdz, opsz) /\ (kret => kern = gpt)
        /\ "other" \in kdone => other = "kdz"
    BY <2>1 DEF KInv
  <2>4. CASE NextDevice = "op"
    <3>1. gpt' = AdjustOP(kdz, opsz) /\ other' = other /\ "op" \notin kdone
      BY <2>1, <2>2, <2>4 DEF Restored
    <3>2. QED
      BY <1>2, <2>1, <2>2, <2>3, <2>4, <3>1 DEF KInv
  <2>5. CASE NextDevice # "op"
    <3>1. gpt' = gpt /\ other' = "kdz"
      BY <2>1, <2>5 DEF Restored
    <3>2. QED
      BY <1>2, <2>1, <2>2, <2>3, <2>5, <3>1 DEF KInv
  <2>6. QED
    BY <2>4, <2>5
<1>10. CASE KSimulate
  BY <1>2, <1>10 DEF KSimulate, KInv, rmVars
<1>11. CASE KReload
  <2>1. /\ kpc = "rrpart" /\ kpc' = "device"
        /\ UNCHANGED <<gpt, mnt, disk, kdz, other, simulate, opsz, goesOn>>
        /\ kdone' = kdone \cup {NextDevice}
    BY <1>11 DEF KReload
  <2>2. PICK ok \in BOOLEAN : /\ kret' = (kret /\ ok)
                              /\ kern' = IF ok /\ NextDevice = "op" THEN gpt ELSE kern
    BY <1>11 DEF KReload
  <2>3. /\ kdone # Devices /\ ~simulate
        /\ IF NextDevice = "op" THEN gpt = AdjustOP(kdz, opsz) ELSE other = "kdz"
        /\ "op" \in kdone => gpt = AdjustOP(kdz, opsz) /\ (kret => kern = gpt)
        /\ "other" \in kdone => other = "kdz"
    BY <2>1 DEF KInv
  <2>4. NextDevice \in Devices /\ NextDevice \notin kdone
    BY <1>1, <2>3, NextDeviceIs
  <2>5. "op" \in kdone' => gpt' = AdjustOP(kdz', opsz') /\ (kret' => kern' = gpt')
    <3>1. CASE NextDevice = "op"
      BY <2>1, <2>2, <2>3, <3>1
    <3>2. CASE NextDevice # "op"
      BY <2>1, <2>2, <2>3, <3>2
    <3>3. QED
      BY <3>1, <3>2
  <2>6. "other" \in kdone' => other' = "kdz"
    BY <2>1, <2>3, <2>4 DEF Devices
  <2>7. QED
    BY <1>2, <2>1, <2>5, <2>6 DEF KInv
<1>12. QED
  BY <1>4, <1>5, <1>6, <1>7, <1>8, <1>9, <1>10, <1>11 DEF KStep

LEMMA NextK == RunInv /\ KInv /\ [Next]_vars => KInv'
<1> SUFFICES ASSUME RunInv, KInv, [Next]_vars PROVE KInv'
  OBVIOUS
<1>1. ASSUME kpc' = "idle" PROVE KInv'
  BY <1>1 DEF KInv
<1>2. CASE RmStart \/ ByRmOP(Step) \/ ByRmOP(Kill)
  BY <1>1, <1>2 DEF RmStart, ByRmOP
<1>3. CASE Restart
  BY <1>1, <1>3 DEF Restart, kVars
<1>4. CASE Journal /\ UNCHANGED kVars
  <2>1. mnt = "rw" /\ UNCHANGED <<gpt, kern, files, mnt>>
    BY <1>4 DEF Journal
  <2>2. UNCHANGED <<kdz, other, kpc, simulate, opsz, goesOn, kdone, kret>>
    BY <1>4 DEF kVars
  <2>3. NextDevice' = NextDevice
    BY <2>2 DEF NextDevice
  <2>4. QED
    BY <2>1, <2>2, <2>3 DEF KInv
<1>5. CASE WriteBack /\ UNCHANGED kVars
  <2>1. UNCHANGED <<gpt, kern, disk, mnt>> /\ files' = Settle(files, "zeros")
    BY <1>5 DEF WriteBack
  <2>2. UNCHANGED <<kdz, other, kpc, simulate, opsz, goesOn, kdone, kret>>
    BY <1>5 DEF kVars
  <2>3. NextDevice' = NextDevice
    BY <2>2 DEF NextDevice
  <2>4. kpc = "readcfg" => disk'.cfg = files'.cfg /\ files'.cfg # "dirty"
    <3>1. files \in Files /\ "zeros" \in Texts
      BY DEF RunInv, TypeOK, RmTypeOK, Texts
    <3>2. QED
      BY <2>1, <3>1, SettleIs DEF KInv
  <2>5. QED
    BY <2>1, <2>2, <2>3, <2>4 DEF KInv
<1>6. CASE KStep \/ KKill \/ \E sim \in BOOLEAN : KStart(sim)
  BY <1>6, KStepK
<1>7. CASE UNCHANGED vars
  <2>1. UNCHANGED <<gpt, kern, files, disk, mnt, kdz, other, kpc, simulate, opsz,
                    goesOn, kdone, kret>>
    BY <1>7 DEF vars, rmVars, kVars
  <2>2. NextDevice' = NextDevice
    BY <2>1 DEF NextDevice
  <2>3. QED
    BY <2>1, <2>2 DEF KInv
<1>8. QED
  BY <1>2, <1>3, <1>4, <1>5, <1>6, <1>7 DEF Next

\* When fix_gpts() returns true, not having simulated, then every device of the
\* KDZ file has its table on the media, OP with the size from the cfg file, and
\* the kernel uses the table.
THEOREM TrueIsRestored == Spec => TrueMeansRestored
<1>1. RunInv /\ KInv /\ [Next]_vars =>
        [kres' = "true" /\ kres # "true" /\ ~simulate =>
           /\ gpt = AdjustOP(kdz, opsz) /\ kern = gpt
           /\ other = "kdz"]_vars
  <2> SUFFICES ASSUME KInv, [Next]_vars, kres' = "true", kres # "true", ~simulate
               PROVE  gpt = AdjustOP(kdz, opsz) /\ kern = gpt /\ other = "kdz"
    OBVIOUS
  <2>1. KDone
    BY DEF Next, RmStart, ByRmOP, KStep, KKill, KStart, NoByName, KMount, KReadCfg,
           KCfgFails, KWriteGpt, KSimulate, KReload, KFails, KDone, Return, Restart,
           InDevice, kVars, vars
  <2>2. kpc = "device" /\ kdone = Devices /\ kret
    BY <2>1 DEF KDone, Return
  <2>3. QED
    BY <2>2 DEF KInv, Devices
<1>2. QED
  BY InitRun, NextRun, InitK, NextK, <1>1, PTL DEF Spec, TrueMeansRestored

\* The table of a phone whose OP is gone, and the one that fix_gpts() makes of
\* the KDZ's without OP, have userdata at the same place.
LEMMA UserdataSame ==
  ASSUME NEW k \in KdzGpts, OpBeside(k), Fitting(k, OpSize),
         NEW size \in {OpSize, 0}, gpt0 = AdjustOP(k, size),
         HistInv, gpt \in Gpts, Named(gpt, Hidden) = {},
         NEW a, a = AdjustOP(k, 0)
  PROVE  UserBlocks(a) = UserBlocks(gpt)
<1>1. /\ size \in FitSizes(k) /\ 0 \in FitSizes(k)
      /\ Sound(k) /\ Sound(gpt0) /\ Sound(a)
      /\ a \in Gpts /\ k \in Gpts /\ Named(k, {"XOPX"}) = {}
  <2>1. size \in FitSizes(k) /\ 0 \in FitSizes(k)
    <3>1. OpSize \in 0 .. W - 1 /\ 0 \in 0 .. W - 1 /\ 0 # Crumbs
      BY FixGptsAssumption, RmOPAssumption DEF Crumbs
    <3>2. ASSUME NEW j \in Named(k, {"OP"}), NEW u \in Named(k, {"userdata"})
          PROVE  0 <= (k[j].hi - k[j].lo + 1) + (k[u].hi - k[u].lo)
      BY KdzRoom
    <3>3. Fitting(k, 0)
      BY <3>1, <3>2 DEF Fitting
    <3>4. QED
      BY <3>1, <3>3 DEF FitSizes
  <2>2. 0 \in Sizes /\ k \in Gpts
    BY AdjustType, RmOPAssumption, FixGptsAssumption DEF Sizes, Crumbs
  <2>3. QED
    BY <2>1, <2>2, AdjustSound, AdjustType, FixGptsAssumption
<1>2. \A s \in Slots : gpt[s].name \notin Hidden
  BY DEF Named
<1>3. ASSUME gpt0 = a, Like(gpt0, gpt) PROVE UserBlocks(a) = UserBlocks(gpt)
  <2>1. \A s \in Slots : gpt[s] = a[s]
    BY <1>2, <1>3 DEF Like, Named
  <2>2. gpt = a
    BY <1>1, <2>1 DEF Gpts
  <2>3. QED
    BY <2>2
<1>4. CASE AdjustOP(k, 0) = k /\ AdjustOP(k, size) = k /\ Named(k, {"OP"}) = {}
  <2>1. ASSUME NEW o, NEW d, MergedFrom(gpt0, gpt, o, d) PROVE FALSE
    BY <1>1, <1>4, <2>1 DEF MergedFrom, Named, Hidden
  <2>2. QED
    BY <1>1, <1>3, <1>4, <2>1 DEF HistInv
<1>5. ASSUME NEW j \in Slots, NEW u \in Slots, Adjusts(k, j, u)
      PROVE  UserBlocks(a) = UserBlocks(gpt)
  <2>1. /\ \A s \in Slots \ {j, u} : gpt0[s] = k[s]
        /\ gpt0[u].name = "userdata" /\ Within(gpt0[u])
        /\ a[u].name = "userdata"
        /\ k[j].name = "OP" /\ k[u].name = "userdata" /\ j # u
    BY <1>1, <1>5, BorderMoved
  <2>2. /\ k[j].lo \in Nat /\ k[u].lo \in Nat /\ k[j].hi \in Int /\ k[u].hi \in Int
        /\ size \in Nat
    BY <1>1, <1>5, KdzRoom, FitRoom DEF Adjusts
  <2>3. NoSlice.name = "" /\ "" \notin Hidden /\ "userdata" \notin Hidden /\ "OP" \in Hidden
    BY DEF NoSlice, Hidden
  <2>4. CASE Like(gpt0, gpt)
    <3>1. gpt0[j].name \notin Hidden
      BY <1>2, <2>4 DEF Like, Named
    <3>2. size = 0
      BY <1>1, <1>5, <2>3, <3>1 DEF Adjusts, AfterUser, BeforeUser
    <3>3. QED
      BY <1>3, <2>4, <3>2
  <2>5. ASSUME NEW o \in Slots, NEW d \in Slots, MergedFrom(gpt0, gpt, o, d)
        PROVE  UserBlocks(a) = UserBlocks(gpt)
    <3>1. /\ gpt0[o].name \in Hidden /\ gpt0[d].name = "userdata"
          /\ gpt[o] = NoSlice /\ gpt[d].name = "userdata"
          /\ Joins(gpt0, o, d, gpt[d].lo, gpt[d].hi)
          /\ \A s \in Slots \ {o, d} : gpt[s] = gpt0[s]
      BY <2>5 DEF MergedFrom, Named
    <3>2. d = u
      <4>1. d \in Named(gpt0, {"userdata"}) /\ u \in Named(gpt0, {"userdata"})
        BY <2>1, <3>1 DEF Named
      <4>2. QED
        BY <1>1, <4>1, SoundIs
    <3>3. o = j
      <4>1. o # u
        BY <2>1, <2>3, <3>1
      <4>2. ASSUME o # j PROVE FALSE
        <5>1. k[o].name \in Hidden
          BY <2>1, <3>1, <4>1, <4>2
        <5>2. o \in Named(k, Hidden) /\ j \in Named(k, Hidden)
          BY <2>1, <2>3, <5>1 DEF Named
        <5>3. QED
          BY <1>1, <4>2, <5>2, SoundIs
      <4>3. QED
        BY <4>2
    <3>4. size # 0
      BY <1>1, <1>5, <2>3, <3>1, <3>3 DEF Adjusts, AfterUser, BeforeUser
    <3>5. gpt[u].lo = a[u].lo /\ gpt[u].hi = a[u].hi
      <4>1. CASE AfterUser(k, j, u, size) /\ AfterUser(k, j, u, 0)
        <5>1. /\ gpt0[u].lo = k[u].lo /\ gpt0[u].hi = k[j].hi - size
              /\ gpt0[j].lo = k[j].hi + 1 - size /\ gpt0[j].hi = k[j].hi
              /\ a[u].lo = k[u].lo /\ a[u].hi = k[j].hi - 0
          BY <3>4, <4>1 DEF AfterUser
        <5>2. gpt0[u].lo < gpt0[j].lo /\ gpt0[u].lo # gpt0[j].lo /\ ~(gpt0[u].lo > gpt0[j].lo)
          BY <2>1, <2>2, <5>1 DEF Within
        <5>3. gpt[u].lo = gpt0[u].lo /\ gpt[u].hi = gpt0[j].hi
          BY <3>1, <3>2, <3>3, <5>2 DEF Joins
        <5>4. QED
          BY <2>2, <5>1, <5>3
      <4>2. CASE BeforeUser(k, j, u, size) /\ BeforeUser(k, j, u, 0)
        <5>1. /\ gpt0[u].lo = k[j].lo + size /\ gpt0[u].hi = k[u].hi
              /\ gpt0[j].lo = k[j].lo
              /\ a[u].lo = k[j].lo + 0 /\ a[u].hi = k[u].hi
          BY <3>4, <4>2 DEF BeforeUser
        <5>2. gpt0[u].lo > gpt0[j].lo /\ gpt0[u].lo # gpt0[j].lo /\ ~(gpt0[u].lo < gpt0[j].lo)
          BY <2>2, <3>4, <5>1
        <5>3. gpt[u].lo = gpt0[j].lo /\ gpt[u].hi = gpt0[u].hi
          BY <3>1, <3>2, <3>3, <5>2 DEF Joins
        <5>4. QED
          BY <2>2, <5>1, <5>3
      <4>3. QED
        BY <1>1, <1>5, <4>1, <4>2 DEF Adjusts
    <3>6. \A s \in Named(gpt, {"userdata"}) : s = u
      <4>1. ASSUME NEW s \in Slots, gpt[s].name = "userdata", s # u PROVE FALSE
        <5>1. s # j
          BY <2>3, <3>1, <3>3, <4>1
        <5>2. s \in Named(gpt0, {"userdata"}) /\ u \in Named(gpt0, {"userdata"})
          BY <2>1, <3>1, <3>2, <3>3, <4>1, <5>1 DEF Named
        <5>3. QED
          BY <1>1, <4>1, <5>2, SoundIs
      <4>2. QED
        BY <4>1 DEF Named
    <3>7. Named(gpt, {"userdata"}) = {u}
      BY <3>1, <3>2, <3>6 DEF Named
    <3>8. UserBlocks(gpt) = Blocks(gpt[u])
      BY <3>7 DEF UserBlocks
    <3>9. u \in Named(a, {"userdata"})
      BY <2>1 DEF Named
    <3>10. UserBlocks(a) = Blocks(a[u])
      BY <1>1, <3>9, UserIs
    <3>11. Blocks(gpt[u]) = Blocks(a[u])
      BY <2>1, <3>1, <3>2, <3>5 DEF Blocks
    <3>12. QED
      BY <3>8, <3>10, <3>11
  <2>6. QED
    BY <1>1, <2>4, <2>5 DEF HistInv
<1>6. QED
  BY <1>1, <1>4, <1>5, AdjustIs

\* With OP beside userdata in the KDZ file, and a size that leaves some of
\* userdata: restoring the table of a phone whose OP was given to userdata by rmOP
\* leaves userdata's blocks as they are, if the text in the cfg file goes on behind
\* its first number.
THEOREM UserdataSafe ==
  ASSUME \A k \in KdzGpts : OpBeside(k)
  PROVE  Spec => UserdataStays
<1>1. RunInv /\ KInv /\ HistInv /\ [Next]_vars =>
        [/\ kpc = "device" /\ gpt' # gpt
         /\ gpt0 \in {AdjustOP(kdz, OpSize), AdjustOP(kdz, 0)} /\ Fitting(kdz, OpSize)
         /\ Named(gpt, {"OP", "XOPX"}) = {}
         /\ disk.cfg = "zeros" /\ goesOn
         => UserBlocks(gpt') = UserBlocks(gpt)]_vars
  <2> SUFFICES ASSUME RunInv, KInv, HistInv, [Next]_vars,
                      kpc = "device", gpt' # gpt,
                      NEW size \in {OpSize, 0}, gpt0 = AdjustOP(kdz, size),
                      Fitting(kdz, OpSize),
                      Named(gpt, Hidden) = {}, disk.cfg = "zeros", goesOn
               PROVE  UserBlocks(gpt') = UserBlocks(gpt)
    BY DEF Hidden
  <2>1. gpt' = AdjustOP(kdz, opsz) /\ kdz \in KdzGpts
    BY GptRestored
  <2>2. opsz = 0
    BY DEF KInv
  <2>3. gpt \in Gpts
    BY DEF RunInv, TypeOK, RmTypeOK
  <2>4. QED
    BY <2>1, <2>2, <2>3, UserdataSame
<1>2. QED
  BY InitRun, NextRun, InitK, NextK, InitHist, NextHist, <1>1, PTL DEF Spec, UserdataStays

==============================================================================
