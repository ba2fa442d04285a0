------------------------------- MODULE FixGpts -------------------------------
(***************************************************************************)
(* kdz.c, fix_gpts(): "kdzwriter -P" restores the partition tables of the  *)
(* KDZ file, on a phone where rmOP may have been used (RmOP).  The two     *)
(* programs share the table of the device with OP on it and the cfg file,  *)
(* from which fix_gpts() takes the size the OP slice is to have.  They are *)
(* started by hand, one at a time.  A second device stands for the others, *)
(* whose tables need no adjustment.  "kdzwriter -P" gets to fix_gpts()     *)
(* only when test_kdzfile() (KdzTest) finds no fault with the tables.      *)
(***************************************************************************)
EXTENDS RmOP

CONSTANTS
  KdzGpts,     \* tables KDZ files may have for the device with OP on it
  OpSize,      \* the size in the cfg file, in blocks
  StraySizes,  \* the sizes that may be read where the file has no more text
  OpFirst      \* the KDZ lists OP's device before the other one

\* A size in blocks, or Crumbs: not zero, but less than a block.
Crumbs == -1
Sizes  == Crumbs .. W - 1

\* A KDZ file's slices are all apart.
ASSUME FixGptsAssumption ==
  /\ KdzGpts \subseteq Gpts
  /\ \A k \in KdzGpts :
       /\ Sound(k) /\ Named(k, {"XOPX"}) = {}
       /\ \A s, t \in Slots : s # t => Blocks(k[s]) \cap Blocks(k[t]) = {}
  /\ OpSize \in 0 .. W - 1
  /\ StraySizes \subseteq Sizes
  /\ OpFirst \in BOOLEAN

VARIABLES
  kdz,         \* the table of this KDZ file
  other,       \* the other device's table: "device", "kdz", or "cut" short
  kpc,         \* where fix_gpts() is
  simulate,    \* its argument
  opsz,        \* size of OP
  goesOn,      \* the text it was read from goes on behind its first number
  kdone,       \* devices whose chunk has been dealt with
  kret,        \* "ret": FALSE once BLKRRPART has failed
  kres         \* what the latest call returned: "none", "true" or "false"

kVars == <<kdz, other, kpc, simulate, opsz, goesOn, kdone, kret, kres>>
vars  == <<rmVars, kVars>>

Devices == {"op", "other"}

\* The tables as test_kdzfile() compares them.
KT == INSTANCE KdzTest
AsTable(g) ==
  [head |-> "gpt", my |-> 1, alt |-> LastBlock, es |-> 2, ds |-> FirstData, de |-> LastBlock,
   entries |-> [s \in Slots |->
     [name |-> g[s].name, lo |-> g[s].lo, hi |-> g[s].hi, flags |-> 0,
      type |-> IF g[s].name = "" THEN 0 ELSE 1, id |-> IF g[s].name = "" THEN 0 ELSE s]]]
Matches(k, g) == KT!TableVerdict({1, 2}, AsTable(k), AsTable(g), 0) = {1, 2}

\* It looks at both copies of every table, and wants them to be the same.
Accepts == copies = "both" /\ other # "cut" /\ Matches(kdz, gpt)

------------------------------------------------------------------------------

\* The "uint64_t" that arithmetic on blocks comes to.
Wrap(n) == IF n < 0 THEN n + W ELSE IF n >= W THEN n - W ELSE n

InBlocks(size) == IF size = Crumbs THEN 0 ELSE size

\* The border between OP and the userdata beside it in the table is moved until
\* OP has size blocks (lines 840-873); with a size of zero the entry is zeroed.
MoveBorder(g, j, start, end, delta, size) ==
  [s \in Slots |->
     IF s = j /\ size = 0 THEN NoSlice
     ELSE [g[s] EXCEPT !.lo = IF s = start THEN Wrap(@ + delta) ELSE @,
                       !.hi = IF s = end THEN Wrap(@ + delta) ELSE @]]

\* Mutant of AdjustOP: the border moves the same way on both sides of OP.
AdjustOP_SameSign(g, size) ==
  LET ops == Named(g, {"OP"}) IN
  IF ops = {} THEN g ELSE
  LET j == Minimum(ops)
      delta == InBlocks(size) - (g[j].hi - g[j].lo + 1)
      before == j - 1 \in Slots /\ g[j - 1].name = "userdata"
      after == j + 1 \in Slots /\ g[j + 1].name = "userdata"
  IN
  IF before
  THEN IF g[j - 1].hi + 1 = g[j].lo
       THEN MoveBorder(g, j, j, j - 1, delta, size) ELSE g
  ELSE IF after /\ g[j + 1].lo = g[j].hi + 1
       THEN MoveBorder(g, j, j + 1, j, delta, size) ELSE g

AdjustOP(g, size) ==
  LET ops == Named(g, {"OP"}) IN
  IF ops = {} THEN g ELSE
  LET j == Minimum(ops)
      delta == InBlocks(size) - (g[j].hi - g[j].lo + 1)
      before == j - 1 \in Slots /\ g[j - 1].name = "userdata"
      after == j + 1 \in Slots /\ g[j + 1].name = "userdata"
  IN
  IF before
  THEN IF g[j - 1].hi + 1 = g[j].lo
       THEN MoveBorder(g, j, j, j - 1, -delta, size) ELSE g
  ELSE IF after /\ g[j + 1].lo = g[j].hi + 1
       THEN MoveBorder(g, j, j + 1, j, delta, size) ELSE g

Return(r) ==
  /\ kpc' = "idle"
  /\ kres' = r
  /\ simulate' = FALSE /\ kdone' = {} /\ kret' = TRUE /\ opsz' = 0 /\ goesOn' = TRUE

KStart(sim) ==
  /\ pc = "idle" /\ kpc = "idle"
  /\ Accepts
  /\ kpc' = "mount"
  /\ simulate' = sim
  /\ kdone' = {} /\ kret' = TRUE /\ kres' = "none" /\ opsz' = 0 /\ goesOn' = TRUE
  /\ UNCHANGED <<rmVars, kdz, other>>

\* Without /dev/block/bootdevice/by-name the size is taken as 0.
NoByName ==
  /\ kpc = "mount"
  /\ kpc' = "device" /\ opsz' = 0
  /\ UNCHANGED <<rmVars, kdz, other, simulate, goesOn, kdone, kret, kres>>

\* A /cust still mounted from an earlier run is unmounted first; when that is busy
\* this mount fails.
KMount ==
  /\ kpc = "mount"
  /\ kpc' = "readcfg"
  /\ files' = Settle(files, "zeros") /\ disk' = files'
  /\ mnt' = "ro"
  /\ UNCHANGED <<gpt, copies, kern, erased, progVars, envVars, kdz, other,
                 simulate, opsz, goesOn, kdone, kret, kres>>

\* Mutant of Written: a size of zero is taken for a missing one.
Written_ZeroIgnored(text) == IF text \in {"sizes", "zeros", "dirty"} THEN {OpSize} ELSE {}

\* The number behind the first "=".
Written(text) ==
  CASE text = "sizes"            -> {OpSize}
    [] text \in {"zeros", "dirty"} -> {0}
    [] OTHER                     -> {}

\* read() does not end the text: a number at its end may go on, and a text without
\* one is searched, in memory nothing was written to.  A failed read() counts as 0.
SizeIn(text, on) ==
  {0} \cup Written(text) \cup (IF on /\ Written(text) # {} THEN {} ELSE StraySizes)

KReadCfg ==
  /\ kpc = "readcfg"
  /\ files.cfg # "absent"
  /\ goesOn' \in BOOLEAN /\ opsz' \in SizeIn(files.cfg, goesOn')
  /\ kpc' = "device"
  /\ mnt' \in {"no", mnt}
  /\ UNCHANGED <<gpt, copies, kern, files, disk, erased, progVars, envVars, kdz,
                 other, simulate, kdone, kret, kres>>

\* mkdir, mount or open of the cfg fails; or there is no cfg.
KCfgFails ==
  /\ kpc \in {"mount", "readcfg"}
  /\ Return("false")
  /\ Flush
  /\ UNCHANGED <<gpt, copies, kern, erased, progVars, envVars, kdz, other>>

\* The table of device d is rewritten; what rmOP does is judged from then on.
Restored(d) ==
  IF d = "op"
  THEN gpt' = AdjustOP(kdz, opsz) /\ copies' = "both" /\ gpt0' = gpt' /\ other' = other
  ELSE other' = "kdz" /\ UNCHANGED <<gpt, copies, gpt0>>

\* ... or its writing is cut short.
RestoredInPart(d) ==
  IF d = "op"
  THEN /\ WriteCutShort(AdjustOP(kdz, opsz))
       /\ gpt0' = IF gpt' = gpt THEN gpt0 ELSE gpt'
       /\ other' = other
  ELSE other' \in {other, "kdz", "cut"} /\ UNCHANGED <<gpt, copies, gpt0>>

\* The next "PrimaryGPT" chunk in the order of the KDZ file.
NextDevice ==
  LET order == IF OpFirst THEN <<"op", "other">> ELSE <<"other", "op">> IN
  IF order[1] \in kdone THEN order[2] ELSE order[1]

\* The chunk is unpacked, checked and adjusted, and written.
KWriteGpt ==
  /\ kpc = "device" /\ kdone # Devices
  /\ ~simulate
  /\ Restored(NextDevice)
  /\ kpc' = "rrpart"
  /\ UNCHANGED <<kern, files, disk, mnt, erased, progVars, cfg0, kdz, simulate,
                 opsz, goesOn, kdone, kret, kres>>

KSimulate ==
  /\ kpc = "device" /\ kdone # Devices
  /\ simulate
  /\ kdone' = kdone \cup {NextDevice}
  /\ UNCHANGED <<rmVars, kdz, other, kpc, simulate, opsz, goesOn, kret, kres>>

\* BLKRRPART; a failure is remembered in "ret" and the loop goes on.
KReload ==
  /\ kpc = "rrpart"
  /\ \E ok \in BOOLEAN :
       /\ kret' = (kret /\ ok)
       /\ kern' = IF ok /\ NextDevice = "op" THEN gpt ELSE kern
  /\ kdone' = kdone \cup {NextDevice}
  /\ kpc' = "device"
  /\ UNCHANGED <<gpt, copies, files, disk, mnt, erased, progVars, envVars, kdz,
                 other, simulate, opsz, goesOn, kres>>

\* While the next device is dealt with.
InDevice ==
  /\ IF kpc = "device" /\ kdone # Devices /\ ~simulate
     THEN RestoredInPart(NextDevice)
     ELSE UNCHANGED <<gpt, copies, gpt0, other>>
  /\ UNCHANGED <<kern, files, disk, mnt, erased, progVars, cfg0, kdz>>

\* Opening, unpacking, checking or writing fails: abort, with the devices done so
\* far changed.
KFails ==
  /\ kpc = "device" /\ kdone # Devices
  /\ Return("false")
  /\ InDevice

\* Mutant of KDone: the result forgets the failures of BLKRRPART.
KDone_True ==
  /\ kpc = "device" /\ kdone = Devices
  /\ Return("true")
  /\ UNCHANGED <<rmVars, kdz, other>>

KDone ==
  /\ kpc = "device" /\ kdone = Devices
  /\ Return(IF kret THEN "true" ELSE "false")
  /\ UNCHANGED <<rmVars, kdz, other>>

KKill ==
  /\ kpc # "idle"
  /\ Return("none")
  /\ InDevice

\* The power does not go while fix_gpts() has the devices open: it opens them
\* without O_SYNC, and Gpt shows what that can do.
Restart ==
  /\ kpc = "idle"
  /\ Reboot
  /\ UNCHANGED kVars

KStep ==
  \/ NoByName \/ KMount \/ KReadCfg \/ KCfgFails
  \/ KWriteGpt \/ KSimulate \/ KReload \/ KFails \/ KDone

\* A step of rmOP; by then the caller has long used fix_gpts()'s result.
ByRmOP(A) ==
  /\ kpc = "idle" /\ A
  /\ kres' = "none"
  /\ UNCHANGED <<kdz, other, kpc, simulate, opsz, goesOn, kdone, kret>>

RmStart ==
  ByRmOP((\E m \in {"enable", "disable", "merge"} : Start(m)) \/ StartWithoutDevice)

FixInit ==
  /\ Init
  /\ kdz \in KdzGpts
  /\ other = "device" /\ kpc = "idle" /\ simulate = FALSE /\ opsz = 0 /\ goesOn = TRUE
  /\ kdone = {} /\ kret = TRUE /\ kres = "none"

Next ==
  \/ RmStart \/ ByRmOP(Step) \/ ByRmOP(Kill)
  \/ (Journal \/ WriteBack) /\ UNCHANGED kVars
  \/ \E sim \in BOOLEAN : KStart(sim)
  \/ KStep
  \/ KKill
  \/ Restart

Spec == FixInit /\ [][Next]_vars
          /\ WF_vars(ByRmOP(Step)) /\ WF_vars(KStep)

------------------------------------------------------------------------------
(* Properties. *)

UserBlocks(g) == UNION {Blocks(g[s]) : s \in Named(g, {"userdata"})}
OpBlocks(g)   == UNION {Blocks(g[s]) : s \in Named(g, {"OP"})}

\* The types of rmOP's and of fix_gpts()'s variables.
TypeOK ==
  /\ RmTypeOK
  /\ kdz \in Gpts
  /\ other \in {"device", "kdz", "cut"} /\ goesOn \in BOOLEAN
  /\ kpc \in {"idle", "mount", "readcfg", "device", "rrpart"}
  /\ simulate \in BOOLEAN /\ kret \in BOOLEAN
  /\ opsz \in Sizes
  /\ kdone \subseteq Devices
  /\ kres \in {"none", "true", "false"}

\* A size that leaves some of userdata.
Fitting(k, size) ==
  /\ size # Crumbs
  /\ \A s \in Named(k, {"OP"}), t \in Named(k, {"userdata"}) :
       size <= (k[s].hi - k[s].lo + 1) + (k[t].hi - k[t].lo)

\* The table fix_gpts() writes has the KDZ's slices but for OP and userdata.  When
\* the size fits, none overlaps another, and moving the border neither loses nor
\* doubles a block of OP and userdata.
RestoredTable ==
  [][ kpc = "device" /\ gpt' # gpt =>
        /\ \A s \in Slots : kdz[s].name \notin {"OP", "userdata"} => gpt'[s] = kdz[s]
        /\ Fitting(kdz, opsz) =>
             /\ \A s, t \in Slots : s # t => Blocks(gpt'[s]) \cap Blocks(gpt'[t]) = {}
             /\ UserBlocks(gpt') \cup OpBlocks(gpt') = UserBlocks(kdz) \cup OpBlocks(kdz)
    ]_vars

\* Restoring the tables of a phone whose OP was given to userdata by rmOP leaves
\* userdata where it is: that rmOP puts zeros into official_op_resize.cfg, and
\* that fix_gpts() reads it, exists for this.  It takes a text that goes on behind
\* its first number.
UserdataStays ==
  [][ /\ kpc = "device" /\ gpt' # gpt
      /\ gpt0 \in {AdjustOP(kdz, OpSize), AdjustOP(kdz, 0)} /\ Fitting(kdz, OpSize)
      /\ Named(gpt, {"OP", "XOPX"}) = {}
      /\ disk.cfg = "zeros" /\ goesOn
      => UserBlocks(gpt') = UserBlocks(gpt) ]_vars

\* Whether a KDZ file matches the phone's table is the same whatever rmOP and
\* fix_gpts() have done to it.  They make kdzwriter refuse a file it accepted in
\* one way only: by being cut short while they write a table.
OnlyCutShortRefuses ==
  [][ <<gpt, copies, other>>' # <<gpt, copies, other>> =>
        /\ Matches(kdz, gpt) => Matches(kdz, gpt')
        /\ Accepts /\ ~Accepts' =>
             \/ pc = "writegpt" /\ pc' = "idle"
             \/ kpc = "device" /\ kpc' = "idle" /\ ~simulate ]_vars

\* fix_gpts() returns true only with every device's table restored and in use
\* by the kernel.
TrueMeansRestored ==
  [][ kres' = "true" /\ kres # "true" /\ ~simulate =>
        /\ gpt = AdjustOP(kdz, opsz) /\ kern = gpt
        /\ other = "kdz" ]_vars
==============================================================================
