------------------------------ MODULE KdzWriter ------------------------------
(***************************************************************************)
(* kdzwriter.c: the options, the confirmation, and the order in which      *)
(* /system's kernel modules are read into memory, its slice is rewritten   *)
(* and the modules are put back; then the other slices.                    *)
(*                                                                         *)
(* test_kdzfile() (KdzTest) judges the KDZ file first.                     *)
(* write_kdzfile() (KdzSlice) leaves a slice as it was, in part or wholly  *)
(* rewritten, and only in the last case returns 1; fix_gpts() (FixGpts) is *)
(* used in the same way.  Whoever has a file open on /system keeps its     *)
(* file system alive when it is unmounted with MNT_DETACH.                 *)
(***************************************************************************)
EXTENDS KdzTest, FiniteSets

CONSTANTS
  MaxOptions,       \* bound: options on a command line
  KdzHasModules,    \* the KDZ's system has a /lib/modules
  KdzChunks,        \* the chunks KDZ files are made of
  MaxChunks,        \* bound: chunks of a KDZ file
  Phones            \* the phones, each with its tables

ASSUME KdzWriterAssumption ==
  /\ MaxOptions \in Nat /\ MaxChunks \in Nat
  /\ KdzHasModules \in BOOLEAN

\* The tables of the KDZ files and the phones.  They are laid out the one way LG's
\* tools do it (gpt.c:621-643: the entries follow the header, or the data area);
\* "head" holds the number of entries; and the last entry, which test_kdzfile()
\* does not look at, is an unused one or one of those that do not count.
Entries == [name : STRING, type : Nat, flags : Nat, id : Nat, lo : Nat, hi : Nat]
Tables(first) ==
  {t \in [head : STRING, my : Nat, alt : Nat, es : Nat, ds : Nat, de : Nat,
          entries : Seq(Entries)] :
     IF first THEN t.my = 1 /\ t.es = 2
              ELSE t.my > 1 /\ t.es = t.de + 1 /\ t.my = t.es + t.ds - 2}

KdzTables == {c.table : c \in KdzChunks} \ {Unreadable}
DevTables ==
  ({p[c.dev].primary : p \in Phones, c \in KdzChunks} \cup
   {p[c.dev].backup : p \in Phones, c \in KdzChunks}) \ {Unreadable}

ASSUME TablesAssumption ==
  /\ \A c \in KdzChunks :
       c.span \in Nat /\ c.table \in Tables(c.first) \cup {Unreadable}
  /\ \A p \in Phones, c \in KdzChunks :
       /\ p[c.dev].primary \in Tables(TRUE) \cup {Unreadable}
       /\ p[c.dev].backup \in Tables(FALSE) \cup {Unreadable}
  /\ \A k \in KdzTables :
       Len(k.entries) > 0 => k.entries[Len(k.entries)].name \in Ignored
  /\ \A k \in KdzTables, d \in DevTables :
       k.head = d.head => Len(k.entries) = Len(d.entries)

Options == {"t", "r", "s", "m", "c", "k", "M", "O", "P", "a", "b"}

\* The slices written; "gpts" stands for the partition tables.
Targets == {"system", "modem", "cust", "boot", "gpts"}

\* The modules the phone had, the KDZ's, the phone's with files of the KDZ's beside
\* them, or some of either.
ModuleSets == {"own", "stock", "both", "mixed"}

VARIABLES
  pc,        \* where main() is, "idle" when kdzwriter is not running
  argv,      \* its options
  mode,      \* the bits of "mode"
  savekmods,
  kmods,     \* modules in memory: "none", or what was read
  ret,       \* "ret", which the exit status is
  target,    \* what this run made of each target: "old", "torn" or "kdz"
  modules,   \* what is in /system/lib/modules, "none" without that directory
  mnt,       \* /system: "no", "ro" or "rw"
  lazy,      \* a file system unmounted with MNT_DETACH: "no", "ro" or "rw"
  busy,      \* somebody has files open there
  clock,     \* "right", or "set" by settimeofday()
  confirmed, \* history: the user's yes
  modules0, mnt0,   \* history: what this run began with
  found      \* history: what the KDZ file of this run is really worth

history == <<confirmed, modules0, mnt0>>
machine == <<target, modules, mnt, lazy, busy, clock>>
vars == <<pc, argv, mode, savekmods, kmods, ret, machine, history, found>>

\* KDZ files, whole and cut short; a GPT chunk that is what the phone has.
KdzFiles ==
  {f \in [magic : BOOLEAN, md5 : BOOLEAN, len : 1 .. 2 * MaxChunks + 1,
          chunks : UNION {[1 .. n -> KdzChunks] : n \in 1 .. MaxChunks}] : Opens(f)}
Possible(file, phone) ==
  \A i \in DOMAIN file.chunks :
    LET c == file.chunks[i] IN
    c.name \in GptChunks /\ c.data = "same" => c.table = OnDevice(c, phone)

\* test_kdzfile()'s verdict on each, and what it should depend on.
Outcomes ==
  UNION {{[verdict |-> TestKdz(f, p), fit |-> Fit(f, p), judgeable |-> Judgeable(f),
            handled |-> Handled(f, p)]
            : f \in {f \in KdzFiles : Possible(f, p)}} : p \in Phones}
Worths   == [fit : 0 .. 2, judgeable : BOOLEAN, handled : BOOLEAN]
Untested == [fit |-> 0, judgeable |-> FALSE, handled |-> FALSE]
Worth(o) == [fit |-> o.fit, judgeable |-> o.judgeable, handled |-> o.handled]

------------------------------------------------------------------------------
(* The options. *)

SharWrite == {"WRITE", "SHARED"}
ExclWrite == {"WRITE", "EXCLUSIVE"}

Bits(opt) ==
  CASE opt = "t" -> {"TEST"}
    [] opt = "r" -> {"READ", "1"}
    [] opt = "s" -> SharWrite \cup {"1"}
    [] opt = "m" -> SharWrite \cup {"2"}
    [] opt = "k" -> SharWrite \cup {"4"}
    [] opt = "c" -> SharWrite \cup {"8"}
    [] opt = "O" -> SharWrite \cup {"10"}
    [] opt = "a" -> SharWrite \cup {"1", "2", "8"}
    [] opt = "P" -> ExclWrite \cup {"80"}
    [] opt = "b" -> ExclWrite \cup {"1"}
    [] opt = "M" -> {}

\* check_mode: at most one kind of mode, and at most one exclusive mode; TEST
\* counts as one of them.
CheckMode(m) ==
  /\ ~("READ" \in m /\ "WRITE" \in m)
  /\ ~(SharWrite \subseteq m /\ ExclWrite \subseteq m)
  /\ ExclWrite \subseteq m => Cardinality(m \ ExclWrite) <= 1

\* Which options are refused after those that gave the mode m.
BadMode(m, opt) ==
  CASE opt = "t" -> FALSE
    [] opt \in {"r", "b"} -> m \ {"TEST"} # {}
    [] OTHER -> ~CheckMode(m \cup Bits(opt))

\* "mode" without TEST.
Kind      == mode \ {"TEST"}
simulate  == "TEST" \in mode
Shared    == SharWrite \subseteq mode
Selected  ==
  IF Kind = ExclWrite \cup {"80"} THEN {"gpts"}
  ELSE IF ~Shared THEN {}
  ELSE {t \in Targets :
          \/ t = "system" /\ "1" \in mode
          \/ t = "modem" /\ "2" \in mode
          \/ t = "boot" /\ "4" \in mode
          \/ t = "cust" /\ "8" \in mode}

------------------------------------------------------------------------------
(* main() *)

Stop(status) ==
  /\ pc' = "idle" /\ ret' = status
  /\ kmods' = "none" /\ argv' = <<>>
  /\ UNCHANGED <<mode, savekmods, history>>

Exit(status) == Stop(status) /\ found' = found

Goto(label) ==
  /\ pc' = label
  /\ UNCHANGED <<argv, mode, savekmods, kmods, ret, history, found>>

Start ==
  /\ pc = "idle"
  /\ pc' = "options" /\ ret' = 0 /\ mode' = {} /\ savekmods' = TRUE
  /\ confirmed' = FALSE /\ found' = Untested
  /\ modules0' = modules /\ mnt0' = mnt
  /\ target' = [t \in Targets |-> "old"]
  /\ UNCHANGED <<argv, kmods, modules, mnt, lazy, busy, clock>>

\* One turn of the getopt() loop; -k goes on into -M.
ParseOption(opt) ==
  /\ pc = "options" /\ Len(argv) < MaxOptions
  /\ \/ BadMode(mode, opt) /\ Exit(1)
     \/ /\ ~BadMode(mode, opt)
        /\ argv' = Append(argv, opt)
        /\ mode' = mode \cup Bits(opt)
        /\ savekmods' = (savekmods /\ opt \notin {"k", "M"})
        /\ UNCHANGED <<pc, kmods, ret, history, found>>
  /\ UNCHANGED machine

\* open_kdzfile(), which may fail.
OpenKdz ==
  /\ pc = "options"
  /\ \/ Exit(1)
     \/ /\ pc' = IF "WRITE" \in mode /\ ~simulate THEN "confirm" ELSE "action"
        /\ argv' = <<>>
        /\ UNCHANGED <<mode, savekmods, kmods, ret, history, found>>
  /\ UNCHANGED machine

Confirm ==
  /\ pc = "confirm"
  /\ \/ Exit(64)
     \/ /\ pc' = "action" /\ confirmed' = TRUE
        /\ UNCHANGED <<argv, mode, savekmods, kmods, ret, modules0, mnt0, found>>
  /\ UNCHANGED machine

\* report_kdzfile(), test_kdzfile() alone, or nothing to do.
ReadOnly ==
  /\ pc = "action" /\ "WRITE" \notin mode
  /\ \/ "READ" \in mode /\ \E status \in {0, 128} : Exit(status)
     \/ mode = {"TEST"} /\ \E o \in Outcomes : Stop(o.verdict) /\ found' = Worth(o)
     \/ mode = {} /\ Exit(1)
  /\ UNCHANGED machine

\* Mutant of Needed: one quality of match is enough for everything.
Needed_One == 1

\* The result of test_kdzfile() that is called for.
Needed == IF "EXCLUSIVE" \in mode THEN 2 ELSE 1

Test ==
  /\ pc = "action" /\ "WRITE" \in mode
  /\ \E o \in Outcomes :
       /\ found' = Worth(o)
       /\ \/ o.verdict = -2 /\ Stop(-2)
          \/ o.verdict \in -1 .. Needed - 1 /\ Stop(8)
          \/ /\ o.verdict >= Needed
             /\ pc' = IF Shared THEN "system" ELSE "exclusive"
             /\ UNCHANGED <<argv, mode, savekmods, kmods, ret, history>>
  /\ UNCHANGED machine

\* -P; for -b there is nothing yet.
Exclusive ==
  /\ pc = "exclusive"
  /\ \/ "gpts" \notin Selected /\ Exit(0) /\ target' = target
     \/ /\ "gpts" \in Selected
        /\ \/ Exit(0) /\ target' = IF simulate THEN target ELSE [target EXCEPT !.gpts = "kdz"]
           \/ Exit(1) /\ target' \in {target} \cup
                IF simulate THEN {} ELSE {[target EXCEPT !.gpts = "torn"]}
  /\ UNCHANGED <<modules, mnt, lazy, busy, clock>>

SkipSystem ==
  /\ pc = "system" /\ "system" \notin Selected
  /\ Goto("others")
  /\ UNCHANGED machine

\* Mutant of NoSaving: always possible.
NoSaving_Always ==
  /\ pc = "system" /\ "system" \in Selected
  /\ Goto("writesystem")
  /\ UNCHANGED machine

NoSaving ==
  /\ pc = "system" /\ "system" \in Selected
  /\ ~savekmods
  /\ Goto("writesystem")
  /\ UNCHANGED machine

------------------------------------------------------------------------------
(* read_kmods() *)

\* umount2(MNT_DETACH) and mount(MS_RDONLY).  Another file system on the slice
\* that is still alive for writing makes mount() fail, as does /system being
\* mounted: that is all right in a simulated run.
ReadKmodsMount ==
  /\ pc = "system" /\ "system" \in Selected
  /\ savekmods
  /\ LET left == IF mnt # "no" /\ busy THEN mnt ELSE lazy IN
     IF simulate
     THEN \/ mnt # "no" /\ Goto("readkmods") /\ UNCHANGED machine
          \/ /\ mnt = "no" /\ lazy # "rw"
             /\ mnt' = "ro" /\ Goto("readkmods")
             /\ UNCHANGED <<target, modules, lazy, busy, clock>>
          \/ Exit(64) /\ UNCHANGED machine
     ELSE /\ lazy' = left
          /\ \/ left # "rw" /\ mnt' = "ro" /\ Goto("readkmods")
             \/ mnt' = "no" /\ Exit(64)
          /\ UNCHANGED <<target, modules, busy, clock>>

\* Mounted by read_kmods() itself.
Ours == ~simulate \/ mnt0 = "no"

\* Mutant of Unused: umount() always succeeds.
Unused_Always == TRUE

\* Not in use at this mount.
Unused == ~busy \/ lazy # "no"

\* A directory that is missing, or empty, or cannot be read fails.
ReadKmodsFails ==
  /\ pc = "readkmods"
  /\ Exit(64)
  /\ \/ mnt' = mnt
     \/ Ours /\ Unused /\ mnt' = "no"
  /\ UNCHANGED <<target, modules, lazy, busy, clock>>

\* umount() of a busy file system fails.
ReadKmods ==
  /\ pc = "readkmods"
  /\ modules # "none"
  /\ Ours => Unused
  /\ kmods' = modules
  /\ mnt' = IF Ours THEN "no" ELSE mnt
  /\ pc' = "writesystem"
  /\ UNCHANGED <<argv, mode, savekmods, ret, history, found, target, modules, lazy,
                 busy, clock>>

------------------------------------------------------------------------------
(* write_kdzfile() and write_kmods() *)

\* A rewritten system has the KDZ's modules.
StockModules == IF KdzHasModules THEN "stock" ELSE "none"

WriteSystem ==
  /\ pc = "writesystem"
  /\ \/ /\ simulate \/ (mnt = "no" /\ lazy = "no")
        /\ target' = IF simulate THEN target ELSE [target EXCEPT !.system = "kdz"]
        /\ modules' = IF simulate THEN modules ELSE StockModules
        /\ ret' = ret
     \/ /\ \/ UNCHANGED <<target, modules>>
           \/ /\ ~simulate /\ mnt = "no" /\ lazy = "no"
              /\ target' = [target EXCEPT !.system = "torn"]
              /\ modules' \in {modules, "mixed"}
        /\ ret' = 7
  /\ pc' = IF savekmods THEN "writekmods" ELSE "others"
  /\ UNCHANGED <<argv, mode, savekmods, kmods, history, found, mnt, lazy, busy, clock>>

\* Modules m are written over those there are; files with other names remain.
Beside(m) == IF m = "own" THEN {"own", "both"} ELSE {m}

\* Mutant of WriteKmodsFails: the failure leaves "ret" alone.
WriteKmodsFails_Silent ==
  /\ pc = "writekmods"
  /\ kmods' = "none"
  /\ pc' = "others"
  /\ UNCHANGED <<argv, mode, savekmods, ret, history, found, machine>>

\* /system cannot be mounted, or a module cannot be written, or /system cannot
\* be unmounted; from then on /system stays mounted, as abort: unmounts
\* "/modules".  The result overwrites that of write_kdzfile().
WriteKmodsFails ==
  /\ pc = "writekmods"
  /\ \/ UNCHANGED <<mnt, modules, clock>>
     \/ /\ ~simulate /\ lazy # "ro"
        /\ mnt' = "rw"
        /\ modules' \in {modules, "mixed"} \cup Beside(kmods)
        /\ clock' \in {clock, "set"}
     \/ simulate /\ clock' \in {clock, "set"} /\ UNCHANGED <<mnt, modules>>
  /\ ret' = 1 /\ kmods' = "none"
  /\ pc' = "others"
  /\ UNCHANGED <<argv, mode, savekmods, history, found, target, lazy, busy>>

\* Every module's ctime is made by setting the clock, simulated or not.  The
\* result of chdir("/system/lib/modules") is not looked at: without that
\* directory the modules go to "/".
WriteKmods ==
  /\ pc = "writekmods"
  /\ simulate \/ (lazy # "ro" /\ mnt = "no")
  /\ modules' \in IF simulate \/ modules = "none" THEN {modules} ELSE Beside(kmods)
  /\ clock' = "set"
  /\ kmods' = "none"
  /\ pc' = "others"
  /\ UNCHANGED <<argv, mode, savekmods, ret, history, found, target, mnt, lazy, busy>>

\* modem, cust and boot, in this order; the results are not looked at.
WriteOthers ==
  /\ pc = "others"
  /\ Exit(ret)
  /\ target' \in {t \in [Targets -> {"old", "torn", "kdz"}] :
       \A s \in Targets :
         t[s] = target[s] \/ (s \in Selected \ {"system"} /\ ~simulate)}
  /\ UNCHANGED <<modules, mnt, lazy, busy, clock>>

------------------------------------------------------------------------------
(* The environment. *)

Kill ==
  /\ pc # "idle"
  /\ Exit(-2)
  /\ UNCHANGED machine

\* Others open and close files on /system; with the last one goes what was
\* unmounted lazily.
Busy ==
  /\ mnt # "no" \/ lazy # "no"
  /\ busy' = ~busy
  /\ lazy' = IF busy THEN "no" ELSE lazy
  /\ UNCHANGED <<pc, argv, mode, savekmods, kmods, ret, target, modules, mnt, clock,
                 history, found>>

------------------------------------------------------------------------------

Init ==
  /\ target = [t \in Targets |-> "old"]
  /\ modules \in {"own", "none"}
  /\ mnt \in {"no", "ro", "rw"}
  /\ lazy = "no" /\ busy \in BOOLEAN /\ (busy => mnt # "no")
  /\ clock = "right"
  /\ pc = "idle" /\ argv = <<>> /\ mode = {} /\ savekmods = TRUE
  /\ kmods = "none" /\ ret = 0
  /\ confirmed = FALSE /\ found = Untested
  /\ modules0 = modules /\ mnt0 = mnt

Next ==
  \/ Start \/ (\E opt \in Options : ParseOption(opt)) \/ OpenKdz \/ Confirm \/ ReadOnly \/ Test \/ Exclusive
  \/ SkipSystem \/ NoSaving \/ ReadKmodsMount \/ ReadKmodsFails \/ ReadKmods
  \/ WriteSystem \/ WriteKmodsFails \/ WriteKmods \/ WriteOthers
  \/ Kill \/ Busy

Spec == Init /\ [][Next]_vars

------------------------------------------------------------------------------
(* Properties. *)

\* The types of the variables; somebody using /system uses a mounted one.
TypeOK ==
  /\ pc \in {"idle", "options", "confirm", "action", "exclusive", "system",
             "readkmods", "writesystem", "writekmods", "others"}
  /\ argv \in Seq(Options) /\ Len(argv) <= MaxOptions
  /\ mode \subseteq {"TEST", "READ", "WRITE", "SHARED", "EXCLUSIVE", "1", "2", "4", "8",
                     "10", "80"}
  /\ savekmods \in BOOLEAN /\ confirmed \in BOOLEAN
  /\ found \in Worths
  /\ kmods \in ModuleSets \cup {"none"}
  /\ ret \in {-2, -1, 0, 1, 2, 7, 8, 64, 128}
  /\ target \in [Targets -> {"old", "torn", "kdz"}]
  /\ {modules, modules0} \subseteq ModuleSets \cup {"none"}
  /\ {mnt, mnt0, lazy} \subseteq {"no", "ro", "rw"}
  /\ busy \in BOOLEAN /\ (busy => mnt # "no" \/ lazy # "no")
  /\ lazy # "no" => busy
  /\ clock \in {"right", "set"}
  /\ pc \in {"writesystem", "writekmods"} /\ savekmods => kmods # "none" \/ simulate

\* Nothing is written, and no module restored, unless the user said yes, -t was
\* not given, and the KDZ file really is one for this phone, whatever the order
\* of its chunks: for the partition tables, one that matches the original.
ConsentedWrites ==
  [][ pc # "idle" /\ (target' # target \/ modules' # modules) =>
        /\ confirmed /\ ~simulate
        /\ found.fit >= IF target'.gpts # target.gpts THEN 2 ELSE 1 ]_vars

\* A KDZ file is called unfit ("insufficiently good match", "does not appear to be
\* applicable") only when it is, or is damaged, or test_kdzfile() cannot cope with it
\* or with the phone in one of the ways Handled lists: the changes rmOP and
\* LineageOS make to the table are no reason, in whatever order the chunks come.
RefusedForCause ==
  ret = 8 => found.fit < Needed \/ ~found.judgeable \/ ~found.handled

\* The modules of the system slice are overwritten only when a copy of them is
\* in memory, unless they were not to be preserved.
SavedBeforeOverwritten ==
  [][ pc # "idle" /\ savekmods /\ target'.system # target.system =>
        kmods = modules0 ]_vars

\* Exit status 0 after -s: the system slice was rewritten as a whole, the modules
\* it had are there, if with others beside them, and it is not mounted.
ZeroMeansSystem ==
  pc = "idle" /\ ret = 0 /\ "system" \in Selected /\ ~simulate =>
    /\ target.system = "kdz"
    /\ savekmods /\ KdzHasModules => modules \in Beside(modules0) /\ mnt = "no"
==============================================================================
