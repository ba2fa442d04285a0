------------------------------ MODULE BootImage ------------------------------
(***************************************************************************)
(* scripts/switch-bootimg-kernel.py and scripts/bootimg-mod-ramdisk.py:    *)
(* replace the kernel, or the ramdisk, of an Android boot image in place.  *)
(*                                                                         *)
(* The image is a header page and four sections, each padded to whole      *)
(* pages; the header has their sizes.  When the new section takes more or  *)
(* fewer pages than the old one, what is behind it moves, page by page,    *)
(* inside the file.  The header is written last.  A script may be killed   *)
(* anywhere and started again on what it left.                             *)
(*                                                                         *)
(* A file is a sequence of units, P of them to a page.  A unit is a tuple: *)
(* what it belongs to, of which version, and its place there; the header   *)
(* is <<"head", kernel size, ramdisk size, second size, dt size>>.         *)
(***************************************************************************)
EXTENDS Integers, Sequences

CONSTANTS
  P,            \* units in a page
  Images,       \* the boot image files there may be at the start
  NewKernels,   \* sizes a new kernel may have
  NewRamdisks,  \* sizes a modified ramdisk may have
  MaxRuns       \* bound: runs of the scripts

Sections == <<"kernel", "ramdisk", "second", "dt">>
Zero     == <<"zero", 0, 0>>

ASSUME BootImageAssumption ==
  /\ P \in Nat \ {0}
  /\ NewKernels \cup NewRamdisks \subseteq Nat \ {0}
  /\ MaxRuns \in Nat

VARIABLES
  image,     \* the file
  pc,        \* where the script is, "idle" when none is running
  what,      \* the section it replaces: 1 the kernel, 2 the ramdisk
  head,      \* "vals", the header as it was read
  new,       \* the new section
  pos,       \* the position in the file, or in new
  ret,       \* exit status of the latest script, 1 also when it runs or was killed
  runs,      \* runs so far
  began,     \* history: the file when this run started, <<>> between runs
  spoiled    \* history: cut short from the start, or killed once it was written to

imageVars == <<image, pc, what, head, new, pos, ret, runs, began, spoiled>>

------------------------------------------------------------------------------
(* Files. *)

Longer(x, y)  == IF x > y THEN x ELSE y
Shorter(x, y) == IF x < y THEN x ELSE y
Space(n)      == ((n + P - 1) \div P) * P

Read(f, at, n) == SubSeq(f, at + 1, Shorter(at + n, Len(f)))

\* A write behind the end leaves a gap of zeros.
Write(f, at, buf) ==
  [i \in 1 .. Longer(Len(f), at + Len(buf)) |->
     IF i \in at + 1 .. at + Len(buf) THEN buf[i - at]
     ELSE IF i <= Len(f) THEN f[i] ELSE Zero]

Resize(f, n) == [i \in 1 .. n |-> IF i <= Len(f) THEN f[i] ELSE Zero]

Units(name, version, n) == [i \in 1 .. n |-> <<name, version, i>>]

\* A page of the new section, the last one filled up.
Padded(buf) == Resize(buf, P)

\* The sizes in a header, and where section s begins.
Size(h, s)  == h[s + 1]
StartOf(h, s) ==
  P + (IF s > 1 THEN Space(Size(h, 1)) ELSE 0) + (IF s > 2 THEN Space(Size(h, 2)) ELSE 0)
    + (IF s > 3 THEN Space(Size(h, 3)) ELSE 0)
Total(h) == StartOf(h, 4) + Space(Size(h, 4))

\* What a boot loader finds in file f.
Section(f, s) == Read(f, StartOf(f[1], s), Size(f[1], s))
HoldsAll(f)   == \A s \in 1 .. 4 : Len(Section(f, s)) = Size(f[1], s)

IsSequence(f) == f \in Seq({f[i] : i \in DOMAIN f})
IsHeader(h)   == DOMAIN h = 1 .. 5 /\ h[1] = "head" /\ \A s \in 1 .. 4 : Size(h, s) \in Nat

\* A header's sizes are those of sections in the order of the file; section pages
\* follow the header's page.  There is a kernel, and what is there of a whole image
\* is as it was built.
ASSUME ImagesAssumption ==
  \A f \in Images :
    /\ IsSequence(f) /\ Len(f) >= P /\ IsHeader(f[1]) /\ Size(f[1], 1) > 0
    /\ HoldsAll(f) =>
         \A s \in 1 .. 4 : Section(f, s) = Units(Sections[s], 0, Size(f[1], s))

------------------------------------------------------------------------------
(* The scripts. *)

newHead == [head EXCEPT ![what + 1] = Len(new)]
start   == StartOf(head, what)
delta   == Space(Len(new)) - Space(Size(head, what))

Exit(status) ==
  /\ pc' = "idle" /\ ret' = status
  /\ what' = 1 /\ head' = <<>> /\ new' = <<>> /\ pos' = 0 /\ began' = <<>>

Goto(label, at) ==
  /\ pc' = label /\ pos' = at
  /\ UNCHANGED <<what, head, ret, runs, began, spoiled>>

Start(w) ==
  /\ pc = "idle" /\ runs < MaxRuns
  /\ runs' = runs + 1 /\ began' = image
  /\ what' = w /\ head' = image[1] /\ new' = <<>> /\ pos' = 0 /\ ret' = 1
  /\ pc' = IF w = 1 THEN "kernel" ELSE "ramdisk"
  /\ UNCHANGED <<image, spoiled>>

\* Where the writing starts: with moving what is behind the section to the end,
\* with the section itself when that is not needed.  The last page is read first.
BeginWriting ==
  IF delta' > 0 THEN pc' = "grow" /\ pos' = Len(image) - P
                ELSE pc' = "write" /\ pos' = 0

\* The kernel given on the command line, or none of that name.
OpenKernel ==
  /\ pc = "kernel"
  /\ \/ /\ \E n \in NewKernels : new' = Units("kernel", runs, n)
        /\ UNCHANGED <<image, what, head, ret, runs, began, spoiled>>
        /\ BeginWriting
     \/ Exit(1) /\ UNCHANGED <<image, runs, spoiled>>

\* The ramdisk is read until all of it is there, and unpacked.  The files to be
\* changed are missing from a ramdisk that has been modified already, or from
\* one of another phone; gzip finds other damage.
ModifyRamdisk ==
  /\ pc = "ramdisk"
  /\ Len(image) >= start + Size(head, 2)
  /\ \/ /\ Section(image, 2) = Units("ramdisk", 0, Size(head, 2))
        /\ \E n \in NewRamdisks : new' = Units("ramdisk", runs, n)
        /\ UNCHANGED <<image, what, head, ret, runs, began, spoiled>>
        /\ BeginWriting
     \/ Exit(1) /\ UNCHANGED <<image, runs, spoiled>>

\* Mutant of Last: the page before the last one to be moved is left out.
Last_Early == 2 * P

\* The loop goes on while the position is greater.
Last == P

MoveUp ==
  /\ pc = "grow" /\ pos > Last
  /\ image' = Write(image, pos + delta, Read(image, pos, P))
  /\ new' = new
  /\ Goto("grow", pos - P)

MovedUp ==
  /\ pc = "grow" /\ pos <= Last
  /\ UNCHANGED <<image, new>>
  /\ Goto("write", 0)

WritePage ==
  /\ pc = "write" /\ pos < Len(new)
  /\ image' = Write(image, start + pos, Padded(Read(new, pos, P)))
  /\ new' = new
  /\ Goto("write", pos + P)

SectionWritten ==
  /\ pc = "write" /\ pos >= Len(new)
  /\ UNCHANGED <<image, new>>
  /\ IF delta < 0 THEN Goto("shrink", start + Space(Size(head, what)))
                  ELSE Goto("truncate", 0)

\* Mutant of MoveDown: a last page that is not full is left behind.
MoveDown_FullPages ==
  /\ pc = "shrink" /\ pos < Len(image)
  /\ image' = IF pos + P <= Len(image) THEN Write(image, pos + delta, Read(image, pos, P))
              ELSE image
  /\ new' = new
  /\ Goto("shrink", pos + P)

MoveDown ==
  /\ pc = "shrink" /\ pos < Len(image)
  /\ image' = Write(image, pos + delta, Read(image, pos, P))
  /\ new' = new
  /\ Goto("shrink", pos + P)

MovedDown ==
  /\ pc = "shrink" /\ pos >= Len(image)
  /\ UNCHANGED <<image, new>>
  /\ Goto("truncate", 0)

Truncate ==
  /\ pc = "truncate"
  /\ image' = Resize(image, Total(newHead))
  /\ new' = new
  /\ Goto("header", 0)

WriteHeader ==
  /\ pc = "header"
  /\ image' = [image EXCEPT ![1] = newHead]
  /\ Exit(0)
  /\ UNCHANGED <<runs, spoiled>>

Kill ==
  /\ pc # "idle"
  /\ Exit(1)
  /\ spoiled' = (spoiled \/ image # began)
  /\ UNCHANGED <<image, runs>>

Step ==
  \/ OpenKernel \/ ModifyRamdisk \/ MoveUp \/ MovedUp \/ WritePage \/ SectionWritten
  \/ MoveDown \/ MovedDown \/ Truncate \/ WriteHeader

ImageInit ==
  /\ image \in Images
  /\ pc = "idle" /\ what = 1 /\ head = <<>> /\ new = <<>> /\ pos = 0 /\ ret = 1
  /\ runs = 0 /\ began = <<>> /\ spoiled = ~HoldsAll(image)

ImageNext == Start(1) \/ Start(2) \/ Step \/ Kill

------------------------------------------------------------------------------
(* Properties. *)

\* A script that ends with status 0 has replaced its section and left the others
\* as they were, each where the new header says; nothing is behind them.
OneSectionReplaced ==
  [][ pc = "header" /\ ret' = 0 /\ HoldsAll(began) =>
        /\ \A s \in 1 .. 4 :
             Section(image', s) = IF s = what THEN new ELSE Section(began, s)
        /\ Len(image') = Total(image'[1]) ]_imageVars
==============================================================================
