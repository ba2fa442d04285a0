---------------------------- MODULE MCBootInstall ----------------------------
(* Boot images with pages of two units, edited and installed. *)
EXTENDS SyncFile

HeadPage(k, r, s, d) == Resize(<< <<"head", k, r, s, d>> >>, P)
Filled(name, n)      == Resize(Units(name, 0, n), Space(n))
Image(k, r, s, d) ==
  HeadPage(k, r, s, d) \o Filled("kernel", k) \o Filled("ramdisk", r)
    \o Filled("second", s) \o Filled("dt", d)

\* Kernel and ramdisk get larger, smaller, or not; with and without the optional
\* sections; with something behind them; with the last page not filled; cut off in
\* the ramdisk.
SomeImages ==
  {Image(1, 1, 1, 0) \o << <<"junk", 0, 1>>, <<"junk", 0, 2>>, <<"junk", 0, 3>> >>,
   Read(Image(5, 5, 0, 1), 0, 15),
   Read(Image(3, 3, 1, 1), 0, 8)}

\* Kernels of three pages, ramdisks that get a page more.
LargeKernels == {Image(5, 2, 0, 0)}

Old(n) == [i \in 1 .. n |-> <<"old", 0, i>>]

\* A device with room for some of the images; files: shorter, and longer, that
\* begin with an image or not.
SomeTargets ==
  {[device |-> TRUE, units |-> Old(14)],
   [device |-> FALSE, units |-> Old(2)],
   [device |-> FALSE, units |-> Image(3, 1, 1, 0) \o Old(8)]}
==============================================================================
