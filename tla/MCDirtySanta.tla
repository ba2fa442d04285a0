---------------------------- MODULE MCDirtySanta ----------------------------
(* Slices of one to three blocks; images that are shorter, as long as, or *)
(* longer than aboot.                                                      *)
EXTENDS DirtySanta

CONSTANTS o, p, n

TheStock == [s \in Slices |-> CASE s = "aboot" -> <<o, o, p>>
                                [] s = "fdt"   -> <<p, o>>
                                [] OTHER       -> <<o>>]

\* None, an empty one, one that begins like aboot, others.
SomeImages == {Absent, <<>>, <<o, o>>, <<n, n>>, <<n, o, n>>, <<n, n, n, n>>}

\* Shorter, longer and as long as the slices.
SomeBackups == {<<p>>, <<o, o, p, n>>, <<p, p, p>>}
==============================================================================
