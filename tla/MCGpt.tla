-------------------------------- MODULE MCGpt --------------------------------
(* Small devices for TLC: two blocks of entries in three reserved ones. *)
EXTENDS Gpt

CONSTANTS a, b

\* Tables that differ in their first, in their last and in both blocks.
ThreeTables == {<<a, a>>, <<a, b>>, <<b, b>>}

\* A header the tools write from, one whose data area runs into the backup's
\* entries, and one whose altLBA points at itself.
AllGeometries ==
  { [alt |-> LastLBA, ds |-> EntryBlks + 2, de |-> LastLBA - EntryBlks - 1],
    [alt |-> LastLBA, ds |-> EntryBlks + 2, de |-> LastLBA - EntryBlks],
    [alt |-> 1,       ds |-> EntryBlks + 2, de |-> LastLBA - EntryBlks - 1] }

KdzGeometry ==
  [alt |-> LastLBA, ds |-> EntryBlks + 2, de |-> LastLBA - EntryBlks - 1]

SoundGeometry == {KdzGeometry}
==============================================================================
