\* Any number of runs, each killed or failing anywhere, with changing images.
CONSTANTS
  o = o
  p = p
  n = n
  Block = {o, p, n}
  Gone = gone
  Zero = zero
  Absent = absent
  Stock <- TheStock
  Images <- SomeImages
  OldBackups <- SomeBackups
SPECIFICATION Spec
INVARIANT TypeOK
INVARIANT BackupHeldWhileFlashing
INVARIANT FinishedMeansFlashed
PROPERTY OriginalLostOnlyLater
