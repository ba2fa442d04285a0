\* What does the reversal of a failed flash leave?
CONSTANTS
  o = o
  p = p
  n = n
  Block = {o, p, n}
  Gone = gone
  Zero = zero
  Absent = absent
  Stock <- TheStock
  Images <- SomeImages
  OldBackups <- SomeBackups
SPECIFICATION Spec
INVARIANT RevertRestores
