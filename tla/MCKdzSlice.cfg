\* Calls for "system" with every KDZ file, killed, repeated, and with mounts.
CONSTANTS
  a = a
  b = b
  Content = {a, b}
  Garbage = garbage
  Fs = fs
  Gone = gone
  Clean = clean
  LastBlock = 5
  Table <- TheTable
  FlashFails = FALSE
  SliceName = "system"
  Kdzs <- ManyKdzs
SPECIFICATION Spec
INVARIANT TypeOK
INVARIANT QuietWhenMounted
PROPERTY OnlyVerifiedWritten
PROPERTY SuccessMeansRestored
PROPERTY OnlySpareDiscarded
