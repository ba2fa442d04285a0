\* The same on flash that fails a write.
CONSTANTS
  a = a
  b = b
  Content = {a, b}
  Garbage = garbage
  Fs = fs
  Gone = gone
  Clean = clean
  LastBlock = 5
  Table <- TheTable
  FlashFails = TRUE
  SliceName = "system"
  Kdzs <- ManyKdzs
SPECIFICATION Spec
PROPERTY SuccessMeansRestored
