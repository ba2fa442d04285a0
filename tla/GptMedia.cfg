\* Both ways of opening the device; power cuts only where O_SYNC is used.
CONSTANTS
  a = a
  b = b
  Content = {a, b}
  Tables <- ThreeTables
  Junk = Junk
  NoGpt = NoGpt
  TableBlks = 2
  EntryBlks = 3
  LastLBA = 10
  Wrap = 32
  Geometries <- SoundGeometry
  ImageGeometry <- KdzGeometry
  Starts = {"both", "primaryOnly"}
  PartialTail = FALSE
  PowerCutUnsynced = TRUE
SPECIFICATION Spec
PROPERTY BackupReachesMediaFirst
