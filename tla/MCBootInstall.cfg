\* Two runs of the scripts and any number of syncfile, killed anywhere.
CONSTANTS
  P = 2
  Images <- SomeImages
  NewKernels = {3}
  NewRamdisks = {3}
  MaxRuns = 2
  Targets <- SomeTargets
  BlockSizes = {"right", "huge", "negative"}
SPECIFICATION Spec
INVARIANT TypeOK
INVARIANT InstalledBoots
PROPERTY OneSectionReplaced
PROPERTY SyncedMeansCopied
PROPERTY EveryRunEnds
