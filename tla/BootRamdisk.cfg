\* A ramdisk that gets a page more, behind a kernel of three pages.
CONSTANTS
  P = 2
  Images <- LargeKernels
  NewKernels = {5}
  NewRamdisks = {2, 3}
  MaxRuns = 2
  Targets <- SomeTargets
  BlockSizes = {"right", "huge", "negative"}
SPECIFICATION Spec
PROPERTY OneSectionReplaced
