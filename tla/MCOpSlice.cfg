\* Either program any number of times, with kills, resets and failures.
CONSTANTS
  NSlots = 4
  LastBlock = 11
  FirstData = 3
  W = 16
  Layouts <- AllLayouts
  CfgTexts <- AnyCfg
  KdzGpts <- TwoKdz
  OpSize = 3
  StraySizes <- AnyStray
  OpFirst = TRUE
SPECIFICATION Spec
INVARIANT TypeOK
INVARIANT CfgTextKept
INVARIANT SlicesKept
INVARIANT NothingInUseErased
PROPERTY RestoredTable
PROPERTY UserdataStays
PROPERTY OnlyCutShortRefuses
PROPERTY TrueMeansRestored
PROPERTY OpGoneAfterCfg
PROPERTY EveryRunEnds
