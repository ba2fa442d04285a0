\* A device that has OP but not userdata.
CONSTANTS
  NSlots = 4
  LastBlock = 11
  FirstData = 3
  W = 16
  Layouts <- WithoutUserdata
  CfgTexts <- AnyCfg
SPECIFICATION RmSpec
PROPERTY EveryRunEnds
