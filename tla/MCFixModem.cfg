\* Any number of runs, failing and killed anywhere.
CONSTANTS
  Models <- AllModels
  Fallback <- H990ds
  DualSim <- TwoSims
  MiscParts = 2
  CmdLines <- SomeLines
  Extras <- SomeExtras
  Keys <- AllKeys
  Texts <- AllTexts
  ArgsSize = 18
  SimOptions = {0, 1}
  Payloads = {0, 3}
SPECIFICATION Spec
INVARIANT TypeOK
INVARIANT RerunChangesNothing
INVARIANT SimSettingsAgree
INVARIANT PipeCopiesWhole
PROPERTY OtherWordsKept
PROPERTY MiscNamedByUser
