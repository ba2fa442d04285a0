\* Any number of runs, killed or failing anywhere; all command lines of up to
\* three options.
CONSTANTS
  MaxOptions = 3
  KdzHasModules = TRUE
  KdzChunks <- ChunkKinds
  MaxChunks = 2
  Phones <- SixPhones
SPECIFICATION Spec
INVARIANT TypeOK
INVARIANT RefusedForCause
 
PROPERTY ConsentedWrites
PROPERTY SavedBeforeOverwritten
