SPECIFICATION FairSpec
CONSTANTS
  WantStore = 2
  WantStack = 2
  Reports = {"True", "False", "Unknown"}
  MayDelete = TRUE
  MaxVersions = 4
INVARIANTS TypeOK VerdictIsCurrent VerdictSawDependencies SuccessIsReady
PROPERTIES WaitNoticesVerdict
CHECK_DEADLOCK FALSE
