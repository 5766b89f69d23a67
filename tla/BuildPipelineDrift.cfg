SPECIFICATION Spec
CONSTANTS
  SystemArches <- MCSystemArches
  KvmTargets <- MCKvmTargets
  MaxRuns = 3
  MaxVersions = 2
INVARIANTS
  NothingDrifts
CHECK_DEADLOCK FALSE
