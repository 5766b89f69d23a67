SPECIFICATION Spec
CONSTANTS
  SystemArches <- MCSystemArches
  KvmTargets <- MCKvmTargets
  MaxRuns = 3
  MaxVersions = 2
INVARIANTS
  ShipsWhatWasAsked
  FailsOnlyIfRefused
\* the bounds on runs and versions
CHECK_DEADLOCK FALSE
