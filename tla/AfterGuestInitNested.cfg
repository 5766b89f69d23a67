SPECIFICATION FairSpec
CONSTANTS
  Startup = Startup
  Worker = Worker
  None = None
  Nested = TRUE
INVARIANTS NoLockOrderDeadlock
\* the callback's refusal ends the process
CHECK_DEADLOCK FALSE
