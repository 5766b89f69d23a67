SPECIFICATION FairSpec
CONSTANTS
  Startup = Startup
  Worker = Worker
  None = None
  Nested = FALSE
INVARIANTS TypeOK BqlScoped HookRunsOnce
PROPERTIES HookReturns
\* the callback's refusal ends the process
CHECK_DEADLOCK FALSE
