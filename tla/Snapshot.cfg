SPECIFICATION FairSpec
CONSTANTS
  Request = {r1, r2, r3}
  Name = {s1, s2}
  None = None
  Ticks = 1
INVARIANTS TypeOK StoppedDuringSnapshot BlockersHonouredOutside NoLeftoverState
PROPERTIES ResumesOnlyWhatRan EveryRequestEnds SavesOneState
