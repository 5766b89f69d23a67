SPECIFICATION FairSpec
CONSTANTS
  Graphs <- MCGraphs
  Limits = {200}
INVARIANTS
  DefinedBeforeUse
  OneTagPerType
  KeepsWhatItCan
  CdefAccepted
  WritesWhatItCan
  HeaderIsExact
PROPERTIES
  GeneratorEnds
