SPECIFICATION Spec
CONSTANTS
  MaxInner = 3
  MaxOuter = 5
  Limits = {2, 4, 12}
  Inputs <- MCInputs
INVARIANTS
  HeaderIsExact
  OpaqueOnlyIfUnrepairable
  ConvergesWithinBound
PROPERTIES
  RepairsMoveForward
