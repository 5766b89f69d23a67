SPECIFICATION Spec
CONSTANTS
  VCPU = {c0, c1}
  Nr = {n0}
  Callback = {cbA}
  NULL = NULL
  Idle = Idle
  Embedder = Embedder
SYMMETRY DispatchSymmetry
INVARIANTS TypeOK NoNullCall PairIntact RoutedByTable
PROPERTIES ServiceSpec
\* a call through NULL ends the process
CHECK_DEADLOCK FALSE
