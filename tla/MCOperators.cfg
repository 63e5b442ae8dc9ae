CONSTANTS
  j1 = j1
  k1 = k1
  Jobs = {j1, j2, j3}
  Keys = {k1, k2}
  Cancels = {c1}
  Streams = {1, 2}
  NoJob = NoJob
  LastRank = 3
  PageSize = 2
  MaxRequests = 2
SPECIFICATION OperatorsSpec
SYMMETRY Symmetry
CONSTRAINTS
  OneExpires
  LastIsFirst
INVARIANTS
  OneEffectPerKey
  RefusedHasNoEffect
  ResultsUnderWay
  SelectedInRange
  DispatchedAsConfirmed
PROPERTIES
  PromiseSpec
CHECK_DEADLOCK FALSE
