CONSTANTS
  j1 = j1
  k1 = k1
  Jobs = {j1}
  Keys = {k1}
  Cancels = {}
  Streams = {1, 2}
  NoJob = NoJob
SPECIFICATION FairSpec
PROPERTIES
  DispatchedIsResolved
CHECK_DEADLOCK FALSE
