CONSTANTS
  a1 = a1
  Agents = {a1}
  Callers = {c1, c2}
  Depth = 1
  NoStream = NoStream
  j1 = j1
  k1 = k1
  Jobs = {j1, j2}
  Keys = {k1, k2}
  Cancels = {e1}
  Streams = {1}
  NoJob = NoJob
  Bridges = {b1, b2}
  None = None
SPECIFICATION LivenessSpec
CONSTRAINTS
  KeysInOrder
  FirstExpires
INVARIANT NoStuckEntry
PROPERTIES
  DispatchReturns
  DeadPeerReleases
  ResultArrives
  CallsReturn
  EndsTogether
CHECK_DEADLOCK FALSE
