CONSTANTS
  a1 = a1
  Agents = {a1}
  Streams = {s1, s2}
  Callers = {c1, c2}
  AgentOf <- OfOneAgent
  Depth = 1
  NoStream = NoStream
  Inits = {c1, c2}
  Validators = {s1, s2}
  LastVersion = 2
  MaxCommits = 2
  Nil = Nil
SPECIFICATION ValidatorSpec
SYMMETRY Symmetry
INVARIANTS
  TypeOK
  HolderIsOnline
  OnlineHasHolder
  DispatchAtMostOnce
  ServedRowOnline
  EnvMeansComplete
  DatabaseSurvives
PROPERTIES
  LeaseSpec
  SocketKept
CHECK_DEADLOCK FALSE
