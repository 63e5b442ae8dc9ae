CONSTANTS
  a1 = a1
  Agents = {a1}
  Streams = {s1, s2}
  Callers = {}
  AgentOf <- OfOneAgent
  Depth = 1
  NoStream = NoStream
SPECIFICATION Spec
INVARIANT NoPanic
CHECK_DEADLOCK FALSE
