CONSTANTS
  Bridges = {b1, b2}
  None = None
SPECIFICATION RelaySpec
INVARIANT AgentIsAwaited
SYMMETRY Symmetry
CHECK_DEADLOCK FALSE
