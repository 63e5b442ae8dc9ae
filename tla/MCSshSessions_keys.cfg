CONSTANTS
  Sessions = {x1, x2}
  Ports <- TwoPorts
  NoPort = 0
  Streams = {s1, s2}
SPECIFICATION Spec
INVARIANT ReadyHasKey
CHECK_DEADLOCK FALSE
