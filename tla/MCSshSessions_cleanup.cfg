CONSTANTS
  Sessions = {x1}
  Ports <- TwoPorts
  NoPort = 0
  Streams = {s1, s2}
SPECIFICATION FairSpec
PROPERTY ExpiredReturnsPort
CHECK_DEADLOCK FALSE
