CONSTANTS
  Sessions = {x1, x2}
  Ports <- TwoPorts
  NoPort = 0
  Streams = {y1, y2}
  MaxChunks = 2
  Commands = {r1}
  Cleanups = {e1, e2}
  Previews = {v1}
  Paths = {f1, f2}
  Reboots = {b1}
  MaxOutput = 1
  Connections = {y1, y2}
  MaxReadings = 3
  LastTick = 2
  Minute = 2
  MaxCounter = 3
  Unit = 2
  MaxFields = 5
  MaxRows = 4
  Limit = 2
  Migrations = {x1, x2}
  MaxEdits = 1
  Nobody = Nobody
SPECIFICATION MachinesSpec
SYMMETRY Symmetry
INVARIANTS
  ReadyHasKeyUnlessRaced
  ReadyIsExpected
  LastWordsArrive
  ReturnedIsOver
  ExecutedIsAudited
  ConsentUsedOnce
  TablesOfStored
  ReadingsAreExact
  OverwritesOnlyWhatCameLater
  SaidOkIsTransferred
PROPERTIES
  SshPromiseSpec
CHECK_DEADLOCK FALSE
