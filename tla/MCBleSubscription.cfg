CONSTANTS
  Nodes = {a, b, c}
  Facts = {x, y}
  MaxNodes = 2
  BatchMax = 1
  Window = 2
  MaxLate = 1
  MaxAge = 1
  StaleAge = 1
  NoRecord = NoRecord
SPECIFICATION SubSpec
SYMMETRY NodesAndFacts
INVARIANTS
  SubTypeOK
  ShownOrQueuedOrMissed
PROPERTIES
  TimeAloneQueuesNothing
  TurnsComeNearer
