CONSTANTS
  me = me
  a = a
  b = b
  c = c
  Nodes = {me, a, b, c}
  Self = me
  Senders = {a, b, c}
  ShortId <- MCShortId
  MaxNodes = 3
  SeqModulus = 4
  TimeMod = 3
  TickS = 4
  ExpectedInterval = 1
  Positions = {p1}
  NoPos = NoPos
  Statuses = {s1}
  NoStatus = NoStatus
  Names = {n1}
  NoName = NoName
  Empty = Empty
SYMMETRY MCSymmetry
SPECIFICATION Spec
INVARIANTS
  TypeOK
  UniqueIdentity
  SelfTracked
  DenseSlots
  CollisionFlagsExact
PROPERTIES
  NoTimeTravel
  NothingErased
  EvictsOnlyOldestStale
