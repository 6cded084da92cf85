CONSTANTS
  me = me
  a = a
  b = b
  c = c
  Nodes = {me, a, b, c}
  Self = me
  Senders = {me, a, b, c}
  ShortId <- MCShortId
  MaxNodes = 3
  SeqModulus = 4
  TimeMod = 3
  TickS = 4
  ExpectedInterval = 1
  Positions = {p1}
  NoPos = NoPos
  Statuses = {}
  NoStatus = NoStatus
  Names = {}
  NoName = NoName
  Empty = Empty
SYMMETRY MCSymmetry
SPECIFICATION Spec
PROPERTIES
  ImplementsDirectory
