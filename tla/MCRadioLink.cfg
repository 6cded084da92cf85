CONSTANTS
  me = me
  a = a
  b = b
  Nodes = {me, a, b}
  Self = me
  Senders = {a, b}
  ShortId <- MCShortId
  MaxNodes = 2
  SeqModulus = 6
  TimeMod = 3
  TickS = 4
  ExpectedInterval = 1
  FirstIdx <- MCFirstIdx
  LastIdx <- MCLastIdx
  MaxInAir = 2
  Positions <- MCIndices
  NoPos = NoPos
  Statuses <- MCIndices
  NoStatus = NoStatus
  Names = {}
  NoName = NoName
  Empty = Empty
SPECIFICATION LinkSpec
INVARIANTS
  NumberIsOfHeard
PROPERTIES
  SamplesNeverRegress
