CONSTANTS
  me = me
  a = a
  b = b
  Nodes = {me, a, b}
  Self = me
  Senders = {a, b}
  ShortId <- MCShortId
  MaxNodes = 2
  SeqModulus = 4
  TimeMod = 4
  TickS = 10
  ExpectedInterval = 10
  Positions = {p1}
  NoPos = NoPos
  Statuses = {}
  NoStatus = NoStatus
  Names = {}
  NoName = NoName
  Empty = Empty
  SaveTicks = 2
  MaxFaults = 2
  NoKey = NoKey
SPECIFICATION StoreSpec
INVARIANTS
  StructureSurvives
  CleanMeansStored
PROPERTIES
  OnlyGrowthEndangers
  EventuallySaved
