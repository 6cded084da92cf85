CONSTANTS
  MinInterval = 1
  MaxSilence = 3
  MinStatusInterval = 2
  StatusMax = 4
  MaxJitter = 1
  BaseBackoff = 1
  MaxBackoff = 2
  SeqModulus = 3
  TimeMod = 6
  MaxStall = 2
  MaxCrashes = 1
  NoFrame = NoFrame
  NoSeq = NoSeq
  Never = Never
SPECIFICATION TxSpec
INVARIANTS
  TxTypeOK
  QueueDrained
  SilenceBounded
PROPERTIES
  NumbersAdvance
  SignsOfLifeGoOn
