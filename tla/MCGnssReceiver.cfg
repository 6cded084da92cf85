CONSTANTS
  ByteMod = 5
  Sync1 = 4
  Sync2 = 3
  ClassNav = 2
  IdPvt = 0
  MaxPayload = 3
  MaxReadPerTick = 10
  UartBuffer = 12
  TimeMod = 2
  FixTypes = {0, 3}
  Positions = {0, 1}
  OverridePositions = {1}
  MinTime = 1
  MaxSilence = 2
SPECIFICATION GnssSpec
INVARIANTS
  GnssTypeOK
  PositionNeedsFix

  
