CONSTANTS
  d1 = d1
  d2 = d2
  Devices = {d1, d2}
  None = None
  User = User
  MaxTaps = 3
SYMMETRY MCSymmetry
SPECIFICATION AppSpec
INVARIANTS
  ConnectedIsLinked
  GattIsOfShownDevice
  CacheIsOfItsDevice
