CONSTANTS
  AirRates = {2, 3}
  Channels = {1, 2}
  PresetRate = 2
  PresetChannel = 1
  MinAirRate = 2
  MaxWaiting = 2
  Absent = Absent
  FirstStores <- MCFirstStores
  Intervals = {20}
  Silences = {4}
  Distances = {0}
  MaxCommands = 2
  MaxFaults = 2
SPECIFICATION ProvSpec
INVARIANTS
  LoneFrameDecodes
  ReportedIsTuned
  WhatBootsIsLegal
  StoredIsPromised
