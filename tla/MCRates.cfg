\* The clock or the packets run out.
CHECK_DEADLOCK FALSE
CONSTANTS
  Packets <- MCFlood
  Second = 2
  AlphaNum = 1
  AlphaDen = 2
  StaleSec = 1
  EwmaWindow = 2
  MediumMultiplier = 2
  HighMultiplier = 3
  PpsFloor = 2
  SynRate = 2
  SynRatioNum = 7
  SynRatioDen = 10
  SynWindow = 2
  ScanWindow = 2
  ScanThreshold = 2
  ScanRatioNum = 7
  ScanRatioDen = 10
  SuppressionSec = 2
  BruteRate = 2
  TxtRate = 1
  ExfilRate = 4
  Uptime = 2
  MaxStall = 1
  MaxTime = 7
  MaxPackets = 6
  None = None
SPECIFICATION Spec
INVARIANTS
  BruteForceIsReal
  SustainedBruteForceIsFound
  FloodIsReal
  SustainedFloodIsFound
  VolumeIsSpike
