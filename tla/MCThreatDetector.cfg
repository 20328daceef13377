\* The clock or the packets run out.
CHECK_DEADLOCK FALSE
CONSTANTS
  Packets <- MCPackets
  Second = 1
  AlphaNum = 1
  AlphaDen = 2
  StaleSec = 2
  EwmaWindow = 1
  MediumMultiplier = 2
  HighMultiplier = 3
  PpsFloor = 1
  SynRate = 1
  SynRatioNum = 7
  SynRatioDen = 10
  SynWindow = 1
  ScanWindow = 2
  ScanThreshold = 2
  ScanRatioNum = 7
  ScanRatioDen = 10
  SuppressionSec = 2
  BruteRate = 1
  TxtRate = 1
  ExfilRate = 4
  Uptime = 2
  MaxStall = 1
  MaxTime = 4
  MaxPackets = 4
  None = None
SPECIFICATION Spec
INVARIANTS
  AlertsSpaced
  SuppressedHasCause
  DetectionIsReal
  TwiceTheThresholdIsDetected
