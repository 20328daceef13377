CHECK_DEADLOCK FALSE
CONSTANTS
  MaxCapacity = 2
  MaxPackets = 2
  MaxSignals = 1
  DeviceFails = FALSE
  Nil = Nil
SPECIFICATION Spec
PROPERTY ConsumerDrains
