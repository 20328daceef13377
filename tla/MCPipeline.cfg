\* The process ends, in "exit" or "aborted".
CHECK_DEADLOCK FALSE
CONSTANTS
  MaxCapacity = 1
  MaxPackets = 3
  MaxSignals = 2
  DeviceFails = TRUE
  Nil = Nil
SPECIFICATION Spec
INVARIANTS UsersOutlived SummaryAddsUp ExitReleasesAll
PROPERTY ShutdownEndsUnlessRaced
