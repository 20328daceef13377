\* The layer ends "stopped" or "failed".
CHECK_DEADLOCK FALSE
CONSTANTS
  MaxAlerts = 4
  DISPLAY_RING_SIZE = 2
SPECIFICATION Spec
INVARIANTS EveryAlertOnce RingShowsLatest NoUseAfterStop
PROPERTIES ImplementsAlertLog StopReturnsUnlessRaced
