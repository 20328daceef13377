\* A full log, or a second closing, ends the run.
CHECK_DEADLOCK FALSE
CONSTANTS
  Segments <- MCPlainSegments
  MaxSegments = 5
  MaxOpens = 1
SPECIFICATION Spec
INVARIANT BothFinsExchanged
