\* A full log, or a second closing, ends the run.
CHECK_DEADLOCK FALSE
CONSTANTS
  Segments <- MCSegments
  MaxSegments = 5
  MaxOpens = 2
SPECIFICATION Spec
INVARIANTS EstablishedMeansHandshake HandshakesCounted CountersMatchSession ClosedIffFinished
