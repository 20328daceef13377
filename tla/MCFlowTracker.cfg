\* The tracker ends stopped.
CHECK_DEADLOCK FALSE
CONSTANTS
  Packets <- MCPackets
  MaxFlows = 2
  TcpTimeout = 2
  UdpTimeout = 1
  ClosedTimeout = 1
  MaxStall = 1
  MaxPackets = 3
  None = None
SPECIFICATION Spec
INVARIANTS CountersMatchTable PacketsAccounted OneRecordPerConversation DirectionMatchesKey
PROPERTIES EvictOnlyIdle IdleFlowsEvicted ReaperStops
