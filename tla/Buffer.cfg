SPECIFICATION FairSpec
CONSTANTS
  p1 = p1
  p2 = p2
  p3 = p3
  p4 = p4
  send = send
  recv = recv
  engine1 = engine1
  engine2 = engine2
  Packets <- MCPackets
  Capacity = 2
  Pushers <- MCPushers
  Poppers <- MCPoppers
  NULL = NULL
  None = None
INVARIANTS TypeOK SlotsMatch
PROPERTIES FifoSpec CallsReturn Drains
