SPECIFICATION Spec
CONSTANTS
  Ids <- MCIds
  HeartbeatTime = 1
  NeighborTimeout = 1
  AdjacencyTimeout = 0
  BeaconInterval = 2
  PingBuffSize = 1
  NeighborhoodMax = 2
  AdjacencyMax = 2
  JumpThreshold = 1
  FullValue = 4
  Word = 8
  MaxAge = 2
  InboxMax = 1
  MaxCrashes = 1
  Jumps = {1}
  Late = FALSE
  Lossy = TRUE
  Prompt = TRUE
INVARIANTS TypeOK LinksUsable ParentsDescend CostBounded TreeInfoConsistent
PROPERTY ParentSticky
