SPECIFICATION FairSpec
CONSTANTS
  Ids <- MCIds
  HeartbeatTime = 5
  NeighborTimeout = 8
  AdjacencyTimeout = 20
  BeaconInterval = 1000
  PingBuffSize = 1
  NeighborhoodMax = 2
  AdjacencyMax = 2
  JumpThreshold = 1
  FullValue = 4
  Word = 8
  MaxAge = 21
  InboxMax = 2
  MaxCrashes = 1
  Jumps = {1}
  Late = FALSE
  Lossy = FALSE
  Prompt = TRUE
PROPERTIES Converges ParentStable
