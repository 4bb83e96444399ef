SPECIFICATION Spec
CONSTANTS
  Ids <- MCIds
  Self = 2
  Peers = {1, 3}
  HeartbeatTime = 1
  NeighborTimeout = 1
  AdjacencyTimeout = 1
  BeaconInterval = 2
  PingBuffSize = 1
  NeighborhoodMax = 1
  AdjacencyMax = 2
  JumpThreshold = 1
  FullValue = 4
  Word = 8
  MaxAge = 2
  MaxCost = 0
  Reports = {}
  Jumps = {1}
INVARIANT ParentRecorded
