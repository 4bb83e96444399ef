SPECIFICATION FairSpec
CONSTANTS
  Ids <- MCIds
  Self = 2
  Peers = {1, 3}
  HeartbeatTime = 1
  NeighborTimeout = 1
  AdjacencyTimeout = 1
  BeaconInterval = 2
  PingBuffSize = 1
  NeighborhoodMax = 2
  AdjacencyMax = 2
  JumpThreshold = 0
  FullValue = 4
  Word = 8
  MaxAge = 2
  MaxCost = 0
  Reports = {2}
  Jumps = {1}
INVARIANTS TypeOK EntriesUnique AncestorFlag ParentRecorded
PROPERTIES ParentKept SilentParentLeft
