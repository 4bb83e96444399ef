SPECIFICATION FairSpec
CONSTANTS
  MaxRetry = 1
  Packets <- MCPackets
  Capacity = 2
  NULL = NULL
  MaxFaults = 1
INVARIANTS TypeOK GroupAlive RetriesHonest Owned OnlySentLeak
PROPERTIES Decided Runs Handled
CHECK_DEADLOCK FALSE
