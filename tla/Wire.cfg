SPECIFICATION FairSpec
CONSTANTS
  Ids <- MCIds
  Links <- MCLinks
  Payloads <- MCPayloads
  Originals <- MCOriginals
  HopLimit = 4
  HopWord = 8
  Byte = 32
  MaxExtensions = 4
  BoxMax = 2
INVARIANTS TrailsSimple HopsCounted
PROPERTIES FloodSpec Quiesces Reaches
CHECK_DEADLOCK FALSE
