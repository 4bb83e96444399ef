SPECIFICATION Spec
CONSTANTS
  Ids <- MCIds
  Links <- MCLinks
  Payloads <- MCPayloads
  Originals <- MCRecordFirst
  HopLimit = 4
  HopWord = 8
  Byte = 32
  MaxExtensions = 4
  BoxMax = 2
INVARIANT ExtensionsRead
CHECK_DEADLOCK FALSE
