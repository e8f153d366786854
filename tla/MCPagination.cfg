SPECIFICATION PagesFairSpec
CONSTANTS
  MaxItem = 4
  Keys = {1, 2, 3, 4, 11, 12, 13}
  KeysOf <- MCKeysOf
  Requests <- MCRequests
  PageSize = 1
  ChunkSize = 2
  DefaultLimit = 2
  MaxEdits = 3
INVARIANTS
  StableItemsRead
PROPERTIES
  FetchEnds
CHECK_DEADLOCK FALSE
