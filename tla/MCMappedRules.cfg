SPECIFICATION Spec
CONSTANTS
  NONE = NONE
  AddressBits = 3
  NormalName <- MCNormalName
  IcmpMessages <- MCIcmpMessages
  MaxGroupDepth = 3
  PageSize = 2
  Worlds <- MCWorlds
  Sessions = {"s1", "s2"}
  ManualBase = 1000
INVARIANTS
  MatchExact
  MappedIsPlanned
  ShownIsCurrent
  SelectionFollowsClicks
  FilterAgreesWithScope
PROPERTIES
  MappingWhole
CHECK_DEADLOCK FALSE
