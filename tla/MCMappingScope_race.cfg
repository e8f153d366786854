SPECIFICATION Spec
CONSTANTS
  j1 = j1
  j2 = j2
  j3 = j3
  Jobs = {j1, j2, j3}
  Menus <- RaceMenus
  NumEntities = 4
  KindOf <- MCKindOf
  Supported = {2}
  Rules = {"r1", "r2"}
  Uses <- MCUses
  Objects = {"a1", "a2", "a3", "z1", "z2"}
  Existing = {"a1", "a2", "z1"}
  TypeOf <- MCTypeOf
  Matches <- MCMatches
  NoObject = NoObject
  NoResult = NoResult
  NoCommand = NoCommand
  MaxFaults = 1
  MaxEdits = 1
SYMMETRY JobsSymmetry
INVARIANTS
  SelectedExisted
  OperandsResolve
  BaselineCurrent
PROPERTIES
  ResultsOnlyAdvance
  ManualResultOnce
CHECK_DEADLOCK FALSE
