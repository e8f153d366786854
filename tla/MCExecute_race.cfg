SPECIFICATION Spec
CONSTANTS
  p1 = p1
  j1 = j1
  j2 = j2
  p2 = p2
  Preparers = {p1}
  Pushers = {j1, j2}
  NumRules = 2
  Drafts = {"wide", "narrow"}
  Broken = {}
  Covers <- MCCovers
  Unmatched = Unmatched
  NoEntry = NoEntry
  NoPlan = NoPlan
  NumParts = 1
  MaxVersion = 1
  MaxFaults = 1
  EditsMayRevert = TRUE
SYMMETRY PushersSymmetry
INVARIANTS
  CreatedAsPlanned
  ExecutedBeforeCreated
  OutcomesRecorded
  PushedRowsReal
PROPERTIES
  IsMigration
  PlansOnlyAdvance
CHECK_DEADLOCK FALSE
