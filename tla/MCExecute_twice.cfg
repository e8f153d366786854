SPECIFICATION Spec
CONSTANTS
  p1 = p1
  p2 = p2
  j1 = j1
  j2 = j2
  Preparers = {p1}
  Pushers = {j1, j2}
  NumRules = 1
  Drafts = {"wide", "narrow"}
  Broken = {}
  Covers <- MCCovers
  Unmatched = Unmatched
  NoEntry = NoEntry
  NoPlan = NoPlan
  NumParts = 1
  MaxVersion = 0
  MaxFaults = 0
  EditsMayRevert = TRUE
INVARIANTS
  OnePermittedPush
CHECK_DEADLOCK FALSE
