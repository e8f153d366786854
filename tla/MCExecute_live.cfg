SPECIFICATION FairSpec
CONSTANTS
  p1 = p1
  p2 = p2
  j1 = j1
  j2 = j2
  Preparers = {p1}
  Pushers = {j1}
  NumRules = 2
  Drafts = {"wide", "odd"}
  Broken = {"odd"}
  Covers <- MCCovers
  Unmatched = Unmatched
  NoEntry = NoEntry
  NoPlan = NoPlan
  NumParts = 2
  MaxVersion = 1
  MaxFaults = 1
  EditsMayRevert = FALSE
INVARIANTS
  CatalogWasCurrent
PROPERTIES
  ExecutedIsReported
CHECK_DEADLOCK FALSE
