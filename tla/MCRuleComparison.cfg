SPECIFICATION Spec
CHECK_DEADLOCK FALSE
CONSTANTS
  Groups <- MCGroups
  Leaves <- MCLeaves
  Graphs <- MCGraphs
  WantedIds <- MCWantedIds
  BareSets <- MCBareSets
  Memberships <- MCMemberships
  MaxDepth = 2
  ChunkSize = 1
  MaxEdits = 1
  Error = Error
  Labels = {"lan", "dmz"}
  Domains = {"host"}
  Codes = {"echo", "redirect"}
  NoDomain = "-"
  Broken = Broken
  address_value <- MCaddress_value
  zone_label <- MCzone_label
  service_values <- MCservice_values
  Scenarios <- MCScenarios
  Packets <- MCPackets
INVARIANTS
  RefusedIffTooDeep
  ResolvesExactly
  CoverageSound
  NewIsNeeded
