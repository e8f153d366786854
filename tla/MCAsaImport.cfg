SPECIFICATION Spec
CONSTANTS
  Digits <- MCDigits
  IpTokens <- MCIpTokens
  Builtin <- MCBuiltin
  NameZones <- MCNameZones
  Prefix <- MCPrefix
  IcmpTypes <- MCIcmpTypes
  MaxPort = 3
  Configs <- MCConfigs
  AddressPoints <- MCAddressPoints
  SpanPoints <- MCSpanPoints
  NetPoints <- MCNetPoints
  AllHosts <- Hosts
  AllServices <- Points
  IcmpNames <- MCIcmpNames
INVARIANTS
  NeverWider
  LossReported
  TracesLeadBack
  RulesKeepLines
