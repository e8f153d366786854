-------------------------- MODULE MCRuleComparison --------------------------
(***************************************************************************)
(* Three groups and three objects, two levels of groups.  Either the       *)
(* memberships vary and the rules name groups and objects, or nothing is   *)
(* nested and every field of the rules varies.                             *)
(***************************************************************************)
EXTENDS RuleComparison, TLC

MCGroups == {1, 2, 3}
MCLeaves == {4, 5, 6}

MCaddress_value == (4 :> AddressSpan(0, 1)) @@ (5 :> AddressSpan(1, 1)) @@ (6 :> FqdnValue("host"))

MCzone_label == (1 :> "lan") @@ (2 :> "dmz")

MCservice_values ==
  (1 :> {protocol_only("ANY")}) @@ (2 :> {port_range("TCP", 1, 2)}) @@ (3 :> {port_range("TCP", 2, 3)})
  @@ (4 :> {icmp({"echo"})}) @@ (5 :> {icmp({"echo", "redirect"})}) @@ (6 :> {protocol_only("IP_IP")})
  @@ (7 :> {port_range("UDP", 2, 2), port_range("TCP", 2, 2)})

Few(set) == {s \in SUBSET set : Cardinality(s) <= 1}

MCMemberships == {{}, {1}, {3}}

NestedGraphs ==
  {g \in [Objects -> Few(Groups)] :
     1 \notin g[1] /\ 3 \notin g[3] /\ g[4] # {} /\ g[5] \in {{1}, {3}} /\ g[6] \in {{}, {3}}}

body(action, zones, src, dst, services) ==
  [action |-> action, src_zones |-> zones[1], dst_zones |-> zones[2],
   src_addr_objects |-> src, dst_addr_objects |-> dst, services |-> services]

between(src, dst) == body("ACCEPT", <<{1}, {2}>>, src, dst, {2})

NestedScenarios ==
  {[parents |-> g, planned |-> pair[1], policies |-> <<pair[2]>>] :
     g \in NestedGraphs,
     pair \in {<<between({1}, {4}), between({2}, {4})>>,
               <<between({1}, {4}), between({4}, {4})>>,
               <<between({4, 5}, {1}), between({4}, {2})>>}}

FlatGraph == [o \in Objects |-> CASE o \in {4, 5} -> {1} [] o = 6 -> {2} [] OTHER -> {}]

flat(action, zones, src, services) == body(action, zones, src, {4}, services)

SomeServices == Few(1 .. 8) \cup {{2, 3}, {2, 7}, {4, 6}}

FlatPairs ==
  (  {flat(a, <<{1}, {2}>>, {4}, {2}) : a \in Actions} \X {flat(a, <<{1}, {2}>>, {4}, {2}) : a \in Actions})
  \cup ({flat("ACCEPT", <<z, {2}>>, {4}, {2}) : z \in SUBSET {1, 2, 3}} \X {flat("ACCEPT", <<z, {2}>>, {4}, {1}) : z \in SUBSET {1, 2}})
  \cup ({flat("DROP", <<{1}, z>>, {4}, {2}) : z \in SUBSET {1, 2}} \X {flat("REJECT", <<{1}, z>>, {4}, {2}) : z \in SUBSET {1, 2}})
  \cup ({flat("ACCEPT", <<{1}, {2}>>, {4}, s) : s \in SomeServices} \X {flat("ACCEPT", <<{1}, {2}>>, {4}, s) : s \in SomeServices})
  \cup ({flat("ACCEPT", <<{1}, {2}>>, a, {2}) : a \in SUBSET {1, 5, 6}} \X {flat("ACCEPT", <<{1}, {2}>>, a, {2}) : a \in SUBSET {1, 4, 6}})

FlatScenarios ==
  {[parents |-> FlatGraph, planned |-> pair[1], policies |-> <<flat("ACCEPT", <<{3}, {2}>>, {4}, {2}), pair[2]>>] :
     pair \in FlatPairs}

MCScenarios == NestedScenarios \cup FlatScenarios

MCGraphs == NestedGraphs \cup {FlatGraph}

MCWantedIds == SUBSET Objects

MCBareSets == {{}, {5}}

MCPackets ==
  [src_zone: Labels, dst_zone: Labels, src: [ip: 0 .. 2, name: {"host", NoDomain}],
   dst: [ip: 0 .. 2, name: {NoDomain}] \cup {[ip |-> 2, name |-> "host"]},
   service: {[proto |-> "OTHER", port |-> 0, code |-> "echo"], [proto |-> "IP_IP", port |-> 0, code |-> "echo"]}
     \cup {[proto |-> "TCP", port |-> n, code |-> "echo"] : n \in 1 .. 3}
     \cup {[proto |-> "UDP", port |-> 2, code |-> "echo"]}
     \cup {[proto |-> "ICMP", port |-> 0, code |-> c] : c \in Codes}]
=============================================================================
