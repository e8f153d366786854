--------------------------- MODULE RuleComparison ---------------------------
(***************************************************************************)
(* Comparing one planned rule with the policies of the target: the objects *)
(* both refer to are loaded with their groups (AddressGroups) while other  *)
(* administrators edit the groups, then the rules are resolved to values   *)
(* and compared (RuleCoverage).  A policy's id is its position.            *)
(***************************************************************************)
EXTENDS AddressGroups, RuleCoverage

CONSTANTS
  address_value,   \* Leaves -> the value of an object that is no group
  zone_label,      \* id of a zone that was found -> its normalised name
  service_values,  \* id of a service that was found -> its values
  Scenarios,       \* what is compared: memberships, planned rule and policies
  Packets          \* packets the meaning of rules is compared on

\* Ids of zones and services are numbers like those of objects.
RuleBody ==
  [action: Actions, src_zones: SUBSET Nat, dst_zones: SUBSET Nat,
   src_addr_objects: SUBSET Objects, dst_addr_objects: SUBSET Objects, services: SUBSET Nat]

ASSUME ComparisonAssumption ==
  /\ address_value \in [Leaves -> AddressValue]
  /\ \A l \in Leaves : proper_address(address_value[l])
  /\ IsFiniteSet(DOMAIN zone_label) /\ zone_label \in [DOMAIN zone_label -> Labels]
  /\ IsFiniteSet(DOMAIN service_values)
  /\ service_values \in [DOMAIN service_values -> SUBSET ServiceValue]
  /\ \A s \in DOMAIN service_values :
       /\ service_values[s] # {} /\ IsFiniteSet(service_values[s])
       /\ \A v \in service_values[s] : proper_service(v)
  /\ \A s \in Scenarios : s.planned \in RuleBody /\ s.policies \in Seq(RuleBody)
  /\ Packets \subseteq Packet

VARIABLES
  planned,   \* the RuleBody of the draft
  policies,  \* the bodies of the existing policies
  result     \* of compare_rule, NoResult before

vars == <<groupVars, planned, policies, result>>

NoResult == RuleCompareResult("none", 0)

\* _collect_rule_refs and get_sdwan_policy_catalog: the objects to load.
address_ids(rule) == rule.src_addr_objects \cup rule.dst_addr_objects

Init ==
  /\ \E s \in Scenarios :
       /\ parents = s.parents /\ planned = s.planned /\ policies = s.policies
       /\ wanted = address_ids(planned) \cup UNION {address_ids(policies[i]) : i \in DOMAIN policies}
  /\ GroupsInit
  /\ result = NoResult

----------------------------------------------------------------------------
\* _resolve_address_values, where every object resolves.
resolved_addresses(objects) == {address_value[l] : l \in UNION {resolve_leaves(o) : o \in objects}}

\* Some operand of the rule is unknown or cannot be resolved.
broken(rule) ==
  \/ \E o \in address_ids(rule) : Error \in resolve_leaves(o)
  \/ ~ rule.src_zones \cup rule.dst_zones \subseteq DOMAIN zone_label
  \/ ~ rule.services \subseteq DOMAIN service_values

zone_labels(zones) == {zone_label[z] : z \in zones}

values_of(services) == UNION {service_values[s] : s \in services}

\* Mutant of resolve_rule: the ends of the connection are swapped.
resolve_rule_swapped(rule) ==
  IF broken(rule) THEN Broken
  ELSE [action |-> normalize_action(rule.action),
        src_zones |-> zone_labels(rule.src_zones),
        dst_zones |-> zone_labels(rule.dst_zones),
        src_addresses |-> resolved_addresses(rule.dst_addr_objects),
        dst_addresses |-> resolved_addresses(rule.dst_addr_objects),
        services |-> values_of(rule.services)]

\* resolve_rule, Broken where it raises RuleValueNormalizationError.
resolve_rule(rule) ==
  IF broken(rule) THEN Broken
  ELSE [action |-> normalize_action(rule.action),
        src_zones |-> zone_labels(rule.src_zones),
        dst_zones |-> zone_labels(rule.dst_zones),
        src_addresses |-> resolved_addresses(rule.src_addr_objects),
        dst_addresses |-> resolved_addresses(rule.dst_addr_objects),
        services |-> values_of(rule.services)]

\* RulesComparer is built on what was loaded, and the draft compared.
Compare ==
  /\ pc = "done"
  /\ result = NoResult
  /\ result' \in compare_rule(resolve_rule(planned), [i \in DOMAIN policies |-> resolve_rule(policies[i])])
  /\ UNCHANGED <<groupVars, planned, policies>>

Load == GroupsNext /\ UNCHANGED <<planned, policies, result>>

Next == Load \/ Compare

Spec == Init /\ [][Next]_vars

----------------------------------------------------------------------------
\* The objects below a rule's operands along links.
members(objects, ls) == (UNION {reached(o, ls) : o \in objects}) \cap Leaves

meant(rule, ls) ==
  [src_zones |-> zone_labels(rule.src_zones), dst_zones |-> zone_labels(rule.dst_zones),
   src_addresses |-> {address_value[l] : l \in members(rule.src_addr_objects, ls)},
   dst_addresses |-> {address_value[l] : l \in members(rule.dst_addr_objects, ls)},
   services |-> values_of(rule.services)]

\* The packets a rule is for when groups are as ls says.
packets(rule, ls, empty) == {p \in Packets : admits(meant(rule, ls), p, empty)}

hollow(rule, ls) ==
  \E objects \in {rule.src_addr_objects, rule.dst_addr_objects} :
     objects # {} /\ members(objects, ls) = {}

\* Every variable has its type.
TypeOK ==
  /\ GroupsTypeOK
  /\ result.matched \in 0 .. Len(policies)
  /\ result.match_status \in {"none", "MATCH_ERROR", "EXACT_MATCH", "COVERED_MATCH", "NEW"}

\* Whatever was edited meanwhile: the packets a matched or covered rule has had
\* all along have been packets of the policy it is reported with, and that policy
\* lets them pass iff the rule does.  So no rule is dropped from the plan whose
\* traffic no policy is for.  Networks without a net are the exception: they
\* are missing from the planned groups.
CoverageSound ==
  (result.match_status \in {"EXACT_MATCH", "COVERED_MATCH"} /\ bare = {} /\ ~ hollow(planned, stable)) =>
     LET policy == policies[result.matched]
     IN  /\ passes(policy.action) = passes(planned.action)
         /\ \A empty \in BOOLEAN : packets(planned, stable, empty) \subseteq packets(policy, ever, empty)

\* Every field has one value.
single(rule) ==
  /\ Cardinality(rule.src_zones) = 1 /\ Cardinality(rule.dst_zones) = 1
  /\ Cardinality(members(rule.src_addr_objects, current)) = 1
  /\ Cardinality(members(rule.dst_addr_objects, current)) = 1
  /\ Cardinality(values_of(rule.services)) = 1

\* No operand is empty.
complete(rule) ==
  /\ rule.src_zones # {} /\ rule.dst_zones # {} /\ rule.services # {}
  /\ rule.src_addr_objects # {} /\ rule.dst_addr_objects # {}

\* When nothing was edited, a rule with complete operands is new only if no
\* resolvable policy with one value in each field is for all its packets with the
\* same effect: what one policy of the simplest form does is not planned again.
NewIsNeeded ==
  (result.match_status = "NEW" /\ edits = 0 /\ bare = {} /\ complete(planned)) =>
     \A i \in DOMAIN policies :
       (~ broken(policies[i]) /\ single(policies[i]) /\ passes(policies[i].action) = passes(planned.action))
         => \E empty \in BOOLEAN :
               ~ packets(planned, current, empty) \subseteq packets(policies[i], current, empty)
=============================================================================
