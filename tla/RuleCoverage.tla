---------------------------- MODULE RuleCoverage ----------------------------
(***************************************************************************)
(* The comparison of a planned rule with the existing policies by their    *)
(* normalised values (RulesComparer and the value objects of               *)
(* RuleValuesResolver), and what such a rule means: the packets it is for. *)
(*                                                                         *)
(* An address value is an inclusive span of integers or a domain name, a   *)
(* service value a protocol with ports (TCP, UDP) or codes (ICMP).  Names  *)
(* are members of small sets, taken after _normalize_text.  The details    *)
(* of a coverage, shown to the user, are left out.                         *)
(***************************************************************************)
EXTENDS Integers, Sequences, FiniteSets

CONSTANTS
  Labels,    \* normalised zone names
  Domains,   \* normalised domain names
  Codes,     \* normalised ICMP codes
  NoDomain,  \* in the domain field of a span
  Broken     \* a rule that cannot be normalised

ASSUME CoverageAssumption == NoDomain \notin Domains /\ Codes # {}

Kinds == {"ipv4", "fqdn"}

Protocols == {"ANY", "TCP", "UDP", "ICMP", "IP_IP"}

PortProtocols == {"TCP", "UDP"}

AddressValue == [kind: Kinds, start: Nat, end: Nat, domain: Domains \cup {NoDomain}]

AddressSpan(start, end) ==
  [kind |-> "ipv4", start |-> start, end |-> end, domain |-> NoDomain]

FqdnValue(domain) == [kind |-> "fqdn", start |-> 0, end |-> 0, domain |-> domain]

ServiceValue == [proto: Protocols, port_start: Nat, port_end: Nat, codes: SUBSET Codes]

port_range(proto, start, end) ==
  [proto |-> proto, port_start |-> start, port_end |-> end, codes |-> {}]

icmp(codes) == [proto |-> "ICMP", port_start |-> 0, port_end |-> 0, codes |-> codes]

protocol_only(proto) == [proto |-> proto, port_start |-> 0, port_end |-> 0, codes |-> {}]

\* What is refused is left out: ranges that end before they start, services without a code.
proper_address(v) == IF v.kind = "ipv4" THEN v.start <= v.end ELSE v.domain \in Domains

proper_service(v) ==
  /\ v.proto \in PortProtocols => v.port_start <= v.port_end
  /\ v.proto = "ICMP" => v.codes # {}

Actions == {"ACCEPT", "REJECT", "DROP"}

NormalizedRuleValues ==
  [action: {"ACCEPT", "REJECT"},
   src_zones: SUBSET Labels, dst_zones: SUBSET Labels,
   src_addresses: SUBSET AddressValue, dst_addresses: SUBSET AddressValue,
   services: SUBSET ServiceValue]

ASSUME BrokenAssumption == Broken \notin NormalizedRuleValues

----------------------------------------------------------------------------
\* AddressSpan.covers and FqdnValue.covers: only values of one kind compare.
address_covers(v, w) ==
  /\ v.kind = w.kind
  /\ v.kind = "ipv4" => v.start <= w.start /\ w.end <= v.end
  /\ v.kind = "fqdn" => v.domain = w.domain

\* ServiceValue.covers, where the protocols agree.
same_proto_covers(v, w) ==
  /\ v.proto = "ICMP" => w.codes \subseteq v.codes
  /\ v.proto \in PortProtocols => v.port_start <= w.port_start /\ w.port_end <= v.port_end

\* Mutant of service_covers: ANY covers itself only.
service_covers_any(v, w) == v.proto = w.proto /\ same_proto_covers(v, w)

\* ServiceValue.covers: ANY covers every service and only ANY covers ANY.
service_covers(v, w) ==
  \/ v.proto = "ANY"
  \/ w.proto # "ANY" /\ v.proto = w.proto /\ same_proto_covers(v, w)

\* _analyze_values_coverage and _str_set_covers: an empty operand covers only an
\* empty one; otherwise each planned value is covered by one existing value.
values_cover(existing, planned, covers(_, _)) ==
  /\ planned = {} <=> existing = {}
  /\ \A p \in planned : \E e \in existing : covers(e, p)

same(v, w) == v = w

\* _normalize_action: a rejected and a dropped packet are both blocked.
normalize_action(action) == IF action \in {"REJECT", "DROP"} THEN "REJECT" ELSE "ACCEPT"

\* analyze_coverage
is_covered(existing, planned) ==
  /\ existing.action = planned.action
  /\ values_cover(existing.src_zones, planned.src_zones, same)
  /\ values_cover(existing.dst_zones, planned.dst_zones, same)
  /\ values_cover(existing.src_addresses, planned.src_addresses, address_covers)
  /\ values_cover(existing.dst_addresses, planned.dst_addresses, address_covers)
  /\ values_cover(existing.services, planned.services, service_covers)

\* Positions of the existing policies that a test accepts; broken ones are left
\* out by the constructor of RulesComparer.
candidates(existing, test(_)) ==
  {i \in DOMAIN existing : existing[i] # Broken /\ test(existing[i])}

\* The earliest position, in a set of its own.
first(positions) == {i \in positions : \A j \in positions : i <= j}

RuleCompareResult(status, matched) == [match_status |-> status, matched |-> matched]

\* compare_rule on normalised rules: the set of the one result; matched is a
\* position, 0 for none.  An exact match is looked for first.
compare_rule(planned, existing) ==
  LET exact == candidates(existing, LAMBDA e : e = planned)
      covering == candidates(existing, LAMBDA e : is_covered(e, planned))
  IN  IF planned = Broken THEN {RuleCompareResult("MATCH_ERROR", 0)}
      ELSE IF exact # {} THEN {RuleCompareResult("EXACT_MATCH", i) : i \in first(exact)}
      ELSE IF covering # {} THEN {RuleCompareResult("COVERED_MATCH", i) : i \in first(covering)}
      ELSE {RuleCompareResult("NEW", 0)}

----------------------------------------------------------------------------
(* What rules mean.  An end of a connection has an address and a name; a    *)
(* packet has two ends, the labels of their zones and a service.            *)

End == [ip: Nat, name: Domains \cup {NoDomain}]

\* "OTHER" stands for the protocols only ANY is for.
PacketService == [proto: (Protocols \ {"ANY"}) \cup {"OTHER"}, port: Nat, code: Codes]

Packet == [src_zone: Labels, dst_zone: Labels, src: End, dst: End, service: PacketService]

address_has(v, end) ==
  /\ v.kind = "ipv4" => v.start <= end.ip /\ end.ip <= v.end
  /\ v.kind = "fqdn" => end.name = v.domain

service_has(v, s) ==
  \/ v.proto = "ANY"
  \/ /\ v.proto = s.proto
     /\ v.proto = "ICMP" => s.code \in v.codes
     /\ v.proto \in PortProtocols => v.port_start <= s.port /\ s.port <= v.port_end

\* The controller may read an empty operand as everything or as nothing.
operand_has(values, x, has(_, _), empty) ==
  \/ values = {} /\ empty
  \/ \E v \in values : has(v, x)

admits(rule, packet, empty) ==
  /\ operand_has(rule.src_zones, packet.src_zone, same, empty)
  /\ operand_has(rule.dst_zones, packet.dst_zone, same, empty)
  /\ operand_has(rule.src_addresses, packet.src, address_has, empty)
  /\ operand_has(rule.dst_addresses, packet.dst, address_has, empty)
  /\ operand_has(rule.services, packet.service, service_has, empty)

\* Whether the packets of a rule pass.
passes(action) == action = "ACCEPT"
=============================================================================
