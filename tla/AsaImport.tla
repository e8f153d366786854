----------------------------- MODULE AsaImport -----------------------------
(***************************************************************************)
(* What the import of a Cisco ASA configuration promises: the rules of the  *)
(* snapshot mean what the lines of the configuration mean, what could not   *)
(* be carried over is reported, and everything leads back to its lines.     *)
(*                                                                          *)
(* The meaning of a canonical rule is what mapping can put in place of its  *)
(* operands by value.  What it cannot is open: it is left to the user.      *)
(***************************************************************************)
EXTENDS AsaNormalizer

CONSTANTS
  AddressPoints,  \* [addresses and domains -> the hosts they stand for]
  SpanPoints(_, _), \* the hosts between two addresses
  NetPoints(_, _),  \* the hosts of a network with a prefix length
  AllHosts,
  AllServices,    \* every <<protocol, port>>, <<"icmp", type>> and <<protocol>>
  IcmpNames       \* [types -> the name of an ICMP type]

----------------------------------------------------------------------------

\* The leaves of an object: its members' members, as far as they go.
leaves_below[keys \in SUBSET DOMAIN state.objects] ==
  LET more == keys \cup {state.members[k].child :
                           k \in {j \in DOMAIN state.members : state.members[j].parent \in keys}}
  IN IF more = keys THEN keys ELSE leaves_below[more]

address_points(obj) ==
  CASE obj.kind = "ANY_ADDR" -> AllHosts
    [] obj.kind \in {"HOST", "FQDN"} -> AddressPoints[obj.value[1]]
    [] obj.kind = "RANGE" -> SpanPoints(obj.value[1], obj.value[2])
    [] obj.kind = "SUBNET" -> NetPoints(obj.value[1], obj.value[2])
    [] OTHER -> {}

service_points(obj) ==
  CASE obj.kind = "ANY_SERVICE" -> AllServices
    [] obj.kind \in {"tcp", "udp"} ->
         {p \in AllServices : p[1] = obj.kind /\ p[2] \in obj.from .. obj.to}
    [] obj.kind = "ICMP" /\ obj.icmp \in DOMAIN IcmpNames -> {<<"icmp", IcmpNames[obj.icmp]>>}
    [] OTHER -> {}

points(key) ==
  LET obj == state.objects[key]
  IN IF obj.family = "addr" THEN address_points(obj) ELSE service_points(obj)

\* An object no value says what to put in its place.
open(key) == /\ state.objects[key].kind \notin {"ADDR_GROUP", "SERVICE_GROUP", "FQDN"}
             /\ points(key) = {}

targets(n, role) ==
  {state.operands[k].target :
     k \in {j \in DOMAIN state.operands :
              state.operands[j].rule = n /\ state.operands[j].role = role}}

admitted(n, role) == UNION {points(key) : key \in leaves_below[targets(n, role)]}

\* Something of this operand is said to be missing.
reported(n, role) ==
  \/ \E key \in leaves_below[targets(n, role)] : open(key)
  \/ \E i \in state.issues :
        /\ i.code = "unresolved_group_member_ref"
        /\ \/ \E key \in leaves_below[targets(n, role)] : key[2] = i.entity[1]
           \/ <<i.entity[1]>> = parsed.rules[n].service
  \/ state.rules[n].skip # {}

----------------------------------------------------------------------------
(* The lines whose rules do not keep their meaning.                         *)

parsed_rule(n) == parsed.rules[n]

\* The operator before a port is not kept; a protocol that has no builder
\* becomes "any"; the protocols of a group are forgotten beside a service group.
loses_operator(r) ==
  /\ r.operand.kind \in {"literal", "protocol_group"}
  /\ \E i \in 6 .. Len(r.raw) : r.raw[i] \in {"lt", "gt", "neq"}

becomes_any(r) ==
  /\ r.operand.kind = "literal" /\ r.service = <<>>
  /\ build_service([NoPayload EXCEPT !.protocol = r.operand.protocol]) = NoObject

forgets_protocols(r) == r.operand.kind = "protocol_group" /\ r.service # <<>>

\* A clause on the source port is taken for the destination, which nobody knows then.
misreads_source_port(r) ==
  r.operand.kind = "literal" /\ r.dst[1] = "name" /\ r.dst[2] \in PortOperators

known_widening(r) ==
  loses_operator(r) \/ becomes_any(r) \/ forgets_protocols(r) \/ misreads_source_port(r)

\* any4 and any6 become "any".
forgets_family(r, part) ==
  /\ part \in {"src", "dst"} /\ r[part] = <<"any">>
  /\ \E i \in 6 .. Len(r.raw) : r.raw[i] \in {"any4", "any6"}

\* A TCP or UDP rule takes the direct members of a tcp-udp group only.
drops_inner_group(n) ==
  LET r == parsed_rule(n)
  IN /\ r.operand.protocol \in {"tcp", "udp"} /\ named(state, r.service)
     /\ \E k \in DOMAIN state.members :
           /\ state.members[k].parent = <<"service", r.service[1]>>
           /\ state.objects[state.members[k].child].kind = "SERVICE_GROUP"

\* A line of a group that its extractor has no form for becomes no member, and nobody is
\* told: a network of IPv6, which is one token, and a group in a group of ICMP types.
forgotten(i) ==
  LET toks == config.text[i].toks
      of(family) == parent(config.text, i) \in headers(config.text, <<"object-group", family>>)
  IN \/ of("network") /\ Len(toks) = 2 /\ toks[1] = "network-object"
     \/ of("icmp-type") /\ toks[1] = "group-object"

forgets_member(n, role) ==
  \E key \in leaves_below[targets(n, role)] : \E i \in DOMAIN config.text :
    /\ forgotten(i)
    /\ config.text[parent(config.text, i)].toks[3] = key[2]

applicable(n) == state.rules[n].skip = {}

\* What the firewall means by the line of a rule.
line_meaning(n) == config.rules[state.rules[n].priority]

roles == [src |-> "src_object", dst |-> "dst_object", service |-> "service"]

----------------------------------------------------------------------------
(* Properties                                                               *)

\* Source, destination and service of an applicable rule, each for itself, admit
\* nothing their line does not, outside the operands named above: the passes of
\* CiscoAsaNormalizerAdapter.normalize never put "any", a wider range or another
\* object in place of an operand.
NeverWider ==
  stage = "done" =>
    \A n \in DOMAIN state.rules : applicable(n) =>
      \A part \in DOMAIN roles :
        \/ admitted(n, roles[part]) \subseteq line_meaning(n)[part].whole
        \/ (part = "service" /\ known_widening(parsed_rule(n)))
        \/ forgets_family(parsed_rule(n), part)

\* When a rule admits less than its line, an unresolved object, an issue of a
\* group or a reason to skip the rule says so: _attach_group_members and
\* _ensure_service_for_rule drop nothing quietly, but for groups inside tcp-udp
\* groups and the lines of groups that the extractors have no form for.
LossReported ==
  stage = "done" =>
    \A n \in DOMAIN state.rules : \A part \in DOMAIN roles :
      \/ line_meaning(n)[part].touched \subseteq admitted(n, roles[part])
      \/ reported(n, roles[part])
      \/ forgets_member(n, roles[part])
      \/ (part = "service" /\ (known_widening(parsed_rule(n)) \/ drops_inner_group(n)))

entities ==
  {<<"object", key>> : key \in DOMAIN state.objects \ {AnyAddr, AnyService}}
  \cup {<<"member", <<k>>>> : k \in DOMAIN state.members}
  \cup {<<"zone", <<z>>>> : z \in state.zones}
  \cup {<<"rule", <<k>>>> : k \in DOMAIN state.rules}
  \cup {<<"operand", <<k>>>> : k \in DOMAIN state.operands}
  \cup {<<"issue", i>> : i \in state.issues}

\* The line an entity must lead to, where it is known.
comes_from(kind, id, first) ==
  LET declares(prefixes, name) ==
        \E p \in prefixes : name \in DOMAIN [n \in {header_name(config.text, i, p) :
                                                      i \in headers(config.text, p) \cap {first}} |-> 0]
      stanza_of(key) ==
        IF key[1] = "addr"
        THEN declares({<<"object", "network">>, <<"object-group", "network">>}, key[2])
        ELSE declares({<<"object", "service">>} \cup
                      {<<"object-group", f>> : f \in {"service", "protocol", "icmp-type"}}, key[2])
  IN CASE kind = "object" /\ id[1] \in {"addr", "service"} -> stanza_of(id)
       [] kind = "member" -> stanza_of(state.members[id[1]].parent)
       [] kind = "rule" -> first = state.rules[id[1]].line
       [] kind = "operand" -> first = state.rules[state.operands[id[1]].rule].line
       [] kind = "issue" -> first = id.line
       [] OTHER -> TRUE

\* After every pass each entity of the snapshot leads back to lines of the
\* configuration, to those that declare it, and nothing else is traced
\* (state.emit_trace is called apart from what makes the entity).
TracesLeadBack ==
  /\ {<<t.kind, t.id>> : t \in state.traces} = entities
  /\ \A t \in state.traces : /\ 1 <= t.first /\ t.first <= t.last
                             /\ t.last <= Len(config.text)
                             /\ comes_from(t.kind, t.id, t.first)

\* Each line of an access list becomes one rule for each of its bindings, no
\* two with the same key although lines repeat and share their number, with the
\* priorities in the order of the lines (DeterministicRuleKeyBuilder, resolve_all).
RulesKeepLines ==
  stage = "done" =>
    /\ \A m, n \in DOMAIN state.rules :
          /\ m # n => state.rules[m].key # state.rules[n].key
          /\ state.rules[m].line < state.rules[n].line
             <=> state.rules[m].priority < state.rules[n].priority
    /\ \A i \in DOMAIN config.text : is_rule(config.text[i].toks) =>
          Cardinality({n \in DOMAIN state.rules : state.rules[n].line = i})
            = Max({1, Cardinality({k \in DOMAIN config.text :
                                     /\ config.text[k].toks[1] = "access-group"
                                     /\ config.text[k].toks[2] = config.text[i].toks[2]})})

=============================================================================
