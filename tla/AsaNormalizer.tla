--------------------------- MODULE AsaNormalizer ---------------------------
(***************************************************************************)
(* CiscoAsaNormalizerAdapter (modules/imports/cisco_asa/adapters): parsed   *)
(* objects and rules become the objects, group memberships, zones, rules,   *)
(* operands, issues and trace records of a canonical snapshot.             *)
(*                                                                          *)
(* Each pass of normalize is an action on the accumulator state, a record. *)
(* An object is registered once for each key, so its key is its id; a key  *)
(* is a tuple <<prefix, ...>> in place of the text "prefix:...".  The id of *)
(* a rule, an operand or a membership is its place.                         *)
(***************************************************************************)
EXTENDS AsaParser

CONSTANTS
  Prefix,     \* [valid masks -> prefix lengths]
  IcmpTypes,  \* _ICMP_NAME_TO_TYPE
  MaxPort,    \* 65535
  Configs     \* the configurations that are uploaded: their text, and for the
              \* properties only, what the firewall means by each rule's line

VARIABLES config, stage, parsed, state

vars == <<config, stage, parsed, state>>

EmptyState == [objects |-> <<>>, members |-> <<>>, zones |-> {}, rules |-> <<>>,
               operands |-> <<>>, issues |-> {}, traces |-> {}, signatures |-> {},
               services |-> <<>>]   \* the services of the rule at hand

----------------------------------------------------------------------------
(* _NormalizerState.                                                       *)

has(s, key) == key \in DOMAIN s.objects

\* The first object of a key stays.
register(s, key, obj) == IF has(s, key) THEN s ELSE [s EXCEPT !.objects = @ @@ (key :> obj)]

emit_trace(s, kind, id, first, last) ==
  [s EXCEPT !.traces = @ \cup {[kind |-> kind, id |-> id, first |-> first, last |-> last]}]

emit_issue(s, code, entity, line) ==
  LET issue == [code |-> code, entity |-> entity, line |-> line]
  IN emit_trace([s EXCEPT !.issues = @ \cup {issue}], "issue", issue, line, line)

\* Mutant: an object made on the way is not traced.
materialize_untraced(s, key, obj, line) == register(s, key, obj)

\* Register an object and trace it to a line when it was not there.
materialize(s, key, obj, line) ==
  IF has(s, key) THEN s ELSE emit_trace(register(s, key, obj), "object", key, line, line)

AnyAddr    == <<"addr", "any">>
AnyService == <<"service", "any">>

addr(kind, value) == [family |-> "addr", kind |-> kind, value |-> value]

service(kind, protocol, from, to, icmp) ==
  [family |-> "service", kind |-> kind, protocol |-> protocol, from |-> from, to |-> to,
   icmp |-> icmp]

NoObject == [family |-> None]

_register_sentinel_objects(s) ==
  register(register(s, AnyAddr, addr("ANY_ADDR", <<>>)),
           AnyService, service("ANY_SERVICE", None, NoPort, NoPort, NoPort))

----------------------------------------------------------------------------
(* Addresses.                                                              *)

\* _mask_to_prefix and _addr_object_from_payload: what cannot be represented is
\* an unresolved object.
addr_object(payload) ==
  CASE payload.type = "host"  -> addr("HOST", payload.args)
    [] payload.type = "range" -> addr("RANGE", payload.args)
    [] payload.type = "fqdn"  -> addr("FQDN", payload.args)
    [] payload.type = "subnet" /\ payload.args[2] \in DOMAIN Prefix ->
         addr("SUBNET", <<payload.args[1], Prefix[payload.args[2]]>>)
    [] OTHER -> addr("UNRESOLVED_ADDR", <<>>)

_materialize_address_objects(s, items) ==
  LET one(t, item) ==
        LET key == <<"addr", item.name>>
            obj == IF item.kind = "address_group" THEN addr("ADDR_GROUP", <<>>)
                   ELSE addr_object(item.payload)
        IN emit_trace(register(t, key, obj), "object", key, item.span.first, item.span.last)
  IN FoldLeft(one, s, items)

\* The key of a reference and the object it stands for when it is not there:
\* hosts and networks are made, a name that is not known is unresolved.
ref_target(s, ref) ==
  LET unresolved == [key |-> <<"addr:unresolved", ref>>, obj |-> addr("UNRESOLVED_ADDR", <<>>)]
  IN CASE ref[1] = "host" -> [key |-> <<"addr:host", ref[2]>>, obj |-> addr("HOST", <<ref[2]>>)]
       [] ref[1] = "net" /\ ref[3] \in DOMAIN Prefix ->
            [key |-> <<"addr:net", ref[2], Prefix[ref[3]]>>,
             obj |-> addr("SUBNET", <<ref[2], Prefix[ref[3]]>>)]
       [] ref[1] = "name" /\ has(s, <<"addr", ref[2]>>) ->
            [key |-> <<"addr", ref[2]>>, obj |-> s.objects[<<"addr", ref[2]>>]]
       [] OTHER -> unresolved

is_unresolved(key) == key[1] \in {"addr:unresolved", "service:unresolved"}

attach(s, parent_key, key, position, line) ==
  LET t == [s EXCEPT !.members =
              Append(@, [parent |-> parent_key, child |-> key, position |-> position])]
  IN emit_trace(t, "member", <<Len(t.members)>>, line, line)

attach_address_member(s, item, ref, position) ==
  LET target == ref_target(s, ref)
      line   == item.span.first
      t == attach(materialize(s, target.key, target.obj, line),
                  <<"addr", item.name>>, target.key, position, line)
  IN IF is_unresolved(target.key)
     THEN emit_issue(t, "unresolved_group_member_ref", <<item.name, ref>>, line) ELSE t

_materialize_address_group_members(s, items) ==
  LET group(t, item) ==
        FoldLeft(LAMBDA u, k : attach_address_member(u, item, item.members[k], k - 1), t,
                 [k \in DOMAIN item.members |-> k])
  IN FoldLeft(group, s, SelectSeq(items, LAMBDA i : i.kind = "address_group"))

\* _ensure_addr_object_from_ref: the object of an operand of a rule.
ensure_addr(s, ref, line) ==
  LET target == ref_target(s, ref)
      t == materialize(s, target.key, target.obj, line)
  IN IF ref = <<"any">> THEN [s |-> s, key |-> AnyAddr]
     ELSE [key |-> target.key,
           s |-> IF is_unresolved(target.key) /\ ~has(s, target.key)
                 THEN emit_issue(t, "unresolved_address_ref", ref, line) ELSE t]

----------------------------------------------------------------------------
(* Services.                                                               *)

\* Mutant: a clause on the source port is dropped.
resolve_l4_destination_range_any_source(payload) ==
  IF payload.raw THEN <<>>
  ELSE IF payload.destination = <<>> /\ payload.plain = <<>> THEN <<0, MaxPort>>
  ELSE LET c == IF payload.destination # <<>> THEN payload.destination ELSE payload.plain
       IN IF c[1] = "eq" THEN <<parse_port_token(c[2]), parse_port_token(c[2])>> ELSE <<>>

\* resolve_l4_destination_range: the one closed range of ports a constraint
\* stands for, <<>> when there is none.
resolve_l4_destination_range(payload) ==
  LET c  == IF payload.destination # <<>> THEN payload.destination ELSE payload.plain
      lo == parse_port_token(c[2])
      hi == IF c[1] = "range" THEN parse_port_token(c[3]) ELSE lo
  IN CASE payload.source # <<>> \/ payload.raw -> <<>>
       [] c = <<>> -> <<0, MaxPort>>
       [] OTHER ->
          CASE ~(0 <= lo /\ lo <= hi /\ hi <= MaxPort) -> <<>>
            [] c[1] \in {"eq", "range"} -> <<lo, hi>>
            [] c[1] = "lt" /\ lo > 0 -> <<0, lo - 1>>
            [] c[1] = "gt" /\ lo < MaxPort -> <<lo + 1, MaxPort>>
            [] OTHER -> <<>>

icmp_type(name) == IF name \in DOMAIN IcmpTypes THEN IcmpTypes[name] ELSE NoPort

\* build_canonical_service_from_payload.
build_service(payload) ==
  LET proto == payload.protocol
      ports == resolve_l4_destination_range(payload)
      eq    == payload.plain # <<>> /\ payload.plain[1] = "eq"
  IN CASE proto = "tcp-udp" /\ eq /\ parse_port_token(payload.plain[2]) # NoPort ->
            service("IP_PROTO", proto, parse_port_token(payload.plain[2]),
                    parse_port_token(payload.plain[2]), NoPort)
       [] proto \in {"tcp", "udp"} ->
            IF ports = <<>> THEN service("UNRESOLVED_SERVICE", proto, NoPort, NoPort, NoPort)
            ELSE service(proto, proto, ports[1], ports[2], NoPort)
       [] proto \in {"icmp", "icmp6"} ->
            service("ICMP", proto, NoPort, NoPort, icmp_type(payload.icmp))
       [] proto \in {"ip", "esp", "ah", "gre"} \/ InDigits(proto) ->
            service("IP_PROTO", proto, NoPort, NoPort, NoPort)
       [] OTHER -> NoObject

ip_protocol_object_key(proto) == <<"service:ip-proto", proto>>

service_object_key(proto, from, to) == <<"service:port", proto, from, to>>

\* canonical_object_for_parsed_service: an unsupported body keeps its name.
service_header(item) ==
  LET built == build_service(item.payload)
  IN CASE item.kind = "service_group"  ->
            service("SERVICE_GROUP", item.protocol, NoPort, NoPort, NoPort)
       [] item.kind = "protocol_group" ->
            service("SERVICE_GROUP", "protocol-group", NoPort, NoPort, NoPort)
       [] item.kind = "service" /\ built # NoObject -> built
       [] OTHER -> service("IP_PROTO", None, NoPort, NoPort, NoPort)

_materialize_service_objects(s, items) ==
  LET one(t, item) ==
        LET key == <<"service", item.name>>
        IN emit_trace(register(t, key, service_header(item)), "object", key,
                      item.span.first, item.span.last)
  IN FoldLeft(one, s, items)

\* _register_service_payload: the key of a service-object member, <<>> when it
\* is not supported.
payload_key(payload) ==
  LET proto == payload.protocol
      ports == resolve_l4_destination_range(payload)
  IN CASE proto \in {"tcp", "udp"} /\ ports # <<>> ->
            service_object_key(proto, ports[1], ports[2])
       [] proto = "tcp-udp" /\ build_service(payload) # NoObject ->
            service_object_key(proto, build_service(payload).from, build_service(payload).to)
       [] proto \in {"icmp", "icmp6"} ->
            <<"service:icmp-", proto, IF payload.icmp = None THEN "any" ELSE payload.icmp>>
       [] InDigits(proto) \/ proto \in {"ip", "esp", "ah", "gre"} ->
            ip_protocol_object_key(proto)
       [] OTHER -> <<>>

leaf(key, obj) == [key |-> key, obj |-> obj]

\* parse_port_object_line and what becomes of it: one leaf, or one for TCP and
\* one for UDP; TCP when the group has no protocol.
port_object_leaves(raw, group_protocol) ==
  LET e     == first_of(raw, {"eq"})
      c     == clause(raw, IF e # 0 THEN e ELSE first_of(raw, {"range"}))
      lo    == parse_port_token(c[2])
      hi    == IF c[1] = "range" THEN parse_port_token(c[3]) ELSE lo
      proto == IF group_protocol = None THEN "tcp" ELSE group_protocol
      protocols == IF proto = "tcp-udp" THEN <<"tcp", "udp">> ELSE <<proto>>
  IN IF c = <<>> \/ lo = NoPort \/ hi = NoPort THEN <<>>
     ELSE [k \in DOMAIN protocols |->
             leaf(service_object_key(protocols[k], lo, hi),
                  build_service([NoPayload EXCEPT !.protocol = protocols[k], !.plain = c]))]

\* materialize_service_group_member: the leaves a member stands for, none when
\* it is unresolved.
member_leaves(s, m, group_protocol) ==
  CASE m.type \in {"group-object", "service-object-object"} ->
         IF has(s, <<"service", m.name>>)
         THEN <<leaf(<<"service", m.name>>, s.objects[<<"service", m.name>>])>> ELSE <<>>
    [] m.type = "icmp-object" ->
         <<leaf(<<"service:icmp", m.name>>,
                service("ICMP", "icmp", NoPort, NoPort, icmp_type(m.name)))>>
    [] m.type = "port-object" -> port_object_leaves(m.raw, group_protocol)
    [] m.type = "service-object" ->
         IF payload_key(m.payload) = <<>> THEN <<>>
         ELSE <<leaf(payload_key(m.payload), build_service(m.payload))>>
    [] m.type = "protocol-object" ->
         LET built == build_service([NoPayload EXCEPT !.protocol = m.raw])
         IN <<leaf(ip_protocol_object_key(m.raw),
                   IF built # NoObject THEN built
                   ELSE service("IP_PROTO", m.raw, NoPort, NoPort, NoPort))>>

\* Mutant: a member that cannot be resolved is left out quietly.
attach_service_member_quietly(s, item, m, position) ==
  LET leaves == member_leaves(s, m, item.protocol)
      line   == item.span.first
      made   == FoldLeft(LAMBDA t, l : materialize(t, l.key, l.obj, line), s, leaves)
  IN FoldLeft(LAMBDA t, k : attach(t, <<"service", item.name>>, leaves[k].key, position, line),
              made, [k \in DOMAIN leaves |-> k])

\* _attach_group_members, one member: a member that is not resolved is an issue.
attach_service_member(s, item, m, position) ==
  LET leaves == member_leaves(s, m, item.protocol)
      line   == item.span.first
      made   == FoldLeft(LAMBDA t, l : materialize(t, l.key, l.obj, line), s, leaves)
  IN IF leaves = <<>>
     THEN emit_issue(s, "unresolved_group_member_ref", <<item.name, m.type>>, line)
     ELSE FoldLeft(LAMBDA t, k : attach(t, <<"service", item.name>>, leaves[k].key,
                                        position + k - 1, line),
                   made, [k \in DOMAIN leaves |-> k])

\* _attach_group_members, for the groups of one kind.
_materialize_group_members(s, items, kind) ==
  LET group(t, item) ==
        FoldLeft(LAMBDA u, k : attach_service_member(u, item, item.members[k], k - 1), t,
                 [k \in DOMAIN item.members |-> k])
  IN FoldLeft(group, s, SelectSeq(items, LAMBDA i : i.kind = kind))

----------------------------------------------------------------------------
(* The services of a rule.                                                 *)

found(s, key) == [s |-> s, key |-> key]

\* Without a port: the protocol as a whole.
ensure_default_service(s, proto, line) ==
  LET built == build_service([NoPayload EXCEPT !.protocol = proto])
      key   == ip_protocol_object_key(proto)
  IN IF built = NoObject THEN found(s, AnyService)
     ELSE found(emit_trace(register(s, key, built), "object", key, line, line), key)

\* build_inline_service_from_ref: ports, or an ICMP type.
inline_leaf(proto, ref) ==
  LET lo == parse_port_token(ref[1])
      hi == parse_port_token(ref[Len(ref)])
  IN CASE proto \in {"tcp", "udp"} /\ lo # NoPort /\ hi # NoPort ->
            leaf(service_object_key(proto, lo, hi), service(proto, proto, lo, hi, NoPort))
       [] proto \in {"icmp", "icmp6"} ->
            leaf(<<"service:icmp-", proto, ref[1]>>,
                 service("ICMP", proto, NoPort, NoPort, icmp_type(ref[1])))
       [] OTHER -> leaf(<<>>, NoObject)

ensure_unresolved_service(s, ref, proto, line) ==
  LET key == <<"service:unresolved", ref>>
      obj == service("UNRESOLVED_SERVICE", proto, NoPort, NoPort, NoPort)
  IN found(IF has(s, key) THEN s
           ELSE emit_issue(materialize(s, key, obj, line), "unresolved_service_ref", ref, line),
           key)

\* _lookup_named_service_ref: only a single token can be a name.
named(s, ref) == Len(ref) = 1 /\ has(s, <<"service", ref[1]>>)

ensure_service_from_ref(s, proto, ref, line) ==
  LET inline == inline_leaf(proto, ref)
  IN CASE ref \in {<<>>, <<"any">>} -> ensure_default_service(s, proto, line)
       [] ref \notin {<<>>, <<"any">>} /\ named(s, ref) -> found(s, <<"service", ref[1]>>)
       [] OTHER ->
            IF inline.obj = NoObject THEN ensure_unresolved_service(s, ref, proto, line)
            ELSE found(emit_trace(register(s, inline.key, inline.obj), "object", inline.key,
                                  line, line), inline.key)

\* The protocol of a group, "ip" when it has none or is not known.
effective_protocol(s, group) ==
  IF has(s, <<"service", group>>) /\ s.objects[<<"service", group>>].protocol # None
  THEN s.objects[<<"service", group>>].protocol ELSE "ip"

ensure_ip_protocol_service(s, rule) ==
  LET key == ip_protocol_object_key(rule.operand.protocol)
      obj == service("IP_PROTO", rule.operand.protocol, NoPort, NoPort, NoPort)
  IN IF named(s, rule.service) THEN found(s, <<"service", rule.service[1]>>)
     ELSE found(emit_trace(register(s, key, obj), "object", key, rule.line, rule.line), key)

ensure_protocol_group_service(s, group) ==
  found(s, IF has(s, <<"service", group>>) THEN <<"service", group>> ELSE AnyService)

\* _ensure_service_for_rule.
ensure_service(s, rule) ==
  LET o == rule.operand
      kind(k) == o.kind = k
  IN CASE kind("ip_protocol_number") -> ensure_ip_protocol_service(s, rule)
       [] kind("service_object") -> ensure_service_from_ref(s, "ip", rule.service, rule.line)
       [] kind("protocol_group") /\ rule.service # <<>> ->
            ensure_service_from_ref(s, effective_protocol(s, o.group), rule.service, rule.line)
       [] kind("protocol_group") /\ rule.service = <<>> ->
            ensure_protocol_group_service(s, o.group)
       [] kind("literal") -> ensure_service_from_ref(s, o.protocol, rule.service, rule.line)

\* _ensure_services_for_rule: of a tcp-udp group a TCP or UDP rule takes the
\* direct members of its own protocol.
ensure_services(s, rule) ==
  LET key   == s.services[1]
      obj   == s.objects[key]
      proto == rule.operand.protocol
      mine  == SelectSeq(s.members, LAMBDA m : /\ m.parent = key
                                               /\ s.objects[m.child].protocol = proto)
      first == {k \in DOMAIN mine : \A j \in 1 .. k - 1 : mine[j].child # mine[k].child}
      keys  == at_places([k \in DOMAIN mine |-> mine[k].child], first)
      none  == ensure_unresolved_service(s, <<key[2], proto>>, proto, rule.line)
  IN CASE ~(/\ obj.kind = "SERVICE_GROUP" /\ obj.protocol = "tcp-udp"
            /\ proto \in {"tcp", "udp"}) -> s
       [] OTHER -> IF keys = <<>> THEN [none.s EXCEPT !.services = <<none.key>>]
                   ELSE [s EXCEPT !.services = keys]

----------------------------------------------------------------------------
(* Rules.                                                                  *)

rule_name(rule) == <<rule.acl, rule.order>>

\* validate_protocol_operand: the issue that blocks a rule, None if there is none.
protocol_blocker(s, rule) ==
  LET o == rule.operand
  IN CASE o.kind = "protocol_group" /\ o.group = None -> "protocol_unresolved"
       [] o.kind = "protocol_group" /\ o.group # None /\ ~has(s, <<"service", o.group>>) ->
            "protocol_mapping_missing"
       [] o.kind = "ip_protocol_number" /\ o.number > 255 -> "protocol_unresolved"
       [] OTHER -> None

\* resolve_rule_processing: why a rule is left out of automatic processing.
skip_reasons(rule, blocker) ==
  {c \in {"crypto_map_selector", "conflict"} : rule.usage = c}
  \cup (IF rule.zones.inference = "global_scope" THEN {"global_scope"}
        ELSE IF rule.zones.unresolved THEN {"binding_missing"} ELSE {})
  \cup (IF blocker # None THEN {"protocol_unresolved"} ELSE {})

emit_rule_issues(s, rule) ==
  LET issue(t, cond, code) == IF cond THEN emit_issue(t, code, rule_name(rule), rule.line) ELSE t
      signature == <<rule.acl, rule.zones.context, rule.raw>>
      u == issue(s, rule.usage = "conflict", "usage_conflict")
      v == issue(u, rule.usage = "crypto_map_selector", "crypto_map_selector")
      w == issue(v, signature \in s.signatures, "textual_duplicate_rule")
      blocker == protocol_blocker(s, rule)
  IN issue([w EXCEPT !.signatures = @ \cup {signature}], blocker # None, blocker)

\* Mutant: the name of a rule is its key.
rule_key_plain(s, rule) == <<rule.acl, rule.order, 0>>

\* DeterministicRuleKeyBuilder: the n-th rule of a name is told apart.
rule_key(s, rule) ==
  LET seen == Cardinality({k \in DOMAIN s.rules : s.rules[k].name = rule_name(rule)})
  IN <<rule.acl, rule.order, seen>>

_create_rule_with_trace(s, rule) ==
  LET reasons == skip_reasons(rule, protocol_blocker(s, rule))
      r == [key |-> rule_key(s, rule), name |-> rule_name(rule), action |-> rule.action,
            enabled |-> rule.enabled, section |-> rule.acl, priority |-> rule.order,
            line |-> rule.line, skip |-> reasons]
      t == [s EXCEPT !.rules = Append(@, r)]
  IN emit_trace(t, "rule", <<Len(t.rules)>>, rule.line, rule.line)

add_operand(s, role, target, position, line) ==
  LET t == [s EXCEPT !.operands = Append(@, [rule |-> Len(s.rules), role |-> role,
                                             target |-> target, position |-> position])]
  IN emit_trace(t, "operand", <<Len(t.operands)>>, line, line)

_ensure_zone(s, zone, line) ==
  IF zone \in s.zones THEN s
  ELSE emit_trace([s EXCEPT !.zones = @ \cup {zone}], "zone", <<zone>>, line, line)

_materialize_rule_zone_operands(s, rule) ==
  LET add(t, role, zone) ==
        IF zone = None THEN t
        ELSE add_operand(_ensure_zone(t, zone, rule.line), role, <<"zone", zone>>, 0, rule.line)
  IN add(add(s, "src_zone", rule.zones.src_zone), "dst_zone", rule.zones.dst_zone)

_materialize_rule_address_operands(s, rule) ==
  LET src == ensure_addr(s, rule.src, rule.line)
      dst == ensure_addr(src.s, rule.dst, rule.line)
  IN add_operand(add_operand(dst.s, "src_object", src.key, 0, rule.line),
                 "dst_object", dst.key, 0, rule.line)

append_service_operands(s, rule) ==
  FoldLeft(LAMBDA t, k : add_operand(t, "service", s.services[k], k - 1, rule.line),
           [s EXCEPT !.services = <<>>], [k \in DOMAIN s.services |-> k])

\* What the loop over the rules does with one rule, in this order.
rule_step(s, step, rule) ==
  CASE step = "issues"    -> emit_rule_issues(s, rule)
    [] step = "rule"      -> _create_rule_with_trace(s, rule)
    [] step = "zones"     -> _materialize_rule_zone_operands(s, rule)
    [] step = "addresses" -> _materialize_rule_address_operands(s, rule)
    [] step = "service"   -> LET r == ensure_service(s, rule)
                             IN [r.s EXCEPT !.services = <<r.key>>]
    [] step = "services"  -> append_service_operands(ensure_services(s, rule), rule)

_materialize_rules(s, rules) ==
  LET one(t, rule) == FoldLeft(LAMBDA u, step : rule_step(u, step, rule), t,
                               <<"issues", "rule", "zones", "addresses", "service", "services">>)
  IN FoldLeft(one, s, rules)

----------------------------------------------------------------------------
(* normalize, pass by pass.                                                *)

Init ==
  /\ config \in Configs
  /\ stage = "parse"
  /\ parsed = [addresses |-> <<>>, services |-> <<>>, rules |-> <<>>]
  /\ state = EmptyState

Parse ==
  /\ stage = "parse"
  /\ parsed' = parse(config.text)
  /\ stage' = IF parse(config.text).rules = <<>> THEN "refused" ELSE "addresses"
  /\ state' = _register_sentinel_objects(state)
  /\ UNCHANGED config

pass(from, to, s) ==
  /\ stage = from
  /\ stage' = to
  /\ state' = s
  /\ UNCHANGED <<config, parsed>>

MaterializeAddresses ==
  pass("addresses", "address_members", _materialize_address_objects(state, parsed.addresses))

MaterializeAddressMembers ==
  pass("address_members", "services",
       _materialize_address_group_members(state, parsed.addresses))

MaterializeServices ==
  pass("services", "service_members", _materialize_service_objects(state, parsed.services))

MaterializeServiceMembers ==
  pass("service_members", "protocol_members",
       _materialize_group_members(state, parsed.services, "service_group"))

MaterializeProtocolMembers ==
  pass("protocol_members", "rules",
       _materialize_group_members(state, parsed.services, "protocol_group"))

MaterializeRules == pass("rules", "done", _materialize_rules(state, parsed.rules))

Finished == stage \in {"done", "refused"} /\ UNCHANGED vars

Next ==
  \/ Parse \/ MaterializeAddresses \/ MaterializeAddressMembers \/ MaterializeServices
  \/ MaterializeServiceMembers \/ MaterializeProtocolMembers \/ MaterializeRules \/ Finished

Spec == Init /\ [][Next]_vars

=============================================================================
