----------------------------- MODULE AsaParser -----------------------------
(***************************************************************************)
(* CiscoAsaParserAdapter (modules/imports/cisco_asa/parsing): the lines of  *)
(* a configuration, as sequences of tokens, become address and service     *)
(* objects, groups and access rules.  Reading the text has no state, so    *)
(* every function of the parser is an operator.                             *)
(*                                                                          *)
(* A token is an atom: letter case and white space are gone.  What a token  *)
(* is (a number, an address, a mask, an ACL name that names two zones) is   *)
(* given by the constants.                                                  *)
(***************************************************************************)
EXTENDS Integers, Sequences, FiniteSets, SequencesExt

CONSTANTS
  Digits,    \* [decimal tokens -> Nat]
  IpTokens,  \* dotted quads, addresses and masks
  Builtin,   \* _BUILTIN_SERVICES: [name -> [protocol, port]]
  NameZones  \* [ACL names of the form A_TO_B -> <<A, B>>]

ASSUME ParserAssumption ==
  /\ \A d \in DOMAIN Digits : Digits[d] \in Nat
  /\ DOMAIN Digits \cap (DOMAIN Builtin \cup IpTokens) = {}

\* What Python leaves None.
None == ""
NoPort == -1

InDigits(t) == t \in DOMAIN Digits

\* parse_port_token: a number, or the name of a well-known service.
parse_port_token(t) ==
  IF InDigits(t) THEN Digits[t]
  ELSE IF t \in DOMAIN Builtin THEN Builtin[t].port ELSE NoPort

----------------------------------------------------------------------------
(* The tree of lines.  A line is [indent, toks]; its number is its place.  *)

\* The stack of ConfigTreeBuilder leaves on top the last line that is less
\* indented; 0 is the root.
parent(text, i) ==
  LET above == {k \in 1 .. i - 1 : text[k].indent < text[i].indent}
  IN IF above = {} THEN 0 ELSE Max(above)

\* The places of a set in ascending order.
in_order(places) == SetToSortSeq(places, <)

\* The elements of a sequence at some of its places.
at_places(seq, places) == [n \in 1 .. Cardinality(places) |-> seq[in_order(places)[n]]]

children(text, i) ==
  at_places([k \in DOMAIN text |-> text[k].toks], {k \in DOMAIN text : parent(text, k) = i})

\* The lines of a stanza: its header and all that is below it.
source_span(text, i) ==
  [first |-> i,
   last  |-> Max({k \in i .. Len(text) :
                    \A m \in i + 1 .. k : text[m].indent > text[i].indent})]

starts(toks, prefix) == Len(toks) > Len(prefix) /\ SubSeq(toks, 1, Len(prefix)) = prefix

----------------------------------------------------------------------------
(* AsaIndex: where the headers of each family are.                         *)

headers(text, prefix) == {i \in DOMAIN text : starts(text[i].toks, prefix)}

header_name(text, i, prefix) == text[i].toks[Len(prefix) + 1]

\* The names of a family in the order in which they first appear.
names(text, prefix) ==
  LET all   == headers(text, prefix)
      name(i) == header_name(text, i, prefix)
      first == {i \in all : \A k \in all : name(k) = name(i) => i <= k}
  IN [n \in 1 .. Cardinality(first) |-> name(in_order(first)[n])]

declarations(text, prefix, name) ==
  {i \in headers(text, prefix) : header_name(text, i, prefix) = name}

\* Except for networks, the last header of a name wins.
last_header(text, prefix, name) == Max(declarations(text, prefix, name))

\* interfaces_nameif: a nameif line belongs to the last interface header above.
nameif(text, iface) ==
  LET owner(k) == LET above == {i \in headers(text, <<"interface">>) : i < k}
                  IN IF above = {} THEN None ELSE text[Max(above)].toks[2]
      lines == {k \in headers(text, <<"nameif">>) : text[k].indent > 0 /\ owner(k) = iface}
  IN IF lines = {} THEN None ELSE text[Max(lines)].toks[2]

crypto_links(text, acl) ==
  {i \in DOMAIN text : /\ Len(text[i].toks) >= 7
                       /\ SubSeq(text[i].toks, 1, 2) = <<"crypto", "map">>
                       /\ SubSeq(text[i].toks, 5, 7) = <<"match", "address", acl>>}

----------------------------------------------------------------------------
(* AddressExtractor.                                                       *)

\* The body of "object network": the last line that gives an address.
parse_object_network_children(body) ==
  LET typed == {k \in DOMAIN body :
                  \/ body[k][1] \in {"host", "fqdn"} /\ Len(body[k]) >= 2
                  \/ body[k][1] \in {"subnet", "range"} /\ Len(body[k]) >= 3}
      l == body[Max(typed)]
  IN IF typed = {} THEN [type |-> None, args |-> <<>>]
     ELSE [type |-> l[1], args |-> IF l[1] = "fqdn" THEN <<l[Len(l)]>> ELSE Tail(l)]

\* Mutant: the last stanza of a name wins, as for the other families.
merge_declarations_last(text, nodes) == Max(nodes)

\* A network reopened for NAT is not a new object: the last stanza with an
\* address is the definition.
merge_declarations(text, nodes) ==
  LET typed == {i \in nodes :
                  parse_object_network_children(children(text, i)).type # None}
  IN Max(IF typed # {} THEN typed ELSE nodes)

\* A member of "object-group network" as the reference that
\* normalize_address_group_members makes of it; other lines are left out.
address_member(toks) ==
  CASE starts(toks, <<"network-object", "host">>) -> <<"host", toks[3]>>
    [] starts(toks, <<"network-object", "object">>) -> <<"name", toks[3]>>
    [] starts(toks, <<"network-object">>) /\ Len(toks) >= 3 -> <<"net", toks[2], toks[3]>>
    [] starts(toks, <<"group-object">>) -> <<"name", toks[2]>>
    [] OTHER -> <<>>

normalize_address_group_members(body) ==
  SelectSeq([k \in DOMAIN body |-> address_member(body[k])], LAMBDA r : r # <<>>)

parsed_address(text, name) ==
  LET i == merge_declarations(text, declarations(text, <<"object", "network">>, name))
  IN [name |-> name, kind |-> "address", span |-> source_span(text, i), members |-> <<>>,
      payload |-> parse_object_network_children(children(text, i))]

parsed_address_group(text, name) ==
  LET i == last_header(text, <<"object-group", "network">>, name)
  IN [name |-> name, kind |-> "address_group", span |-> source_span(text, i),
      members |-> normalize_address_group_members(children(text, i)),
      payload |-> [type |-> None, args |-> <<>>]]

extract_addresses(text) ==
  LET objects == names(text, <<"object", "network">>)
      groups  == names(text, <<"object-group", "network">>)
  IN [k \in DOMAIN objects |-> parsed_address(text, objects[k])]
     \o [k \in DOMAIN groups |-> parsed_address_group(text, groups[k])]

----------------------------------------------------------------------------
(* ServiceExtractor and ProtocolGroupExtractor.                             *)

PortOperators == {"eq", "range", "lt", "gt", "neq"}

NoPayload == [protocol |-> None, source |-> <<>>, destination |-> <<>>, plain |-> <<>>,
              raw |-> FALSE, icmp |-> None]

\* An operator at place i of a line with its values: <<>> when they are missing.
clause(toks, i) ==
  IF i \notin DOMAIN toks \/ toks[i] \notin PortOperators THEN <<>>
  ELSE IF toks[i] = "range"
       THEN IF i + 2 \in DOMAIN toks THEN SubSeq(toks, i, i + 2) ELSE <<>>
       ELSE IF i + 1 \in DOMAIN toks THEN SubSeq(toks, i, i + 1) ELSE <<>>

first_of(toks, S) == LET at == {i \in DOMAIN toks : toks[i] \in S}
                     IN IF at = {} THEN 0 ELSE Min(at)

last_of(toks, t) == LET at == {i \in DOMAIN toks : toks[i] = t}
                    IN IF at = {} THEN 0 ELSE Max(at)

\* parse_inline_service_object, with _parse_directional_port_clause.
parse_inline_service_object(toks) ==
  LET p  == [NoPayload EXCEPT !.protocol = toks[1]]
      s  == first_of(toks, {"source"})
      d  == first_of(toks, {"destination"})
      o  == first_of(toks, PortOperators)
      at(i) == IF i = 0 THEN <<>> ELSE clause(toks, i + 1)
  IN CASE toks[1] \in {"tcp", "udp", "tcp-udp"} ->
            IF s # 0 \/ d # 0
            THEN [p EXCEPT !.source = at(s), !.destination = at(d),
                           !.raw = (s # 0 /\ at(s) = <<>>) \/ (d # 0 /\ at(d) = <<>>)]
            ELSE IF o = 0 THEN [p EXCEPT !.raw = Len(toks) > 1]
            ELSE [p EXCEPT !.plain = clause(toks, o), !.raw = clause(toks, o) = <<>>]
       [] toks[1] \in {"icmp", "icmp6"} ->
            [p EXCEPT !.icmp = IF Len(toks) > 1 THEN toks[2] ELSE None]
       [] toks[1] \in {"ip", "esp"} -> p
       [] OTHER -> [p EXCEPT !.raw = TRUE]

\* A member of a service, icmp-type or protocol group; other lines are left out.
service_member(toks) ==
  CASE starts(toks, <<"group-object">>) -> [type |-> "group-object", name |-> toks[2]]
    [] starts(toks, <<"service-object", "object">>) ->
         [type |-> "service-object-object", name |-> toks[3]]
    [] starts(toks, <<"service-object">>) ->
         [type |-> "service-object", payload |-> parse_inline_service_object(Tail(toks))]
    [] starts(toks, <<"port-object">>) -> [type |-> "port-object", raw |-> Tail(toks)]
    [] starts(toks, <<"protocol-object">>) -> [type |-> "protocol-object", raw |-> toks[2]]
    [] starts(toks, <<"icmp-object">>) -> [type |-> "icmp-object", name |-> toks[2]]
    [] OTHER -> [type |-> None]

\* The kinds of members each family of groups knows.
member_types ==
  [service  |-> {"group-object", "service-object-object", "service-object", "port-object",
                 "protocol-object"},
   icmp     |-> {"icmp-object"},
   protocol |-> {"group-object", "protocol-object"}]

members_of(body, family) ==
  SelectSeq([k \in DOMAIN body |-> service_member(body[k])],
            LAMBDA m : m.type \in member_types[family])

parsed_service(text, name) ==
  LET i     == last_header(text, <<"object", "service">>, name)
      body  == children(text, i)
      lines == {k \in DOMAIN body : starts(body[k], <<"service">>)}
  IN [name |-> name, kind |-> "service", span |-> source_span(text, i),
      protocol |-> None, members |-> <<>>,
      payload |-> IF lines = {} THEN NoPayload
                  ELSE parse_inline_service_object(Tail(body[Max(lines)]))]

parsed_service_group(text, prefix, kind, family, name) ==
  LET i    == last_header(text, prefix, name)
      toks == text[i].toks
  IN [name |-> name, kind |-> kind, span |-> source_span(text, i), payload |-> NoPayload,
      protocol |-> CASE family = "icmp" -> "icmp"
                     [] family = "service" /\ Len(toks) >= 4 -> toks[4]
                     [] OTHER -> None,
      members |-> members_of(children(text, i), family)]

extract_services(text) ==
  LET all(prefix, F(_)) == [k \in DOMAIN names(text, prefix) |-> F(names(text, prefix)[k])]
      G(prefix, kind, family) ==
        all(prefix, LAMBDA n : parsed_service_group(text, prefix, kind, family, n))
  IN all(<<"object", "service">>, LAMBDA n : parsed_service(text, n))
     \o G(<<"object-group", "service">>, "service_group", "service")
     \o G(<<"object-group", "icmp-type">>, "service_group", "icmp")
     \o G(<<"object-group", "protocol">>, "protocol_group", "protocol")

----------------------------------------------------------------------------
(* ZoneResolver and AclUsageClassifier.                                    *)

access_groups(text, acl) ==
  SelectSeq([i \in DOMAIN text |-> text[i].toks],
            LAMBDA t : Len(t) >= 5 /\ t[1] = "access-group" /\ t[2] = acl
                       /\ t[3] \in {"in", "out"} /\ t[4] = "interface")

is_global(text, acl) ==
  \E i \in DOMAIN text : text[i].toks = <<"access-group", acl, "global">>

inferred(acl) == IF acl \in DOMAIN NameZones THEN NameZones[acl] ELSE <<None, None>>

or_else(a, b) == IF a # None THEN a ELSE b

\* resolve_all: a row for the global binding, one for each interface, or what
\* the name of the ACL says.
resolve_all(text, acl) ==
  LET row(s, d, unresolved, status, context) ==
        [src_zone |-> s, dst_zone |-> d, unresolved |-> unresolved,
         inference |-> status, context |-> context]
      bound(t) == LET z == nameif(text, t[5])
                      s == or_else(IF t[3] = "out" THEN z ELSE None, inferred(acl)[1])
                      d == or_else(IF t[3] = "in" THEN z ELSE None, inferred(acl)[2])
                  IN row(s, d, s = None /\ d = None, "directional", <<t[5], t[3]>>)
      groups == access_groups(text, acl)
      rows == (IF is_global(text, acl)
               THEN <<row(None, None, FALSE, "global_scope", <<"global">>)>> ELSE <<>>)
              \o [k \in DOMAIN groups |-> bound(groups[k])]
  IN CASE rows # <<>> -> rows
       [] rows = <<>> /\ inferred(acl) # <<None, None>> ->
            <<row(inferred(acl)[1], inferred(acl)[2], FALSE, "directional", <<"inferred">>)>>
       [] OTHER -> <<row(None, None, TRUE, "unknown", <<"unbound">>)>>

usage(text, acl) ==
  LET crypto   == crypto_links(text, acl) # {}
      firewall == \E i \in headers(text, <<"access-group">>) : text[i].toks[2] = acl
  IN CASE crypto /\ firewall -> "conflict"
       [] crypto /\ ~firewall -> "crypto_map_selector"
       [] ~crypto /\ firewall -> "firewall_policy"
       [] OTHER -> "unknown"

----------------------------------------------------------------------------
(* ExtendedAclExtractor.                                                    *)

\* parse_modifiers: "inactive" and a time range are taken out, "log" stays.
strip_modifiers(toks) ==
  LET gone(i) == \/ toks[i] = "inactive"
                 \/ toks[i] = "time-range" /\ i < Len(toks)
                 \/ i > 1 /\ toks[i - 1] = "time-range"
  IN at_places(toks, {i \in DOMAIN toks : ~gone(i)})

\* parse_protocol_operand: the kind of the operand, what it names and how many
\* of the following tokens it takes.
parse_protocol_operand(proto, toks) ==
  LET op(kind, p, group, service, number, taken) ==
        [kind |-> kind, protocol |-> p, group |-> group, service |-> service,
         number |-> number, taken |-> taken]
      named == IF toks = <<>> THEN None ELSE toks[1]
      n     == IF toks = <<>> THEN 0 ELSE 1
  IN CASE proto = "object-group" ->
            op("protocol_group", "protocol-group", named, None, NoPort, n)
       [] proto = "object" -> op("service_object", "service-object", None, named, NoPort, n)
       [] InDigits(proto) -> op("ip_protocol_number", proto, None, None, Digits[proto], 0)
       [] OTHER -> op("literal", proto, None, None, NoPort, 0)

\* _parse_endpoint: a reference and the place after it.
parse_endpoint(toks, i) ==
  LET more == i + 1 \in DOMAIN toks
  IN CASE i \notin DOMAIN toks -> [ref |-> <<"any">>, next |-> i]
       [] OTHER ->
          CASE toks[i] \in {"any", "any4", "any6"} -> [ref |-> <<"any">>, next |-> i + 1]
            [] toks[i] \in {"object", "object-group"} /\ more ->
                 [ref |-> <<"name", toks[i + 1]>>, next |-> i + 2]
            [] toks[i] \in {"host", "interface"} /\ more ->
                 [ref |-> <<toks[i], toks[i + 1]>>, next |-> i + 2]
            [] more /\ toks[i] \in IpTokens /\ toks[i + 1] \in IpTokens ->
                 [ref |-> <<"net", toks[i], toks[i + 1]>>, next |-> i + 2]
            [] OTHER -> [ref |-> <<"name", toks[i]>>, next |-> i + 1]

\* _extract_service_ref: the last object or group in what follows the
\* endpoints, else the value of the last operator, else an ICMP type.  Which
\* operator it was is not kept.
extract_service_ref(operand, tail) ==
  LET after(t) == IF last_of(tail, t) # 0 /\ last_of(tail, t) < Len(tail)
                  THEN <<tail[last_of(tail, t) + 1]>> ELSE <<>>
      r == last_of(tail, "range")
      ports == IF r # 0 /\ r + 2 <= Len(tail) THEN <<tail[r + 1], tail[r + 2]>> ELSE <<>>
      icmp == IF /\ operand.kind = "literal" /\ operand.protocol \in {"icmp", "icmp6"}
                 /\ tail[1] \notin {"log", "inactive", "time-range"}
              THEN <<tail[1]>> ELSE <<>>
      found == IF operand.kind = "ip_protocol_number"
               THEN <<after("object-group"), after("object")>>
               ELSE <<after("object-group"), after("object"), after("eq"), after("lt"),
                      after("gt"), after("neq"), ports, icmp>>
      hits == {k \in DOMAIN found : found[k] # <<>>}
  IN IF tail = <<>> \/ hits = {} THEN <<>> ELSE found[Min(hits)]

is_rule(toks) == /\ Len(toks) >= 6 /\ toks[1] = "access-list" /\ toks[3] = "extended"
                 /\ toks[4] \in {"permit", "deny"}

\* The rules of one line, one for each binding of its ACL.
rules_of_line(text, i) ==
  LET toks    == text[i].toks
      acl     == toks[2]
      rest    == strip_modifiers(SubSeq(toks, 6, Len(toks)))
      operand == parse_protocol_operand(toks[5], rest)
      ends    == SubSeq(rest, operand.taken + 1, Len(rest))
      src     == parse_endpoint(ends, 1)
      dst     == parse_endpoint(ends, src.next)
      tail    == SubSeq(ends, dst.next, Len(ends))
      rows    == resolve_all(text, acl)
  IN [k \in DOMAIN rows |->
        [acl |-> acl, line |-> i, action |-> toks[4],
         order |-> Cardinality({n \in 1 .. i : is_rule(text[n].toks)}),
         enabled |-> "inactive" \notin {toks[n] : n \in 6 .. Len(toks)},
         operand |-> operand, src |-> src.ref, dst |-> dst.ref,
         service |-> IF operand.service # None THEN <<operand.service>>
                     ELSE extract_service_ref(operand, tail),
         usage |-> usage(text, acl), zones |-> rows[k], raw |-> toks]]

extract_rules(text) ==
  LET lines == in_order({i \in DOMAIN text : is_rule(text[i].toks)})
  IN FlattenSeq([n \in DOMAIN lines |-> rules_of_line(text, lines[n])])

\* CiscoAsaParserAdapter.parse; a configuration without rules is refused.
parse(text) ==
  [addresses |-> extract_addresses(text), services |-> extract_services(text),
   rules |-> extract_rules(text)]

=============================================================================
