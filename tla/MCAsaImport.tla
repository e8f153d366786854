---------------------------- MODULE MCAsaImport ----------------------------
(***************************************************************************)
(* Configurations put together from pieces, each with what the ASA means by *)
(* it.  The addresses, the services or the bindings of the rules vary, one  *)
(* at a time.                                                               *)
(*                                                                          *)
(* The meaning of a piece is [whole, touched]: the points it admits         *)
(* whatever else the packet carries, and those it admits for some packets   *)
(* (a clause on the source port).  A point is a host, or a protocol with a  *)
(* destination port, an ICMP type or nothing more.                          *)
(***************************************************************************)
EXTENDS AsaImport

MCDigits == [d \in {"0", "1", "2", "3", "6", "300"} |->
               CASE d = "0" -> 0 [] d = "1" -> 1 [] d = "2" -> 2 [] d = "3" -> 3
                 [] d = "6" -> 6 [] OTHER -> 300]
MCIpTokens == {"h1", "h2", "h3", "n1", "m24", "m31", "m_bad"}
MCBuiltin == [www |-> [protocol |-> "tcp", port |-> 2]]
MCNameZones == [IN_TO_DMZ |-> <<"in", "dmz">>]
MCPrefix == [m24 |-> 24, m31 |-> 31]
MCIcmpTypes == ("echo" :> 8) @@ ("echo-reply" :> 0)

top(toks) == [indent |-> 0, toks |-> toks]
sub(toks) == [indent |-> 1, toks |-> toks]

meaning(w, t) == [whole |-> w, touched |-> t]
exactly(ps) == meaning(ps, ps)
union_of(ms) == meaning(UNION {m.whole : m \in ms}, UNION {m.touched : m \in ms})
common(a, b) == meaning(a.whole \cap b.whole, a.touched \cap b.touched)

\* A line under a stanza, or an operand of a rule, and what it means.
piece(toks, m) == [toks |-> toks, means |-> m]
stanza(toks, body) == <<top(toks)>> \o [k \in DOMAIN body |-> sub(body[k].toks)]

Ports == 0 .. 3
tcp(ports) == {<<"tcp", p>> : p \in ports}
udp(ports) == {<<"udp", p>> : p \in ports}
Icmp == {<<"icmp", t>> : t \in {"echo", "echo-reply", "weird"}}
Points == tcp(Ports) \cup udp(Ports) \cup Icmp \cup {<<"esp">>, <<"ospf">>, <<"300">>}
Hosts4 == {"h1", "h2", "h3", "www.example"}
Hosts6 == {"x6"}
Hosts == Hosts4 \cup Hosts6

----------------------------------------------------------------------------
(* Addresses: the object O, the groups G and G2, and the rule's source.     *)

HostH1   == piece(<<"host", "h1">>, exactly({"h1"}))
HostH2   == piece(<<"host", "h2">>, exactly({"h2"}))
Net      == piece(<<"subnet", "n1", "m24">>, exactly({"h1", "h2"}))
Span     == piece(<<"range", "h2", "h3">>, exactly({"h2", "h3"}))
Fqdn     == piece(<<"fqdn", "v4", "www.example">>, exactly({"www.example"}))
BadNet   == piece(<<"subnet", "n1", "m_bad">>, meaning({}, Hosts))
NatLine      == piece(<<"nat", "static">>, exactly({}))
Remark   == piece(<<"description", "x">>, exactly({}))

\* The stanzas of O; the meaning is that of its last line with an address.
ObjectBodies ==
  {[stanzas |-> <<<<b>>>>, means |-> b.means] : b \in {HostH1, Net, Span, Fqdn, BadNet}}
  \cup {[stanzas |-> <<<<Remark, HostH1>>, <<NatLine>>>>, means |-> HostH1.means],
        [stanzas |-> <<<<HostH1>>, <<HostH2>>>>, means |-> HostH2.means],
        [stanzas |-> <<<<NatLine>>, <<HostH1, NatLine>>>>, means |-> HostH1.means],
        [stanzas |-> <<<<Net>>, <<NatLine>>, <<Remark>>>>, means |-> Net.means]}

G2Body == <<piece(<<"network-object", "host", "h3">>, exactly({"h3"}))>>

Unknown == meaning({}, Hosts)

AddressMembers(o) ==
  {piece(<<"network-object", "host", "h2">>, exactly({"h2"})),
   piece(<<"network-object", "n1", "m31">>, exactly({"h1"})),
   piece(<<"network-object", "n1", "m_bad">>, Unknown),
   piece(<<"network-object", "net6">>, exactly(Hosts6)),
   piece(<<"network-object", "object", "O">>, o.means),
   piece(<<"network-object", "object", "GONE">>, Unknown),
   piece(<<"group-object", "G2">>, exactly({"h3"})), Remark}

Sources(o, g) ==
  {piece(<<"any">>, exactly(Hosts)), piece(<<"any4">>, exactly(Hosts4)), piece(<<"any6">>, exactly(Hosts6)),
   piece(<<"host", "h2">>, exactly({"h2"})), piece(<<"n1", "m24">>, exactly({"h1", "h2"})),
   piece(<<"n1", "m_bad">>, Unknown), piece(<<"object", "O">>, o.means),
   piece(<<"object-group", "G">>, g), piece(<<"object-group", "GONE">>, Unknown),
   piece(<<"interface", "dmz">>, Unknown)}

Bodies(members) == {<<a>> : a \in members} \cup {<<a, b>> : a, b \in members}
body_means(b) == union_of({b[k].means : k \in DOMAIN b})

Bound == <<top(<<"interface", "eth0">>), sub(<<"nameif", "dmz">>),
           top(<<"access-group", "A", "in", "interface", "eth0">>)>>

acl(name, action, proto, rest) ==
  top(<<"access-list", name, "extended", action>> \o proto \o rest)

AllPoints == exactly(Points)
EveryHost == exactly(Hosts)

\* A configuration: its lines, and of each rule's line what it means, the text
\* in the order in which "show running-config" writes it.
configuration(lines, rules) == [text |-> lines, rules |-> rules]
line_means(s, d, x) == [src |-> s, dst |-> d, service |-> x]

AddressConfigs ==
  {configuration(FlattenSeq([k \in DOMAIN o.stanzas |-> stanza(<<"object", "network", "O">>, o.stanzas[k])])
          \o stanza(<<"object-group", "network", "G2">>, G2Body)
          \o stanza(<<"object-group", "network", "G">>, b)
          \o <<acl("A", "permit", <<"ip">>, s.toks \o <<"object-group", "G">>)>> \o Bound,
          <<line_means(s.means, body_means(b), AllPoints)>>) :
     <<o, b, s>> \in UNION {{<<o, b, s>> : s \in Sources(o, body_means(b))} :
                            <<o, b>> \in UNION {{o} \X Bodies(AddressMembers(o)) : o \in ObjectBodies}}}

----------------------------------------------------------------------------
(* Services: the object S, the groups and the operands of the rule.         *)

PortClauses ==
  {[toks |-> <<"eq", "1">>, ports |-> {1}], [toks |-> <<"eq", "www">>, ports |-> {2}],
   [toks |-> <<"range", "1", "2">>, ports |-> {1, 2}], [toks |-> <<"lt", "2">>, ports |-> {0, 1}],
   [toks |-> <<"gt", "1">>, ports |-> {2, 3}], [toks |-> <<"neq", "1">>, ports |-> {0, 2, 3}]}

ServiceBodies ==
  {piece(<<"tcp">>, exactly(tcp(Ports))), piece(<<"esp">>, exactly({<<"esp">>})),
   piece(<<"ospf">>, exactly({<<"ospf">>})), piece(<<"icmp", "echo">>, exactly({<<"icmp", "echo">>})),
   piece(<<"icmp", "weird">>, exactly({<<"icmp", "weird">>})),
   piece(<<"tcp", "source", "eq", "1", "destination", "eq", "2">>, meaning({}, tcp({2}))),
   piece(<<"udp", "source", "lt", "2">>, meaning({}, udp(Ports))),
   piece(<<"tcp-udp", "destination", "eq", "1">>, exactly(tcp({1}) \cup udp({1}))),
   piece(<<"tcp-udp", "eq", "1">>, exactly(tcp({1}) \cup udp({1})))}
  \cup {piece(<<"tcp", "destination">> \o c.toks, exactly(tcp(c.ports))) : c \in PortClauses}
  \cup {piece(<<"udp">> \o c.toks, exactly(udp(c.ports))) : c \in PortClauses}

Ip == piece(<<"any", "any">>, AllPoints)
rule_of(proto, rest, m) == [proto |-> proto, rest |-> <<"any", "any">> \o rest, means |-> m]

MissingService == meaning({}, Points)

Sources4 == {<<"tcp", tcp(Ports)>>, <<"udp", udp(Ports)>>}

\* A group of members and a rule that names it.
grouped(header, b, r) == [stanzas |-> <<stanza(header, b)>>, rule |-> r]

ProtocolOf(proto) == CASE proto = "tcp" -> tcp(Ports) [] proto = "udp" -> udp(Ports)
                       [] OTHER -> tcp(Ports) \cup udp(Ports)

port_points(proto, ports) == (tcp(ports) \cup udp(ports)) \cap ProtocolOf(proto)

\* Members of a group of ports; "INNER" is a group of the same protocol.
PortMembers(proto) ==
  {piece(<<"port-object">> \o c.toks, exactly(port_points(proto, c.ports))) :
     c \in {d \in PortClauses : d.toks[1] \in {"eq", "range"}}}
  \cup {piece(<<"group-object", "INNER">>, exactly(port_points(proto, {3}))),
        piece(<<"group-object", "GONE">>, meaning({}, ProtocolOf(proto))), Remark}

inner(proto) == stanza(<<"object-group", "service", "INNER", proto>>,
                       <<piece(<<"port-object", "eq", "3">>, exactly({}))>>)

PortGroupCases ==
  {[stanzas |-> inner(gp) \o stanza(<<"object-group", "service", "SG", gp>>, b),
    rule |-> rule_of(<<rp>>, <<"object-group", "SG">>,
                     common(body_means(b), exactly(ProtocolOf(rp))))] :
     <<gp, rp, b>> \in UNION {{<<gp, rp, b>> : b \in Bodies(PortMembers(gp))} :
                              <<gp, rp>> \in {<<"tcp", "tcp">>, <<"udp", "udp">>,
                                              <<"tcp-udp", "tcp">>, <<"tcp-udp", "udp">>}}}

\* Members of a group of services of any protocol, with the object S.
ServiceMembers(s) ==
  {piece(<<"service-object">> \o m.toks, m.means) : m \in ServiceBodies}
  \cup {piece(<<"service-object", "object", "S">>, s.means),
        piece(<<"service-object", "6">>, exactly(tcp(Ports))),
        piece(<<"group-object", "GONE">>, MissingService)}

ServiceGroupCases ==
  {[stanzas |-> stanza(<<"object", "service", "S">>, <<piece(<<"service">> \o s.toks, s.means)>>)
                \o stanza(<<"object-group", "service", "SG">>, b),
    rule |-> rule_of(<<"object-group", "SG">>, <<>>, body_means(b))] :
     <<s, b>> \in UNION {{s} \X Bodies(ServiceMembers(s)) :
                         s \in {x \in ServiceBodies : x.toks[1] \in {"tcp", "ospf"}}}}

ObjectCases ==
  {[stanzas |-> stanza(<<"object", "service", "S">>, <<piece(<<"service">> \o s.toks, s.means)>>),
    rule |-> rule_of(<<"object", "S">>, <<>>, s.means)] : s \in ServiceBodies}

ProtocolMembers ==
  {piece(<<"protocol-object", "tcp">>, exactly(tcp(Ports))),
   piece(<<"protocol-object", "udp">>, exactly(udp(Ports))),
   piece(<<"protocol-object", "6">>, exactly(tcp(Ports))),
   piece(<<"protocol-object", "esp">>, exactly({<<"esp">>})),
   piece(<<"protocol-object", "ospf">>, exactly({<<"ospf">>})),
   piece(<<"group-object", "PG2">>, exactly(udp(Ports)))}

ProtocolGroupCases ==
  {[stanzas |-> stanza(<<"object-group", "protocol", "PG2">>,
                       <<piece(<<"protocol-object", "udp">>, exactly({}))>>)
                \o stanza(<<"object-group", "protocol", "PG">>, b) \o inner("tcp-udp"),
    rule |-> r] :
     <<b, r>> \in UNION {{<<b, rule_of(<<"object-group", "PG">>, <<>>, body_means(b))>>,
                          <<b, rule_of(<<"object-group", "PG">>, <<"eq", "1">>,
                                       common(body_means(b), exactly(tcp({1}) \cup udp({1}))))>>,
                          <<b, rule_of(<<"object-group", "PG">>, <<"object-group", "INNER">>,
                                       common(body_means(b), exactly(tcp({3}) \cup udp({3}))))>>} :
                         b \in Bodies(ProtocolMembers)}}

IcmpMembers ==
  {piece(<<"icmp-object", t>>, exactly({<<"icmp", t>>})) : t \in {"echo", "weird"}}
  \cup {piece(<<"group-object", "IG2">>, exactly({<<"icmp", "echo-reply">>}))}

IcmpGroupCases ==
  {[stanzas |-> stanza(<<"object-group", "icmp-type", "IG2">>,
                       <<piece(<<"icmp-object", "echo-reply">>, exactly({}))>>)
                \o stanza(<<"object-group", "icmp-type", "IG">>, b),
    rule |-> rule_of(<<"icmp">>, <<"object-group", "IG">>, body_means(b))] :
     b \in Bodies(IcmpMembers)}

InlineRules ==
  {rule_of(<<p[1]>>, <<>>, exactly(p[2])) :
     p \in Sources4 \cup {<<"ip", Points>>, <<"icmp", Icmp>>, <<"esp", {<<"esp">>}>>,
                          <<"ospf", {<<"ospf">>}>>, <<"6", tcp(Ports)>>, <<"300", {<<"300">>}>>}}
  \cup {rule_of(<<"tcp">>, c.toks, exactly(tcp(c.ports))) : c \in PortClauses}
  \cup {rule_of(<<"udp">>, c.toks \o <<"log">>, exactly(udp(c.ports))) : c \in PortClauses}
  \cup {rule_of(<<"icmp">>, <<t, "inactive">>, exactly({<<"icmp", t>>})) : t \in {"echo", "weird"}}
  \cup {rule_of(<<"tcp">>, <<"eq", "1", "time-range", "NIGHT", "log">>, exactly(tcp({1}))),
        rule_of(<<"tcp">>, <<"eq", "unheard">>, meaning({}, tcp(Ports))),
        rule_of(<<"tcp">>, <<"object-group", "GONE">>, meaning({}, tcp(Ports))),
        rule_of(<<"object">>, <<>>, MissingService),
        rule_of(<<"object", "GONE">>, <<>>, MissingService),
        rule_of(<<"object-group", "GONE">>, <<>>, MissingService),
        rule_of(<<"6">>, <<"eq", "1">>, exactly(tcp({1}))),
        [proto |-> <<"tcp">>, rest |-> <<"any", "eq", "1", "any">>, means |-> meaning({}, tcp(Ports))],
        [proto |-> <<"tcp">>, rest |-> <<"any", "eq", "1", "any", "eq", "2">>,
         means |-> meaning({}, tcp({2}))]}

InlineCases == {[stanzas |-> <<>>, rule |-> r] : r \in InlineRules}

ServiceConfigs ==
  {configuration(c.stanzas \o <<acl("A", "deny", c.rule.proto, c.rule.rest)>> \o Bound,
          <<line_means(EveryHost, EveryHost, c.rule.means)>>) :
     c \in InlineCases \cup ObjectCases \cup PortGroupCases \cup ServiceGroupCases
           \cup ProtocolGroupCases \cup IcmpGroupCases}

----------------------------------------------------------------------------
(* Bindings: two lists of rules, their interfaces and crypto maps.          *)

Interfaces == {<<>>, <<top(<<"interface", "eth0">>), sub(<<"nameif", "dmz">>)>>,
               <<top(<<"interface", "eth0">>), sub(<<"nameif", "dmz">>),
                 top(<<"interface", "eth1">>), sub(<<"nameif", "lan">>)>>}

Groups(name) ==
  {<<>>, <<top(<<"access-group", name, "global">>)>>,
   <<top(<<"access-group", name, "in", "interface", "eth0">>)>>,
   <<top(<<"access-group", name, "in", "interface", "eth0">>),
     top(<<"access-group", name, "out", "interface", "eth1">>)>>,
   <<top(<<"access-group", name, "global">>),
     top(<<"access-group", name, "out", "interface", "eth0">>)>>}

Crypto(name) == {<<>>, <<top(<<"crypto", "map", "M", "10", "match", "address", name>>)>>}

http == acl("A", "permit", <<"tcp">>, <<"any", "any", "eq", "www">>)
off  == acl("A", "permit", <<"tcp">>, <<"any", "any", "eq", "1", "inactive">>)
dns(name) == acl(name, "permit", <<"udp">>, <<"any", "host", "h1", "eq", "3">>)

Web  == line_means(EveryHost, EveryHost, exactly(tcp({2})))
Off  == line_means(EveryHost, EveryHost, exactly(tcp({1})))
Dns  == line_means(EveryHost, exactly({"h1"}), exactly(udp({3})))

RuleLines == {[lines |-> <<http, http>>, means |-> <<Web, Web>>, name |-> "A"],
              [lines |-> <<http, off, dns("IN_TO_DMZ"), http>>, means |-> <<Web, Off, Dns, Web>>, name |-> "IN_TO_DMZ"],
              [lines |-> <<dns("IN_TO_DMZ"), dns("IN_TO_DMZ")>>, means |-> <<Dns, Dns>>, name |-> "IN_TO_DMZ"]}

BindingConfigs ==
  {configuration(i \o r.lines \o g1 \o g2 \o c, r.means) :
     <<r, i, g1, g2, c>> \in UNION {{r} \X Interfaces \X Groups("A") \X (IF r.name = "A" THEN {<<>>} ELSE Groups(r.name))
                                                                         \X Crypto(r.name) :
                                     r \in RuleLines}}
  \cup {configuration(Bound, <<>>)}

MCConfigs == AddressConfigs \cup ServiceConfigs \cup BindingConfigs

MCAddressPoints == ("h1" :> {"h1"}) @@ ("h2" :> {"h2"}) @@ ("h3" :> {"h3"})
                   @@ ("www.example" :> {"www.example"})
MCSpanPoints(a, b) == IF <<a, b>> = <<"h2", "h3">> THEN {"h2", "h3"} ELSE {}
MCNetPoints(net, prefix) == IF prefix = 24 THEN {"h1", "h2"} ELSE {"h1"}
MCIcmpNames == (8 :> "echo") @@ (0 :> "echo-reply")

=============================================================================
