--------------------------- MODULE MCMappedRules ---------------------------
(***************************************************************************)
(* Small worlds, each made for one question: what an entity is matched to, *)
(* how deep groups may go, how a page keeps its selection, and what        *)
(* sessions see of the scope they work on.                                 *)
(*                                                                         *)
(* Ids: rules 1-9, zones 11-19, objects 21-39, catalog 101-129, created    *)
(* objects from 200.                                                       *)
(***************************************************************************)
EXTENDS MappedRules

MCNormalName ==
  [n \in {"any", "all", "in", "out", "web", "h", "x.org"} |-> n]
    @@ ("Any" :> "any") @@ ("ALL" :> "all") @@ ("In" :> "in") @@ ("X.org" :> "x.org")

MCIcmpMessages ==
  {[type |-> 8, code |-> 0, name |-> "echo"],
   [type |-> 3, code |-> 0, name |-> "net"], [type |-> 3, code |-> 1, name |-> "host"]}

thing(id, side, kind, name, value) ==
  [id |-> id, side |-> side, kind |-> kind, name |-> name, value |-> value]
object(id, side, type, name, value) ==
  [id |-> id, side |-> side, type |-> type, name |-> name, value |-> value]

InZone == thing(11, "zone", "ZONE", "in", <<>>)
OutZone == thing(12, "zone", "ZONE", "out", <<>>)
AnyAddr == thing(21, "addr", "ANY_ADDR", "any", <<>>)
AnyService == thing(22, "service", "ANY_SERVICE", "any", <<>>)
addr(id, kind, value) == thing(id, "addr", kind, "h", value)
service(id, kind, value) == thing(id, "service", kind, "web", value)

\* The operands, from a set of targets for each role.
operands(sz, dz, so, do, sv) ==
  [role: {"SRC_ZONE"}, target: sz] \cup [role: {"DST_ZONE"}, target: dz]
    \cup [role: {"SRC_OBJECT"}, target: so] \cup [role: {"DST_OBJECT"}, target: do]
    \cup [role: {"SERVICE"}, target: sv]

rule(id, ops) ==
  [id |-> id, priority |-> id, name |-> 10 - id, action |-> "allow", enabled |-> TRUE,
   section |-> "acl", status |-> "ACTIVE", operands |-> ops]

world(snap, cat) ==
  [snapshots |-> <<snap>>, visited |-> FALSE, filters |-> {}, sorts |-> {}, links |-> {}, requests |-> {},
   sessions |-> {}, opened |-> {}, looks |-> {}, picks |-> {}, edits |-> 1, catalog |-> cat, incoming |-> {}, outgoing |-> {},
   next |-> 200]

snap_of(rules, zones, objects, members) ==
  [rules |-> rules, zones |-> zones, objects |-> objects, members |-> members,
   says |-> <<>>]

----------------------------------------------------------------------------
(* Matching: one entity at a time against two catalogs.                     *)

Zones == {object(101, "zone", "ZONE", "In", <<"zone">>),
          object(102, "zone", "ZONE", "out", <<"zone">>)}
Anys == {object(103, "addr", "PREFIX", "h", <<"prefix", 0, 0>>),
         object(104, "service", "TCP", "ALL", <<"TCP", {<<0, 9>>}, {}>>)}

RichCatalog == Zones \cup Anys \cup
  {object(105, "addr", "HOST", "Any", <<"host", 4>>),
   object(106, "addr", "HOST", "h", <<"host", 4>>),
   object(107, "addr", "PREFIX", "h", <<"prefix", 4, 3>>),
   object(108, "addr", "PREFIX", "h", <<"prefix", 4, 2>>),
   object(109, "addr", "NETWORK", "h", <<"prefix", 4, 2>>),
   object(110, "addr", "IP_RANGE", "h", <<"range", 4, 5>>),
   object(111, "addr", "IP_RANGE", "h", <<"range", 4, 4>>),
   object(112, "addr", "FQDN", "h", <<"fqdn", "X.org">>),
   object(113, "addr", "ADDR_GROUP", "h", <<"group">>),
   object(114, "service", "TCP", "web", <<"TCP", {<<2, 2>>}, {}>>),
   object(115, "service", "TCP", "web", <<"TCP", {<<2, 3>>}, {}>>),
   object(116, "service", "TCP", "web", <<"TCP", {<<2, 2>>, <<3, 3>>}, {}>>),
   object(117, "service", "UDP", "web", <<"UDP", {<<2, 2>>}, {}>>),
   object(118, "service", "ICMP", "web", <<"ICMP", {}, {"echo"}>>),
   object(119, "service", "ICMP", "web", <<"ICMP", {}, {"net", "host"}>>),
   object(120, "service", "ICMP", "web", <<"ICMP", {}, {"net"}>>),
   object(121, "service", "ICMP", "web", <<"ICMP", {}, {"net", "odd"}>>),
   object(122, "addr", "IP_RANGE", "h", <<"range", 5, 4>>),
   object(123, "service", "ANY", "web", <<"ANY", {}, {}>>)}

Entities ==
  {addr(23, kind, value) : kind \in {"HOST", "SUBNET"},
                           value \in {<<>>, <<4, 3>>, <<5, 2>>, <<4, 2>>, <<2, 2>>, <<6, 3>>}}
  \cup {addr(23, "RANGE", v) : v \in {<<>>, <<4, 5>>, <<4, 4>>, <<1, 2>>}}
  \cup {addr(23, "FQDN", v) : v \in {<<"x.org">>, <<"X.org">>, <<"web">>}}
  \cup {addr(23, "UNRESOLVED_ADDR", <<>>), AnyAddr}
  \cup {service(23, kind, v) : kind \in {"TCP", "UDP"}, v \in {<<2, 2>>, <<2, 3>>, <<3, 3>>}}
  \cup {service(23, "ICMP", v) : v \in {<<>>, <<8, ANY>>, <<3, ANY>>, <<3, 0>>, <<3, 1>>, <<5, ANY>>}}
  \cup {service(23, "IP_PROTO", <<>>), AnyService}

MatchWorlds ==
  {LET a == IF e.side = "addr" THEN e.id ELSE AnyAddr.id
       s == IF e.side = "service" THEN e.id ELSE AnyService.id
       u == rule(1, operands({11}, {12}, {a}, {AnyAddr.id}, {s}))
   IN  [world(snap_of({u}, {InZone, OutZone}, {AnyAddr, AnyService, e}, {}), cat)
          EXCEPT !.requests = {<<1>>}, !.sessions = {"s1"}] :
     e \in Entities, cat \in {RichCatalog, Zones \cup Anys}}

----------------------------------------------------------------------------
(* Groups: chains one to four deep, a cycle, an empty group, a leaf shared  *)
(* by two groups.                                                           *)

G == [n \in 31 .. 34 |-> addr(n, "ADDR_GROUP", <<>>)]
Leaf == addr(24, "HOST", <<1, 3>>)
Other == addr(25, "HOST", <<2, 3>>)

Memberships ==
  {{<<31, 24>>}, {<<31, 32>>, <<32, 24>>}, {<<31, 32>>, <<32, 33>>, <<33, 24>>},
   {<<31, 32>>, <<32, 33>>, <<33, 34>>, <<34, 24>>},
   {<<31, 24>>, <<31, 32>>, <<32, 31>>}, {<<31, 31>>, <<31, 24>>}, {},
   {<<31, 32>>, <<31, 24>>}, {<<31, 32>>, <<31, 33>>, <<32, 24>>, <<33, 24>>, <<33, 25>>},
   {<<31, 32>>, <<31, 33>>, <<32, 33>>, <<33, 24>>, <<32, 25>>}}

GroupWorlds ==
  {[world(snap_of({rule(1, operands({11}, {12}, {top, 25}, {21}, {22})),
                   rule(2, operands({11}, {}, {21}, {24}, {22}))},
                  {InZone, OutZone}, {AnyAddr, AnyService, Leaf, Other} \cup {G[n] : n \in 31 .. 34},
                  members),
          Zones \cup Anys)
      EXCEPT !.requests = {<<1>>, <<1, 2>>, <<2>>, <<2, 2>>, <<1, 7>>, <<>>}] :
     members \in Memberships, top \in {31, 32}}

----------------------------------------------------------------------------
(* The page: four rules on pages of two, in two snapshots.                  *)

filter(c) == c @@ NoFilter
facet(f, v) == filter([facets |-> (f :> v) @@ NoFacets])
search(w, s) == filter([search |-> [word |-> w, scope |-> s]])

\* The same zones and objects have other ids in the next snapshot: d is the distance.
PageSnap(d) ==
  LET g == 31 + d
  IN  [rules |-> {rule(1 + d, operands({11 + d}, {12 + d}, {g}, {21 + d}, {22 + d})),
                  [rule(2 + d, operands({11 + d}, {}, {24 + d}, {21 + d}, {22 + d}))
                     EXCEPT !.action = "deny"],
                  rule(3 + d, operands({}, {12 + d}, {21 + d}, {24 + d}, {22 + d}))}
                 \cup IF d = 0
                      THEN {[rule(4, operands({11}, {12}, {21}, {25}, {22})) EXCEPT !.enabled = FALSE]}
                      ELSE {},
       zones |-> {[z EXCEPT !.id = @ + d] : z \in {InZone, OutZone}},
       objects |-> {[o EXCEPT !.id = @ + d] : o \in {AnyAddr, AnyService, Leaf, Other, G[31], G[32]}},
       members |-> {<<31 + d, 32 + d>>, <<32 + d, 24 + d>>},
       says |-> [w |-> {2 + d, 24 + d}]]

PageWorlds ==
  {[world(PageSnap(0), Zones \cup Anys)
      EXCEPT !.snapshots = <<PageSnap(0), PageSnap(40)>>, !.visited = TRUE,
             !.filters = fs, !.sorts = {"desc"}, !.links = ls] :
     fs \in {{NoFilter, facet("action", "deny"), search("w", "rules")},
             {filter([objects |-> {24}]), search("w", "objects")},
             {NoFilter, search("w", "all"), filter([zones |-> {11}])},
             {facet("enabled", TRUE), search("w", "zones")}},
     ls \in {{[kind |-> "object", id |-> 25], [kind |-> "zone", id |-> 12],
              [kind |-> "rule", id |-> 3]}}}

----------------------------------------------------------------------------
(* Sessions: a host with two candidates, a service nothing matches, a rule  *)
(* without a destination zone, and a catalog that others change.            *)

Host == addr(23, "HOST", <<4, 3>>)
Service == service(26, "TCP", <<2, 3>>)

Twins == {object(105, "addr", "HOST", "h", <<"host", 4>>),
          object(106, "addr", "HOST", "h", <<"host", 4>>)}

SessionWorld(so, sv, asked) ==
  [world(snap_of({rule(1, operands({11}, {}, {so}, {21}, {sv})),
                  rule(2, operands({}, {12}, {21}, {21}, {22}))},
                 {InZone, OutZone}, {AnyAddr, AnyService, Host, Service, G[31]}, {<<31, 23>>}),
         Zones \cup Anys \cup Twins)
     EXCEPT !.requests = {asked},
            !.incoming = {object(107, "addr", "HOST", "h", <<"host", 4>>)},
            !.outgoing = {106}]

SessionWorlds ==
  {[SessionWorld(31, 26, <<1>>) EXCEPT
      !.sessions = {"s1"}, !.opened = {21, 23}, !.looks = {"addr", "zone"},
      !.picks = {101, 102, 103, 106, 107}, !.edits = 3],
   [SessionWorld(31, 26, <<1, 2>>) EXCEPT
      !.sessions = {"s1"}, !.opened = {23, 26}, !.looks = {"service", "zone"},
      !.picks = {102, 104}, !.edits = 3],
   [SessionWorld(23, 26, <<1>>) EXCEPT
      !.sessions = {"s1", "s2"}, !.opened = {23}, !.looks = {"addr"}, !.picks = {107}, !.edits = 3],
   [SessionWorld(23, 22, <<1, 2>>) EXCEPT
      !.sessions = {"s1", "s2"}, !.looks = {"zone"}, !.picks = {101, 102}, !.edits = 3]}

MCWorlds == MatchWorlds \cup GroupWorlds \cup PageWorlds \cup SessionWorlds
=============================================================================
