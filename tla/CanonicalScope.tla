--------------------------- MODULE CanonicalScope ---------------------------
(***************************************************************************)
(* Reading a canonical snapshot: the rules that pass a filter, a page of   *)
(* them, the zones and objects they use, and the groups among the objects. *)
(*                                                                         *)
(* The snapshot is [rules, zones, objects, members, says]: sets of records *)
(* with an id, the pairs <<group, member>>, and for each word that can be  *)
(* searched for the ids of what contains it.  A rule is [id, priority,     *)
(* name, action, enabled, section, status, operands], an operand           *)
(* [role, target].  It never changes once it is written.                   *)
(***************************************************************************)
EXTENDS ObjectMatching, SequencesExt

CONSTANTS
  NONE,           \* a filter left open
  MaxGroupDepth

ASSUME DepthAssumption == MaxGroupDepth \in Nat \ {0}

VARIABLE snapshot

Roles == {"SRC_ZONE", "DST_ZONE", "SRC_OBJECT", "DST_OBJECT", "SERVICE"}
ZoneRoles == {"SRC_ZONE", "DST_ZONE"}

ids_of(records) == {x.id : x \in records}

\* What the tables guarantee: keys, and references to what is there.  Members are written for
\* groups only, and zones for the roles of zones.
well_formed(s) ==
  /\ IsFiniteSet(s.rules) /\ IsFiniteSet(s.objects)
  /\ \A u \in s.rules : u.id \in Nat /\ u.priority \in Int /\ u.name \in Int
  /\ \A u, v \in s.rules : u.id = v.id => u = v
  /\ \A e, f \in s.zones \cup s.objects : e.id \in Nat /\ (e.id = f.id => e = f)
  /\ \A z \in s.zones : z \notin s.objects /\ ~IsGroup(z)
  /\ s.members \subseteq ids_of({o \in s.objects : IsGroup(o)}) \X ids_of(s.objects)
  /\ \A u \in s.rules : \A op \in u.operands :
       /\ op.role \in Roles
       /\ op.target \in ids_of(IF op.role \in ZoneRoles THEN s.zones ELSE s.objects)

rule_of(i) == CHOOSE u \in snapshot.rules : u.id = i
object_of(i) == CHOOSE o \in snapshot.objects : o.id = i
groups == ids_of({o \in snapshot.objects : IsGroup(o)})

children(ids) == {m[2] : m \in {x \in snapshot.members : x[1] \in ids}}
parents(ids) == {m[1] : m \in {x \in snapshot.members : x[2] \in ids}}

----------------------------------------------------------------------------
(* Walking the membership of groups.                                        *)

\* The ids and what links lead to from them, round after round; nothing is added twice.
closure(links, ids) ==
  LET reach[n \in 0 .. Cardinality(snapshot.objects)] ==
        IF n = 0 THEN ids
        ELSE LET before == reach[n - 1]
             IN  before \cup {l[2] : l \in {k \in links : k[1] \in before}}
  IN  reach[Cardinality(snapshot.objects)]

\* Mutant of expand_operand_object_ids: only the direct parents are added.
expand_operand_object_ids_once(ids) == ids \cup parents(ids)

\* Filters walk up: the ids and all the groups that contain them.
expand_operand_object_ids(ids) == closure({<<m[2], m[1]>> : m \in snapshot.members}, ids)

\* expand_object_groups: what the ids hold, batch by batch; a group seen before is skipped.
expand_object_groups(ids) == closure({m \in snapshot.members : m[1] \in groups}, ids)

\* The groups a recursive walk from a group stands at when it is n deep.
groups_at(g) ==
  LET at[n \in 1 .. MaxGroupDepth + 1] ==
        IF n = 1 THEN {g} ELSE children(at[n - 1]) \cap groups
  IN  at

\* _collect_group_leaves and _collect_group_members fail alike: where a path goes on past
\* MAX_GROUP_DEPTH groups, which every cycle does in the end.
walk_fails(g) == groups_at(g)[MaxGroupDepth + 1] # {}

\* Each leaf once, at whatever depth.
resolve_group_leaves(g) ==
  UNION {children(groups_at(g)[n]) \ groups : n \in 1 .. MaxGroupDepth}

\* The rows of the hierarchy below a group: the group itself has no parent.  The same pair at
\* two places of it shows the same things.
resolve_group_members(g) ==
  {[id |-> g, parent |-> NONE]}
    \cup {[id |-> m[2], parent |-> m[1]] :
            m \in {x \in snapshot.members :
                     \E n \in 1 .. MaxGroupDepth : x[1] \in groups_at(g)[n]}}

----------------------------------------------------------------------------
(* Filtering rules.                                                         *)

uses(u, ids) == \E op \in u.operands : op.target \in ids

\* A search looks through the rules' own fields, the zones, or the objects with all the
\* groups they are in.  Without a hit of any kind nothing passes.
passes_search(u, search) ==
  \/ search.word = NONE
  \/ LET hits == snapshot.says[search.word]
     IN  \/ search.scope \in {"all", "rules"} /\ u.id \in hits
         \/ /\ search.scope \in {"all", "zones"}
            /\ uses(u, hits \cap ids_of(snapshot.zones))
         \/ /\ search.scope \in {"all", "objects"}
            /\ uses(u, expand_operand_object_ids(hits \cap ids_of(snapshot.objects)))

passes_facets(u, facets) ==
  \A f \in DOMAIN facets : facets[f] \in {NONE, u[f]}

\* A filter: [rule_ids, search, facets, zones, objects]; an empty set restricts nothing.
passes(u, f) ==
  /\ f.rule_ids = {} \/ u.id \in f.rule_ids
  /\ passes_search(u, f.search)
  /\ passes_facets(u, f.facets)
  /\ f.zones = {} \/ uses(u, f.zones)
  /\ f.objects = {} \/ uses(u, expand_operand_object_ids(f.objects))

NoFacets == [action |-> NONE, enabled |-> NONE, section |-> NONE, status |-> NONE]
NoFilter == [rule_ids |-> {}, search |-> [word |-> NONE, scope |-> "all"],
             facets |-> NoFacets, zones |-> {}, objects |-> {}]

\* CanonicalRuleFilters.has_any.
has_any(f) == f # [NoFilter EXCEPT !.search.scope = f.search.scope]

\* By priority, or by name in either direction; the id breaks a tie.
precedes(sort, a, b) ==
  LET x == IF sort = "default" THEN a.priority ELSE a.name
      y == IF sort = "default" THEN b.priority ELSE b.name
  IN  IF x = y THEN a.id < b.id ELSE IF sort = "desc" THEN x > y ELSE x < y

in_order(rules, sort) ==
  [n \in 1 .. Cardinality(rules) |->
     (CHOOSE u \in rules : Cardinality({v \in rules : precedes(sort, v, u)}) = n - 1).id]

sorted_ids(ids) ==
  [n \in 1 .. Cardinality(ids) |-> CHOOSE i \in ids : Cardinality({j \in ids : j < i}) = n - 1]

passing(f) == {u \in snapshot.rules : passes(u, f)}

list_filtered(f, sort) == in_order(passing(f), sort)

page_of(ids, size, number) ==
  SubSeq(ids, (number - 1) * size + 1, IF number * size < Len(ids) THEN number * size ELSE Len(ids))

----------------------------------------------------------------------------
(* The scope of some rules: what a mapping starts from.                     *)

operands_of(ids) == UNION {u.operands : u \in {x \in snapshot.rules : x.id \in ids}}

collect_zones(narrow, ids) ==
  {z \in snapshot.zones : narrow => \E op \in operands_of(ids) : op.target = z.id}

collect_objects(narrow, ids) ==
  LET seeds == {op.target : op \in {x \in operands_of(ids) : x.role \notin ZoneRoles}}
  IN  {o \in snapshot.objects : narrow => o.id \in expand_object_groups(seeds)}

scope_rules(ids) == {u.id : u \in {x \in snapshot.rules : x.id \in ids}}

\* The reader of the mapping asks for rules by id, and wants every one of them.  A repeated
\* id counts against what comes back.
scope_entities(ids) ==
  LET asked == {ids[n] : n \in DOMAIN ids}
      found == scope_rules(asked)
      narrow == has_any([NoFilter EXCEPT !.rule_ids = asked])
  IN  [fails |-> ids = <<>> \/ found = {} \/ Cardinality(found) # Len(ids),
       rules |-> found,
       entities |-> collect_zones(narrow, asked) \cup collect_objects(narrow, asked)]
=============================================================================
