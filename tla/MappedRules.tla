----------------------------- MODULE MappedRules -----------------------------
(***************************************************************************)
(* From picked rules to rules that can be executed: the mapping of their   *)
(* operands, the page that shows how far it is, its bulk and single        *)
(* actions, and what the execution reads in the end.                       *)
(*                                                                         *)
(* Several browser sessions work on the one mapping scope; each keeps what *)
(* it has loaded in its own caches.  An action is one click with the use   *)
(* case it runs; MappingScope has the interleavings inside of use cases.   *)
(***************************************************************************)
EXTENDS CanonicalPage

CONSTANTS
  Worlds,       \* what shelf may be: see CanonicalPage; picks, opened, looks and sessions bound
                \* what is picked, opened, listed, by whom, and edits how often
  Sessions,
  ManualBase    \* where the ids of results without a canonical entity begin

\* What may be set as a filter, and where links lead.
is_filter(f) ==
  f \in [rule_ids: SUBSET Nat, search: {f.search}, facets: {f.facets}, zones: SUBSET Nat,
         objects: SUBSET Nat]

is_link(l) == l \in [kind: {"object", "zone", "rule"}, id: Nat]

\* Ids are ids: none is NoObject, and the results without a canonical entity and the objects
\* that will be created have their own.
ASSUME WorldsAssumption ==
  /\ ManualBase \in Nat
  /\ \A w \in Worlds :
       /\ Len(w.snapshots) \in Nat \ {0}
       /\ \A n \in 1 .. Len(w.snapshots) :
            /\ well_formed(w.snapshots[n])
            /\ \A e \in w.snapshots[n].zones \cup w.snapshots[n].objects :
                 e.id < ManualBase /\ is_entity(e)
       /\ \A x \in w.catalog \cup w.incoming : x.id \in Nat \ {NoObject} /\ x.id < w.next
       /\ \A x \in w.catalog : is_object(x)
       /\ \A x, y \in w.catalog : x.side = y.side /\ x.id = y.id => x = y
       /\ w.next \in Nat \ {NoObject}
       /\ w.sessions \subseteq Sessions
       /\ \A f \in w.filters : is_filter(f)
       /\ \A l \in w.links : is_link(l)
       /\ w.requests \subseteq Seq(Nat)

VARIABLES
  answer,    \* of the last mapping: [asked, fails], NONE before
  scope,     \* [rules, operands, results, catalog]; NoScope before
  catalog,   \* the objects of the SD-WAN
  cache,     \* session -> what st.session_state holds of the mapping
  \* bookkeeping of the model
  made,      \* result -> the object created for it, the latest
  edits

mapVars == <<answer, scope, catalog, cache, made, edits>>
vars == <<pageVars, mapVars>>

NoScope == <<>>

\* A map with one more entry, and one with some entries written over.
entry(i, v) == [j \in {i} |-> v]
over(old, new) ==
  [i \in DOMAIN old \cup DOMAIN new |-> IF i \in DOMAIN new THEN new[i] ELSE old[i]]

MappedRole(role) ==
  CASE role = "SRC_OBJECT" -> "SRC_ADDR" [] role = "DST_OBJECT" -> "DST_ADDR" [] OTHER -> role

entity(i) == CHOOSE e \in snapshot.zones \cup snapshot.objects : e.id = i
is_manual(r) == r >= ManualBase
side_of(r) == IF is_manual(r) THEN "zone" ELSE entity(r).side

in_catalog(side, o) == \E x \in catalog : x.id = o /\ x.side = side
catalog_object(o) == CHOOSE x \in catalog : x.id = o

----------------------------------------------------------------------------
(* The mapping.                                                             *)

\* Mutant of operand_targets: an empty group vanishes from the rule.
operand_targets_or_none(t) ==
  IF t \notin groups THEN [fails |-> FALSE, targets |-> {t}]
  ELSE [fails |-> walk_fails(t), targets |-> IF walk_fails(t) THEN {} ELSE resolve_group_leaves(t)]

\* MappingScopeRulesBuilder._resolve_operand_targets: a group stands for its leaves, and
\* must have one.
operand_targets(t) ==
  IF t \notin groups THEN [fails |-> FALSE, targets |-> {t}]
  ELSE IF walk_fails(t) THEN [fails |-> TRUE, targets |-> {}]
       ELSE [fails |-> resolve_group_leaves(t) = {}, targets |-> resolve_group_leaves(t)]

build_operands(rules) ==
  UNION {UNION {[rule: {u}, role: {MappedRole(op.role)}, result: operand_targets(op.target).targets] :
                  op \in rule_of(u).operands} : u \in rules}

build_fails(rules) == \E op \in operands_of(rules) : operand_targets(op.target).fails

entity_results(entities) ==
  LET found == build_results(entities, catalog)
  IN  [i \in DOMAIN found |->
         [how |-> IF found[i].status = "MATCHED" THEN "auto" ELSE NONE, status |-> found[i].status,
          selected |-> found[i].selected, candidates |-> found[i].candidates]]

\* The header with the fingerprint of the catalog it was made on, and the rules attached
\* to it: each operand points to a result, a group to the results of its leaves.
new_scope(rules, results) ==
  [rules |-> rules, operands |-> build_operands(rules), results |-> results, catalog |-> catalog]

\* MapCanonicalToSdwan, once the target is accepted: all or nothing is stored.
MapRules(ids) ==
  LET read == scope_entities(ids)
      fails == read.fails \/ build_fails(read.rules)
  IN  /\ answer' = [asked |-> ids, fails |-> fails]
      /\ scope' = IF fails THEN NoScope
                  ELSE new_scope(read.rules, entity_results(read.entities))
      /\ page' = IF fails THEN page ELSE NONE
      /\ UNCHANGED <<snapshot, shelf, latest, ticked, left, catalog, cache, made, edits>>

\* "Generate rules": the selected rules, shown or not.  When the mapping is there the
\* application goes on to another page.
Generate ==
  /\ scope = NoScope /\ page # NONE
  /\ page.visible # <<>> /\ page.selected # {} /\ page.shows = latest
  /\ MapRules(sorted_ids(page.selected))

\* The same over the HTTP interface, which takes any ids.
MapByApi ==
  /\ scope = NoScope /\ page = NONE /\ answer = NONE
  /\ \E ids \in shelf.requests : MapRules(ids)

----------------------------------------------------------------------------
(* What is shown of the scope: the projection of its rules.                 *)

Results == IF scope = NoScope THEN {} ELSE DOMAIN scope.results

\* _sdwan_result_display.  A selected object that the catalog has no more is an error.
lost(r) == /\ scope.results[r].status = "MATCHED"
           /\ ~in_catalog(side_of(r), scope.results[r].selected)

result_display(r) ==
  [result |-> r, status |-> scope.results[r].status,
   object |-> IF scope.results[r].status = "MATCHED" THEN catalog_object(scope.results[r].selected)
              ELSE NONE]

row(canonical, parent) ==
  [canonical |-> canonical, parent |-> parent,
   sdwan |-> IF canonical \in groups THEN {} ELSE {result_display(canonical)}]

\* A leaf is a row; a group is a row for itself and one for everything below it.
canonical_rows(t) ==
  IF t \notin groups THEN {row(t, NONE)}
  ELSE {row(m.id, m.parent) : m \in resolve_group_members(t)}

manual_rows(u, role) ==
  {[canonical |-> NONE, parent |-> NONE, sdwan |-> {result_display(op.result)}] :
     op \in {x \in scope.operands : x.rule = u /\ x.role = MappedRole(role) /\ is_manual(x.result)}}

role_rows(u, role) ==
  (UNION {canonical_rows(op.target) : op \in {x \in rule_of(u).operands : x.role = role}})
    \cup manual_rows(u, role)

sdwan_sides(rows) == UNION {x.sdwan : x \in rows}

\* Mutant of rule_status: a role that is empty is overlooked.
rule_status_of_rows(details) ==
  LET statuses == {d.status : d \in UNION {sdwan_sides(details[role]) : role \in Roles}}
  IN  IF statuses = {"MATCHED"} THEN "MAPPED"
      ELSE IF statuses = {} \/ statuses = {"UNRESOLVED"} THEN "UNRESOLVED"
      ELSE IF "UNRESOLVED" \in statuses THEN "PARTIAL" ELSE "AMBIGUOUS"

\* _aggregate_rule_status_by_roles: a role without an SD-WAN side counts as unresolved.
rule_status(details) ==
  LET statuses == {d.status : d \in UNION {sdwan_sides(details[role]) : role \in Roles}}
                    \cup {"UNRESOLVED" : role \in {x \in Roles : sdwan_sides(details[x]) = {}}}
  IN  IF statuses = {"MATCHED"} THEN "MAPPED"
      ELSE IF "UNRESOLVED" \in statuses
           THEN IF statuses = {"UNRESOLVED"} THEN "UNRESOLVED" ELSE "PARTIAL"
      ELSE "AMBIGUOUS"

projection_fails == \E op \in scope.operands : lost(op.result)

projected_rule(details) == [details |-> details, status |-> rule_status(details)]

build_projection ==
  [u \in scope.rules |-> projected_rule([role \in Roles |-> role_rows(u, role)])]

\* GetMappingEntityResultDetails: the selection and every candidate must be in the catalog.
details_fail(r) ==
  \/ lost(r)
  \/ \E o \in scope.results[r].candidates : ~in_catalog(side_of(r), o)

build_details(r) ==
  [result |-> scope.results[r], display |-> result_display(r),
   candidates |-> {catalog_object(o) : o \in scope.results[r].candidates}]

\* The page: the banner, and for each role of a rule whether something is to be done.
unmatched_rules(projection) == {u \in DOMAIN projection : projection[u].status # "MAPPED"}

has_selected(rows) == \E d \in sdwan_sides(rows) : d.status = "MATCHED"

need_mapping(rows) == {d \in sdwan_sides(rows) : d.status # "MATCHED"}

\* Only the zone roles must have an entity; a group's own row counts for nothing.
roles_statuses_of_rule(details) ==
  [role \in Roles |->
     IF \/ need_mapping(details[role]) # {}
        \/ role \in ZoneRoles /\ ~has_selected(details[role])
     THEN "NEED_MAPPING" ELSE "OK"]

----------------------------------------------------------------------------
(* What the execution reads: MappingReader.get_mapping_scope_rules.         *)

MappedRoles == {MappedRole(role) : role \in Roles}

entities_ids(u, role) ==
  {scope.results[op.result].selected : op \in {x \in scope.operands : x.rule = u /\ x.role = role}}

reader_accepts ==
  /\ \A r \in Results : scope.results[r].status = "MATCHED"
  /\ \A u \in scope.rules : \A role \in MappedRoles : entities_ids(u, role) # {}

----------------------------------------------------------------------------
(* The caches of a session and what is dropped after its own changes.       *)

\* A loaded value, and whether somebody else has changed what it was read from; then it no
\* longer matters what exactly it was, but for the rows to pick from.
loaded(v) == [value |-> v, outdated |-> FALSE]
outdate(c) == [i \in DOMAIN c |-> [value |-> NONE, outdated |-> TRUE]]
outdate_rows(c) == [i \in DOMAIN c |-> [value |-> c[i].value, outdated |-> TRUE]]

\* projection: at most one entry; details: by result; rows: by side.
EmptyCache == [projection |-> <<>>, details |-> <<>>, rows |-> <<>>, seen |-> {}]

outdate_all(c) ==
  [projection |-> outdate(c.projection), details |-> outdate(c.details), rows |-> outdate_rows(c.rows),
   seen |-> c.seen]

without(c, i) == [j \in DOMAIN c \ {i} |-> c[j]]

\* Mutant of after_mapping_result_mutation: the projection stays.
after_mapping_result_mutation_details(c, r) == [c EXCEPT !.details = without(@, r)]

after_mapping_result_mutation(c, r) ==
  [projection |-> <<>>, details |-> without(c.details, r), rows |-> c.rows, seen |-> c.seen]

after_scope_mapping_mutation(c) ==
  [projection |-> <<>>, details |-> <<>>, rows |-> c.rows, seen |-> c.seen]

after_sdwan_catalog_mutation(c) == [EmptyCache EXCEPT !.seen = c.seen]

\* The session's own invalidation; for all the others the change comes unnoticed.
Invalidate(s, mine) ==
  cache' = [t \in Sessions |-> IF t = s THEN mine ELSE outdate_all(cache[t])]

\* _get_or_load: what is there is not read again, and a failure leaves nothing.
LoadProjection(s) ==
  /\ cache[s].projection = <<>>
  /\ ~projection_fails
  /\ cache' = [cache EXCEPT ![s].projection = <<loaded(build_projection)>>]
  /\ UNCHANGED <<scope, catalog, made, edits>>

\* A result is opened from the rows of a rule; those of zones are not.
LoadDetails(s, r) ==
  /\ side_of(r) # "zone"
  /\ cache[s].projection # <<>> /\ r \notin DOMAIN cache[s].details
  /\ ~details_fail(r)
  /\ cache' = [cache EXCEPT ![s].details = over(@, entry(r, loaded(build_details(r))))]
  /\ UNCHANGED <<scope, catalog, made, edits>>

catalog_rows(side) == {x \in catalog : x.side = side}

\* The rows to pick from; the id of a picked row outlives them.
LoadRows(s, side) ==
  /\ cache[s].projection # <<>> /\ side \notin DOMAIN cache[s].rows
  /\ cache' = [cache EXCEPT ![s] =
       [projection |-> @.projection, details |-> @.details,
        rows |-> over(@.rows, entry(side, loaded(catalog_rows(side)))),
        seen |-> @.seen \cup (ids_of(catalog_rows(side)) \cap shelf.picks)]]
  /\ UNCHANGED <<scope, catalog, made, edits>>

Edit == edits < shelf.edits /\ edits' = edits + 1

\* SelectEntityCandidate from the candidates the session has loaded; one alone is no choice.
SelectCandidate(s, r) ==
  /\ r \in DOMAIN cache[s].details
  /\ Cardinality(scope.results[r].candidates) > 1
  /\ \E o \in scope.results[r].candidates :
       scope' = [scope EXCEPT !.results[r] = [@ EXCEPT !.status = "MATCHED", !.selected = o,
                                                      !.how = "candidate"]]
  /\ Invalidate(s, after_mapping_result_mutation(cache[s], r))
  /\ UNCHANGED <<catalog, made>>
  /\ Edit

\* SelectSdwanEntityDirectly: the object must be there and of the result's kind.
SelectDirectly(s, r) ==
  /\ r \in DOMAIN cache[s].details /\ side_of(r) \in DOMAIN cache[s].rows
  /\ \E o \in cache[s].seen :
       /\ in_catalog(side_of(r), o)
       /\ scope' = [scope EXCEPT !.results[r] = [@ EXCEPT !.status = "MATCHED", !.selected = o,
                                                      !.how = "direct"]]
  /\ Invalidate(s, after_mapping_result_mutation(cache[s], r))
  /\ UNCHANGED <<catalog, made>>
  /\ Edit

\* The results that resolve to a zone, and the rules without any of them in this direction.
matching_zone_results(z) ==
  {r \in Results : /\ side_of(r) = "zone" /\ scope.results[r].status = "MATCHED"
                   /\ scope.results[r].selected = z}

rules_without_zone(z, role) ==
  {u \in scope.rules : ~\E op \in scope.operands :
     op.rule = u /\ op.role = role /\ op.result \in matching_zone_results(z)}

manual_result(z) ==
  LET manual == {r \in matching_zone_results(z) : is_manual(r)}
  IN  IF manual # {} THEN CHOOSE r \in manual : \A q \in manual : r <= q
      ELSE ManualBase + Cardinality({r \in Results : is_manual(r)})

\* AssignZoneForScope on all the rules of the scope; the caches go even if nothing was to do.
AssignZone(s, role) ==
  /\ "zone" \in DOMAIN cache[s].rows
  /\ \E z \in ids_of(cache[s].rows["zone"].value) \cap shelf.picks :
       /\ in_catalog("zone", z)
       /\ scope' =
            IF rules_without_zone(z, role) = {} THEN scope
            ELSE [scope EXCEPT
                    !.operands = @ \cup [rule: rules_without_zone(z, role), role: {role},
                                         result: {manual_result(z)}],
                    !.results = over(entry(manual_result(z),
                      [how |-> "direct", status |-> "MATCHED", selected |-> z, candidates |-> {}]), @)]
  /\ Invalidate(s, after_scope_mapping_mutation(cache[s]))
  /\ UNCHANGED <<catalog, made>>
  /\ Edit

unresolved == {r \in Results : scope.results[r].status = "UNRESOLVED"}

\* AutoSelectEntitiesWithCreate: one object for each unresolved result it can be done for;
\* the others are reported.  When the refresh of the baseline at the end fails, the call
\* fails and the page drops nothing, though the objects are there.
AutoCreate(s) ==
  \E ok \in SUBSET {r \in unresolved : creatable(entity(r))}, refreshed \in BOOLEAN :
    /\ ok = {} => refreshed
    /\ LET id(r) == shelf.next + r
       IN  /\ scope' = [scope EXCEPT !.results = over(@,
                 [r \in ok |-> [how |-> "created", status |-> "MATCHED", selected |-> id(r),
                                candidates |-> {}]])]
           /\ catalog' = catalog \cup {created_object(entity(r), id(r)) : r \in ok}
           /\ made' = over(made, [r \in ok |-> id(r)])
    /\ Invalidate(s, IF refreshed THEN after_sdwan_catalog_mutation(cache[s])
                     ELSE outdate_all(cache[s]))
    /\ Edit

\* Somebody else adds an object, or deletes one.
EditCatalog ==
  /\ Edit
  /\ \/ \E o \in shelf.incoming : catalog' = catalog \cup {o}
     \/ \E o \in catalog : o.id \in shelf.outgoing /\ catalog' = catalog \ {o}
  /\ catalog' # catalog
  /\ cache' = [t \in Sessions |-> outdate_all(cache[t])]
  /\ UNCHANGED <<scope, made>>

----------------------------------------------------------------------------
Picking == scope = NoScope /\ PageNext /\ UNCHANGED mapVars

\* The mapped rules page, one session at a time.
Working ==
  /\ scope # NoScope
  /\ UNCHANGED <<pageVars, answer>>
  /\ \/ \E s \in shelf.sessions :
          \/ LoadProjection(s)
          \/ \E r \in Results \cap shelf.opened :
                LoadDetails(s, r) \/ SelectCandidate(s, r) \/ SelectDirectly(s, r)
          \/ \E side \in shelf.looks : LoadRows(s, side)
          \/ \E role \in {"SRC_ZONE", "DST_ZONE"} : AssignZone(s, role)
          \/ AutoCreate(s)
     \/ EditCatalog

Next == Picking \/ Generate \/ MapByApi \/ Working

InitIn(w) ==
  /\ shelf = w
  /\ snapshot = w.snapshots[1] /\ latest = 1
  /\ page = NONE /\ ticked = {} /\ left = FALSE
  /\ answer = NONE /\ scope = NoScope
  /\ catalog = w.catalog
  /\ cache = [s \in Sessions |-> EmptyCache]
  /\ made = <<>> /\ edits = 0

Init == \E w \in Worlds : InitIn(w)

Spec == Init /\ [][Next]_vars

----------------------------------------------------------------------------
(***************************************************************************)
(* Properties                                                              *)
(***************************************************************************)

network(addr, len) ==
  {x \in Addresses : x \div power[AddressBits - len] = addr \div power[AddressBits - len]}

\* What an entity and an object of the same shape mean, each from its own fields; a code that
\* the mapping does not know is a message of its own.
unknown(name) == [type |-> ANY, code |-> ANY, name |-> name]
entity_means(e) ==
  CASE e.kind = "HOST"   -> {e.value[1]}
    [] e.kind = "SUBNET" -> network(e.value[1], e.value[2])
    [] e.kind = "RANGE"  -> e.value[1] .. e.value[2]
    [] e.kind = "FQDN"   -> {NormalName[e.value[1]]}
    [] e.kind = "ICMP"   -> {m \in IcmpMessages : m.type = e.value[1]
                                                 /\ (e.value[2] # ANY => m.code = e.value[2])}
    [] OTHER             -> e.value[1] .. e.value[2]

object_means(o) ==
  CASE o.value[1] = "host"   -> {o.value[2]}
    [] o.value[1] = "prefix" -> network(o.value[2], o.value[3])
    [] o.value[1] = "range"  -> o.value[2] .. o.value[3]
    [] o.value[1] = "fqdn"   -> {NormalName[o.value[2]]}
    [] o.value[1] = "ICMP"   -> {m \in IcmpMessages : m.name \in o.value[3]}
                                  \cup {unknown(n) : n \in o.value[3] \ {m.name : m \in IcmpMessages}}
    [] OTHER                 -> UNION {x[1] .. x[2] : x \in o.value[2]}

\* A range of ports is an object of one range; several ranges are another shape.
same_shape(e, o) ==
  /\ e.value # <<>>
  /\ CASE e.kind = "HOST"   -> o.type = "HOST"
       [] e.kind = "SUBNET" -> o.type \in {"PREFIX", "NETWORK"}
       [] e.kind = "RANGE"  -> o.type = "IP_RANGE"
       [] e.kind = "FQDN"   -> o.type = "FQDN"
       [] e.kind = "ICMP"   -> o.type = "ICMP"
       [] e.kind \in {"TCP", "UDP"} -> o.type = e.kind /\ Cardinality(o.value[2]) = 1
       [] OTHER             -> FALSE

ByMeaning == {"HOST", "SUBNET", "RANGE", "FQDN", "TCP", "UDP", "ICMP"}

\* The candidates of an address or a service are the objects of the catalog of its shape
\* that mean the same: nothing wider or narrower is offered or chosen, and nothing that
\* would do is missed for how it is written.  ANY and zones go by their names.
candidates_mean_the_same ==
  scope # NoScope =>
    \A r \in {x \in Results : ~is_manual(x)} : \A e \in {entity(r)} :
      \A o \in {x \in scope.catalog : e.kind \in ByMeaning /\ x.side = e.side} :
        o.id \in scope.results[r].candidates
          <=> same_shape(e, o) /\ object_means(o) = entity_means(e)

\* An object made for an entity is one that the entity would have matched: mapping the same
\* rules again finds it instead of making a second one.
created_would_match ==
  \A r \in DOMAIN made :
    (\E o \in catalog : o.id = made[r]) => matches(entity(r), catalog_object(made[r]))

\* What an entity is matched to and what is created for it: the lookup, the index of the
\* catalog and the payload agree on what an object means.
MatchExact == candidates_mean_the_same /\ created_would_match

\* Walks through groups, as paths.
walk(p) == \A n \in 1 .. Len(p) - 1 : <<p[n], p[n + 1]>> \in snapshot.members
walks(g, n) == {p \in [1 .. n -> groups] : p[1] = g /\ walk(p)}
leaves_below(t) ==
  IF t \notin groups THEN {t}
  ELSE {m[2] : m \in {x \in snapshot.members : /\ x[2] \notin groups
                      /\ \E n \in 1 .. MaxGroupDepth : \E p \in walks(t, n) : p[n] = x[1]}}

answered_whole ==
  LET asked == {answer.asked[n] : n \in DOMAIN answer.asked}
      complete == /\ asked # {} /\ asked \subseteq ids_of(snapshot.rules)
                  /\ Cardinality(asked) = Len(answer.asked)
  IN  /\ answer.fails <=> \/ ~complete
                          \/ \E op \in operands_of(asked) :
                               \/ leaves_below(op.target) = {}
                               \/ op.target \in groups /\ walks(op.target, MaxGroupDepth + 1) # {}
      /\ answer.fails <=> scope = NoScope
      /\ ~answer.fails =>
           \A u \in asked : \A op \in rule_of(u).operands : \A t \in leaves_below(op.target) :
             [rule |-> u, role |-> MappedRole(op.role), result |-> t] \in scope.operands
               /\ t \in Results

\* A mapping takes all the rules asked for with all that their groups hold, however they are
\* nested, or nothing: a rule that lost part of an operand would let through other traffic.
MappingWhole == [][answer' # answer => answered_whole']_vars

\* When the page says that all rules are clear, the execution accepts the scope, and with the
\* very objects that the rows show in each role; when it does not, the execution refuses.
MappedIsPlanned ==
  scope # NoScope /\ ~projection_fails =>
    \A p \in {build_projection} :
      /\ unmatched_rules(p) = {} <=> reader_accepts
      /\ \A u \in scope.rules : \A role \in Roles :
           /\ unmatched_rules(p) = {} => roles_statuses_of_rule(p[u].details)[role] = "OK"
           /\ {d.object.id : d \in {x \in sdwan_sides(p[u].details[role]) : x.status = "MATCHED"}}
                = entities_ids(u, MappedRole(role)) \ {NoObject}

\* What a session has loaded is what it would load now, unless somebody else changed it or
\* an auto-creation failed at its end: a session's own changes never leave it with old data.
ShownIsCurrent ==
  \A s \in Sessions :
    /\ \A n \in DOMAIN cache[s].projection :
         ~cache[s].projection[n].outdated =>
           ~projection_fails /\ cache[s].projection[n].value = build_projection
    /\ \A r \in DOMAIN cache[s].details :
         ~cache[s].details[r].outdated =>
           ~details_fail(r) /\ cache[s].details[r].value = build_details(r)
    /\ \A side \in DOMAIN cache[s].rows :
         ~cache[s].rows[side].outdated => cache[s].rows[side].value = catalog_rows(side)
=============================================================================
