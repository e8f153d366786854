---------------------------- MODULE MappingScope ----------------------------
(***************************************************************************)
(* The mapping module over one mapping scope: the use cases that build it  *)
(* from a canonical snapshot and the ones that complete it by hand, the    *)
(* runtime-cache repository they share, and the SD-WAN object catalog.     *)
(*                                                                         *)
(* As in Execute, an action is the stretch of code between two awaits of   *)
(* the network or the database.  Releasing a client closes a connection    *)
(* and is such an await.  A job is one invocation of a use case; it runs   *)
(* one command, once.                                          *)
(***************************************************************************)
EXTENDS Integers, FiniteSets

CONSTANTS
  Jobs,
  Menus,        \* sets of commands that the jobs are asked for together, see Command
  NumEntities,  \* canonical entities of the scope, as list_results sorts them
  KindOf,       \* entity -> "addr", "service" or "zone"
  Supported,    \* entities of a kind that can be created on the controller
  Rules,
  Uses,         \* operands of the canonical rules: [rule, role, result]
  Objects,      \* SD-WAN object ids
  Existing,     \* those the catalog may have at the start; the others are to come
  TypeOf,       \* object -> "addr", "service" or "zone"
  Matches,      \* entity -> the objects that match it by value
  NoObject, NoResult, NoCommand,
  MaxFaults,    \* bound: failed calls, lost answers, expiry, restarts
  MaxEdits      \* bound: changes of the catalog by others

Entities == 1 .. NumEntities
ResultIds == Entities \cup Jobs   \* a manual zone result is named by its job
Roles == {"SRC_ZONE", "DST_ZONE", "SRC_ADDR", "DST_ADDR", "SERVICE"}
Kinds == {"addr", "service", "zone"}

\* get_sdwan_full_catalog reads the kinds in this order.
CatalogOrder == <<"zone", "service", "addr">>

Result ==
  [status: {"UNRESOLVED", "AMBIGUOUS", "MATCHED"}, selected: Objects \cup {NoObject},
   candidates: SUBSET Objects]

Command ==
  [op: {"map"}, target: {"MISSING", "DEVICE", "GROUP"}, priority: {"LOCAL", "PRE", "POST"}]
    \cup [op: {"direct"}, result: ResultIds, object: Objects]
    \cup [op: {"create"}, result: ResultIds]
    \cup [op: {"auto"}]
    \cup [op: {"assign"}, object: Objects, role: {"SRC_ZONE", "DST_ZONE"}]

Commands == UNION Menus

ASSUME MappingAssumption ==
  /\ Commands \subseteq Command
  /\ NumEntities \in Nat
  /\ Jobs \cap Entities = {}
  /\ KindOf \in [Entities -> Kinds]
  /\ Supported \subseteq {e \in Entities : KindOf[e] # "zone"}
  /\ Uses \subseteq [rule: Rules, role: Roles, result: Entities]
  /\ IsFiniteSet(Objects)
  /\ Existing \subseteq Objects
  /\ TypeOf \in [Objects -> Kinds]
  /\ Matches \in [Entities -> SUBSET Objects]
  /\ \A e \in Entities : \A o \in Matches[e] : TypeOf[o] = KindOf[e]
  /\ NoObject \notin Objects
  /\ NoResult \notin Result
  /\ NoCommand \notin Command
  /\ MaxFaults \in Nat
  /\ MaxEdits \in Nat

VARIABLES
  \* the SD-WAN controller (external)
  objects,      \* the objects in its catalog
  used,         \* every object id there ever was
  \* the "mapping.scope" entry of the runtime cache
  scope,        \* "none" before the mapping, "cached", or "gone"
  fingerprint,  \* catalog_fingerprint: the catalog it is the hash of
  results,
  operands,     \* the operands of the rules: [rule, role, result, by]
  \* the invocations
  pc, cmd, item, copy, object, known, part, was, queue, wins, rulesRead,
  \* bookkeeping of the model
  edits,        \* how often somebody else changed the catalog
  overlap,      \* whether two invocations were ever under way together
  faults

cacheVars == <<scope, fingerprint, results, operands>>
refreshVars == <<known, part, was>>
loopVars == <<item, copy, queue, wins>>
bookVars == <<edits, overlap>>
vars == <<objects, used, cacheVars, pc, cmd, object, rulesRead, refreshVars, loopVars,
          bookVars, faults>>

Ended == {"idle", "done", "failed"}
Labels == Ended \cup {"target", "catalog", "accept", "lookup", "assign", "canonical", "make",
                      "readback", "save"}

kind(r) == IF r \in Entities THEN KindOf[r] ELSE "zone"

----------------------------------------------------------------------------
(***************************************************************************)
(* Domain operations                                                       *)
(***************************************************************************)

\* MappingObjectsService._build_result: none, one or several candidates.
build_result(e, catalog) ==
  LET c == Matches[e] \cap catalog
  IN  IF c = {} THEN [status |-> "UNRESOLVED", selected |-> NoObject, candidates |-> {}]
      ELSE IF Cardinality(c) = 1
           THEN [status |-> "MATCHED", selected |-> CHOOSE o \in c : TRUE, candidates |-> c]
      ELSE [status |-> "AMBIGUOUS", selected |-> NoObject, candidates |-> c]

\* Mutant of select: the candidates, not read by get_result, are lost.
select_dropping(result, o) ==
  [result EXCEPT !.status = "MATCHED", !.selected = o, !.candidates = {}]

\* select_candidate, select_direct and select_created on the result as read.
select(result, o) == [result EXCEPT !.status = "MATCHED", !.selected = o]

\* The checks of MapCanonicalToSdwan on its target and its rules.
target_accepts(c) ==
  /\ Rules # {}
  /\ \/ c.target = "DEVICE" /\ c.priority = "LOCAL"
     \/ c.target = "GROUP" /\ c.priority \in {"PRE", "POST"}

\* The cached results that resolve to a zone: _get_matching_zone_results.
matching_zone_results(z) ==
  {r \in ResultIds : /\ scope = "cached" /\ results[r] # NoResult /\ kind(r) = "zone"
                     /\ results[r].status = "MATCHED" /\ results[r].selected = z}

rules_without_zone(ops, role, matching) ==
  {u \in Rules : ~\E op \in ops : op.rule = u /\ op.role = role /\ op.result \in matching}

----------------------------------------------------------------------------
Init ==
  /\ objects \in SUBSET Existing
  /\ used = objects
  /\ scope = "none"
  /\ fingerprint = {}
  /\ results = [r \in ResultIds |-> NoResult]
  /\ operands = {}
  /\ pc = [j \in Jobs |-> "idle"]
  /\ cmd = [j \in Jobs |-> NoCommand]
  /\ item = [j \in Jobs |-> NoResult]
  /\ copy = [j \in Jobs |-> NoResult]
  /\ object = [j \in Jobs |-> NoObject]
  /\ known = [j \in Jobs |-> {}]
  /\ part = [j \in Jobs |-> 0]
  /\ was = [j \in Jobs |-> {}]
  /\ queue = [j \in Jobs |-> {}]
  /\ wins = [j \in Jobs |-> 0]
  /\ rulesRead = [j \in Jobs |-> {}]
  /\ edits = 0
  /\ overlap = "no"
  /\ faults = 0

Goto(j, label) == pc' = [pc EXCEPT ![j] = label]

Fault == faults < MaxFaults /\ faults' = faults + 1

\* A job takes a command from the menu the others took theirs from.
Take(j, c) ==
  /\ pc[j] = "idle"
  /\ \E menu \in Menus : {c} \cup {cmd[k] : k \in Jobs} \subseteq menu \cup {NoCommand}
  /\ cmd' = [cmd EXCEPT ![j] = c]
  /\ overlap' = IF \E k \in Jobs \ {j} : pc[k] \notin Ended THEN "yes" ELSE overlap

----------------------------------------------------------------------------
(***************************************************************************)
(* Steps several use cases share                                           *)
(***************************************************************************)

\* RefreshMappingScopeCatalogFingerprint up to its first await.
BeginRefresh(j) ==
  /\ Goto(j, "catalog")
  /\ known' = [known EXCEPT ![j] = {}]
  /\ part' = [part EXCEPT ![j] = 0]
  /\ was' = [was EXCEPT ![j] = fingerprint]

\* Mutant of loop_next: the last result of the batch decides on the refresh.
loop_next_last(j, q, won) ==
  LET todo == {e \in q : kind(e) # "zone" /\ scope = "cached"} IN
  IF todo # {}
  THEN \E e \in todo :
         /\ \A f \in todo : e <= f
         /\ item' = [item EXCEPT ![j] = e]
         /\ copy' = [copy EXCEPT ![j] = results[e]]
         /\ queue' = [queue EXCEPT ![j] = q \ {e}]
         /\ wins' = [wins EXCEPT ![j] = won]
         /\ Goto(j, "canonical")
         /\ UNCHANGED refreshVars
  ELSE /\ wins' = [wins EXCEPT ![j] = won]
       /\ UNCHANGED <<item, copy, queue>>
       /\ IF won = 0 THEN Goto(j, "done") /\ UNCHANGED refreshVars
          ELSE IF scope = "cached" THEN BeginRefresh(j)
          ELSE Goto(j, "failed") /\ UNCHANGED refreshVars

\* The loop of auto-create: the next result that gets as far as an await, or
\* the refresh when something was created.  Zones, and every result once the
\* scope has expired, raise at once and are skipped.
loop_next(j, q, won) ==
  LET todo == {e \in q : kind(e) # "zone" /\ scope = "cached"} IN
  IF todo # {}
  THEN \E e \in todo :
         /\ \A f \in todo : e <= f
         /\ item' = [item EXCEPT ![j] = e]
         /\ copy' = [copy EXCEPT ![j] = results[e]]
         /\ queue' = [queue EXCEPT ![j] = q \ {e}]
         /\ wins' = [wins EXCEPT ![j] = @ + won]
         /\ Goto(j, "canonical")
         /\ UNCHANGED refreshVars
  ELSE /\ wins' = [wins EXCEPT ![j] = @ + won]
       /\ UNCHANGED <<item, copy, queue>>
       /\ IF wins[j] + won = 0 THEN Goto(j, "done") /\ UNCHANGED refreshVars
          ELSE IF scope = "cached" THEN BeginRefresh(j)
          ELSE Goto(j, "failed") /\ UNCHANGED refreshVars

\* An exception: auto-create catches it inside its loop, every other use case,
\* and its own refresh, end with it.
Raise(j) ==
  IF cmd[j].op = "auto" /\ pc[j] \in {"canonical", "make", "readback", "save"}
  THEN loop_next(j, queue[j], 0)
  ELSE Goto(j, "failed") /\ UNCHANGED <<refreshVars, loopVars>>

\* get_sdwan_full_catalog: one kind of objects per await.
ReadCatalogPart(j) ==
  /\ pc[j] = "catalog"
  /\ known' = [known EXCEPT ![j] = @ \cup {o \in objects : TypeOf[o] = CatalogOrder[part[j] + 1]}]
  /\ part' = [part EXCEPT ![j] = @ + 1]
  /\ Goto(j, IF part[j] + 1 < 3 THEN "catalog"
             ELSE IF cmd[j].op = "map" THEN "canonical" ELSE "accept")
  /\ UNCHANGED <<objects, used, cacheVars, cmd, object, rulesRead, was, loopVars, bookVars,
                 faults>>

\* The refresh keeps a catalog that equals the one the scope had at its start
\* and otherwise stores the one it read.
AcceptCatalog(j) ==
  /\ pc[j] = "accept"
  /\ IF known[j] = was[j]
     THEN Goto(j, "done") /\ UNCHANGED fingerprint
     ELSE IF scope = "cached"
     THEN Goto(j, "done") /\ fingerprint' = known[j]
     ELSE Goto(j, "failed") /\ UNCHANGED fingerprint
  /\ UNCHANGED <<objects, used, scope, results, operands, cmd, object, rulesRead, refreshVars,
                 loopVars, bookVars, faults>>

\* Mutant of found: the use case goes on with the id it was given, whatever the
\* look-up answered.
found_unchecked(o, wanted) == TRUE

\* Whether get_zone, get_service or get_addr_object answers an object.
found(o, wanted) == o \in objects /\ TypeOf[o] = wanted

\* get_zone, get_service or get_addr_object of the chosen id; none is an error.
Lookup(j) ==
  /\ pc[j] = "lookup"
  /\ LET o == cmd[j].object
         wanted == IF cmd[j].op = "assign" THEN "zone" ELSE kind(item[j])
     IN  Goto(j, IF ~found(o, wanted) THEN "failed"
                 ELSE IF cmd[j].op = "assign" THEN "assign" ELSE "save")
  /\ object' = [object EXCEPT ![j] = cmd[j].object]
  /\ UNCHANGED <<objects, used, cacheVars, cmd, rulesRead, refreshVars, loopVars, bookVars,
                 faults>>

\* save_result of the selection on the result as read; it raises when the scope
\* has expired.  Creation goes on with the refresh or with the next result.
SaveSelection(j) ==
  /\ pc[j] = "save"
  /\ IF scope # "cached"
     THEN Raise(j) /\ UNCHANGED results
     ELSE /\ results' = [results EXCEPT ![item[j]] = select(copy[j], object[j])]
          /\ \/ /\ cmd[j].op = "direct"
                /\ Goto(j, "done") /\ UNCHANGED <<refreshVars, loopVars>>
             \/ /\ cmd[j].op = "create"
                /\ BeginRefresh(j) /\ UNCHANGED loopVars
             \/ /\ cmd[j].op = "auto"
                /\ loop_next(j, queue[j], 1)
  /\ UNCHANGED <<objects, used, scope, fingerprint, operands, cmd, object, rulesRead, bookVars,
                 faults>>

----------------------------------------------------------------------------
(***************************************************************************)
(* MapCanonicalToSdwan                                                     *)
(***************************************************************************)
BeginMap(j, c) ==
  /\ c.op = "map" /\ scope = "none"
  /\ Take(j, c)
  /\ Goto(j, "target")
  /\ UNCHANGED <<objects, used, cacheVars, object, rulesRead, refreshVars, loopVars, edits, faults>>

CheckTarget(j) ==
  /\ pc[j] = "target"
  /\ Goto(j, IF target_accepts(cmd[j]) THEN "catalog" ELSE "failed")
  /\ UNCHANGED <<objects, used, cacheVars, cmd, object, rulesRead, refreshVars, loopVars, bookVars,
                 faults>>

\* The canonical entities and rules are read, then scope, results and rules are
\* stored together.  Every mapping makes a scope of its own; the first one is
\* the scope of this model.
StoreScope(j) ==
  /\ pc[j] = "canonical" /\ cmd[j].op = "map"
  /\ scope' = IF scope = "none" THEN "cached" ELSE scope
  /\ IF scope = "none"
     THEN /\ fingerprint' = known[j]
          /\ results' = [r \in ResultIds |->
                           IF r \in Entities THEN build_result(r, known[j]) ELSE NoResult]
          /\ operands' = {[rule |-> u.rule, role |-> u.role, result |-> u.result, by |-> j] : u \in Uses}
     ELSE UNCHANGED <<fingerprint, results, operands>>
  /\ Goto(j, "done")
  /\ UNCHANGED <<objects, used, cmd, object, rulesRead, refreshVars, loopVars, edits,
                 overlap, faults>>

----------------------------------------------------------------------------
(***************************************************************************)
(* The manual use cases                                                    *)
(***************************************************************************)

\* SelectEntityCandidate never awaits: it is one step.
SelectCandidate(r, o) ==
  /\ scope = "cached" /\ results[r] # NoResult
  /\ Cardinality(results[r].candidates) > 1
  /\ o \in results[r].candidates
  /\ results' = [results EXCEPT ![r] = select(@, o)]
  /\ UNCHANGED <<objects, used, scope, fingerprint, operands, pc, cmd, object, rulesRead,
                 refreshVars, loopVars, bookVars, faults>>

\* SelectSdwanEntityDirectly and SelectEntityWithCreateOnSdwan read the result
\* before their first await; the latter refuses zones.
BeginSelect(j, c) ==
  /\ c.op \in {"direct", "create"}
  /\ Take(j, c)
  /\ IF scope = "cached" /\ results[c.result] # NoResult
          /\ (c.op = "create" => kind(c.result) # "zone")
     THEN /\ Goto(j, IF c.op = "direct" THEN "lookup" ELSE "canonical")
          /\ item' = [item EXCEPT ![j] = c.result]
          /\ copy' = [copy EXCEPT ![j] = results[c.result]]
     ELSE Goto(j, "failed") /\ UNCHANGED <<item, copy>>
  /\ UNCHANGED <<objects, used, cacheVars, object, rulesRead, refreshVars, queue, wins, edits, faults>>

\* AutoSelectEntitiesWithCreateForScope: the unresolved results of this moment.
BeginAuto(j, c) ==
  /\ c.op = "auto"
  /\ Take(j, c)
  /\ IF scope = "cached"
     THEN loop_next(j, {e \in Entities : results[e].status = "UNRESOLVED"}, 0)
     ELSE Goto(j, "failed") /\ UNCHANGED <<refreshVars, loopVars>>
  /\ UNCHANGED <<objects, used, cacheVars, object, rulesRead, edits, faults>>

\* The canonical object is read; kinds without an SD-WAN counterpart raise.
ReadCanonical(j) ==
  /\ pc[j] = "canonical" /\ cmd[j].op \in {"create", "auto"}
  /\ IF item[j] \in Supported
     THEN Goto(j, "make") /\ UNCHANGED <<refreshVars, loopVars>>
     ELSE Raise(j)
  /\ UNCHANGED <<objects, used, cacheVars, cmd, object, rulesRead, bookVars, faults>>

\* create_addr_object or create_service: done and answered; refused; or done
\* although the answer is lost.
MakeObject(j, o, done, answered) ==
  /\ pc[j] = "make"
  /\ o \in Objects \ used /\ TypeOf[o] = KindOf[item[j]]
  /\ answered => done
  /\ objects' = IF done THEN objects \cup {o} ELSE objects
  /\ used' = IF done THEN used \cup {o} ELSE used
  /\ IF answered
     THEN /\ object' = [object EXCEPT ![j] = o]
          /\ Goto(j, IF TypeOf[o] = "addr" THEN "readback" ELSE "save")
          /\ UNCHANGED <<refreshVars, loopVars, faults>>
     ELSE Fault /\ Raise(j) /\ UNCHANGED object
  /\ UNCHANGED <<cacheVars, cmd, rulesRead, edits, overlap>>

\* The created address object is read back before it is selected.
ReadBack(j) ==
  /\ pc[j] = "readback"
  /\ IF object[j] \in objects
     THEN Goto(j, "save") /\ UNCHANGED <<refreshVars, loopVars>>
     ELSE Raise(j)
  /\ UNCHANGED <<objects, used, cacheVars, cmd, object, rulesRead, bookVars, faults>>

\* AssignZoneForScope reads the rules before it looks the zone up.
BeginAssign(j, c) ==
  /\ c.op = "assign"
  /\ Take(j, c)
  /\ IF scope = "cached" /\ Rules # {}
     THEN Goto(j, "lookup") /\ rulesRead' = [rulesRead EXCEPT ![j] = operands]
     ELSE Goto(j, "failed") /\ UNCHANGED rulesRead
  /\ UNCHANGED <<objects, used, cacheVars, object, refreshVars, loopVars, edits,
                 faults>>

\* Mutant of manual_result: a manual result of the zone is not looked for.
manual_result_new(matching) == {}

\* The manual results of the zone, that is, those without a canonical entity.
manual_result(matching) == matching \cap Jobs

\* Mutant of add_manual_result: the new result is not stored.
add_manual_result_unsaved(j, m, z) == results

\* add_results of the manual result of job j, unless the one reused is another's.
add_manual_result(j, m, z) ==
  IF m = j
  THEN [results EXCEPT ![j] = [status |-> "MATCHED", selected |-> z, candidates |-> {}]]
  ELSE results

\* The results are those cached now, the rules those read before the lookup.
AssignZone(j) ==
  /\ pc[j] = "assign"
  /\ LET z == cmd[j].object
         matching == matching_zone_results(z)
         without == rules_without_zone(rulesRead[j], cmd[j].role, matching)
     IN  IF without = {} THEN Goto(j, "done") /\ UNCHANGED <<results, operands>>
         ELSE IF scope # "cached" THEN Goto(j, "failed") /\ UNCHANGED <<results, operands>>
         ELSE \E m \in IF manual_result(matching) = {} THEN {j} ELSE manual_result(matching) :
                /\ results' = add_manual_result(j, m, z)
                /\ operands' = operands \cup
                     {[rule |-> u, role |-> cmd[j].role, result |-> m, by |-> j] : u \in without}
                /\ Goto(j, "done")
  /\ UNCHANGED <<objects, used, scope, fingerprint, cmd, object, rulesRead, refreshVars, loopVars,
                 bookVars, faults>>

----------------------------------------------------------------------------
(***************************************************************************)
(* Failures and the rest of the world                                      *)
(***************************************************************************)

\* A call fails at an await.
CallFails(j) ==
  /\ pc[j] \in {"target", "catalog", "lookup", "canonical", "readback"}
  /\ Fault
  /\ Raise(j)
  /\ UNCHANGED <<objects, used, cacheVars, cmd, object, rulesRead, bookVars>>

\* The scope's cache entry expires or is evicted.
LoseScope ==
  /\ scope = "cached"
  /\ Fault
  /\ scope' = "gone"
  /\ UNCHANGED <<objects, used, fingerprint, results, operands, pc, cmd, object, rulesRead,
                 refreshVars, loopVars, bookVars>>

\* The process restarts.
Crash ==
  /\ Fault
  /\ scope' = IF scope = "none" THEN "none" ELSE "gone"
  /\ pc' = [j \in Jobs |-> IF pc[j] \in Ended THEN pc[j] ELSE "failed"]
  /\ UNCHANGED <<objects, used, fingerprint, results, operands, cmd, object, rulesRead,
                 refreshVars, loopVars, bookVars>>

\* Another administrator creates or deletes an object.
ForeignCreate(o) ==
  /\ o \in Objects \ used
  /\ objects' = objects \cup {o}
  /\ used' = used \cup {o}
  /\ edits < MaxEdits /\ edits' = edits + 1
  /\ UNCHANGED <<cacheVars, pc, cmd, object, rulesRead, refreshVars, loopVars, overlap, faults>>

ForeignDelete(o) ==
  /\ o \in objects
  /\ objects' = objects \ {o}
  /\ edits < MaxEdits /\ edits' = edits + 1
  /\ UNCHANGED <<used, cacheVars, pc, cmd, object, rulesRead, refreshVars, loopVars, overlap, faults>>

Begin(j) ==
  \E c \in Commands : BeginMap(j, c) \/ BeginSelect(j, c) \/ BeginAuto(j, c) \/ BeginAssign(j, c)

Step(j) ==
  \/ CheckTarget(j) \/ ReadCatalogPart(j) \/ StoreScope(j) \/ AcceptCatalog(j)
  \/ Lookup(j) \/ SaveSelection(j) \/ ReadCanonical(j) \/ ReadBack(j) \/ AssignZone(j)
  \/ \E o \in Objects : \E done, answered \in BOOLEAN : MakeObject(j, o, done, answered)

World ==
  \/ \E o \in Objects : ForeignCreate(o) \/ ForeignDelete(o)
  \/ \E r \in ResultIds, o \in Objects : SelectCandidate(r, o)

Next ==
  \/ \E j \in Jobs : Begin(j) \/ Step(j) \/ CallFails(j)
  \/ LoseScope \/ Crash
  \/ World

Spec == Init /\ [][Next]_vars

----------------------------------------------------------------------------
(***************************************************************************)
(* Properties                                                              *)
(***************************************************************************)

\* Every variable has its type: the entities of mapping/domain/entities.py and
\* the local variables of the use cases.
TypeOK ==
  /\ objects \subseteq Objects
  /\ used \subseteq Objects
  /\ scope \in {"none", "cached", "gone"}
  /\ fingerprint \subseteq Objects
  /\ results \in [ResultIds -> Result \cup {NoResult}]
  /\ operands \subseteq [rule: Rules, role: Roles, result: ResultIds, by: Jobs]
  /\ pc \in [Jobs -> Labels]
  /\ cmd \in [Jobs -> Commands \cup {NoCommand}]
  /\ item \in [Jobs -> ResultIds \cup {NoResult}]
  /\ copy \in [Jobs -> Result \cup {NoResult}]
  /\ object \in [Jobs -> Objects \cup {NoObject}]
  /\ known \in [Jobs -> SUBSET Objects]
  /\ part \in [Jobs -> 0 .. 3]
  /\ was \in [Jobs -> SUBSET Objects]
  /\ queue \in [Jobs -> SUBSET Entities]
  /\ wins \in [Jobs -> Nat]
  /\ rulesRead \in [Jobs -> SUBSET [rule: Rules, role: Roles, result: ResultIds, by: Jobs]]
  /\ edits \in 0 .. MaxEdits
  /\ overlap \in {"no", "yes"}
  /\ faults \in 0 .. MaxFaults

\* A result is MATCHED exactly when it has a selection, and the selection is an
\* object of the entity's kind that the controller really had: a torn catalog
\* read, a stale copy or a lost answer never selects anything else.
SelectedExisted ==
  \A r \in ResultIds : results[r] # NoResult =>
    /\ results[r].status = "MATCHED" <=> results[r].selected # NoObject
    /\ results[r].selected # NoObject =>
         results[r].selected \in used /\ TypeOf[results[r].selected] = kind(r)

\* Every operand of a mapped rule refers to a result of the scope, of the kind
\* its role asks for in a manual assignment.
OperandsResolve ==
  \A op \in operands :
    /\ results[op.result] # NoResult
    /\ op.result \in Jobs => op.role \in {"SRC_ZONE", "DST_ZONE"}

\* A result that is MATCHED never becomes open again and its candidates stay,
\* although save_result writes a copy that was read before an await.
ResultsOnlyAdvance ==
  [][\A r \in ResultIds : results[r] # NoResult =>
       /\ results'[r] # NoResult
       /\ results[r].status = "MATCHED" => results'[r].status = "MATCHED"
       /\ results'[r].candidates = results[r].candidates]_vars

\* "Reuse the manual result for the zone, or create it once for the scope": no
\* manual result is created while another one resolves to the same zone, also
\* when two assignments overlap.
ManualResultOnce ==
  [][\A j \in Jobs : (results[j] = NoResult /\ results'[j] # NoResult) =>
       \A k \in Jobs \ {j} : results[k] # NoResult =>
          results[k].selected # results'[j].selected]_vars

\* At rest, after invocations that did not overlap, fail or meet foreign edits,
\* the baseline is the catalog: every write of the migrator was accepted.
BaselineCurrent ==
  (/\ \A j \in Jobs : pc[j] \in Ended
   /\ scope = "cached" /\ faults = 0 /\ edits = 0 /\ overlap = "no")
    => fingerprint = objects

============================================================================
