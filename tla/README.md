# Verification of the Firewall Policies Migrator

The Firewall Policies Migrator (NSP-Migrator) takes the configuration of a Cisco
ASA firewall, turns it into a vendor-neutral *canonical snapshot*, maps the
objects of that snapshot to objects of an SD-WAN controller (CSP), prepares a
plan of policies to create, pushes the plan, commits it and keeps a report.
This directory holds TLA+ models of its core logic, the TLC runs that check
them on small instances and TLAPS proofs of the main results for every value of
the constants. Paths below are relative to the repository's `src/app/`.

## 1. Inventory

The program is a modular monolith. FastAPI and Streamlit are two front ends
over the same use cases. In the Streamlit process all use cases run on ONE
asyncio event loop in a background thread (`streamlit_app/services/use_cases.py`),
so two browser sessions, or two tabs, interleave at every real `await` (HTTP
calls to the controller, database calls) and nowhere else. The runtime-cache
repositories are `async` functions that never suspend; whatever a handler does
between two network awaits is atomic.

| Part | State it keeps | Operations | What makes it correct |
|---|---|---|---|
| Runtime cache `infrastructure/cache` | per-namespace TTL/LRU maps, in memory | set, get, touch, delete, clear, keys, get_meta | never returns an expired entry, never exceeds `max_entries`, loses a live entry only by eviction or deletion |
| Database layer `infrastructure/db` | session of a unit of work | open, nest, commit, rollback, close | one owner commits or rolls back; nothing half-written survives |
| HTTP requester `infrastructure/http_requester` | one httpx client, a temporary CA file | request, aclose | every call ends: answer, error or timeout |
| SD-WAN client `integrations/sdwan_csp_api` | token, client registry | login, paginated reads, create objects and policies, commit | reads are complete or fail; one login at a time; clients are closed |
| Object catalog `integrations/.../gateways` | none | read zones, services, addresses, networks; resolve groups; fingerprint | the fingerprint identifies the catalog a decision was based on |
| Imports `modules/imports` | import sources, snapshots, artifacts, uploads (database) | create source, upload artifact, run mapping | a source has a latest snapshot; a mapping is all or nothing |
| Cisco ASA front end `modules/imports/cisco_asa` | none | parse, extract, normalise to canonical | the canonical rules mean what the configuration means |
| Canonical `modules/canonical` | snapshots, objects, rules (database) | save snapshot, read, search | a snapshot is complete, and is found again for the same artifact |
| Mapping `modules/mapping` | mapping scope, results, mapped rules (runtime cache) | map, select candidate, select directly, create on SD-WAN, auto-create, assign zone, refresh fingerprint | rules show what was selected; what was selected exists; the fingerprint is that of the catalog the selection was made on |
| Execute `modules/execute` | plans with their rules (runtime cache) | prepare, push, list | nothing is pushed that was not planned, planned on the current catalog, or twice; the report says what happened |
| Reports `modules/reports` | migration reports and rows (database) | save, list, show | a report is whole and never changes |
| Trace `modules/trace` | trace records (database) | save, read by snapshot, entity or line range | every canonical entity leads back to the lines it came from |
| CSP profiles `modules/settings/csp_profiles` | profiles, encrypted credentials (database) | create, update, remove password, change status, delete | a profile has credentials; what is shown of them is what is stored |
| Streamlit front end `streamlit_app` | `st.session_state`: filters, page, selection, caches of what was read | one rerun of a page for each interaction; the button that was pressed runs a use case | the selection is what was clicked; what is shown is what is stored |

How they interact: Mapping reads canonical snapshots from the database and the
object catalog from the controller, and keeps its scope in the runtime cache.
Execute reads the scope through `MappingReader`, the catalog through the same
gateway, keeps its plan in the runtime cache and writes a report to the
database. Mapping and Execute agree on one value only: the scope's
`catalog_fingerprint`.

The hard behaviours:

* *Reads before an await, writes after it.* Push decides on a plan it read
  before several HTTP calls, and writes copies of it back afterwards; the
  manual mapping use cases do the same with mapping results and rules.
* *A catalog read in four pieces* whose fingerprint is compared as one.
* *Lost answers.* A create or commit call may have taken effect although its
  answer never arrived; the code records a failure and goes on, or stops.
* *An expiring store.* Scopes and plans may vanish between any two steps.
* *Restarts.* Plans and scopes live in memory only, policies and reports do not.
* *Meaning carried across three notations.* A line of an access list becomes a
  canonical rule, its operands are matched to controller objects, its values are
  compared with policies; each step may widen or narrow what is let through.
* *Groups.* They nest, overlap, run empty and go round, on the ASA, in a canonical
  snapshot and on the controller; four pieces of code walk them, each with a limit.
* *Reruns.* A page is a script that runs anew after each click, on widgets that
  know rows by number and on caches only the session itself drops.

## 2. Plan

| Order | Module | Part | Status |
|---|---|---|---|
| 1 | `Execute`, `Migration`, `ExecuteProofs` | prepare and push, the plan store, the controller; what a migration promises | done |
| 2 | `LossyMap`, `RuntimeCache`, `RuntimeCacheProofs` | the TTL store, and the abstract map the other modules assume of it | done |
| 3 | `MappingScope`, `MappingScopeProofs` | the mapping use cases over one scope, with concurrent sessions | done |
| 4 | `SdwanAuth`, `Pagination`, `SdwanClientProofs` | login and reads of the SD-WAN client | done |
| 5 | `AddressGroups` | loading and resolving address groups, while they are edited | done |
| 6 | `RuleCoverage`, `RuleComparison`, `RuleComparisonProofs` | `RulesComparer` and `RuleValuesResolver` against the meaning of a rule; composes 5 | done |
| 7 | `CspProfiles`, `CspProfilesProofs` | profiles, credentials, transactions, clients in use | done |
| 8 | `Imports`, `ImportsProofs` | upload of configurations, mapping to a canonical snapshot, nested units of work | done |
| 9 | `AsaParser`, `AsaNormalizer`, `AsaImport` | from the text of a configuration to a canonical snapshot, against what the firewall means by it | done |
| 10 | `ObjectMatching`, `CanonicalScope`, `CanonicalPage`, `MappedRules`, `MappedRulesProofs` | from picked rules of a snapshot to rules that can be executed: reads, groups, matching, projection, the two pages | done |
| 11 | `ReportValues`, `TraceQueries` | values of report rules, trace records by line range, the other pages | not begun |

`Execute` implements `Migration`, and `RuntimeCache` implements `LossyMap`, which
justifies `LosePlan` and `LoseScope` of `Execute` and `LoseScope` of `MappingScope`. The
actions of `MappingScope` that change selections and the fingerprint are what `Execute`
abstracts as `Reselect` and `RefreshBaseline`. `RuleComparison` composes the loader and
resolver of address groups with the comparison; `Execute` takes what it computes as
`Covers` and `Broken`. `AsaNormalizer` is what `Imports` abstracts as the contents of a
snapshot. `MappedRules` composes `CanonicalPage` (where rules are picked),
`CanonicalScope` (what they use) and `ObjectMatching` (what that is matched to); the
latter computes what is the constant `Matches` in `MappingScope`, which in turn has the
interleavings inside of the use cases that are one action in `MappedRules`.

Still worth stating: the queries of step 11. Still worth proving: the four properties
of `cisco_import` (section 5 says why they are not), and that the mapping reads what
an import writes (`is_entity`, `well_formed`), which is an assumption of `MappedRules`
now.

## 3. Modules

### Execute

One module for `PrepareExecutePlanUseCase`, `PushExecutePlanRulesUseCase`, the
runtime-cache repository of plans (`modules/execute/adapters/runtime_cache`) and
the controller as the two use cases see it.

A *job* is one invocation of a use case: a member of `Preparers` or `Pushers`
with a program counter and the local variables that survive an await. Every
action is the uninterrupted stretch of code from the return of one network or
database await to the next. Each job runs once; the plan a prepare job stores
has a fresh UUID, so the job itself is the plan's id, and a policy's id is the
pair of the push job and the rule.

| Variables | Code |
|---|---|
| `catalog`, `foreign`, `created`, `commits` | the controller: object catalog by part, policies of other administrators, policies created by each push, full-state commits (external) |
| `scope`, `baseline`, `selection` | the cached mapping scope: present or not, `catalog_fingerprint`, the values its rules resolve to |
| `plans` | namespace `execute.plan`: fingerprint, status, draft values, match and push status of each rule |
| `reports` | rows saved by the reports module |
| `base`, `drafts`, `seen`, `part`, `existing`, `plan`, `todo`, `result`, `rows` | locals of the use cases |
| `prepared`, `opened`, `faults` | history: the plan as first stored, the catalog when a read began, the fault budget |

The data is abstract: a rule's normalised values are a member of `Drafts`,
`Covers` says which values cover which, `Broken` those that cannot be
normalised. A catalog part is a version number; two catalogs have the same
fingerprint iff all their parts are equal (`json_hash` is taken as injective).

`Migration` is the promise without caches, awaits and faults: plans with their new
rules, pushes, policies, commits and reports, five actions. `IsMigration` maps to it:
a plan is what was prepared and saved, whether or not the cache still has it; a push
carries a plan from the moment its check has passed; policies, commits and reports are
those of `Execute`. Reads, skipped rules, failed calls whose effect did not happen,
expiry, restarts and everything others do on the controller are steps that change
nothing in `Migration`; a lost answer is a `Create` or a `Commit` like any other.

Faults, all drawn from one budget `MaxFaults`: a failing call at any await
(`CallFails`), a create or commit whose answer is lost, expiry of a plan or the
scope, a process restart. World steps are not bounded except by their domains:
other administrators edit the catalog (`MaxVersion` contents per part) or add
policies, mapping sessions re-select objects or refresh the fingerprint.

### RuntimeCache and LossyMap

`RuntimeCache` is one namespace of `InMemoryTTLStore` over the behaviour of
`cachetools.TTLCache`: values with an expiry, an order of use, a clock. Every
method is an action. `LossyMap` is what the repositories rely on: a map that
answers what was last put, or nothing, and that may lose entries at any time.

### MappingScope

One cached mapping scope, the use cases that create and change it as concurrent jobs,
and the SD-WAN catalog. A job's program counter marks the await it is at; the locals
that survive the await are variables: `item` and `copy` (the result as it was read),
`queue` and `wins` (what an auto-creation has left and has created), `known` and `part`
(the catalog as far as it is read), `rulesRead`. Results carry status, selected object
and candidates; an operand is a rule's reference to a result. Whether an object matches
an entity by value is the constant `Matches`, which `ObjectMatching` computes.

### SdwanAuth

The token of `SDWANCspHttpClient` and its `asyncio.Lock`, with a FIFO of waiting
tasks. The controller's sessions are external: they may end at any time. A task
makes a bounded chain of requests and stops at its first error, as the callers
do.

### Pagination

The three cursor loops (identical code for services, address objects and
policies, so one action), the chunked filters that run concurrently under
`gather`, and the two-step limited reads of zones and networks. The collection is
edited while it is read. In the behaviours where the variable
`honest` is FALSE the controller answers arbitrary pages: their cursors are a few that
may come again, which `seen` remembers, or `Fresh`, which stands for any cursor that was
never given before, so that the number of different cursors is not bounded. The order of the ids after
`list(set(ids))` is irrelevant to the properties, so `deduplicated` keeps the first use
(`first_uses`) in both cases. The definitions of a specification have names of their
own here (`PagesInit`, `PagesNext`, `PagesSpec`, `phase` for the label of the loop),
because one module proves about this and `SdwanAuth`, the two halves of the client.

### AddressGroups

`SDWANCatalogGateway` loads the wanted objects, then the children of their
groups level by level, in chunks of parents whose queries run under `gather`;
the level that still has groups when the limit is reached makes it fail. Then
`SDWANAddressGroupLeavesResolver` walks the loaded list, with a limit of its own.
`parents` is the controller's truth and may be edited at any step; `stable` and
`ever` remember which memberships stayed and which ever were. The walk is a
recursive function over the levels left, so that the module may be used in proofs.

### RuleCoverage and RuleComparison

`RuleCoverage` has no state: value objects and their `covers`, `analyze_coverage`
and `compare_rule` on the one side, on the other what a rule means, the packets it
admits. An empty operand may mean everything or nothing to the controller, so both
readings are required to agree. Names are taken after `_normalize_text`.
`RuleComparison` loads the objects of a draft and of the existing policies, then
resolves and compares them: `CoverageSound` relates the result to what the groups
contained during the whole load.

### CspProfiles

The use cases on one profile as transactions over two rows, one action per SQL
statement, on a database at READ COMMITTED (external: row locks, an UPDATE that
works on the row's latest version, the deadlock detector). The unit of work
appears as `Commit` and `Rollback`, which happen wherever the use case returns or
raises. The columns an ORM flush writes are those that differ from the object as
it was loaded, which is why `model` is kept apart from the row. The client
provider reads a profile in two statements and keeps a registry of the clients in
use, which `close_all` empties at shutdown.

### Imports

Submissions of a file (a transaction that finds or creates the source, then one
that finds or creates the snapshot) and mappings (one transaction shared by three
use cases), one action per SQL statement. A *job* inserts at most one row of a
kind, so the job names its rows; what a row says are locals of the job that no
longer change once the row is written. `written` and `unmarked` are the open
transaction, `durable` and `latest` the committed state. The database is
external, as in `CspProfiles`: an insert waits for an open insert of the same key
and fails on a committed one, an UPDATE works on the rows its start sees, at their
latest version. After a failed flush the session refuses the next statement
(`Reread`), which is what SQLAlchemy does. Parsing and normalising do not suspend
and change no state; they are part of `ReadArtifact`.

| Variables | Code |
|---|---|
| `durable`, `latest` | tables `import_source`, `source_snapshot`, `source_artifact`, `import_upload`, `canonical_*`, `trace_raw_to_canonical`; the column `is_latest` |
| `written`, `unmarked` | the open transaction of the owning unit of work |
| `source`, `snapshot`, `hit`, `result` | locals of the use cases and the columns written from them |
| `overlap`, `faults` | history: submissions that overlapped, the fault budget |

### AsaParser, AsaNormalizer and AsaImport

`AsaParser` has no state: a line is its indent and its tokens, a token an atom, and
each function of the parser an operator on them (the tree by indentation, the
stanzas of objects and groups, the operands of an access rule, bindings of lists to
interfaces). `AsaNormalizer` runs the passes of `normalize` in their order, one
action each, on the accumulator `state`: objects, memberships, zones, rules,
operands, issues and trace records, all registered by key, the first one stays.
`AsaImport` says what the result promises. Each configuration of an instance comes
with the packets its author means by every line, and the snapshot's rules are
compared with that.

| Variables | Code |
|---|---|
| `config` | the uploaded text (fixed), with the meaning of its lines for the properties |
| `stage`, `parsed` | the pass that is next; the result of `CiscoAsaParserAdapter` |
| `state` | `_NormalizerState` |

### ObjectMatching

No state. What an entity of each kind is looked up by, what the catalog's indexes
file an object by, the candidates with the special cases for ANY and names, the
status that follows, and what is created for an entity. An address is a number of
`AddressBits` bits, a network what is left of it without its host bits (`masked`, over
the recursive function `power`), a service its protocol and port spans. `is_entity` and
`is_object` say what an import writes and what the client lets pass as an answer of the
controller: an address with the length of its mask, a range that goes up; networks
without host bits (`IPv4Network` refuses others), codes for ICMP services and no others.

### CanonicalScope

The reads of one snapshot, which never changes once written: rules that pass a
filter, in an order, a page of them; the zones and objects that given rules use;
the group walks. There are three in the code, all modelled: up the membership for
filters, down without a limit for the scope, down along paths with the limit
`MAX_GROUP_DEPTH` for operands and for display.

### CanonicalPage

The page on which rules are picked. An action is one interaction with the rerun it
causes: the value the widget brings, the callbacks, then `render` from top to
bottom, which may correct the page number, drop options that are gone and show a
table under a new key. The widget holds ticks by row number (`rows`), the page the
selection by id (`selected`); `ticked` remembers what the user did.

### MappedRules

What happens to the picked rules: the mapping, the projection of the scope and its
statuses, details of a result, the rows of the controller's catalog to pick from,
single and bulk actions, and the reader of the execution. Each browser session has
its `cache`; an action is one click with its use case and the invalidation that
follows. A cached value that another session or the controller has outdated keeps
only the mark `outdated`, since nothing is claimed of it any more.

| Variables | Code |
|---|---|
| `shelf` | the world of a behaviour, fixed at the start: snapshots, catalog, and the bound on what users do in it (which filters, links, rules, results, candidates, how many edits) |
| `latest`, `snapshot` | the latest snapshot of the source |
| `page`, `ticked`, `left` | the page of canonical rules; bookkeeping |
| `answer`, `scope` | the result of `MapCanonicalToSdwanUseCase`, the mapping scope |
| `catalog`, `made` | objects of the controller (external); what was created for which result |
| `cache`, `edits` | `st.session_state` of each session; changes made, bounded by the world |

## 4. Runs

| Run | Instance | What it shows |
|---|---|---|
| `execute_race` | 1 plan, 2 pushes, 2 rules, 1 fault | with two pushes of one plan racing, expiry, restart and lost answers: only NEW rules are created and as planned; a plan with a created policy is EXECUTED; reports never miss an outcome, their PUSHED rows exist and are committed; stale write-backs never take a plan back; the whole implements `Migration`, so no push starts after another created something |
| `execute_live` | 2 catalog parts that are edited, 1 fault | a catalog read in pieces and found unchanged was the expected one when the read began; a push that marked its plan EXECUTED leaves a report unless a call failed |
| `execute_twice` | 2 pushes | *violation*: "its one permitted push" (`domain/entities.py`) is not what the code guarantees, see Findings |
| `runtime_cache` | 3 keys, room for 2 | the store keeps the working set and implements `LossyMap` |
| `mapping_race` | 3 jobs with any mix of mappings, selections, creations, auto-creations and assignments on 4 entities, 1 fault, 1 edit | selections are real objects of the right kind and never reopened by stale write-backs; operands resolve; one manual result per zone; the baseline follows the writes, those of an auto-creation that fails for one entity included |
| `sdwan_auth` | 3 tasks, 2 expiries, 1 fault | one login per dropped token, no task waits for the lock forever |
| `pagination` | 4 items, 3 edits, pages of 1, chunks of 2 | accepted reads miss nothing that stayed, at chunk boundaries as well; with arbitrary answers the cursor loop ends, unless cursors never given before come for ever |
| `rule_comparison` | 3 groups, 3 objects, 1 edit; all pairs of zones, services, addresses, actions of a small universe | the two level limits agree; a matched or covered rule has no packet the policy lacks, whatever is edited meanwhile; a rule is NEW only if no single-valued policy does its work |
| `csp_profiles` | 3 invocations of 7 commands, 1 broken connection | the rows of a profile stay together and agree; a deadlock needs a deletion |
| `imports` | 4 jobs, 2 source names, 2 texts, 1 fault | a source never loses its latest snapshot; a canonical snapshot is whole, unique and answered for its own source snapshot; without overlap there is one latest snapshot and one snapshot of a text |
| `cisco_import` | some ten thousand configurations: an object, two groups, and the source, service or binding of up to two rules put together from pieces | source, destination and service of a rule, each checked for itself, admit nothing their line does not, outside the limits of section 6; what they admit less is reported; each entity leads back to its own lines, and nothing else is traced; each line becomes one rule per binding, with a key of its own |
| `mapped_rules` | 96 worlds: every kind of entity against two catalogs; groups in chains of 1 to 4, circles, empty, with shared members; 4 rules on pages of 2, two snapshots, filters and links; 1 or 2 sessions with up to 3 changes | an entity is matched to exactly what means the same, and created so; a mapping takes whole rules or nothing; the page calls clear what the execution accepts, with the same objects; a session's own changes never leave it with old data; the selection is what was ticked; the filter by object shows the rules whose scope takes the object in |

Bounds: two pushes are enough for every race between a push and another (the
properties relate at most two jobs); two rules give a first and a later rule, so
that partial failure, skipping and recording of the rest happen; one fault at a
time puts every single failure at every await. The theorems below remove these
bounds. Symmetry over the push jobs is used in safety runs only.

For the mapping scope two jobs show every race between a read before
an await and a write after it; the third puts another use case in
between. A store with room for two and three keys is the smallest that evicts a
live entry. With pages of one item and chunks of two keys, up to four items give
an empty, a full, an exactly filled and an overflowing last page and chunk.

Three groups under a limit of two levels give a chain at, and one beyond, the
limit, cycles, and a group that is reached on two levels; the code's limit of
three levels is the same comparison once more. One edit is the smallest change
between two queries of a load, and chunks of one parent make every level with two
groups a race of two queries. The packets have one address, port, code and name
inside, on the edge of and outside each value. One profile is enough since no
statement touches two; three invocations give two writers and a removal, a
deletion or a reader between them. In `Imports` two jobs set up a source and two
overlap on it, or one sets it up, two map it and one more submits.

A configuration of `cisco_import` varies one part (addresses, services or bindings)
at a time, since the code treats the parts apart; a part takes all combinations of
its pieces: each kind of object, reopened stanzas, groups of up to two members with
a missing one or a group among them, each clause on ports. Ports are 0 to 3, with
`MaxPort` 3, so that `lt`, `gt` and ranges reach both ends of the range. The worlds of
`mapped_rules` are made for one question each, because a change of one action's
data does not depend on the others: addresses of 3 bits have networks inside, equal
to and around each other; a limit of 3 levels has chains at it and beyond; pages of
two with four rules have a first, a last and, filtered, an empty page; two sessions
with up to three changes are an own change before, after and between those of
others. Interleavings inside a use case are in `mapping_race`.

Fairness: in `Execute` weak fairness of each started invocation. The event loop
resumes every ready coroutine and each call ends in an answer, an error or the
requester's timeout. Starting an invocation is never assumed: users may stay away.
In `SdwanAuth` the same holds of every request, and of the hand-over of the lock
by the event loop, in `Pagination` of the reading loop. Faults, expiries, edits
and shutdowns are never required. The other modules state no fairness: their
properties are about safety.

## 5. Proofs

`ExecuteProofs` proves, for any number of invocations, rules, parts and faults,
the type invariant, all safety and action properties of `execute_race` and the
safety part of `execute_live`. The inductive invariant has these parts:

* `Control`: which labels each kind of job can be at, and which locals are set;
* `PlanInv`: a cached plan is the stored one up to status and outcomes, and has
  no outcome while PENDING. Needed because push writes whole copies back;
* `PushInv`: a push works on the plan as it was stored, on all its NEW rules, and
  past the check the cached plan, if any, is EXECUTED;
* `OutcomeInv`: SUCCEEDED implies a created policy; past recording no rule of the
  push is PENDING, whichever push recorded it;
* `RowInv`, `ReportInv`: the same for collected rows and saved reports, and the
  commit that covers what was created;
* `CatalogInv` (only when contents never return): what is remembered is at most
  what was opened, which is at most what was read; equality at the ends closes
  the chain.

`ImplementsMigration` proves that each step of `Execute` is a step of `Migration` or
changes nothing there, one lemma for each action of `Migration` and one for the rest.
Besides the above it needs `OnceInv`: a rule that a push has a policy for has a result
in the push, and is not sent again; a push that has committed only reports. `Start` is
where `PushInv` comes in: while the cached plan is PENDING nothing was created for it.

`RuntimeCacheProofs` proves that the store never exceeds its room, that it loses
a live entry only after that many other keys were used since (the invariant keeps
the order of use as an injective numbering), and that it implements `LossyMap`.

`SdwanClientProofs` proves the safety properties of the token for any number of
tasks. The inductive invariant says that whoever is at the login holds the lock
and then there is no token, that tokens are sessions that were issued, and that
the sessions issued are at most one more than the dropped tokens, at most as many
while the token is missing.

It also proves `StableItemsRead` of the reads, for any collection, filter, page size,
chunk size and number of changes. The inductive invariant `PageInv` says of each chunk
that is at a cursor: every item of the chunk that was there all the time and does not
come after the cursor has been read. An honest page is a run of items in the order of
ids from the cursor on (`HonestPage`: what is not on the page lies behind its end), so
the next cursor keeps it, with the items that vanish between two pages left out. For
filtered reads it takes that the chunks have every id that was asked: `Deduplicated`
(each id has a first use, and the ranks of the first uses leave no gap, by
`Ranks`) and `Chunked` (the spans of a rounded-up quotient reach the end).

`ImportsProofs` proves, for any number of jobs, names, texts and faults, the type
invariant, `LatestNeverLost`, `CanonicalWhole`, `MapAnswers` and `QuietlyOneLatest`.
The inductive invariant says what is written at each label; that nothing but a source is
committed before the end; that marks are only taken off snapshots of the job's own
source, with a new one in the same transaction; that a header, committed or not, is
alone on its source snapshot; and what the result of a mapping is before it commits.
For `QuietlyOneLatest` a second one, `QuietInv`, follows the one submission that is at
work while none overlap (`AloneInv`): the text it inserts is not committed in its
source, and the snapshots of its source that are latest are those it has found, later
those it has locked and taken the mark off. Failures and mappings are not excluded.

`MappingScopeProofs` proves, for any number of invocations, entities, rules, objects
and any choice of commands, the type invariant, `SelectedExisted`, `OperandsResolve`,
`ResultsOnlyAdvance`, `ManualResultOnce` and `BaselineCurrent`. The inductive invariant has these parts:

* `Sound`: a result, cached or copied, is MATCHED exactly when it has a selection,
  and what it selects or offers was once on the controller and is of its kind;
* `ResultInv`: every entity has a result as soon as there is a scope, nothing has
  one before, and a manual result belongs to an assignment that is done;
* `CopyInv`: a copy read before an await may be out of date, but its result is still
  there, with the same candidates. This is why writing it back reopens nothing;
* `AtInv`: which use case can be at which await, and what it holds there: an object
  that was looked up or created, of the kind of the result it is for.

`BaselineCurrent` has an invariant of its own, `QuietInv`, for behaviours in which
nothing has failed, been edited or overlapped. At most one job is at work. Where the
baseline is behind the catalog, that job has an object to select, has counted a success
or is about to refresh (`BaselineInv`); the parts it has read are those of the catalog
as it is. The case to be seen is an auto-creation that fails for one entity after it
created for another: it refreshes exactly if `wins` is not 0.

`loop_next` and `Raise` are used by five actions; `LoopNextResumed` and `RaiseResumed`
say once what becomes of a job in them.

`CspProfilesProofs` proves, for any number of invocations, the type invariant,
`CredentialsTogether`, `MetadataAgrees` and `DeadlockNeedsDelete`. The inductive
invariant says who holds which row lock at which statement (`Locking`); that a
deletion which has reached the profile holds the lock of the credentials or found
them gone; and that what a transaction is about to commit agrees (`Agreeing`), where
an update that holds the profile can have missed nothing but a removal of the
password.

`RuleComparisonProofs` proves all four properties of `rule_comparison`, for any
graph of groups, limits, chunk size, rules and policies. It goes from values to loads:

* `CoveredAdmits` and `CompareSound`: a rule that `analyze_coverage` finds covered has
  only packets of the policy, for all sets of values and either reading of empty
  operands; `compare_rule` reports a matched or covered rule only with the first policy
  for which this and equal effect hold. Each operand is a lemma of its own;
* the walks. The provers cannot use a theorem that takes an operator, and so no
  induction theorem of the library. `SetInduction` states induction as a fact about
  *sets* of numbers, and follows from the library's theorem that strict inclusion of
  finite sets is well-founded. From it come what iterating a step computes (`Iterate`),
  that `reached` is the least set closed under membership (`ReachedSteps`, `ReachedLeast`,
  `ReachedClosed`), and that the resolver returns only leaves below (`ResolvedIsBelow`),
  all of them when it does not refuse (`ResolvedIsWhole`);
* `CoverageSoundHolds`: `GroupsInv` says that what is loaded has a link that was there
  all the time for every object that is expanded (`stable`), and only links that were
  there at some time (`ever`), in each order in which the queries of a level and the
  edits come. At the end nothing is left to expand; so the planned operand resolves to
  at least what is stable below it, the policy's to at most what ever was;
* `RefusedIffTooDeepHolds`, `ResolvesExactlyHolds`: `CalmInv` says of a load without
  edits that a chain of n more groups below the frontier is a chain of depth - 1 + n
  below what is wanted. This is the sense in which the loader's count of levels and the
  resolver's agree;
* `NewIsNeededHolds`: if an operand of the policy has one value that does not cover one
  of the rule's, there is a zone, an end or a service that tells them apart; the four
  make the packet. It assumes `Packets = Packet`, for such a packet must be among those
  that are compared. The run compares a set that tells its values apart.

`MappedRulesProofs` proves, for any snapshots, catalogs, filters, links, sessions, page
size and limit of nesting, all properties of `mapped_rules`. Four invariants carry it:

* `PageInv`: the key of the table names the page and the rows it shows, its ticks are
  rows of it, these are what the filter now finds in the snapshot; a selection is finite,
  no rule is visible twice. Needed because a click brings row numbers only. It gives
  `SelectionFollowsClicks`, and that sorting lists every rule once (`Ranks`, `Listed`) is
  what makes row numbers as good as ids;
* `ShownInv`: before there is a scope nothing is loaded, and what is loaded is current or
  marked. For each action it has to be seen that what stays in the session's own cache
  does not depend on what the action changed (`SameReads`, `SameDetails`); the caches of
  others are marked. It gives `ShownIsCurrent`;
* `ScopeInv`: the operands of the scope are those built from its rules and those of manual
  results, each has a result, each result is used by an operand, and a result is MATCHED
  iff it has a selection. It gives `MappedIsPlanned`: a role shows the same results as
  the execution reads (`RoleReads`), canonical rows through the hierarchy of groups
  (`CanonicalSides`: a row shows a leaf iff a walk within the limit reaches it);
* `MatchInv`: a result keeps the candidates that the catalog of the mapping has for its
  entity, whatever is selected, created or assigned afterwards; an object with an id
  that the controller gave out during the behaviour is the one created for the entity of
  that id. It gives `MatchExact`.

`MatchExact` then says of one entity and one object that being filed under what the
entity is looked up by, and meaning the same, are one thing (`MatchesExact`), with a
lemma for each kind: `HostExact`, `SubnetExact`, `RangeExact`, `FqdnExact`, `PortsExact`,
`IcmpExact`. The hard one is the network. A network of length n is an interval whose
start is a multiple of `power[AddressBits - n]`; two that are the same set have the same
ends, hence the same size, hence, `power` being increasing (`Powers`, by
`SetInduction`), the same length (`SameNetwork`); what was masked already stays as it is
(`MaskedAgain`).

`FilterAgreesWithScope` holds of every well-formed snapshot: the rounds of a walk are as
many as there are objects, hence enough (`ClosureClosed`), and what they reach is the least
set closed under the links (`ClosureLeast`), upwards as downwards (`UpAndDown`).
`MappingWhole` is proved of the step that answers: `WalkEnds` relates the levels the code
walks with paths, by `SetInduction` over the length of a path; `NewScope` and
`AnswerWhole` have that a mapping fails for an operand iff it has no leaf or a walk goes
beyond the limit, and stores every leaf otherwise.

`WorldsAssumption` asks of snapshots what their tables and the importer guarantee: keys,
references to what is there, zones in the roles of zones and objects in the others,
members of groups only. Results without a canonical entity have ids of their own, since
a fresh UUID is no key of a snapshot. Of values it asks `is_entity` and `is_object`;
that the ids of a catalog are unique for each kind of object, being keys of the
controller; and that ids still to be given out (`next`) are new. `is_entity` has ranges
that go up: nothing in the code refuses a range that goes down, but a Cisco ASA does not
accept one, and two of them would mean the same empty set without matching.
`MatchingAssumption` says that an ICMP message is known by its name. `PageAssumption`
and `DepthAssumption` say that a page has a row and that the limit of nesting is not 0.

`ComparisonAssumption` asks of values what the constructors enforce: spans and port
ranges do not end before they start (`from_range`, `port_range`), an ICMP service has a
code (`schemas.py` of the client), a service has a value; zones and services are
finitely many. `BrokenAssumption` says that the mark of a rule that cannot be normalised
is not a rule.

The type invariants of `Execute`, `RuntimeCache`, `SdwanAuth`, `Imports`,
`MappingScope`, `CspProfiles` and `Pagination`, `SizeBounded` of the store, `HeaderSet`
and `OneLogin` of the client, and `NoLatePush` (which `IsMigration` contains) are proved
and therefore not part of a passing run.

Assumptions used: `ExecuteAssumption` and `NoEntryAssumption` of `Execute`, the
assumptions on the constants of the other modules, which TLC evaluates in every
run.

Only model-checked:

* liveness (`ExecutedIsReported`, `TasksEnd`, `FetchEnds`): the prover has no rule for
  fairness and ENABLED;
* the Cisco front end (`cisco_import`: `NeverWider`, `LossReported`, `TracesLeadBack`,
  `RulesKeepLines`): the passes fold operators over the lines and tokens of a
  configuration, and the properties compare that with what each line means. A proof
  would be an induction over folds that take operators, which the provers cannot
  instantiate; the run enumerates configurations.

## 6. Findings

* `execute_twice`: the EXECUTED check of Push is made on the plan read before the
  awaits and never repeated. Two overlapping pushes of one plan both pass it and
  both create its policies. The docstring of `mark_push_executed` speaks of "its
  one permitted push". What does hold, and is proved, is `NoLatePush`: once any
  policy exists no further push of the cached plan starts.

Limits of the code, which the properties leave out by name. Of execution and the
controller:

* `BaselineCurrent` speaks of a single refresh. Two that overlap may store their
  catalogs in the opposite order of their reads, and a refresh accepts whatever
  catalog it reads, changes by others included. Push compares the catalog with the
  plan's fingerprint, not the mapping with the plan: objects selected since Prepare
  are not pushed (`push_execute_plan_rules.py:88`).
* Two assignments of one zone and direction that overlap both add the operand: the
  rules are read before the zone is awaited (`assign_zone_for_scope.py:54`). They
  share one manual result (`ManualResultOnce`).
* When one chunk of a read fails, `gather` raises at once while other chunks go on
  with a client that is then released (`client.py:511`).
* The loop over the pages has no bound of its own: a controller that answers every
  request with the same total and a cursor it never gave before is read for ever
  (`client.py:362`, and the same loop for address objects and policies). `FetchEnds`
  excepts just that (`Fresh`).
* `CoverageSound` leaves out networks without a net (missing from the group they
  are in, `catalog.py:350`); the comparison knows no deactivated policies
  (`sdwan_gateway.py:100`) and takes zones whose names differ in case, blanks, dashes
  or underscores for one.

Of imports and profiles:

* An update of a profile's password or certificate writes back the other as it
  was read before any lock (`update_profile.py:82`), so that of two overlapping
  updates one is lost, and a removal between them can leave `has_password` wrong.
  `MetadataAgrees` excepts removals that overlap.
* Two first uploads of a source that overlap leave two latest snapshots, and of a
  text that both upload two snapshots; an old text that is uploaded again does not
  become the latest. `QuietlyOneLatest` speaks of submissions that do not overlap.
* When two mappings of one snapshot overlap, the insert that loses raises
  IntegrityError and the snapshot is looked up again in the same session, whose
  transaction the failed flush has deactivated (`save_canonical_snapshot.py:87`): the
  mapping fails. It has written nothing, and repeating it answers the winner's
  snapshot (`MapAnswers`).

Of the Cisco ASA front end (`known_widening`, `forgets_family`, `drops_inner_group`,
`forgets_member`, `open`; `NeverWider` and `LossReported` except the operands they name
and no others):

* a literal protocol without a builder (igmp, ospf, eigrp, pim, sctp, a name nobody
  knows) becomes `service:any` without an issue; `lt`, `gt` and `neq` in an access
  list lose their operator and become one port; a group of protocols beside a
  service group is forgotten. These rules are wider than their lines (`known_widening`);
* a clause on the source port is read as the destination, which ends unresolved, and the
  service is left without that port (`misreads_source_port`);
* `any4` and `any6` become `any`, whatever the family (`forgets_family`); the `v4` of an
  `fqdn v4` is lost too, which the points of the model do not tell apart;
* groups nested in a tcp-udp group are dropped from TCP and UDP rules
  (`drops_inner_group`);
* two lines of a group become no member without an issue, and the rules that use the
  group admit less (`forgets_member`): a network of IPv6, written as one token
  (`network-object 2001:db8::/64`, `extractors/addresses.py:126`), and a `group-object`
  in a group of ICMP types, kept as a raw line only (`extractors/services.py:181`);
* the code of an ICMP message is forgotten and a time range is kept in the description
  only (`rules/processing.py:72`): such a rule is wider than its line in ways the points
  of the model do not tell apart;
* an ICMP type that is a number or unknown has no type: it matches nothing by value
  and is left to the user;
* a rule whose group of protocols is missing falls back to `service:any` and is marked
  to be skipped, which only the filters of the rule repository honour.

Of mapping and the pages:

* an object that was selected and is then deleted on the controller makes the whole
  projection fail: the scope cannot be worked on from the page any more
  (`projection_fails`);
* a session never notices what others change, and an auto-creation whose last refresh
  raises leaves its own caches as they were (`outdated` in `ShownIsCurrent`);
* the counts of a role ask only for zones (`paired_tables.py:239`), the status of a
  rule for all five roles; `MappedIsPlanned` therefore goes from the status to the
  counts and not back;
* rules that are selected and hidden by a filter are migrated too;
* leaving the page and coming back loses the ticks of the rows that were visible and
  the filters the widgets hold (`left` in `SelectionFollowsClicks`), while the filter of a
  link stays, a new snapshot notwithstanding;
* a subnet with host bits is matched by its network but created as written; the model
  takes the controller to store the network.

## 7. Not modelled

* Wording, logging, HTTP schemas and routers: they forward to the use cases and keep
  no state. Dependency-injection containers, settings, database migrations:
  construction only.
* Report values and the queries of reports and traces: pure reads, with
  one join each. `Execute` has when a report is saved and what its rows say of the
  outcome, `Imports` that trace records are saved with their snapshot, `AsaImport` to
  which lines they lead.
* The pages for imports, execution, traces, reports and settings: each shows the
  answer of a use case that is modelled elsewhere. Layout and texts of the two pages
  that are modelled. Interrupted reruns (a click while the script runs) are left
  out: an interaction is one step.
* Encryption, conversion of certificates, the test of a connection; validation of the
  controller's answers by pydantic; the diagnostic tools of the Cisco front end.

`PROJECT.json` lists every component with its status.
