------------------------------ MODULE Execute ------------------------------
(***************************************************************************)
(* The execute module: PrepareExecutePlanUseCase and                       *)
(* PushExecutePlanRulesUseCase, the runtime-cache repository of plans they *)
(* share, and the SD-WAN controller they talk to.                          *)
(*                                                                         *)
(* Every use case of the process runs on one asyncio event loop.  The      *)
(* runtime-cache repositories never really suspend, so a handler is atomic *)
(* between two network or database awaits, and every await is a point      *)
(* where any other invocation may run.  An action below is one such        *)
(* uninterrupted stretch, from the resumption of an await to the next one. *)
(*                                                                         *)
(* A job is one invocation of a use case and runs once.  A prepare job     *)
(* makes at most one plan under a fresh UUID, so the job is the plan's id; *)
(* a push job creates at most one policy per rule, so <<job, rule>> is the *)
(* policy's id.                                                            *)
(***************************************************************************)
EXTENDS Integers, FiniteSets

CONSTANTS
  Preparers,      \* invocations of Prepare, and the plans they make
  Pushers,        \* invocations of Push
  NumRules,       \* the rules of the mapping scope, by priority: 1..NumRules
  Drafts,         \* normalised rule values a draft or a policy can have
  Broken,         \* the drafts whose values cannot be normalised
  Covers,         \* pairs <<e, d>>: policy values e cover draft d
  Unmatched,      \* the selection of a rule with an unmatched operand
  NoEntry,        \* absence from the runtime cache
  NoPlan,         \* a push job that has not picked its plan
  NumParts,       \* zones, services, addresses, networks: the catalog's parts
  MaxVersion,     \* bound: contents each catalog part goes through
  MaxFaults,      \* bound: failed calls, lost answers, lost entries, crashes
  EditsMayRevert  \* whether a catalog part may return to an old content

Rules == 1 .. NumRules
Parts == 1 .. NumParts
Jobs == Preparers \cup Pushers
Fingerprints == [Parts -> 0 .. MaxVersion]

ASSUME ExecuteAssumption ==
  /\ Preparers \cap Pushers = {}
  /\ NumRules \in Nat \ {0}
  /\ NumParts \in Nat \ {0}
  /\ MaxVersion \in Nat
  /\ MaxFaults \in Nat
  /\ Broken \subseteq Drafts
  /\ Covers \subseteq Drafts \X Drafts
  /\ Unmatched \notin Drafts
  /\ NoPlan \notin Preparers
  /\ EditsMayRevert \in BOOLEAN

MatchStatus == {"NEW", "EXACT_MATCH", "COVERED_MATCH", "MATCH_ERROR"}
PushStatus == {"PENDING", "SUCCEEDED", "FAILED"}
RowResult == {"NONE", "PUSHED", "MATCHED", "COVERED", "FAILED", "ERROR"}

PlanEntry ==
  [fp: Fingerprints, status: {"PENDING", "EXECUTED"},
   draft: [Rules -> Drafts], match: [Rules -> MatchStatus],
   push: [Rules -> PushStatus]]

ASSUME NoEntryAssumption == NoEntry \notin PlanEntry

VARIABLES
  \* the SD-WAN controller (external)
  catalog,     \* the content of every part of the object catalog
  foreign,     \* the values of policies other administrators created
  created,     \* created[j]: the rules for which push job j created a policy
  commits,     \* the full-state commits, each with the policies it includes
  \* the runtime cache
  scope,       \* whether the mapping scope is still cached
  baseline,    \* the scope's catalog_fingerprint
  selection,   \* the values each mapped rule resolves to
  plans,       \* the "execute.plan" namespace
  \* the database
  reports,
  \* the invocations: program counters and local variables
  pc, base, drafts, seen, part, existing, plan, todo, result, rows,
  \* bookkeeping of the model
  prepared,    \* every plan as it was when it was added
  opened,      \* the catalog when a job started to read it
  faults

envVars == <<catalog, foreign, created, commits>>
cacheVars == <<scope, baseline, selection, plans>>
jobVars == <<pc, base, drafts, seen, part, existing, plan, todo, result, rows>>
vars == <<envVars, cacheVars, reports, jobVars, prepared, opened, faults>>

Ended == {"idle", "done", "failed"}
Labels == Ended \cup {"catalog", "check", "policies", "store", "target", "create",
                      "record", "fetch", "commit", "info", "save"}

\* The policies the migrator put on the controller, by id.
Policies == {q \in Pushers \X Rules : q[2] \in created[q[1]]}

\* The values a policy of job j for rule r has.
PolicyValues == foreign \cup {drafts[q[1]][q[2]] : q \in Policies}

----------------------------------------------------------------------------
(***************************************************************************)
(* Comparison and reporting                                                *)
(***************************************************************************)

\* RulesComparer.compare_rule against the policies of the read catalog.
\* Existing policies that cannot be normalised are left out.
compare_rule(d, policies) ==
  LET usable == policies \ Broken
  IN  IF d \in Broken THEN "MATCH_ERROR"
      ELSE IF d \in usable THEN "EXACT_MATCH"
      ELSE IF \E e \in usable : <<e, d>> \in Covers THEN "COVERED_MATCH"
      ELSE "NEW"

\* _report_rule_status_outcome.
report_outcome(match, push) ==
  IF match = "EXACT_MATCH" THEN "MATCHED"
  ELSE IF match = "COVERED_MATCH" THEN "COVERED"
  ELSE IF match = "NEW" /\ push = "SUCCEEDED" THEN "PUSHED"
  ELSE IF match = "NEW" /\ push = "FAILED" THEN "FAILED"
  ELSE "ERROR"  \* MATCH_ERROR, or "Push outcome was not recorded"

\* Mutant of pending_new_rules: the match-status filter is forgotten.
pending_rules(entry) == {r \in Rules : entry.push[r] = "PENDING"}

\* list_plan_rules(match_status=NEW, push_statuses={PENDING}).
pending_new_rules(entry) ==
  {r \in Rules : entry.match[r] = "NEW" /\ entry.push[r] = "PENDING"}

\* The report rows of all the rules of a plan; an expired entry lists none.
report_rows(entry) ==
  IF entry = NoEntry THEN [r \in Rules |-> "NONE"]
  ELSE [r \in Rules |-> report_outcome(entry.match[r], entry.push[r])]

\* Mutants of mark_push_executed: the status is not stored, or the plan is
\* stored together with the rules read before the awaits.
mark_nothing(entry, fp) == [entry EXCEPT !.fp = fp]
mark_with_stale_rules(entry, fp) ==
  [entry EXCEPT !.fp = fp, !.status = "EXECUTED", !.push = [r \in Rules |-> "PENDING"]]

\* update_plan(plan.mark_push_executed()): the header read before the awaits is
\* written back as EXECUTED over the rules that are cached now.
mark_push_executed(entry, fp) == [entry EXCEPT !.fp = fp, !.status = "EXECUTED"]

\* The push status an outcome is recorded as (mark_push_succeeded / _failed).
recorded(outcome) == IF outcome = "ok" THEN "SUCCEEDED" ELSE "FAILED"

\* Mutant of update_plan_rules: failures are not written back.
update_succeeded_rules(entry, rules, outcome) ==
  [entry EXCEPT !.push =
     [r \in Rules |-> IF r \in rules /\ outcome[r] = "ok" THEN "SUCCEEDED" ELSE entry.push[r]]]

\* update_plan_rule for every outcome of the push.
update_plan_rules(entry, rules, outcome) ==
  [entry EXCEPT !.push =
     [r \in Rules |-> IF r \in rules THEN recorded(outcome[r]) ELSE entry.push[r]]]

----------------------------------------------------------------------------
Init ==
  /\ catalog = [p \in Parts |-> 0]
  /\ foreign \in SUBSET Drafts
  /\ created = [j \in Pushers |-> {}]
  /\ commits = {}
  /\ scope = "cached"
  /\ baseline = catalog
  /\ selection \in [Rules -> Drafts \cup {Unmatched}]
  /\ plans = [p \in Preparers |-> NoEntry]
  /\ reports = {}
  /\ pc = [j \in Jobs |-> "idle"]
  /\ base = [j \in Jobs |-> [p \in Parts |-> 0]]
  /\ drafts = [j \in Jobs |-> [r \in Rules |-> Unmatched]]
  /\ seen = [j \in Jobs |-> [p \in Parts |-> 0]]
  /\ part = [j \in Jobs |-> 0]
  /\ existing = [j \in Preparers |-> {}]
  /\ plan = [j \in Pushers |-> NoPlan]
  /\ todo = [j \in Pushers |-> {}]
  /\ result = [j \in Pushers |-> [r \in Rules |-> "none"]]
  /\ rows = [j \in Pushers |-> [r \in Rules |-> "NONE"]]
  /\ prepared = [p \in Preparers |-> NoEntry]
  /\ opened = [j \in Jobs |-> [p \in Parts |-> 0]]
  /\ faults = 0

Goto(j, label) == pc' = [pc EXCEPT ![j] = label]

Fault == faults < MaxFaults /\ faults' = faults + 1

----------------------------------------------------------------------------
(***************************************************************************)
(* Reading the object catalog: get_sdwan_full_catalog awaits one part      *)
(* after the other, so the catalog may change between two of them.  The    *)
(* first read stands for acquiring the client as well.                     *)
(***************************************************************************)
ReadPart(j) ==
  /\ pc[j] = "catalog"
  /\ part' = [part EXCEPT ![j] = @ + 1]
  /\ seen' = [seen EXCEPT ![j][part[j] + 1] = catalog[part[j] + 1]]
  /\ opened' = IF part[j] = 0 THEN [opened EXCEPT ![j] = catalog] ELSE opened
  /\ Goto(j, IF part[j] + 1 = NumParts THEN "check" ELSE "catalog")
  /\ UNCHANGED <<envVars, cacheVars, reports, base, drafts, existing, plan, todo,
                 result, rows, prepared, faults>>

\* Mutant of catalog_unchanged: only the part read last is compared.
last_part_unchanged(j) == seen[j][NumParts] = base[j][NumParts]

\* get_fingerprint() of the catalog just read equals the one remembered.
catalog_unchanged(j) == seen[j] = base[j]

(***************************************************************************)
(* PrepareExecutePlanUseCase                                               *)
(***************************************************************************)

\* The scope and its rules are read before the first await; the mapping
\* reader refuses a scope with any unmatched object or empty role.
PrepareStart(j) ==
  /\ pc[j] = "idle"
  /\ scope = "cached"
  /\ \A r \in Rules : selection[r] # Unmatched
  /\ base' = [base EXCEPT ![j] = baseline]
  /\ drafts' = [drafts EXCEPT ![j] = selection]
  /\ Goto(j, "catalog")
  /\ UNCHANGED <<envVars, cacheVars, reports, seen, part, existing, plan, todo,
                 result, rows, prepared, opened, faults>>

PrepareReject(j) ==
  /\ pc[j] = "idle"
  /\ scope = "gone" \/ \E r \in Rules : selection[r] = Unmatched
  /\ Goto(j, "failed")
  /\ UNCHANGED <<envVars, cacheVars, reports, base, drafts, seen, part, existing,
                 plan, todo, result, rows, prepared, opened, faults>>

\* The catalog just read must have the fingerprint the scope had at the start.
PrepareCheck(j) ==
  /\ pc[j] = "check"
  /\ Goto(j, IF catalog_unchanged(j) THEN "policies" ELSE "failed")
  /\ UNCHANGED <<envVars, cacheVars, reports, base, drafts, seen, part, existing,
                 plan, todo, result, rows, prepared, opened, faults>>

\* get_sdwan_policy_catalog: the policies are read after the check.
ReadPolicies(j) ==
  /\ pc[j] = "policies"
  /\ existing' = [existing EXCEPT ![j] = PolicyValues]
  /\ Goto(j, "store")
  /\ UNCHANGED <<envVars, cacheVars, reports, base, drafts, seen, part, plan, todo,
                 result, rows, prepared, opened, faults>>

\* The plan that a prepare job builds from what it read.
new_plan(j) ==
  [fp |-> base[j], status |-> "PENDING", draft |-> drafts[j],
   match |-> [r \in Rules |-> compare_rule(drafts[j][r], existing[j])],
   push |-> [r \in Rules |-> "PENDING"]]

\* Comparison of every rule, then add_plan_with_rules under a fresh id.
StorePlan(j) ==
  /\ pc[j] = "store"
  /\ plans' = [plans EXCEPT ![j] = new_plan(j)]
  /\ prepared' = [prepared EXCEPT ![j] = new_plan(j)]
  /\ Goto(j, "done")
  /\ UNCHANGED <<envVars, scope, baseline, selection, reports, base, drafts, seen,
                 part, existing, plan, todo, result, rows, opened, faults>>

----------------------------------------------------------------------------
(***************************************************************************)
(* PushExecutePlanRulesUseCase                                             *)
(***************************************************************************)

\* Mutant of may_push: the EXECUTED status is not looked at.
may_push_again(p) ==
  /\ plans[p] # NoEntry
  /\ {r \in Rules : plans[p].match[r] = "NEW"} # {}
  /\ scope = "cached"
  /\ baseline = plans[p].fp

\* The checks before the first await: the plan is cached and not yet pushed,
\* it has NEW rules, and the scope is cached with the plan's fingerprint.
may_push(p) ==
  /\ plans[p] # NoEntry
  /\ plans[p].status = "PENDING"
  /\ pending_new_rules(plans[p]) # {}
  /\ scope = "cached"
  /\ baseline = plans[p].fp

PushStart(j, p) ==
  /\ pc[j] = "idle"
  /\ may_push(p)
  /\ plan' = [plan EXCEPT ![j] = p]
  /\ base' = [base EXCEPT ![j] = plans[p].fp]
  /\ drafts' = [drafts EXCEPT ![j] = plans[p].draft]
  /\ todo' = [todo EXCEPT ![j] = pending_new_rules(plans[p])]
  /\ Goto(j, "catalog")
  /\ UNCHANGED <<envVars, cacheVars, reports, seen, part, existing, result, rows,
                 prepared, opened, faults>>

PushReject(j, p) ==
  /\ pc[j] = "idle"
  /\ ~may_push(p)
  /\ Goto(j, "failed")
  /\ UNCHANGED <<envVars, cacheVars, reports, base, drafts, seen, part, existing,
                 plan, todo, result, rows, prepared, opened, faults>>

\* The catalog must still have the plan's fingerprint; then update_plan writes
\* the plan read before the awaits back as EXECUTED, with the cached rules.
PushCheck(j) ==
  /\ pc[j] = "check"
  /\ IF catalog_unchanged(j) /\ plans[plan[j]] # NoEntry
     THEN /\ plans' = [plans EXCEPT ![plan[j]] = mark_push_executed(@, base[j])]
          /\ Goto(j, "target")
     ELSE /\ Goto(j, "failed")
          /\ UNCHANGED plans
  /\ UNCHANGED <<envVars, scope, baseline, selection, reports, base, drafts, seen,
                 part, existing, plan, todo, result, rows, prepared, opened, faults>>

\* push_rules: the target device object is looked up first.
FindTarget(j) ==
  /\ pc[j] = "target"
  /\ Goto(j, "create")
  /\ UNCHANGED <<envVars, cacheVars, reports, base, drafts, seen, part, existing,
                 plan, todo, result, rows, prepared, opened, faults>>

\* The rules still to be sent, and the one that is next in priority order.
unsent(j) == {r \in todo[j] : result[j][r] = "none"}
is_next(j, r) == r \in unsent(j) /\ \A q \in unsent(j) : r <= q

\* create_policy for the next rule: created and answered; refused; or created
\* although the answer is lost.  An error is recorded and the loop goes on.
CreatePolicy(j, r, made, answered) ==
  /\ pc[j] = "create"
  /\ is_next(j, r)
  /\ answered => made
  /\ IF answered THEN UNCHANGED faults ELSE Fault
  /\ result' = [result EXCEPT ![j][r] = IF answered THEN "ok" ELSE "error"]
  /\ created' = IF made THEN [created EXCEPT ![j] = @ \cup {r}] ELSE created
  /\ Goto(j, IF unsent(j) = {r} THEN "record" ELSE "create")
  /\ UNCHANGED <<catalog, foreign, commits, cacheVars, reports, base, drafts, seen,
                 part, existing, plan, todo, rows, prepared, opened>>

\* update_plan_rule for every outcome; it raises when the plan has expired.
RecordOutcomes(j) ==
  /\ pc[j] = "record"
  /\ IF plans[plan[j]] = NoEntry
     THEN Goto(j, "failed") /\ UNCHANGED plans
     ELSE /\ plans' = [plans EXCEPT ![plan[j]] = update_plan_rules(@, todo[j], result[j])]
          /\ Goto(j, IF \E r \in todo[j] : result[j][r] = "ok" THEN "fetch" ELSE "commit")
  /\ UNCHANGED <<envVars, scope, baseline, selection, reports, base, drafts, seen,
                 part, existing, plan, todo, result, rows, prepared, opened, faults>>

\* Mutant of FetchPushed: the use case returns with the policies it read.
FetchPushedAndReturn(j) ==
  /\ pc[j] = "fetch"
  /\ Goto(j, "done")
  /\ UNCHANGED <<envVars, cacheVars, reports, base, drafts, seen, part, existing,
                 plan, todo, result, rows, prepared, opened, faults>>

\* get_rules: the created policies are read back for display.
FetchPushed(j) ==
  /\ pc[j] = "fetch"
  /\ Goto(j, "commit")
  /\ UNCHANGED <<envVars, cacheVars, reports, base, drafts, seen, part, existing,
                 plan, todo, result, rows, prepared, opened, faults>>

\* Mutant of Commit: a push with a failed rule is not committed.
CommitComplete(j, answered) ==
  /\ pc[j] = "commit"
  /\ IF answered THEN UNCHANGED faults ELSE Fault
  /\ commits' = IF \A r \in todo[j] : result[j][r] = "ok"
                THEN commits \cup {[by |-> j, state |-> Policies]} ELSE commits
  /\ Goto(j, IF answered THEN "info" ELSE "failed")
  /\ UNCHANGED <<catalog, foreign, created, cacheVars, reports, base, drafts, seen, part,
                 existing, plan, todo, result, rows, prepared, opened>>

\* commit_full_state commits whatever the controller holds; its answer may be
\* lost, which ends the job.
Commit(j, answered) ==
  /\ pc[j] = "commit"
  /\ IF answered THEN UNCHANGED faults ELSE Fault
  /\ commits' = commits \cup {[by |-> j, state |-> Policies]}
  /\ Goto(j, IF answered THEN "info" ELSE "failed")
  /\ UNCHANGED <<catalog, foreign, created, cacheVars, reports, base, drafts, seen, part,
                 existing, plan, todo, result, rows, prepared, opened>>

\* get_commit_info, release of the client, then all rules of the plan are
\* listed again for the report.
CollectRows(j) ==
  /\ pc[j] = "info"
  /\ rows' = [rows EXCEPT ![j] = report_rows(plans[plan[j]])]
  /\ Goto(j, "save")
  /\ UNCHANGED <<envVars, cacheVars, reports, base, drafts, seen, part, existing,
                 plan, todo, result, prepared, opened, faults>>

SaveReport(j) ==
  /\ pc[j] = "save"
  /\ reports' = reports \cup {[by |-> j, plan |-> plan[j], rows |-> rows[j]]}
  /\ Goto(j, "done")
  /\ UNCHANGED <<envVars, cacheVars, base, drafts, seen, part, existing, plan, todo,
                 result, rows, prepared, opened, faults>>

----------------------------------------------------------------------------
(***************************************************************************)
(* Failures                                                                *)
(***************************************************************************)

\* A call fails (timeout, HTTP error, missing target, database error) at an
\* await whose exception the use case does not catch.
CallFails(j) ==
  /\ pc[j] \in {"catalog", "policies", "target", "fetch", "commit", "info", "save"}
  /\ Fault
  /\ Goto(j, "failed")
  /\ UNCHANGED <<envVars, cacheVars, reports, base, drafts, seen, part, existing,
                 plan, todo, result, rows, prepared, opened>>

\* The runtime cache drops a plan: its TTL passed or it was evicted.
LosePlan(p) ==
  /\ plans[p] # NoEntry
  /\ Fault
  /\ plans' = [plans EXCEPT ![p] = NoEntry]
  /\ UNCHANGED <<envVars, scope, baseline, selection, reports, jobVars, prepared,
                 opened>>

LoseScope ==
  /\ scope = "cached"
  /\ Fault
  /\ scope' = "gone"
  /\ UNCHANGED <<envVars, baseline, selection, plans, reports, jobVars, prepared, opened>>

\* The process restarts: the runtime cache and every running job are gone.
Crash ==
  /\ Fault
  /\ scope' = "gone"
  /\ plans' = [p \in Preparers |-> NoEntry]
  /\ pc' = [j \in Jobs |-> IF pc[j] \in Ended THEN pc[j] ELSE "failed"]
  /\ UNCHANGED <<envVars, baseline, selection, reports, base, drafts, seen, part,
                 existing, plan, todo, result, rows, prepared, opened>>

(***************************************************************************)
(* The rest of the world                                                   *)
(***************************************************************************)

\* Another administrator edits the object catalog.
EditCatalog(p) ==
  /\ \E v \in 0 .. MaxVersion :
       /\ v # catalog[p]
       /\ EditsMayRevert \/ v > catalog[p]
       /\ catalog' = [catalog EXCEPT ![p] = v]
  /\ UNCHANGED <<foreign, created, commits, cacheVars, reports, jobVars, prepared, opened,
                 faults>>

\* Another administrator creates a policy.
AddForeignPolicy(d) ==
  /\ d \notin foreign
  /\ foreign' = foreign \cup {d}
  /\ UNCHANGED <<catalog, created, commits, cacheVars, reports, jobVars, prepared, opened,
                 faults>>

\* A mapping use case selects other objects for a rule.
Reselect(r, d) ==
  /\ scope = "cached"
  /\ selection[r] # d
  /\ selection' = [selection EXCEPT ![r] = d]
  /\ UNCHANGED <<envVars, scope, baseline, plans, reports, jobVars, prepared, opened,
                 faults>>

\* The mapping module refreshes the scope's fingerprint.  Its catalog read is
\* as piecewise as the ones above and may be stored late: every part is a
\* content that the catalog had at some time.
RefreshBaseline ==
  /\ scope = "cached"
  /\ baseline' \in {f \in Fingerprints :
                     \A p \in Parts : EditsMayRevert \/ f[p] <= catalog[p]}
  /\ baseline' # baseline
  /\ UNCHANGED <<envVars, scope, selection, plans, reports, jobVars, prepared, opened,
                 faults>>

----------------------------------------------------------------------------
PrepareStep(j) ==
  PrepareStart(j) \/ PrepareReject(j) \/ ReadPart(j) \/ PrepareCheck(j)
    \/ ReadPolicies(j) \/ StorePlan(j)

PushBegin(j) == \E p \in Preparers : PushStart(j, p) \/ PushReject(j, p)

PushStep(j) ==
  \/ ReadPart(j) \/ PushCheck(j) \/ FindTarget(j)
  \/ \E r \in Rules : \E made, answered \in BOOLEAN : CreatePolicy(j, r, made, answered)
  \/ RecordOutcomes(j) \/ FetchPushed(j)
  \/ \E answered \in BOOLEAN : Commit(j, answered)
  \/ CollectRows(j) \/ SaveReport(j)

World ==
  \/ \E p \in Parts : EditCatalog(p)
  \/ \E d \in Drafts : AddForeignPolicy(d)
  \/ \E r \in Rules, d \in Drafts : Reselect(r, d)
  \/ RefreshBaseline

Next ==
  \/ \E j \in Preparers : PrepareStep(j)
  \/ \E j \in Pushers : PushBegin(j) \/ PushStep(j)
  \/ \E j \in Jobs : CallFails(j)
  \/ \E p \in Preparers : LosePlan(p)
  \/ LoseScope \/ Crash
  \/ World

Spec == Init /\ [][Next]_vars

\* The event loop resumes every suspended invocation: each call it awaits ends
\* with an answer, an error status or the requester's timeout.
Fairness ==
  /\ \A j \in Preparers : WF_vars(pc[j] # "idle" /\ PrepareStep(j))
  /\ \A j \in Pushers : WF_vars(PushStep(j))

FairSpec == Spec /\ Fairness

----------------------------------------------------------------------------
(***************************************************************************)
(* Properties                                                              *)
(***************************************************************************)

\* Every variable has its type: the entities of execute/domain/entities.py and
\* the local variables of the two use cases.
TypeOK ==
  /\ catalog \in Fingerprints
  /\ foreign \subseteq Drafts
  /\ created \in [Pushers -> SUBSET Rules]
  /\ commits \subseteq [by: Pushers, state: SUBSET (Pushers \X Rules)]
  /\ scope \in {"cached", "gone"}
  /\ baseline \in Fingerprints
  /\ selection \in [Rules -> Drafts \cup {Unmatched}]
  /\ plans \in [Preparers -> PlanEntry \cup {NoEntry}]
  /\ reports \subseteq [by: Pushers, plan: Preparers, rows: [Rules -> RowResult]]
  /\ pc \in [Jobs -> Labels]
  /\ base \in [Jobs -> Fingerprints]
  /\ drafts \in [Jobs -> [Rules -> Drafts \cup {Unmatched}]]
  /\ seen \in [Jobs -> Fingerprints]
  /\ part \in [Jobs -> 0 .. NumParts]
  /\ existing \in [Preparers -> SUBSET (Drafts \cup {Unmatched})]
  /\ plan \in [Pushers -> Preparers \cup {NoPlan}]
  /\ todo \in [Pushers -> SUBSET Rules]
  /\ result \in [Pushers -> [Rules -> {"none", "ok", "error"}]]
  /\ rows \in [Pushers -> [Rules -> RowResult]]
  /\ prepared \in [Preparers -> PlanEntry \cup {NoEntry}]
  /\ opened \in [Jobs -> Fingerprints]
  /\ faults \in 0 .. MaxFaults

\* Push creates policies only for rules its plan found to be NEW, and with the
\* values the plan showed, whatever happens to the cached plan meanwhile
\* ("Push only NEW execute plan rules to SD-WAN").
CreatedAsPlanned ==
  \A j \in Pushers : \A r \in created[j] :
    /\ plan[j] # NoPlan
    /\ prepared[plan[j]] # NoEntry
    /\ prepared[plan[j]].match[r] = "NEW"
    /\ drafts[j][r] = prepared[plan[j]].draft[r]

\* A cached plan for which a policy was created is EXECUTED: update_plan comes
\* before push_rules, so a push that breaks off half-way cannot be repeated.
ExecutedBeforeCreated ==
  \A j \in Pushers :
    created[j] # {} => \/ plans[plan[j]] = NoEntry
                       \/ plans[plan[j]].status = "EXECUTED"

\* The report never has to say "Push outcome was not recorded": a NEW rule of a
\* plan that is still cached when the report is written has its outcome, even
\* with two pushes of the plan under way.
OutcomesRecorded ==
  \A rep \in reports : \A r \in Rules :
    (prepared[rep.plan] # NoEntry /\ prepared[rep.plan].match[r] = "NEW")
      => rep.rows[r] \in {"NONE", "PUSHED", "FAILED"}

\* A rule reported as PUSHED has a policy that a push of that plan created.
PushedRowsExist ==
  \A rep \in reports : \A r \in Rules :
    rep.rows[r] = "PUSHED" => \E k \in Pushers : plan[k] = rep.plan /\ r \in created[k]

\* When one push alone created the policies of a plan, every rule its report
\* calls PUSHED is part of the commit the report names.
PushedRowsCommitted ==
  \A rep \in reports :
    (\A k \in Pushers \ {rep.by} : plan[k] = rep.plan => created[k] = {})
      => \A r \in Rules : rep.rows[r] = "PUSHED" =>
           \E c \in commits : c.by = rep.by /\ <<rep.by, r>> \in c.state

\* What a report calls PUSHED is on the controller, and committed.
PushedRowsReal == PushedRowsExist /\ PushedRowsCommitted

\* When catalog contents never return, the piecewise read of the catalog is as
\* good as an atomic one: past the fingerprint check, the whole catalog was the
\* one the plan (or the scope) was built on when the read began.
CatalogWasCurrent ==
  \A j \in Jobs :
    pc[j] \in {"policies", "store", "target", "create", "record", "fetch", "commit", "info",
               "save", "done"} => opened[j] = base[j]

\* A push never starts on a plan for which some push already created a policy
\* while the plan is cached: the EXECUTED check covers every earlier push.
NoLatePush ==
  [][\A j \in Pushers :
       (pc[j] = "idle" /\ pc'[j] = "catalog")
         => \A k \in Pushers : plan[k] = plan'[j] => created[k] = {}]_vars

\* The promise of Migration, kept by caches that lose plans, calls that fail,
\* processes that restart and pushes that overlap: the plans as they were added
\* are its plans, and a report promises the rules it calls PUSHED.
Promise == INSTANCE Migration WITH
  Plans <- Preparers,
  Pushes <- Pushers,
  planned <- {p \in Preparers : prepared[p] # NoEntry},
  fresh <- [p \in Preparers |-> {r \in Rules : prepared[p] # NoEntry /\ prepared[p].match[r] = "NEW"}],
  reports <- {[by |-> rep.by, plan |-> rep.plan, pushed |-> {r \in Rules : rep.rows[r] = "PUSHED"}]
                : rep \in reports}

\* Preparing, pushing and reporting do what Migration promises: above all, a push
\* begins only while its plan has no policy, and never creates a rule twice.
IsMigration == Promise!Spec

\* A cached plan never goes back: EXECUTED stays, a rule with an outcome never
\* becomes PENDING again, and what was compared and planned never changes, in
\* spite of the stale copies that update_plan and update_plan_rule write.
PlansOnlyAdvance ==
  [][\A p \in Preparers :
       (plans[p] # NoEntry /\ plans'[p] # NoEntry) =>
         /\ plans[p].status = "EXECUTED" => plans'[p].status = "EXECUTED"
         /\ \A r \in Rules : plans[p].push[r] # "PENDING" => plans'[p].push[r] # "PENDING"
         /\ plans'[p].draft = plans[p].draft
         /\ plans'[p].match = plans[p].match
         /\ plans'[p].fp = plans[p].fp]_vars

\* ExecutePlan.mark_push_executed: "Return the plan after its one permitted push
\* has started."  At most one push creates policies for a plan.
OnePermittedPush ==
  \A j, k \in Pushers :
    (created[j] # {} /\ created[k] # {} /\ plan[j] = plan[k]) => j = k

\* A push that marked its plan EXECUTED leaves a report, unless a call fails, an
\* entry expires or the process restarts.
ExecutedIsReported ==
  \A j \in Pushers : pc[j] = "target" ~> (faults > 0 \/ \E rep \in reports : rep.by = j)

============================================================================
