--------------------------- MODULE ExecuteProofs ---------------------------
(***************************************************************************)
(* Proofs about Execute, for any number of invocations, rules, catalog     *)
(* parts and faults.                                                       *)
(***************************************************************************)
EXTENDS Execute, TLAPS

PrepareLabels == {"idle", "catalog", "check", "policies", "store", "done", "failed"}
PushLabels == Labels \ {"policies", "store"}

\* The control part of the inductive invariant: where a job can be, and which
\* of its locals are set there.
Control ==
  /\ \A j \in Jobs : /\ pc[j] = "idle" => part[j] = 0
                     /\ pc[j] = "catalog" => part[j] < NumParts
  /\ \A j \in Preparers :
       /\ pc[j] \in PrepareLabels
       /\ pc[j] \in {"catalog", "check", "policies", "store"} => drafts[j] \in [Rules -> Drafts]
  /\ \A j \in Pushers :
       /\ pc[j] \in PushLabels
       /\ pc[j] \notin {"idle", "failed"} => plan[j] \in Preparers

TypeInv == TypeOK /\ Control

----------------------------------------------------------------------------
(***************************************************************************)
(* What the operators return                                               *)
(***************************************************************************)

\* compare_rule answers one of the four match statuses.
LEMMA CompareType ==
  ASSUME NEW d, NEW P
  PROVE  compare_rule(d, P) \in MatchStatus
BY DEF compare_rule, MatchStatus

\* A report row of a cached or expired plan is one of the report results.
LEMMA RowsType ==
  ASSUME NEW e \in PlanEntry \cup {NoEntry}
  PROVE  report_rows(e) \in [Rules -> RowResult]
BY DEF report_rows, report_outcome, RowResult

\* Marking a plan executed yields a plan.
LEMMA MarkType ==
  ASSUME NEW e \in PlanEntry, NEW fp \in Fingerprints
  PROVE  /\ mark_push_executed(e, fp) \in PlanEntry
         /\ mark_push_executed(e, fp).status = "EXECUTED"
         /\ mark_push_executed(e, fp).fp = fp
         /\ mark_push_executed(e, fp).draft = e.draft
         /\ mark_push_executed(e, fp).match = e.match
         /\ mark_push_executed(e, fp).push = e.push
BY DEF mark_push_executed, PlanEntry

\* Writing the outcomes back yields a plan that differs in push statuses only.
LEMMA UpdateType ==
  ASSUME NEW e \in PlanEntry, NEW S, NEW o
  PROVE  /\ update_plan_rules(e, S, o) \in PlanEntry
         /\ update_plan_rules(e, S, o).status = e.status
         /\ update_plan_rules(e, S, o).fp = e.fp
         /\ update_plan_rules(e, S, o).draft = e.draft
         /\ update_plan_rules(e, S, o).match = e.match
         /\ \A r \in Rules : update_plan_rules(e, S, o).push[r]
                            = IF r \in S THEN recorded(o[r]) ELSE e.push[r]
BY DEF update_plan_rules, recorded, PushStatus, PlanEntry

----------------------------------------------------------------------------
\* Initially every variable has its type and no job has started.
LEMMA InitTypeInv == Init => TypeInv
<1> SUFFICES ASSUME Init PROVE TypeInv
  OBVIOUS
<1> USE ExecuteAssumption DEF Init
<1>1. catalog \in Fingerprints
  BY DEF Fingerprints
<1>2. TypeOK
  BY <1>1 DEF TypeOK, Fingerprints, Labels, Ended, RowResult, Jobs
<1>3. Control
  BY DEF Control, PrepareLabels, PushLabels, Labels, Ended, Jobs
<1> QED
  BY <1>2, <1>3 DEF TypeInv

\* One step of any action keeps every variable in its type and the jobs where
\* they may be.
LEMMA NextTypeInv == TypeInv /\ [Next]_vars => TypeInv'
<1> SUFFICES ASSUME TypeInv, [Next]_vars PROVE TypeInv'
  OBVIOUS
<1> USE ExecuteAssumption, NoEntryAssumption
    DEF TypeInv, TypeOK, Control, Goto, envVars, cacheVars, Jobs
<1>1. ASSUME NEW j \in Jobs, ReadPart(j) PROVE TypeInv'
  <2>1. part[j] + 1 \in Parts
    BY <1>1 DEF ReadPart, Parts
  <2>2. seen' \in [Jobs -> Fingerprints]
    BY <1>1, <2>1 DEF ReadPart, Fingerprints
  <2>3. part' \in [Jobs -> 0 .. NumParts]
    BY <1>1, <2>1 DEF ReadPart, Parts
  <2>4. opened' \in [Jobs -> Fingerprints]
    BY <1>1 DEF ReadPart
  <2>5. TypeOK'
    BY <1>1, <2>2, <2>3, <2>4 DEF ReadPart, Labels
  <2>6. Control'
    BY <1>1, <2>1 DEF ReadPart, Parts, Labels, PushLabels, PrepareLabels, Ended
  <2> QED BY <2>5, <2>6
<1>2. ASSUME NEW j \in Preparers, PrepareStart(j) PROVE TypeInv'
  BY <1>2 DEF PrepareStart, Labels, PrepareLabels
<1>3. ASSUME NEW j \in Preparers, PrepareReject(j) PROVE TypeInv'
  BY <1>3 DEF PrepareReject, Labels, PrepareLabels, Ended
<1>4. ASSUME NEW j \in Preparers, PrepareCheck(j) PROVE TypeInv'
  BY <1>4 DEF PrepareCheck, Labels, PrepareLabels, Ended
<1>5. ASSUME NEW j \in Preparers, ReadPolicies(j) PROVE TypeInv'
  BY <1>5 DEF ReadPolicies, Labels, PrepareLabels, PolicyValues, Policies
<1>6. ASSUME NEW j \in Preparers, StorePlan(j) PROVE TypeInv'
  <2>1. new_plan(j) \in PlanEntry
    BY <1>6, CompareType DEF StorePlan, new_plan, PlanEntry, PushStatus
  <2> QED BY <1>6, <2>1 DEF StorePlan, Labels, PrepareLabels, Ended
<1>7. ASSUME NEW j \in Pushers, NEW p \in Preparers, PushStart(j, p) PROVE TypeInv'
  BY <1>7 DEF PushStart, may_push, pending_new_rules, PlanEntry, Labels, PushLabels
<1>8. ASSUME NEW j \in Pushers, NEW p \in Preparers, PushReject(j, p) PROVE TypeInv'
  BY <1>8 DEF PushReject, Labels, PushLabels, Ended
<1>9. ASSUME NEW j \in Pushers, PushCheck(j) PROVE TypeInv'
  <2>1. plan[j] \in Preparers /\ base[j] \in Fingerprints
    BY <1>9 DEF PushCheck
  <2>2. plans' \in [Preparers -> PlanEntry \cup {NoEntry}]
    <3>1. CASE plans[plan[j]] = NoEntry
      BY <1>9, <3>1 DEF PushCheck
    <3>2. CASE plans[plan[j]] # NoEntry
      <4>1. mark_push_executed(plans[plan[j]], base[j]) \in PlanEntry
        BY <2>1, <3>2, MarkType
      <4>2. \/ plans' = plans
            \/ plans' = [plans EXCEPT ![plan[j]] = mark_push_executed(@, base[j])]
        BY <1>9 DEF PushCheck
      <4>3. CASE plans' = plans
        BY <4>3
      <4>4. CASE plans' = [plans EXCEPT ![plan[j]] = mark_push_executed(@, base[j])]
        BY <2>1, <4>1, <4>4
      <4> QED BY <4>2, <4>3, <4>4
    <3> QED BY <3>1, <3>2
  <2>3. PICK l \in {"failed", "target"} : Goto(j, l)
    BY <1>9 DEF PushCheck
  <2>4. UNCHANGED <<envVars, scope, baseline, selection, reports, base, drafts, seen, part,
                    existing, plan, todo, result, rows, prepared, opened, faults>>
    BY <1>9 DEF PushCheck
  <2> QED BY <2>1, <2>2, <2>3, <2>4 DEF Labels, PushLabels, Ended
<1>10. ASSUME NEW j \in Pushers, FindTarget(j) PROVE TypeInv'
  BY <1>10 DEF FindTarget, Labels, PushLabels
<1>11. ASSUME NEW j \in Pushers, NEW r \in Rules, NEW made \in BOOLEAN,
              NEW answered \in BOOLEAN, CreatePolicy(j, r, made, answered)
       PROVE  TypeInv'
  <2>1. faults' \in 0 .. MaxFaults
    BY <1>11 DEF CreatePolicy, Fault
  <2>2. PICK l \in {"record", "create"} : Goto(j, l)
    BY <1>11 DEF CreatePolicy
  <2>3. pc' \in [Jobs -> Labels]
    BY <2>2 DEF Labels, PushLabels
  <2>4. result' \in [Pushers -> [Rules -> {"none", "ok", "error"}]]
    BY <1>11 DEF CreatePolicy
  <2>5. created' \in [Pushers -> SUBSET Rules]
    BY <1>11 DEF CreatePolicy
  <2>6. UNCHANGED <<catalog, foreign, commits, cacheVars, reports, base, drafts, seen,
                    part, existing, plan, todo, rows, prepared, opened>>
    BY <1>11 DEF CreatePolicy
  <2>7. pc[j] = "create"
    BY <1>11 DEF CreatePolicy
  <2>8. TypeOK'
    BY <2>1, <2>3, <2>4, <2>5, <2>6 DEF cacheVars
  <2>9. Control'
    <3>1. /\ pc'[j] \in {"record", "create"}
          /\ \A k \in Jobs \ {j} : pc'[k] = pc[k]
      BY <2>2
    <3>2. \A k \in Preparers : k # j
      OBVIOUS
    <3>3. UNCHANGED <<part, drafts, plan>>
      BY <2>6
    <3>4. \A k \in Jobs : /\ pc'[k] = "idle" => part'[k] = 0
                          /\ pc'[k] = "catalog" => part'[k] < NumParts
      BY <3>1, <3>3
    <3>5. \A k \in Preparers : /\ pc'[k] \in PrepareLabels
                               /\ pc'[k] \in {"catalog", "check", "policies", "store"} =>
                                    drafts'[k] \in [Rules -> Drafts]
      BY <3>1, <3>2, <3>3
    <3>6. \A k \in Pushers : /\ pc'[k] \in PushLabels
                             /\ pc'[k] \notin {"idle", "failed"} => plan'[k] \in Preparers
      <4>1. ASSUME NEW k \in Pushers, k = j
            PROVE  pc'[k] \in PushLabels /\ plan'[k] \in Preparers
        <5>1. plan[k] \in Preparers
          BY <2>7, <4>1
        <5>2. pc'[k] \in {"record", "create"}
          BY <3>1, <4>1
        <5>3. {"record", "create"} \subseteq PushLabels
          BY DEF PushLabels, Labels
        <5>4. plan'[k] = plan[k]
          BY <3>3
        <5> QED BY <5>1, <5>2, <5>3, <5>4
      <4>2. ASSUME NEW k \in Pushers, k # j
            PROVE  /\ pc'[k] \in PushLabels
                   /\ pc'[k] \notin {"idle", "failed"} => plan'[k] \in Preparers
        <5>1. pc'[k] = pc[k]
          BY <3>1, <4>2
        <5> QED BY <3>3, <5>1
      <4> QED BY <4>1, <4>2
    <3> QED BY <3>4, <3>5, <3>6
  <2> QED BY <2>8, <2>9
<1>12. ASSUME NEW j \in Pushers, RecordOutcomes(j) PROVE TypeInv'
  <2>1. plan[j] \in Preparers
    BY <1>12 DEF RecordOutcomes
  <2>2. plans' \in [Preparers -> PlanEntry \cup {NoEntry}]
    <3>1. CASE plans[plan[j]] = NoEntry
      BY <1>12, <3>1 DEF RecordOutcomes
    <3>2. CASE plans[plan[j]] # NoEntry
      <4>1. update_plan_rules(plans[plan[j]], todo[j], result[j]) \in PlanEntry
        BY <2>1, <3>2, UpdateType
      <4>2. \/ plans' = plans
            \/ plans' = [plans EXCEPT ![plan[j]] = update_plan_rules(@, todo[j], result[j])]
        BY <1>12 DEF RecordOutcomes
      <4> QED BY <2>1, <4>1, <4>2
    <3> QED BY <3>1, <3>2
  <2>3. PICK l \in {"failed", "fetch", "commit"} : Goto(j, l)
    BY <1>12 DEF RecordOutcomes
  <2>4. UNCHANGED <<envVars, scope, baseline, selection, reports, base, drafts, seen, part,
                    existing, plan, todo, result, rows, prepared, opened, faults>>
    BY <1>12 DEF RecordOutcomes
  <2> QED BY <2>1, <2>2, <2>3, <2>4 DEF Labels, PushLabels, Ended
<1>13. ASSUME NEW j \in Pushers, FetchPushed(j) PROVE TypeInv'
  BY <1>13 DEF FetchPushed, Labels, PushLabels
<1>14. ASSUME NEW j \in Pushers, NEW answered \in BOOLEAN, Commit(j, answered)
       PROVE  TypeInv'
  <2>1. faults' \in 0 .. MaxFaults
    BY <1>14 DEF Commit, Fault
  <2> QED BY <1>14, <2>1 DEF Commit, Policies, Labels, PushLabels, Ended
<1>15. ASSUME NEW j \in Pushers, CollectRows(j) PROVE TypeInv'
  <2>1. report_rows(plans[plan[j]]) \in [Rules -> RowResult]
    BY <1>15, RowsType DEF CollectRows
  <2> QED BY <1>15, <2>1 DEF CollectRows, Labels, PushLabels
<1>16. ASSUME NEW j \in Pushers, SaveReport(j) PROVE TypeInv'
  <2>1. [by |-> j, plan |-> plan[j], rows |-> rows[j]]
          \in [by: Pushers, plan: Preparers, rows: [Rules -> RowResult]]
    BY <1>16 DEF SaveReport
  <2> QED BY <1>16, <2>1 DEF SaveReport, Labels, PushLabels, Ended
<1>17. ASSUME NEW j \in Jobs, CallFails(j) PROVE TypeInv'
  BY <1>17 DEF CallFails, Fault, Labels, PushLabels, PrepareLabels, Ended
<1>18. ASSUME NEW p \in Preparers, LosePlan(p) PROVE TypeInv'
  BY <1>18 DEF LosePlan, Fault, jobVars
<1>19. ASSUME LoseScope PROVE TypeInv'
  BY <1>19 DEF LoseScope, Fault, jobVars
<1>20. ASSUME Crash PROVE TypeInv'
  BY <1>20 DEF Crash, Fault, Labels, PushLabels, PrepareLabels, Ended
<1>21. ASSUME World PROVE TypeInv'
  <2>1. ASSUME NEW p \in Parts, EditCatalog(p) PROVE TypeInv'
    BY <2>1 DEF EditCatalog, jobVars, Fingerprints
  <2>2. ASSUME NEW d \in Drafts, AddForeignPolicy(d) PROVE TypeInv'
    BY <2>2 DEF AddForeignPolicy, jobVars
  <2>3. ASSUME NEW r \in Rules, NEW d \in Drafts, Reselect(r, d) PROVE TypeInv'
    BY <2>3 DEF Reselect, jobVars
  <2>4. ASSUME RefreshBaseline PROVE TypeInv'
    BY <2>4 DEF RefreshBaseline, jobVars
  <2> QED BY <1>21, <2>1, <2>2, <2>3, <2>4 DEF World
<1>22. ASSUME UNCHANGED vars PROVE TypeInv'
  BY <1>22 DEF vars, jobVars
<1> HIDE DEF TypeInv
<1> QED
  BY <1>1, <1>2, <1>3, <1>4, <1>5, <1>6, <1>7, <1>8, <1>9, <1>10, <1>11, <1>12, <1>13,
     <1>14, <1>15, <1>16, <1>17, <1>18, <1>19, <1>20, <1>21, <1>22
     DEF Next, PrepareStep, PushBegin, PushStep

\* The module's type invariant holds in every behaviour of the two use cases.
THEOREM TypeCorrect == Spec => []TypeOK
<1>1. TypeInv => TypeOK
  BY DEF TypeInv
<1> QED
  BY InitTypeInv, NextTypeInv, <1>1, PTL DEF Spec

----------------------------------------------------------------------------
(***************************************************************************)
(* The safety part of the inductive invariant.  A plan id is used once, so *)
(* an expired plan never returns; a cached plan differs from the plan that *)
(* was added in its statuses only; a push job works on the plan it read.   *)
(***************************************************************************)
Checked == {"target", "create", "record", "fetch", "commit", "info", "save", "done"}

\* A cached plan is the one its preparer stored, up to status and outcomes; it
\* has no outcome before it is EXECUTED.
PlanInv ==
  \A p \in Preparers :
    /\ prepared[p] # NoEntry => pc[p] = "done"
    /\ plans[p] # NoEntry =>
         /\ prepared[p] # NoEntry
         /\ plans[p].draft = prepared[p].draft
         /\ plans[p].match = prepared[p].match
         /\ plans[p].fp = prepared[p].fp
         /\ plans[p].status = "PENDING" => \A r \in Rules : plans[p].push[r] = "PENDING"

\* A push works on its plan as stored, on all its NEW rules, and has marked it
\* EXECUTED before it creates anything.
PushInv ==
  \A j \in Pushers :
    /\ pc[j] = "idle" => plan[j] = NoPlan
    /\ plan[j] = NoPlan => created[j] = {}
    /\ plan[j] # NoPlan =>
         /\ prepared[plan[j]] # NoEntry
         /\ drafts[j] = prepared[plan[j]].draft
         /\ base[j] = prepared[plan[j]].fp
         /\ todo[j] = {r \in Rules : prepared[plan[j]].match[r] = "NEW"}
         /\ created[j] \subseteq todo[j]
    /\ pc[j] \in {"catalog", "check"} => created[j] = {}
    /\ (pc[j] \in Checked \/ created[j] # {}) =>
         plans[plan[j]] = NoEntry \/ plans[plan[j]].status = "EXECUTED"

\* A success is recorded only for a created policy, and past RecordOutcomes no
\* rule of the push is PENDING.
OutcomeInv ==
  /\ \A j \in Pushers : \A r \in Rules : result[j][r] = "ok" => r \in created[j]
  /\ \A p \in Preparers : plans[p] # NoEntry =>
       \A r \in Rules : plans[p].push[r] = "SUCCEEDED" =>
         \E k \in Pushers : plan[k] = p /\ r \in created[k]
  /\ \A j \in Pushers : pc[j] \in {"fetch", "commit", "info"} =>
       \/ plans[plan[j]] = NoEntry
       \/ \A r \in todo[j] : plans[plan[j]].push[r] # "PENDING"

\* What the collected rows say is so, and the commit covers what was created.
RowInv ==
  \A j \in Pushers :
    /\ pc[j] \in {"save", "done"} =>
         \A r \in Rules :
           /\ rows[j][r] = "PUSHED" => \E k \in Pushers : plan[k] = plan[j] /\ r \in created[k]
           /\ r \in todo[j] => rows[j][r] \in {"NONE", "PUSHED", "FAILED"}
    /\ pc[j] \in {"info", "save", "done"} =>
         \E c \in commits : c.by = j /\ \A r \in created[j] : <<j, r>> \in c.state

\* A report is the rows of a push that is done.
ReportInv ==
  \A rep \in reports : /\ pc[rep.by] = "done"
                       /\ rep.plan = plan[rep.by]
                       /\ rep.rows = rows[rep.by]

SafetyInv == PlanInv /\ PushInv /\ OutcomeInv /\ RowInv /\ ReportInv

\* Initially nothing is planned, pushed or reported.
LEMMA InitSafetyInv == Init => SafetyInv
<1> SUFFICES ASSUME Init PROVE SafetyInv
  OBVIOUS
<1> USE ExecuteAssumption DEF Init, Jobs
<1>1. PlanInv
  BY DEF PlanInv
<1>2. PushInv
  BY DEF PushInv, Checked
<1>3. OutcomeInv
  BY DEF OutcomeInv
<1>4. RowInv
  BY DEF RowInv
<1>5. ReportInv
  BY DEF ReportInv
<1> QED
  BY <1>1, <1>2, <1>3, <1>4, <1>5 DEF SafetyInv

\* Every step of a job, of a fault or of the world keeps the safety invariant.
LEMMA NextSafetyInv == TypeInv /\ SafetyInv /\ [Next]_vars => SafetyInv'
<1> SUFFICES ASSUME TypeInv, SafetyInv, [Next]_vars PROVE SafetyInv'
  OBVIOUS
<1> USE ExecuteAssumption, NoEntryAssumption
    DEF TypeInv, TypeOK, Control, SafetyInv, Goto, envVars, cacheVars, Jobs
<1>1. ASSUME NEW j \in Jobs, ReadPart(j) PROVE SafetyInv'
  <2>1. PlanInv'
    BY <1>1 DEF ReadPart, PlanInv
  <2>2. PushInv'
    BY <1>1 DEF ReadPart, PushInv, Checked
  <2>3. OutcomeInv'
    BY <1>1 DEF ReadPart, OutcomeInv
  <2>4. RowInv'
    BY <1>1 DEF ReadPart, RowInv
  <2>5. ReportInv'
    BY <1>1 DEF ReadPart, ReportInv
  <2> QED BY <2>1, <2>2, <2>3, <2>4, <2>5
<1>2. ASSUME NEW j \in Preparers, PrepareStart(j) PROVE SafetyInv'
  <2>1. PlanInv'
    BY <1>2 DEF PrepareStart, PlanInv
  <2>2. PushInv'
    BY <1>2 DEF PrepareStart, PushInv, Checked
  <2>3. OutcomeInv'
    BY <1>2 DEF PrepareStart, OutcomeInv
  <2>4. RowInv'
    BY <1>2 DEF PrepareStart, RowInv
  <2>5. ReportInv'
    BY <1>2 DEF PrepareStart, ReportInv
  <2> QED BY <2>1, <2>2, <2>3, <2>4, <2>5
<1>3. ASSUME NEW j \in Preparers, PrepareReject(j) PROVE SafetyInv'
  <2>1. PlanInv'
    BY <1>3 DEF PrepareReject, PlanInv
  <2>2. PushInv'
    BY <1>3 DEF PrepareReject, PushInv, Checked
  <2>3. OutcomeInv'
    BY <1>3 DEF PrepareReject, OutcomeInv
  <2>4. RowInv'
    BY <1>3 DEF PrepareReject, RowInv
  <2>5. ReportInv'
    BY <1>3 DEF PrepareReject, ReportInv
  <2> QED BY <2>1, <2>2, <2>3, <2>4, <2>5
<1>4. ASSUME NEW j \in Preparers, PrepareCheck(j) PROVE SafetyInv'
  <2>1. PlanInv'
    BY <1>4 DEF PrepareCheck, PlanInv
  <2>2. PushInv'
    BY <1>4 DEF PrepareCheck, PushInv, Checked
  <2>3. OutcomeInv'
    BY <1>4 DEF PrepareCheck, OutcomeInv
  <2>4. RowInv'
    BY <1>4 DEF PrepareCheck, RowInv
  <2>5. ReportInv'
    BY <1>4 DEF PrepareCheck, ReportInv
  <2> QED BY <2>1, <2>2, <2>3, <2>4, <2>5
<1>5. ASSUME NEW j \in Preparers, ReadPolicies(j) PROVE SafetyInv'
  <2>1. PlanInv'
    BY <1>5 DEF ReadPolicies, PlanInv
  <2>2. PushInv'
    BY <1>5 DEF ReadPolicies, PushInv, Checked
  <2>3. OutcomeInv'
    BY <1>5 DEF ReadPolicies, OutcomeInv
  <2>4. RowInv'
    BY <1>5 DEF ReadPolicies, RowInv
  <2>5. ReportInv'
    BY <1>5 DEF ReadPolicies, ReportInv
  <2> QED BY <2>1, <2>2, <2>3, <2>4, <2>5
<1>6. ASSUME NEW j \in Preparers, StorePlan(j) PROVE SafetyInv'
  <2>1. /\ new_plan(j) \in PlanEntry
        /\ new_plan(j).status = "PENDING"
        /\ \A r \in Rules : new_plan(j).push[r] = "PENDING"
    BY <1>6, CompareType DEF StorePlan, new_plan, PlanEntry, PushStatus
  <2>2. prepared[j] = NoEntry /\ \A k \in Pushers : plan[k] # j
    BY <1>6 DEF StorePlan, PlanInv, PushInv
  <2>3. PlanInv'
    BY <1>6, <2>1, <2>2 DEF StorePlan, PlanInv
  <2>4. PushInv'
    BY <1>6, <2>1, <2>2 DEF StorePlan, PushInv, Checked
  <2>5. OutcomeInv'
    BY <1>6, <2>1, <2>2 DEF StorePlan, OutcomeInv
  <2>6. RowInv'
    BY <1>6 DEF StorePlan, RowInv
  <2>7. ReportInv'
    BY <1>6 DEF StorePlan, ReportInv
  <2> QED BY <2>3, <2>4, <2>5, <2>6, <2>7
<1>7. ASSUME NEW j \in Pushers, NEW p \in Preparers, PushStart(j, p) PROVE SafetyInv'
  <2>1. /\ plan[j] = NoPlan /\ created[j] = {}
        /\ plans[p] \in PlanEntry /\ prepared[p] # NoEntry
        /\ plans[p].draft = prepared[p].draft /\ plans[p].fp = prepared[p].fp
    BY <1>7 DEF PushStart, may_push, PlanInv, PushInv
  <2>2. pending_new_rules(plans[p]) = {r \in Rules : prepared[p].match[r] = "NEW"}
    BY <1>7 DEF PushStart, may_push, PlanInv, pending_new_rules
  <2>3. PlanInv'
    BY <1>7 DEF PushStart, PlanInv
  <2>4. PushInv'
    BY <1>7, <2>1, <2>2 DEF PushStart, PushInv, Checked
  <2>5. OutcomeInv'
    <3>1. ASSUME NEW q \in Preparers, NEW k \in Pushers, NEW r \in created[k], plan[k] = q
          PROVE  plan'[k] = q /\ r \in created'[k]
      BY <1>7, <2>1, <3>1 DEF PushStart
    <3> QED BY <1>7, <3>1 DEF PushStart, OutcomeInv
  <2>6. RowInv'
    <3>1. ASSUME NEW k \in Pushers, NEW r \in created[k]
          PROVE  plan'[k] = plan[k] /\ r \in created'[k]
      BY <1>7, <2>1 DEF PushStart
    <3> QED BY <1>7, <3>1 DEF PushStart, RowInv
  <2>7. ReportInv'
    BY <1>7 DEF PushStart, ReportInv
  <2> QED BY <2>3, <2>4, <2>5, <2>6, <2>7
<1>8. ASSUME NEW j \in Pushers, NEW p \in Preparers, PushReject(j, p) PROVE SafetyInv'
  <2>1. PlanInv'
    BY <1>8 DEF PushReject, PlanInv
  <2>2. PushInv'
    BY <1>8 DEF PushReject, PushInv, Checked
  <2>3. OutcomeInv'
    BY <1>8 DEF PushReject, OutcomeInv
  <2>4. RowInv'
    BY <1>8 DEF PushReject, RowInv
  <2>5. ReportInv'
    BY <1>8 DEF PushReject, ReportInv
  <2> QED BY <2>1, <2>2, <2>3, <2>4, <2>5
<1>9. ASSUME NEW j \in Pushers, PushCheck(j) PROVE SafetyInv'
  <2> DEFINE e == mark_push_executed(plans[plan[j]], base[j])
  <2>1. CASE Goto(j, "failed") /\ UNCHANGED plans
    BY <1>9, <2>1 DEF PushCheck, PlanInv, PushInv, OutcomeInv, RowInv, ReportInv, Checked
  <2>2. CASE /\ plans[plan[j]] # NoEntry
             /\ plans' = [plans EXCEPT ![plan[j]] = e]
             /\ Goto(j, "target")
    <3>1. plan[j] \in Preparers /\ plans[plan[j]] \in PlanEntry /\ base[j] \in Fingerprints
      BY <1>9, <2>2 DEF PushCheck
    <3>2. /\ e \in PlanEntry
          /\ e.status = "EXECUTED" /\ e.fp = base[j]
          /\ e.draft = plans[plan[j]].draft
          /\ e.match = plans[plan[j]].match
          /\ e.push = plans[plan[j]].push
      BY <3>1, MarkType
    <3>3. base[j] = prepared[plan[j]].fp
      BY <3>1 DEF PushInv
    <3> HIDE DEF e
    <3>4. PlanInv'
      BY <1>9, <2>2, <3>1, <3>2, <3>3 DEF PushCheck, PlanInv
    <3>5. PushInv'
      BY <1>9, <2>2, <3>1, <3>2 DEF PushCheck, PushInv, Checked
    <3>6. OutcomeInv'
      BY <1>9, <2>2, <3>1, <3>2 DEF PushCheck, OutcomeInv
    <3>7. RowInv'
      BY <1>9, <2>2 DEF PushCheck, RowInv
    <3>8. ReportInv'
      BY <1>9, <2>2 DEF PushCheck, ReportInv
    <3> QED BY <3>4, <3>5, <3>6, <3>7, <3>8
  <2> QED BY <1>9, <2>1, <2>2 DEF PushCheck
<1>10. ASSUME NEW j \in Pushers, FindTarget(j) PROVE SafetyInv'
  <2>1. PlanInv'
    BY <1>10 DEF FindTarget, PlanInv
  <2>2. PushInv'
    BY <1>10 DEF FindTarget, PushInv, Checked
  <2>3. OutcomeInv'
    BY <1>10 DEF FindTarget, OutcomeInv
  <2>4. RowInv'
    BY <1>10 DEF FindTarget, RowInv
  <2>5. ReportInv'
    BY <1>10 DEF FindTarget, ReportInv
  <2> QED BY <2>1, <2>2, <2>3, <2>4, <2>5
<1>11. ASSUME NEW j \in Pushers, NEW r \in Rules, NEW made \in BOOLEAN, NEW answered \in BOOLEAN, CreatePolicy(j, r, made, answered) PROVE SafetyInv'
  <2>1. PlanInv'
    BY <1>11 DEF CreatePolicy, PlanInv
  <2>2. PushInv'
    BY <1>11 DEF CreatePolicy, PushInv, Checked, is_next, unsent
  <2>3. OutcomeInv'
    BY <1>11 DEF CreatePolicy, OutcomeInv
  <2>4. RowInv'
    BY <1>11 DEF CreatePolicy, RowInv
  <2>5. ReportInv'
    BY <1>11 DEF CreatePolicy, ReportInv
  <2> QED BY <2>1, <2>2, <2>3, <2>4, <2>5
<1>12. ASSUME NEW j \in Pushers, RecordOutcomes(j) PROVE SafetyInv'
  <2> DEFINE e == update_plan_rules(plans[plan[j]], todo[j], result[j])
  <2>1. CASE Goto(j, "failed") /\ UNCHANGED plans
    BY <1>12, <2>1 DEF RecordOutcomes, PlanInv, PushInv, OutcomeInv, RowInv, ReportInv,
                       Checked
  <2>2. CASE /\ plans[plan[j]] # NoEntry
             /\ plans' = [plans EXCEPT ![plan[j]] = e]
             /\ Goto(j, "fetch") \/ Goto(j, "commit")
    <3>1. plan[j] \in Preparers /\ plans[plan[j]] \in PlanEntry
      BY <1>12, <2>2 DEF RecordOutcomes
    <3>2. /\ e \in PlanEntry
          /\ e.status = plans[plan[j]].status /\ e.fp = plans[plan[j]].fp
          /\ e.draft = plans[plan[j]].draft
          /\ e.match = plans[plan[j]].match
          /\ \A r \in Rules : e.push[r] = IF r \in todo[j] THEN recorded(result[j][r])
                                                        ELSE plans[plan[j]].push[r]
      BY <3>1, UpdateType
    <3>3. e.status = "EXECUTED"
      BY <1>12, <2>2, <3>2 DEF RecordOutcomes, PushInv, Checked
    <3> HIDE DEF e
    <3>4. PlanInv'
      BY <1>12, <2>2, <3>1, <3>2, <3>3 DEF RecordOutcomes, PlanInv
    <3>5. PushInv'
      BY <1>12, <2>2, <3>1, <3>2, <3>3 DEF RecordOutcomes, PushInv, Checked
    <3>6. OutcomeInv'
      <4>1. ASSUME NEW r \in Rules, e.push[r] = "SUCCEEDED"
            PROVE  \E k \in Pushers : plan[k] = plan[j] /\ r \in created[k]
        <5>1. CASE r \in todo[j]
          <6>1. recorded(result[j][r]) = "SUCCEEDED"
            BY <3>2, <4>1, <5>1
          <6>2. r \in created[j]
            BY <6>1 DEF OutcomeInv, recorded
          <6> QED BY <6>2
        <5>2. CASE r \notin todo[j]
          <6>1. plans[plan[j]].push[r] = "SUCCEEDED"
            BY <3>2, <4>1, <5>2
          <6> QED BY <2>2, <3>1, <6>1 DEF OutcomeInv
        <5> QED BY <5>1, <5>2
      <4>2. \A k \in Pushers : \A r \in todo[k] :
              (plan[k] = plan[j] /\ (k = j \/ plans[plan[j]].push[r] # "PENDING"))
                => e.push[r] # "PENDING"
        BY <3>1, <3>2 DEF PushInv, recorded
      <4>3. /\ plans' = [plans EXCEPT ![plan[j]] = e]
            /\ UNCHANGED <<plan, created, result, todo>>
            /\ \A k \in Pushers : k # j => pc'[k] = pc[k]
        BY <1>12, <2>2 DEF RecordOutcomes
      <4>4. \A k \in Pushers : \A r \in Rules : result'[k][r] = "ok" => r \in created'[k]
        BY <4>3 DEF OutcomeInv
      <4>5. \A p \in Preparers : plans'[p] # NoEntry =>
              \A r \in Rules : plans'[p].push[r] = "SUCCEEDED" =>
                \E k \in Pushers : plan'[k] = p /\ r \in created'[k]
        <5> SUFFICES ASSUME NEW p \in Preparers, plans'[p] # NoEntry, NEW r \in Rules,
                            plans'[p].push[r] = "SUCCEEDED"
                     PROVE  \E k \in Pushers : plan[k] = p /\ r \in created[k]
          BY <4>3
        <5>1. CASE p = plan[j]
          BY <3>1, <4>1, <4>3, <5>1
        <5>2. CASE p # plan[j]
          BY <4>3, <5>2 DEF OutcomeInv
        <5> QED BY <5>1, <5>2
      <4>6. ASSUME NEW k \in Pushers, pc'[k] \in {"fetch", "commit", "info"}
            PROVE  \/ plans'[plan'[k]] = NoEntry
                   \/ \A r \in todo'[k] : plans'[plan'[k]].push[r] # "PENDING"
        <5>1. CASE k = j
          BY <3>1, <4>2, <4>3, <5>1
        <5>2. CASE k # j
          <6>1. \/ plans[plan[k]] = NoEntry
                \/ \A r \in todo[k] : plans[plan[k]].push[r] # "PENDING"
            BY <4>3, <4>6, <5>2 DEF OutcomeInv
          <6>2. CASE plan[k] = plan[j]
            <7>1. \A r \in todo[k] : e.push[r] # "PENDING"
              BY <2>2, <4>2, <6>1, <6>2
            <7>2. plans'[plan'[k]] = e /\ todo'[k] = todo[k]
              BY <3>1, <4>3, <6>2
            <7> QED BY <7>1, <7>2
          <6>3. CASE plan[k] # plan[j]
            BY <4>3, <6>1, <6>3
          <6> QED BY <6>2, <6>3
        <5> QED BY <5>1, <5>2
      <4> QED BY <4>4, <4>5, <4>6 DEF OutcomeInv
    <3>7. RowInv'
      <4>1. UNCHANGED <<rows, todo, plan, created, commits>>
        BY <1>12 DEF RecordOutcomes, envVars
      <4>2. \A k \in Pushers : pc'[k] \in {"info", "save", "done"} => pc'[k] = pc[k]
        BY <1>12, <2>2 DEF RecordOutcomes
      <4> QED BY <4>1, <4>2 DEF RowInv
    <3>8. ReportInv'
      BY <1>12, <2>2 DEF RecordOutcomes, ReportInv
    <3> QED BY <3>4, <3>5, <3>6, <3>7, <3>8
  <2> QED BY <1>12, <2>1, <2>2 DEF RecordOutcomes
<1>13. ASSUME NEW j \in Pushers, FetchPushed(j) PROVE SafetyInv'
  <2>1. PlanInv'
    BY <1>13 DEF FetchPushed, PlanInv
  <2>2. PushInv'
    BY <1>13 DEF FetchPushed, PushInv, Checked
  <2>3. OutcomeInv'
    BY <1>13 DEF FetchPushed, OutcomeInv
  <2>4. RowInv'
    BY <1>13 DEF FetchPushed, RowInv
  <2>5. ReportInv'
    BY <1>13 DEF FetchPushed, ReportInv
  <2> QED BY <2>1, <2>2, <2>3, <2>4, <2>5
<1>14. ASSUME NEW j \in Pushers, NEW answered \in BOOLEAN, Commit(j, answered) PROVE SafetyInv'
  <2>1. PlanInv'
    BY <1>14 DEF Commit, PlanInv
  <2>2. PushInv'
    BY <1>14 DEF Commit, PushInv, Checked
  <2>3. OutcomeInv'
    BY <1>14 DEF Commit, OutcomeInv
  <2>4. RowInv'
    <3> DEFINE c == [by |-> j, state |-> Policies]
    <3>1. c \in commits' /\ c.by = j /\ \A r \in created[j] : <<j, r>> \in c.state
      BY <1>14 DEF Commit, Policies
    <3> HIDE DEF c
    <3> QED BY <1>14, <3>1 DEF Commit, RowInv
  <2>5. ReportInv'
    BY <1>14 DEF Commit, ReportInv
  <2> QED BY <2>1, <2>2, <2>3, <2>4, <2>5
<1>15. ASSUME NEW j \in Pushers, CollectRows(j) PROVE SafetyInv'
  <2>1. PlanInv'
    BY <1>15 DEF CollectRows, PlanInv
  <2>2. PushInv'
    BY <1>15 DEF CollectRows, PushInv, Checked
  <2>3. OutcomeInv'
    BY <1>15 DEF CollectRows, OutcomeInv
  <2>4. RowInv'
    <3> DEFINE w == report_rows(plans[plan[j]])
    <3>1. plan[j] \in Preparers
      BY <1>15 DEF CollectRows
    <3>2. \A r \in Rules : w[r] = "PUSHED" =>
            \E k \in Pushers : plan[k] = plan[j] /\ r \in created[k]
      BY <3>1 DEF report_rows, report_outcome, OutcomeInv
    <3>3. \A r \in todo[j] : w[r] \in {"NONE", "PUSHED", "FAILED"}
      <4> SUFFICES ASSUME NEW r \in todo[j], plans[plan[j]] # NoEntry
                   PROVE  w[r] \in {"PUSHED", "FAILED"}
        BY <3>1 DEF report_rows
      <4>1. plans[plan[j]] \in PlanEntry /\ r \in Rules
        BY <3>1
      <4>2. plans[plan[j]].match[r] = "NEW"
        <5>1. plan[j] # NoPlan
          BY <3>1
        <5>2. prepared[plan[j]].match[r] = "NEW"
          BY <5>1 DEF PushInv
        <5>3. plans[plan[j]].match = prepared[plan[j]].match
          BY <3>1 DEF PlanInv
        <5> QED BY <5>2, <5>3
      <4>3. plans[plan[j]].push[r] \in {"SUCCEEDED", "FAILED"}
        BY <1>15, <3>1, <4>1 DEF CollectRows, OutcomeInv, PlanEntry, PushStatus
      <4> QED BY <4>1, <4>2, <4>3 DEF report_rows, report_outcome
    <3> HIDE DEF w
    <3>4. w = rows'[j]
      BY <1>15 DEF CollectRows, w
    <3> QED BY <1>15, <3>1, <3>2, <3>3, <3>4 DEF CollectRows, RowInv
  <2>5. ReportInv'
    BY <1>15 DEF CollectRows, ReportInv
  <2> QED BY <2>1, <2>2, <2>3, <2>4, <2>5
<1>16. ASSUME NEW j \in Pushers, SaveReport(j) PROVE SafetyInv'
  <2>1. PlanInv'
    BY <1>16 DEF SaveReport, PlanInv
  <2>2. PushInv'
    BY <1>16 DEF SaveReport, PushInv, Checked
  <2>3. OutcomeInv'
    BY <1>16 DEF SaveReport, OutcomeInv
  <2>4. RowInv'
    BY <1>16 DEF SaveReport, RowInv
  <2>5. ReportInv'
    BY <1>16 DEF SaveReport, ReportInv
  <2> QED BY <2>1, <2>2, <2>3, <2>4, <2>5
<1>17. ASSUME NEW j \in Jobs, CallFails(j) PROVE SafetyInv'
  <2>1. PlanInv'
    BY <1>17 DEF CallFails, PlanInv
  <2>2. PushInv'
    BY <1>17 DEF CallFails, PushInv, Checked
  <2>3. OutcomeInv'
    BY <1>17 DEF CallFails, OutcomeInv
  <2>4. RowInv'
    BY <1>17 DEF CallFails, RowInv
  <2>5. ReportInv'
    BY <1>17 DEF CallFails, ReportInv
  <2> QED BY <2>1, <2>2, <2>3, <2>4, <2>5
<1>18. ASSUME NEW p \in Preparers, LosePlan(p) PROVE SafetyInv'
  <2>1. PlanInv'
    BY <1>18 DEF LosePlan, jobVars, PlanInv
  <2>2. PushInv'
    BY <1>18 DEF LosePlan, jobVars, PushInv, Checked
  <2>3. OutcomeInv'
    BY <1>18 DEF LosePlan, jobVars, OutcomeInv
  <2>4. RowInv'
    BY <1>18 DEF LosePlan, jobVars, RowInv
  <2>5. ReportInv'
    BY <1>18 DEF LosePlan, jobVars, ReportInv
  <2> QED BY <2>1, <2>2, <2>3, <2>4, <2>5
<1>19. ASSUME LoseScope PROVE SafetyInv'
  <2>1. PlanInv'
    BY <1>19 DEF LoseScope, jobVars, PlanInv
  <2>2. PushInv'
    BY <1>19 DEF LoseScope, jobVars, PushInv, Checked
  <2>3. OutcomeInv'
    BY <1>19 DEF LoseScope, jobVars, OutcomeInv
  <2>4. RowInv'
    BY <1>19 DEF LoseScope, jobVars, RowInv
  <2>5. ReportInv'
    BY <1>19 DEF LoseScope, jobVars, ReportInv
  <2> QED BY <2>1, <2>2, <2>3, <2>4, <2>5
<1>20. ASSUME Crash PROVE SafetyInv'
  <2>1. PlanInv'
    BY <1>20 DEF Crash, PlanInv, Ended
  <2>2. PushInv'
    BY <1>20 DEF Crash, PushInv, Checked
  <2>3. OutcomeInv'
    BY <1>20 DEF Crash, OutcomeInv
  <2>4. RowInv'
    BY <1>20 DEF Crash, RowInv
  <2>5. ReportInv'
    BY <1>20 DEF Crash, ReportInv, Ended
  <2> QED BY <2>1, <2>2, <2>3, <2>4, <2>5
<1>21. ASSUME World PROVE SafetyInv'
  <2>1. PlanInv'
    BY <1>21 DEF World, EditCatalog, AddForeignPolicy, Reselect, RefreshBaseline, jobVars, PlanInv
  <2>2. PushInv'
    BY <1>21 DEF World, EditCatalog, AddForeignPolicy, Reselect, RefreshBaseline, jobVars, PushInv, Checked
  <2>3. OutcomeInv'
    BY <1>21 DEF World, EditCatalog, AddForeignPolicy, Reselect, RefreshBaseline, jobVars, OutcomeInv
  <2>4. RowInv'
    BY <1>21 DEF World, EditCatalog, AddForeignPolicy, Reselect, RefreshBaseline, jobVars, RowInv
  <2>5. ReportInv'
    BY <1>21 DEF World, EditCatalog, AddForeignPolicy, Reselect, RefreshBaseline, jobVars, ReportInv
  <2> QED BY <2>1, <2>2, <2>3, <2>4, <2>5
<1>22. ASSUME UNCHANGED vars PROVE SafetyInv'
  BY <1>22 DEF vars, jobVars, PlanInv, PushInv, OutcomeInv, RowInv, ReportInv
<1> HIDE DEF SafetyInv
<1> QED
  BY <1>1, <1>2, <1>3, <1>4, <1>5, <1>6, <1>7, <1>8, <1>9, <1>10, <1>11, <1>12, <1>13, <1>14, <1>15, <1>16,
      <1>17, <1>18, <1>19, <1>20, <1>21, <1>22 DEF Next, PrepareStep, PushBegin, PushStep

----------------------------------------------------------------------------
(***************************************************************************)
(* The safety properties                                                   *)
(***************************************************************************)

\* The safety part of the invariant holds throughout every behaviour.
THEOREM SafetyCorrect == Spec => [](TypeInv /\ SafetyInv)
<1>1. Init => TypeInv /\ SafetyInv
  BY InitTypeInv, InitSafetyInv
<1>2. TypeInv /\ SafetyInv /\ [Next]_vars => (TypeInv /\ SafetyInv)'
  BY NextTypeInv, NextSafetyInv
<1> QED BY <1>1, <1>2, PTL DEF Spec

\* Policies are created only for the NEW rules of the plan and with its values.
THEOREM CreatedAsPlannedHolds == Spec => []CreatedAsPlanned
<1>1. TypeInv /\ SafetyInv => CreatedAsPlanned
  <2> SUFFICES ASSUME TypeInv, SafetyInv, NEW j \in Pushers, NEW r \in created[j]
               PROVE  /\ plan[j] # NoPlan
                      /\ prepared[plan[j]] # NoEntry
                      /\ prepared[plan[j]].match[r] = "NEW"
                      /\ drafts[j][r] = prepared[plan[j]].draft[r]
    BY DEF CreatedAsPlanned
  <2>1. plan[j] # NoPlan
    BY DEF SafetyInv, PushInv
  <2> QED BY <2>1 DEF SafetyInv, PushInv
<1> QED BY <1>1, SafetyCorrect, PTL

\* A cached plan for which a policy was created is EXECUTED.
THEOREM ExecutedBeforeCreatedHolds == Spec => []ExecutedBeforeCreated
<1>1. SafetyInv => ExecutedBeforeCreated
  BY DEF SafetyInv, PushInv, ExecutedBeforeCreated
<1> QED BY <1>1, SafetyCorrect, PTL

\* No report says that the outcome of a NEW rule was not recorded.
THEOREM OutcomesRecordedHolds == Spec => []OutcomesRecorded
<1>1. TypeInv /\ SafetyInv => OutcomesRecorded
  <2> SUFFICES ASSUME TypeInv, SafetyInv, NEW rep \in reports, NEW r \in Rules,
                      prepared[rep.plan].match[r] = "NEW"
               PROVE  rep.rows[r] \in {"NONE", "PUSHED", "FAILED"}
    BY DEF OutcomesRecorded
  <2>1. rep.by \in Pushers /\ rep.plan \in Preparers
    BY DEF TypeInv, TypeOK
  <2>2. pc[rep.by] = "done" /\ rep.plan = plan[rep.by] /\ rep.rows = rows[rep.by]
    BY DEF SafetyInv, ReportInv
  <2>3. r \in todo[rep.by]
    BY <2>1, <2>2, ExecuteAssumption DEF SafetyInv, PushInv
  <2> QED BY <2>1, <2>2, <2>3 DEF SafetyInv, RowInv
<1> QED BY <1>1, SafetyCorrect, PTL

\* Every rule reported as PUSHED has a policy created by a push of that plan.
THEOREM PushedRowsExistHolds == Spec => []PushedRowsExist
<1>1. TypeInv /\ SafetyInv => PushedRowsExist
  <2> SUFFICES ASSUME TypeInv, SafetyInv, NEW rep \in reports, NEW r \in Rules,
                      rep.rows[r] = "PUSHED"
               PROVE  \E k \in Pushers : plan[k] = rep.plan /\ r \in created[k]
    BY DEF PushedRowsExist
  <2>1. rep.by \in Pushers
    BY DEF TypeInv, TypeOK
  <2>2. pc[rep.by] = "done" /\ rep.plan = plan[rep.by] /\ rep.rows = rows[rep.by]
    BY DEF SafetyInv, ReportInv
  <2> QED BY <2>1, <2>2 DEF SafetyInv, RowInv
<1> QED BY <1>1, SafetyCorrect, PTL

\* With a single effective push, every PUSHED row is in the report's commit.
THEOREM PushedRowsCommittedHolds == Spec => []PushedRowsCommitted
<1>1. TypeInv /\ SafetyInv => PushedRowsCommitted
  <2> SUFFICES ASSUME TypeInv, SafetyInv, NEW rep \in reports, NEW r \in Rules,
                      \A k \in Pushers \ {rep.by} : plan[k] = rep.plan => created[k] = {},
                      rep.rows[r] = "PUSHED"
               PROVE  \E c \in commits : c.by = rep.by /\ <<rep.by, r>> \in c.state
    BY DEF PushedRowsCommitted
  <2>1. rep.by \in Pushers
    BY DEF TypeInv, TypeOK
  <2>2. pc[rep.by] = "done" /\ rep.plan = plan[rep.by] /\ rep.rows = rows[rep.by]
    BY DEF SafetyInv, ReportInv
  <2>3. PICK k \in Pushers : plan[k] = rep.plan /\ r \in created[k]
    BY <2>1, <2>2 DEF SafetyInv, RowInv
  <2>4. r \in created[rep.by]
    BY <2>3
  <2>5. PICK c \in commits : c.by = rep.by /\ \A q \in created[rep.by] : <<rep.by, q>> \in c.state
    BY <2>1, <2>2 DEF SafetyInv, RowInv
  <2> QED BY <2>4, <2>5
<1> QED BY <1>1, SafetyCorrect, PTL

\* Both together: what a report calls PUSHED is on the controller, and committed.
THEOREM PushedRowsRealHolds == Spec => []PushedRowsReal
<1>1. PushedRowsExist /\ PushedRowsCommitted => PushedRowsReal
  BY DEF PushedRowsReal
<1> QED BY <1>1, PushedRowsExistHolds, PushedRowsCommittedHolds, PTL

----------------------------------------------------------------------------
(***************************************************************************)
(* The action properties                                                   *)
(***************************************************************************)

\* A push never starts on a cached plan for which a policy already exists.
THEOREM NoLatePushHolds == Spec => NoLatePush
<1> DEFINE A == \A j \in Pushers :
                  (pc[j] = "idle" /\ pc'[j] = "catalog")
                    => \A k \in Pushers : plan[k] = plan'[j] => created[k] = {}
<1>1. TypeInv /\ SafetyInv /\ [Next]_vars => [A]_vars
  <2> SUFFICES ASSUME TypeInv, SafetyInv, Next, NEW j \in Pushers,
                      pc[j] = "idle", pc'[j] = "catalog",
                      NEW k \in Pushers, plan[k] = plan'[j]
               PROVE  created[k] = {}
    OBVIOUS
  <2> USE ExecuteAssumption DEF TypeInv, TypeOK, Jobs, Goto
  <2>1. ASSUME NEW i \in Preparers, PrepareStep(i) PROVE pc'[j] = pc[j]
    BY <2>1 DEF PrepareStep, PrepareStart, PrepareReject, ReadPart, PrepareCheck, ReadPolicies,
                StorePlan
  <2>2. ASSUME NEW i \in Pushers, PushStep(i) PROVE pc'[j] = pc[j]
    BY <2>2 DEF PushStep, ReadPart, PushCheck, FindTarget, CreatePolicy, RecordOutcomes,
                FetchPushed, Commit, CollectRows, SaveReport
  <2>3. ASSUME NEW i \in Pushers, NEW p \in Preparers, PushReject(i, p) PROVE pc'[j] # "catalog"
    BY <2>3 DEF PushReject
  <2>4. ASSUME NEW i \in Jobs, CallFails(i) PROVE pc'[j] # "catalog"
    BY <2>4 DEF CallFails
  <2>5. ASSUME World \/ LoseScope \/ Crash \/ (\E p \in Preparers : LosePlan(p))
        PROVE  pc'[j] = pc[j]
    BY <2>5 DEF World, EditCatalog, AddForeignPolicy, Reselect, RefreshBaseline, LoseScope, Crash,
                LosePlan, jobVars, Ended
  <2>6. PICK i \in Pushers, p \in Preparers : PushStart(i, p)
    BY <2>1, <2>2, <2>3, <2>4, <2>5 DEF Next, PushBegin
  <2>7. plan'[j] = p /\ plans[p] # NoEntry /\ plans[p].status = "PENDING"
    BY <2>6 DEF PushStart, may_push
  <2> QED BY <2>7 DEF SafetyInv, PushInv
<1> QED BY <1>1, SafetyCorrect, PTL DEF Spec, NoLatePush

\* A cached plan never goes back, whatever stale copies are written over it.
THEOREM PlansOnlyAdvanceHolds == Spec => PlansOnlyAdvance
<1> DEFINE Fwd(p) ==
             (plans[p] # NoEntry /\ plans'[p] # NoEntry) =>
               /\ plans[p].status = "EXECUTED" => plans'[p].status = "EXECUTED"
               /\ \A r \in Rules : plans[p].push[r] # "PENDING" => plans'[p].push[r] # "PENDING"
               /\ plans'[p].draft = plans[p].draft
               /\ plans'[p].match = plans[p].match
               /\ plans'[p].fp = plans[p].fp
           A == \A p \in Preparers : Fwd(p)
<1>1. TypeInv /\ SafetyInv /\ [Next]_vars => [A]_vars
  <2> SUFFICES ASSUME TypeInv, SafetyInv, Next, NEW p \in Preparers PROVE Fwd(p)
    OBVIOUS
  <2> USE ExecuteAssumption DEF TypeInv, TypeOK, Control, Jobs, cacheVars
  <2>1. CASE plans'[p] = plans[p]
    BY <2>1
  <2>2. ASSUME NEW j \in Preparers, StorePlan(j) PROVE Fwd(p)
    BY <2>2 DEF StorePlan, SafetyInv, PlanInv
  <2>3. ASSUME NEW j \in Pushers, PushCheck(j), plans[p] # NoEntry PROVE Fwd(p)
    <3>1. CASE p # plan[j] \/ UNCHANGED plans
      BY <2>3, <3>1 DEF PushCheck
    <3>2. CASE p = plan[j] /\ plans' = [plans EXCEPT ![p] = mark_push_executed(@, base[j])]
      <4>1. base[j] = plans[p].fp
        <5>1. plan[j] # NoPlan
          BY <3>2
        <5>2. base[j] = prepared[plan[j]].fp
          BY <5>1 DEF SafetyInv, PushInv
        <5>3. plans[p].fp = prepared[p].fp
          BY <2>3 DEF SafetyInv, PlanInv
        <5> QED BY <3>2, <5>2, <5>3
      <4>2. plans[p] \in PlanEntry /\ base[j] \in Fingerprints
        BY <2>3
      <4> DEFINE e == mark_push_executed(plans[p], base[j])
      <4>3. plans'[p] = e
        BY <3>2
      <4>4. /\ e.status = "EXECUTED" /\ e.fp = base[j] /\ e.draft = plans[p].draft
            /\ e.match = plans[p].match /\ e.push = plans[p].push
        BY <4>2, MarkType
      <4> HIDE DEF e
      <4> QED BY <4>1, <4>3, <4>4
    <3> QED BY <2>3, <3>1, <3>2 DEF PushCheck
  <2>4. ASSUME NEW j \in Pushers, RecordOutcomes(j), plans[p] # NoEntry PROVE Fwd(p)
    <3>1. CASE p # plan[j] \/ UNCHANGED plans
      BY <2>4, <3>1 DEF RecordOutcomes
    <3>2. CASE p = plan[j] /\ plans' = [plans EXCEPT ![p] = update_plan_rules(@, todo[j], result[j])]
      <4>1. plans[p] \in PlanEntry
        BY <2>4
      <4> DEFINE e == update_plan_rules(plans[p], todo[j], result[j])
      <4>2. plans'[p] = e
        BY <3>2
      <4>3. /\ e.status = plans[p].status /\ e.fp = plans[p].fp
            /\ e.draft = plans[p].draft /\ e.match = plans[p].match
            /\ \A r \in Rules : e.push[r] = IF r \in todo[j] THEN recorded(result[j][r])
                                                          ELSE plans[p].push[r]
        BY <4>1, UpdateType
      <4> HIDE DEF e
      <4>4. \A r \in Rules : plans[p].push[r] # "PENDING" => e.push[r] # "PENDING"
        BY <4>3 DEF recorded
      <4> QED BY <4>2, <4>3, <4>4
    <3> QED BY <2>4, <3>1, <3>2 DEF RecordOutcomes
  <2>5. ASSUME Crash \/ (\E q \in Preparers : LosePlan(q)) PROVE Fwd(p)
    BY <2>5 DEF Crash, LosePlan
  <2>6. ASSUME NEW j \in Preparers,
               PrepareStart(j) \/ PrepareReject(j) \/ ReadPart(j) \/ PrepareCheck(j) \/ ReadPolicies(j)
        PROVE  plans'[p] = plans[p]
    BY <2>6 DEF PrepareStart, PrepareReject, ReadPart, PrepareCheck, ReadPolicies
  <2>7. ASSUME NEW j \in Pushers, PushBegin(j) PROVE plans'[p] = plans[p]
    BY <2>7 DEF PushBegin, PushStart, PushReject
  <2>8. ASSUME NEW j \in Pushers, PushStep(j), ~PushCheck(j), ~RecordOutcomes(j)
        PROVE  plans'[p] = plans[p]
    BY <2>8 DEF PushStep, ReadPart, FindTarget, CreatePolicy, FetchPushed, Commit, CollectRows,
                SaveReport
  <2>9. ASSUME World \/ LoseScope \/ (\E j \in Jobs : CallFails(j)) PROVE plans'[p] = plans[p]
    BY <2>9 DEF World, EditCatalog, AddForeignPolicy, Reselect, RefreshBaseline, LoseScope,
                CallFails
  <2> HIDE DEF TypeInv
  <2> QED BY <2>1, <2>2, <2>3, <2>4, <2>5, <2>6, <2>7, <2>8, <2>9 DEF Next, PrepareStep
<1> QED BY <1>1, SafetyCorrect, PTL DEF Spec, PlansOnlyAdvance

----------------------------------------------------------------------------
(***************************************************************************)
(* The promise of Migration                                                *)
(***************************************************************************)

\* A rule with a policy was sent, and a push that has committed only reports.
OnceInv ==
  /\ \A j \in Pushers : \A r \in created[j] : result[j][r] # "none"
  /\ \A c \in commits : pc[c.by] \in {"info", "save", "done", "failed"}

\* What the abstract variables are made of.
promiseVars == <<prepared, plan, created, commits, reports>>

\* Initially nothing is sent or committed.
LEMMA InitOnceInv == Init => OnceInv
BY DEF Init, OnceInv

\* A step that creates and commits nothing keeps what was sent, and a job that
\* has committed stays past its commit.
LEMMA NextOnceInv == TypeInv /\ OnceInv /\ [Next]_vars => OnceInv'
<1> SUFFICES ASSUME TypeInv, OnceInv, [Next]_vars PROVE OnceInv'
  OBVIOUS
<1> USE ExecuteAssumption DEF TypeInv, TypeOK, OnceInv, Goto, envVars, Jobs
<1>1. ASSUME NEW j \in Pushers, NEW r \in Rules, NEW made \in BOOLEAN, NEW answered \in BOOLEAN,
             CreatePolicy(j, r, made, answered)
      PROVE  OnceInv'
  BY <1>1 DEF CreatePolicy, is_next, unsent
<1>2. ASSUME NEW j \in Pushers, NEW answered \in BOOLEAN, Commit(j, answered) PROVE OnceInv'
  BY <1>2 DEF Commit
<1>3. ASSUME UNCHANGED <<created, commits, result>>, NEW j \in Jobs, \A k \in Jobs \ {j} : pc'[k] = pc[k],
             pc[j] \notin {"info", "save", "done", "failed"}
      PROVE  OnceInv'
  BY <1>3
<1>4. ASSUME UNCHANGED <<created, commits, result>>, NEW j \in Jobs, \A k \in Jobs \ {j} : pc'[k] = pc[k],
             pc'[j] \in {"save", "done", "failed"}
      PROVE  OnceInv'
  BY <1>4
<1>5. ASSUME UNCHANGED <<created, commits, result, pc>> PROVE OnceInv'
  BY <1>5
<1>6. ASSUME NEW j \in Preparers, PrepareStep(j) PROVE OnceInv'
  <2>1. /\ UNCHANGED <<created, commits, result>> /\ \A k \in Jobs \ {j} : pc'[k] = pc[k]
        /\ pc[j] \notin {"info", "save", "done", "failed"}
    BY <1>6 DEF PrepareStep, PrepareStart, PrepareReject, ReadPart, PrepareCheck, ReadPolicies, StorePlan
  <2> QED BY <1>3, <2>1
<1>7. ASSUME NEW j \in Pushers, PushBegin(j) PROVE OnceInv'
  <2>1. /\ UNCHANGED <<created, commits, result>> /\ \A k \in Jobs \ {j} : pc'[k] = pc[k]
        /\ pc[j] \notin {"info", "save", "done", "failed"}
    BY <1>7 DEF PushBegin, PushStart, PushReject
  <2> QED BY <1>3, <2>1
<1>8. ASSUME NEW j \in Pushers,
             ReadPart(j) \/ PushCheck(j) \/ FindTarget(j) \/ RecordOutcomes(j) \/ FetchPushed(j)
      PROVE  OnceInv'
  <2>1. /\ UNCHANGED <<created, commits, result>> /\ \A k \in Jobs \ {j} : pc'[k] = pc[k]
        /\ pc[j] \notin {"info", "save", "done", "failed"}
    BY <1>8 DEF ReadPart, PushCheck, FindTarget, RecordOutcomes, FetchPushed
  <2> QED BY <1>3, <2>1
<1>9. ASSUME NEW j \in Pushers, CollectRows(j) \/ SaveReport(j) PROVE OnceInv'
  <2>1. /\ UNCHANGED <<created, commits, result>> /\ \A k \in Jobs \ {j} : pc'[k] = pc[k]
        /\ pc'[j] \in {"save", "done", "failed"}
    BY <1>9 DEF CollectRows, SaveReport
  <2> QED BY <1>4, <2>1
<1>10. ASSUME NEW j \in Jobs, CallFails(j) PROVE OnceInv'
  BY <1>4, <1>10 DEF CallFails
<1>11. ASSUME Crash PROVE OnceInv'
  BY <1>11 DEF Crash, Ended
<1>12. ASSUME World \/ LoseScope \/ (\E p \in Preparers : LosePlan(p)) PROVE OnceInv'
  BY <1>5, <1>12
     DEF World, EditCatalog, AddForeignPolicy, Reselect, RefreshBaseline, LoseScope, LosePlan, jobVars
<1>13. ASSUME UNCHANGED vars PROVE OnceInv'
  BY <1>5, <1>13 DEF vars, jobVars
<1> HIDE DEF OnceInv, TypeInv
<1> QED BY <1>1, <1>2, <1>6, <1>7, <1>8, <1>9, <1>10, <1>11, <1>12, <1>13 DEF Next, PushStep

\* Nothing is promised before the first step.
LEMMA InitPromise == Init => Promise!Init
BY DEF Init, Promise!Init

\* The plan that is stored is a new one of Migration.
LEMMA StorePromise ==
  ASSUME TypeInv, SafetyInv, NEW j \in Preparers, StorePlan(j)
  PROVE  \E new \in SUBSET Rules : Promise!Prepare(j, new)
<1>0. PICK new \in SUBSET Rules : new = {r \in Rules : new_plan(j).match[r] = "NEW"}
  OBVIOUS
<1>1. prepared \in [Preparers -> PlanEntry \cup {NoEntry}]
  BY DEF TypeInv, TypeOK
<1>2. prepared[j] = NoEntry
  BY DEF StorePlan, SafetyInv, PlanInv
<1>3. new_plan(j) # NoEntry
  <2>1. new_plan(j) \in PlanEntry
    <3> USE DEF TypeInv, TypeOK, Control, Jobs
    <3> QED BY CompareType DEF StorePlan, new_plan, PlanEntry, PushStatus
  <2> QED BY <2>1, NoEntryAssumption
<1>4. prepared' = [prepared EXCEPT ![j] = new_plan(j)] /\ UNCHANGED <<plan, created, commits, reports>>
  BY DEF StorePlan, envVars
<1> DEFINE e == new_plan(j)
<1> HIDE DEF e
<1>5. prepared' = [prepared EXCEPT ![j] = e] /\ e # NoEntry /\ new = {r \in Rules : e.match[r] = "NEW"}
  BY <1>0, <1>3, <1>4 DEF e
<1>6. {p \in Preparers : prepared'[p] # NoEntry} = {p \in Preparers : prepared[p] # NoEntry} \cup {j}
  BY <1>1, <1>5
<1>7. [p \in Preparers |-> {r \in Rules : prepared'[p] # NoEntry /\ prepared'[p].match[r] = "NEW"}]
      = [[p \in Preparers |-> {r \in Rules : prepared[p] # NoEntry /\ prepared[p].match[r] = "NEW"}]
           EXCEPT ![j] = new]
  BY <1>1, <1>5
<1>8. Promise!Prepare(j, new)
  BY <1>2, <1>4, <1>6, <1>7 DEF Promise!Prepare
<1> QED BY <1>8

\* A push that passes the checks begins on a plan without policies.
LEMMA StartPromise ==
  ASSUME TypeInv, SafetyInv, NEW j \in Pushers, NEW p \in Preparers, PushStart(j, p)
  PROVE  Promise!Start(j, p)
<1>1. plan[j] = NoPlan /\ plan' = [plan EXCEPT ![j] = p] /\ UNCHANGED <<prepared, created, commits, reports>>
  BY DEF PushStart, SafetyInv, PushInv, envVars
<1>2. plans[p] # NoEntry /\ plans[p].status = "PENDING" /\ pending_new_rules(plans[p]) # {}
  BY DEF PushStart, may_push
<1>3. prepared[p] # NoEntry /\ plans[p].match = prepared[p].match
  BY <1>2 DEF SafetyInv, PlanInv
<1>4. \E r \in Rules : prepared[p].match[r] = "NEW"
  BY <1>2, <1>3 DEF pending_new_rules
<1>5. \A k \in Pushers : plan[k] = p => created[k] = {}
  BY <1>2 DEF SafetyInv, PushInv
<1>6. Promise!migrated(p) = {}
  BY <1>5 DEF Promise!migrated
<1> QED BY <1>1, <1>3, <1>4, <1>6 DEF Promise!Start

\* What a push knows of its plan.
LEMMA PushPlan ==
  ASSUME TypeInv, SafetyInv, NEW j \in Pushers, pc[j] \notin {"idle", "failed"}
  PROVE  /\ plan[j] \in {p \in Preparers : prepared[p] # NoEntry}
         /\ todo[j] = {r \in Rules : prepared[plan[j]].match[r] = "NEW"}
<1>1. plan[j] \in Preparers
  BY DEF TypeInv, Control
<1>2. plan[j] # NoPlan
  BY <1>1, ExecuteAssumption
<1> QED BY <1>1, <1>2 DEF SafetyInv, PushInv

\* A policy is created for a new rule of the plan, once, and before the commit.
LEMMA CreatePromise ==
  ASSUME TypeInv, SafetyInv, OnceInv, NEW j \in Pushers, NEW r \in Rules, NEW made \in BOOLEAN,
         NEW answered \in BOOLEAN, CreatePolicy(j, r, made, answered)
  PROVE  Promise!Create(j, r) \/ UNCHANGED promiseVars
<1>1. UNCHANGED <<prepared, plan, commits, reports>>
  BY DEF CreatePolicy
<1>2. CASE ~made
  BY <1>1, <1>2 DEF CreatePolicy, promiseVars
<1>3. CASE made
  <2>1. pc[j] = "create" /\ r \in todo[j] /\ result[j][r] = "none" /\ created' = [created EXCEPT ![j] = @ \cup {r}]
    BY <1>3 DEF CreatePolicy, is_next, unsent
  <2>2. plan[j] \in {p \in Preparers : prepared[p] # NoEntry} /\ prepared[plan[j]].match[r] = "NEW"
    BY <2>1, PushPlan
  <2>3. r \notin created[j] /\ ~Promise!committed(j)
    BY <2>1 DEF OnceInv, Promise!committed
  <2> QED BY <1>1, <2>1, <2>2, <2>3 DEF Promise!Create
<1> QED BY <1>2, <1>3

\* A push commits once, whether or not it is told.
LEMMA CommitPromise ==
  ASSUME TypeInv, SafetyInv, OnceInv, NEW j \in Pushers, NEW answered \in BOOLEAN, Commit(j, answered)
  PROVE  Promise!Commit(j)
<1>1. pc[j] = "commit" /\ commits' = commits \cup {[by |-> j, state |-> Policies]}
      /\ UNCHANGED <<prepared, plan, created, reports>>
  BY DEF Commit
<1>2. plan[j] \in {p \in Preparers : prepared[p] # NoEntry} /\ ~Promise!committed(j)
  BY <1>1, PushPlan DEF OnceInv, Promise!committed
<1>3. Promise!Policies = Policies
  BY DEF Promise!Policies, Policies
<1> QED BY <1>1, <1>2, <1>3 DEF Promise!Commit

\* A report follows the commit of its push, once, and its PUSHED rows have policies.
LEMMA ReportPromise ==
  ASSUME TypeInv, SafetyInv, NEW j \in Pushers, SaveReport(j)
  PROVE  \E pushed \in SUBSET Rules : Promise!Report(j, pushed)
<1>0. PICK pushed \in SUBSET Rules : pushed = {r \in Rules : rows[j][r] = "PUSHED"}
  OBVIOUS
<1> DEFINE shown(reps) == {[by |-> rep.by, plan |-> rep.plan, pushed |-> {r \in Rules : rep.rows[r] = "PUSHED"}]
                          : rep \in reps}
           new == [by |-> j, plan |-> plan[j], rows |-> rows[j]]
<1>1. pc[j] = "save" /\ reports' = reports \cup {new} /\ UNCHANGED <<prepared, plan, created, commits>>
  BY DEF SaveReport, envVars
<1>2. shown(reports') = shown(reports) \cup {[by |-> j, plan |-> plan[j], pushed |-> pushed]}
  <2>1. new.by = j /\ new.plan = plan[j] /\ new.rows = rows[j]
    OBVIOUS
  <2> HIDE DEF new
  <2> QED BY <1>0, <1>1, <2>1
<1>3. Promise!committed(j)
  BY <1>1 DEF SafetyInv, RowInv, Promise!committed
<1>4. \A rep \in shown(reports) : rep.by # j
  BY <1>1 DEF SafetyInv, ReportInv
<1>5. pushed \subseteq Promise!migrated(plan[j])
  BY <1>0, <1>1 DEF SafetyInv, RowInv, Promise!migrated
<1>6. Promise!Report(j, pushed)
  BY <1>1, <1>2, <1>3, <1>4, <1>5 DEF Promise!Report
<1> QED BY <1>6

\* Every step does what Migration allows, or nothing that it speaks of.
LEMMA NextPromise ==
  TypeInv /\ SafetyInv /\ OnceInv /\ [Next]_vars => [Promise!Next]_(Promise!vars)
<1> SUFFICES ASSUME TypeInv, SafetyInv, OnceInv, [Next]_vars
             PROVE  Promise!Next \/ UNCHANGED promiseVars
  BY DEF promiseVars, Promise!vars
<1>1. ASSUME NEW j \in Preparers, PrepareStep(j) PROVE Promise!Next \/ UNCHANGED promiseVars
  <2>1. CASE StorePlan(j)
    BY <2>1, StorePromise DEF Promise!Next
  <2>2. CASE ~StorePlan(j)
    BY <1>1, <2>2 DEF PrepareStep, PrepareStart, PrepareReject, ReadPart, PrepareCheck, ReadPolicies,
                      promiseVars, envVars
  <2> QED BY <2>1, <2>2
<1>2. ASSUME NEW j \in Pushers, PushBegin(j) PROVE Promise!Next \/ UNCHANGED promiseVars
  <2>1. PICK p \in Preparers : PushStart(j, p) \/ PushReject(j, p)
    BY <1>2 DEF PushBegin
  <2>2. CASE PushStart(j, p)
    BY <2>2, StartPromise DEF Promise!Next
  <2>3. CASE PushReject(j, p)
    BY <2>3 DEF PushReject, promiseVars, envVars
  <2> QED BY <2>1, <2>2, <2>3
<1>3. ASSUME NEW j \in Pushers, PushStep(j) PROVE Promise!Next \/ UNCHANGED promiseVars
  <2>1. CASE \E r \in Rules : \E made, answered \in BOOLEAN : CreatePolicy(j, r, made, answered)
    BY <2>1, CreatePromise DEF Promise!Next
  <2>2. CASE \E answered \in BOOLEAN : Commit(j, answered)
    BY <2>2, CommitPromise DEF Promise!Next
  <2>3. CASE SaveReport(j)
    BY <2>3, ReportPromise DEF Promise!Next
  <2>4. CASE ReadPart(j) \/ PushCheck(j) \/ FindTarget(j) \/ RecordOutcomes(j) \/ FetchPushed(j) \/ CollectRows(j)
    BY <2>4
       DEF ReadPart, PushCheck, FindTarget, RecordOutcomes, FetchPushed, CollectRows, promiseVars, envVars
  <2> QED BY <1>3, <2>1, <2>2, <2>3, <2>4 DEF PushStep
<1>4. ASSUME \/ World \/ LoseScope \/ Crash
             \/ \E j \in Jobs : CallFails(j)
             \/ \E p \in Preparers : LosePlan(p)
      PROVE  UNCHANGED promiseVars
  BY <1>4 DEF World, EditCatalog, AddForeignPolicy, Reselect, RefreshBaseline, LoseScope, Crash, CallFails,
              LosePlan, promiseVars, envVars, jobVars
<1>5. ASSUME UNCHANGED vars PROVE UNCHANGED promiseVars
  BY <1>5 DEF vars, promiseVars, envVars, jobVars
<1> QED BY <1>1, <1>2, <1>3, <1>4, <1>5 DEF Next

\* Preparing, pushing and reporting implement Migration, for any number of plans,
\* pushes, rules and faults.
THEOREM ImplementsMigration == Spec => IsMigration
<1>1. Init => TypeInv /\ SafetyInv /\ OnceInv
  BY InitTypeInv, InitSafetyInv, InitOnceInv
<1>2. TypeInv /\ SafetyInv /\ OnceInv /\ [Next]_vars => (TypeInv /\ SafetyInv /\ OnceInv)'
  BY NextTypeInv, NextSafetyInv, NextOnceInv
<1> QED BY <1>1, <1>2, InitPromise, NextPromise, PTL DEF Spec, IsMigration, Promise!Spec

----------------------------------------------------------------------------
(***************************************************************************)
(* The piecewise catalog read                                              *)
(***************************************************************************)

\* When contents never return, catalog parts only grow.  What a job compares
\* with is at most what it found when it opened the catalog, which is at most
\* what it read; equality at the ends makes all three equal.
CatalogInv ==
  /\ \A p \in Parts : baseline[p] <= catalog[p]
  /\ \A q \in Preparers : plans[q] # NoEntry => \A p \in Parts : plans[q].fp[p] <= catalog[p]
  /\ \A j \in Jobs :
       /\ \A p \in Parts : base[j][p] <= catalog[p]
       /\ part[j] > 0 => \A p \in Parts : /\ base[j][p] <= opened[j][p]
                                          /\ opened[j][p] <= catalog[p]
       /\ \A p \in Parts : p <= part[j] => opened[j][p] <= seen[j][p]
       /\ pc[j] = "check" => part[j] = NumParts
       /\ pc[j] \in Checked \cup {"policies", "store"} => opened[j] = base[j]

\* Initially the scope was fingerprinted on the current catalog.
LEMMA InitCatalogInv == Init => CatalogInv
BY ExecuteAssumption DEF Init, CatalogInv, Checked, Jobs

\* Equal ends close the chain base <= opened <= seen.
LEMMA CheckedCatalog ==
  ASSUME TypeInv, CatalogInv, NEW j \in Jobs, pc[j] = "check", catalog_unchanged(j)
  PROVE  opened[j] = base[j]
<1>1. part[j] = NumParts /\ NumParts > 0
  BY ExecuteAssumption DEF CatalogInv
<1>2. base[j] \in Fingerprints /\ opened[j] \in Fingerprints /\ seen[j] \in Fingerprints
  BY DEF TypeInv, TypeOK
<1>3. ASSUME NEW p \in Parts PROVE opened[j][p] = base[j][p]
  <2>1. base[j][p] <= opened[j][p] /\ opened[j][p] <= seen[j][p]
    BY <1>1, ExecuteAssumption DEF CatalogInv, Parts
  <2>2. base[j][p] \in Int /\ opened[j][p] \in Int /\ seen[j][p] = base[j][p]
    BY <1>2, ExecuteAssumption DEF Fingerprints, catalog_unchanged
  <2> QED BY <2>1, <2>2
<1> QED BY <1>2, <1>3 DEF Fingerprints

\* Every step keeps the order of what was remembered, opened and read.
LEMMA NextCatalogInv ==
  ~EditsMayRevert /\ TypeInv /\ SafetyInv /\ CatalogInv /\ [Next]_vars => CatalogInv'
<1> SUFFICES ASSUME ~EditsMayRevert, TypeInv, SafetyInv, CatalogInv, [Next]_vars
             PROVE  CatalogInv'
  OBVIOUS
<1>a. /\ catalog \in [Parts -> Int] /\ baseline \in [Parts -> Int]
      /\ base \in [Jobs -> [Parts -> Int]] /\ opened \in [Jobs -> [Parts -> Int]]
      /\ seen \in [Jobs -> [Parts -> Int]] /\ part \in [Jobs -> 0 .. NumParts]
      /\ pc \in [Jobs -> Labels] /\ NumParts \in Nat \ {0}
  BY ExecuteAssumption DEF TypeInv, TypeOK, Fingerprints
<1>b. /\ \A j \in Jobs : pc[j] = "catalog" => part[j] < NumParts
      /\ \A j \in Jobs : pc[j] = "idle" => part[j] = 0
      /\ \A j \in Pushers : pc[j] \notin {"policies", "store"}
      /\ \A j \in Preparers : pc[j] = "done" \/ pc[j] \notin Checked
  BY DEF TypeInv, Control, PrepareLabels, PushLabels, Checked
<1>c. \A p \in Preparers : plans[p] # NoEntry => plans[p] \in PlanEntry
  BY DEF TypeInv, TypeOK
<1> USE <1>a, <1>b DEF CatalogInv, Goto, envVars, cacheVars
<1>1. ASSUME NEW j \in Jobs, ReadPart(j) PROVE CatalogInv'
  <2>1. part[j] + 1 \in Parts /\ part' = [part EXCEPT ![j] = part[j] + 1]
    BY <1>1 DEF ReadPart, Parts
  <2>2. UNCHANGED <<catalog, baseline, plans, base>>
    BY <1>1 DEF ReadPart
  <2>3. \A i \in Jobs : i # j => UNCHANGED <<pc[i], seen[i], opened[i], part[i]>>
    BY <1>1 DEF ReadPart
  <2>4. \A p \in Parts : base[j][p] <= opened'[j][p] /\ opened'[j][p] <= catalog[p]
    <3>1. CASE part[j] = 0
      <4>1. opened'[j] = catalog
        BY <1>1, <3>1 DEF ReadPart
      <4> QED BY <4>1
    <3>2. CASE part[j] # 0
      <4>1. opened'[j] = opened[j] /\ part[j] > 0
        BY <1>1, <3>2 DEF ReadPart
      <4> QED BY <4>1
    <3> QED BY <3>1, <3>2
  <2>5. \A p \in Parts : p <= part'[j] => opened'[j][p] <= seen'[j][p]
    <3>1. CASE part[j] = 0
      BY <1>1, <3>1 DEF ReadPart, Parts
    <3>2. CASE part[j] # 0
      <4>1. opened'[j] = opened[j] /\ part[j] > 0
        BY <1>1, <3>2 DEF ReadPart
      <4>2. /\ seen'[j][part[j] + 1] = catalog[part[j] + 1]
            /\ \A p \in Parts : p # part[j] + 1 => seen'[j][p] = seen[j][p]
        BY <1>1, <2>1 DEF ReadPart
      <4>3. ASSUME NEW p \in Parts, p <= part[j] + 1, p # part[j] + 1 PROVE p <= part[j]
        <5>1. p \in Int /\ part[j] \in Int
          BY DEF Parts
        <5> QED BY <4>3, <5>1
      <4> QED BY <2>1, <4>1, <4>2, <4>3
    <3> QED BY <3>1, <3>2
  <2>6. /\ pc'[j] = "check" => part'[j] = NumParts
        /\ pc'[j] \notin Checked \cup {"policies", "store"}
    BY <1>1 DEF ReadPart, Checked
  <2> QED BY <2>2, <2>3, <2>4, <2>5, <2>6
<1>2. ASSUME NEW j \in Preparers, PrepareStart(j) PROVE CatalogInv'
  BY <1>2 DEF PrepareStart, Checked, Jobs
<1>3. ASSUME NEW j \in Preparers, PrepareReject(j) PROVE CatalogInv'
  BY <1>3 DEF PrepareReject, Checked, Jobs
<1>4. ASSUME NEW j \in Preparers, PrepareCheck(j) PROVE CatalogInv'
  BY <1>4, CheckedCatalog DEF PrepareCheck, Checked, Jobs
<1>5. ASSUME NEW j \in Preparers, ReadPolicies(j) PROVE CatalogInv'
  BY <1>5 DEF ReadPolicies, Checked, Jobs
<1>6. ASSUME NEW j \in Preparers, StorePlan(j) PROVE CatalogInv'
  <2>1. new_plan(j).fp = base[j]
    BY DEF new_plan
  <2> QED BY <1>6, <2>1 DEF StorePlan, Checked, Jobs
<1>7. ASSUME NEW j \in Pushers, NEW p \in Preparers, PushStart(j, p) PROVE CatalogInv'
  BY <1>7 DEF PushStart, may_push, Checked, Jobs
<1>8. ASSUME NEW j \in Pushers, NEW p \in Preparers, PushReject(j, p) PROVE CatalogInv'
  BY <1>8 DEF PushReject, Checked, Jobs
<1>9. ASSUME NEW j \in Pushers, PushCheck(j) PROVE CatalogInv'
  <2>1. CASE Goto(j, "failed") /\ UNCHANGED plans
    BY <1>9, <2>1 DEF PushCheck, Checked, Jobs
  <2>2. CASE /\ catalog_unchanged(j) /\ plans[plan[j]] # NoEntry
             /\ plans' = [plans EXCEPT ![plan[j]] = mark_push_executed(plans[plan[j]], base[j])]
             /\ Goto(j, "target")
    <3>1. opened[j] = base[j]
      BY <1>9, <2>2, CheckedCatalog DEF PushCheck, Jobs
    <3>2. mark_push_executed(plans[plan[j]], base[j]).fp = base[j]
      <4>1. plans[plan[j]] \in PlanEntry /\ base[j] \in Fingerprints
        BY <1>9, <2>2 DEF PushCheck, TypeInv, TypeOK, Control, Jobs
      <4> QED BY <4>1, MarkType
    <3> QED BY <1>9, <2>2, <3>1, <3>2 DEF PushCheck, Checked, Jobs
  <2> QED BY <1>9, <2>1, <2>2 DEF PushCheck
<1>10. ASSUME NEW j \in Pushers,
              FindTarget(j) \/ FetchPushed(j) \/ CollectRows(j) \/ SaveReport(j)
       PROVE  CatalogInv'
  BY <1>10 DEF FindTarget, FetchPushed, CollectRows, SaveReport, Checked, Jobs
<1>11. ASSUME NEW j \in Pushers, NEW r \in Rules, NEW made \in BOOLEAN, NEW answered \in BOOLEAN,
              CreatePolicy(j, r, made, answered)
       PROVE  CatalogInv'
  BY <1>11 DEF CreatePolicy, Checked, Jobs
<1>19. ASSUME NEW j \in Pushers, NEW answered \in BOOLEAN, Commit(j, answered) PROVE CatalogInv'
  BY <1>19 DEF Commit, Checked, Jobs
<1>12. ASSUME NEW j \in Pushers, RecordOutcomes(j) PROVE CatalogInv'
  <2>1. CASE plans[plan[j]] = NoEntry
    BY <1>12, <2>1 DEF RecordOutcomes, Checked, Jobs
  <2>2. CASE plans[plan[j]] # NoEntry
    <3> DEFINE e == update_plan_rules(plans[plan[j]], todo[j], result[j])
    <3>1. plan[j] \in Preparers
      BY <1>12, <2>2 DEF RecordOutcomes, TypeInv, TypeOK, Control
    <3>2. e.fp = plans[plan[j]].fp
      BY <1>c, <2>2, <3>1, UpdateType
    <3>3. plans' = [plans EXCEPT ![plan[j]] = e]
      BY <1>12, <2>2 DEF RecordOutcomes
    <3> HIDE DEF e
    <3>4. \A q \in Preparers : plans'[q] # NoEntry => plans[q] # NoEntry /\ plans'[q].fp = plans[q].fp
      BY <2>2, <3>1, <3>2, <3>3 DEF TypeInv, TypeOK
    <3>5. PICK l \in {"fetch", "commit"} : Goto(j, l)
      BY <1>12, <2>2 DEF RecordOutcomes
    <3>6. UNCHANGED <<catalog, baseline, base, seen, part, opened>>
      BY <1>12 DEF RecordOutcomes
    <3>7. pc[j] = "record" /\ j \in Jobs
      BY <1>12 DEF RecordOutcomes, Jobs
    <3>8. \A k \in Jobs : pc'[k] = IF k = j THEN l ELSE pc[k]
      BY <3>5, <3>7 DEF Goto, TypeInv, TypeOK
    <3> QED BY <3>4, <3>6, <3>7, <3>8 DEF Checked, Jobs
  <2> QED BY <2>1, <2>2
<1>13. ASSUME NEW j \in Jobs, CallFails(j) PROVE CatalogInv'
  BY <1>13 DEF CallFails, Checked, Jobs
<1>14. ASSUME LoseScope \/ (\E p \in Preparers : LosePlan(p)) PROVE CatalogInv'
  <2>1. UNCHANGED <<catalog, baseline, base, part, opened, seen, pc>>
    BY <1>14 DEF LoseScope, LosePlan, jobVars
  <2>2. \A q \in Preparers : plans'[q] # NoEntry => plans'[q] = plans[q]
    BY <1>14 DEF LoseScope, LosePlan, TypeInv, TypeOK
  <2> QED BY <2>1, <2>2
<1>15. ASSUME Crash PROVE CatalogInv'
  BY <1>15 DEF Crash, Ended, Checked
<1>16. ASSUME NEW p \in Parts, EditCatalog(p) PROVE CatalogInv'
  <2>1. \A q \in Parts : catalog[q] <= catalog'[q] /\ catalog'[q] \in Int
    BY <1>16, ExecuteAssumption DEF EditCatalog
  <2>2. UNCHANGED <<baseline, plans, pc, base, seen, part, opened>>
    BY <1>16 DEF EditCatalog, jobVars
  <2>3. \A q \in Preparers : plans[q] # NoEntry => plans[q].fp \in [Parts -> Int]
    BY <1>c, ExecuteAssumption DEF PlanEntry, Fingerprints
  <2> QED BY <2>1, <2>2, <2>3
<1>17. ASSUME RefreshBaseline PROVE CatalogInv'
  BY <1>17 DEF RefreshBaseline, jobVars
<1>18. ASSUME (\E d \in Drafts : AddForeignPolicy(d))
               \/ (\E r \in Rules, d \in Drafts : Reselect(r, d)) \/ UNCHANGED vars
       PROVE  CatalogInv'
  BY <1>18 DEF AddForeignPolicy, Reselect, vars, jobVars
<1> HIDE DEF CatalogInv
<1> QED
  BY <1>1, <1>2, <1>3, <1>4, <1>5, <1>6, <1>7, <1>8, <1>9, <1>10, <1>11, <1>12, <1>13, <1>14,
     <1>15, <1>16, <1>17, <1>18, <1>19 DEF Next, PrepareStep, PushBegin, PushStep, World, Jobs

\* When contents never return, a job past its fingerprint check opened the very
\* catalog it compares with.
THEOREM CatalogWasCurrentHolds == ~EditsMayRevert /\ Spec => []CatalogWasCurrent
<1>1. TypeInv /\ CatalogInv => CatalogWasCurrent
  BY DEF CatalogInv, CatalogWasCurrent, Checked
<1>2. CASE ~EditsMayRevert
  <2>1. TypeInv /\ SafetyInv /\ CatalogInv /\ [Next]_vars => CatalogInv'
    BY <1>2, NextCatalogInv
  <2> QED BY <1>1, <2>1, InitCatalogInv, SafetyCorrect, PTL DEF Spec
<1> QED BY <1>2

============================================================================
