----------------------------- MODULE Migration -----------------------------
(***************************************************************************)
(* What the execute module promises of a migration, whatever its caches    *)
(* and calls do: a plan says which rules are new to the controller; a push *)
(* of a plan begins while nothing was created for the plan, creates        *)
(* policies for its new rules only, each once and none after its commit;   *)
(* it reports once, after its commit, and only what was created.           *)
(***************************************************************************)
CONSTANTS Plans, Pushes, Rules, NoPlan

VARIABLES
  planned,  \* the plans that there are
  fresh,    \* plan -> the rules it found to be new
  plan,     \* push -> the plan that it carries out, or NoPlan
  created,  \* push -> the rules that it created a policy for
  commits,  \* every commit, with the policies that it made permanent
  reports

vars == <<planned, fresh, plan, created, commits, reports>>

Init ==
  /\ planned = {}
  /\ fresh = [p \in Plans |-> {}]
  /\ plan = [j \in Pushes |-> NoPlan]
  /\ created = [j \in Pushes |-> {}]
  /\ commits = {}
  /\ reports = {}

Policies == {q \in Pushes \X Rules : q[2] \in created[q[1]]}

\* The rules of a plan that have a policy.
migrated(p) == {r \in Rules : \E k \in Pushes : plan[k] = p /\ r \in created[k]}

committed(j) == \E c \in commits : c.by = j

Prepare(p, new) ==
  /\ p \notin planned
  /\ planned' = planned \cup {p}
  /\ fresh' = [fresh EXCEPT ![p] = new]
  /\ UNCHANGED <<plan, created, commits, reports>>

Start(j, p) ==
  /\ plan[j] = NoPlan
  /\ p \in planned /\ fresh[p] # {} /\ migrated(p) = {}
  /\ plan' = [plan EXCEPT ![j] = p]
  /\ UNCHANGED <<planned, fresh, created, commits, reports>>

Create(j, r) ==
  /\ plan[j] \in planned /\ r \in fresh[plan[j]]
  /\ r \notin created[j] /\ ~committed(j)
  /\ created' = [created EXCEPT ![j] = @ \cup {r}]
  /\ UNCHANGED <<planned, fresh, plan, commits, reports>>

Commit(j) ==
  /\ plan[j] \in planned /\ ~committed(j)
  /\ commits' = commits \cup {[by |-> j, state |-> Policies]}
  /\ UNCHANGED <<planned, fresh, plan, created, reports>>

Report(j, pushed) ==
  /\ committed(j) /\ \A rep \in reports : rep.by # j
  /\ pushed \subseteq migrated(plan[j])
  /\ reports' = reports \cup {[by |-> j, plan |-> plan[j], pushed |-> pushed]}
  /\ UNCHANGED <<planned, fresh, plan, created, commits>>

Next ==
  \/ \E p \in Plans, new \in SUBSET Rules : Prepare(p, new)
  \/ \E j \in Pushes :
       \/ \E p \in Plans : Start(j, p)
       \/ \E r \in Rules : Create(j, r)
       \/ Commit(j)
       \/ \E pushed \in SUBSET Rules : Report(j, pushed)

Spec == Init /\ [][Next]_vars

============================================================================
