------------------------------ MODULE LossyMap ------------------------------
(***************************************************************************)
(* What the rest of the program may rely on when it keeps data in the      *)
(* runtime cache (RuntimeCacheStorePort): a map whose entries may be lost  *)
(* at any moment, but that never answers with anything else than the value *)
(* stored last, and never brings a lost entry back.                        *)
(***************************************************************************)
CONSTANTS Keys, Values, None

VARIABLES
  m,      \* the value of each key, or None
  reply   \* what the last caller was answered, as a set

vars == <<m, reply>>

Init == m = [k \in Keys |-> None] /\ reply = {}

\* Entries may be lost, never changed.
Fewer(new, old) == \A k \in Keys : new[k] \in {old[k], None}

\* Storing a value may cost other entries.
Put(k, v) ==
  /\ m' \in [Keys -> Values \cup {None}]
  /\ m'[k] = v
  /\ \A x \in Keys \ {k} : m'[x] \in {m[x], None}
  /\ reply' = {}

Get(k) ==
  /\ reply' = {m[k]} \ {None}
  /\ UNCHANGED m

Touch(k) ==
  /\ reply' = IF m[k] = None THEN {} ELSE {k}
  /\ UNCHANGED m

List ==
  /\ reply' = {k \in Keys : m[k] # None}
  /\ UNCHANGED m

Lose ==
  /\ m' \in [Keys -> Values \cup {None}]
  /\ Fewer(m', m)
  /\ UNCHANGED reply

Next ==
  \/ \E k \in Keys : Get(k) \/ Touch(k) \/ \E v \in Values : Put(k, v)
  \/ List
  \/ Lose

Spec == Init /\ [][Next]_vars

============================================================================
