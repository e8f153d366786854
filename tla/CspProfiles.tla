---------------------------- MODULE CspProfiles ----------------------------
(***************************************************************************)
(* The use cases on one CSP profile (modules/settings/csp_profiles), each  *)
(* a database transaction under @async_transactional, and the provider of  *)
(* SD-WAN clients that reads profiles.  Every SQL statement is an action.  *)
(*                                                                         *)
(* The database (external) is PostgreSQL at READ COMMITTED: a SELECT sees  *)
(* what is committed, an UPDATE or DELETE waits for the row's lock and     *)
(* then works on its latest version, of two transactions that wait for     *)
(* each other one is aborted.  The session keeps no row it has no          *)
(* reference to, so that each read is a SELECT.                            *)
(*                                                                         *)
(* target stands for the name, URL and user name of a profile; cert for    *)
(* the stored facts about a certificate, pem for the one encrypted.        *)
(***************************************************************************)
EXTENDS Naturals, FiniteSets

CONSTANTS
  Jobs,        \* invocations
  Targets, Pems, Passwords, NoPassword,
  Commands,    \* the commands that are tried
  Created,     \* the rows a profile may be created with
  Free,        \* the lock nobody has
  None,        \* no row, nothing read
  MaxFaults    \* bound: connections that break

Rows == {"profile", "credentials"}

Kinds == {"update", "status", "remove", "delete", "acquire"}

\* An operand of None is UNSET.
Command == [kind: Kinds, target: Targets \cup {None}, password: Passwords \cup {None},
            pem: Pems \cup {None}, active: BOOLEAN]

ProfileRow == [target: Targets, active: BOOLEAN]

CredentialsRow == [pem: Pems, password: Passwords \cup {NoPassword},
                   has_password: BOOLEAN, cert: Pems]

CreatedRows == [profile: {[target |-> t, active |-> TRUE] : t \in Targets},
                credentials: {[pem |-> p, password |-> w, has_password |-> TRUE, cert |-> p] :
                                p \in Pems, w \in Passwords}]

ASSUME ProfilesAssumption ==
  /\ Commands \subseteq Command
  /\ Created \subseteq CreatedRows
  /\ NoPassword \notin Passwords /\ None \notin Targets \cup Passwords \cup Pems
  /\ None \notin ProfileRow \cup CredentialsRow \cup Rows
  /\ Free \notin Jobs
  /\ MaxFaults \in Nat

VARIABLES
  table,     \* the committed rows
  lock,      \* row -> the job whose transaction wrote it
  written,   \* row -> its uncommitted version, where it is locked
  pc, command,
  seen,      \* what get_by_id answered
  current,   \* what get_for_connection answered
  model,     \* the credentials as session.get loaded them
  registry,  \* _active_clients: the jobs whose client is in it
  closing,   \* clients a close_all took
  writer, interfered, faults  \* history: kind of the last writer of the
                              \* credentials, removals that overlapped, faults

dbVars == <<table, lock, written>>
readVars == <<seen, current, model>>
clientVars == <<registry, closing>>
historyVars == <<writer, interfered, faults>>
vars == <<dbVars, pc, command, readVars, clientVars, historyVars>>

\* CreateProfileUseCase inserts both rows in one transaction; nobody knows the new
\* id before it is committed.
Init ==
  /\ table \in Created
  /\ lock = [r \in Rows |-> Free]
  /\ written = [r \in Rows |-> None]
  /\ pc = [j \in Jobs |-> "idle"]
  /\ command \in [Jobs -> Commands]
  /\ seen = [j \in Jobs |-> None] /\ current = [j \in Jobs |-> None] /\ model = [j \in Jobs |-> None]
  /\ registry = {} /\ closing = {}
  /\ writer = "create" /\ interfered = FALSE /\ faults = 0

----------------------------------------------------------------------------
goto(j, label) == pc' = [pc EXCEPT ![j] = label]

kind(j) == command[j].kind

\* The rows a transaction has written.
mine(j) == {r \in Rows : lock[r] = j}

release(j) ==
  /\ lock' = [r \in Rows |-> IF r \in mine(j) THEN Free ELSE lock[r]]
  /\ written' = [r \in Rows |-> IF r \in mine(j) THEN None ELSE written[r]]

\* The use case raised: SQLAlchemyUnitOfWork.__aexit__ rolls back and closes.
Rollback(j) ==
  /\ release(j)
  /\ goto(j, "ended")
  /\ UNCHANGED <<table, command, readVars, clientVars>>

\* A row is written under its lock.
write(j, r, row) ==
  /\ lock' = [lock EXCEPT ![r] = j]
  /\ written' = [written EXCEPT ![r] = row]

can_lock(j, r) == lock[r] \in {Free, j}

\* The use case is called in a unit of work of its own.
Start(j) ==
  /\ pc[j] = "idle"
  /\ goto(j, "profile")
  /\ UNCHANGED <<dbVars, command, readVars, clientVars, historyVars>>

\* Whether an update changes the credentials.
changes_credentials(c) == c.password # None \/ c.pem # None

\* What a use case does after it has read the profile.
after_profile(j) ==
  CASE kind(j) = "status" -> IF table.profile.active = command[j].active THEN "ended" ELSE "write_profile"
    [] kind(j) = "update" -> IF changes_credentials(command[j]) THEN "current" ELSE "write_profile"
    [] kind(j) = "acquire" -> "current"
    [] OTHER -> "model"

\* get_by_id reads both rows in one statement.
ReadProfile(j) ==
  /\ pc[j] = "profile"
  /\ IF table.profile = None
       THEN goto(j, "ended") /\ UNCHANGED seen
       ELSE goto(j, after_profile(j)) /\ seen' = [seen EXCEPT ![j] = table.profile]
  /\ UNCHANGED <<dbVars, command, current, model, clientVars, historyVars>>

\* Mutant of ReadCurrent: an UPDATE of the profile that changes nothing is skipped.
ReadCurrentSkipping(j) ==
  /\ pc[j] = "current"
  /\ current' = [current EXCEPT ![j] = table.credentials]
  /\ goto(j, IF table.credentials = None THEN "ended"
             ELSE IF kind(j) = "acquire" THEN "open"
             ELSE IF command[j].target = None THEN "model" ELSE "write_profile")
  /\ UNCHANGED <<dbVars, command, seen, model, clientVars, historyVars>>

\* get_for_connection, for an update of the credentials or for a client.
ReadCurrent(j) ==
  /\ pc[j] = "current"
  /\ current' = [current EXCEPT ![j] = table.credentials]
  /\ goto(j, IF table.credentials = None THEN "ended"
             ELSE IF kind(j) = "acquire" THEN "open" ELSE "write_profile")
  /\ UNCHANGED <<dbVars, command, seen, model, clientVars, historyVars>>

\* _value_or_none: an operand that is UNSET keeps what is stored.
or_else(value, default) == IF value = None THEN default ELSE value

\* change_active_status writes the flag only, update all but the flag.
profile_values(j) ==
  IF kind(j) = "status" THEN [table.profile EXCEPT !.active = command[j].active]
  ELSE [table.profile EXCEPT !.target = or_else(command[j].target, seen[j].target)]

\* The UPDATE of the profile; no row was updated if it is gone.
WriteProfile(j) ==
  /\ pc[j] = "write_profile" /\ kind(j) # "delete"
  /\ can_lock(j, "profile")
  /\ IF table.profile = None THEN Rollback(j)
     ELSE /\ write(j, "profile", profile_values(j))
          /\ goto(j, IF kind(j) = "update" /\ changes_credentials(command[j]) THEN "model" ELSE "commit")
          /\ UNCHANGED <<table, command, readVars, clientVars>>
  /\ UNCHANGED historyVars

\* The DELETE of the profile, whether it is still there or not.
DeleteProfile(j) ==
  /\ pc[j] = "write_profile" /\ kind(j) = "delete"
  /\ can_lock(j, "profile")
  /\ write(j, "profile", None)
  /\ goto(j, "commit")
  /\ UNCHANGED <<table, command, readVars, clientVars, historyVars>>

\* session.get of the credentials; an update, which has locked the profile, finds
\* them.
LoadModel(j) ==
  /\ pc[j] = "model"
  /\ model' = [model EXCEPT ![j] = table.credentials]
  /\ goto(j, IF table.credentials # None THEN "write_credentials"
             ELSE IF kind(j) = "delete" THEN "write_profile" ELSE "commit")
  /\ UNCHANGED <<dbVars, command, seen, current, clientVars, historyVars>>

\* The columns an UPDATE of the session writes: those that differ from the model.
changed(old, new, stored) == IF new = old THEN stored ELSE new

\* put_for_profile and remove_password: the encrypted payload always differs.
credentials_values(j) ==
  LET stored == table.credentials
      pem == IF kind(j) = "remove" THEN model[j].pem ELSE or_else(command[j].pem, current[j].pem)
      password == IF kind(j) = "remove" THEN NoPassword
                  ELSE or_else(command[j].password, current[j].password)
  IN  [pem |-> pem, password |-> password,
       has_password |-> changed(model[j].has_password, password # NoPassword, stored.has_password),
       cert |-> IF kind(j) = "remove" THEN stored.cert ELSE changed(model[j].cert, pem, stored.cert)]

\* Mutant of WriteCredentials: a removal goes on to update the profile.
WriteCredentialsThenProfile(j) ==
  /\ pc[j] = "write_credentials" /\ kind(j) # "delete"
  /\ can_lock(j, "credentials")
  /\ table.credentials # None
  /\ write(j, "credentials", credentials_values(j))
  /\ goto(j, IF kind(j) = "remove" THEN "write_profile" ELSE "commit")
  /\ UNCHANGED <<table, command, readVars, clientVars, historyVars>>

\* The flush of the credentials; StaleDataError when the row is gone.
WriteCredentials(j) ==
  /\ pc[j] = "write_credentials" /\ kind(j) # "delete"
  /\ can_lock(j, "credentials")
  /\ IF table.credentials = None
       THEN Rollback(j) /\ UNCHANGED historyVars
       ELSE /\ write(j, "credentials", credentials_values(j))
            /\ interfered' = (interfered \/ (model[j] # table.credentials /\ "remove" \in {kind(j), writer}))
            /\ goto(j, "commit")
            /\ UNCHANGED <<table, command, readVars, clientVars, writer, faults>>

\* Mutant of DeleteCredentials: the store commits for itself.
DeleteCredentialsCommitting(j) ==
  /\ pc[j] = "write_credentials" /\ kind(j) = "delete"
  /\ can_lock(j, "credentials")
  /\ table' = [table EXCEPT !.credentials = None]
  /\ goto(j, "write_profile")
  /\ UNCHANGED <<lock, written, command, readVars, clientVars, historyVars>>

\* The DELETE of the credentials, before that of the profile.
DeleteCredentials(j) ==
  /\ pc[j] = "write_credentials" /\ kind(j) = "delete"
  /\ can_lock(j, "credentials")
  /\ write(j, "credentials", None)
  /\ goto(j, "write_profile")
  /\ UNCHANGED <<table, command, readVars, clientVars, historyVars>>

\* The wrapper commits when the use case returned.
Commit(j) ==
  /\ pc[j] = "commit"
  /\ table' = [r \in Rows |-> IF r \in mine(j) THEN written[r] ELSE table[r]]
  /\ writer' = IF "credentials" \in mine(j) THEN kind(j) ELSE writer
  /\ release(j)
  /\ goto(j, "ended")
  /\ UNCHANGED <<command, readVars, clientVars, interfered, faults>>

\* The row a transaction waits for.
wants(j) ==
  CASE pc[j] = "write_profile" -> "profile"
    [] pc[j] = "write_credentials" -> "credentials"
    [] OTHER -> None

waits_for(j, k) == wants(j) \in Rows /\ lock[wants(j)] = k /\ j # k

\* The database aborts one of two transactions that wait for each other.
DeadlockAbort(j) ==
  /\ \E k \in Jobs : waits_for(j, k) /\ waits_for(k, j)
  /\ Rollback(j)
  /\ UNCHANGED historyVars

\* The connection breaks, or the request is cancelled, at any statement.
Fail(j) ==
  /\ faults < MaxFaults
  /\ pc[j] \in {"profile", "current", "model", "write_profile", "write_credentials", "commit"}
  /\ Rollback(j)
  /\ faults' = faults + 1
  /\ UNCHANGED <<writer, interfered>>

----------------------------------------------------------------------------
\* acquire builds a client and registers it; the lock of the registry is never
\* held across an await.
Open(j) ==
  /\ pc[j] = "open"
  /\ registry' = registry \cup {j}
  /\ goto(j, "using")
  /\ UNCHANGED <<dbVars, command, readVars, closing, historyVars>>

\* The body of acquire is left: whoever takes the client out of the registry
\* closes it.
Release(j) ==
  /\ pc[j] = "using"
  /\ registry' = registry \ {j}
  /\ goto(j, IF j \in registry THEN "close" ELSE "ended")
  /\ UNCHANGED <<dbVars, command, readVars, closing, historyVars>>

\* _release closes the client outside the registry's lock.
Close(j) ==
  /\ pc[j] = "close"
  /\ goto(j, "ended")
  /\ UNCHANGED <<dbVars, command, readVars, registry, closing, historyVars>>

\* close_all at shutdown takes all clients, then closes them concurrently.
CloseAll ==
  /\ registry # {}
  /\ closing' = closing \cup registry
  /\ registry' = {}
  /\ UNCHANGED <<dbVars, pc, command, readVars, historyVars>>

\* gather: each client close_all took is closed.
CloseTaken(j) ==
  /\ j \in closing
  /\ closing' = closing \ {j}
  /\ UNCHANGED <<dbVars, pc, command, readVars, registry, historyVars>>

----------------------------------------------------------------------------
Step(j) ==
  \/ ReadProfile(j) \/ ReadCurrent(j) \/ WriteProfile(j) \/ DeleteProfile(j)
  \/ LoadModel(j) \/ WriteCredentials(j) \/ DeleteCredentials(j) \/ Commit(j)
  \/ DeadlockAbort(j)
  \/ Open(j) \/ Release(j) \/ Close(j) \/ CloseTaken(j)

Next ==
  \/ \E j \in Jobs : Start(j) \/ Step(j) \/ Fail(j)
  \/ CloseAll

Spec == Init /\ [][Next]_vars

----------------------------------------------------------------------------
\* Every variable has its type.
TypeOK ==
  /\ table.profile \in ProfileRow \cup {None}
  /\ table.credentials \in CredentialsRow \cup {None}
  /\ lock \in [Rows -> Jobs \cup {Free}]
  /\ written.profile \in ProfileRow \cup {None}
  /\ written.credentials \in CredentialsRow \cup {None}
  /\ command \in [Jobs -> Commands]
  /\ registry \subseteq Jobs /\ closing \subseteq Jobs
  /\ \A j \in Jobs :
       /\ pc[j] \in {"idle", "profile", "current", "write_profile", "model", "write_credentials",
                     "commit", "open", "using", "close", "ended"}
       /\ seen[j] \in ProfileRow \cup {None}
       /\ current[j] \in CredentialsRow \cup {None}
       /\ model[j] \in CredentialsRow \cup {None}

\* A profile always has credentials, and no credentials outlive their profile,
\* whatever overlaps and wherever a transaction ends.
CredentialsTogether == table.profile = None <=> table.credentials = None

agree(row) == row # None => row.has_password = (row.password # NoPassword) /\ row.cert = row.pem

\* What is shown of the credentials is what is stored: updates are serialised by
\* the profile's row, although each writes only the columns that differ from what
\* it loaded.  Only the removal of a password, which does not touch that row, can
\* come between.
MetadataAgrees == interfered \/ agree(table.credentials)

\* Transactions wait for each other in a circle only where a profile is deleted,
\* which takes its rows in the opposite order.
DeadlockNeedsDelete ==
  \A j, k \in Jobs : (waits_for(j, k) /\ waits_for(k, j)) => "delete" \in {kind(j), kind(k)}

=============================================================================
