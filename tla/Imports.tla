------------------------------ MODULE Imports ------------------------------
(***************************************************************************)
(* From a configuration file to a canonical snapshot: creating a source    *)
(* and uploading an artifact (modules/imports), then mapping a source      *)
(* snapshot, which saves the canonical snapshot (modules/canonical) and    *)
(* its trace records (modules/trace) in one transaction.                   *)
(*                                                                         *)
(* A job is one submission of a file (two transactions) or one mapping     *)
(* (one transaction).  It inserts at most one row of a kind, so that rows  *)
(* are named after it; what a row says are the job's own locals, which     *)
(* never change again.  The database is external: READ COMMITTED, unique   *)
(* keys, row locks.                                                        *)
(***************************************************************************)
EXTENDS Naturals, FiniteSets

CONSTANTS
  Jobs,
  Names,     \* of sources, of one active vendor
  Texts,     \* configuration files; texts with one hash are one text
  None,
  MaxFaults  \* bound: statements that raise

ASSUME ImportsAssumption ==
  /\ None \notin Jobs
  /\ MaxFaults \in Nat

Command == [kind: {"submit"}, name: Names, text: Texts]

NoCommand == [kind |-> "none"]

Mapping == [kind |-> "map"]

\* What a job may have written: the rows, the rows below a canonical snapshot as
\* one, and its status.
Writes == {"source", "snapshot", "artifact", "upload", "header", "graph", "success", "trace"}

VARIABLES
  durable,   \* job -> what it has committed
  latest,    \* committed snapshots with is_latest
  written,   \* job -> what it has written in its open transaction
  unmarked,  \* job -> snapshots it has set is_latest FALSE for, locked
  pc, command,
  source,    \* of the snapshot a submission inserts
  snapshot,  \* a submission resolves to, or a mapping is for
  hit,       \* snapshots mark_previous_not_latest has found
  result,    \* canonical_snapshot_id
  overlap, faults  \* history: whether submissions overlapped, faults

dbVars == <<durable, latest>>
txVars == <<written, unmarked>>
localVars == <<source, snapshot, hit, result>>
historyVars == <<overlap, faults>>
vars == <<dbVars, txVars, pc, command, localVars, historyVars>>

Init ==
  /\ durable = [j \in Jobs |-> {}] /\ latest = {}
  /\ written = [j \in Jobs |-> {}] /\ unmarked = [j \in Jobs |-> {}]
  /\ pc = [j \in Jobs |-> "idle"]
  /\ command = [j \in Jobs |-> NoCommand]
  /\ source = [j \in Jobs |-> None] /\ snapshot = [j \in Jobs |-> None]
  /\ hit = [j \in Jobs |-> {}]
  /\ result = [j \in Jobs |-> None]
  /\ overlap = FALSE /\ faults = 0

----------------------------------------------------------------------------
goto(j, label) == pc' = [pc EXCEPT ![j] = label]

write(j, w) == written' = [written EXCEPT ![j] = @ \cup {w}]

\* Committed rows of a kind.
rows(w) == {k \in Jobs : w \in durable[k]}

\* Rows of a kind in the open transactions of others.
foreign(j, w) == {k \in Jobs \ {j} : w \in written[k]}

\* @async_transactional: __aexit__ rolls back and closes after an exception.
Rollback(j) ==
  /\ written' = [written EXCEPT ![j] = {}]
  /\ unmarked' = [unmarked EXCEPT ![j] = {}]
  /\ goto(j, "failed")
  /\ UNCHANGED <<dbVars, command, localVars>>

\* The owner of the transaction commits what it and nested use cases wrote.
commit(j) ==
  /\ durable' = [durable EXCEPT ![j] = @ \cup written[j]]
  /\ latest' = (latest \ unmarked[j]) \cup (IF "snapshot" \in written[j] THEN {j} ELSE {})
  /\ written' = [written EXCEPT ![j] = {}]
  /\ unmarked' = [unmarked EXCEPT ![j] = {}]

active(k) == pc[k] \notin {"idle", "done", "failed"}

BeginSubmit(j, c) ==
  /\ pc[j] = "idle"
  /\ command' = [command EXCEPT ![j] = c]
  /\ overlap' = (overlap \/ \E k \in Jobs : active(k) /\ command[k].kind = "submit")
  /\ goto(j, "source")
  /\ UNCHANGED <<dbVars, txVars, localVars, faults>>

\* The user picks a snapshot from the list.
BeginMap(j, s) ==
  /\ pc[j] = "idle"
  /\ s \in rows("snapshot")
  /\ command' = [command EXCEPT ![j] = Mapping]
  /\ snapshot' = [snapshot EXCEPT ![j] = s]
  /\ goto(j, "artifact")
  /\ UNCHANGED <<dbVars, txVars, source, hit, result, historyVars>>

----------------------------------------------------------------------------
(* CreateImportSourceUseCase *)

\* get_by_vendor_code_and_name
sources_named(name) == {k \in rows("source") : command[k].name = name}

\* A source that exists is answered as it is.
ReadSource(j) ==
  /\ pc[j] = "source"
  /\ \/ /\ sources_named(command[j].name) = {}
        /\ goto(j, "insert_source")
        /\ UNCHANGED source
     \/ \E k \in sources_named(command[j].name) :
        /\ source' = [source EXCEPT ![j] = k]
        /\ goto(j, "hash")
  /\ UNCHANGED <<dbVars, txVars, command, snapshot, hit, result, historyVars>>

\* The insert waits for others of its name; it raises when one is committed.
InsertSource(j) ==
  /\ pc[j] = "insert_source"
  /\ \A k \in foreign(j, "source") : command[k].name # command[j].name
  /\ IF sources_named(command[j].name) # {} THEN Rollback(j)
     ELSE /\ write(j, "source")
          /\ source' = [source EXCEPT ![j] = j]
          /\ goto(j, "commit_source")
          /\ UNCHANGED <<dbVars, unmarked, command, snapshot, hit, result>>
  /\ UNCHANGED historyVars

CommitSource(j) ==
  /\ pc[j] = "commit_source"
  /\ commit(j)
  /\ goto(j, "hash")
  /\ UNCHANGED <<command, localVars, historyVars>>

----------------------------------------------------------------------------
(* UploadArtifactUseCase *)

\* Mutant of snapshots_like: the look-up finds nothing.
snapshots_like_none(j) == {}

\* get_by_hash: the committed snapshots of the source with this text.
snapshots_like(j) ==
  {k \in rows("snapshot") : source[k] = source[j] /\ command[k].text = command[j].text}

\* A snapshot of the same text is used again, as it is.
ReadHash(j) ==
  /\ pc[j] = "hash"
  /\ \/ /\ snapshots_like(j) = {}
        /\ goto(j, "mark")
        /\ UNCHANGED snapshot
     \/ \E k \in snapshots_like(j) :
        /\ snapshot' = [snapshot EXCEPT ![j] = k]
        /\ goto(j, "insert_upload")
  /\ UNCHANGED <<dbVars, txVars, command, source, hit, result, historyVars>>

\* mark_previous_not_latest sees what is committed when it starts.
Mark(j) ==
  /\ pc[j] = "mark"
  /\ hit' = [hit EXCEPT ![j] = {k \in latest : source[k] = source[j]}]
  /\ goto(j, "marking")
  /\ UNCHANGED <<dbVars, txVars, command, source, snapshot, result, historyVars>>

free(j, s) == \A k \in Jobs \ {j} : s \notin unmarked[k]

\* Mutant of Marking: the repository commits.
MarkingCommitting(j) ==
  /\ pc[j] = "marking"
  /\ \A s \in hit[j] : free(j, s)
  /\ latest' = latest \ hit[j]
  /\ goto(j, "insert_snapshot")
  /\ UNCHANGED <<durable, txVars, command, localVars, historyVars>>

\* It waits for the rows' locks, and changes those that are still latest.
Marking(j) ==
  /\ pc[j] = "marking"
  /\ \A s \in hit[j] : free(j, s)
  /\ unmarked' = [unmarked EXCEPT ![j] = hit[j] \cap latest]
  /\ goto(j, "insert_snapshot")
  /\ UNCHANGED <<dbVars, written, command, localVars, historyVars>>

InsertSnapshot(j) ==
  /\ pc[j] = "insert_snapshot"
  /\ write(j, "snapshot")
  /\ snapshot' = [snapshot EXCEPT ![j] = j]
  /\ goto(j, "insert_artifact")
  /\ UNCHANGED <<dbVars, unmarked, command, source, hit, result, historyVars>>

InsertArtifact(j) ==
  /\ pc[j] = "insert_artifact"
  /\ write(j, "artifact")
  /\ goto(j, "insert_upload")
  /\ UNCHANGED <<dbVars, unmarked, command, localVars, historyVars>>

InsertUpload(j) ==
  /\ pc[j] = "insert_upload"
  /\ write(j, "upload")
  /\ goto(j, "commit")
  /\ UNCHANGED <<dbVars, unmarked, command, localVars, historyVars>>

\* The wrapper of the outermost use case commits, of an upload or a mapping.
Commit(j) ==
  /\ pc[j] = "commit"
  /\ commit(j)
  /\ goto(j, "done")
  /\ UNCHANGED <<command, localVars, historyVars>>

----------------------------------------------------------------------------
(* RunCiscoMappingUseCase, with SaveCanonicalSnapshotUseCase and            *)
(* SaveTraceRecordsUseCase in its session; parsing and normalising, between *)
(* the artifact and the look-up, await nothing.                             *)

ReadArtifact(j) ==
  /\ pc[j] = "artifact"
  /\ goto(j, IF snapshot[j] \in rows("artifact") THEN "lookup" ELSE "failed")
  /\ UNCHANGED <<dbVars, txVars, command, localVars, historyVars>>

\* Mutant of canonical_of: the source snapshot is no part of the key.
canonical_of_any(s) == rows("success")

\* get_by_source_and_normalizer, those with status SUCCESS.
canonical_of(s) == {k \in rows("success") : snapshot[k] = s}

\* A canonical snapshot that is complete is answered, and no trace is written.
Lookup(j) ==
  /\ pc[j] = "lookup"
  /\ \/ /\ canonical_of(snapshot[j]) = {}
        /\ goto(j, "insert_header")
        /\ UNCHANGED result
     \/ \E k \in canonical_of(snapshot[j]) :
        /\ result' = [result EXCEPT ![j] = k]
        /\ goto(j, "commit")
  /\ UNCHANGED <<dbVars, txVars, command, source, snapshot, hit, historyVars>>

\* The insert of the header waits for others of its key; IntegrityError when one
\* is committed.
InsertHeader(j) ==
  /\ pc[j] = "insert_header"
  /\ \A k \in foreign(j, "header") : snapshot[k] # snapshot[j]
  /\ IF \E k \in rows("header") : snapshot[k] = snapshot[j]
       THEN goto(j, "reread") /\ UNCHANGED <<written, result>>
       ELSE /\ write(j, "header")
            /\ result' = [result EXCEPT ![j] = j]
            /\ goto(j, "save_graph")
  /\ UNCHANGED <<dbVars, unmarked, command, source, snapshot, hit, historyVars>>

\* The session's transaction ended with the flush that raised: SQLAlchemy refuses
\* the look-up (PendingRollbackError) until the session is rolled back.
Reread(j) ==
  /\ pc[j] = "reread"
  /\ Rollback(j)
  /\ UNCHANGED historyVars

\* Zones, objects, members, rules, operands and issues, bound to the new id.
SaveGraph(j) ==
  /\ pc[j] = "save_graph"
  /\ write(j, "graph")
  /\ goto(j, "save_success")
  /\ UNCHANGED <<dbVars, unmarked, command, localVars, historyVars>>

\* Mutant of SaveSuccess: the session is not shared, so that the nested use case
\* owns a transaction and commits.
SaveSuccessCommitting(j) ==
  /\ pc[j] = "save_success"
  /\ durable' = [durable EXCEPT ![j] = written[j] \cup {"success"}]
  /\ written' = [written EXCEPT ![j] = {}]
  /\ goto(j, "save_trace")
  /\ UNCHANGED <<latest, unmarked, command, localVars, historyVars>>

\* update_counts and update_status.
SaveSuccess(j) ==
  /\ pc[j] = "save_success"
  /\ write(j, "success")
  /\ goto(j, "save_trace")
  /\ UNCHANGED <<dbVars, unmarked, command, localVars, historyVars>>

SaveTrace(j) ==
  /\ pc[j] = "save_trace"
  /\ write(j, "trace")
  /\ goto(j, "commit")
  /\ UNCHANGED <<dbVars, unmarked, command, localVars, historyVars>>

----------------------------------------------------------------------------
\* A statement, the parser or the normaliser raises, or the process stops.
Fail(j) ==
  /\ faults < MaxFaults
  /\ active(j)
  /\ Rollback(j)
  /\ faults' = faults + 1
  /\ UNCHANGED overlap

Step(j) ==
  \/ ReadSource(j) \/ InsertSource(j) \/ CommitSource(j)
  \/ ReadHash(j) \/ Mark(j) \/ Marking(j)
  \/ InsertSnapshot(j) \/ InsertArtifact(j) \/ InsertUpload(j)
  \/ ReadArtifact(j) \/ Lookup(j) \/ InsertHeader(j) \/ Reread(j)
  \/ SaveGraph(j) \/ SaveSuccess(j) \/ SaveTrace(j)
  \/ Commit(j)

Next ==
  \E j \in Jobs :
    \/ \E c \in Command : BeginSubmit(j, c)
    \/ \E s \in Jobs : BeginMap(j, s)
    \/ Step(j)
    \/ Fail(j)

Spec == Init /\ [][Next]_vars

----------------------------------------------------------------------------
\* Every variable has its type.
TypeOK ==
  /\ durable \in [Jobs -> SUBSET Writes] /\ latest \subseteq Jobs
  /\ written \in [Jobs -> SUBSET Writes] /\ unmarked \in [Jobs -> SUBSET Jobs]
  /\ pc \in [Jobs -> {"idle", "source", "insert_source", "commit_source", "hash", "mark", "marking",
                      "insert_snapshot", "insert_artifact", "insert_upload", "artifact", "lookup",
                      "insert_header", "reread", "save_graph", "save_success", "save_trace",
                      "commit", "done", "failed"}]
  /\ command \in [Jobs -> Command \cup {NoCommand, Mapping}]
  /\ source \in [Jobs -> Jobs \cup {None}] /\ snapshot \in [Jobs -> Jobs \cup {None}]
  /\ hit \in [Jobs -> SUBSET Jobs]
  /\ result \in [Jobs -> Jobs \cup {None}]
  /\ faults \in 0 .. MaxFaults

\* A source that has a snapshot has a latest one, whatever uploads overlap, are
\* repeated or fail half-way.
LatestNeverLost ==
  \A j \in rows("snapshot") : \E k \in latest : source[k] = source[j]

\* A canonical snapshot that can be seen is complete, with its trace records, and
\* the only one of its source snapshot.
CanonicalWhole ==
  \A j \in rows("header") :
    /\ {"graph", "success", "trace"} \subseteq durable[j]
    /\ \A k \in rows("header") : snapshot[k] = snapshot[j] => k = j

\* A mapping that succeeds answers a canonical snapshot of the very snapshot it
\* was asked for, its own or the one somebody else saved.
MapAnswers ==
  \A j \in Jobs :
    (pc[j] = "done" /\ command[j] = Mapping) =>
      result[j] \in rows("header") /\ snapshot[result[j]] = snapshot[j]

\* Without overlapping submissions a source has one latest snapshot, and a text
\* one snapshot in it, however often files are submitted again.
QuietlyOneLatest ==
  ~ overlap =>
    /\ \A j, k \in latest : source[j] = source[k] => j = k
    /\ \A j, k \in rows("snapshot") :
         (source[j] = source[k] /\ command[j].text = command[k].text) => j = k
=============================================================================
