--------------------------- MODULE ImportsProofs ---------------------------
(***************************************************************************)
(* Proofs about Imports for any number of jobs, names, texts and faults.   *)
(***************************************************************************)
EXTENDS Imports, TLAPS

\* Labels at which the open transaction has written nothing.
Clean == {"idle", "source", "insert_source", "hash", "mark", "marking", "insert_snapshot",
          "artifact", "lookup", "insert_header", "reread", "done", "failed"}

\* Labels of a submission past the look-up of the text.
Uploading == {"mark", "marking", "insert_snapshot", "insert_artifact", "insert_upload"}

\* What a job has written follows from where it is.
WrittenInv ==
  \A j \in Jobs :
    /\ pc[j] \in Clean => written[j] = {}
    /\ pc[j] = "commit_source" => written[j] = {"source"}
    /\ pc[j] = "insert_artifact" => written[j] = {"snapshot"}
    /\ pc[j] = "insert_upload" => written[j] \in {{}, {"snapshot", "artifact"}}
    /\ pc[j] = "save_graph" => written[j] = {"header"}
    /\ pc[j] = "save_success" => written[j] = {"header", "graph"}
    /\ pc[j] = "save_trace" => written[j] = {"header", "graph", "success"}
    /\ pc[j] = "commit" =>
         written[j] \in {{}, {"upload"}, {"snapshot", "artifact", "upload"},
                         {"header", "graph", "success", "trace"}}

\* Only a source is committed before the end, a canonical snapshot only whole.
DurableInv ==
  \A j \in Jobs :
    /\ pc[j] # "done" => durable[j] \subseteq {"source"}
    /\ ("header" \in durable[j] \/ "success" \in durable[j]) =>
         {"header", "graph", "success", "trace"} \subseteq durable[j]

\* Whoever takes the mark off snapshots inserts another one of their source.
MarkInv ==
  /\ latest \subseteq rows("snapshot")
  /\ \A j \in Jobs :
       /\ pc[j] = "marking" =>
            \A s \in hit[j] : s \in rows("snapshot") /\ source[s] = source[j]
       /\ \A s \in unmarked[j] : s \in rows("snapshot") /\ source[s] = source[j]
       /\ unmarked[j] # {} => pc[j] = "insert_snapshot" \/ "snapshot" \in written[j]

\* A header, committed or not, has its source snapshot for itself.
HeaderInv ==
  \A j, k \in Jobs :
    (/\ "header" \in durable[j] \cup written[j]
     /\ "header" \in durable[k] \cup written[k]
     /\ snapshot[j] = snapshot[k]) => j = k

\* A mapping about to commit has its own header, or answers a committed one.
AnswerInv ==
  \A j \in Jobs :
    /\ pc[j] \in Uploading => command[j] # Mapping
    /\ pc[j] \in {"source", "insert_source", "commit_source", "hash"} => command[j] # Mapping
    /\ "header" \in written[j] => result[j] = j
    /\ (pc[j] = "commit" /\ command[j] = Mapping) =>
         \/ "header" \in written[j]
         \/ result[j] \in rows("header") /\ snapshot[result[j]] = snapshot[j]

IInv ==
  /\ TypeOK /\ WrittenInv /\ DurableInv /\ MarkInv /\ HeaderInv /\ AnswerInv
  /\ LatestNeverLost /\ MapAnswers

----------------------------------------------------------------------------
\* Nothing is written before the first job begins.
LEMMA InitIInv == Init => IInv
BY ImportsAssumption
   DEF Init, IInv, TypeOK, WrittenInv, DurableInv, MarkInv, HeaderInv, AnswerInv,
       LatestNeverLost, MapAnswers, rows, Clean, Uploading, Mapping

----------------------------------------------------------------------------
(***************************************************************************)
(* Two frames: the steps that change the source of a job, and its snapshot *)
(***************************************************************************)

\* A job that gets its source has no snapshot yet.
LEMMA SourceStep ==
  ASSUME IInv, NEW j \in Jobs, ReadSource(j) \/ InsertSource(j)
  PROVE  /\ "snapshot" \notin durable[j] /\ j \notin latest /\ unmarked[j] = {}
         /\ "snapshot" \notin written[j]
         /\ durable' = durable /\ latest' = latest /\ hit' = hit
         /\ unmarked'[j] = {} /\ pc'[j] # "marking"
         /\ \A i \in Jobs \ {j} : /\ source'[i] = source[i] /\ pc'[i] = pc[i]
                                  /\ written'[i] = written[i] /\ unmarked'[i] = unmarked[i]
<1> USE DEF IInv, TypeOK
<1>1. pc[j] \in {"source", "insert_source"}
  BY DEF ReadSource, InsertSource
<1>2. "snapshot" \notin durable[j] /\ j \notin latest /\ written[j] = {} /\ unmarked[j] = {}
  BY <1>1 DEF WrittenInv, DurableInv, MarkInv, Clean, rows
<1>3. CASE ReadSource(j)
  BY <1>2, <1>3 DEF ReadSource, goto, dbVars, txVars
<1>4. CASE InsertSource(j) /\ sources_named(command[j].name) # {}
  BY <1>2, <1>4 DEF InsertSource, Rollback, goto, dbVars, localVars
<1>5. CASE InsertSource(j) /\ sources_named(command[j].name) = {}
  BY <1>2, <1>5 DEF InsertSource, write, goto, dbVars
<1> QED BY <1>3, <1>4, <1>5

\* It takes no part in LatestNeverLost yet.
LEMMA SourceKeepsLatest ==
  ASSUME IInv, NEW j \in Jobs, ReadSource(j) \/ InsertSource(j)
  PROVE  LatestNeverLost'
<1>1. /\ "snapshot" \notin durable[j] /\ j \notin latest
      /\ durable' = durable /\ latest' = latest
      /\ \A i \in Jobs \ {j} : source'[i] = source[i]
  BY SourceStep
<1>2. latest \subseteq Jobs
  BY DEF IInv, TypeOK
<1> SUFFICES ASSUME NEW i \in Jobs, "snapshot" \in durable[i]
             PROVE  \E k \in latest : source'[k] = source'[i]
  BY <1>1 DEF LatestNeverLost, rows
<1>3. PICK k \in latest : source[k] = source[i]
  BY DEF IInv, LatestNeverLost, rows
<1> QED BY <1>1, <1>2, <1>3

\* A job that gets its snapshot has no header.
LEMMA SnapshotStep ==
  ASSUME IInv, NEW j \in Jobs,
         ReadHash(j) \/ InsertSnapshot(j) \/ \E s \in Jobs : BeginMap(j, s)
  PROVE  /\ "header" \notin durable[j] \cup written[j] /\ "header" \notin written'[j]
         /\ durable' = durable /\ result' = result /\ pc'[j] \notin {"commit", "done"}
         /\ \A i \in Jobs \ {j} : /\ snapshot'[i] = snapshot[i] /\ pc'[i] = pc[i]
                                  /\ written'[i] = written[i] /\ command'[i] = command[i]
<1> USE DEF IInv, TypeOK
<1>1. pc[j] \in {"hash", "insert_snapshot", "idle"}
  BY DEF ReadHash, InsertSnapshot, BeginMap
<1>2. "header" \notin durable[j] \cup written[j]
  BY <1>1 DEF WrittenInv, DurableInv, Clean
<1>3. CASE ReadHash(j)
  BY <1>2, <1>3 DEF ReadHash, goto, dbVars, txVars
<1>4. CASE InsertSnapshot(j)
  BY <1>2, <1>4 DEF InsertSnapshot, write, goto, dbVars
<1>5. ASSUME NEW s \in Jobs, BeginMap(j, s) PROVE pc' = [pc EXCEPT ![j] = "artifact"]
  BY <1>5 DEF BeginMap, goto
<1>6. CASE \E s \in Jobs : BeginMap(j, s)
  BY <1>2, <1>5, <1>6 DEF BeginMap, goto, dbVars, txVars
<1> QED BY <1>3, <1>4, <1>6

----------------------------------------------------------------------------
(***************************************************************************)
(* Every step keeps every part of the invariant                            *)
(***************************************************************************)

\* Every step keeps the types.
LEMMA NextTypeOK == IInv /\ [Next]_vars => TypeOK'
<1> SUFFICES ASSUME IInv, [Next]_vars PROVE TypeOK'
  OBVIOUS
<1> USE DEF IInv, TypeOK, Command, NoCommand, Mapping, Writes, rows,
            goto, write, commit, Rollback, dbVars, txVars, localVars, historyVars
<1>1. ASSUME NEW j \in Jobs, ReadSource(j) PROVE TypeOK'
  <2>1. source' \in [Jobs -> Jobs \cup {None}]
    BY <1>1 DEF ReadSource, sources_named
  <2>2. pc' = [pc EXCEPT ![j] = "insert_source"] \/ pc' = [pc EXCEPT ![j] = "hash"]
    BY <1>1 DEF ReadSource
  <2> QED BY <1>1, <2>1, <2>2 DEF ReadSource
<1>2. ASSUME NEW j \in Jobs, InsertSource(j) PROVE TypeOK'
  <2>1. CASE sources_named(command[j].name) # {}
    BY <1>2, <2>1 DEF InsertSource
  <2>2. CASE sources_named(command[j].name) = {}
    BY <1>2, <2>2 DEF InsertSource
  <2> QED BY <2>1, <2>2
<1>3. ASSUME NEW j \in Jobs, CommitSource(j) PROVE TypeOK'
  BY <1>3 DEF CommitSource
<1>4. ASSUME NEW j \in Jobs, ReadHash(j) PROVE TypeOK'
  <2>1. snapshot' \in [Jobs -> Jobs \cup {None}]
    BY <1>4 DEF ReadHash, snapshots_like
  <2>2. pc' = [pc EXCEPT ![j] = "mark"] \/ pc' = [pc EXCEPT ![j] = "insert_upload"]
    BY <1>4 DEF ReadHash
  <2> QED BY <1>4, <2>1, <2>2 DEF ReadHash
<1>5. ASSUME NEW j \in Jobs, Mark(j) PROVE TypeOK'
  BY <1>5 DEF Mark
<1>6. ASSUME NEW j \in Jobs, Marking(j) PROVE TypeOK'
  BY <1>6 DEF Marking
<1>7. ASSUME NEW j \in Jobs, InsertSnapshot(j) PROVE TypeOK'
  BY <1>7 DEF InsertSnapshot
<1>8. ASSUME NEW j \in Jobs, InsertArtifact(j) PROVE TypeOK'
  BY <1>8 DEF InsertArtifact
<1>9. ASSUME NEW j \in Jobs, InsertUpload(j) PROVE TypeOK'
  BY <1>9 DEF InsertUpload
<1>10. ASSUME NEW j \in Jobs, ReadArtifact(j) PROVE TypeOK'
  BY <1>10 DEF ReadArtifact
<1>11. ASSUME NEW j \in Jobs, Lookup(j) PROVE TypeOK'
  <2>1. result' \in [Jobs -> Jobs \cup {None}]
    BY <1>11 DEF Lookup, canonical_of
  <2>2. pc' = [pc EXCEPT ![j] = "insert_header"] \/ pc' = [pc EXCEPT ![j] = "commit"]
    BY <1>11 DEF Lookup
  <2> QED BY <1>11, <2>1, <2>2 DEF Lookup
<1>12. ASSUME NEW j \in Jobs, InsertHeader(j) PROVE TypeOK'
  BY <1>12 DEF InsertHeader
<1>13. ASSUME NEW j \in Jobs, Reread(j) PROVE TypeOK'
  BY <1>13 DEF Reread
<1>14. ASSUME NEW j \in Jobs, SaveGraph(j) PROVE TypeOK'
  BY <1>14 DEF SaveGraph
<1>15. ASSUME NEW j \in Jobs, SaveSuccess(j) PROVE TypeOK'
  BY <1>15 DEF SaveSuccess
<1>16. ASSUME NEW j \in Jobs, SaveTrace(j) PROVE TypeOK'
  BY <1>16 DEF SaveTrace
<1>17. ASSUME NEW j \in Jobs, Commit(j) PROVE TypeOK'
  BY <1>17 DEF Commit
<1>18. ASSUME NEW j \in Jobs, NEW c \in Command, BeginSubmit(j, c) PROVE TypeOK'
  BY <1>18 DEF BeginSubmit
<1>19. ASSUME NEW j \in Jobs, NEW s \in Jobs, BeginMap(j, s) PROVE TypeOK'
  BY <1>19 DEF BeginMap
<1>20. ASSUME NEW j \in Jobs, Fail(j) PROVE TypeOK'
  BY <1>20, ImportsAssumption DEF Fail, active
<1>21. CASE UNCHANGED vars
  BY <1>21 DEF vars
<1> QED
  BY <1>1, <1>2, <1>3, <1>4, <1>5, <1>6, <1>7, <1>8, <1>9, <1>10, <1>11, <1>12,
     <1>13, <1>14, <1>15, <1>16, <1>17, <1>18, <1>19, <1>20, <1>21
  DEF Next, Step

\* Every step writes what the next label says is written.
LEMMA NextWrittenInv == IInv /\ [Next]_vars => WrittenInv'
<1> SUFFICES ASSUME IInv, [Next]_vars PROVE WrittenInv'
  OBVIOUS
<1> USE DEF IInv, TypeOK, WrittenInv, Clean,
            goto, write, commit, Rollback, dbVars, txVars, localVars, historyVars
<1>1. ASSUME NEW j \in Jobs, ReadSource(j) PROVE WrittenInv'
  BY <1>1 DEF ReadSource
<1>2. ASSUME NEW j \in Jobs, InsertSource(j) PROVE WrittenInv'
  BY <1>2 DEF InsertSource
<1>3. ASSUME NEW j \in Jobs, CommitSource(j) PROVE WrittenInv'
  BY <1>3 DEF CommitSource
<1>4. ASSUME NEW j \in Jobs, ReadHash(j) PROVE WrittenInv'
  BY <1>4 DEF ReadHash
<1>5. ASSUME NEW j \in Jobs, Mark(j) PROVE WrittenInv'
  BY <1>5 DEF Mark
<1>6. ASSUME NEW j \in Jobs, Marking(j) PROVE WrittenInv'
  BY <1>6 DEF Marking
<1>7. ASSUME NEW j \in Jobs, InsertSnapshot(j) PROVE WrittenInv'
  BY <1>7 DEF InsertSnapshot
<1>8. ASSUME NEW j \in Jobs, InsertArtifact(j) PROVE WrittenInv'
  BY <1>8 DEF InsertArtifact
<1>9. ASSUME NEW j \in Jobs, InsertUpload(j) PROVE WrittenInv'
  BY <1>9 DEF InsertUpload
<1>10. ASSUME NEW j \in Jobs, ReadArtifact(j) PROVE WrittenInv'
  BY <1>10 DEF ReadArtifact
<1>11. ASSUME NEW j \in Jobs, Lookup(j) PROVE WrittenInv'
  BY <1>11 DEF Lookup
<1>12. ASSUME NEW j \in Jobs, InsertHeader(j) PROVE WrittenInv'
  BY <1>12 DEF InsertHeader
<1>13. ASSUME NEW j \in Jobs, Reread(j) PROVE WrittenInv'
  BY <1>13 DEF Reread
<1>14. ASSUME NEW j \in Jobs, SaveGraph(j) PROVE WrittenInv'
  BY <1>14 DEF SaveGraph
<1>15. ASSUME NEW j \in Jobs, SaveSuccess(j) PROVE WrittenInv'
  BY <1>15 DEF SaveSuccess
<1>16. ASSUME NEW j \in Jobs, SaveTrace(j) PROVE WrittenInv'
  BY <1>16 DEF SaveTrace
<1>17. ASSUME NEW j \in Jobs, Commit(j) PROVE WrittenInv'
  BY <1>17 DEF Commit
<1>18. ASSUME NEW j \in Jobs, NEW c \in Command, BeginSubmit(j, c) PROVE WrittenInv'
  BY <1>18 DEF BeginSubmit
<1>19. ASSUME NEW j \in Jobs, NEW s \in Jobs, BeginMap(j, s) PROVE WrittenInv'
  BY <1>19 DEF BeginMap
<1>20. ASSUME NEW j \in Jobs, Fail(j) PROVE WrittenInv'
  BY <1>20, ImportsAssumption DEF Fail, active
<1>21. CASE UNCHANGED vars
  BY <1>21 DEF vars
<1> QED
  BY <1>1, <1>2, <1>3, <1>4, <1>5, <1>6, <1>7, <1>8, <1>9, <1>10, <1>11, <1>12,
     <1>13, <1>14, <1>15, <1>16, <1>17, <1>18, <1>19, <1>20, <1>21
  DEF Next, Step

\* Every commit but the first is the end, and a canonical snapshot is committed whole.
LEMMA NextDurableInv == IInv /\ [Next]_vars => DurableInv'
<1> SUFFICES ASSUME IInv, [Next]_vars PROVE DurableInv'
  OBVIOUS
<1> USE DEF IInv, TypeOK, DurableInv, WrittenInv, Clean,
            goto, write, commit, Rollback, dbVars, txVars, localVars, historyVars
<1>1. ASSUME NEW j \in Jobs, ReadSource(j) PROVE DurableInv'
  BY <1>1 DEF ReadSource
<1>2. ASSUME NEW j \in Jobs, InsertSource(j) PROVE DurableInv'
  BY <1>2 DEF InsertSource
<1>3. ASSUME NEW j \in Jobs, CommitSource(j) PROVE DurableInv'
  <2>1. durable' = [durable EXCEPT ![j] = @ \cup {"source"}]
    BY <1>3 DEF CommitSource
  <2>2. durable[j] \subseteq {"source"}
    BY <1>3 DEF CommitSource
  <2> QED BY <1>3, <2>1, <2>2 DEF CommitSource
<1>4. ASSUME NEW j \in Jobs, ReadHash(j) PROVE DurableInv'
  BY <1>4 DEF ReadHash
<1>5. ASSUME NEW j \in Jobs, Mark(j) PROVE DurableInv'
  BY <1>5 DEF Mark
<1>6. ASSUME NEW j \in Jobs, Marking(j) PROVE DurableInv'
  BY <1>6 DEF Marking
<1>7. ASSUME NEW j \in Jobs, InsertSnapshot(j) PROVE DurableInv'
  BY <1>7 DEF InsertSnapshot
<1>8. ASSUME NEW j \in Jobs, InsertArtifact(j) PROVE DurableInv'
  BY <1>8 DEF InsertArtifact
<1>9. ASSUME NEW j \in Jobs, InsertUpload(j) PROVE DurableInv'
  BY <1>9 DEF InsertUpload
<1>10. ASSUME NEW j \in Jobs, ReadArtifact(j) PROVE DurableInv'
  BY <1>10 DEF ReadArtifact
<1>11. ASSUME NEW j \in Jobs, Lookup(j) PROVE DurableInv'
  BY <1>11 DEF Lookup
<1>12. ASSUME NEW j \in Jobs, InsertHeader(j) PROVE DurableInv'
  BY <1>12 DEF InsertHeader
<1>13. ASSUME NEW j \in Jobs, Reread(j) PROVE DurableInv'
  BY <1>13 DEF Reread
<1>14. ASSUME NEW j \in Jobs, SaveGraph(j) PROVE DurableInv'
  BY <1>14 DEF SaveGraph
<1>15. ASSUME NEW j \in Jobs, SaveSuccess(j) PROVE DurableInv'
  BY <1>15 DEF SaveSuccess
<1>16. ASSUME NEW j \in Jobs, SaveTrace(j) PROVE DurableInv'
  BY <1>16 DEF SaveTrace
<1>17. ASSUME NEW j \in Jobs, Commit(j) PROVE DurableInv'
  <2>1. durable' = [durable EXCEPT ![j] = durable[j] \cup written[j]]
        /\ pc' = [pc EXCEPT ![j] = "done"] /\ durable[j] \subseteq {"source"}
    BY <1>17 DEF Commit
  <2>2. ("header" \in written[j] \/ "success" \in written[j]) =>
          {"header", "graph", "success", "trace"} \subseteq written[j]
    BY <1>17 DEF Commit
  <2> QED BY <2>1, <2>2
<1>18. ASSUME NEW j \in Jobs, NEW c \in Command, BeginSubmit(j, c) PROVE DurableInv'
  BY <1>18 DEF BeginSubmit
<1>19. ASSUME NEW j \in Jobs, NEW s \in Jobs, BeginMap(j, s) PROVE DurableInv'
  BY <1>19 DEF BeginMap
<1>20. ASSUME NEW j \in Jobs, Fail(j) PROVE DurableInv'
  BY <1>20, ImportsAssumption DEF Fail, active
<1>21. CASE UNCHANGED vars
  BY <1>21 DEF vars
<1> QED
  BY <1>1, <1>2, <1>3, <1>4, <1>5, <1>6, <1>7, <1>8, <1>9, <1>10, <1>11, <1>12,
     <1>13, <1>14, <1>15, <1>16, <1>17, <1>18, <1>19, <1>20, <1>21
  DEF Next, Step

\* Marks are taken off snapshots of the own source only, and with a new snapshot.
LEMMA NextMarkInv == IInv /\ [Next]_vars => MarkInv'
<1> SUFFICES ASSUME IInv, [Next]_vars PROVE MarkInv'
  OBVIOUS
<1> USE DEF IInv, TypeOK, MarkInv, WrittenInv, DurableInv, rows, Clean,
            goto, write, commit, Rollback, dbVars, txVars, localVars, historyVars
<1>1. ASSUME NEW j \in Jobs, ReadSource(j) PROVE MarkInv'
  BY <1>1, SourceStep
<1>2. ASSUME NEW j \in Jobs, InsertSource(j) PROVE MarkInv'
  BY <1>2, SourceStep
<1>3. ASSUME NEW j \in Jobs, CommitSource(j) PROVE MarkInv'
  BY <1>3 DEF CommitSource
<1>4. ASSUME NEW j \in Jobs, ReadHash(j) PROVE MarkInv'
  BY <1>4 DEF ReadHash
<1>5. ASSUME NEW j \in Jobs, Mark(j) PROVE MarkInv'
  BY <1>5 DEF Mark
<1>6. ASSUME NEW j \in Jobs, Marking(j) PROVE MarkInv'
  BY <1>6 DEF Marking
<1>7. ASSUME NEW j \in Jobs, InsertSnapshot(j) PROVE MarkInv'
  BY <1>7 DEF InsertSnapshot
<1>8. ASSUME NEW j \in Jobs, InsertArtifact(j) PROVE MarkInv'
  BY <1>8 DEF InsertArtifact
<1>9. ASSUME NEW j \in Jobs, InsertUpload(j) PROVE MarkInv'
  BY <1>9 DEF InsertUpload
<1>10. ASSUME NEW j \in Jobs, ReadArtifact(j) PROVE MarkInv'
  BY <1>10 DEF ReadArtifact
<1>11. ASSUME NEW j \in Jobs, Lookup(j) PROVE MarkInv'
  BY <1>11 DEF Lookup
<1>12. ASSUME NEW j \in Jobs, InsertHeader(j) PROVE MarkInv'
  BY <1>12 DEF InsertHeader
<1>13. ASSUME NEW j \in Jobs, Reread(j) PROVE MarkInv'
  BY <1>13 DEF Reread
<1>14. ASSUME NEW j \in Jobs, SaveGraph(j) PROVE MarkInv'
  BY <1>14 DEF SaveGraph
<1>15. ASSUME NEW j \in Jobs, SaveSuccess(j) PROVE MarkInv'
  BY <1>15 DEF SaveSuccess
<1>16. ASSUME NEW j \in Jobs, SaveTrace(j) PROVE MarkInv'
  BY <1>16 DEF SaveTrace
<1>17. ASSUME NEW j \in Jobs, Commit(j) PROVE MarkInv'
  BY <1>17 DEF Commit
<1>18. ASSUME NEW j \in Jobs, NEW c \in Command, BeginSubmit(j, c) PROVE MarkInv'
  BY <1>18 DEF BeginSubmit
<1>19. ASSUME NEW j \in Jobs, NEW s \in Jobs, BeginMap(j, s) PROVE MarkInv'
  BY <1>19 DEF BeginMap
<1>20. ASSUME NEW j \in Jobs, Fail(j) PROVE MarkInv'
  BY <1>20, ImportsAssumption DEF Fail, active
<1>21. CASE UNCHANGED vars
  BY <1>21 DEF vars
<1> QED
  BY <1>1, <1>2, <1>3, <1>4, <1>5, <1>6, <1>7, <1>8, <1>9, <1>10, <1>11, <1>12,
     <1>13, <1>14, <1>15, <1>16, <1>17, <1>18, <1>19, <1>20, <1>21
  DEF Next, Step

\* No header is inserted beside another of its source snapshot.
LEMMA NextHeaderInv == IInv /\ [Next]_vars => HeaderInv'
<1> SUFFICES ASSUME IInv, [Next]_vars PROVE HeaderInv'
  OBVIOUS
<1> USE DEF IInv, TypeOK, HeaderInv, WrittenInv, DurableInv, rows, foreign, Clean,
            goto, write, commit, Rollback, dbVars, txVars, localVars, historyVars
<1>1. ASSUME NEW j \in Jobs, ReadSource(j) PROVE HeaderInv'
  BY <1>1 DEF ReadSource
<1>2. ASSUME NEW j \in Jobs, InsertSource(j) PROVE HeaderInv'
  BY <1>2 DEF InsertSource
<1>3. ASSUME NEW j \in Jobs, CommitSource(j) PROVE HeaderInv'
  BY <1>3 DEF CommitSource
<1>4. ASSUME NEW j \in Jobs, ReadHash(j) PROVE HeaderInv'
  BY <1>4, SnapshotStep
<1>5. ASSUME NEW j \in Jobs, Mark(j) PROVE HeaderInv'
  BY <1>5 DEF Mark
<1>6. ASSUME NEW j \in Jobs, Marking(j) PROVE HeaderInv'
  BY <1>6 DEF Marking
<1>7. ASSUME NEW j \in Jobs, InsertSnapshot(j) PROVE HeaderInv'
  BY <1>7, SnapshotStep
<1>8. ASSUME NEW j \in Jobs, InsertArtifact(j) PROVE HeaderInv'
  BY <1>8 DEF InsertArtifact
<1>9. ASSUME NEW j \in Jobs, InsertUpload(j) PROVE HeaderInv'
  BY <1>9 DEF InsertUpload
<1>10. ASSUME NEW j \in Jobs, ReadArtifact(j) PROVE HeaderInv'
  BY <1>10 DEF ReadArtifact
<1>11. ASSUME NEW j \in Jobs, Lookup(j) PROVE HeaderInv'
  BY <1>11 DEF Lookup
<1>12. ASSUME NEW j \in Jobs, InsertHeader(j) PROVE HeaderInv'
  BY <1>12 DEF InsertHeader
<1>13. ASSUME NEW j \in Jobs, Reread(j) PROVE HeaderInv'
  BY <1>13 DEF Reread
<1>14. ASSUME NEW j \in Jobs, SaveGraph(j) PROVE HeaderInv'
  BY <1>14 DEF SaveGraph
<1>15. ASSUME NEW j \in Jobs, SaveSuccess(j) PROVE HeaderInv'
  BY <1>15 DEF SaveSuccess
<1>16. ASSUME NEW j \in Jobs, SaveTrace(j) PROVE HeaderInv'
  BY <1>16 DEF SaveTrace
<1>17. ASSUME NEW j \in Jobs, Commit(j) PROVE HeaderInv'
  BY <1>17 DEF Commit
<1>18. ASSUME NEW j \in Jobs, NEW c \in Command, BeginSubmit(j, c) PROVE HeaderInv'
  BY <1>18 DEF BeginSubmit
<1>19. ASSUME NEW j \in Jobs, NEW s \in Jobs, BeginMap(j, s) PROVE HeaderInv'
  BY <1>19, SnapshotStep
<1>20. ASSUME NEW j \in Jobs, Fail(j) PROVE HeaderInv'
  BY <1>20, ImportsAssumption DEF Fail, active
<1>21. CASE UNCHANGED vars
  BY <1>21 DEF vars
<1> QED
  BY <1>1, <1>2, <1>3, <1>4, <1>5, <1>6, <1>7, <1>8, <1>9, <1>10, <1>11, <1>12,
     <1>13, <1>14, <1>15, <1>16, <1>17, <1>18, <1>19, <1>20, <1>21
  DEF Next, Step

\* A mapping gets its own header or a complete, committed one of its snapshot.
LEMMA NextAnswerInv == IInv /\ [Next]_vars => AnswerInv'
<1> SUFFICES ASSUME IInv, [Next]_vars PROVE AnswerInv'
  OBVIOUS
<1> USE DEF IInv, TypeOK, AnswerInv, WrittenInv, DurableInv, rows, canonical_of, Clean, Uploading, Command, NoCommand, Mapping,
            goto, write, commit, Rollback, dbVars, txVars, localVars, historyVars
<1>1. ASSUME NEW j \in Jobs, ReadSource(j) PROVE AnswerInv'
  BY <1>1 DEF ReadSource
<1>2. ASSUME NEW j \in Jobs, InsertSource(j) PROVE AnswerInv'
  BY <1>2 DEF InsertSource
<1>3. ASSUME NEW j \in Jobs, CommitSource(j) PROVE AnswerInv'
  BY <1>3 DEF CommitSource
<1>4. ASSUME NEW j \in Jobs, ReadHash(j) PROVE AnswerInv'
  <2>1. command' = command /\ command[j] # Mapping
    BY <1>4 DEF ReadHash
  <2> QED BY <1>4, <2>1, SnapshotStep
<1>5. ASSUME NEW j \in Jobs, Mark(j) PROVE AnswerInv'
  BY <1>5 DEF Mark
<1>6. ASSUME NEW j \in Jobs, Marking(j) PROVE AnswerInv'
  BY <1>6 DEF Marking
<1>7. ASSUME NEW j \in Jobs, InsertSnapshot(j) PROVE AnswerInv'
  <2>1. command' = command /\ command[j] # Mapping
    BY <1>7 DEF InsertSnapshot
  <2> QED BY <1>7, <2>1, SnapshotStep
<1>8. ASSUME NEW j \in Jobs, InsertArtifact(j) PROVE AnswerInv'
  BY <1>8 DEF InsertArtifact
<1>9. ASSUME NEW j \in Jobs, InsertUpload(j) PROVE AnswerInv'
  BY <1>9 DEF InsertUpload
<1>10. ASSUME NEW j \in Jobs, ReadArtifact(j) PROVE AnswerInv'
  BY <1>10 DEF ReadArtifact
<1>11. ASSUME NEW j \in Jobs, Lookup(j) PROVE AnswerInv'
  <2>1. CASE pc' = [pc EXCEPT ![j] = "insert_header"] /\ UNCHANGED result
    BY <1>11, <2>1 DEF Lookup
  <2>2. ASSUME NEW k \in canonical_of(snapshot[j]),
               result' = [result EXCEPT ![j] = k], pc' = [pc EXCEPT ![j] = "commit"]
        PROVE  AnswerInv'
    <3>1. k \in Jobs /\ "header" \in durable[k] /\ snapshot[k] = snapshot[j]
      BY DEF canonical_of
    <3>2. UNCHANGED <<durable, written, command, snapshot>> /\ written[j] = {}
      BY <1>11 DEF Lookup
    <3> QED BY <2>2, <3>1, <3>2
  <2> QED BY <1>11, <2>1, <2>2 DEF Lookup
<1>12. ASSUME NEW j \in Jobs, InsertHeader(j) PROVE AnswerInv'
  BY <1>12 DEF InsertHeader
<1>13. ASSUME NEW j \in Jobs, Reread(j) PROVE AnswerInv'
  BY <1>13 DEF Reread
<1>14. ASSUME NEW j \in Jobs, SaveGraph(j) PROVE AnswerInv'
  BY <1>14 DEF SaveGraph
<1>15. ASSUME NEW j \in Jobs, SaveSuccess(j) PROVE AnswerInv'
  BY <1>15 DEF SaveSuccess
<1>16. ASSUME NEW j \in Jobs, SaveTrace(j) PROVE AnswerInv'
  <2>1. "header" \in written[j] /\ result[j] = j
    BY <1>16 DEF SaveTrace
  <2>2. written' = [written EXCEPT ![j] = @ \cup {"trace"}] /\ pc' = [pc EXCEPT ![j] = "commit"]
        /\ UNCHANGED <<durable, command, snapshot, result>>
    BY <1>16 DEF SaveTrace
  <2>3. "header" \in written'[j] /\ result'[j] = j
    BY <2>1, <2>2
  <2> QED BY <2>2, <2>3
<1>17. ASSUME NEW j \in Jobs, Commit(j) PROVE AnswerInv'
  BY <1>17 DEF Commit
<1>18. ASSUME NEW j \in Jobs, NEW c \in Command, BeginSubmit(j, c) PROVE AnswerInv'
  BY <1>18 DEF BeginSubmit
<1>19. ASSUME NEW j \in Jobs, NEW s \in Jobs, BeginMap(j, s) PROVE AnswerInv'
  <2>1. pc'[j] = "artifact" /\ "header" \notin written'[j] /\ durable' = durable /\ result' = result
    BY <1>19, SnapshotStep DEF BeginMap
  <2>2. /\ \A i \in Jobs \ {j} : /\ snapshot'[i] = snapshot[i] /\ pc'[i] = pc[i]
                                 /\ written'[i] = written[i] /\ command'[i] = command[i]
        /\ j \notin rows("header")
    BY <1>19, SnapshotStep
  <2> QED BY <2>1, <2>2
<1>20. ASSUME NEW j \in Jobs, Fail(j) PROVE AnswerInv'
  BY <1>20, ImportsAssumption DEF Fail, active
<1>21. CASE UNCHANGED vars
  BY <1>21 DEF vars
<1> QED
  BY <1>1, <1>2, <1>3, <1>4, <1>5, <1>6, <1>7, <1>8, <1>9, <1>10, <1>11, <1>12,
     <1>13, <1>14, <1>15, <1>16, <1>17, <1>18, <1>19, <1>20, <1>21
  DEF Next, Step

\* The commit that takes marks off a source's snapshots brings one.
LEMMA NextLatestNeverLost == IInv /\ [Next]_vars => LatestNeverLost'
<1> SUFFICES ASSUME IInv, [Next]_vars PROVE LatestNeverLost'
  OBVIOUS
<1> USE DEF IInv, TypeOK, LatestNeverLost, WrittenInv, DurableInv, MarkInv, rows, Clean,
            goto, write, commit, Rollback, dbVars, txVars, localVars, historyVars
<1>1. ASSUME NEW j \in Jobs, ReadSource(j) PROVE LatestNeverLost'
  BY <1>1, SourceKeepsLatest
<1>2. ASSUME NEW j \in Jobs, InsertSource(j) PROVE LatestNeverLost'
  BY <1>2, SourceKeepsLatest
<1>3. ASSUME NEW j \in Jobs, CommitSource(j) PROVE LatestNeverLost'
  <2>1. latest' = latest /\ source' = source
    BY <1>3 DEF CommitSource
  <2>2. durable' = [durable EXCEPT ![j] = @ \cup {"source"}]
    BY <1>3 DEF CommitSource
  <2> QED BY <2>1, <2>2
<1>4. ASSUME NEW j \in Jobs, ReadHash(j) PROVE LatestNeverLost'
  BY <1>4 DEF ReadHash
<1>5. ASSUME NEW j \in Jobs, Mark(j) PROVE LatestNeverLost'
  BY <1>5 DEF Mark
<1>6. ASSUME NEW j \in Jobs, Marking(j) PROVE LatestNeverLost'
  BY <1>6 DEF Marking
<1>7. ASSUME NEW j \in Jobs, InsertSnapshot(j) PROVE LatestNeverLost'
  BY <1>7 DEF InsertSnapshot
<1>8. ASSUME NEW j \in Jobs, InsertArtifact(j) PROVE LatestNeverLost'
  BY <1>8 DEF InsertArtifact
<1>9. ASSUME NEW j \in Jobs, InsertUpload(j) PROVE LatestNeverLost'
  BY <1>9 DEF InsertUpload
<1>10. ASSUME NEW j \in Jobs, ReadArtifact(j) PROVE LatestNeverLost'
  BY <1>10 DEF ReadArtifact
<1>11. ASSUME NEW j \in Jobs, Lookup(j) PROVE LatestNeverLost'
  BY <1>11 DEF Lookup
<1>12. ASSUME NEW j \in Jobs, InsertHeader(j) PROVE LatestNeverLost'
  BY <1>12 DEF InsertHeader
<1>13. ASSUME NEW j \in Jobs, Reread(j) PROVE LatestNeverLost'
  BY <1>13 DEF Reread
<1>14. ASSUME NEW j \in Jobs, SaveGraph(j) PROVE LatestNeverLost'
  BY <1>14 DEF SaveGraph
<1>15. ASSUME NEW j \in Jobs, SaveSuccess(j) PROVE LatestNeverLost'
  BY <1>15 DEF SaveSuccess
<1>16. ASSUME NEW j \in Jobs, SaveTrace(j) PROVE LatestNeverLost'
  BY <1>16 DEF SaveTrace
<1>17. ASSUME NEW j \in Jobs, Commit(j) PROVE LatestNeverLost'
  <2>1. source' = source /\ durable' = [durable EXCEPT ![j] = @ \cup written[j]]
    BY <1>17 DEF Commit
  <2> SUFFICES ASSUME NEW i \in Jobs, "snapshot" \in durable'[i]
               PROVE  \E k \in latest' : source[k] = source[i]
    BY <2>1
  <2>2. CASE "snapshot" \in durable[i]
    <3>1. PICK k \in latest : source[k] = source[i]
      BY <2>2
    <3>2. CASE k \in unmarked[j]
      <4>1. source[k] = source[j] /\ "snapshot" \in written[j]
        BY <1>17, <3>2 DEF Commit
      <4>2. j \in latest'
        BY <1>17, <4>1 DEF Commit
      <4> QED BY <3>1, <4>1, <4>2
    <3>3. CASE k \notin unmarked[j]
      BY <1>17, <3>1, <3>3 DEF Commit
    <3> QED BY <3>2, <3>3
  <2>3. CASE "snapshot" \notin durable[i]
    <3>1. i = j /\ "snapshot" \in written[j]
      BY <2>1, <2>3
    <3> QED BY <1>17, <3>1 DEF Commit
  <2> QED BY <2>2, <2>3
<1>18. ASSUME NEW j \in Jobs, NEW c \in Command, BeginSubmit(j, c) PROVE LatestNeverLost'
  BY <1>18 DEF BeginSubmit
<1>19. ASSUME NEW j \in Jobs, NEW s \in Jobs, BeginMap(j, s) PROVE LatestNeverLost'
  BY <1>19 DEF BeginMap
<1>20. ASSUME NEW j \in Jobs, Fail(j) PROVE LatestNeverLost'
  BY <1>20, ImportsAssumption DEF Fail, active
<1>21. CASE UNCHANGED vars
  BY <1>21 DEF vars
<1> QED
  BY <1>1, <1>2, <1>3, <1>4, <1>5, <1>6, <1>7, <1>8, <1>9, <1>10, <1>11, <1>12,
     <1>13, <1>14, <1>15, <1>16, <1>17, <1>18, <1>19, <1>20, <1>21
  DEF Next, Step

\* What a mapping answers is committed with it or was before.
LEMMA NextMapAnswers == IInv /\ [Next]_vars => MapAnswers'
<1> SUFFICES ASSUME IInv, [Next]_vars PROVE MapAnswers'
  OBVIOUS
<1> USE DEF IInv, TypeOK, MapAnswers, WrittenInv, DurableInv, AnswerInv, rows, Clean, Uploading, Command, NoCommand, Mapping,
            goto, write, commit, Rollback, dbVars, txVars, localVars, historyVars
<1>1. ASSUME NEW j \in Jobs, ReadSource(j) PROVE MapAnswers'
  BY <1>1 DEF ReadSource
<1>2. ASSUME NEW j \in Jobs, InsertSource(j) PROVE MapAnswers'
  BY <1>2 DEF InsertSource
<1>3. ASSUME NEW j \in Jobs, CommitSource(j) PROVE MapAnswers'
  BY <1>3 DEF CommitSource
<1>4. ASSUME NEW j \in Jobs, ReadHash(j) PROVE MapAnswers'
  BY <1>4, SnapshotStep
<1>5. ASSUME NEW j \in Jobs, Mark(j) PROVE MapAnswers'
  BY <1>5 DEF Mark
<1>6. ASSUME NEW j \in Jobs, Marking(j) PROVE MapAnswers'
  BY <1>6 DEF Marking
<1>7. ASSUME NEW j \in Jobs, InsertSnapshot(j) PROVE MapAnswers'
  BY <1>7, SnapshotStep
<1>8. ASSUME NEW j \in Jobs, InsertArtifact(j) PROVE MapAnswers'
  BY <1>8 DEF InsertArtifact
<1>9. ASSUME NEW j \in Jobs, InsertUpload(j) PROVE MapAnswers'
  BY <1>9 DEF InsertUpload
<1>10. ASSUME NEW j \in Jobs, ReadArtifact(j) PROVE MapAnswers'
  BY <1>10 DEF ReadArtifact
<1>11. ASSUME NEW j \in Jobs, Lookup(j) PROVE MapAnswers'
  BY <1>11 DEF Lookup
<1>12. ASSUME NEW j \in Jobs, InsertHeader(j) PROVE MapAnswers'
  BY <1>12 DEF InsertHeader
<1>13. ASSUME NEW j \in Jobs, Reread(j) PROVE MapAnswers'
  BY <1>13 DEF Reread
<1>14. ASSUME NEW j \in Jobs, SaveGraph(j) PROVE MapAnswers'
  BY <1>14 DEF SaveGraph
<1>15. ASSUME NEW j \in Jobs, SaveSuccess(j) PROVE MapAnswers'
  BY <1>15 DEF SaveSuccess
<1>16. ASSUME NEW j \in Jobs, SaveTrace(j) PROVE MapAnswers'
  BY <1>16 DEF SaveTrace
<1>17. ASSUME NEW j \in Jobs, Commit(j) PROVE MapAnswers'
  <2>1. durable' = [durable EXCEPT ![j] = @ \cup written[j]] /\ pc' = [pc EXCEPT ![j] = "done"]
        /\ UNCHANGED <<command, snapshot, result>>
    BY <1>17 DEF Commit
  <2>2. \A i \in Jobs : i \in rows("header") => i \in rows("header")'
    BY <2>1
  <2>3. command[j] = Mapping => result[j] \in rows("header")' /\ snapshot[result[j]] = snapshot[j]
    BY <1>17, <2>1 DEF Commit
  <2> QED BY <2>1, <2>2, <2>3
<1>18. ASSUME NEW j \in Jobs, NEW c \in Command, BeginSubmit(j, c) PROVE MapAnswers'
  BY <1>18 DEF BeginSubmit
<1>19. ASSUME NEW j \in Jobs, NEW s \in Jobs, BeginMap(j, s) PROVE MapAnswers'
  BY <1>19, SnapshotStep
<1>20. ASSUME NEW j \in Jobs, Fail(j) PROVE MapAnswers'
  BY <1>20, ImportsAssumption DEF Fail, active
<1>21. CASE UNCHANGED vars
  BY <1>21 DEF vars
<1> QED
  BY <1>1, <1>2, <1>3, <1>4, <1>5, <1>6, <1>7, <1>8, <1>9, <1>10, <1>11, <1>12,
     <1>13, <1>14, <1>15, <1>16, <1>17, <1>18, <1>19, <1>20, <1>21
  DEF Next, Step

----------------------------------------------------------------------------
(***************************************************************************)
(* One submission at a time                                                *)
(***************************************************************************)

submitting(j) == active(j) /\ command[j].kind = "submit"

\* Only submissions read and insert sources and snapshots.
SubmitInv ==
  \A j \in Jobs :
    /\ pc[j] \in Uploading \cup {"source", "insert_source", "commit_source", "hash"} => submitting(j)
    /\ "snapshot" \in written[j] => submitting(j)

\* Nobody else has committed the text that a submission inserts; the snapshots of its
\* source that are latest are those it has found, and then those it has locked.
AloneInv(j) ==
  /\ pc[j] \in {"mark", "marking", "insert_snapshot"} \/ "snapshot" \in written[j] =>
       \A k \in rows("snapshot") : source[k] = source[j] => command[k].text # command[j].text
  /\ pc[j] = "marking" => \A k \in latest : source[k] = source[j] => k \in hit[j]
  /\ pc[j] = "insert_snapshot" \/ "snapshot" \in written[j] =>
       \A k \in latest : source[k] = source[j] => k \in unmarked[j]

QuietInv ==
  /\ SubmitInv
  /\ ~overlap => /\ \A j, k \in Jobs : submitting(j) /\ submitting(k) => j = k
                 /\ \A j \in Jobs : AloneInv(j)
  /\ QuietlyOneLatest

\* What holds of a job goes on to hold when others change neither the snapshots that are
\* committed nor their marks.
LEMMA QuietFrame ==
  ASSUME IInv, QuietInv, NEW j \in Jobs,
         rows("snapshot")' = rows("snapshot"), latest' = latest, overlap => overlap',
         \A k \in rows("snapshot") : source'[k] = source[k] /\ command'[k] = command[k],
         \A k \in Jobs \ {j} :
           /\ pc'[k] = pc[k] /\ written'[k] = written[k] /\ unmarked'[k] = unmarked[k]
           /\ hit'[k] = hit[k] /\ source'[k] = source[k] /\ command'[k] = command[k],
         submitting(j)' => submitting(j),
         pc'[j] \in Uploading \cup {"source", "insert_source", "commit_source", "hash"}
           \/ "snapshot" \in written'[j] => submitting(j)',
         ~overlap => AloneInv(j)'
  PROVE  QuietInv'
<1>1. \A k \in Jobs \ {j} : submitting(k)' <=> submitting(k)
  BY DEF submitting, active
<1>2. SubmitInv'
  BY <1>1 DEF QuietInv, SubmitInv
<1>3. latest \subseteq rows("snapshot") /\ rows("snapshot") \subseteq Jobs
  BY DEF IInv, MarkInv, rows
<1>4. ASSUME ~overlap', NEW k \in Jobs PROVE AloneInv(k)'
  <2>1. CASE k = j
    BY <1>4, <2>1
  <2>2. CASE k # j
    <3>1. AloneInv(k)
      BY <1>4 DEF QuietInv
    <3> QED BY <1>3, <2>2, <3>1 DEF AloneInv
  <2> QED BY <2>1, <2>2
<1>5. ~overlap' => \A i, k \in Jobs : submitting(i)' /\ submitting(k)' => i = k
  BY <1>1 DEF QuietInv
<1>6. QuietlyOneLatest'
  BY <1>3 DEF QuietInv, QuietlyOneLatest
<1> QED BY <1>2, <1>4, <1>5, <1>6 DEF QuietInv

\* A submission begins: it is noted when another one is under way.
LEMMA BeginSubmitQuiet ==
  ASSUME IInv, QuietInv, NEW j \in Jobs, NEW c \in Command, BeginSubmit(j, c)
  PROVE  QuietInv'
<1> USE DEF IInv, TypeOK
<1>1. /\ pc[j] = "idle" /\ pc' = [pc EXCEPT ![j] = "source"] /\ command' = [command EXCEPT ![j] = c]
      /\ overlap' = (overlap \/ \E k \in Jobs : submitting(k))
      /\ UNCHANGED <<durable, latest, written, unmarked, source, snapshot, hit>>
  BY DEF BeginSubmit, goto, dbVars, txVars, localVars, submitting
<1>2. c.kind = "submit" /\ "snapshot" \notin durable[j] /\ written[j] = {}
  BY <1>1 DEF Command, DurableInv, WrittenInv, Clean
<1>3. \A k \in Jobs \ {j} : /\ pc'[k] = pc[k] /\ command'[k] = command[k]
                            /\ submitting(k)' <=> submitting(k)
  BY <1>1 DEF submitting, active
<1>4. submitting(j)' /\ pc'[j] = "source"
  BY <1>1, <1>2 DEF submitting, active
<1>5. latest \subseteq rows("snapshot") /\ rows("snapshot") \subseteq Jobs \ {j}
      /\ rows("snapshot")' = rows("snapshot")
  BY <1>1, <1>2 DEF MarkInv, rows
<1>6. SubmitInv'
  BY <1>1, <1>3, <1>4 DEF QuietInv, SubmitInv
<1>7. ASSUME ~overlap' PROVE ~overlap /\ \A k \in Jobs : submitting(k)' => k = j
  BY <1>1, <1>3, <1>7
<1>8. ASSUME ~overlap', NEW k \in Jobs PROVE AloneInv(k)'
  <2>1. CASE k = j
    BY <1>1, <1>2, <1>4, <2>1 DEF AloneInv
  <2>2. CASE k # j
    <3>1. AloneInv(k)
      BY <1>7, <1>8 DEF QuietInv
    <3> QED BY <1>1, <1>3, <1>5, <2>2, <3>1 DEF AloneInv
  <2> QED BY <2>1, <2>2
<1>9. QuietlyOneLatest'
  BY <1>1, <1>3, <1>5, <1>7 DEF QuietInv, QuietlyOneLatest
<1> QED BY <1>6, <1>7, <1>8, <1>9 DEF QuietInv

\* The commit of a submission puts its snapshot in the place of the latest one.
LEMMA CommitQuiet ==
  ASSUME IInv, QuietInv, NEW j \in Jobs, Commit(j)
  PROVE  QuietInv'
<1> USE DEF IInv, TypeOK
<1>1. /\ pc[j] = "commit" /\ pc' = [pc EXCEPT ![j] = "done"]
      /\ durable' = [durable EXCEPT ![j] = @ \cup written[j]]
      /\ latest' = (latest \ unmarked[j]) \cup (IF "snapshot" \in written[j] THEN {j} ELSE {})
      /\ written' = [written EXCEPT ![j] = {}] /\ unmarked' = [unmarked EXCEPT ![j] = {}]
      /\ UNCHANGED <<command, source, snapshot, hit, overlap>>
  BY DEF Commit, commit, goto, localVars, historyVars
<1>2. /\ pc'[j] = "done" /\ written'[j] = {} /\ ~submitting(j)' /\ AloneInv(j)'
      /\ \A k \in Jobs \ {j} : /\ pc'[k] = pc[k] /\ written'[k] = written[k]
                               /\ unmarked'[k] = unmarked[k]
  BY <1>1 DEF submitting, active, AloneInv
<1>3. latest \subseteq rows("snapshot") /\ rows("snapshot") \subseteq Jobs
  BY DEF MarkInv, rows
<1>4. CASE "snapshot" \notin written[j]
  <2>1. unmarked[j] = {}
    BY <1>1, <1>4 DEF MarkInv
  <2>2. latest' = latest /\ rows("snapshot")' = rows("snapshot")
    BY <1>1, <1>4, <2>1 DEF rows
  <2> QED BY <1>1, <1>2, <1>3, <2>2, QuietFrame DEF Uploading
<1>5. CASE "snapshot" \in written[j]
  <2>1. rows("snapshot")' = rows("snapshot") \cup {j} /\ latest' = (latest \ unmarked[j]) \cup {j}
    BY <1>1, <1>5 DEF rows
  <2>2. \A k \in Jobs \ {j} : submitting(k)' <=> submitting(k)
    BY <1>1, <1>2 DEF submitting, active
  <2>3. SubmitInv'
    BY <1>2, <2>2 DEF QuietInv, SubmitInv, Uploading
  <2>4. submitting(j)
    BY <1>5 DEF QuietInv, SubmitInv
  <2>5. ASSUME ~overlap, NEW k \in Jobs PROVE ~submitting(k)' /\ AloneInv(k)'
    <3>1. ~submitting(k)'
      BY <1>2, <2>2, <2>4, <2>5 DEF QuietInv
    <3>2. pc'[k] \notin Uploading /\ "snapshot" \notin written'[k]
      BY <2>3, <3>1 DEF SubmitInv
    <3> QED BY <3>1, <3>2 DEF AloneInv, Uploading
  <2>6. ASSUME ~overlap
        PROVE  /\ \A k \in rows("snapshot") : source[k] = source[j] => command[k].text # command[j].text
               /\ \A k \in latest \ unmarked[j] : source[k] # source[j]
    BY <1>5, <2>6 DEF QuietInv, AloneInv
  <2>7. ASSUME ~overlap
        PROVE  /\ \A i, k \in latest' : source[i] = source[k] => i = k
               /\ \A i, k \in rows("snapshot")' :
                    (source[i] = source[k] /\ command[i].text = command[k].text) => i = k
    BY <2>1, <2>6, <2>7 DEF QuietInv, QuietlyOneLatest
  <2>8. QuietlyOneLatest'
    BY <1>1, <2>7 DEF QuietlyOneLatest
  <2> QED BY <1>1, <2>3, <2>5, <2>8 DEF QuietInv
<1> QED BY <1>4, <1>5

\* Every other step changes no committed snapshot, and what holds of its job holds on.
LEMMA StepQuiet ==
  ASSUME IInv, QuietInv, NEW j \in Jobs, Step(j) \/ Fail(j) \/ \E s \in Jobs : BeginMap(j, s)
  PROVE  QuietInv'
<1> USE DEF IInv, TypeOK, goto, write, commit, Rollback, dbVars, txVars, localVars, historyVars
<1> DEFINE Mine ==
      /\ submitting(j)' => submitting(j)
      /\ pc'[j] \in Uploading \cup {"source", "insert_source", "commit_source", "hash"}
           \/ "snapshot" \in written'[j] => submitting(j)'
      /\ ~overlap => AloneInv(j)'
    Others ==
      /\ rows("snapshot")' = rows("snapshot") /\ latest' = latest /\ overlap' = overlap
      /\ \A k \in rows("snapshot") : source'[k] = source[k] /\ command'[k] = command[k]
      /\ \A k \in Jobs \ {j} :
           /\ pc'[k] = pc[k] /\ written'[k] = written[k] /\ unmarked'[k] = unmarked[k]
           /\ hit'[k] = hit[k] /\ source'[k] = source[k] /\ command'[k] = command[k]
<1>0. /\ SubmitInv /\ (~overlap => AloneInv(j)) /\ WrittenInv /\ DurableInv
      /\ latest \subseteq rows("snapshot")
  BY DEF QuietInv, MarkInv
<1>1. CASE ReadSource(j)
  <2>1. Others
    BY <1>1, <1>0 DEF ReadSource, rows, WrittenInv, DurableInv, Clean
  <2>2. Mine
    BY <1>1, <1>0 DEF ReadSource, rows, submitting, active, AloneInv, SubmitInv, Uploading, WrittenInv, DurableInv, Clean
  <2> QED BY <2>1, <2>2, QuietFrame
<1>2. CASE InsertSource(j)
  <2>1. Others
    BY <1>2, <1>0 DEF InsertSource, rows, WrittenInv, DurableInv, Clean
  <2>2. Mine
    BY <1>2, <1>0 DEF InsertSource, rows, submitting, active, AloneInv, SubmitInv, Uploading, WrittenInv, DurableInv, Clean, foreign
  <2> QED BY <2>1, <2>2, QuietFrame
<1>3. CASE CommitSource(j)
  <2>1. Others
    <3>1. /\ durable' = [durable EXCEPT ![j] = @ \cup {"source"}] /\ unmarked[j] = {}
          /\ latest' = latest
      <4>1. written[j] = {"source"} /\ unmarked[j] = {}
        BY <1>3 DEF CommitSource, WrittenInv, MarkInv
      <4> QED BY <1>3, <4>1 DEF CommitSource
    <3>2. rows("snapshot")' = rows("snapshot")
      BY <3>1 DEF rows
    <3> QED BY <1>3, <3>1, <3>2 DEF CommitSource
  <2>2. Mine
    BY <1>3, <1>0 DEF CommitSource, rows, submitting, active, AloneInv, SubmitInv, Uploading, WrittenInv, DurableInv, Clean
  <2> QED BY <2>1, <2>2, QuietFrame
<1>4. CASE ReadHash(j)
  <2>1. Others
    BY <1>4, <1>0 DEF ReadHash, rows, WrittenInv, DurableInv, Clean
  <2>2. Mine
    BY <1>4, <1>0 DEF ReadHash, rows, submitting, active, AloneInv, SubmitInv, Uploading, WrittenInv, DurableInv, Clean, snapshots_like
  <2> QED BY <2>1, <2>2, QuietFrame
<1>5. CASE Mark(j)
  <2>1. Others
    BY <1>5, <1>0 DEF Mark, rows, WrittenInv, DurableInv, Clean
  <2>2. Mine
    BY <1>5, <1>0 DEF Mark, rows, submitting, active, AloneInv, SubmitInv, Uploading, WrittenInv, DurableInv, Clean
  <2> QED BY <2>1, <2>2, QuietFrame
<1>6. CASE Marking(j)
  <2>1. Others
    BY <1>6, <1>0 DEF Marking, rows, WrittenInv, DurableInv, Clean
  <2>2. Mine
    BY <1>6, <1>0 DEF Marking, rows, submitting, active, AloneInv, SubmitInv, Uploading, WrittenInv, DurableInv, Clean
  <2> QED BY <2>1, <2>2, QuietFrame
<1>7. CASE InsertSnapshot(j)
  <2>1. Others
    BY <1>7, <1>0 DEF InsertSnapshot, rows, WrittenInv, DurableInv, Clean
  <2>2. Mine
    BY <1>7, <1>0 DEF InsertSnapshot, rows, submitting, active, AloneInv, SubmitInv, Uploading, WrittenInv, DurableInv, Clean
  <2> QED BY <2>1, <2>2, QuietFrame
<1>8. CASE InsertArtifact(j)
  <2>1. Others
    BY <1>8, <1>0 DEF InsertArtifact, rows, WrittenInv, DurableInv, Clean
  <2>2. Mine
    BY <1>8, <1>0 DEF InsertArtifact, rows, submitting, active, AloneInv, SubmitInv, Uploading, WrittenInv, DurableInv, Clean
  <2> QED BY <2>1, <2>2, QuietFrame
<1>9. CASE InsertUpload(j)
  <2>1. Others
    BY <1>9, <1>0 DEF InsertUpload, rows, WrittenInv, DurableInv, Clean
  <2>2. Mine
    BY <1>9, <1>0 DEF InsertUpload, rows, submitting, active, AloneInv, SubmitInv, Uploading, WrittenInv, DurableInv, Clean
  <2> QED BY <2>1, <2>2, QuietFrame
<1>10. CASE ReadArtifact(j)
  <2>1. Others
    BY <1>10, <1>0 DEF ReadArtifact, rows, WrittenInv, DurableInv, Clean
  <2>2. Mine
    BY <1>10, <1>0 DEF ReadArtifact, rows, submitting, active, AloneInv, SubmitInv, Uploading, WrittenInv, DurableInv, Clean
  <2> QED BY <2>1, <2>2, QuietFrame
<1>11. CASE Lookup(j)
  <2>1. Others
    BY <1>11, <1>0 DEF Lookup, rows, WrittenInv, DurableInv, Clean
  <2>2. Mine
    BY <1>11, <1>0 DEF Lookup, rows, submitting, active, AloneInv, SubmitInv, Uploading, WrittenInv, DurableInv, Clean
  <2> QED BY <2>1, <2>2, QuietFrame
<1>12. CASE InsertHeader(j)
  <2>1. Others
    BY <1>12, <1>0 DEF InsertHeader, rows, WrittenInv, DurableInv, Clean
  <2>2. Mine
    BY <1>12, <1>0 DEF InsertHeader, rows, submitting, active, AloneInv, SubmitInv, Uploading, WrittenInv, DurableInv, Clean
  <2> QED BY <2>1, <2>2, QuietFrame
<1>13. CASE Reread(j)
  <2>1. Others
    BY <1>13, <1>0 DEF Reread, rows, WrittenInv, DurableInv, Clean
  <2>2. Mine
    BY <1>13, <1>0 DEF Reread, rows, submitting, active, AloneInv, SubmitInv, Uploading, WrittenInv, DurableInv, Clean
  <2> QED BY <2>1, <2>2, QuietFrame
<1>14. CASE SaveGraph(j)
  <2>1. Others
    BY <1>14, <1>0 DEF SaveGraph, rows, WrittenInv, DurableInv, Clean
  <2>2. Mine
    BY <1>14, <1>0 DEF SaveGraph, rows, submitting, active, AloneInv, SubmitInv, Uploading, WrittenInv, DurableInv, Clean
  <2> QED BY <2>1, <2>2, QuietFrame
<1>15. CASE SaveSuccess(j)
  <2>1. Others
    BY <1>15, <1>0 DEF SaveSuccess, rows, WrittenInv, DurableInv, Clean
  <2>2. Mine
    BY <1>15, <1>0 DEF SaveSuccess, rows, submitting, active, AloneInv, SubmitInv, Uploading, WrittenInv, DurableInv, Clean
  <2> QED BY <2>1, <2>2, QuietFrame
<1>16. CASE SaveTrace(j)
  <2>1. Others
    BY <1>16, <1>0 DEF SaveTrace, rows, WrittenInv, DurableInv, Clean
  <2>2. Mine
    BY <1>16, <1>0 DEF SaveTrace, rows, submitting, active, AloneInv, SubmitInv, Uploading, WrittenInv, DurableInv, Clean
  <2> QED BY <2>1, <2>2, QuietFrame
<1>17. CASE Fail(j)
  <2>1. Others
    BY <1>17, <1>0 DEF Fail, rows
  <2>2. Mine
    BY <1>17, <1>0 DEF Fail, rows, submitting, active, AloneInv, SubmitInv, Uploading
  <2> QED BY <2>1, <2>2, QuietFrame
<1>18. ASSUME NEW s \in Jobs, BeginMap(j, s) PROVE QuietInv'
  <2>1. Others
    BY <1>18, <1>0 DEF BeginMap, rows, DurableInv
  <2>2. Mine
    BY <1>18, <1>0 DEF BeginMap, rows, submitting, active, AloneInv, SubmitInv, Uploading, Mapping,
       WrittenInv, Clean
  <2> QED BY <2>1, <2>2, QuietFrame
<1> QED BY <1>1, <1>2, <1>3, <1>4, <1>5, <1>6, <1>7, <1>8, <1>9, <1>10, <1>11, <1>12, <1>13, <1>14, <1>15, <1>16, <1>17, <1>18, CommitQuiet DEF Step

LEMMA NextQuietInv == IInv /\ QuietInv /\ [Next]_vars => QuietInv'
<1> SUFFICES ASSUME IInv, QuietInv, [Next]_vars PROVE QuietInv'
  OBVIOUS
<1>1. CASE UNCHANGED vars
  BY <1>1 DEF vars, dbVars, txVars, localVars, historyVars, QuietInv, SubmitInv, AloneInv, submitting,
     active, rows, QuietlyOneLatest
<1>2. CASE Next
  BY <1>2, BeginSubmitQuiet, StepQuiet DEF Next
<1> QED BY <1>1, <1>2

----------------------------------------------------------------------------
(***************************************************************************)
(* The theorems                                                            *)
(***************************************************************************)

\* Every step keeps the whole invariant.
LEMMA NextIInv == IInv /\ [Next]_vars => IInv'
BY NextTypeOK, NextWrittenInv, NextDurableInv, NextMarkInv, NextHeaderInv, NextAnswerInv,
   NextLatestNeverLost, NextMapAnswers DEF IInv

\* The invariant holds of every state.
THEOREM IInvHolds == Spec => []IInv
BY InitIInv, NextIInv, PTL DEF Spec

\* Every variable keeps its type.
THEOREM ImportsTypeCorrect == Spec => []TypeOK
<1>1. IInv => TypeOK
  BY DEF IInv
<1> QED BY <1>1, IInvHolds, PTL

\* However many uploads of a source overlap, are repeated or fail half-way, the
\* source keeps a latest snapshot once it has a snapshot.
THEOREM LatestNeverLostHolds == Spec => []LatestNeverLost
<1>1. IInv => LatestNeverLost
  BY DEF IInv
<1> QED BY <1>1, IInvHolds, PTL

\* Whoever sees a canonical snapshot sees all of it, and the only one of its source
\* snapshot: there is no state between the header and its rules and trace.
THEOREM CanonicalWholeHolds == Spec => []CanonicalWhole
<1>1. IInv => CanonicalWhole
  BY DEF IInv, DurableInv, HeaderInv, CanonicalWhole, rows
<1> QED BY <1>1, IInvHolds, PTL

\* A mapping that succeeds answers a committed canonical snapshot of its snapshot.
THEOREM MapAnswersHolds == Spec => []MapAnswers
<1>1. IInv => MapAnswers
  BY DEF IInv
<1> QED BY <1>1, IInvHolds, PTL

\* While submissions do not overlap a source has one latest snapshot and a text one
\* snapshot, whatever mappings run beside them and wherever they fail.
THEOREM QuietlyOneLatestHolds == Spec => []QuietlyOneLatest
<1>1. Init => QuietInv
  BY DEF Init, QuietInv, SubmitInv, AloneInv, submitting, active, rows, QuietlyOneLatest, Uploading
<1>2. QuietInv => QuietlyOneLatest
  BY DEF QuietInv
<1> QED BY <1>1, <1>2, NextQuietInv, IInvHolds, PTL DEF Spec
=============================================================================
