------------------------- MODULE CspProfilesProofs -------------------------
(***************************************************************************)
(* Proofs about CspProfiles for any number of invocations, credentials and *)
(* broken connections.                                                     *)
(***************************************************************************)
EXTENDS CspProfiles, TLAPS

Labels == {"idle", "profile", "current", "write_profile", "model", "write_credentials",
           "commit", "open", "using", "close", "ended"}

\* The type invariant with the domains of the functions.
Shape ==
  /\ table.profile \in ProfileRow \cup {None}
  /\ table.credentials \in CredentialsRow \cup {None}
  /\ lock \in [Rows -> Jobs \cup {Free}]
  /\ written \in [Rows -> ProfileRow \cup CredentialsRow \cup {None}]
  /\ written.profile \in ProfileRow \cup {None}
  /\ written.credentials \in CredentialsRow \cup {None}
  /\ command \in [Jobs -> Commands]
  /\ registry \subseteq Jobs /\ closing \subseteq Jobs
  /\ pc \in [Jobs -> Labels]
  /\ seen \in [Jobs -> ProfileRow \cup {None}]
  /\ current \in [Jobs -> CredentialsRow \cup {None}]
  /\ model \in [Jobs -> CredentialsRow \cup {None}]

\* Which use case is at which statement, and what it has read by then.
Control ==
  \A j \in Jobs :
    /\ pc[j] = "current" => kind(j) \in {"update", "acquire"} /\ seen[j] # None
    /\ pc[j] = "write_profile" => kind(j) \in {"update", "status", "delete"}
    /\ pc[j] \in {"model", "write_credentials"} => kind(j) \in {"update", "remove", "delete"}
    /\ pc[j] = "write_profile" /\ kind(j) = "update" =>
         /\ seen[j] # None
         /\ changes_credentials(command[j]) => current[j] # None
    /\ pc[j] \in {"model", "write_credentials"} /\ kind(j) = "update" => current[j] # None
    /\ pc[j] = "write_credentials" => model[j] # None

\* Which rows a use case has locked at which statement.  An update writes the profile
\* first, a deletion the credentials.
Locking ==
  \A j \in Jobs :
    /\ lock["profile"] = j =>
         \/ kind(j) \in {"update", "status"} /\ pc[j] \in {"model", "write_credentials", "commit"}
         \/ kind(j) = "delete" /\ pc[j] = "commit"
    /\ lock["credentials"] = j =>
         \/ kind(j) \in {"update", "remove"} /\ pc[j] = "commit"
         \/ kind(j) = "delete" /\ pc[j] \in {"write_profile", "commit"}
    /\ pc[j] \in {"model", "write_credentials"} /\ kind(j) = "update" => lock["profile"] = j
    /\ lock["credentials"] = j /\ kind(j) = "update" => lock["profile"] = j
    /\ pc[j] = "commit" /\ kind(j) = "delete" => lock["profile"] = j

\* A deletion writes no row, everyone else writes a row over a row; and a deletion that
\* comes to the profile takes the credentials along or found them gone.
Written ==
  \A j \in Jobs :
    /\ lock["profile"] = j =>
         IF kind(j) = "delete" THEN written.profile = None
         ELSE written.profile # None /\ table.profile # None
    /\ lock["credentials"] = j =>
         IF kind(j) = "delete" THEN written.credentials = None
         ELSE written.credentials # None /\ table.credentials # None
    /\ pc[j] \in {"write_profile", "commit"} /\ kind(j) = "delete" =>
         lock["credentials"] = j \/ table.credentials = None

\* What is about to be committed agrees; an update that holds the profile can have missed
\* a removal only, or finds that a deletion was first.
Agreeing ==
  /\ interfered \/ agree(table.credentials)
  /\ lock["credentials"] \in Jobs => interfered \/ agree(written.credentials)
  /\ \A j \in Jobs : pc[j] = "write_credentials" /\ kind(j) = "update" =>
       model[j] = table.credentials \/ writer = "remove" \/ table.credentials = None

ProfilesInv == Shape /\ Control /\ Locking /\ Written /\ CredentialsTogether /\ Agreeing

----------------------------------------------------------------------------
\* What a command and the rows are made of.
LEMMA CommandType ==
  ASSUME Shape, NEW j \in Jobs
  PROVE  command[j] \in Command /\ kind(j) \in Kinds
BY ProfilesAssumption DEF Shape, Command, kind

\* A profile starts with both rows, and the certificate that is shown is the one stored.
LEMMA InitProfilesInv == Init => ProfilesInv
<1> SUFFICES ASSUME Init PROVE ProfilesInv
  OBVIOUS
<1>1. table \in CreatedRows
  BY ProfilesAssumption DEF Init
<1>a. PICK t \in Targets : table.profile = [target |-> t, active |-> TRUE]
  BY <1>1 DEF CreatedRows
<1>b. PICK p \in Pems, w \in Passwords :
        table.credentials = [pem |-> p, password |-> w, has_password |-> TRUE, cert |-> p]
  BY <1>1 DEF CreatedRows
<1>c. table.profile \in ProfileRow /\ table.credentials \in CredentialsRow
  BY <1>a, <1>b DEF ProfileRow, CredentialsRow
<1>d. w # NoPassword
  BY ProfilesAssumption
<1>e. /\ table.credentials.has_password = TRUE /\ (table.credentials.password # NoPassword) = TRUE
      /\ table.credentials.cert = table.credentials.pem
  BY <1>b, <1>d
<1>2. /\ table.profile \in ProfileRow /\ table.credentials \in CredentialsRow
      /\ agree(table.credentials)
  BY <1>c, <1>e DEF agree
<1>3. table.profile # None /\ table.credentials # None
  BY <1>2, ProfilesAssumption
<1> QED
  BY <1>2, <1>3, ProfilesAssumption
     DEF Init, ProfilesInv, Shape, Control, Locking, Written, CredentialsTogether, Agreeing,
         Rows, Labels

\* A transaction that is rolled back gives its locks back and changes nothing.
LEMMA RollbackKeeps ==
  ASSUME ProfilesInv, NEW j \in Jobs, Rollback(j),
         writer' = writer, interfered' = interfered
  PROVE  ProfilesInv'
<1> USE DEF ProfilesInv, Rollback, release, mine, goto, readVars, clientVars
<1>1. Shape'
  BY DEF Shape, Rows, Labels
<1>2. Control'
  BY DEF Shape, Control, kind, changes_credentials
<1>3. lock' = [r \in Rows |-> IF lock[r] = j THEN Free ELSE lock[r]]
  BY DEF Rows
<1>4. written' = [r \in Rows |-> IF lock[r] = j THEN None ELSE written[r]]
  BY DEF Rows
<1>5. /\ \A k \in Jobs : \A r \in Rows : lock'[r] = k => lock[r] = k /\ k # j /\ written'[r] = written[r]
      /\ \A k \in Jobs \ {j} : \A r \in Rows : lock[r] = k => lock'[r] = k
  BY <1>3, <1>4, ProfilesAssumption DEF Rows
<1>6. "profile" \in Rows /\ "credentials" \in Rows
  BY DEF Rows
<1>7. Locking'
  BY <1>5, <1>6 DEF Shape, Locking, kind
<1>8. Written'
  BY <1>5, <1>6 DEF Shape, Written, kind
<1>9. CredentialsTogether'
  BY DEF CredentialsTogether
<1>10. Agreeing'
  BY <1>5, <1>6 DEF Shape, Agreeing, kind, agree
<1> QED BY <1>1, <1>2, <1>7, <1>8, <1>9, <1>10

\* Steps of an invocation that touch no row of the database.
LEMMA QuietKeeps ==
  ASSUME ProfilesInv, NEW j \in Jobs,
         Start(j) \/ ReadProfile(j) \/ ReadCurrent(j) \/ LoadModel(j) \/ Open(j) \/ Release(j)
           \/ Close(j) \/ CloseTaken(j) \/ CloseAll
  PROVE  ProfilesInv'
<1> USE DEF ProfilesInv
<1>1. /\ UNCHANGED <<dbVars, command, historyVars>>
      /\ registry' \subseteq Jobs /\ closing' \subseteq Jobs
  BY DEF Start, ReadProfile, ReadCurrent, LoadModel, Open, Release, Close, CloseTaken, CloseAll,
         readVars, clientVars, Shape
<1>2. CASE UNCHANGED <<pc, readVars>>
  BY <1>1, <1>2
     DEF dbVars, readVars, historyVars, Shape, Control, Locking, Written, CredentialsTogether,
         Agreeing, agree, kind, changes_credentials
<1>3. ASSUME Start(j) \/ Open(j) \/ Release(j) \/ Close(j)
      PROVE  ProfilesInv'
  <2>1. UNCHANGED readVars /\ \E label \in {"profile", "using", "close", "ended"} : goto(j, label)
    BY <1>3 DEF Start, Open, Release, Close
  <2>2. pc[j] \notin {"write_profile", "model", "write_credentials", "commit"}
    BY <1>3 DEF Start, Open, Release, Close
  <2> QED
    BY <1>1, <2>1, <2>2
       DEF goto, dbVars, readVars, historyVars, Shape, Labels, Control, Locking, Written,
           CredentialsTogether, Agreeing, agree, kind, changes_credentials
<1>4. ASSUME ReadProfile(j)
      PROVE  ProfilesInv'
  <2>1. CASE table.profile = None
    BY <1>1, <1>4, <2>1
       DEF ReadProfile, goto, dbVars, readVars, historyVars, Shape, Labels, Control, Locking, Written,
           CredentialsTogether, Agreeing, agree, kind, changes_credentials
  <2>2. CASE table.profile # None
    <3>1. /\ pc' = [pc EXCEPT ![j] = after_profile(j)] /\ seen' = [seen EXCEPT ![j] = table.profile]
          /\ UNCHANGED <<current, model>> /\ pc[j] = "profile"
      BY <1>4, <2>2 DEF ReadProfile, goto
    <3>2. \/ after_profile(j) = "ended"
          \/ after_profile(j) = "write_profile" /\ kind(j) = "status"
          \/ /\ after_profile(j) = "write_profile" /\ kind(j) = "update"
             /\ ~changes_credentials(command[j])
          \/ after_profile(j) = "current" /\ kind(j) \in {"update", "acquire"}
          \/ after_profile(j) = "model" /\ kind(j) \in {"remove", "delete"}
      BY CommandType DEF after_profile, Kinds
    <3>3. Shape' /\ Control'
      BY <1>1, <2>2, <3>1, <3>2 DEF dbVars, Shape, Labels, Control, kind, changes_credentials
    <3>4. Locking'
      BY <1>1, <3>1, <3>2 DEF dbVars, Shape, Locking, kind
    <3>5. Written' /\ CredentialsTogether' /\ Agreeing'
      BY <1>1, <3>1, <3>2
         DEF dbVars, historyVars, Shape, Written, CredentialsTogether, Agreeing, agree, kind
    <3> QED BY <3>3, <3>4, <3>5
  <2> QED BY <2>1, <2>2
<1>5. ASSUME ReadCurrent(j)
      PROVE  ProfilesInv'
  <2>1. /\ current' = [current EXCEPT ![j] = table.credentials] /\ UNCHANGED <<seen, model>>
        /\ pc[j] = "current"
    BY <1>5 DEF ReadCurrent
  <2>2. \/ pc' = [pc EXCEPT ![j] = "ended"]
        \/ pc' = [pc EXCEPT ![j] = "open"]
        \/ /\ pc' = [pc EXCEPT ![j] = "write_profile"] /\ table.credentials # None
           /\ kind(j) = "update" /\ seen[j] # None
    BY <1>5 DEF ReadCurrent, goto, Control
  <2>3. Shape' /\ Control'
    BY <1>1, <2>1, <2>2 DEF dbVars, Shape, Labels, Control, kind, changes_credentials
  <2>4. Locking'
    BY <1>1, <2>1, <2>2 DEF dbVars, Shape, Locking, kind
  <2>5. Written' /\ CredentialsTogether' /\ Agreeing'
    BY <1>1, <2>1, <2>2
       DEF dbVars, historyVars, Shape, Written, CredentialsTogether, Agreeing, agree, kind
  <2> QED BY <2>3, <2>4, <2>5
<1>6. ASSUME LoadModel(j)
      PROVE  ProfilesInv'
  <2>1. /\ model' = [model EXCEPT ![j] = table.credentials] /\ UNCHANGED <<seen, current>>
        /\ pc[j] = "model" /\ kind(j) \in {"update", "remove", "delete"}
    BY <1>6 DEF LoadModel, Control
  <2>2. \/ pc' = [pc EXCEPT ![j] = "write_credentials"] /\ table.credentials # None
        \/ /\ pc' = [pc EXCEPT ![j] = "write_profile"] /\ table.credentials = None
           /\ kind(j) = "delete"
        \/ pc' = [pc EXCEPT ![j] = "commit"] /\ kind(j) # "delete"
    BY <1>6 DEF LoadModel, goto
  <2>3. Shape' /\ Control'
    BY <1>1, <2>1, <2>2 DEF dbVars, Shape, Labels, Control, kind, changes_credentials
  <2>4. Locking'
    BY <1>1, <2>1, <2>2 DEF dbVars, Shape, Locking, kind
  <2>5. Written' /\ CredentialsTogether' /\ Agreeing'
    BY <1>1, <2>1, <2>2
       DEF dbVars, historyVars, Shape, Written, CredentialsTogether, Agreeing, agree, kind
  <2> QED BY <2>3, <2>4, <2>5
<1> QED BY <1>2, <1>3, <1>4, <1>5, <1>6 DEF CloseTaken, CloseAll, readVars

\* The values an UPDATE of the profile writes are those of a profile.
LEMMA ProfileValuesType ==
  ASSUME ProfilesInv, NEW j \in Jobs, table.profile # None,
         pc[j] = "write_profile", kind(j) # "delete"
  PROVE  profile_values(j) \in ProfileRow
<1>1. command[j] \in Command /\ kind(j) \in {"update", "status"}
  BY CommandType DEF ProfilesInv, Control
<1>2. table.profile \in ProfileRow
  BY DEF ProfilesInv, Shape
<1>3. CASE kind(j) = "status"
  <2>1. command[j].active \in BOOLEAN
    BY <1>1 DEF Command
  <2> QED BY <1>2, <1>3, <2>1 DEF profile_values, ProfileRow
<1>4. CASE kind(j) = "update"
  <2>1. seen[j] \in ProfileRow
    BY <1>4 DEF ProfilesInv, Control, Shape
  <2>2. or_else(command[j].target, seen[j].target) \in Targets
    BY <1>1, <2>1 DEF or_else, Command, ProfileRow
  <2> QED BY <1>2, <1>4, <2>2 DEF profile_values, ProfileRow
<1> QED BY <1>1, <1>3, <1>4

\* The flush writes credentials, and their facts agree with the payload when what was
\* loaded is still what is stored.
LEMMA CredentialsValuesType ==
  ASSUME ProfilesInv, NEW j \in Jobs, table.credentials # None,
         pc[j] = "write_credentials", kind(j) # "delete"
  PROVE  /\ credentials_values(j) \in CredentialsRow
         /\ model[j] = table.credentials /\ agree(table.credentials)
              => agree(credentials_values(j))
<1> DEFINE new == credentials_values(j)
           remove == kind(j) = "remove"
           stored == table.credentials
<1>1. command[j] \in Command /\ kind(j) \in {"update", "remove"}
  BY CommandType DEF ProfilesInv, Control
<1>2. stored \in CredentialsRow /\ model[j] \in CredentialsRow
  BY DEF ProfilesInv, Shape, Control
<1>3. ~remove => current[j] \in CredentialsRow
  BY <1>1 DEF ProfilesInv, Shape, Control
<1>4. /\ new.pem = IF remove THEN model[j].pem ELSE or_else(command[j].pem, current[j].pem)
      /\ new.password = IF remove THEN NoPassword
                        ELSE or_else(command[j].password, current[j].password)
      /\ new.has_password = changed(model[j].has_password, new.password # NoPassword,
                                    stored.has_password)
      /\ new.cert = IF remove THEN stored.cert ELSE changed(model[j].cert, new.pem, stored.cert)
      /\ new = [pem |-> new.pem, password |-> new.password, has_password |-> new.has_password,
                cert |-> new.cert]
  BY DEF credentials_values
<1> HIDE DEF new
<1>5. new.pem \in Pems /\ new.password \in Passwords \cup {NoPassword}
  BY <1>1, <1>2, <1>3, <1>4 DEF or_else, Command, CredentialsRow
<1>6. new.has_password \in BOOLEAN /\ new.cert \in Pems
  BY <1>2, <1>4, <1>5 DEF changed, CredentialsRow
<1>7. new \in CredentialsRow
  BY <1>4, <1>5, <1>6 DEF CredentialsRow
<1>8. ASSUME model[j] = stored, agree(stored)
      PROVE  agree(new)
  <2>1. stored.cert = stored.pem
    BY <1>8 DEF agree
  <2>2. new.cert = new.pem
    BY <1>4, <1>8, <2>1 DEF changed
  <2>3. new.has_password = (new.password # NoPassword)
    BY <1>4, <1>8 DEF changed
  <2> QED BY <2>2, <2>3 DEF agree
<1> QED BY <1>7, <1>8 DEF new

\* A statement that writes a row under its lock.
LEMMA WriteKeeps ==
  ASSUME ProfilesInv, NEW j \in Jobs,
         WriteProfile(j) \/ DeleteProfile(j) \/ WriteCredentials(j) \/ DeleteCredentials(j)
  PROVE  ProfilesInv'
<1> USE DEF ProfilesInv
<1>1. ASSUME WriteProfile(j)
      PROVE  ProfilesInv'
  <2>1. CASE table.profile = None
    BY <1>1, <2>1, RollbackKeeps DEF WriteProfile, historyVars
  <2>2. CASE table.profile # None
    <3>1. /\ lock' = [lock EXCEPT !["profile"] = j]
          /\ written' = [written EXCEPT !["profile"] = profile_values(j)]
          /\ UNCHANGED <<table, command, seen, current, model, registry, closing, historyVars>>
          /\ pc[j] = "write_profile" /\ kind(j) \in {"update", "status"}
          /\ lock["profile"] \in {Free, j}
      BY <1>1, <2>2 DEF WriteProfile, write, can_lock, readVars, clientVars, Control
    <3>2. \/ /\ pc' = [pc EXCEPT ![j] = "model"] /\ kind(j) = "update"
             /\ changes_credentials(command[j])
          \/ pc' = [pc EXCEPT ![j] = "commit"]
      BY <1>1, <2>2 DEF WriteProfile, goto
    <3>3. profile_values(j) \in ProfileRow
      BY <2>2, <3>1, ProfileValuesType
    <3>4. lock["credentials"] # j
      BY <3>1 DEF Locking
    <3>5. "profile" \in Rows /\ "credentials" \in Rows /\ j # Free
      BY ProfilesAssumption DEF Rows
    <3>6. Shape'
      BY <3>1, <3>2, <3>3, <3>5 DEF Shape, Labels
    <3>7. Control'
      BY <3>1, <3>2 DEF Shape, Control, kind, changes_credentials
    <3>a. /\ lock'["profile"] = j /\ lock'["credentials"] = lock["credentials"]
          /\ \A k \in Jobs \ {j} : lock["profile"] # k /\ pc'[k] = pc[k]
          /\ pc'[j] \in {"model", "commit"} /\ (pc'[j] = "model" => kind(j) = "update")
      BY <3>1, <3>2, <3>5, ProfilesAssumption DEF Shape
    <3>b. \A k \in Jobs : kind(k)' = kind(k)
      BY <3>1 DEF kind
    <3>8. Locking'
      BY <3>1, <3>4, <3>a, <3>b DEF Locking
    <3>9. Written'
      BY <2>2, <3>1, <3>2, <3>3, <3>4, <3>5, ProfilesAssumption DEF Shape, Written, kind
    <3>10. CredentialsTogether' /\ Agreeing'
      BY <3>1, <3>2, <3>5 DEF historyVars, Shape, CredentialsTogether, Agreeing, agree, kind
    <3> QED BY <3>6, <3>7, <3>8, <3>9, <3>10
  <2> QED BY <2>1, <2>2
<1>2. ASSUME DeleteProfile(j)
      PROVE  ProfilesInv'
  <2>1. /\ lock' = [lock EXCEPT !["profile"] = j] /\ written' = [written EXCEPT !["profile"] = None]
        /\ pc' = [pc EXCEPT ![j] = "commit"] /\ pc[j] = "write_profile" /\ kind(j) = "delete"
        /\ lock["profile"] \in {Free, j}
        /\ UNCHANGED <<table, command, seen, current, model, registry, closing, historyVars>>
    BY <1>2 DEF DeleteProfile, write, goto, can_lock, readVars, clientVars
  <2>2. "profile" \in Rows /\ "credentials" \in Rows /\ j # Free
    BY ProfilesAssumption DEF Rows
  <2>3. Shape' /\ Control'
    BY <2>1, <2>2 DEF Shape, Labels, Control, kind, changes_credentials
  <2>a. /\ lock'["profile"] = j /\ lock'["credentials"] = lock["credentials"]
        /\ \A k \in Jobs \ {j} : lock["profile"] # k /\ pc'[k] = pc[k]
        /\ pc'[j] = "commit"
    BY <2>1, <2>2, ProfilesAssumption DEF Shape
  <2>b. \A k \in Jobs : kind(k)' = kind(k)
    BY <2>1 DEF kind
  <2>4. Locking'
    BY <2>1, <2>a, <2>b DEF Locking
  <2>5. Written'
    BY <2>1, <2>2 DEF Shape, Written, kind
  <2>6. CredentialsTogether' /\ Agreeing'
    BY <2>1, <2>2 DEF historyVars, Shape, CredentialsTogether, Agreeing, agree, kind
  <2> QED BY <2>3, <2>4, <2>5, <2>6
<1>3. ASSUME WriteCredentials(j)
      PROVE  ProfilesInv'
  <2>1. CASE table.credentials = None
    BY <1>3, <2>1, RollbackKeeps DEF WriteCredentials, historyVars
  <2>2. CASE table.credentials # None
    <3>1. /\ lock' = [lock EXCEPT !["credentials"] = j]
          /\ written' = [written EXCEPT !["credentials"] = credentials_values(j)]
          /\ pc' = [pc EXCEPT ![j] = "commit"]
          /\ interfered' = (interfered \/ (model[j] # table.credentials
                                            /\ "remove" \in {kind(j), writer}))
          /\ UNCHANGED <<table, command, seen, current, model, registry, closing, writer, faults>>
          /\ pc[j] = "write_credentials" /\ kind(j) \in {"update", "remove"}
          /\ lock["credentials"] \in {Free, j}
      BY <1>3, <2>2 DEF WriteCredentials, write, goto, can_lock, readVars, clientVars, Control
    <3>2. credentials_values(j) \in CredentialsRow
      BY <2>2, <3>1, CredentialsValuesType
    <3>3. "profile" \in Rows /\ "credentials" \in Rows /\ j # Free
      BY ProfilesAssumption DEF Rows
    <3>4. Shape' /\ Control'
      BY <3>1, <3>2, <3>3 DEF Shape, Labels, Control, kind, changes_credentials
    <3>5. Locking'
      BY <3>1, <3>3 DEF Shape, Locking, kind
    <3>6. Written'
      BY <2>2, <3>1, <3>2, <3>3, ProfilesAssumption DEF Shape, Written, kind
    <3>7. interfered' \/ agree(credentials_values(j))
      <4>1. CASE model[j] = table.credentials
        BY <2>2, <3>1, <4>1, CredentialsValuesType DEF Agreeing
      <4>2. CASE model[j] # table.credentials
        BY <2>2, <3>1, <4>2 DEF Agreeing
      <4> QED BY <4>1, <4>2
    <3>8. written'.credentials = credentials_values(j)
      BY <3>1, <3>3 DEF Shape
    <3>9. Agreeing'
      BY <3>1, <3>7, <3>8 DEF Shape, Agreeing, agree, kind
    <3>10. CredentialsTogether'
      BY <3>1 DEF CredentialsTogether
    <3> QED BY <3>4, <3>5, <3>6, <3>9, <3>10
  <2> QED BY <2>1, <2>2
<1>4. ASSUME DeleteCredentials(j)
      PROVE  ProfilesInv'
  <2>1. /\ lock' = [lock EXCEPT !["credentials"] = j]
        /\ written' = [written EXCEPT !["credentials"] = None]
        /\ pc' = [pc EXCEPT ![j] = "write_profile"] /\ pc[j] = "write_credentials"
        /\ kind(j) = "delete" /\ lock["credentials"] \in {Free, j}
        /\ UNCHANGED <<table, command, seen, current, model, registry, closing, historyVars>>
    BY <1>4 DEF DeleteCredentials, write, goto, can_lock, readVars, clientVars
  <2>2. "profile" \in Rows /\ "credentials" \in Rows /\ j # Free
    BY ProfilesAssumption DEF Rows
  <2>3. Shape' /\ Control'
    BY <2>1, <2>2 DEF Shape, Labels, Control, kind, changes_credentials
  <2>4. Locking'
    BY <2>1, <2>2 DEF Shape, Locking, kind
  <2>a. /\ lock'["credentials"] = j /\ lock'["profile"] = lock["profile"]
        /\ \A k \in Jobs \ {j} : lock["credentials"] # k /\ pc'[k] = pc[k]
        /\ written'.credentials = None /\ written'.profile = written.profile
    BY <2>1, <2>2, ProfilesAssumption DEF Shape
  <2>b. \A k \in Jobs : kind(k)' = kind(k)
    BY <2>1 DEF kind
  <2>5. Written'
    BY <2>1, <2>a, <2>b DEF Written
  <2>6. CredentialsTogether'
    BY <2>1 DEF CredentialsTogether
  <2>7. written'.credentials = None
    BY <2>1, <2>2 DEF Shape
  <2>8. Agreeing'
    BY <2>1, <2>7 DEF historyVars, Shape, Agreeing, agree, kind
  <2> QED BY <2>3, <2>4, <2>5, <2>6, <2>8
<1> QED BY <1>1, <1>2, <1>3, <1>4

\* A commit makes what a transaction wrote the stored rows: a deletion takes both, anyone
\* else replaces rows by rows.
LEMMA CommitKeeps ==
  ASSUME ProfilesInv, NEW j \in Jobs, Commit(j)
  PROVE  ProfilesInv'
<1> USE DEF ProfilesInv
<1>1. "profile" \in Rows /\ "credentials" \in Rows /\ j # Free
  BY ProfilesAssumption DEF Rows
<1>2. /\ table'.profile = IF lock["profile"] = j THEN written.profile ELSE table.profile
      /\ table'.credentials = IF lock["credentials"] = j THEN written.credentials ELSE table.credentials
  BY <1>1 DEF Commit, mine
<1>3. /\ lock' = [r \in Rows |-> IF lock[r] = j THEN Free ELSE lock[r]]
      /\ written' = [r \in Rows |-> IF lock[r] = j THEN None ELSE written[r]]
      /\ pc[j] = "commit" /\ pc' = [pc EXCEPT ![j] = "ended"]
      /\ UNCHANGED <<command, seen, current, model, registry, closing, interfered>>
      /\ writer' = IF lock["credentials"] = j THEN kind(j) ELSE writer
  BY <1>1 DEF Commit, release, mine, goto, readVars, clientVars
<1>4. /\ \A k \in Jobs : \A r \in Rows :
           lock'[r] = k => lock[r] = k /\ k # j /\ written'[r] = written[r]
      /\ \A k \in Jobs \ {j} : \A r \in Rows : lock[r] = k => lock'[r] = k
  BY <1>3, ProfilesAssumption DEF Rows
<1>5. \A k \in Jobs : kind(k)' = kind(k) /\ (k # j => pc'[k] = pc[k])
  BY <1>3 DEF kind, Shape
<1>6. pc'[j] = "ended"
  BY <1>3 DEF Shape
<1>7. /\ table'.profile \in ProfileRow \cup {None}
      /\ table'.credentials \in CredentialsRow \cup {None}
  BY <1>2 DEF Shape
<1>8. Shape'
  BY <1>1, <1>3, <1>7 DEF Shape, Labels
<1>9. Control'
  BY <1>3, <1>5, <1>6 DEF Control, kind, changes_credentials
<1>10. Locking'
  BY <1>1, <1>4, <1>5, <1>6 DEF Locking
<1>11. kind(j) = "delete" => /\ table'.profile = None /\ table'.credentials = None
                             /\ lock["profile"] = j
  BY <1>2, <1>3 DEF Locking, Written
<1>12. kind(j) # "delete" => /\ table'.profile = None <=> table.profile = None
                             /\ table'.credentials = None <=> table.credentials = None
  BY <1>2, ProfilesAssumption DEF Written
<1>13. CredentialsTogether'
  <2>1. CASE kind(j) = "delete"
    BY <1>11, <2>1 DEF CredentialsTogether
  <2>2. CASE kind(j) # "delete"
    BY <1>12, <2>2 DEF CredentialsTogether
  <2> QED BY <2>1, <2>2
<1>14. \A k \in Jobs \ {j} :
         /\ lock["profile"] = k => (table'.profile = table.profile)
         /\ lock["credentials"] = k => (table'.credentials = table.credentials)
  BY <1>2
<1>15. Written'
  BY <1>1, <1>4, <1>5, <1>6, <1>11, <1>12, <1>14 DEF Written
<1>16. interfered' \/ agree(table.credentials')
  BY <1>1, <1>2, <1>3 DEF Agreeing, agree
<1>17. lock'["credentials"] \in Jobs => interfered' \/ agree(written.credentials')
  BY <1>1, <1>3, <1>4 DEF Agreeing, agree
<1>18. ASSUME NEW k \in Jobs, pc'[k] = "write_credentials", kind(k) = "update"
       PROVE  model'[k] = table.credentials' \/ writer' = "remove" \/ table.credentials' = None
  <2>1. k # j /\ pc[k] = "write_credentials" /\ lock["profile"] = k
    BY <1>5, <1>6, <1>18 DEF Locking
  <2>2. CASE lock["credentials"] # j
    BY <1>2, <1>3, <1>18, <2>1, <2>2 DEF Agreeing
  <2>3. CASE lock["credentials"] = j
    <3>1. kind(j) \in {"remove", "delete"}
      BY <2>1, <2>3 DEF Locking
    <3> QED BY <1>3, <1>11, <2>3, <3>1
  <2> QED BY <2>2, <2>3
<1>19. Agreeing'
  BY <1>5, <1>16, <1>17, <1>18 DEF Agreeing
<1> QED BY <1>8, <1>9, <1>10, <1>13, <1>15, <1>19

\* Every step keeps the invariant.
LEMMA NextProfilesInv == ProfilesInv /\ [Next]_vars => ProfilesInv'
<1> SUFFICES ASSUME ProfilesInv, [Next]_vars PROVE ProfilesInv'
  OBVIOUS
<1>1. ASSUME NEW j \in Jobs, Start(j) \/ Step(j) PROVE ProfilesInv'
  <2>1. ASSUME DeadlockAbort(j) PROVE ProfilesInv'
    BY <2>1, RollbackKeeps DEF DeadlockAbort, historyVars
  <2> QED BY <1>1, <2>1, QuietKeeps, WriteKeeps, CommitKeeps DEF Step
<1>2. ASSUME NEW j \in Jobs, Fail(j) PROVE ProfilesInv'
  BY <1>2, RollbackKeeps DEF Fail
<1>3. ASSUME CloseAll PROVE ProfilesInv'
  BY <1>3 DEF CloseAll, ProfilesInv, Shape, Control, Locking, Written, CredentialsTogether,
              Agreeing, agree, kind, changes_credentials, dbVars, readVars, historyVars
<1>4. ASSUME UNCHANGED vars PROVE ProfilesInv'
  BY <1>4 DEF vars, ProfilesInv, Shape, Control, Locking, Written, CredentialsTogether,
              Agreeing, agree, kind, changes_credentials, dbVars, readVars, clientVars, historyVars
<1> QED BY <1>1, <1>2, <1>3, <1>4 DEF Next

\* The invariant holds in every state the use cases reach.
LEMMA ProfilesInvariant == Spec => []ProfilesInv
BY InitProfilesInv, NextProfilesInv, PTL DEF Spec

\* Every variable keeps its type: the rows are rows of their tables or gone.
THEOREM ProfilesTypeCorrect == Spec => []TypeOK
<1>1. ProfilesInv => TypeOK
  BY DEF ProfilesInv, Shape, TypeOK, Labels
<1> QED BY <1>1, ProfilesInvariant, PTL

\* However many updates, removals and deletions overlap and wherever one breaks off, a
\* profile has credentials and no credentials outlive it.
THEOREM CredentialsTogetherHolds == Spec => []CredentialsTogether
<1>1. ProfilesInv => CredentialsTogether
  BY DEF ProfilesInv
<1> QED BY <1>1, ProfilesInvariant, PTL

\* The facts shown about the credentials are those of the payload, although an update writes
\* only the columns that differ from what it loaded, unless a removal came between.
THEOREM MetadataAgreesHolds == Spec => []MetadataAgrees
<1>1. ProfilesInv => MetadataAgrees
  BY DEF ProfilesInv, Agreeing, MetadataAgrees
<1> QED BY <1>1, ProfilesInvariant, PTL

\* Of two transactions that wait for each other one is a deletion: nobody else wants the
\* profile while it holds the credentials.
THEOREM DeadlockNeedsDeleteHolds == Spec => []DeadlockNeedsDelete
<1>1. ASSUME ProfilesInv PROVE DeadlockNeedsDelete
  <2> SUFFICES ASSUME NEW j \in Jobs, NEW k \in Jobs, waits_for(j, k), waits_for(k, j)
               PROVE  "delete" \in {kind(j), kind(k)}
    BY DEF DeadlockNeedsDelete
  <2>1. wants(j) # wants(k)
    BY DEF waits_for
  <2>2. \A i \in Jobs : wants(i) \in Rows =>
          \/ wants(i) = "profile" /\ pc[i] = "write_profile"
          \/ wants(i) = "credentials" /\ pc[i] = "write_credentials"
    BY ProfilesAssumption DEF wants
  <2>3. \/ pc[j] = "write_profile" /\ lock["credentials"] = j
        \/ pc[k] = "write_profile" /\ lock["credentials"] = k
    BY <2>1, <2>2 DEF waits_for
  <2> QED BY <1>1, <2>3 DEF ProfilesInv, Locking
<1> QED BY <1>1, ProfilesInvariant, PTL

=============================================================================
