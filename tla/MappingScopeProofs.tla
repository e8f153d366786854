------------------------- MODULE MappingScopeProofs -------------------------
(***************************************************************************)
(* Proofs about MappingScope for any number of invocations, entities,      *)
(* rules and objects.                                                      *)
(***************************************************************************)
EXTENDS MappingScope, TLAPS

\* A result, cached or copied, speaks of objects that were there, of its entity's kind.
Sound(result, r) ==
  /\ result.status = "MATCHED" <=> result.selected # NoObject
  /\ \A o \in result.candidates \cup ({result.selected} \ {NoObject}) :
       o \in used /\ TypeOf[o] = kind(r)

\* Entities have results as soon as there is a scope, nothing has any before; a manual
\* result is that of an assignment that is done.
ResultInv ==
  /\ scope = "none" => \A r \in ResultIds : results[r] = NoResult
  /\ scope # "none" => \A e \in Entities : results[e] # NoResult
  /\ \A r \in ResultIds : results[r] # NoResult => Sound(results[r], r)
  /\ \A j \in Jobs : results[j] # NoResult => pc[j] = "done" /\ cmd[j].op = "assign"

\* A copy that was read before an await may be out of date, but its result is still there,
\* with the same candidates.
CopyInv(j) ==
  copy[j] # NoResult =>
    /\ item[j] \in ResultIds /\ results[item[j]] # NoResult
    /\ Sound(copy[j], item[j])
    /\ copy[j].candidates = results[item[j]].candidates

\* Which use case is at which await, and what it holds there.
Makes(j) == cmd[j].op \in {"create", "auto"}

AtInv(j) ==
  /\ known[j] \subseteq used
  /\ pc[j] # "idle" => cmd[j] # NoCommand
  /\ pc[j] \in {"idle", "target"} => part[j] = 0
  /\ pc[j] = "catalog" => part[j] < 3
  /\ pc[j] = "target" => cmd[j].op = "map"
  /\ pc[j] = "lookup" => cmd[j].op \in {"direct", "assign"}
  /\ pc[j] = "assign" => /\ cmd[j].op = "assign"
                         /\ cmd[j].object \in used /\ TypeOf[cmd[j].object] = "zone"
  /\ pc[j] = "catalog" => cmd[j].op = "map" \/ Makes(j)
  /\ pc[j] = "accept" => Makes(j)
  /\ pc[j] = "canonical" => cmd[j].op = "map" \/ Makes(j)
  /\ pc[j] = "make" => Makes(j) /\ item[j] \in Supported
  /\ pc[j] = "readback" => Makes(j)
  /\ pc[j] = "save" => cmd[j].op = "direct" \/ Makes(j)
  /\ pc[j] \in {"readback", "save"} => object[j] \in used /\ TypeOf[object[j]] = kind(item[j])
  /\ pc[j] \in {"make", "readback", "save"} => copy[j] # NoResult
  /\ pc[j] = "canonical" /\ Makes(j) => copy[j] # NoResult
  /\ pc[j] = "lookup" /\ cmd[j].op = "direct" => copy[j] # NoResult

MappingInv ==
  /\ TypeOK /\ objects \subseteq used /\ ResultInv /\ OperandsResolve
  /\ \A j \in Jobs : CopyInv(j) /\ AtInv(j)

\* A result that is there stays there, matched if it was, with its candidates.
Advance ==
  \A r \in ResultIds : results[r] # NoResult =>
    /\ results'[r] # NoResult
    /\ results[r].status = "MATCHED" => results'[r].status = "MATCHED"
    /\ results'[r].candidates = results[r].candidates

\* A step of job j leaves what the other jobs hold.
OthersKept(j) ==
  \A k \in Jobs \ {j} :
    /\ pc'[k] = pc[k] /\ cmd'[k] = cmd[k] /\ item'[k] = item[k]
    /\ copy'[k] = copy[k] /\ object'[k] = object[k] /\ known'[k] = known[k]
    /\ part'[k] = part[k]

\* What becomes of a job in loop_next or Raise: it ends, refreshes, or goes on with the
\* result of an entity.
Resumed(j) ==
  /\ \A k \in Jobs \ {j} :
       /\ pc'[k] = pc[k] /\ item'[k] = item[k] /\ copy'[k] = copy[k]
       /\ known'[k] = known[k] /\ part'[k] = part[k] /\ wins'[k] = wins[k]
  /\ known'[j] \in {known[j], {}}
  /\ pc'[j] = "catalog" => part'[j] = 0
  /\ \/ pc'[j] \in {"done", "failed", "catalog"} /\ item'[j] = item[j] /\ copy'[j] = copy[j]
     \/ /\ pc'[j] = "canonical" /\ scope = "cached"
        /\ item'[j] \in Entities /\ copy'[j] = results[item'[j]]
  /\ pc' \in [Jobs -> Labels]
  /\ item' \in [Jobs -> ResultIds \cup {NoResult}]
  /\ copy' \in [Jobs -> Result \cup {NoResult}]
  /\ known' \in [Jobs -> SUBSET Objects]
  /\ part' \in [Jobs -> 0 .. 3]
  /\ was' \in [Jobs -> SUBSET Objects]
  /\ queue' \in [Jobs -> SUBSET Entities]
  /\ wins' \in [Jobs -> Nat]

----------------------------------------------------------------------------
\* build_result finds objects of the catalog it is given, of the entity's kind.
LEMMA BuildSound ==
  ASSUME NEW e \in Entities, NEW catalog \in SUBSET Objects, catalog \subseteq used
  PROVE  /\ build_result(e, catalog) \in Result
         /\ Sound(build_result(e, catalog), e)
<1> DEFINE c == Matches[e] \cap catalog
<1>1. c \subseteq Objects /\ c \subseteq used /\ \A o \in c : TypeOf[o] = kind(e)
  BY MappingAssumption DEF kind
<1>2. CASE c = {}
  <2>1. build_result(e, catalog) = [status |-> "UNRESOLVED", selected |-> NoObject, candidates |-> {}]
    BY <1>2 DEF build_result
  <2> QED BY <2>1 DEF Result, Sound
<1>3. CASE c # {} /\ Cardinality(c) = 1
  <2> DEFINE o == CHOOSE x \in c : TRUE
  <2>1. o \in c
    BY <1>3
  <2>2. build_result(e, catalog) = [status |-> "MATCHED", selected |-> o, candidates |-> c]
    BY <1>3 DEF build_result
  <2> HIDE DEF o, c
  <2>3. o \in Objects /\ o # NoObject
    BY <1>1, <2>1, MappingAssumption
  <2> QED BY <1>1, <2>1, <2>2, <2>3 DEF Result, Sound
<1>4. CASE c # {} /\ Cardinality(c) # 1
  <2>1. build_result(e, catalog) = [status |-> "AMBIGUOUS", selected |-> NoObject, candidates |-> c]
    BY <1>4 DEF build_result
  <2> HIDE DEF c
  <2> QED BY <1>1, <2>1 DEF Result, Sound
<1> QED BY <1>2, <1>3, <1>4

\* A selection on a sound result, or on a copy of one, is sound.
LEMMA SelectSound ==
  ASSUME NEW r \in ResultIds, NEW result \in Result, Sound(result, r),
         NEW o \in Objects, o \in used, TypeOf[o] = kind(r)
  PROVE  /\ select(result, o) \in Result /\ Sound(select(result, o), r)
         /\ select(result, o).status = "MATCHED"
         /\ select(result, o).candidates = result.candidates
BY MappingAssumption DEF Result, Sound, select

\* The loop of an auto-creation goes on with a result as it is cached, or comes to its end.
LEMMA LoopNextResumed ==
  ASSUME TypeOK, NEW j \in Jobs, NEW q \in SUBSET Entities, NEW won \in Nat, loop_next(j, q, won)
  PROVE  Resumed(j)
<1> USE DEF TypeOK, Goto
<1> DEFINE todo == {e \in q : kind(e) # "zone" /\ scope = "cached"}
<1>1. CASE todo # {}
  <2>1. PICK e \in todo :
          /\ item' = [item EXCEPT ![j] = e]
          /\ copy' = [copy EXCEPT ![j] = results[e]]
          /\ queue' = [queue EXCEPT ![j] = q \ {e}]
          /\ wins' = [wins EXCEPT ![j] = @ + won]
          /\ pc' = [pc EXCEPT ![j] = "canonical"]
          /\ UNCHANGED refreshVars
    BY <1>1 DEF loop_next
  <2>2. e \in Entities /\ e \in ResultIds /\ scope = "cached" /\ wins[j] + won \in Nat
    BY DEF ResultIds
  <2> QED BY <2>1, <2>2 DEF Resumed, refreshVars, Labels
<1>2. CASE todo = {}
  <2>1. /\ wins' = [wins EXCEPT ![j] = @ + won] /\ wins[j] + won \in Nat
        /\ UNCHANGED <<item, copy, queue>>
    BY <1>2 DEF loop_next
  <2>2. \/ /\ pc' = [pc EXCEPT ![j] = "done"] \/ pc' = [pc EXCEPT ![j] = "failed"]
           /\ UNCHANGED refreshVars
        \/ BeginRefresh(j)
    BY <1>2 DEF loop_next
  <2> QED BY <2>1, <2>2 DEF Resumed, refreshVars, BeginRefresh, Labels, Ended
<1> QED BY <1>1, <1>2

\* An exception ends a use case or takes an auto-creation to its next result.
LEMMA RaiseResumed ==
  ASSUME TypeOK, NEW j \in Jobs, Raise(j)
  PROVE  Resumed(j) /\ (pc'[j] \in {"catalog", "canonical"} => cmd[j].op = "auto")
<1>1. CASE cmd[j].op = "auto" /\ pc[j] \in {"canonical", "make", "readback", "save"}
  BY <1>1, LoopNextResumed DEF Raise, TypeOK
<1>2. CASE ~(cmd[j].op = "auto" /\ pc[j] \in {"canonical", "make", "readback", "save"})
  BY <1>2 DEF Raise, Resumed, TypeOK, Goto, refreshVars, loopVars, Labels, Ended
<1> QED BY <1>1, <1>2

----------------------------------------------------------------------------
\* The invariant of a job survives the steps of others.
LEMMA JobStep ==
  ASSUME MappingInv, NEW j \in Jobs, TypeOK', objects' \subseteq used', used \subseteq used',
         ResultInv', OperandsResolve', Advance, OthersKept(j), (CopyInv(j) /\ AtInv(j))'
  PROVE  MappingInv'
<1>1. ASSUME NEW k \in Jobs, k # j PROVE (CopyInv(k) /\ AtInv(k))'
  <2>1. /\ pc'[k] = pc[k] /\ cmd'[k] = cmd[k] /\ item'[k] = item[k]
        /\ copy'[k] = copy[k] /\ object'[k] = object[k] /\ known'[k] = known[k]
        /\ part'[k] = part[k]
    BY <1>1 DEF OthersKept
  <2>2. CopyInv(k) /\ AtInv(k)
    BY DEF MappingInv
  <2>3. CopyInv(k)'
    BY <2>1, <2>2 DEF CopyInv, Advance, Sound
  <2>4. AtInv(k)'
    BY <2>1, <2>2 DEF AtInv, Makes
  <2> QED BY <2>3, <2>4
<1> QED BY <1>1 DEF MappingInv

\* Steps that leave the cached scope alone.
LEMMA SameResults ==
  ASSUME MappingInv, NEW j \in Jobs, pc[j] # "done", OthersKept(j), used \subseteq used',
         UNCHANGED <<results, operands, scope>>
  PROVE  ResultInv' /\ OperandsResolve' /\ Advance
<1>1. \A k \in Jobs : results[k] # NoResult => k # j
  BY DEF MappingInv, ResultInv
<1>2. ResultInv'
  BY <1>1 DEF MappingInv, ResultInv, Sound, OthersKept
<1> QED BY <1>2 DEF MappingInv, OperandsResolve, Advance

\* A job that has been resumed holds a cached result or nothing new.
LEMMA ResumedKeeps ==
  ASSUME MappingInv, NEW j \in Jobs, Resumed(j), used \subseteq used', Advance,
         cmd'[j] # NoCommand, pc'[j] \in {"catalog", "canonical"} => Makes(j)'
  PROVE  (CopyInv(j) /\ AtInv(j))'
<1>1. AtInv(j) /\ CopyInv(j) /\ ResultInv
  BY DEF MappingInv
<1>2. CASE pc'[j] \in {"done", "failed", "catalog"} /\ item'[j] = item[j] /\ copy'[j] = copy[j]
  <2>1. CopyInv(j)'
    BY <1>1, <1>2 DEF CopyInv, Sound, Advance
  <2> QED BY <1>1, <1>2, <2>1 DEF AtInv, Resumed, Makes
<1>3. CASE /\ pc'[j] = "canonical" /\ scope = "cached"
           /\ item'[j] \in Entities /\ copy'[j] = results[item'[j]]
  <2>1. item'[j] \in ResultIds /\ results[item'[j]] # NoResult
    BY <1>1, <1>3 DEF ResultInv, ResultIds
  <2>2. Sound(results[item'[j]], item'[j])
    BY <1>1, <2>1 DEF ResultInv
  <2>3. CopyInv(j)'
    BY <1>3, <2>1, <2>2 DEF CopyInv, Sound, Advance
  <2> QED BY <1>1, <1>3, <2>1, <2>3 DEF AtInv, Resumed, Makes
<1> QED BY <1>2, <1>3 DEF Resumed

\* Nothing is cached or under way at the start.
LEMMA InitMappingInv == Init => MappingInv
<1> SUFFICES ASSUME Init PROVE MappingInv
  OBVIOUS
<1>1. TypeOK
  BY MappingAssumption DEF Init, TypeOK, Labels, Ended
<1>2. ResultInv /\ OperandsResolve
  BY MappingAssumption DEF Init, ResultInv, OperandsResolve, ResultIds
<1>3. \A j \in Jobs : CopyInv(j) /\ AtInv(j)
  BY DEF Init, CopyInv, AtInv
<1> QED BY <1>1, <1>2, <1>3 DEF Init, MappingInv

\* A job that is under way has a command.
LEMMA CommandTaken ==
  ASSUME MappingInv, NEW j \in Jobs, pc[j] # "idle"
  PROVE  cmd[j] \in Command
BY MappingAssumption DEF MappingInv, TypeOK, AtInv

\* A step that changes nothing that is cached keeps the invariant when what the job itself
\* holds is right.
LEMMA QuietStep ==
  ASSUME MappingInv, NEW j \in Jobs, pc[j] # "done", TypeOK', objects' \subseteq used',
         used \subseteq used', OthersKept(j), UNCHANGED <<results, operands, scope>>,
         (CopyInv(j) /\ AtInv(j))'
  PROVE  MappingInv' /\ Advance
<1>1. ResultInv' /\ OperandsResolve' /\ Advance
  BY SameResults
<1> QED BY <1>1, JobStep

LEMMA QuietResumed ==
  ASSUME MappingInv, NEW j \in Jobs, pc[j] # "done", TypeOK', objects' \subseteq used',
         used \subseteq used', OthersKept(j), UNCHANGED <<results, operands, scope>>,
         Resumed(j), cmd'[j] # NoCommand, pc'[j] \in {"catalog", "canonical"} => Makes(j)'
  PROVE  MappingInv' /\ Advance
<1>1. Advance
  BY SameResults
<1> QED BY <1>1, ResumedKeeps, QuietStep

\* An exception that changes nothing but the job.
LEMMA RaiseStep ==
  ASSUME MappingInv, NEW j \in Jobs, pc[j] # "done", cmd[j] # NoCommand, Raise(j),
         UNCHANGED <<objects, used, cmd, object, results, operands, scope>>,
         UNCHANGED <<fingerprint, rulesRead, edits, overlap>>, faults' \in 0 .. MaxFaults
  PROVE  MappingInv' /\ Advance
<1>1. Resumed(j) /\ (pc'[j] \in {"catalog", "canonical"} => cmd[j].op = "auto")
  BY RaiseResumed DEF MappingInv
<1>2. TypeOK' /\ OthersKept(j)
  BY <1>1 DEF MappingInv, TypeOK, Resumed, OthersKept
<1> QED BY <1>1, <1>2, QuietResumed DEF MappingInv, Makes

\* The checks of a mapping on its target.
LEMMA CheckTargetKeeps ==
  ASSUME MappingInv, NEW j \in Jobs, CheckTarget(j)
  PROVE  MappingInv' /\ Advance
<1> USE DEF CheckTarget, Goto, Labels, Ended
<1>1. TypeOK'
  BY DEF MappingInv, TypeOK, cacheVars, refreshVars, loopVars, bookVars
<1>2. /\ pc[j] = "target" /\ OthersKept(j) /\ objects' \subseteq used' /\ used \subseteq used'
      /\ UNCHANGED <<results, operands, scope>>
  BY DEF MappingInv, TypeOK, OthersKept, cacheVars, refreshVars, loopVars, bookVars
<1>3. (CopyInv(j) /\ AtInv(j))'
  BY <1>2 DEF MappingInv, TypeOK, CopyInv, AtInv, Makes, Sound, cacheVars, refreshVars, loopVars, bookVars
<1> QED BY <1>1, <1>2, <1>3, QuietStep

\* A part of the catalog is read: its objects were there.
LEMMA ReadCatalogPartKeeps ==
  ASSUME MappingInv, NEW j \in Jobs, ReadCatalogPart(j)
  PROVE  MappingInv' /\ Advance
<1> USE DEF ReadCatalogPart, Goto, Labels, Ended
<1>a. part[j] + 1 \in 0 .. 3
  BY DEF MappingInv, TypeOK, AtInv
<1>b. PICK more \in SUBSET objects : known' = [known EXCEPT ![j] = @ \cup more]
  OBVIOUS
<1>1. TypeOK'
  BY <1>a, <1>b DEF MappingInv, TypeOK, cacheVars, refreshVars, loopVars, bookVars
<1>2. /\ pc[j] = "catalog" /\ OthersKept(j) /\ objects' \subseteq used' /\ used \subseteq used'
      /\ UNCHANGED <<results, operands, scope>>
  BY DEF MappingInv, TypeOK, OthersKept, cacheVars, refreshVars, loopVars, bookVars
<1>3. (CopyInv(j) /\ AtInv(j))'
  BY <1>2 DEF MappingInv, TypeOK, CopyInv, AtInv, Makes, Sound, cacheVars, refreshVars, loopVars, bookVars
<1> QED BY <1>1, <1>2, <1>3, QuietStep

\* A refresh stores the catalog it has read, or nothing.
LEMMA AcceptCatalogKeeps ==
  ASSUME MappingInv, NEW j \in Jobs, AcceptCatalog(j)
  PROVE  MappingInv' /\ Advance
<1> USE DEF AcceptCatalog, Goto, Labels, Ended
<1>1. TypeOK'
  BY DEF MappingInv, TypeOK, cacheVars, refreshVars, loopVars, bookVars
<1>2. /\ pc[j] = "accept" /\ OthersKept(j) /\ objects' \subseteq used' /\ used \subseteq used'
      /\ UNCHANGED <<results, operands, scope>>
  BY DEF MappingInv, TypeOK, OthersKept, cacheVars, refreshVars, loopVars, bookVars
<1>3. (CopyInv(j) /\ AtInv(j))'
  BY <1>2 DEF MappingInv, TypeOK, CopyInv, AtInv, Makes, Sound, cacheVars, refreshVars, loopVars, bookVars
<1> QED BY <1>1, <1>2, <1>3, QuietStep

\* A chosen object is looked up: it is there, and of the kind that is asked for.
LEMMA LookupKeeps ==
  ASSUME MappingInv, NEW j \in Jobs, Lookup(j)
  PROVE  MappingInv' /\ Advance
<1> USE DEF Lookup, found, Goto, Labels, Ended
<1>a. cmd[j] \in Command /\ cmd[j].op \in {"direct", "assign"}
  BY CommandTaken DEF MappingInv, AtInv
<1>b. cmd[j].object \in Objects
  BY <1>a DEF Command
<1>1. TypeOK'
  BY <1>a, <1>b DEF MappingInv, TypeOK, cacheVars, refreshVars, loopVars, bookVars
<1>2. /\ pc[j] = "lookup" /\ OthersKept(j) /\ objects' \subseteq used' /\ used \subseteq used'
      /\ UNCHANGED <<results, operands, scope>>
  BY DEF MappingInv, TypeOK, OthersKept, cacheVars, refreshVars, loopVars, bookVars
<1>3. (CopyInv(j) /\ AtInv(j))'
  BY <1>2 DEF MappingInv, TypeOK, CopyInv, AtInv, Makes, Sound, cacheVars, refreshVars, loopVars, bookVars
<1> QED BY <1>1, <1>2, <1>3, QuietStep

\* The entity of an object to be made is read; one without a counterpart raises.
LEMMA ReadCanonicalKeeps ==
  ASSUME MappingInv, NEW j \in Jobs, ReadCanonical(j)
  PROVE  MappingInv' /\ Advance
<1> USE DEF ReadCanonical, Goto, Labels, Ended
<1>1. /\ pc[j] = "canonical" /\ Makes(j) /\ UNCHANGED <<objects, used, cmd, object, results, operands, scope>>
      /\ UNCHANGED <<fingerprint, rulesRead, edits, overlap>> /\ faults' \in 0 .. MaxFaults
  BY MappingAssumption DEF MappingInv, TypeOK, Makes, cacheVars, refreshVars, loopVars, bookVars
<1>2. cmd[j] # NoCommand
  BY <1>1 DEF MappingInv, AtInv
<1>3. CASE item[j] \in Supported
  <2>1. pc' = [pc EXCEPT ![j] = "make"] /\ UNCHANGED <<refreshVars, loopVars>>
    BY <1>3
  <2>2. TypeOK' /\ OthersKept(j)
    BY <1>1, <2>1 DEF MappingInv, TypeOK, OthersKept, refreshVars, loopVars
  <2>3. (CopyInv(j) /\ AtInv(j))'
    BY <1>1, <1>3, <2>1 DEF MappingInv, TypeOK, CopyInv, AtInv, Makes, Sound, refreshVars, loopVars
  <2> QED BY <1>1, <2>2, <2>3, QuietStep DEF MappingInv
<1>4. CASE item[j] \notin Supported
  <2>1. Raise(j)
    BY <1>4
  <2> QED BY <1>1, <1>2, <2>1, RaiseStep
<1> QED BY <1>3, <1>4

\* A created address is read back, or an exception goes on from there.
LEMMA ReadBackKeeps ==
  ASSUME MappingInv, NEW j \in Jobs, ReadBack(j)
  PROVE  MappingInv' /\ Advance
<1> USE DEF ReadBack, Goto, Labels, Ended
<1>1. /\ pc[j] = "readback" /\ Makes(j) /\ UNCHANGED <<objects, used, cmd, object, results, operands, scope>>
      /\ UNCHANGED <<fingerprint, rulesRead, edits, overlap>> /\ faults' \in 0 .. MaxFaults
  BY MappingAssumption DEF MappingInv, TypeOK, AtInv, cacheVars, refreshVars, loopVars, bookVars
<1>2. cmd[j] # NoCommand
  BY <1>1 DEF MappingInv, AtInv
<1>3. CASE object[j] \in objects
  <2>1. pc' = [pc EXCEPT ![j] = "save"] /\ UNCHANGED <<refreshVars, loopVars>>
    BY <1>3
  <2>2. TypeOK' /\ OthersKept(j)
    BY <1>1, <2>1 DEF MappingInv, TypeOK, OthersKept, refreshVars, loopVars
  <2>3. (CopyInv(j) /\ AtInv(j))'
    BY <1>1, <1>3, <2>1
       DEF MappingInv, TypeOK, CopyInv, AtInv, Makes, Sound, kind, refreshVars, loopVars
  <2> QED BY <1>1, <2>2, <2>3, QuietStep DEF MappingInv
<1>4. CASE object[j] \notin objects
  <2>1. Raise(j)
    BY <1>4
  <2> QED BY <1>1, <1>2, <2>1, RaiseStep
<1> QED BY <1>3, <1>4

\* A call fails at an await.
LEMMA CallFailsKeeps ==
  ASSUME MappingInv, NEW j \in Jobs, CallFails(j)
  PROVE  MappingInv' /\ Advance
<1> USE DEF CallFails, Goto, Labels, Ended
<1>1. /\ pc[j] \notin {"done", "idle"} /\ UNCHANGED <<objects, used, cmd, object, results, operands, scope>>
      /\ UNCHANGED <<fingerprint, rulesRead, edits, overlap>> /\ faults' \in 0 .. MaxFaults
  BY MappingAssumption DEF MappingInv, TypeOK, Fault, cacheVars, refreshVars, loopVars, bookVars
<1>2. cmd[j] # NoCommand
  BY <1>1 DEF MappingInv, AtInv
<1> QED BY <1>1, <1>2, RaiseStep DEF CallFails

\* The object that is made exists from now on, or an exception goes on from there.
LEMMA MakeObjectKeeps ==
  ASSUME MappingInv, NEW j \in Jobs, NEW o \in Objects, NEW done \in BOOLEAN,
         NEW answered \in BOOLEAN, MakeObject(j, o, done, answered)
  PROVE  MappingInv' /\ Advance
<1>1. /\ pc[j] = "make" /\ Makes(j) /\ cmd[j] # NoCommand
      /\ item[j] \in Supported /\ item[j] \in Entities /\ TypeOf[o] = kind(item[j])
      /\ UNCHANGED <<cmd, rulesRead, edits, overlap>>
      /\ UNCHANGED <<scope, fingerprint, results, operands>>
  BY MappingAssumption DEF MakeObject, MappingInv, AtInv, kind, cacheVars
<1>2. /\ objects' \subseteq used' /\ used \subseteq used' /\ used' \subseteq Objects
      /\ objects' \subseteq Objects
  BY DEF MakeObject, MappingInv, TypeOK
<1>3. CASE answered
  <2>1. /\ object' = [object EXCEPT ![j] = o] /\ o \in used'
        /\ pc' = [pc EXCEPT ![j] = IF TypeOf[o] = "addr" THEN "readback" ELSE "save"]
        /\ UNCHANGED <<refreshVars, loopVars, faults>>
    BY <1>3 DEF MakeObject, Goto
  <2>2. TypeOK' /\ OthersKept(j)
    BY <1>1, <1>2, <2>1 DEF MappingInv, TypeOK, OthersKept, Labels, Ended, refreshVars, loopVars
  <2>3. AtInv(j)'
    BY <1>1, <1>2, <2>1 DEF MappingInv, TypeOK, AtInv, Makes, kind, refreshVars, loopVars
  <2>4. CopyInv(j)'
    BY <1>1, <1>2, <2>1 DEF MappingInv, CopyInv, Sound, loopVars
  <2> QED BY <1>1, <1>2, <2>2, <2>3, <2>4, QuietStep
<1>4. CASE ~answered
  <2>1. Raise(j) /\ faults' \in 0 .. MaxFaults /\ object' = object
    BY <1>4, MappingAssumption DEF MakeObject, Fault, MappingInv, TypeOK
  <2>2. Resumed(j) /\ (pc'[j] \in {"catalog", "canonical"} => cmd[j].op = "auto")
    BY <2>1, RaiseResumed DEF MappingInv
  <2>3. TypeOK' /\ OthersKept(j)
    BY <1>1, <1>2, <2>1, <2>2 DEF MappingInv, TypeOK, Resumed, OthersKept
  <2>4. cmd'[j] # NoCommand /\ (pc'[j] \in {"catalog", "canonical"} => Makes(j)')
    BY <1>1, <2>2 DEF Makes
  <2> QED BY <1>1, <1>2, <2>2, <2>3, <2>4, QuietResumed
<1> QED BY <1>3, <1>4

\* A mapping begins with nothing in hand.
LEMMA BeginMapKeeps ==
  ASSUME MappingInv, NEW j \in Jobs, NEW c \in Commands, BeginMap(j, c)
  PROVE  MappingInv' /\ Advance
<1> USE DEF BeginMap, Take, Goto, Labels, Ended
<1>1. TypeOK'
  BY DEF MappingInv, TypeOK, cacheVars, refreshVars, loopVars
<1>2. /\ pc[j] = "idle" /\ OthersKept(j) /\ objects' \subseteq used' /\ used \subseteq used'
      /\ UNCHANGED <<results, operands, scope>>
  BY DEF MappingInv, TypeOK, OthersKept, cacheVars, refreshVars, loopVars
<1>3. c # NoCommand /\ cmd'[j] = c /\ pc'[j] = "target" /\ c.op = "map"
  BY MappingAssumption DEF MappingInv, TypeOK
<1>4. AtInv(j)'
  BY <1>2, <1>3 DEF MappingInv, TypeOK, AtInv, Makes, cacheVars, refreshVars, loopVars
<1>5. CopyInv(j)'
  BY <1>2 DEF MappingInv, CopyInv, Sound, loopVars
<1> QED BY <1>1, <1>2, <1>4, <1>5, QuietStep

\* A selection begins with a copy of the result.
LEMMA BeginSelectKeeps ==
  ASSUME MappingInv, NEW j \in Jobs, NEW c \in Commands, BeginSelect(j, c)
  PROVE  MappingInv' /\ Advance
<1> USE DEF BeginSelect, Take, Goto, Labels, Ended
<1>1. /\ c \in Command /\ c.result \in ResultIds /\ c # NoCommand
      /\ c.op \in {"direct", "create"}
  BY MappingAssumption DEF Command
<1>2. TypeOK'
  BY <1>1 DEF MappingInv, TypeOK, cacheVars, refreshVars
<1>3. /\ pc[j] = "idle" /\ OthersKept(j) /\ objects' \subseteq used' /\ used \subseteq used'
      /\ UNCHANGED <<results, operands, scope>>
      /\ cmd'[j] = c /\ known' = known /\ used' = used
  BY DEF MappingInv, TypeOK, OthersKept, cacheVars, refreshVars
<1>4. CASE scope = "cached" /\ results[c.result] # NoResult
           /\ (c.op = "create" => kind(c.result) # "zone")
  <2>1. /\ pc'[j] = IF c.op = "direct" THEN "lookup" ELSE "canonical"
        /\ item'[j] = c.result /\ copy'[j] = results[c.result]
    BY <1>4 DEF MappingInv, TypeOK
  <2>2. AtInv(j)'
    BY <1>1, <1>3, <1>4, <2>1 DEF MappingInv, AtInv, Makes
  <2>3. Sound(results[c.result], c.result)
    BY <1>1, <1>4 DEF MappingInv, ResultInv
  <2>4. CopyInv(j)'
    BY <1>1, <1>3, <1>4, <2>1, <2>3 DEF CopyInv, Sound
  <2> QED BY <1>2, <1>3, <2>2, <2>4, QuietStep
<1>5. CASE ~(scope = "cached" /\ results[c.result] # NoResult
             /\ (c.op = "create" => kind(c.result) # "zone"))
  <2>1. pc'[j] = "failed" /\ UNCHANGED <<item, copy>>
    BY <1>5 DEF MappingInv, TypeOK
  <2>2. AtInv(j)'
    BY <1>1, <1>3, <2>1 DEF MappingInv, AtInv, Makes
  <2>3. CopyInv(j)'
    BY <1>3, <2>1 DEF MappingInv, CopyInv, Sound
  <2> QED BY <1>2, <1>3, <2>2, <2>3, QuietStep
<1> QED BY <1>4, <1>5

\* An auto-creation begins with the first unresolved result, or fails.
LEMMA BeginAutoKeeps ==
  ASSUME MappingInv, NEW j \in Jobs, NEW c \in Commands, BeginAuto(j, c)
  PROVE  MappingInv' /\ Advance
<1>1. /\ c # NoCommand /\ c.op = "auto" /\ cmd' = [cmd EXCEPT ![j] = c] /\ pc[j] = "idle"
      /\ UNCHANGED <<objects, used, object, rulesRead, edits, faults>>
      /\ UNCHANGED <<scope, fingerprint, results, operands>>
      /\ overlap' \in {"no", "yes"}
  BY MappingAssumption DEF BeginAuto, Take, MappingInv, TypeOK, cacheVars
<1>2. Resumed(j)
  <2>1. CASE scope = "cached"
    BY <2>1, LoopNextResumed DEF BeginAuto, MappingInv
  <2>2. CASE scope # "cached"
    BY <2>2 DEF BeginAuto, MappingInv, TypeOK, Resumed, Goto, refreshVars, loopVars, Labels, Ended
  <2> QED BY <2>1, <2>2
<1>3. cmd' \in [Jobs -> Commands \cup {NoCommand}] /\ \A k \in Jobs \ {j} : cmd'[k] = cmd[k]
  BY <1>1 DEF MappingInv, TypeOK
<1>4. TypeOK'
  BY <1>1, <1>2, <1>3 DEF MappingInv, TypeOK, Resumed
<1>5. OthersKept(j)
  BY <1>1, <1>2, <1>3 DEF Resumed, OthersKept
<1>6. cmd'[j] # NoCommand /\ Makes(j)'
  BY <1>1 DEF MappingInv, TypeOK, Makes
<1> QED BY <1>1, <1>2, <1>4, <1>5, <1>6, QuietResumed DEF MappingInv

\* An assignment begins with the rules as they are.
LEMMA BeginAssignKeeps ==
  ASSUME MappingInv, NEW j \in Jobs, NEW c \in Commands, BeginAssign(j, c)
  PROVE  MappingInv' /\ Advance
<1> USE DEF BeginAssign, Take, Goto, Labels, Ended
<1>1. TypeOK'
  BY DEF MappingInv, TypeOK, cacheVars, refreshVars, loopVars
<1>2. /\ pc[j] = "idle" /\ OthersKept(j) /\ objects' \subseteq used' /\ used \subseteq used'
      /\ UNCHANGED <<results, operands, scope>>
  BY DEF MappingInv, TypeOK, OthersKept, cacheVars, refreshVars, loopVars
<1>3. c # NoCommand /\ cmd'[j] = c /\ pc'[j] \in {"lookup", "failed"} /\ c.op = "assign"
  BY MappingAssumption DEF MappingInv, TypeOK
<1>4. AtInv(j)'
  BY <1>2, <1>3 DEF MappingInv, TypeOK, AtInv, Makes, cacheVars, refreshVars, loopVars
<1>5. CopyInv(j)'
  BY <1>2 DEF MappingInv, CopyInv, Sound, loopVars
<1> QED BY <1>1, <1>2, <1>4, <1>5, QuietStep

----------------------------------------------------------------------------
\* The steps that change the cached scope.

\* A selection is saved over a result that is there, whatever it has become since it was
\* copied.
LEMMA SaveSelectionKeeps ==
  ASSUME MappingInv, NEW j \in Jobs, SaveSelection(j)
  PROVE  MappingInv' /\ Advance
<1>1. /\ pc[j] = "save" /\ cmd[j] # NoCommand /\ (cmd[j].op = "direct" \/ Makes(j))
      /\ copy[j] # NoResult
      /\ UNCHANGED <<objects, used, cmd, object, operands, scope>>
      /\ UNCHANGED <<fingerprint, rulesRead, edits, overlap, faults>>
  <2>1. pc[j] = "save" /\ AtInv(j)
    BY DEF SaveSelection, MappingInv
  <2>2. /\ UNCHANGED <<objects, used, cmd, object, operands, scope>>
        /\ UNCHANGED <<fingerprint, rulesRead, edits, overlap, faults>>
    BY DEF SaveSelection, bookVars
  <2> QED BY <2>1, <2>2 DEF AtInv
<1>2. CASE scope # "cached"
  <2>1. Raise(j) /\ results' = results /\ faults' \in 0 .. MaxFaults
    BY <1>1, <1>2 DEF SaveSelection, MappingInv, TypeOK
  <2> QED BY <1>1, <2>1, RaiseStep
<1>3. CASE scope = "cached"
  <2> DEFINE r == item[j]
             new == select(copy[j], object[j])
  <2>1. /\ r \in ResultIds /\ results[r] # NoResult /\ results[r] \in Result
        /\ copy[j] \in Result /\ Sound(copy[j], r) /\ copy[j].candidates = results[r].candidates
        /\ object[j] \in Objects /\ object[j] \in used /\ TypeOf[object[j]] = kind(r)
    BY <1>1 DEF MappingInv, TypeOK, CopyInv, AtInv
  <2>2. /\ new \in Result /\ new # NoResult /\ Sound(new, r)
        /\ new.status = "MATCHED" /\ new.candidates = results[r].candidates
    BY <2>1, SelectSound, MappingAssumption
  <2>3. results' = [results EXCEPT ![r] = new]
    BY <1>3 DEF SaveSelection
  <2> HIDE DEF new
  <2>4. Resumed(j) /\ (pc'[j] \in {"catalog", "canonical"} => Makes(j))
    <3>1. CASE cmd[j].op = "direct" /\ Goto(j, "done") /\ UNCHANGED <<refreshVars, loopVars>>
      BY <3>1 DEF MappingInv, TypeOK, Resumed, Goto, refreshVars, loopVars, Labels, Ended
    <3>2. CASE cmd[j].op = "create" /\ BeginRefresh(j) /\ UNCHANGED loopVars
      BY <3>2 DEF MappingInv, TypeOK, Resumed, Goto, BeginRefresh, loopVars, Labels, Makes
    <3>3. CASE cmd[j].op = "auto" /\ loop_next(j, queue[j], 1)
      BY <3>3, LoopNextResumed DEF MappingInv, TypeOK, Makes
    <3> QED BY <1>3, <3>1, <3>2, <3>3 DEF SaveSelection
  <2>5. TypeOK' /\ OthersKept(j)
    BY <1>1, <2>1, <2>2, <2>3, <2>4 DEF MappingInv, TypeOK, Resumed, OthersKept
  <2>6. /\ results'[r] = new
        /\ \A x \in ResultIds \ {r} : results'[x] = results[x]
    BY <2>1, <2>3 DEF MappingInv, TypeOK
  <2>7. Advance
    BY <2>1, <2>2, <2>6 DEF Advance
  <2>8. ResultInv'
    <3>1. \A k \in Jobs : results'[k] # NoResult => k # j /\ pc'[k] = "done" /\ cmd'[k].op = "assign"
      BY <1>1, <2>1, <2>6, <2>5 DEF MappingInv, ResultInv, ResultIds, OthersKept
    <3>2. \A e \in Entities : results'[e] # NoResult
      BY <1>3, <2>2, <2>6 DEF MappingInv, ResultInv, ResultIds
    <3>3. \A x \in ResultIds : (results[x] # NoResult => Sound(results[x], x))'
      BY <1>1, <2>2, <2>6 DEF MappingInv, ResultInv, Sound
    <3> QED BY <1>1, <1>3, <3>1, <3>2, <3>3 DEF ResultInv
  <2>9. OperandsResolve'
    BY <1>1, <2>7 DEF MappingInv, TypeOK, OperandsResolve, Advance
  <2>10. (CopyInv(j) /\ AtInv(j))'
    BY <1>1, <2>4, <2>7, ResumedKeeps DEF Makes
  <2> QED BY <1>1, <2>5, <2>7, <2>8, <2>9, <2>10, JobStep DEF MappingInv
<1> QED BY <1>2, <1>3

\* The scope is stored: its results come from a catalog whose objects were there.
LEMMA StoreScopeKeeps ==
  ASSUME MappingInv, NEW j \in Jobs, StoreScope(j)
  PROVE  MappingInv' /\ Advance
<1>1. /\ pc[j] = "canonical" /\ cmd[j] # NoCommand /\ pc' = [pc EXCEPT ![j] = "done"]
      /\ UNCHANGED <<objects, used, cmd, object, rulesRead, edits, overlap, faults>>
      /\ UNCHANGED <<item, copy, queue, wins, known, part, was>>
  BY DEF StoreScope, MappingInv, AtInv, Goto, refreshVars, loopVars
<1>2. OthersKept(j) /\ AtInv(j)'
  BY <1>1 DEF MappingInv, TypeOK, OthersKept, AtInv, Makes
<1>3. CASE scope # "none"
  <2>1. UNCHANGED <<results, operands, scope, fingerprint>>
    BY <1>3 DEF StoreScope
  <2>2. TypeOK' /\ CopyInv(j)'
    BY <1>1, <2>1 DEF MappingInv, TypeOK, CopyInv, Sound, Labels, Ended
  <2> QED BY <1>1, <1>2, <2>1, <2>2, QuietStep DEF MappingInv
<1>4. CASE scope = "none"
  <2>1. /\ scope' = "cached" /\ fingerprint' = known[j]
        /\ results' = [r \in ResultIds |->
                         IF r \in Entities THEN build_result(r, known[j]) ELSE NoResult]
        /\ operands' = {[rule |-> u.rule, role |-> u.role, result |-> u.result, by |-> j] : u \in Uses}
    BY <1>4 DEF StoreScope
  <2>2. known[j] \in SUBSET Objects /\ known[j] \subseteq used
    BY DEF MappingInv, TypeOK, AtInv
  <2>3. \A e \in Entities : /\ results'[e] \in Result /\ results'[e] # NoResult
                            /\ Sound(results'[e], e)
    BY <2>1, <2>2, BuildSound, MappingAssumption DEF ResultIds
  <2>4. \A k \in Jobs : results'[k] = NoResult
    BY <2>1, MappingAssumption DEF ResultIds
  <2>5. results' \in [ResultIds -> Result \cup {NoResult}]
    BY <2>1, <2>3 DEF ResultIds
  <2>6. /\ operands' \subseteq [rule: Rules, role: Roles, result: ResultIds, by: Jobs]
        /\ \A op \in operands' : op.result \in Entities
    BY <2>1, MappingAssumption DEF ResultIds
  <2>7. TypeOK'
    BY <1>1, <2>1, <2>2, <2>5, <2>6 DEF MappingInv, TypeOK, Labels, Ended
  <2>8. ResultInv'
    BY <1>1, <2>1, <2>3, <2>4 DEF ResultInv, ResultIds, Sound
  <2>9. OperandsResolve'
    BY <2>3, <2>6, MappingAssumption DEF OperandsResolve
  <2>10. Advance
    BY <1>4 DEF MappingInv, ResultInv, Advance
  <2>11. CopyInv(j)'
    BY <1>1, <1>4 DEF MappingInv, ResultInv, CopyInv
  <2> QED BY <1>1, <1>2, <2>7, <2>8, <2>9, <2>10, <2>11, JobStep DEF MappingInv
<1> QED BY <1>3, <1>4

\* An assignment stores at most its own result, of the zone that was looked up, and
\* refers to that one or to one that is there.
LEMMA AssignZoneKeeps ==
  ASSUME MappingInv, NEW j \in Jobs, AssignZone(j)
  PROVE  MappingInv' /\ Advance
<1> DEFINE z == cmd[j].object
           matching == matching_zone_results(z)
           without == rules_without_zone(rulesRead[j], cmd[j].role, matching)
<1>1. /\ pc[j] = "assign" /\ cmd[j] # NoCommand /\ cmd[j].op = "assign" /\ cmd[j] \in Command
      /\ z \in Objects /\ z \in used /\ TypeOf[z] = "zone" /\ cmd[j].role \in {"SRC_ZONE", "DST_ZONE"}
      /\ UNCHANGED <<objects, used, cmd, object, rulesRead, edits, overlap, faults>>
      /\ UNCHANGED <<item, copy, queue, wins, known, part, was, scope, fingerprint>>
  <2>1. cmd[j] \in Command /\ cmd[j].op = "assign"
    BY CommandTaken DEF AssignZone, MappingInv, AtInv
  <2> QED BY <2>1 DEF AssignZone, MappingInv, AtInv, Command, refreshVars, loopVars, bookVars
<1>2. MappingInv' /\ Advance
  <2>0. Goto(j, "done") \/ Goto(j, "failed")
    BY DEF AssignZone
  <2>1. pc'[j] \in {"done", "failed"} /\ OthersKept(j)
    BY <1>1, <2>0 DEF MappingInv, TypeOK, Goto, OthersKept
  <2>2. AtInv(j)'
    BY <1>1, <2>1 DEF MappingInv, AtInv, Makes
  <2>3. pc' \in [Jobs -> Labels]
    BY <2>0 DEF MappingInv, TypeOK, Goto, Labels, Ended
  <2>4. CASE UNCHANGED <<results, operands>>
    <3>1. TypeOK' /\ CopyInv(j)'
      BY <1>1, <2>3, <2>4 DEF MappingInv, TypeOK, CopyInv, Sound
    <3> QED BY <1>1, <2>1, <2>2, <2>4, <3>1, QuietStep DEF MappingInv
  <2>5. CASE /\ scope = "cached" /\ Goto(j, "done")
             /\ \E m \in IF manual_result(matching) = {} THEN {j} ELSE manual_result(matching) :
                  /\ results' = add_manual_result(j, m, z)
                  /\ operands' = operands \cup
                       {[rule |-> u, role |-> cmd[j].role, result |-> m, by |-> j] : u \in without}
    <3>1. PICK m \in IF manual_result(matching) = {} THEN {j} ELSE manual_result(matching) :
            /\ results' = add_manual_result(j, m, z)
            /\ operands' = operands \cup
                 {[rule |-> u, role |-> cmd[j].role, result |-> m, by |-> j] : u \in without}
      BY <2>5
    <3> DEFINE new == [status |-> "MATCHED", selected |-> z, candidates |-> {}]
    <3>2. /\ results[j] = NoResult /\ j \in ResultIds /\ kind(j) = "zone" /\ z # NoObject
          /\ new \in Result /\ new # NoResult /\ Sound(new, j)
      BY <1>1, MappingAssumption DEF MappingInv, ResultInv, ResultIds, kind, Result, Sound
    <3>3. m \in Jobs /\ m \in ResultIds /\ (m = j \/ results[m] # NoResult)
      BY DEF manual_result, matching_zone_results, ResultIds
    <3>4. results' \in [ResultIds -> Result \cup {NoResult}]
          /\ (\A x \in ResultIds \ {j} : results'[x] = results[x])
          /\ results'[j] \in {NoResult, new} /\ results'[m] # NoResult
      BY <3>1, <3>2, <3>3 DEF add_manual_result, MappingInv, TypeOK
    <3> HIDE DEF new
    <3>5. without \subseteq Rules
      BY DEF rules_without_zone
    <3>6. operands' \subseteq [rule: Rules, role: Roles, result: ResultIds, by: Jobs]
      BY <1>1, <3>1, <3>3, <3>5 DEF MappingInv, TypeOK, Roles
    <3>7. TypeOK'
      BY <1>1, <2>3, <3>4, <3>6 DEF MappingInv, TypeOK
    <3>8. Advance
      BY <3>2, <3>4 DEF Advance
    <3>9. pc'[j] = "done"
      BY <2>5 DEF Goto, MappingInv, TypeOK
    <3>10. ResultInv'
      <4>1. \A k \in Jobs : results'[k] # NoResult => pc'[k] = "done" /\ cmd'[k].op = "assign"
        BY <1>1, <2>1, <3>4, <3>9 DEF MappingInv, ResultInv, ResultIds, OthersKept
      <4>2. \A e \in Entities : results'[e] # NoResult
        BY <2>5, <3>8 DEF MappingInv, ResultInv, ResultIds, Advance
      <4>3. \A x \in ResultIds : (results[x] # NoResult => Sound(results[x], x))'
        BY <1>1, <3>2, <3>4 DEF MappingInv, ResultInv, Sound
      <4> QED BY <1>1, <2>5, <4>1, <4>2, <4>3 DEF ResultInv
    <3>11. OperandsResolve'
      <4>1. ASSUME NEW op \in operands' 
            PROVE  /\ results'[op.result] # NoResult
                   /\ op.result \in Jobs => op.role \in {"SRC_ZONE", "DST_ZONE"}
        <5>1. CASE op \in operands
          BY <3>8, <5>1 DEF MappingInv, TypeOK, OperandsResolve, Advance
        <5>2. CASE op \notin operands
          <6>1. op.result = m /\ op.role = cmd[j].role
            BY <3>1, <5>2
          <6> QED BY <1>1, <3>4, <6>1
        <5> QED BY <5>1, <5>2
      <4> QED BY <4>1 DEF OperandsResolve
    <3>12. CopyInv(j)'
      BY <1>1, <3>8 DEF MappingInv, CopyInv, Sound, Advance
    <3> QED BY <1>1, <2>1, <2>2, <3>7, <3>8, <3>10, <3>11, <3>12, JobStep DEF MappingInv
  <2> QED BY <2>4, <2>5 DEF AssignZone
<1> QED BY <1>2

----------------------------------------------------------------------------
\* Steps of no invocation: what the jobs hold stays, at most they are cut off.
LEMMA WorldStep ==
  ASSUME MappingInv, TypeOK', objects' \subseteq used', used \subseteq used', ResultInv',
         OperandsResolve', Advance, UNCHANGED <<cmd, item, copy, object, known, part>>,
         \A k \in Jobs : pc'[k] = pc[k] \/ (pc'[k] = "failed" /\ pc[k] \notin Ended)
  PROVE  MappingInv'
<1>1. ASSUME NEW k \in Jobs PROVE (CopyInv(k) /\ AtInv(k))'
  <2>1. CopyInv(k) /\ AtInv(k)
    BY DEF MappingInv
  <2>2. CopyInv(k)'
    BY <2>1 DEF CopyInv, Advance, Sound
  <2>3. AtInv(k)'
    BY <2>1 DEF AtInv, Makes, Ended
  <2> QED BY <2>2, <2>3
<1> QED BY <1>1 DEF MappingInv

LEMMA SelectCandidateKeeps ==
  ASSUME MappingInv, NEW r \in ResultIds, NEW o \in Objects, SelectCandidate(r, o)
  PROVE  MappingInv' /\ Advance
<1> DEFINE new == select(results[r], o)
<1>1. /\ UNCHANGED <<objects, used, scope, fingerprint, operands, pc, cmd, object, rulesRead>>
      /\ UNCHANGED <<item, copy, queue, wins, known, part, was, edits, overlap, faults>>
  BY DEF SelectCandidate, refreshVars, loopVars, bookVars
<1>2. /\ results[r] # NoResult /\ results[r] \in Result /\ Sound(results[r], r)
      /\ o \in used /\ TypeOf[o] = kind(r)
  <2>1. results[r] # NoResult /\ o \in results[r].candidates
    BY DEF SelectCandidate
  <2>2. results[r] \in Result /\ Sound(results[r], r)
    BY <2>1 DEF MappingInv, TypeOK, ResultInv
  <2> QED BY <2>1, <2>2 DEF Sound
<1>3. /\ new \in Result /\ new # NoResult /\ Sound(new, r)
      /\ new.status = "MATCHED" /\ new.candidates = results[r].candidates
  BY <1>2, SelectSound, MappingAssumption
<1>4. results' = [results EXCEPT ![r] = new]
  BY DEF SelectCandidate
<1> HIDE DEF new
<1>5. results'[r] = new /\ \A x \in ResultIds \ {r} : results'[x] = results[x]
  BY <1>4 DEF MappingInv, TypeOK
<1>6. TypeOK'
  BY <1>1, <1>3, <1>4 DEF MappingInv, TypeOK
<1>7. Advance
  BY <1>2, <1>3, <1>5 DEF Advance
<1>8. ResultInv'
  <2>1. \A k \in Jobs : results'[k] # NoResult => pc'[k] = "done" /\ cmd'[k].op = "assign"
    BY <1>1, <1>2, <1>5 DEF MappingInv, ResultInv, ResultIds
  <2>2. scope' # "none" => \A e \in Entities : results'[e] # NoResult
    BY <1>1, <1>7 DEF MappingInv, ResultInv, ResultIds, Advance
  <2>3. \A x \in ResultIds : (results[x] # NoResult => Sound(results[x], x))'
    BY <1>1, <1>3, <1>5 DEF MappingInv, ResultInv, Sound
  <2>4. scope' # "none"
    BY <1>1 DEF SelectCandidate
  <2> QED BY <2>1, <2>2, <2>3, <2>4 DEF ResultInv
<1>9. OperandsResolve'
  BY <1>1, <1>7 DEF MappingInv, TypeOK, OperandsResolve, Advance
<1>10. objects' \subseteq used' /\ used \subseteq used' /\ pc' = pc
  BY <1>1 DEF MappingInv
<1> QED BY <1>1, <1>6, <1>7, <1>8, <1>9, <1>10, WorldStep

\* The scope is lost, the process restarts, or another administrator changes the catalog.
LEMMA LossKeeps ==
  ASSUME MappingInv,
         LoseScope \/ Crash \/ \E o \in Objects : ForeignCreate(o) \/ ForeignDelete(o)
  PROVE  MappingInv' /\ Advance
<1>1. /\ UNCHANGED <<fingerprint, results, operands, cmd, object, rulesRead, item, copy, queue, wins>>
      /\ UNCHANGED <<known, part, was, overlap>>
      /\ used \subseteq used' /\ objects' \subseteq used' /\ used' \subseteq Objects
      /\ objects' \subseteq Objects
  BY DEF LoseScope, Crash, ForeignCreate, ForeignDelete, MappingInv, TypeOK, cacheVars, refreshVars,
         loopVars, bookVars
<1>2. /\ scope' \in {"none", "cached", "gone"} /\ (scope' = "none" <=> scope = "none")
      /\ edits' \in 0 .. MaxEdits /\ faults' \in 0 .. MaxFaults
  BY MappingAssumption
     DEF LoseScope, Crash, ForeignCreate, ForeignDelete, Fault, MappingInv, TypeOK, cacheVars, bookVars
<1>3. /\ pc' \in [Jobs -> Labels]
      /\ \A k \in Jobs : pc'[k] = pc[k] \/ (pc'[k] = "failed" /\ pc[k] \notin Ended)
  <2>1. CASE Crash
    <3>1. pc' = [j \in Jobs |-> IF pc[j] \in Ended THEN pc[j] ELSE "failed"]
      BY <2>1 DEF Crash
    <3>2. pc \in [Jobs -> Labels] /\ "failed" \in Labels
      BY DEF MappingInv, TypeOK, Labels, Ended
    <3> QED BY <3>1, <3>2
  <2>2. CASE pc' = pc
    BY <2>2 DEF MappingInv, TypeOK
  <2> QED BY <2>1, <2>2 DEF LoseScope, ForeignCreate, ForeignDelete
<1>4. TypeOK'
  BY <1>1, <1>2, <1>3 DEF MappingInv, TypeOK
<1>5. ResultInv'
  BY <1>1, <1>2, <1>3 DEF MappingInv, ResultInv, Sound, Ended
<1>6. OperandsResolve' /\ Advance
  BY <1>1 DEF MappingInv, OperandsResolve, Advance
<1> QED BY <1>1, <1>3, <1>4, <1>5, <1>6, WorldStep

LEMMA StutterKeeps ==
  ASSUME MappingInv, UNCHANGED vars
  PROVE  MappingInv' /\ Advance
<1>1. /\ UNCHANGED <<objects, used, scope, fingerprint, results, operands, pc, cmd, object, rulesRead>>
      /\ UNCHANGED <<item, copy, queue, wins, known, part, was, edits, overlap, faults>>
  BY DEF vars, cacheVars, refreshVars, loopVars, bookVars
<1>2. TypeOK'
  BY <1>1 DEF MappingInv, TypeOK
<1>3. ResultInv' /\ OperandsResolve' /\ Advance
  BY <1>1 DEF MappingInv, ResultInv, Sound, OperandsResolve, Advance
<1> QED BY <1>1, <1>2, <1>3, WorldStep DEF MappingInv

\* Every step keeps the invariant and lets the results only advance.
LEMMA NextMappingInv ==
  ASSUME MappingInv, [Next]_vars
  PROVE  MappingInv' /\ Advance
<1>1. ASSUME NEW j \in Jobs, Begin(j) PROVE MappingInv' /\ Advance
  BY <1>1, BeginMapKeeps, BeginSelectKeeps, BeginAutoKeeps, BeginAssignKeeps DEF Begin
<1>2. ASSUME NEW j \in Jobs, Step(j) PROVE MappingInv' /\ Advance
  BY <1>2, CheckTargetKeeps, ReadCatalogPartKeeps, StoreScopeKeeps, AcceptCatalogKeeps, LookupKeeps,
     SaveSelectionKeeps, ReadCanonicalKeeps, ReadBackKeeps, AssignZoneKeeps, MakeObjectKeeps DEF Step
<1>3. ASSUME NEW j \in Jobs, CallFails(j) PROVE MappingInv' /\ Advance
  BY <1>3, CallFailsKeeps
<1>4. CASE LoseScope \/ Crash
  BY <1>4, LossKeeps
<1>5. CASE World
  BY <1>5, LossKeeps, SelectCandidateKeeps DEF World
<1>6. CASE UNCHANGED vars
  BY <1>6, StutterKeeps
<1> QED BY <1>1, <1>2, <1>3, <1>4, <1>5, <1>6 DEF Next

LEMMA MappingInvariant == Spec => []MappingInv
<1>1. MappingInv /\ [Next]_vars => MappingInv'
  BY NextMappingInv
<1> QED BY <1>1, InitMappingInv, PTL DEF Spec

\* A job's own manual result appears only where no other one of its zone is.
ManualStep ==
  \A j \in Jobs : (results[j] = NoResult /\ results'[j] # NoResult) =>
    \A k \in Jobs \ {j} : results[k] # NoResult =>
      results[k].selected # results'[j].selected

LEMMA AssignZoneOnce ==
  ASSUME MappingInv, NEW j \in Jobs, AssignZone(j)
  PROVE  ManualStep
<1> DEFINE z == cmd[j].object
           matching == matching_zone_results(z)
<1>1. z \in Objects /\ z # NoObject
  <2>1. pc[j] = "assign" /\ cmd[j] \in Command /\ cmd[j].op = "assign"
    BY CommandTaken DEF AssignZone, MappingInv, AtInv
  <2> QED BY <2>1, MappingAssumption DEF Command
<1>2. CASE results' = results
  BY <1>2 DEF ManualStep
<1>3. CASE results' # results
  <2>1. PICK m \in IF manual_result(matching) = {} THEN {j} ELSE manual_result(matching) :
          scope = "cached" /\ results' = add_manual_result(j, m, z)
    BY <1>3 DEF AssignZone
  <2>2. m = j
    BY <1>3, <2>1 DEF add_manual_result
  <2>3. results' = [results EXCEPT ![j] = [status |-> "MATCHED", selected |-> z, candidates |-> {}]]
    BY <2>1, <2>2 DEF add_manual_result
  <2>4. /\ j \in ResultIds /\ results'[j].selected = z
        /\ \A i \in Jobs \ {j} : results'[i] = results[i]
    BY <2>3 DEF MappingInv, TypeOK, ResultIds
  <2>5. results[j] = NoResult => manual_result(matching) = {}
    BY <2>1, <2>2 DEF manual_result, matching_zone_results
  <2>6. ASSUME NEW k \in Jobs \ {j}, results[k] # NoResult, results[j] = NoResult
        PROVE  results[k].selected # z
    <3>1. k \in ResultIds /\ kind(k) = "zone"
      BY MappingAssumption DEF ResultIds, kind
    <3>2. results[k].selected = z => k \in matching
      BY <1>1, <2>1, <2>6, <3>1 DEF matching_zone_results, MappingInv, ResultInv, Sound
    <3> QED BY <2>5, <2>6, <3>2 DEF manual_result
  <2> QED BY <2>4, <2>6 DEF ManualStep
<1> QED BY <1>2, <1>3

\* Every other step leaves the manual results as they are, or changes one that is there.
LEMMA NextManualStep ==
  ASSUME MappingInv, [Next]_vars
  PROVE  ManualStep
<1>1. ASSUME \A j \in Jobs : results[j] = NoResult => results'[j] = NoResult
      PROVE  ManualStep
  BY <1>1 DEF ManualStep
<1>2. CASE results' = results
  BY <1>1, <1>2
<1>3. ASSUME NEW j \in Jobs, AssignZone(j) PROVE ManualStep
  BY <1>3, AssignZoneOnce
<1>4. ASSUME NEW j \in Jobs, SaveSelection(j) PROVE ManualStep
  <2>1. CASE results' = [results EXCEPT ![item[j]] = select(copy[j], object[j])]
    <3>1. results[item[j]] # NoResult
      BY <1>4 DEF SaveSelection, MappingInv, AtInv, CopyInv
    <3>2. \A k \in Jobs : results[k] = NoResult => results'[k] = NoResult
      BY <2>1, <3>1 DEF MappingInv, TypeOK, ResultIds
    <3> QED BY <1>1, <3>2
  <2> QED BY <1>2, <1>4, <2>1 DEF SaveSelection
<1>5. ASSUME NEW j \in Jobs, StoreScope(j) PROVE ManualStep
  <2>1. CASE scope = "none"
    <3>1. \A k \in Jobs : results'[k] = NoResult
      BY <1>5, <2>1, MappingAssumption DEF StoreScope, ResultIds
    <3> QED BY <1>1, <3>1
  <2> QED BY <1>2, <1>5, <2>1 DEF StoreScope
<1>6. ASSUME NEW r \in ResultIds, NEW o \in Objects, SelectCandidate(r, o) PROVE ManualStep
  <2>1. \A k \in Jobs : results[k] = NoResult => results'[k] = NoResult
    BY <1>6 DEF SelectCandidate, MappingInv, TypeOK, ResultIds
  <2> QED BY <1>1, <2>1
<1>7. ASSUME NEW j \in Jobs, Begin(j) \/ CallFails(j) PROVE results' = results
  BY <1>7 DEF Begin, CallFails, BeginMap, BeginSelect, BeginAuto, BeginAssign, cacheVars
<1>8. ASSUME NEW j \in Jobs, Step(j) PROVE ManualStep
  BY <1>2, <1>3, <1>4, <1>5, <1>8
     DEF Step, CheckTarget, ReadCatalogPart, AcceptCatalog, Lookup, found, ReadCanonical, ReadBack, MakeObject,
         cacheVars
<1>9. CASE LoseScope \/ Crash \/ UNCHANGED vars
  BY <1>2, <1>9 DEF LoseScope, Crash, vars, cacheVars
<1>10. CASE World
  BY <1>2, <1>6, <1>10 DEF World, ForeignCreate, ForeignDelete, cacheVars
<1> QED BY <1>2, <1>7, <1>8, <1>9, <1>10 DEF Next

----------------------------------------------------------------------------
(***************************************************************************)
(* One invocation at a time, without faults or changes by others           *)
(***************************************************************************)
Quiet == faults = 0 /\ edits = 0 /\ overlap = "no"

active(j) == pc[j] \notin Ended

\* The objects of the first n kinds of the catalog.
catalog_parts(n) == {o \in objects : \E i \in 1 .. n : TypeOf[o] = CatalogOrder[i]}

\* Where the baseline is behind the catalog, the job at work has an object to select, has
\* counted a success, or is about to refresh; what it has read is what is there.
BaselineInv(j) ==
  /\ pc[j] \in {"target", "catalog"} => known[j] = catalog_parts(part[j])
  /\ pc[j] = "canonical" /\ cmd[j].op = "map" => known[j] = objects
  /\ pc[j] = "accept" => known[j] = objects
  /\ pc[j] \in {"catalog", "accept"} /\ Makes(j) => was[j] = fingerprint
  /\ cmd[j].op = "map" => scope = "none"
  /\ cmd[j].op # "map" => scope = "cached"
  /\ cmd[j].op \in {"direct", "assign"} => fingerprint = objects
  /\ pc[j] \in {"canonical", "make"} /\ cmd[j].op = "create" => fingerprint = objects
  /\ pc[j] \in {"canonical", "make"} /\ cmd[j].op = "auto" /\ wins[j] = 0 => fingerprint = objects
  /\ pc[j] \in {"readback", "save"} /\ Makes(j) => object[j] \in objects

QuietInv ==
  /\ \A j \in Jobs : pc[j] = "idle" => known[j] = {} /\ wins[j] = 0
  /\ Quiet =>
       /\ scope # "gone"
       /\ \A j, k \in Jobs : active(j) /\ active(k) => j = k
       /\ \A j \in Jobs : active(j) => BaselineInv(j)
       /\ (\A j \in Jobs : ~active(j)) /\ scope = "cached" => fingerprint = objects

\* It is enough to look at the one job that moves.
LEMMA QuietFrame ==
  ASSUME QuietInv, NEW j \in Jobs,
         Quiet' => /\ Quiet /\ \A k \in Jobs \ {j} : ~active(k)
                   /\ scope' # "gone"
                   /\ active(j)' => BaselineInv(j)'
                   /\ ~active(j)' /\ scope' = "cached" => fingerprint' = objects',
         pc'[j] # "idle",
         \A k \in Jobs \ {j} : pc'[k] = pc[k] /\ known'[k] = known[k] /\ wins'[k] = wins[k]
  PROVE  QuietInv'
<1>1. \A k \in Jobs \ {j} : active(k)' <=> active(k)
  BY DEF active
<1>2. \A k \in Jobs : pc'[k] = "idle" => known'[k] = {} /\ wins'[k] = 0
  BY DEF QuietInv
<1>3. ASSUME Quiet'
      PROVE  /\ scope' # "gone"
             /\ \A i, k \in Jobs : active(i)' /\ active(k)' => i = k
             /\ \A k \in Jobs : active(k)' => BaselineInv(k)'
             /\ (\A k \in Jobs : ~active(k)') /\ scope' = "cached" => fingerprint' = objects'
  BY <1>1, <1>3
<1> QED BY <1>2, <1>3 DEF QuietInv

\* What the moving job may rely on.
LEMMA QuietBefore ==
  ASSUME QuietInv, Quiet, NEW j \in Jobs, active(j)
  PROVE  BaselineInv(j) /\ scope # "gone" /\ \A k \in Jobs \ {j} : ~active(k)
BY DEF QuietInv

\* The three kinds are the whole catalog.
LEMMA CatalogParts ==
  ASSUME TypeOK
  PROVE  /\ catalog_parts(0) = {} /\ catalog_parts(3) = objects
         /\ \A n \in 0 .. 2 : catalog_parts(n + 1) =
              catalog_parts(n) \cup {o \in objects : TypeOf[o] = CatalogOrder[n + 1]}
<1>1. catalog_parts(0) = {}
  BY DEF catalog_parts
<1>2. \A o \in objects : TypeOf[o] \in {CatalogOrder[1], CatalogOrder[2], CatalogOrder[3]}
  BY MappingAssumption DEF TypeOK, Kinds, CatalogOrder
<1>3. catalog_parts(3) = objects
  BY <1>2 DEF catalog_parts
<1>4. ASSUME NEW n \in 0 .. 2
      PROVE  catalog_parts(n + 1) =
               catalog_parts(n) \cup {o \in objects : TypeOf[o] = CatalogOrder[n + 1]}
  <2>1. \A i : i \in 1 .. (n + 1) <=> i \in 1 .. n \/ i = n + 1
    OBVIOUS
  <2> QED BY <2>1 DEF catalog_parts
<1> QED BY <1>1, <1>3, <1>4

\* The refresh begins with nothing read.
LEMMA BeginRefreshQuiet ==
  ASSUME MappingInv, NEW j \in Jobs, BeginRefresh(j), UNCHANGED <<objects, fingerprint, scope>>,
         scope = "cached", Makes(j)'
  PROVE  active(j)' /\ BaselineInv(j)'
<1>1. pc'[j] = "catalog" /\ known'[j] = {} /\ part'[j] = 0 /\ was'[j] = fingerprint
  BY DEF BeginRefresh, Goto, MappingInv, TypeOK
<1>2. catalog_parts(0)' = {}
  BY DEF catalog_parts
<1> QED BY <1>1, <1>2 DEF active, Ended, BaselineInv, Makes

\* An auto-creation that has created nothing leaves the baseline right, the others refresh.
LEMMA LoopNextQuiet ==
  ASSUME MappingInv, NEW j \in Jobs, NEW q \in SUBSET Entities, NEW won \in Nat, loop_next(j, q, won),
         UNCHANGED <<objects, fingerprint, scope>>, scope = "cached", cmd'[j].op = "auto",
         wins[j] + won = 0 => fingerprint = objects
  PROVE  /\ active(j)' => BaselineInv(j)'
         /\ ~active(j)' => fingerprint = objects
<1> DEFINE todo == {e \in q : kind(e) # "zone" /\ scope = "cached"}
<1>1. wins' = [wins EXCEPT ![j] = @ + won] /\ wins'[j] = wins[j] + won
  BY DEF loop_next, MappingInv, TypeOK
<1>2. CASE todo # {}
  <2>1. pc'[j] = "canonical"
    BY <1>2 DEF loop_next, Goto, MappingInv, TypeOK
  <2> QED BY <1>1, <2>1 DEF active, Ended, BaselineInv, Makes
<1>3. CASE todo = {} /\ wins[j] + won = 0
  <2>1. pc'[j] = "done"
    BY <1>3 DEF loop_next, Goto, MappingInv, TypeOK
  <2> QED BY <1>3, <2>1 DEF active, Ended
<1>4. CASE todo = {} /\ wins[j] + won # 0
  <2>1. BeginRefresh(j)
    BY <1>4 DEF loop_next
  <2> QED BY <2>1, BeginRefreshQuiet DEF Makes
<1> QED BY <1>2, <1>3, <1>4

\* Steps of no job: what is at rest stays at rest.
LEMMA WorldQuiet ==
  ASSUME MappingInv, QuietInv,
         LoseScope \/ Crash \/ World \/ UNCHANGED vars
  PROVE  QuietInv'
<1>1. CASE LoseScope \/ Crash
  <2>1. ~Quiet'
    BY <1>1 DEF LoseScope, Crash, Fault, Quiet, MappingInv, TypeOK
  <2>2. known' = known /\ wins' = wins /\ \A j \in Jobs : pc'[j] = "idle" => pc[j] = "idle"
    BY <1>1 DEF LoseScope, Crash, refreshVars, loopVars
  <2> QED BY <2>1, <2>2 DEF QuietInv
<1>2. ASSUME NEW o \in Objects, ForeignCreate(o) \/ ForeignDelete(o) PROVE QuietInv'
  <2>1. ~Quiet'
    BY <1>2 DEF ForeignCreate, ForeignDelete, Quiet, MappingInv, TypeOK
  <2>2. known' = known /\ wins' = wins /\ pc' = pc
    BY <1>2 DEF ForeignCreate, ForeignDelete, refreshVars, loopVars
  <2> QED BY <2>1, <2>2 DEF QuietInv
<1>3. CASE UNCHANGED vars \/ \E r \in ResultIds, o \in Objects : SelectCandidate(r, o)
  <2>1. /\ UNCHANGED <<objects, scope, fingerprint, pc, cmd, object>>
        /\ UNCHANGED <<wins, known, part, was, edits, overlap, faults>>
    BY <1>3 DEF SelectCandidate, vars, cacheVars, refreshVars, loopVars, bookVars
  <2>2. \A j \in Jobs : /\ active(j)' <=> active(j)
                        /\ BaselineInv(j)' <=> BaselineInv(j)
    BY <2>1 DEF active, BaselineInv, Makes, catalog_parts
  <2>3. Quiet' <=> Quiet
    BY <2>1 DEF Quiet
  <2> QED BY <2>1, <2>2, <2>3 DEF QuietInv
<1> QED BY <1>1, <1>2, <1>3 DEF World

\* A job under way, which is the only one when all is quiet, takes a step.
LEMMA ActiveFrame ==
  ASSUME QuietInv, NEW j \in Jobs, active(j), Quiet' => Quiet,
         Quiet' /\ scope # "gone" /\ BaselineInv(j) =>
           /\ scope' # "gone"
           /\ active(j)' => BaselineInv(j)'
           /\ ~active(j)' /\ scope' = "cached" => fingerprint' = objects',
         pc'[j] # "idle",
         \A k \in Jobs \ {j} : pc'[k] = pc[k] /\ known'[k] = known[k] /\ wins'[k] = wins[k]
  PROVE  QuietInv'
<1>1. Quiet' => Quiet /\ BaselineInv(j) /\ scope # "gone" /\ \A k \in Jobs \ {j} : ~active(k)
  BY QuietBefore
<1> QED BY <1>1, QuietFrame

\* A job begins while no other is under way.
LEMMA BeginFrame ==
  ASSUME MappingInv, QuietInv, NEW j \in Jobs, NEW c \in Commands, Take(j, c),
         UNCHANGED <<objects, fingerprint, scope, edits, faults>>,
         (/\ scope # "gone"
          /\ scope = "cached" => fingerprint = objects
          /\ known[j] = {} /\ wins[j] = 0 /\ part[j] = 0
          /\ active(j)')
           => BaselineInv(j)',
         pc'[j] # "idle",
         \A k \in Jobs \ {j} : pc'[k] = pc[k] /\ known'[k] = known[k] /\ wins'[k] = wins[k]
  PROVE  QuietInv'
<1>1. pc[j] = "idle" /\ ~active(j) /\ known[j] = {} /\ wins[j] = 0 /\ part[j] = 0
  BY DEF Take, active, Ended, QuietInv, MappingInv, AtInv
<1>2. ASSUME Quiet' PROVE Quiet /\ \A k \in Jobs \ {j} : ~active(k)
  BY <1>2 DEF Quiet, Take, active
<1>3. ASSUME Quiet' PROVE scope # "gone" /\ (scope = "cached" => fingerprint = objects)
  BY <1>1, <1>2, <1>3 DEF QuietInv
<1> QED BY <1>1, <1>2, <1>3, QuietFrame

LEMMA BeginMapQuiet ==
  ASSUME MappingInv, QuietInv, NEW j \in Jobs, NEW c \in Commands, BeginMap(j, c)
  PROVE  QuietInv'
<1>1. /\ Take(j, c) /\ c.op = "map" /\ scope = "none" /\ cmd'[j] = c
      /\ pc' = [pc EXCEPT ![j] = "target"] /\ pc'[j] = "target"
  BY DEF BeginMap, Take, Goto, MappingInv, TypeOK
<1>2. UNCHANGED <<objects, fingerprint, scope, edits, faults, known, part, was, wins>>
  BY DEF BeginMap, cacheVars, refreshVars, loopVars
<1>3. known[j] = {} /\ part[j] = 0 => BaselineInv(j)'
  <2>1. catalog_parts(0)' = {}
    BY DEF catalog_parts
  <2> QED BY <1>1, <1>2, <2>1 DEF BaselineInv
<1>4. \A k \in Jobs \ {j} : pc'[k] = pc[k] /\ known'[k] = known[k] /\ wins'[k] = wins[k]
  BY <1>1, <1>2 DEF MappingInv, TypeOK
<1> QED BY <1>1, <1>2, <1>3, <1>4, BeginFrame

LEMMA BeginSelectQuiet ==
  ASSUME MappingInv, QuietInv, NEW j \in Jobs, NEW c \in Commands, BeginSelect(j, c)
  PROVE  QuietInv'
<1>1. Take(j, c) /\ c.op \in {"direct", "create"} /\ cmd'[j] = c
  BY DEF BeginSelect, Take, MappingInv, TypeOK
<1>2. UNCHANGED <<objects, fingerprint, scope, edits, faults, known, part, was, wins>>
  BY DEF BeginSelect, cacheVars, refreshVars
<1>3. /\ pc'[j] \in {"lookup", "canonical", "failed"}
      /\ pc'[j] # "failed" => scope = "cached"
      /\ \A k \in Jobs \ {j} : pc'[k] = pc[k]
  BY DEF BeginSelect, Goto, MappingInv, TypeOK
<1>4. scope = "cached" /\ fingerprint = objects /\ pc'[j] # "failed" => BaselineInv(j)'
  BY <1>1, <1>2, <1>3 DEF BaselineInv
<1>5. active(j)' => pc'[j] # "failed"
  BY DEF active, Ended
<1>6. \A k \in Jobs \ {j} : pc'[k] = pc[k] /\ known'[k] = known[k] /\ wins'[k] = wins[k]
  BY <1>2, <1>3
<1> QED BY <1>1, <1>2, <1>3, <1>4, <1>5, <1>6, BeginFrame

LEMMA BeginAutoQuiet ==
  ASSUME MappingInv, QuietInv, NEW j \in Jobs, NEW c \in Commands, BeginAuto(j, c)
  PROVE  QuietInv'
<1>1. Take(j, c) /\ c.op = "auto" /\ cmd'[j] = c
  BY DEF BeginAuto, Take, MappingInv, TypeOK
<1>2. UNCHANGED <<objects, fingerprint, scope, edits, faults>>
  BY DEF BeginAuto, cacheVars
<1>3. CASE scope # "cached"
  <2>1. pc' = [pc EXCEPT ![j] = "failed"] /\ UNCHANGED <<known, wins>>
    BY <1>3 DEF BeginAuto, Goto, refreshVars, loopVars
  <2>2. pc'[j] = "failed" /\ ~active(j)'
    BY <2>1 DEF MappingInv, TypeOK, active, Ended
  <2>3. \A k \in Jobs \ {j} : pc'[k] = pc[k] /\ known'[k] = known[k] /\ wins'[k] = wins[k]
    BY <2>1 DEF MappingInv, TypeOK
  <2> QED BY <1>1, <1>2, <2>2, <2>3, BeginFrame
<1>4. CASE scope = "cached"
  <2> DEFINE q == {e \in Entities : results[e].status = "UNRESOLVED"}
  <2>1. loop_next(j, q, 0) /\ q \in SUBSET Entities
    BY <1>4 DEF BeginAuto
  <2>2. Resumed(j)
    BY <2>1, LoopNextResumed DEF MappingInv
  <2>3. /\ pc'[j] # "idle"
        /\ \A k \in Jobs \ {j} : pc'[k] = pc[k] /\ known'[k] = known[k] /\ wins'[k] = wins[k]
    BY <2>2 DEF Resumed
  <2>4. fingerprint = objects /\ active(j)' => BaselineInv(j)'
    BY <1>1, <1>2, <1>4, <2>1, LoopNextQuiet
  <2> QED BY <1>1, <1>2, <1>4, <2>3, <2>4, BeginFrame
<1> QED BY <1>3, <1>4

LEMMA BeginAssignQuiet ==
  ASSUME MappingInv, QuietInv, NEW j \in Jobs, NEW c \in Commands, BeginAssign(j, c)
  PROVE  QuietInv'
<1>1. Take(j, c) /\ c.op = "assign" /\ cmd'[j] = c
  BY DEF BeginAssign, Take, MappingInv, TypeOK
<1>2. UNCHANGED <<objects, fingerprint, scope, edits, faults, known, part, was, wins>>
  BY DEF BeginAssign, cacheVars, refreshVars, loopVars
<1>3. /\ pc'[j] \in {"lookup", "failed"}
      /\ pc'[j] # "failed" => scope = "cached"
      /\ \A k \in Jobs \ {j} : pc'[k] = pc[k]
  BY DEF BeginAssign, Goto, MappingInv, TypeOK
<1>4. scope = "cached" /\ fingerprint = objects /\ pc'[j] # "failed" => BaselineInv(j)'
  BY <1>1, <1>2, <1>3 DEF BaselineInv, Makes
<1>5. active(j)' => pc'[j] # "failed"
  BY DEF active, Ended
<1>6. \A k \in Jobs \ {j} : pc'[k] = pc[k] /\ known'[k] = known[k] /\ wins'[k] = wins[k]
  BY <1>2, <1>3
<1> QED BY <1>1, <1>2, <1>3, <1>4, <1>5, <1>6, BeginFrame

LEMMA CheckTargetQuiet ==
  ASSUME MappingInv, QuietInv, NEW j \in Jobs, CheckTarget(j)
  PROVE  QuietInv'
<1>1. /\ pc[j] = "target" /\ cmd[j].op = "map" /\ pc'[j] \in {"catalog", "failed"}
      /\ \A k \in Jobs \ {j} : pc'[k] = pc[k]
  BY DEF CheckTarget, Goto, MappingInv, TypeOK, AtInv
<1>2. UNCHANGED <<objects, fingerprint, scope, cmd, object, edits, overlap, faults>>
  BY DEF CheckTarget, cacheVars, bookVars
<1>3. UNCHANGED <<known, part, was, wins>>
  BY DEF CheckTarget, refreshVars, loopVars
<1>4. active(j) /\ (Quiet' => Quiet)
  BY <1>1, <1>2 DEF active, Ended, Quiet
<1>5. BaselineInv(j) => scope = "none" /\ BaselineInv(j)'
  BY <1>1, <1>2, <1>3 DEF BaselineInv, Makes, catalog_parts
<1> QED BY <1>1, <1>2, <1>3, <1>4, <1>5, ActiveFrame

\* After the third part the whole catalog has been read.
LEMMA ReadCatalogPartQuiet ==
  ASSUME MappingInv, QuietInv, NEW j \in Jobs, ReadCatalogPart(j)
  PROVE  QuietInv'
<1>1. /\ pc[j] = "catalog" /\ part[j] \in 0 .. 2 /\ (cmd[j].op = "map" \/ Makes(j))
      /\ \A k \in Jobs \ {j} : pc'[k] = pc[k] /\ known'[k] = known[k]
  BY DEF ReadCatalogPart, Goto, MappingInv, TypeOK, AtInv
<1>2. UNCHANGED <<objects, fingerprint, scope, cmd, object, edits, overlap, faults>>
  BY DEF ReadCatalogPart, cacheVars, bookVars
<1>3. UNCHANGED <<was, wins>>
  BY DEF ReadCatalogPart, loopVars
<1>4. /\ known'[j] = known[j] \cup {o \in objects : TypeOf[o] = CatalogOrder[part[j] + 1]}
      /\ part'[j] = part[j] + 1
      /\ pc'[j] = IF part[j] + 1 < 3 THEN "catalog"
                  ELSE IF cmd[j].op = "map" THEN "canonical" ELSE "accept"
  BY DEF ReadCatalogPart, Goto, MappingInv, TypeOK
<1>5. active(j) /\ (Quiet' => Quiet) /\ active(j)'
  BY <1>1, <1>2, <1>4 DEF active, Ended, Quiet
<1>6. BaselineInv(j) => known'[j] = catalog_parts(part[j] + 1)
  BY <1>1, <1>4, CatalogParts DEF BaselineInv, MappingInv
<1>7. catalog_parts(part[j] + 1) = catalog_parts(part[j])'
  BY <1>2, <1>4 DEF catalog_parts
<1>8. part[j] + 1 < 3 \/ part[j] + 1 = 3
  BY <1>1
<1>9. ASSUME BaselineInv(j) PROVE BaselineInv(j)'
  <2>1. CASE part[j] + 1 < 3
    BY <1>1, <1>2, <1>3, <1>4, <1>6, <1>7, <1>9, <2>1 DEF BaselineInv, Makes
  <2>2. CASE part[j] + 1 = 3
    <3>1. known'[j] = objects' /\ pc'[j] = IF cmd[j].op = "map" THEN "canonical" ELSE "accept"
      BY <1>2, <1>4, <1>6, <1>9, <2>2, CatalogParts DEF MappingInv
    <3> QED BY <1>1, <1>2, <1>3, <1>9, <3>1 DEF BaselineInv, Makes
  <2> QED BY <1>8, <2>1, <2>2
<1> QED BY <1>1, <1>2, <1>3, <1>4, <1>5, <1>9, ActiveFrame DEF Ended

\* The first mapping stores the catalog it has read.
LEMMA StoreScopeQuiet ==
  ASSUME MappingInv, QuietInv, NEW j \in Jobs, StoreScope(j)
  PROVE  QuietInv'
<1>1. /\ pc[j] = "canonical" /\ cmd[j].op = "map" /\ pc'[j] = "done"
      /\ scope = "none" => scope' = "cached" /\ fingerprint' = known[j]
      /\ \A k \in Jobs \ {j} : pc'[k] = pc[k]
  BY DEF StoreScope, Goto, MappingInv, TypeOK
<1>2. UNCHANGED <<objects, known, wins, edits, overlap, faults>>
  BY DEF StoreScope, refreshVars, loopVars
<1>3. active(j) /\ (Quiet' => Quiet) /\ ~active(j)'
  BY <1>1, <1>2 DEF active, Ended, Quiet
<1>4. BaselineInv(j) => scope = "none" /\ known[j] = objects
  BY <1>1 DEF BaselineInv
<1> QED BY <1>1, <1>2, <1>3, <1>4, ActiveFrame

\* The refresh keeps the baseline or stores the catalog it has read.
LEMMA AcceptCatalogQuiet ==
  ASSUME MappingInv, QuietInv, NEW j \in Jobs, AcceptCatalog(j)
  PROVE  QuietInv'
<1>1. /\ pc[j] = "accept" /\ Makes(j) /\ pc'[j] \in {"done", "failed"}
      /\ \A k \in Jobs \ {j} : pc'[k] = pc[k]
  BY DEF AcceptCatalog, Goto, MappingInv, TypeOK, AtInv
<1>2. UNCHANGED <<objects, scope, known, wins, edits, overlap, faults>>
  BY DEF AcceptCatalog, refreshVars, loopVars, bookVars
<1>3. active(j) /\ (Quiet' => Quiet) /\ ~active(j)'
  BY <1>1, <1>2 DEF active, Ended, Quiet
<1>4. BaselineInv(j) => known[j] = objects /\ was[j] = fingerprint /\ scope = "cached"
  BY <1>1 DEF BaselineInv, Makes
<1>5. scope = "cached" /\ known[j] = objects /\ was[j] = fingerprint => fingerprint' = objects
  BY DEF AcceptCatalog
<1> QED BY <1>1, <1>2, <1>3, <1>4, <1>5, ActiveFrame

LEMMA LookupQuiet ==
  ASSUME MappingInv, QuietInv, NEW j \in Jobs, Lookup(j)
  PROVE  QuietInv'
<1>1. /\ pc[j] = "lookup" /\ cmd[j].op \in {"direct", "assign"}
      /\ pc'[j] \in {"failed", "assign", "save"}
      /\ \A k \in Jobs \ {j} : pc'[k] = pc[k]
  BY DEF Lookup, found, Goto, MappingInv, TypeOK, AtInv
<1>2. UNCHANGED <<objects, fingerprint, scope, cmd, known, wins, edits, overlap, faults>>
  BY DEF Lookup, found, cacheVars, refreshVars, loopVars, bookVars
<1>3. active(j) /\ (Quiet' => Quiet)
  BY <1>1, <1>2 DEF active, Ended, Quiet
<1>4. BaselineInv(j) => fingerprint = objects /\ BaselineInv(j)'
  BY <1>1, <1>2 DEF BaselineInv, Makes
<1> QED BY <1>1, <1>2, <1>3, <1>4, ActiveFrame

LEMMA AssignZoneQuiet ==
  ASSUME MappingInv, QuietInv, NEW j \in Jobs, AssignZone(j)
  PROVE  QuietInv'
<1>1. /\ pc[j] = "assign" /\ cmd[j].op = "assign" /\ pc'[j] \in {"done", "failed"}
      /\ \A k \in Jobs \ {j} : pc'[k] = pc[k]
  BY DEF AssignZone, Goto, MappingInv, TypeOK, AtInv
<1>2. UNCHANGED <<objects, fingerprint, scope, known, wins, edits, overlap, faults>>
  BY DEF AssignZone, refreshVars, loopVars, bookVars
<1>3. active(j) /\ (Quiet' => Quiet) /\ ~active(j)'
  BY <1>1, <1>2 DEF active, Ended, Quiet
<1>4. BaselineInv(j) => fingerprint = objects
  BY <1>1 DEF BaselineInv
<1> QED BY <1>1, <1>2, <1>3, <1>4, ActiveFrame

\* What becomes of the jobs when one is resumed.
LEMMA ResumedFrame ==
  ASSUME NEW j \in Jobs, Resumed(j)
  PROVE  /\ pc'[j] # "idle"
         /\ \A k \in Jobs \ {j} : pc'[k] = pc[k] /\ known'[k] = known[k] /\ wins'[k] = wins[k]
BY DEF Resumed

\* A failed call is not quiet.
LEMMA CallFailsQuiet ==
  ASSUME MappingInv, QuietInv, NEW j \in Jobs, CallFails(j)
  PROVE  QuietInv'
<1>1. active(j) /\ ~Quiet' /\ Raise(j)
  BY DEF CallFails, Fault, active, Ended, Quiet, MappingInv, TypeOK
<1>2. Resumed(j)
  BY <1>1, RaiseResumed DEF MappingInv
<1> QED BY <1>1, <1>2, ResumedFrame, ActiveFrame

\* An entity that cannot be created ends its creation or is passed over.
LEMMA ReadCanonicalQuiet ==
  ASSUME MappingInv, QuietInv, NEW j \in Jobs, ReadCanonical(j)
  PROVE  QuietInv'
<1>1. pc[j] = "canonical" /\ Makes(j)
  BY DEF ReadCanonical, Makes
<1>2. UNCHANGED <<objects, fingerprint, scope, cmd, object, edits, overlap, faults>>
  BY DEF ReadCanonical, cacheVars, bookVars
<1>3. active(j) /\ (Quiet' => Quiet)
  BY <1>1, <1>2 DEF active, Ended, Quiet
<1>4. CASE item[j] \in Supported
  <2>1. /\ pc'[j] = "make" /\ UNCHANGED <<known, wins>>
        /\ \A k \in Jobs \ {j} : pc'[k] = pc[k]
    BY <1>4 DEF ReadCanonical, Goto, MappingInv, TypeOK, refreshVars, loopVars
  <2>2. active(j)' /\ (BaselineInv(j) => BaselineInv(j)')
    BY <1>1, <1>2, <2>1 DEF BaselineInv, active, Ended, Makes
  <2> QED BY <1>2, <1>3, <2>1, <2>2, ActiveFrame
<1>5. CASE item[j] \notin Supported
  <2>1. Raise(j)
    BY <1>5 DEF ReadCanonical
  <2>2. Resumed(j)
    BY <2>1, RaiseResumed DEF MappingInv
  <2>3. CASE cmd[j].op = "create"
    <3>1. pc'[j] = "failed" /\ ~active(j)'
      BY <2>1, <2>3 DEF Raise, Goto, MappingInv, TypeOK, active, Ended
    <3>2. BaselineInv(j) => fingerprint = objects
      BY <1>1, <2>3 DEF BaselineInv
    <3> QED BY <1>2, <1>3, <2>2, <3>1, <3>2, ResumedFrame, ActiveFrame
  <2>4. CASE cmd[j].op = "auto"
    <3>1. loop_next(j, queue[j], 0) /\ queue[j] \in SUBSET Entities /\ wins[j] + 0 = wins[j]
      BY <1>1, <2>1, <2>4 DEF Raise, MappingInv, TypeOK
    <3>2. BaselineInv(j) => scope = "cached" /\ (wins[j] = 0 => fingerprint = objects)
      BY <1>1, <2>4 DEF BaselineInv
    <3>3. BaselineInv(j) => /\ active(j)' => BaselineInv(j)'
                            /\ ~active(j)' => fingerprint = objects
      BY <1>2, <2>4, <3>1, <3>2, LoopNextQuiet
    <3> QED BY <1>2, <1>3, <2>2, <3>2, <3>3, ResumedFrame, ActiveFrame
  <2> QED BY <1>1, <2>3, <2>4 DEF Makes
<1> QED BY <1>4, <1>5

\* Nobody else deletes the object that was created.
LEMMA ReadBackQuiet ==
  ASSUME MappingInv, QuietInv, NEW j \in Jobs, ReadBack(j)
  PROVE  QuietInv'
<1>1. pc[j] = "readback" /\ Makes(j)
  BY DEF ReadBack, MappingInv, AtInv
<1>2. UNCHANGED <<objects, fingerprint, scope, cmd, object, edits, overlap, faults>>
  BY DEF ReadBack, cacheVars, bookVars
<1>3. active(j) /\ (Quiet' => Quiet)
  BY <1>1, <1>2 DEF active, Ended, Quiet
<1>4. CASE object[j] \in objects
  <2>1. /\ pc'[j] = "save" /\ UNCHANGED <<known, wins>>
        /\ \A k \in Jobs \ {j} : pc'[k] = pc[k]
    BY <1>4 DEF ReadBack, Goto, MappingInv, TypeOK, refreshVars, loopVars
  <2>2. active(j)' /\ (BaselineInv(j) => BaselineInv(j)')
    BY <1>1, <1>2, <2>1 DEF BaselineInv, active, Ended, Makes
  <2> QED BY <1>2, <1>3, <2>1, <2>2, ActiveFrame
<1>5. CASE object[j] \notin objects
  <2>1. Raise(j)
    BY <1>5 DEF ReadBack
  <2>2. Resumed(j)
    BY <2>1, RaiseResumed DEF MappingInv
  <2>3. ~BaselineInv(j)
    BY <1>1, <1>5 DEF BaselineInv
  <2> QED BY <1>3, <2>2, <2>3, ResumedFrame, ActiveFrame
<1> QED BY <1>4, <1>5

\* A created object puts the baseline behind until it has been selected.
LEMMA MakeObjectQuiet ==
  ASSUME MappingInv, QuietInv, NEW j \in Jobs, NEW o \in Objects, NEW done \in BOOLEAN,
         NEW answered \in BOOLEAN, MakeObject(j, o, done, answered)
  PROVE  QuietInv'
<1>1. pc[j] = "make" /\ Makes(j) /\ active(j)
  BY DEF MakeObject, MappingInv, AtInv, active, Ended
<1>2. CASE answered
  <2>1. /\ pc'[j] \in {"readback", "save"} /\ objects' = objects \cup {o} /\ object'[j] = o
        /\ \A k \in Jobs \ {j} : pc'[k] = pc[k]
    BY <1>2 DEF MakeObject, Goto, MappingInv, TypeOK
  <2>2. UNCHANGED <<fingerprint, scope, cmd, edits, overlap, faults, known, wins>>
    BY <1>2 DEF MakeObject, cacheVars, refreshVars, loopVars
  <2>3. (Quiet' => Quiet) /\ active(j)'
    BY <2>1, <2>2 DEF Quiet, active, Ended
  <2>4. BaselineInv(j) => BaselineInv(j)'
    BY <1>1, <2>1, <2>2 DEF BaselineInv, Makes
  <2> QED BY <1>1, <2>1, <2>2, <2>3, <2>4, ActiveFrame
<1>3. CASE ~answered
  <2>1. Raise(j) /\ ~Quiet'
    BY <1>3 DEF MakeObject, Fault, Quiet, MappingInv, TypeOK
  <2>2. Resumed(j)
    BY <2>1, RaiseResumed DEF MappingInv
  <2> QED BY <1>1, <2>1, <2>2, ResumedFrame, ActiveFrame
<1> QED BY <1>2, <1>3

\* A selection counts as a success of an auto-creation; a creation refreshes at once.
LEMMA SaveSelectionQuiet ==
  ASSUME MappingInv, QuietInv, NEW j \in Jobs, SaveSelection(j)
  PROVE  QuietInv'
<1>1. pc[j] = "save" /\ (cmd[j].op = "direct" \/ Makes(j)) /\ active(j)
  BY DEF SaveSelection, MappingInv, AtInv, active, Ended
<1>2. UNCHANGED <<objects, fingerprint, scope, cmd, edits, overlap, faults>>
  BY DEF SaveSelection, bookVars
<1>3. Quiet' => Quiet
  BY <1>2 DEF Quiet
<1>4. BaselineInv(j) => scope = "cached" /\ (cmd[j].op = "direct" => fingerprint = objects)
  BY <1>1 DEF BaselineInv, Makes
<1>5. CASE scope # "cached"
  <2>1. Raise(j)
    BY <1>5 DEF SaveSelection
  <2>2. Resumed(j)
    BY <2>1, RaiseResumed DEF MappingInv
  <2> QED BY <1>1, <1>3, <1>4, <1>5, <2>2, ResumedFrame, ActiveFrame
<1>6. CASE scope = "cached" /\ cmd[j].op = "direct"
  <2>1. /\ pc'[j] = "done" /\ UNCHANGED <<known, wins>>
        /\ \A k \in Jobs \ {j} : pc'[k] = pc[k]
    BY <1>6 DEF SaveSelection, Goto, MappingInv, TypeOK, refreshVars, loopVars
  <2>2. ~active(j)'
    BY <2>1 DEF active, Ended
  <2> QED BY <1>1, <1>2, <1>3, <1>4, <1>6, <2>1, <2>2, ActiveFrame
<1>7. CASE scope = "cached" /\ cmd[j].op = "create"
  <2>1. BeginRefresh(j) /\ UNCHANGED wins
    BY <1>7 DEF SaveSelection, loopVars
  <2>2. /\ pc'[j] = "catalog"
        /\ \A k \in Jobs \ {j} : pc'[k] = pc[k] /\ known'[k] = known[k]
    BY <2>1 DEF BeginRefresh, Goto, MappingInv, TypeOK
  <2>3. active(j)' /\ BaselineInv(j)'
    BY <1>2, <1>7, <2>1, BeginRefreshQuiet DEF Makes
  <2> QED BY <1>1, <1>2, <1>3, <1>7, <2>1, <2>2, <2>3, ActiveFrame
<1>8. CASE scope = "cached" /\ cmd[j].op = "auto"
  <2>1. loop_next(j, queue[j], 1) /\ queue[j] \in SUBSET Entities /\ wins[j] + 1 # 0
    BY <1>8 DEF SaveSelection, MappingInv, TypeOK
  <2>2. Resumed(j)
    BY <2>1, LoopNextResumed DEF MappingInv
  <2>3. /\ active(j)' => BaselineInv(j)'
        /\ ~active(j)' => fingerprint = objects
    BY <1>2, <1>8, <2>1, LoopNextQuiet
  <2> QED BY <1>1, <1>2, <1>3, <1>8, <2>2, <2>3, ResumedFrame, ActiveFrame
<1> QED BY <1>1, <1>5, <1>6, <1>7, <1>8 DEF Makes

\* Every step keeps it.
LEMMA NextQuietInv ==
  ASSUME MappingInv, QuietInv, [Next]_vars
  PROVE  QuietInv'
<1>1. ASSUME NEW j \in Jobs, Begin(j) PROVE QuietInv'
  BY <1>1, BeginMapQuiet, BeginSelectQuiet, BeginAutoQuiet, BeginAssignQuiet DEF Begin
<1>2. ASSUME NEW j \in Jobs, Step(j) PROVE QuietInv'
  BY <1>2, CheckTargetQuiet, ReadCatalogPartQuiet, StoreScopeQuiet, AcceptCatalogQuiet, LookupQuiet,
     SaveSelectionQuiet, ReadCanonicalQuiet, ReadBackQuiet, AssignZoneQuiet, MakeObjectQuiet DEF Step
<1>3. ASSUME NEW j \in Jobs, CallFails(j) PROVE QuietInv'
  BY <1>3, CallFailsQuiet
<1>4. CASE LoseScope \/ Crash \/ World \/ UNCHANGED vars
  BY <1>4, WorldQuiet
<1> QED BY <1>1, <1>2, <1>3, <1>4 DEF Next

----------------------------------------------------------------------------
\* The variables of the mapping keep their types under every interleaving, fault and edit.
THEOREM MappingTypeCorrect == Spec => []TypeOK
<1>1. MappingInv => TypeOK
  BY DEF MappingInv
<1> QED BY <1>1, MappingInvariant, PTL

\* A torn catalog read, a stale copy or a lost answer never selects an object that was
\* not there or is of another kind.
THEOREM SelectedExistedHolds == Spec => []SelectedExisted
<1>1. MappingInv => SelectedExisted
  BY DEF MappingInv, ResultInv, Sound, SelectedExisted
<1> QED BY <1>1, MappingInvariant, PTL

\* Every operand of a mapped rule refers to a result of the scope.
THEOREM OperandsResolveHolds == Spec => []OperandsResolve
<1>1. MappingInv => OperandsResolve
  BY DEF MappingInv
<1> QED BY <1>1, MappingInvariant, PTL

\* A matched result never becomes open again, although saves write stale copies.
THEOREM ResultsOnlyAdvanceHolds == Spec => ResultsOnlyAdvance
<1>1. MappingInv /\ [Next]_vars =>
        [\A r \in ResultIds : results[r] # NoResult =>
           /\ results'[r] # NoResult
           /\ results[r].status = "MATCHED" => results'[r].status = "MATCHED"
           /\ results'[r].candidates = results[r].candidates]_vars
  BY NextMappingInv DEF Advance
<1> QED BY <1>1, MappingInvariant, PTL DEF Spec, ResultsOnlyAdvance

\* Overlapping assignments of one zone share one manual result.
THEOREM ManualResultOnceHolds == Spec => ManualResultOnce
<1>1. MappingInv /\ [Next]_vars =>
        [\A j \in Jobs : (results[j] = NoResult /\ results'[j] # NoResult) =>
           \A k \in Jobs \ {j} : results[k] # NoResult =>
              results[k].selected # results'[j].selected]_vars
  BY NextManualStep DEF ManualStep
<1> QED BY <1>1, MappingInvariant, PTL DEF Spec, ManualResultOnce

\* After invocations one at a time, without faults and without changes by others, the
\* baseline of the scope is the catalog: the refresh of a creation accepts what it created.
THEOREM BaselineCurrentHolds == Spec => []BaselineCurrent
<1>1. Init => QuietInv
  BY DEF Init, QuietInv, Quiet, active, Ended
<1>2. MappingInv /\ QuietInv /\ [Next]_vars => QuietInv'
  BY NextQuietInv
<1>3. QuietInv => BaselineCurrent
  BY DEF QuietInv, BaselineCurrent, Quiet, active
<1> QED BY <1>1, <1>2, <1>3, MappingInvariant, PTL DEF Spec

=============================================================================
