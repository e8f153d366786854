------------------------ MODULE RuntimeCacheProofs -------------------------
(***************************************************************************)
(* Proofs about RuntimeCache, for any set of keys, lifetime and size.      *)
(***************************************************************************)
EXTENDS RuntimeCache, FiniteSetTheorems, TLAPS

\* The order of last uses is strict and total on the entries in memory, and
\* every set of keys has a least recently used member.
OrderInv ==
  /\ \A a, b \in Keys : <<a, b>> \in older => <<b, a>> \notin older
  /\ \A a, b \in Stored : a # b => <<a, b>> \in older \/ <<b, a>> \in older
  /\ \A S \in SUBSET Keys :
       S # {} => \E x \in S : \A a \in S : <<a, x>> \notin older

\* An entry in memory expires at the end of its last lifetime.
DeadlineInv == \A k \in Stored : expires[k] = deadline[k]

CacheInv == TypeOK /\ OrderInv /\ DeadlineInv /\ SizeBounded /\ WorkingSetKept

----------------------------------------------------------------------------
(***************************************************************************)
(* What one operation does to the entries and to the order                 *)
(***************************************************************************)

\* expire keeps exactly the visible entries.
LEMMA ExpireKeeps ==
  ASSUME TypeOK
  PROVE  /\ expire \in [Keys -> Values \cup {None}]
         /\ expire = Visible
         /\ {k \in Keys : expire[k] # None} \subseteq Stored
BY CacheAssumption DEF TypeOK, expire, unexpired, Visible, Stored

\* Using a key keeps the order of uses an order, with the key last.
LEMMA UseKeepsOrder ==
  ASSUME TypeOK, OrderInv, NEW k \in Keys, use(k), NEW S \in SUBSET (Stored \cup {k})
  PROVE  /\ older' \subseteq Keys \X Keys
         /\ \A a, b \in Keys : <<a, b>> \in older' => <<b, a>> \notin older'
         /\ \A a, b \in S : a # b => <<a, b>> \in older' \/ <<b, a>> \in older'
         /\ \A T \in SUBSET Keys :
              T # {} => \E x \in T : \A a \in T : <<a, x>> \notin older'
<1>0. older \subseteq Keys \X Keys
  BY DEF TypeOK
<1>1. \A a, b \in Keys : <<a, b>> \in older'
        <=> \/ <<a, b>> \in older /\ a # k /\ b # k
            \/ b = k /\ a # k
  BY DEF use
<1>2. older' \subseteq Keys \X Keys
  BY <1>0 DEF use
<1>3. \A a, b \in Keys : <<a, b>> \in older' => <<b, a>> \notin older'
  BY <1>1 DEF OrderInv
<1>4. \A a, b \in S : a # b => <<a, b>> \in older' \/ <<b, a>> \in older'
  <2> SUFFICES ASSUME NEW a \in S, NEW b \in S, a # b
               PROVE  <<a, b>> \in older' \/ <<b, a>> \in older'
    OBVIOUS
  <2>1. a \in Keys /\ b \in Keys
    BY DEF Stored
  <2>2. CASE a = k \/ b = k
    BY <1>1, <2>1, <2>2
  <2>3. CASE a # k /\ b # k
    BY <1>1, <2>1, <2>3 DEF OrderInv
  <2> QED BY <2>2, <2>3
<1>5. ASSUME NEW T \in SUBSET Keys, T # {}
      PROVE  \E x \in T : \A a \in T : <<a, x>> \notin older'
  <2>1. CASE T = {k}
    BY <1>1, <2>1
  <2>2. CASE T # {k}
    <3>1. PICK x \in T \ {k} : \A a \in T \ {k} : <<a, x>> \notin older
      <4>1. T \ {k} # {} /\ T \ {k} \in SUBSET Keys
        BY <1>5, <2>2
      <4> QED BY <4>1 DEF OrderInv
    <3>2. \A a \in T : <<a, x>> \notin older'
      BY <1>1, <3>1
    <3> QED BY <3>2
  <2> QED BY <2>1, <2>2
<1> QED BY <1>2, <1>3, <1>4, <1>5

\* Storing under a key keeps every other entry but an evicted one, and never
\* exceeds the bound.
LEMMA StoreBounded ==
  ASSUME OrderInv, NEW c \in [Keys -> Values \cup {None}], NEW k \in Keys, NEW v \in Values,
         Cardinality({x \in Keys : c[x] # None}) <= MaxEntries
  PROVE  Cardinality({x \in Keys : store(c, k, v)[x] # None}) <= MaxEntries
<1> DEFINE P == {x \in Keys : c[x] # None}
           Q == {x \in Keys : store(c, k, v)[x] # None}
<1>1. IsFiniteSet(P) /\ Cardinality(P) \in Nat /\ MaxEntries \in Nat
  <2>1. IsFiniteSet(P)
    BY CacheAssumption, FS_Subset
  <2> QED BY <2>1, FS_CardinalityType, CacheAssumption
<1>2. Q \subseteq P \cup {k}
  BY DEF store
<1>3. CASE k \in P
  <2>1. Q \subseteq P
    BY <1>2, <1>3
  <2>2. Cardinality(Q) <= Cardinality(P) /\ Cardinality(Q) \in Nat
    BY <1>1, <2>1, FS_Subset, FS_CardinalityType
  <2> QED BY <1>1, <2>2
<1>4. CASE k \notin P /\ ~full(c)
  <2>1. IsFiniteSet(P \cup {k}) /\ Cardinality(P \cup {k}) = Cardinality(P) + 1
    BY <1>1, <1>4, FS_AddElement
  <2>2. Cardinality(Q) <= Cardinality(P) + 1 /\ Cardinality(Q) \in Nat
    BY <1>2, <2>1, FS_Subset, FS_CardinalityType
  <2>3. Cardinality(P) < MaxEntries
    BY <1>1, <1>4 DEF full
  <2> QED BY <1>1, <2>2, <2>3
<1>5. CASE k \notin P /\ full(c)
  <2>1. P # {}
    <3>1. Cardinality(P) > 0
      BY <1>1, <1>5, CacheAssumption DEF full
    <3> QED BY <3>1, FS_EmptySet
  <2>2. PICK x \in P : \A a \in P : <<a, x>> \notin older
    BY <2>1 DEF OrderInv
  <2>3. is_lru(c, x) /\ c[k] = None /\ x # k
    BY <1>5, <2>2 DEF is_lru
  <2>4. Q \subseteq (P \ {x}) \cup {k}
    BY <1>2, <1>5, <2>3 DEF store
  <2>5. IsFiniteSet(P \ {x}) /\ Cardinality(P \ {x}) = Cardinality(P) - 1
    BY <1>1, <2>2, FS_RemoveElement
  <2>6. /\ IsFiniteSet((P \ {x}) \cup {k})
        /\ Cardinality((P \ {x}) \cup {k}) = Cardinality(P)
    <3>1. k \notin P \ {x}
      BY <1>5
    <3>2. Cardinality((P \ {x}) \cup {k}) = Cardinality(P \ {x}) + 1
      BY <2>5, <3>1, FS_AddElement
    <3> QED BY <1>1, <2>5, <3>2, FS_AddElement
  <2>7. Cardinality(Q) <= Cardinality(P) /\ Cardinality(Q) \in Nat
    BY <2>4, <2>6, FS_Subset, FS_CardinalityType
  <2> QED BY <1>1, <2>7
<1> QED BY <1>3, <1>4, <1>5

\* The entries after a store are the old ones, up to the key and evictions.
LEMMA StoreFewer ==
  ASSUME NEW c \in [Keys -> Values \cup {None}], NEW k \in Keys, NEW v \in Values
  PROVE  /\ store(c, k, v) \in [Keys -> Values \cup {None}]
         /\ store(c, k, v)[k] = v
         /\ \A x \in Keys \ {k} : store(c, k, v)[x] \in {c[x], None}
         /\ c[k] # None => \A x \in Keys \ {k} : store(c, k, v)[x] = c[x]
BY DEF store

\* The keys used since the last use of k.
Newer(o, k) == {b \in Keys : <<k, b>> \in o}

\* Having fewer newer keys is inherited by subsets.
LEMMA FewerNewer ==
  ASSUME NEW A, NEW B \in SUBSET Keys, A \subseteq B
  PROVE  /\ Cardinality(A) <= Cardinality(B)
         /\ Cardinality(A) \in Nat /\ Cardinality(B) \in Nat
<1>1. IsFiniteSet(B)
  BY CacheAssumption, FS_Subset
<1> QED BY <1>1, FS_Subset, FS_CardinalityType

----------------------------------------------------------------------------
(***************************************************************************)
(* Steps                                                                   *)
(***************************************************************************)

\* A write, of new data or of the data just read, keeps the invariant.
LEMMA WriteStep ==
  ASSUME CacheInv, NEW k \in Keys, NEW v \in Values, write(expire, k, v), now' = now,
         reply' \subseteq Values \cup Keys
  PROVE  CacheInv'
<1> DEFINE P == {x \in Keys : expire[x] # None}
<1> USE CacheAssumption DEF CacheInv
<1>1. /\ expire \in [Keys -> Values \cup {None}] /\ P \subseteq Stored
      /\ \A x \in Keys : expire[x] = IF value[x] # None /\ now < expires[x] THEN value[x] ELSE None
  BY ExpireKeeps DEF Visible
<1>2. /\ value' \in [Keys -> Values \cup {None}] /\ value'[k] = v
      /\ \A x \in Keys \ {k} : value'[x] \in {expire[x], None}
  BY <1>1, StoreFewer DEF write
<1>3. /\ expires' = [expires EXCEPT ![k] = now + TTL]
      /\ deadline' = [deadline EXCEPT ![k] = now + TTL]
  BY DEF write, expiry
<1>4. Stored' \subseteq Stored \cup {k}
  BY <1>1, <1>2 DEF Stored
<1>5. TypeOK'
  <2>1. older' \subseteq Keys \X Keys
    BY DEF TypeOK, write, use
  <2>2. expires' \in [Keys -> Nat] /\ deadline' \in [Keys -> Nat]
    BY <1>3 DEF TypeOK
  <2> QED BY <1>2, <2>1, <2>2 DEF TypeOK
<1>6. OrderInv'
  BY <1>4, UseKeepsOrder DEF OrderInv, write
<1>7. DeadlineInv'
  BY <1>3, <1>4 DEF DeadlineInv, TypeOK, Stored
<1>8. SizeBounded'
  <2>1. Cardinality(P) <= MaxEntries
    <3>1. Cardinality(P) <= Cardinality(Stored) /\ Cardinality(P) \in Nat /\ Cardinality(Stored) \in Nat
      BY <1>1, FewerNewer DEF Stored
    <3> QED BY <3>1 DEF SizeBounded
  <2>2. Cardinality({x \in Keys : store(expire, k, v)[x] # None}) <= MaxEntries
    BY <1>1, <2>1, StoreBounded
  <2> QED BY <2>2 DEF SizeBounded, Stored, write
<1>9. WorkingSetKept'
  <2> SUFFICES ASSUME NEW x \in Keys, now < deadline'[x],
                      Cardinality(Newer(older', x)) < MaxEntries
               PROVE  value'[x] # None /\ now < expires'[x]
    BY DEF WorkingSetKept, Newer
  <2>1. CASE x = k
    BY <1>2, <1>3, <2>1 DEF TypeOK
  <2>2. CASE x # k
    <3>1. Newer(older, x) \cup {k} \subseteq Newer(older', x)
      BY <2>2 DEF Newer, write, use
    <3>2. Cardinality(Newer(older, x)) < MaxEntries
      <4>1. /\ Cardinality(Newer(older, x)) <= Cardinality(Newer(older', x))
            /\ Cardinality(Newer(older, x)) \in Nat /\ Cardinality(Newer(older', x)) \in Nat
        BY <3>1, FewerNewer DEF Newer
      <4> QED BY <4>1
    <3>3. value[x] # None /\ now < expires[x] /\ expires'[x] = expires[x]
      BY <1>3, <2>2, <3>2 DEF WorkingSetKept, Newer, TypeOK
    <3>4. expire[x] # None /\ x \in P
      BY <1>1, <3>3
    <3>5. ASSUME value'[x] = None PROVE FALSE
      <4>1. expire[k] = None /\ full(expire) /\ is_lru(expire, x)
        BY <2>2, <3>4, <3>5 DEF write, store
      <4>2. \A a \in P \ {x} : <<x, a>> \in older
        BY <1>1, <3>4, <4>1 DEF is_lru, OrderInv
      <4>3. (P \ {x}) \cup {k} \subseteq Newer(older', x)
        BY <3>1, <4>2 DEF Newer
      <4>4. IsFiniteSet(P) /\ Cardinality(P) \in Nat /\ Cardinality(P) >= MaxEntries
        <5>1. IsFiniteSet(P)
          BY FS_Subset
        <5> QED BY <4>1, <5>1, FS_CardinalityType DEF full
      <4>5. /\ IsFiniteSet(P \ {x})
            /\ Cardinality(P \ {x}) = Cardinality(P) - 1
        BY <3>4, <4>4, FS_RemoveElement
      <4>6. Cardinality((P \ {x}) \cup {k}) = Cardinality(P \ {x}) + 1
        <5>1. k \notin P \ {x}
          BY <4>1
        <5> QED BY <4>5, <5>1, FS_AddElement
      <4>7. /\ Cardinality((P \ {x}) \cup {k}) <= Cardinality(Newer(older', x))
            /\ Cardinality(Newer(older', x)) \in Nat
        BY <4>3, FewerNewer DEF Newer
      <4> QED BY <4>4, <4>5, <4>6, <4>7
    <3> QED BY <3>3, <3>5
  <2> QED BY <2>1, <2>2
<1> QED BY <1>5, <1>6, <1>7, <1>8, <1>9

\* A read that only expires, with or without a use, keeps the invariant.
LEMMA ReadStep ==
  ASSUME CacheInv, value' = expire, UNCHANGED <<expires, now, deadline>>,
         reply' \subseteq Values \cup Keys,
         UNCHANGED older \/ \E k \in Keys : unexpired(k) /\ use(k)
  PROVE  CacheInv'
<1> USE CacheAssumption DEF CacheInv
<1>1. /\ value' \in [Keys -> Values \cup {None}] /\ Stored' \subseteq Stored
      /\ \A x \in Keys : value'[x] = IF value[x] # None /\ now < expires[x] THEN value[x] ELSE None
  BY ExpireKeeps DEF Visible, Stored
<1>2. SizeBounded' /\ DeadlineInv'
  <2>1. Cardinality(Stored') <= Cardinality(Stored) /\ Cardinality(Stored') \in Nat
        /\ Cardinality(Stored) \in Nat
    BY <1>1, FewerNewer DEF Stored
  <2> QED BY <1>1, <2>1 DEF SizeBounded, DeadlineInv
<1>3. TypeOK' /\ OrderInv'
  <2>1. CASE UNCHANGED older
    BY <1>1, <2>1 DEF TypeOK, OrderInv
  <2>2. ASSUME NEW k \in Keys, use(k) PROVE TypeOK' /\ OrderInv'
    BY <1>1, <2>2, UseKeepsOrder DEF TypeOK, OrderInv
  <2> QED BY <2>1, <2>2
<1>4. WorkingSetKept'
  <2> SUFFICES ASSUME NEW x \in Keys, now < deadline[x],
                      Cardinality(Newer(older', x)) < MaxEntries
               PROVE  value[x] # None /\ now < expires[x]
    BY <1>1 DEF WorkingSetKept, Newer
  <2>1. CASE Newer(older, x) \subseteq Newer(older', x)
    <3>1. /\ Cardinality(Newer(older, x)) <= Cardinality(Newer(older', x))
          /\ Cardinality(Newer(older, x)) \in Nat /\ Cardinality(Newer(older', x)) \in Nat
      BY <2>1, FewerNewer DEF Newer
    <3> QED BY <3>1 DEF WorkingSetKept, Newer
  <2>2. ASSUME NEW k \in Keys, unexpired(k), use(k), x # k
        PROVE  Newer(older, x) \subseteq Newer(older', x)
    BY <2>2 DEF Newer, use
  <2>3. ASSUME NEW k \in Keys, unexpired(k), x = k PROVE value[x] # None /\ now < expires[x]
    BY <2>3 DEF unexpired
  <2> QED BY <2>1, <2>2, <2>3
<1> QED BY <1>2, <1>3, <1>4

\* The empty store satisfies the invariant.
LEMMA InitCacheInv == Init => CacheInv
<1> SUFFICES ASSUME Init PROVE CacheInv
  OBVIOUS
<1>1. Stored = {}
  BY DEF Init, Stored
<1>2. SizeBounded
  BY <1>1, FS_EmptySet, CacheAssumption DEF SizeBounded
<1>3. TypeOK /\ OrderInv /\ DeadlineInv /\ WorkingSetKept
  BY <1>1, CacheAssumption DEF Init, TypeOK, OrderInv, DeadlineInv, WorkingSetKept
<1> QED BY <1>2, <1>3 DEF CacheInv

\* Every operation of the store, every tick and a restart keep the invariant.
LEMMA NextCacheInv == CacheInv /\ [Next]_vars => CacheInv'
<1> SUFFICES ASSUME CacheInv, [Next]_vars PROVE CacheInv'
  OBVIOUS
<1>0. \A k \in Keys : unexpired(k) => value[k] \in Values
  BY DEF CacheInv, TypeOK, unexpired
<1>1. ASSUME NEW k \in Keys, Miss(k) PROVE CacheInv'
  BY <1>1, ReadStep DEF Miss
<1>2. ASSUME NEW k \in Keys, GetTouch(k) PROVE CacheInv'
  <2>1. write(expire, k, value[k]) /\ now' = now /\ reply' = {value[k]} /\ value[k] \in Values
    BY <1>0, <1>2 DEF GetTouch
  <2> QED BY <2>1, WriteStep
<1>3. ASSUME NEW k \in Keys, GetOnly(k) PROVE CacheInv'
  <2>1. value' = expire /\ use(k) /\ unexpired(k) /\ reply' = {value[k]} /\ value[k] \in Values
        /\ UNCHANGED <<expires, now, deadline>>
    BY <1>0, <1>3 DEF GetOnly
  <2> QED BY <2>1, ReadStep
<1>4. ASSUME NEW k \in Keys, NEW v \in Values, SetValue(k, v) PROVE CacheInv'
  <2>1. write(expire, k, v) /\ now' = now /\ reply' = {}
    BY <1>4 DEF SetValue
  <2> QED BY <2>1, WriteStep
<1>5. ASSUME NEW k \in Keys, TouchKey(k) PROVE CacheInv'
  <2>1. write(expire, k, value[k]) /\ now' = now /\ reply' = {k} /\ value[k] \in Values
    BY <1>0, <1>5 DEF TouchKey
  <2> QED BY <2>1, WriteStep
<1>6. ASSUME NEW k \in Keys, GetMeta(k) PROVE CacheInv'
  <2>1. value' = expire /\ UNCHANGED <<expires, now, deadline, reply>>
        /\ (UNCHANGED older \/ (unexpired(k) /\ use(k)))
    BY <1>6 DEF GetMeta
  <2>2. reply' \subseteq Values \cup Keys
    BY <2>1 DEF CacheInv, TypeOK
  <2> QED BY <2>1, <2>2, ReadStep
<1>7. CASE ListKeys
  <2>1. value' = expire /\ UNCHANGED <<expires, now, deadline, older>>
        /\ reply' \subseteq Values \cup Keys
    BY <1>7 DEF ListKeys
  <2> QED BY <2>1, ReadStep
<1>8. ASSUME NEW k \in Keys, DeleteKey(k) PROVE CacheInv'
  <2> USE CacheAssumption DEF CacheInv
  <2>1. /\ value' \in [Keys -> Values \cup {None}] /\ Stored' \subseteq Stored \ {k}
        /\ \A x \in Keys \ {k} :
             value'[x] = IF value[x] # None /\ now < expires[x] THEN value[x] ELSE None
    BY <1>8, ExpireKeeps DEF DeleteKey, Visible, Stored
  <2>2. deadline' = [deadline EXCEPT ![k] = 0] /\ UNCHANGED <<expires, older, now, reply>>
    BY <1>8 DEF DeleteKey
  <2>3. SizeBounded'
    <3>1. Cardinality(Stored') <= Cardinality(Stored) /\ Cardinality(Stored') \in Nat
          /\ Cardinality(Stored) \in Nat
      BY <2>1, FewerNewer DEF Stored
    <3> QED BY <3>1 DEF SizeBounded
  <2>4. TypeOK' /\ OrderInv'
    BY <2>1, <2>2 DEF TypeOK, OrderInv
  <2>5. DeadlineInv'
    BY <2>1, <2>2 DEF DeadlineInv, TypeOK, Stored
  <2>6. WorkingSetKept'
    <3> SUFFICES ASSUME NEW x \in Keys, now' < deadline'[x],
                        Cardinality({b \in Keys : <<x, b>> \in older'}) < MaxEntries
                 PROVE  value'[x] # None /\ now' < expires'[x]
      BY DEF WorkingSetKept
    <3>1. x # k
      BY <2>2 DEF TypeOK
    <3> QED BY <2>1, <2>2, <3>1 DEF WorkingSetKept, TypeOK
  <2> QED BY <2>3, <2>4, <2>5, <2>6
<1>9. CASE Tick
  <2> USE CacheAssumption DEF CacheInv
  <2>1. TypeOK' /\ OrderInv' /\ DeadlineInv' /\ SizeBounded'
    BY <1>9 DEF Tick, TypeOK, OrderInv, DeadlineInv, SizeBounded, Stored
  <2>2. WorkingSetKept'
    <3> SUFFICES ASSUME NEW x \in Keys, now + 1 < deadline[x],
                        Cardinality({b \in Keys : <<x, b>> \in older}) < MaxEntries
                 PROVE  value[x] # None /\ now + 1 < expires[x]
      BY <1>9 DEF WorkingSetKept, Tick
    <3>1. now \in Int /\ deadline[x] \in Int
      BY DEF TypeOK
    <3>2. value[x] # None
      BY <3>1 DEF WorkingSetKept
    <3> QED BY <3>2 DEF DeadlineInv, Stored
  <2> QED BY <2>1, <2>2
<1>10. CASE Restart
  <2> USE CacheAssumption DEF CacheInv
  <2>1. Stored' = {}
    BY <1>10 DEF Restart, Stored
  <2>2. SizeBounded'
    BY <2>1, FS_EmptySet DEF SizeBounded
  <2>3. TypeOK' /\ OrderInv' /\ DeadlineInv' /\ WorkingSetKept'
    BY <1>10, <2>1 DEF Restart, TypeOK, OrderInv, DeadlineInv, WorkingSetKept
  <2> QED BY <2>2, <2>3
<1>11. CASE UNCHANGED vars
  BY <1>11 DEF vars, CacheInv, TypeOK, OrderInv, DeadlineInv, SizeBounded, WorkingSetKept, Stored
<1> QED
  BY <1>1, <1>2, <1>3, <1>4, <1>5, <1>6, <1>7, <1>8, <1>9, <1>10, <1>11 DEF Next

\* The inductive invariant holds in every behaviour of the store.
THEOREM CacheCorrect == Spec => []CacheInv
BY InitCacheInv, NextCacheInv, PTL DEF Spec

\* Every variable keeps its type.
THEOREM CacheTypeCorrect == Spec => []TypeOK
<1>1. CacheInv => TypeOK
  BY DEF CacheInv
<1> QED BY <1>1, CacheCorrect, PTL

\* The namespace never grows past max_entries.
THEOREM SizeBoundedHolds == Spec => []SizeBounded
<1>1. CacheInv => SizeBounded
  BY DEF CacheInv
<1> QED BY <1>1, CacheCorrect, PTL

\* A live entry is lost only after max_entries other keys were used.
THEOREM WorkingSetKeptHolds == Spec => []WorkingSetKept
<1>1. CacheInv => WorkingSetKept
  BY DEF CacheInv
<1> QED BY <1>1, CacheCorrect, PTL

----------------------------------------------------------------------------
(***************************************************************************)
(* Refinement                                                              *)
(***************************************************************************)

\* After a write the caller sees the new value, and of the other keys what was
\* visible before, less an eviction; none is evicted when the key was visible.
LEMMA WriteVisible ==
  ASSUME CacheInv, NEW k \in Keys, NEW v \in Values, write(expire, k, v), now' = now
  PROVE  /\ Visible' \in [Keys -> Values \cup {None}]
         /\ Visible'[k] = v
         /\ \A x \in Keys \ {k} : Visible'[x] \in {Visible[x], None}
         /\ unexpired(k) => \A x \in Keys \ {k} : Visible'[x] = Visible[x]
<1> USE CacheAssumption DEF CacheInv
<1>1. /\ expire \in [Keys -> Values \cup {None}]
      /\ \A x \in Keys : expire[x] = IF value[x] # None /\ now < expires[x] THEN value[x] ELSE None
  BY ExpireKeeps DEF Visible
<1>2. /\ value' \in [Keys -> Values \cup {None}] /\ value'[k] = v
      /\ \A x \in Keys \ {k} : value'[x] \in {expire[x], None}
      /\ expire[k] # None => \A x \in Keys \ {k} : value'[x] = expire[x]
  BY <1>1, StoreFewer DEF write
<1>3. /\ expires'[k] = now + TTL /\ now < now + TTL
      /\ \A x \in Keys \ {k} : expires'[x] = expires[x]
  BY DEF write, expiry, TypeOK
<1>4. Visible'[k] = v
  BY <1>2, <1>3 DEF Visible
<1>5. ASSUME NEW x \in Keys \ {k}
      PROVE  /\ Visible'[x] \in {Visible[x], None}
             /\ unexpired(k) => Visible'[x] = Visible[x]
  BY <1>1, <1>2, <1>3 DEF Visible, unexpired
<1>6. Visible' \in [Keys -> Values \cup {None}]
  BY <1>2 DEF Visible
<1> QED BY <1>4, <1>5, <1>6

\* The runtime cache implements the lossy map the other modules assume.
THEOREM ImplementsLossyMap == Spec => IsLossyMap
<1>1. Init => Abstract!Init
  BY DEF Init, Abstract!Init, Visible
<1>2. CacheInv /\ [Next]_vars => [Abstract!Next]_(Abstract!vars)
  <2> SUFFICES ASSUME CacheInv, [Next]_vars
               PROVE  Abstract!Next \/ (Visible' = Visible /\ reply' = reply)
    BY DEF Abstract!vars
  <2> USE CacheAssumption
  <2>0. /\ Visible \in [Keys -> Values \cup {None}] /\ expire = Visible
        /\ \A k \in Keys : unexpired(k) <=> Visible[k] # None
        /\ \A k \in Keys : unexpired(k) => Visible[k] = value[k] /\ value[k] \in Values
    BY ExpireKeeps DEF CacheInv, TypeOK, Visible, unexpired
  <2>1. ASSUME value' = expire, UNCHANGED <<expires, now>> PROVE Visible' = Visible
    BY <2>1, ExpireKeeps DEF Visible, CacheInv
  <2>2. ASSUME NEW k \in Keys, Miss(k) PROVE Abstract!Get(k)
    BY <2>0, <2>1, <2>2 DEF Miss, Abstract!Get
  <2>3. ASSUME NEW k \in Keys, unexpired(k), write(expire, k, value[k]), now' = now
        PROVE  Visible' = Visible
    <3>1. /\ Visible' \in [Keys -> Values \cup {None}] /\ Visible'[k] = Visible[k]
          /\ \A x \in Keys \ {k} : Visible'[x] = Visible[x]
      BY <2>0, <2>3, WriteVisible
    <3> QED BY <2>0, <3>1
  <2>4. ASSUME NEW k \in Keys, GetTouch(k) PROVE Abstract!Get(k)
    BY <2>0, <2>3, <2>4 DEF GetTouch, Abstract!Get
  <2>5. ASSUME NEW k \in Keys, GetOnly(k) PROVE Abstract!Get(k)
    BY <2>0, <2>1, <2>5 DEF GetOnly, Abstract!Get
  <2>6. ASSUME NEW k \in Keys, NEW v \in Values, SetValue(k, v) PROVE Abstract!Put(k, v)
    BY <2>6, WriteVisible DEF SetValue, Abstract!Put
  <2>7. ASSUME NEW k \in Keys, TouchKey(k) PROVE Abstract!Touch(k)
    BY <2>0, <2>3, <2>7 DEF TouchKey, Abstract!Touch
  <2>8. ASSUME NEW k \in Keys, DeleteKey(k) PROVE Abstract!Lose
    <3>1. value' = [expire EXCEPT ![k] = None] /\ UNCHANGED <<expires, now, reply>>
      BY <2>8 DEF DeleteKey
    <3>2. \A x \in Keys : Visible'[x] = IF x = k THEN None ELSE Visible[x]
      BY <2>0, <3>1 DEF Visible
    <3>3. Visible' \in [Keys -> Values \cup {None}]
      BY <2>0, <3>1 DEF Visible
    <3> QED BY <3>1, <3>2, <3>3 DEF Abstract!Lose, Abstract!Fewer
  <2>9. ASSUME NEW k \in Keys, GetMeta(k) PROVE Visible' = Visible /\ reply' = reply
    BY <2>1, <2>9 DEF GetMeta
  <2>10. ASSUME ListKeys PROVE Abstract!List
    BY <2>0, <2>1, <2>10 DEF ListKeys, Abstract!List
  <2>11. ASSUME Tick PROVE Abstract!Lose
    <3>1. \A x \in Keys : Visible'[x] \in {Visible[x], None}
      <4>1. now \in Int /\ \A x \in Keys : expires[x] \in Int
        BY DEF CacheInv, TypeOK
      <4> QED BY <2>11, <4>1 DEF Tick, Visible
    <3>2. Visible' \in [Keys -> Values \cup {None}]
      BY <2>11 DEF Tick, Visible, CacheInv, TypeOK
    <3> QED BY <2>11, <3>1, <3>2 DEF Tick, Abstract!Lose, Abstract!Fewer
  <2>12. ASSUME Restart PROVE Abstract!Lose
    BY <2>12 DEF Restart, Visible, Abstract!Lose, Abstract!Fewer
  <2>13. ASSUME UNCHANGED vars PROVE Visible' = Visible /\ reply' = reply
    BY <2>13 DEF vars, Visible
  <2> QED
    BY <2>2, <2>4, <2>5, <2>6, <2>7, <2>8, <2>9, <2>10, <2>11, <2>12, <2>13 DEF Next, Abstract!Next
<1> QED BY <1>1, <1>2, CacheCorrect, PTL DEF Spec, IsLossyMap, Abstract!Spec

============================================================================
