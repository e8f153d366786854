------------------------ MODULE RuleComparisonProofs ------------------------
(***************************************************************************)
(* What comparing a draft with the policies of the target shows, for any   *)
(* memberships of groups, rules and policies: what is reported as matched  *)
(* or covered is so although groups are edited while they are loaded; a    *)
(* load that nobody disturbs is refused exactly when groups are nested too *)
(* deep, and resolves exactly otherwise; and what is found new is needed.  *)
(*                                                                         *)
(* The walks are recursive.  What they compute is proved by induction: on  *)
(* the number of rounds (SetInduction), which itself follows from the      *)
(* inclusion of finite sets being well-founded.                            *)
(***************************************************************************)
EXTENDS RuleComparison, FiniteSetTheorems, TLAPS

----------------------------------------------------------------------------
(***************************************************************************)
(* Values that cover others                                                *)
(***************************************************************************)

\* An address value that covers another is for all its ends of connections.
LEMMA AddressCovers ==
  ASSUME NEW v \in AddressValue, NEW w \in AddressValue, NEW end \in End,
         address_covers(v, w), address_has(w, end)
  PROVE  address_has(v, end)
  BY DEF AddressValue, Kinds, End, address_covers, address_has

\* A service value that covers another is for all its packets.
LEMMA ServiceCovers ==
  ASSUME NEW v \in ServiceValue, NEW w \in ServiceValue, NEW s \in PacketService,
         service_covers(v, w), service_has(w, s)
  PROVE  service_has(v, s)
<1>1. CASE v.proto = "ANY"
  BY <1>1 DEF service_has
<1>2. CASE v.proto # "ANY"
  <2>1. w.proto # "ANY" /\ v.proto = w.proto /\ same_proto_covers(v, w)
    BY <1>2 DEF service_covers
  <2>2. w.proto = s.proto
    BY <2>1 DEF service_has
  <2>3. v.proto = "ICMP" => s.code \in v.codes
    BY <2>1 DEF service_has, same_proto_covers
  <2>4. v.proto \in PortProtocols => v.port_start <= s.port /\ s.port <= v.port_end
    <3>1. /\ v.port_start \in Int /\ v.port_end \in Int
          /\ w.port_start \in Int /\ w.port_end \in Int /\ s.port \in Int
      BY DEF ServiceValue, PacketService
    <3> QED  BY <2>1, <3>1 DEF service_has, same_proto_covers
  <2> QED  BY <2>1, <2>2, <2>3, <2>4 DEF service_has
<1> QED  BY <1>1, <1>2

\* The zones of a covered rule are zones of the covering one.
LEMMA ZonesCover ==
  ASSUME NEW existing, NEW asked, NEW label, NEW empty,
         values_cover(existing, asked, same),
         operand_has(asked, label, same, empty)
  PROVE  operand_has(existing, label, same, empty)
  BY DEF values_cover, operand_has, same

\* So it is with addresses.
LEMMA AddressesCover ==
  ASSUME NEW existing \in SUBSET AddressValue, NEW asked \in SUBSET AddressValue,
         NEW end \in End, NEW empty,
         values_cover(existing, asked, address_covers),
         operand_has(asked, end, address_has, empty)
  PROVE  operand_has(existing, end, address_has, empty)
<1>1. CASE asked = {}
  BY <1>1 DEF values_cover, operand_has
<1>2. CASE asked # {}
  <2>1. PICK w \in asked : address_has(w, end)
    BY <1>2 DEF operand_has
  <2>2. PICK v \in existing : address_covers(v, w)
    BY <2>1 DEF values_cover
  <2>3. address_has(v, end)
    BY <2>1, <2>2, AddressCovers
  <2> QED  BY <2>3 DEF operand_has
<1> QED  BY <1>1, <1>2

\* And with services.
LEMMA ServicesCover ==
  ASSUME NEW existing \in SUBSET ServiceValue, NEW asked \in SUBSET ServiceValue,
         NEW s \in PacketService, NEW empty,
         values_cover(existing, asked, service_covers),
         operand_has(asked, s, service_has, empty)
  PROVE  operand_has(existing, s, service_has, empty)
<1>1. CASE asked = {}
  BY <1>1 DEF values_cover, operand_has
<1>2. CASE asked # {}
  <2>1. PICK w \in asked : service_has(w, s)
    BY <1>2 DEF operand_has
  <2>2. PICK v \in existing : service_covers(v, w)
    BY <2>1 DEF values_cover
  <2>3. service_has(v, s)
    BY <2>1, <2>2, ServiceCovers
  <2> QED  BY <2>3 DEF operand_has
<1> QED  BY <1>1, <1>2

\* analyze_coverage is right: a policy that covers a rule has its action and is
\* for every packet the rule is for, however empty operands are read.
THEOREM CoveredAdmits ==
  ASSUME NEW existing \in NormalizedRuleValues, NEW rule \in NormalizedRuleValues,
         is_covered(existing, rule),
         NEW packet \in Packet, NEW empty, admits(rule, packet, empty)
  PROVE  existing.action = rule.action /\ admits(existing, packet, empty)
<1>1. existing.action = rule.action
  BY DEF is_covered
<1>2. operand_has(existing.src_zones, packet.src_zone, same, empty)
  BY ZonesCover DEF is_covered, admits
<1>3. operand_has(existing.dst_zones, packet.dst_zone, same, empty)
  BY ZonesCover DEF is_covered, admits
<1>4. operand_has(existing.src_addresses, packet.src, address_has, empty)
  <2>1. /\ existing.src_addresses \in SUBSET AddressValue
        /\ rule.src_addresses \in SUBSET AddressValue /\ packet.src \in End
    BY DEF NormalizedRuleValues, Packet
  <2>2. /\ values_cover(existing.src_addresses, rule.src_addresses, address_covers)
        /\ operand_has(rule.src_addresses, packet.src, address_has, empty)
    BY DEF is_covered, admits
  <2> QED  BY <2>1, <2>2, AddressesCover
<1>5. operand_has(existing.dst_addresses, packet.dst, address_has, empty)
  <2>1. /\ existing.dst_addresses \in SUBSET AddressValue
        /\ rule.dst_addresses \in SUBSET AddressValue /\ packet.dst \in End
    BY DEF NormalizedRuleValues, Packet
  <2>2. /\ values_cover(existing.dst_addresses, rule.dst_addresses, address_covers)
        /\ operand_has(rule.dst_addresses, packet.dst, address_has, empty)
    BY DEF is_covered, admits
  <2> QED  BY <2>1, <2>2, AddressesCover
<1>6. operand_has(existing.services, packet.service, service_has, empty)
  <2>1. /\ existing.services \in SUBSET ServiceValue
        /\ rule.services \in SUBSET ServiceValue /\ packet.service \in PacketService
    BY DEF NormalizedRuleValues, Packet
  <2>2. /\ values_cover(existing.services, rule.services, service_covers)
        /\ operand_has(rule.services, packet.service, service_has, empty)
    BY DEF is_covered, admits
  <2> QED  BY <2>1, <2>2, ServicesCover
<1> QED  BY <1>1, <1>2, <1>3, <1>4, <1>5, <1>6 DEF admits

\* What compare_rule reports as matched or covered is so by the policy it names, which is not
\* a broken one.
LEMMA ComparedTo ==
  ASSUME NEW rule, NEW existing, NEW verdict \in compare_rule(rule, existing),
         verdict.match_status \in {"EXACT_MATCH", "COVERED_MATCH"}
  PROVE  /\ rule # Broken
         /\ verdict.matched \in DOMAIN existing /\ existing[verdict.matched] # Broken
         /\ existing[verdict.matched] = rule \/ is_covered(existing[verdict.matched], rule)
<1> DEFINE exact == candidates(existing, LAMBDA e : e = rule)
           covering == candidates(existing, LAMBDA e : is_covered(e, rule))
<1>1. \/ verdict = RuleCompareResult("MATCH_ERROR", 0)
      \/ rule # Broken /\ \E i \in first(exact) : verdict = RuleCompareResult("EXACT_MATCH", i)
      \/ rule # Broken /\ \E i \in first(covering) : verdict = RuleCompareResult("COVERED_MATCH", i)
      \/ verdict = RuleCompareResult("NEW", 0)
  BY Zenon DEF compare_rule
<1>2. \A p : first(p) \subseteq p
  BY DEF first
<1>3. rule # Broken /\ verdict.matched \in exact \cup covering
  <2> HIDE DEF exact, covering
  <2> QED  BY <1>1, <1>2 DEF RuleCompareResult
<1>4. CASE verdict.matched \in exact
  BY <1>3, <1>4 DEF candidates
<1>5. CASE verdict.matched \in covering
  BY <1>3, <1>5 DEF candidates
<1> QED  BY <1>3, <1>4, <1>5

\* So the policy does to the packets of the rule what the rule would do.
THEOREM CompareSound ==
  ASSUME NEW rule \in NormalizedRuleValues,
         NEW existing \in Seq(NormalizedRuleValues \cup {Broken}),
         NEW verdict \in compare_rule(rule, existing),
         verdict.match_status \in {"EXACT_MATCH", "COVERED_MATCH"},
         NEW packet \in Packet, NEW empty, admits(rule, packet, empty)
  PROVE  /\ verdict.matched \in DOMAIN existing
         /\ existing[verdict.matched] # Broken
         /\ existing[verdict.matched].action = rule.action
         /\ admits(existing[verdict.matched], packet, empty)
<1>1. /\ verdict.matched \in DOMAIN existing /\ existing[verdict.matched] # Broken
      /\ existing[verdict.matched] = rule \/ is_covered(existing[verdict.matched], rule)
  BY ComparedTo
<1>2. existing[verdict.matched] \in NormalizedRuleValues
  BY <1>1
<1>3. CASE existing[verdict.matched] = rule
  BY <1>1, <1>3
<1>4. CASE is_covered(existing[verdict.matched], rule)
  BY <1>1, <1>2, <1>4, CoveredAdmits
<1> QED  BY <1>1, <1>3, <1>4

----------------------------------------------------------------------------
(***************************************************************************)
(* Induction                                                               *)
(***************************************************************************)

\* Induction over the naturals up to a bound, for a property given as a set: from the
\* well-founded inclusion of finite sets.
LEMMA SetInduction ==
  ASSUME NEW N \in Nat, NEW S, 0 \in S, \A n \in 0 .. N - 1 : n \in S => n + 1 \in S
  PROVE  0 .. N \subseteq S
<1> DEFINE R == StrictSubsetOrdering(0 .. N)
           T == {0 .. n : n \in (0 .. N) \ S}
<1>1. IsWellFoundedOn(R, FiniteSubsetsOf(0 .. N))
  BY FS_StrictSubsetOrderingWellFounded
<1>2. T \subseteq FiniteSubsetsOf(0 .. N)
  <2>1. ASSUME NEW n \in 0 .. N PROVE 0 .. n \in SUBSET (0 .. N) /\ IsFiniteSet(0 .. n)
    BY FS_Interval
  <2> QED BY <2>1 DEF FiniteSubsetsOf
<1>3. ASSUME T # {} PROVE FALSE
  <2>1. PICK U \in T : \A V \in T : ~ (<<V, U>> \in R)
    <3> HIDE DEF R, T
    <3> QED BY <1>1, <1>2, <1>3, WFMin
  <2>2. PICK n \in (0 .. N) \ S : U = 0 .. n
    OBVIOUS
  <2>3. n # 0 /\ n - 1 \in 0 .. N - 1 /\ n - 1 \notin S
    BY <2>2
  <2>4. 0 .. n - 1 \in T
    BY <2>3
  <2>5. 0 .. n - 1 \subseteq 0 .. n /\ 0 .. n - 1 # 0 .. n /\ 0 .. n \subseteq 0 .. N
    BY <2>2, <2>3
  <2>6. <<0 .. n - 1, 0 .. n>> \in R
    BY <2>5 DEF StrictSubsetOrdering
  <2> QED BY <2>1, <2>2, <2>4, <2>6
<1> QED BY <1>3

\* f holds the iterates of F from a value.
iterates(f, a, F, N) == f[0] = a /\ \A n \in 1 .. N : f[n] = F[f[n - 1]]

\* A function can be iterated from a value.
LEMMA Iterate ==
  ASSUME NEW S, NEW a \in S, NEW F \in [S -> S], NEW N \in Nat
  PROVE  \E f \in [0 .. N -> S] : iterates(f, a, F, N)
<1> DEFINE done(m) == \E f \in [0 .. m -> S] : f[0] = a /\ \A n \in 1 .. m : f[n] = F[f[n - 1]]
           D == {m \in 0 .. N : done(m)}
<1>1. 0 \in D
  <2> DEFINE f == [n \in 0 .. 0 |-> a]
  <2>1. f \in [0 .. 0 -> S] /\ f[0] = a /\ \A n \in 1 .. 0 : f[n] = F[f[n - 1]]
    OBVIOUS
  <2>2. 0 \in 0 .. N
    OBVIOUS
  <2> HIDE DEF f
  <2> QED BY <2>1, <2>2
<1>2. ASSUME NEW m \in 0 .. N - 1, m \in D PROVE m + 1 \in D
  <2>1. PICK f \in [0 .. m -> S] : f[0] = a /\ \A n \in 1 .. m : f[n] = F[f[n - 1]]
    BY <1>2
  <2> DEFINE g == [n \in 0 .. m + 1 |-> IF n \in 0 .. m THEN f[n] ELSE F[f[m]]]
  <2>2. g \in [0 .. m + 1 -> S] /\ g[0] = a
    BY <2>1
  <2>3. ASSUME NEW n \in 1 .. m + 1 PROVE g[n] = F[g[n - 1]]
    <3>1. CASE n = m + 1
      BY <3>1
    <3>2. CASE n # m + 1
      <4>1. n \in 1 .. m /\ n \in 0 .. m /\ n - 1 \in 0 .. m
        BY <3>2
      <4>2. n \in 0 .. m + 1 /\ n - 1 \in 0 .. m + 1
        BY <4>1
      <4>3. g[n] = f[n] /\ g[n - 1] = f[n - 1]
        BY <4>1, <4>2
      <4>4. f[n] = F[f[n - 1]]
        BY <2>1, <4>1
      <4> HIDE DEF g
      <4> QED BY <4>3, <4>4
    <3> QED BY <3>1, <3>2
  <2>4. m + 1 \in 0 .. N
    OBVIOUS
  <2> HIDE DEF g
  <2>5. done(m + 1)
    BY <2>2, <2>3
  <2> HIDE DEF done
  <2> QED BY <2>4, <2>5
<1>3. 0 .. N \subseteq D
  <2> HIDE DEF D
  <2> QED BY <1>1, <1>2, SetInduction
<1> QED BY <1>3 DEF iterates

----------------------------------------------------------------------------
(***************************************************************************)
(* What is reached, and what is resolved                                   *)
(***************************************************************************)

\* What links are between.
Pairs == Objects \X Objects

\* No link leads out of the set.
closed(set, ls) == \A l \in ls : l[1] \in set => l[2] \in set

\* One step along links.
below_of(set, ls) == {l[2] : l \in {k \in ls : k[1] \in set}}

\* The sets a walk along links goes through.
LEMMA ReachedSteps ==
  ASSUME NEW o \in Objects, NEW ls \in SUBSET Pairs
  PROVE  \E step \in [0 .. Cardinality(Objects) -> SUBSET Objects] :
           /\ step[0] = {o}
           /\ \A n \in 1 .. Cardinality(Objects) : step[n] = step[n - 1] \cup below_of(step[n - 1], ls)
           /\ reached(o, ls) = step[Cardinality(Objects)]
<1> DEFINE N == Cardinality(Objects)
           step == CHOOSE step : step = [n \in 0 .. N |->
                     IF n = 0 THEN {o}
                     ELSE LET before == step[n - 1]
                          IN  before \cup {l[2] : l \in {k \in ls : k[1] \in before}}]
           F == [set \in SUBSET Objects |-> set \cup below_of(set, ls)]
<1>1. N \in Nat
  BY GroupsAssumption, FS_CardinalityType
<1>2. reached(o, ls) = step[N]
  BY DEF reached
<1>3. F \in [SUBSET Objects -> SUBSET Objects]
  BY DEF below_of, Pairs
<1>4. PICK f \in [0 .. N -> SUBSET Objects] : f[0] = {o} /\ \A n \in 1 .. N : f[n] = F[f[n - 1]]
  <2> DEFINE S == SUBSET Objects
  <2>1. {o} \in S
    OBVIOUS
  <2> HIDE DEF F, N, step, S
  <2>2. F \in [S -> S]
    BY <1>3 DEF S
  <2>3. \E f \in [0 .. N -> S] : iterates(f, {o}, F, N)
    BY <1>1, <2>1, <2>2, Iterate
  <2> QED BY <2>3 DEF S, iterates
<1> HIDE DEF N
<1>5. ASSUME NEW n \in 1 .. N PROVE f[n] = f[n - 1] \cup below_of(f[n - 1], ls)
  <2>1. n - 1 \in 0 .. N
    BY <1>1
  <2>2. f[n - 1] \in SUBSET Objects
    BY <1>4, <2>1
  <2> QED BY <1>4, <2>2
<1>6. f = [n \in 0 .. N |->
            IF n = 0 THEN {o}
            ELSE LET before == f[n - 1]
                 IN  before \cup {l[2] : l \in {k \in ls : k[1] \in before}}]
  BY <1>1, <1>4, <1>5 DEF below_of
<1>7. step = [n \in 0 .. N |->
               IF n = 0 THEN {o}
               ELSE LET before == step[n - 1]
                    IN  before \cup {l[2] : l \in {k \in ls : k[1] \in before}}]
  BY <1>6
<1>8. /\ step[0] = {o}
      /\ \A n \in 1 .. N : step[n] = step[n - 1] \cup below_of(step[n - 1], ls)
  <2> HIDE DEF step
  <2>1. ASSUME NEW n \in 1 .. N PROVE step[n] = step[n - 1] \cup below_of(step[n - 1], ls)
    <3>1. n \in 0 .. N /\ n # 0
      BY <1>1
    <3> QED BY <1>7, <3>1 DEF below_of
  <2>2. 0 \in 0 .. N
    BY <1>1
  <2> QED BY <1>7, <2>1, <2>2
<1>9. \A n \in 0 .. N : step[n] = f[n]
  <2> HIDE DEF step, N
  <2> DEFINE D == {n \in 0 .. N : step[n] = f[n]}
  <2>1. 0 \in D
    <3>1. 0 \in 0 .. N
      BY <1>1
    <3> QED BY <1>4, <1>8, <3>1
  <2>2. ASSUME NEW n \in 0 .. N - 1, n \in D PROVE n + 1 \in D
    <3>1. n + 1 \in 1 .. N /\ (n + 1) - 1 = n /\ n + 1 \in 0 .. N
      BY <1>1
    <3>2. f[n + 1] = f[n] \cup below_of(f[n], ls) /\ step[n + 1] = step[n] \cup below_of(step[n], ls)
      BY <1>5, <1>8, <3>1
    <3> QED BY <2>2, <3>1, <3>2
  <2>3. 0 .. N \subseteq D
    <3> HIDE DEF D
    <3> QED BY <1>1, <2>1, <2>2, SetInduction
  <2> QED BY <2>3
<1>10. reached(o, ls) = f[N]
  <2> HIDE DEF step
  <2> QED BY <1>1, <1>2, <1>9
<1> QED BY <1>4, <1>5, <1>10 DEF N

\* What is reached is in every closed set that holds the start.
LEMMA ReachedLeast ==
  ASSUME NEW o \in Objects, NEW ls \in SUBSET Pairs, NEW set, o \in set,
         \A l \in ls : l[1] \in set => l[2] \in set
  PROVE  reached(o, ls) \subseteq set
<1> DEFINE N == Cardinality(Objects)
<1>1. N \in Nat
  BY GroupsAssumption, FS_CardinalityType
<1>2. PICK step \in [0 .. N -> SUBSET Objects] :
           /\ step[0] = {o}
           /\ \A n \in 1 .. N : step[n] = step[n - 1] \cup below_of(step[n - 1], ls)
           /\ reached(o, ls) = step[N]
  BY ReachedSteps
<1> DEFINE D == {n \in 0 .. N : step[n] \subseteq set}
<1> HIDE DEF N
<1>3. 0 \in D
  BY <1>1, <1>2
<1>4. ASSUME NEW n \in 0 .. N - 1, n \in D PROVE n + 1 \in D
  <2>1. n + 1 \in 1 .. N /\ (n + 1) - 1 = n
    BY <1>1
  <2>2. step[n + 1] = step[n] \cup below_of(step[n], ls)
    BY <1>2, <2>1
  <2> QED BY <1>4, <2>1, <2>2 DEF below_of
<1>5. 0 .. N \subseteq D
  <2> HIDE DEF D
  <2> QED BY <1>1, <1>3, <1>4, SetInduction
<1> QED BY <1>1, <1>2, <1>5

\* It is such a set itself: so many rounds are enough.
LEMMA ReachedClosed ==
  ASSUME NEW o \in Objects, NEW ls \in SUBSET Pairs
  PROVE  /\ o \in reached(o, ls) /\ reached(o, ls) \subseteq Objects
         /\ closed(reached(o, ls), ls)
<1> DEFINE N == Cardinality(Objects)
<1>1. N \in Nat
  BY GroupsAssumption, FS_CardinalityType
<1>2. PICK step \in [0 .. N -> SUBSET Objects] :
           /\ step[0] = {o}
           /\ \A n \in 1 .. N : step[n] = step[n - 1] \cup below_of(step[n - 1], ls)
           /\ reached(o, ls) = step[N]
  BY ReachedSteps
<1> DEFINE big(n) == Cardinality(step[n]) >= n + 1
           D == {n \in 0 .. N : o \in step[n] /\ (closed(step[n], ls) \/ big(n))}
<1>3. \A n \in 0 .. N : IsFiniteSet(step[n]) /\ Cardinality(step[n]) \in Nat
                          /\ Cardinality(step[n]) <= N
  <2>1. \A n \in 0 .. N : step[n] \in SUBSET Objects
    BY <1>2
  <2> QED BY <2>1, GroupsAssumption, FS_Subset, FS_CardinalityType
<1>4. 0 \in D
  <2>1. 0 \in 0 .. N /\ step[0] = {o}
    BY <1>1, <1>2
  <2>2. big(0) /\ o \in step[0]
    <3>1. Cardinality({o}) = 1
      BY FS_Singleton
    <3> QED BY <2>1, <3>1
  <2> QED BY <2>1, <2>2
<1>5. ASSUME NEW n \in 0 .. N - 1, n \in D PROVE n + 1 \in D
  <2>1. n + 1 \in 1 .. N /\ (n + 1) - 1 = n /\ n \in 0 .. N
    BY <1>1
  <2>2. step[n + 1] = step[n] \cup below_of(step[n], ls)
    BY <1>2, <2>1
  <2>3. CASE closed(step[n], ls)
    <3>1. step[n + 1] = step[n]
      BY <2>2, <2>3 DEF below_of, closed
    <3> QED BY <1>5, <2>1, <2>3, <3>1
  <2>4. CASE ~closed(step[n], ls)
    <3>1. step[n + 1] # step[n] /\ step[n] \in SUBSET step[n + 1]
      BY <2>2, <2>4 DEF below_of, closed
    <3>2. /\ Cardinality(step[n]) <= Cardinality(step[n + 1])
          /\ Cardinality(step[n]) # Cardinality(step[n + 1])
      BY <1>3, <2>1, <3>1, FS_Subset
    <3>3. Cardinality(step[n]) >= n + 1
      BY <1>5, <2>4
    <3>4. Cardinality(step[n]) \in Nat /\ Cardinality(step[n + 1]) \in Nat
      BY <1>3, <2>1
    <3>5. big(n + 1)
      BY <3>2, <3>3, <3>4
    <3> QED BY <1>5, <2>1, <3>1, <3>5
  <2> QED BY <2>3, <2>4
<1>6. N \in D
  <2> HIDE DEF D
  <2>1. 0 .. N \subseteq D
    BY <1>1, <1>4, <1>5, SetInduction
  <2> QED BY <1>1, <2>1
<1>7. ~big(N)
  BY <1>1, <1>3
<1> QED BY <1>1, <1>2, <1>6, <1>7

\* A level of the walk of the resolver, on what the level below it gave.
resolve_level(left, o, lower) ==
  IF o \notin ids(catalog) THEN {Error}
  ELSE IF o \in Leaves THEN {o}
  ELSE IF left = 0 THEN {Error}
  ELSE LET below == UNION {lower[c] : c \in children(o) \ {o}}
       IN  IF below = {} THEN {Error} ELSE below

\* The recursion of the resolver is well-defined.
LEMMA ResolveSteps ==
  ASSUME ids(catalog) \subseteq Objects
  PROVE  /\ resolve_below \in [0 .. MaxDepth -> [Objects -> SUBSET (Objects \cup {Error})]]
         /\ \A o \in Objects : resolve_below[0][o] = resolve_level(0, o, <<>>)
         /\ \A left \in 1 .. MaxDepth, o \in Objects :
              resolve_below[left][o] = resolve_level(left, o, resolve_below[left - 1])
<1> DEFINE S == [Objects -> SUBSET (Objects \cup {Error})]
           body(f) == [left \in 0 .. MaxDepth |->
              [o \in Objects |->
                 IF o \notin ids(catalog) THEN {Error}
                 ELSE IF o \in Leaves THEN {o}
                 ELSE IF left = 0 THEN {Error}
                 ELSE LET below == UNION {f[left - 1][c] : c \in children(o) \ {o}}
                      IN  IF below = {} THEN {Error} ELSE below]]
           a == [o \in Objects |-> resolve_level(0, o, <<>>)]
           F == [h \in S |-> [o \in Objects |-> resolve_level(1, o, h)]]
<1>1. resolve_below = CHOOSE f : f = body(f)
  BY DEF resolve_below
<1>2. \A o \in Objects : children(o) \subseteq Objects
  BY DEF children, ids
<1>3. a \in S
  BY DEF resolve_level
<1>4. ASSUME NEW h \in S, NEW o \in Objects
      PROVE  resolve_level(1, o, h) \in SUBSET (Objects \cup {Error})
  <2>1. \A c \in children(o) \ {o} : h[c] \in SUBSET (Objects \cup {Error})
    BY <1>2, <1>4
  <2> QED BY <2>1 DEF resolve_level
<1>5. F \in [S -> S]
  BY <1>4
<1>6. PICK f \in [0 .. MaxDepth -> S] : f[0] = a /\ \A n \in 1 .. MaxDepth : f[n] = F[f[n - 1]]
  <2>1. MaxDepth \in Nat
    BY GroupsAssumption
  <2> HIDE DEF S, a, F
  <2>2. \E f \in [0 .. MaxDepth -> S] : iterates(f, a, F, MaxDepth)
    BY <1>3, <1>5, <2>1, Iterate
  <2> QED BY <2>2 DEF iterates
<1>7. \A left \in 1 .. MaxDepth, o \in Objects : f[left][o] = resolve_level(left, o, f[left - 1])
  <2>1. ASSUME NEW left \in 1 .. MaxDepth, NEW o \in Objects
        PROVE  f[left][o] = resolve_level(left, o, f[left - 1])
    <3>1. left - 1 \in 0 .. MaxDepth /\ left # 0
      BY GroupsAssumption
    <3>2. f[left - 1] \in S
      BY <1>6, <3>1
    <3>3. f[left] = F[f[left - 1]]
      BY <1>6
    <3>4. f[left][o] = resolve_level(1, o, f[left - 1])
      <4> HIDE DEF S
      <4> QED BY <3>2, <3>3
    <3> QED BY <3>1, <3>4 DEF resolve_level
  <2> QED BY <2>1
<1>8. \A left \in 0 .. MaxDepth : f[left] = body(f)[left]
  <2>1. ASSUME NEW left \in 0 .. MaxDepth, NEW o \in Objects PROVE f[left][o] = body(f)[left][o]
    <3>1. CASE left = 0
      BY <1>6, <3>1 DEF resolve_level
    <3>2. CASE left # 0
      <4>1. left \in 1 .. MaxDepth
        BY <3>2, GroupsAssumption
      <4>2. f[left][o] = resolve_level(left, o, f[left - 1])
        BY <1>7, <4>1
      <4> QED BY <3>2, <4>2 DEF resolve_level
    <3> QED BY <3>1, <3>2
  <2>2. \A left \in 0 .. MaxDepth : f[left] \in [Objects -> SUBSET (Objects \cup {Error})]
    BY <1>6
  <2> QED BY <2>1, <2>2
<1>9. f = body(f)
  BY <1>6, <1>8
<1>10. resolve_below = body(resolve_below)
  <2> HIDE DEF body
  <2> QED BY <1>1, <1>9
<1>11. \A o \in Objects : resolve_below[0][o] = resolve_level(0, o, <<>>)
  <2>1. 0 \in 0 .. MaxDepth
    BY GroupsAssumption
  <2> QED BY <1>10, <2>1 DEF resolve_level
<1>12. \A left \in 1 .. MaxDepth, o \in Objects :
              resolve_below[left][o] = resolve_level(left, o, resolve_below[left - 1])
  <2>1. ASSUME NEW left \in 1 .. MaxDepth, NEW o \in Objects
        PROVE  resolve_below[left][o] = resolve_level(left, o, resolve_below[left - 1])
    <3>1. left \in 0 .. MaxDepth /\ left # 0
      BY GroupsAssumption
    <3>2. resolve_below[left][o] = body(resolve_below)[left][o]
      BY <1>10
    <3> QED BY <3>1, <3>2 DEF resolve_level
  <2> QED BY <2>1
<1>13. \A left \in 0 .. MaxDepth : resolve_below[left] \in S
  <2> DEFINE D == {n \in 0 .. MaxDepth : resolve_below[n] \in S}
  <2>1. \A left \in 0 .. MaxDepth : resolve_below[left] = [o \in Objects |-> resolve_below[left][o]]
    BY <1>10
  <2>2. 0 \in D
    <3>1. 0 \in 0 .. MaxDepth
      BY GroupsAssumption
    <3>2. resolve_below[0] = a
      BY <1>11, <2>1, <3>1
    <3> QED BY <1>3, <3>1, <3>2
  <2>3. ASSUME NEW n \in 0 .. MaxDepth - 1, n \in D PROVE n + 1 \in D
    <3>1. n + 1 \in 1 .. MaxDepth /\ n + 1 \in 0 .. MaxDepth /\ (n + 1) - 1 = n
      BY GroupsAssumption
    <3>2. resolve_below[n + 1] = [o \in Objects |-> resolve_level(n + 1, o, resolve_below[n])]
      BY <1>12, <2>1, <3>1
    <3>3. \A o \in Objects : resolve_level(n + 1, o, resolve_below[n]) = resolve_level(1, o, resolve_below[n])
      BY <3>1 DEF resolve_level
    <3>4. resolve_below[n] \in S
      BY <2>3
    <3> QED BY <1>4, <3>1, <3>2, <3>3, <3>4
  <2>4. 0 .. MaxDepth \subseteq D
    <3>1. MaxDepth \in Nat
      BY GroupsAssumption
    <3> HIDE DEF D
    <3> QED BY <2>2, <2>3, <3>1, SetInduction
  <2> QED BY <2>4
<1>14. resolve_below \in [0 .. MaxDepth -> S]
  <2> HIDE DEF S
  <2> QED BY <1>10, <1>13
<1> QED BY <1>11, <1>12, <1>14

\* The members that a list of objects shows are its links.
LEMMA ChildLinks ==
  \A g, c : c \in children(g) <=> <<g, c>> \in links(catalog)
BY DEF children, links

\* What is resolved lies below the object, along the links that were loaded: by induction on
\* the levels that are left.
LEMMA ResolvedIsBelow ==
  ASSUME ids(catalog) \subseteq Objects, NEW STATE ls, ls \in SUBSET Pairs, links(catalog) \subseteq ls,
         NEW o \in Objects
  PROVE  resolve_leaves(o) # {} /\ resolve_leaves(o) \ {Error} \subseteq reached(o, ls) \cap Leaves \cap ids(catalog)
<1> DEFINE W == reached(o, ls)
           good(left) == \A c \in W : /\ resolve_below[left][c] # {}
                                      /\ resolve_below[left][c] \ {Error} \subseteq W \cap Leaves \cap ids(catalog)
           D == {n \in 0 .. MaxDepth : good(n)}
<1>1. o \in W /\ W \subseteq Objects /\ \A g \in W : \A c : <<g, c>> \in ls => c \in W
  BY ReachedClosed DEF closed
<1> HIDE DEF W
<1>2. MaxDepth \in Nat
  BY GroupsAssumption
<1>3. 0 \in D
  <2>1. \A c \in W : resolve_below[0][c] = resolve_level(0, c, <<>>)
    BY <1>1, ResolveSteps
  <2>2. 0 \in 0 .. MaxDepth
    BY <1>2
  <2> QED BY <2>1, <2>2 DEF resolve_level
<1>4. ASSUME NEW n \in 0 .. MaxDepth - 1, n \in D PROVE n + 1 \in D
  <2>1. n + 1 \in 1 .. MaxDepth /\ n + 1 \in 0 .. MaxDepth /\ (n + 1) - 1 = n
    BY <1>2
  <2>2. ASSUME NEW c \in W
        PROVE  /\ resolve_below[n + 1][c] # {}
               /\ resolve_below[n + 1][c] \ {Error} \subseteq W \cap Leaves \cap ids(catalog)
    <3>1. resolve_below[n + 1][c] = resolve_level(n + 1, c, resolve_below[n])
      BY <1>1, <2>1, ResolveSteps
    <3>2. children(c) \subseteq W
      BY <1>1, ChildLinks
    <3>3. \A d \in children(c) : resolve_below[n][d] \ {Error} \subseteq W \cap Leaves \cap ids(catalog)
      BY <1>4, <3>2
    <3> QED BY <3>1, <3>3 DEF resolve_level
  <2> QED BY <2>1, <2>2
<1>5. 0 .. MaxDepth \subseteq D
  <2> HIDE DEF D
  <2> QED BY <1>2, <1>3, <1>4, SetInduction
<1>6. good(MaxDepth)
  BY <1>2, <1>5
<1> QED BY <1>1, <1>6 DEF resolve_leaves, levels, W

\* Where nothing raises, nothing that can be reached is left out, over links that were loaded or
\* lead to objects left out; and no group that is reached is without a member.
LEMMA ResolvedIsWhole ==
  ASSUME ids(catalog) \subseteq Objects, NEW STATE ls, ls \in SUBSET (Groups \X Objects),
         NEW STATE out, out \subseteq Leaves,
         \A l \in ls : l[1] \in ids(catalog) => (l \in links(catalog) \/ l[2] \in out),
         NEW o \in Objects, Error \notin resolve_leaves(o)
  PROVE  /\ (reached(o, ls) \cap Leaves) \ out \subseteq resolve_leaves(o)
         /\ \A g \in reached(o, ls) \cap Groups : children(g) # {}
<1> DEFINE whole(left, c) == Error \notin resolve_below[left][c] /\ resolve_below[left][c] \subseteq resolve_leaves(o)
           V == {c \in Objects : \E left \in 0 .. MaxDepth : whole(left, c)}
<1>1. MaxDepth \in Nat /\ Error \notin Objects /\ Groups \cap Leaves = {}
  BY GroupsAssumption
<1>2. ASSUME NEW c \in Objects, NEW left \in 0 .. MaxDepth, whole(left, c)
      PROVE  /\ c \in ids(catalog)
             /\ c \in Leaves => c \in resolve_leaves(o)
             /\ c \notin Leaves => children(c) # {} /\ \A d \in children(c) : d \in V
  <2>1. CASE left = 0
    <3>1. resolve_below[left][c] = resolve_level(0, c, <<>>)
      BY <2>1, ResolveSteps
    <3> QED BY <1>2, <2>1, <3>1 DEF resolve_level
  <2>2. CASE left # 0
    <3>1. left \in 1 .. MaxDepth /\ left - 1 \in 0 .. MaxDepth
      BY <1>1, <2>2
    <3>2. resolve_below[left][c] = resolve_level(left, c, resolve_below[left - 1])
      BY <3>1, ResolveSteps
    <3>3. c \in ids(catalog) /\ (c \in Leaves => c \in resolve_leaves(o))
      BY <1>2, <3>2 DEF resolve_level
    <3>5. c \notin Leaves => children(c) # {}
      BY <1>2, <2>2, <3>2 DEF resolve_level
    <3>4. ASSUME c \notin Leaves, NEW d \in children(c) PROVE d \in V
      <4>1. d \in Objects
        BY DEF children, ids
      <4>2. CASE d = c
        BY <1>2, <4>2
      <4>3. CASE d # c
        <5>1. resolve_below[left - 1][d] \subseteq resolve_below[left][c]
          BY <1>2, <2>2, <3>2, <3>4, <4>3 DEF resolve_level
        <5>2. whole(left - 1, d)
          BY <1>2, <5>1
        <5> QED BY <3>1, <4>1, <5>2
      <4> QED BY <4>2, <4>3
    <3> QED BY <3>3, <3>4, <3>5
  <2> QED BY <2>1, <2>2
<1>3. o \in V
  <2>1. MaxDepth \in 0 .. MaxDepth /\ whole(MaxDepth, o)
    BY <1>1 DEF resolve_leaves, levels
  <2> QED BY <2>1
<1>4. ASSUME NEW l \in ls, l[1] \in V \cup out PROVE l[2] \in V \cup out
  <2>1. l[1] \in Groups /\ l[1] \notin Leaves /\ l = <<l[1], l[2]>>
    BY <1>1
  <2>2. PICK left \in 0 .. MaxDepth : whole(left, l[1])
    BY <1>4, <2>1
  <2>3. l[1] \in ids(catalog)
    BY <1>2, <1>4, <2>1, <2>2
  <2>4. l[2] \in children(l[1]) \/ l[2] \in out
    BY <2>1, <2>3, ChildLinks
  <2> QED BY <1>2, <1>4, <2>1, <2>2, <2>4
<1>5. reached(o, ls) \subseteq V \cup out
  <2>1. ls \in SUBSET Pairs
    BY DEF Pairs, Objects
  <2> HIDE DEF V
  <2> QED BY <1>3, <1>4, <2>1, ReachedLeast
<1>6. ASSUME NEW c \in V
      PROVE  (c \in Leaves => c \in resolve_leaves(o)) /\ (c \notin Leaves => children(c) # {})
  <2>1. PICK left \in 0 .. MaxDepth : whole(left, c)
    BY <1>6
  <2> QED BY <1>2, <1>6, <2>1
<1> QED BY <1>1, <1>5, <1>6

----------------------------------------------------------------------------
(***************************************************************************)
(* What a load has when groups are edited meanwhile                        *)
(***************************************************************************)

\* A finite set of numbers has a greatest one.
LEMMA Greatest ==
  ASSUME NEW K, IsFiniteSet(K), K \subseteq Int, K # {}
  PROVE  \E k \in K : \A j \in K : j <= k
<1> DEFINE R == StrictSubsetOrdering(K)
           T == {{j \in K : j > k} : k \in K}
<1>1. IsWellFoundedOn(R, FiniteSubsetsOf(K))
  BY FS_StrictSubsetOrderingWellFounded
<1>2. T \subseteq FiniteSubsetsOf(K)
  <2>1. ASSUME NEW k \in K PROVE {j \in K : j > k} \in SUBSET K /\ IsFiniteSet({j \in K : j > k})
    BY FS_Subset
  <2> QED BY <2>1 DEF FiniteSubsetsOf
<1>3. PICK U \in T : \A V \in T : ~ (<<V, U>> \in R)
  <2>1. T # {}
    OBVIOUS
  <2> HIDE DEF R, T
  <2> QED BY <1>1, <1>2, <2>1, WFMin
<1>4. PICK k \in K : U = {j \in K : j > k}
  OBVIOUS
<1>5. ASSUME NEW i \in K, i > k PROVE FALSE
  <2> DEFINE V == {j \in K : j > i}
  <2>4. i \in Int /\ k \in Int
    OBVIOUS
  <2>1. i \in U /\ i \notin V /\ U \subseteq K
    <3>1. i \in U /\ U \subseteq K
      BY <1>4, <1>5
    <3>2. i \notin V
      BY <2>4
    <3> QED BY <3>1, <3>2
  <2>3. V \subseteq U
    <3>1. \A j \in K : (j > i) => (j > k)
      BY <1>5, <2>4
    <3> QED BY <1>4, <3>1
  <2>2. <<V, U>> \in R /\ V \in T
    BY <2>1, <2>3 DEF StrictSubsetOrdering
  <2> QED BY <1>3, <2>2
<1> QED BY <1>5

LinkSet == Groups \X Objects

\* Every stable link from a group that has been expanded has been loaded; an answer that is
\* waiting holds those of its chunk, and its members with all their stable parents.
AnswersInv ==
  /\ DOMAIN answers \subseteq Chunks
  /\ \A c \in DOMAIN answers :
       /\ answers[c] \subseteq Entry /\ links(answers[c]) \subseteq ever
       /\ \A l \in stable : l[1] \in chunk(c) => l[2] \in ids(answers[c])
       /\ \A e \in answers[c], g \in Groups : <<g, e.id>> \in stable => g \in e.parents

\* The invariant of a load, however groups are edited meanwhile.
GroupsInv ==
  /\ parents \in [Objects -> SUBSET Groups] /\ wanted \subseteq Objects /\ bare \subseteq Leaves
  /\ pc \in {"initial", "children", "networks", "done", "failed"}
  /\ stable \subseteq links(entries(parents)) /\ links(entries(parents)) \subseteq ever
  /\ ever \subseteq LinkSet
  /\ loaded \subseteq Entry /\ links(loaded) \subseteq ever
  /\ frontier \subseteq Groups
  /\ \A l \in stable : l[1] \in ids(loaded) /\ l[1] \notin frontier => l \in links(loaded)
  /\ pc = "initial" => answers = <<>>
  /\ pc = "children" => depth \in 1 .. MaxDepth /\ AnswersInv
  /\ pc \in {"networks", "done"} => frontier = {}
  /\ pc = "done" => catalog = {e \in loaded : e.id \notin bare}

\* The links of a membership.
LEMMA LinksOfParents ==
  ASSUME NEW ps \in [Objects -> SUBSET Groups]
  PROVE  /\ links(entries(ps)) \subseteq LinkSet
         /\ \A g, o : <<g, o>> \in links(entries(ps)) <=> (o \in Objects /\ g \in ps[o])
<1>1. \A l : l \in links(entries(ps)) <=> \E o \in Objects : \E g \in ps[o] : l = <<g, o>>
  <2>1. ASSUME NEW o \in Objects, NEW g \in ps[o] PROVE <<g, o>> \in links(entries(ps))
    <3>1. [id |-> o, parents |-> ps[o]] \in entries(ps)
      BY DEF entries
    <3> QED BY <3>1 DEF links
  <2>2. ASSUME NEW l \in links(entries(ps)) PROVE \E o \in Objects : \E g \in ps[o] : l = <<g, o>>
    <3>1. PICK e \in entries(ps) : l \in {<<g, e.id>> : g \in e.parents}
      BY DEF links
    <3>2. PICK o \in Objects : e = [id |-> o, parents |-> ps[o]]
      BY DEF entries
    <3> QED BY <3>1, <3>2
  <2> QED BY <2>1, <2>2
<1>2. \A o \in Objects : ps[o] \subseteq Groups
  OBVIOUS
<1>3. links(entries(ps)) \subseteq LinkSet
  BY <1>1, <1>2 DEF LinkSet
<1>4. \A g, o : <<g, o>> \in links(entries(ps)) <=> (o \in Objects /\ g \in ps[o])
  BY <1>1
<1> QED BY <1>3, <1>4

\* The links of a list of objects.
LEMMA EntryLinks ==
  ASSUME NEW STATE es, es \subseteq Entry
  PROVE  /\ links(es) \subseteq LinkSet /\ ids(es) \subseteq Objects
         /\ \A g, o : <<g, o>> \in links(es) <=> \E e \in es : e.id = o /\ g \in e.parents
BY DEF links, Entry, LinkSet, ids

\* At the start nothing is loaded.
LEMMA InitGroupsInv == GroupsInit => GroupsInv
<1> SUFFICES ASSUME GroupsInit PROVE GroupsInv
  OBVIOUS
<1>1. parents \in [Objects -> SUBSET Groups] /\ wanted \subseteq Objects /\ bare \subseteq Leaves
  BY GroupsAssumption DEF GroupsInit
<1>2. links(entries(parents)) \subseteq LinkSet
  BY <1>1, LinksOfParents
<1>3. links({}) = {} /\ ids({}) = {}
  BY DEF links, ids
<1> QED BY <1>1, <1>2, <1>3 DEF GroupsInit, GroupsInv

\* The wanted objects are loaded, and their groups are to be expanded.
LEMMA LoadInitialKeeps == ASSUME GroupsInv, LoadInitial PROVE GroupsInv'
<1>0. loaded' = {entry(o) : o \in wanted} /\ wanted \subseteq Objects /\ parents \in [Objects -> SUBSET Groups]
  BY DEF LoadInitial, GroupsInv
<1>1. loaded' \subseteq Entry
  BY <1>0 DEF Entry, entry
<1>8. ids(loaded') = wanted
  <2>1. \A o \in wanted : entry(o) \in loaded' /\ entry(o).id = o
    BY <1>0 DEF entry
  <2>2. \A e \in loaded' : e.id \in wanted
    BY <1>0 DEF entry
  <2> QED BY <2>1, <2>2 DEF ids
<1>2. UNCHANGED <<parents, bare, wanted, answers, catalog, stable, ever>> /\ frontier' = wanted \cap Groups
      /\ answers = <<>>
  BY DEF LoadInitial, GroupsInv
<1>3. links(loaded') \subseteq links(entries(parents))
  BY DEF LoadInitial, GroupsInv, links, entry, entries
<1>4. pc' = continue(frontier', 1) /\ depth' = 1
  BY DEF LoadInitial
<1>5. /\ pc' \in {"children", "networks"}
      /\ pc' = "networks" => frontier' = {}
      /\ depth' \in 1 .. MaxDepth
  BY <1>4, GroupsAssumption DEF continue
<1>6. \A l \in stable : l[1] \in Groups
  BY DEF GroupsInv, LinkSet
<1>7. AnswersInv'
  BY <1>2 DEF AnswersInv
<1> QED BY <1>1, <1>2, <1>3, <1>5, <1>6, <1>7, <1>8 DEF GroupsInv, ids

\* An answer shows what is there when it is given, so all that is stable.
LEMMA ReadChunkKeeps == ASSUME GroupsInv, NEW c \in Chunks, ReadChunk(c) PROVE GroupsInv'
<1> DEFINE answer == {entry(o) : o \in {p \in Objects : parents[p] \cap chunk(c) # {}}}
<1>1. /\ pc = "children" /\ UNCHANGED <<parents, bare, wanted, pc, loaded, frontier, depth, catalog, stable, ever>>
      /\ answers' = [k \in DOMAIN answers \cup {c} |-> IF k = c THEN answer ELSE answers[k]]
  BY DEF ReadChunk
<1>2. parents \in [Objects -> SUBSET Groups] /\ stable \subseteq links(entries(parents))
      /\ links(entries(parents)) \subseteq ever /\ AnswersInv
  BY <1>1 DEF GroupsInv
<1>3. \A l \in stable : l = <<l[1], l[2]>> /\ l[2] \in Objects /\ l[1] \in parents[l[2]]
  BY <1>2, LinksOfParents DEF LinkSet
<1>4. answer \subseteq Entry /\ links(answer) \subseteq links(entries(parents))
  BY <1>2 DEF entry, Entry, links, entries
<1>5. ASSUME NEW l \in stable, l[1] \in chunk(c) PROVE l[2] \in ids(answer)
  <2>1. l[2] \in {p \in Objects : parents[p] \cap chunk(c) # {}}
    BY <1>3, <1>5
  <2>2. entry(l[2]) \in answer /\ entry(l[2]).id = l[2]
    BY <2>1 DEF entry
  <2> QED BY <2>2 DEF ids
<1>6. \A e \in answer, g \in Groups : <<g, e.id>> \in stable => g \in e.parents
  BY <1>3 DEF entry
<1>7. Chunks' = Chunks /\ \A k : chunk(k)' = chunk(k)
  BY <1>1 DEF Chunks, chunk, position
<1>8. AnswersInv'
  <2> HIDE DEF answer
  <2>1. ASSUME NEW k \in DOMAIN answers'
        PROVE  /\ answers'[k] \subseteq Entry /\ links(answers'[k]) \subseteq ever
               /\ \A l \in stable : l[1] \in chunk(k) => l[2] \in ids(answers'[k])
               /\ \A e \in answers'[k], g \in Groups : <<g, e.id>> \in stable => g \in e.parents
    <3>1. CASE k = c
      <4>1. answers'[k] = answer
        BY <1>1, <3>1
      <4> QED BY <1>2, <1>4, <1>5, <1>6, <3>1, <4>1
    <3>2. CASE k # c
      <4>1. k \in DOMAIN answers /\ answers'[k] = answers[k]
        BY <1>1, <2>1, <3>2
      <4> QED BY <1>2, <4>1 DEF AnswersInv
    <3> QED BY <3>1, <3>2
  <2>2. DOMAIN answers' \subseteq Chunks
    BY <1>1, <1>2 DEF AnswersInv
  <2> QED BY <1>1, <1>7, <2>1, <2>2 DEF AnswersInv, links, ids
<1> QED BY <1>1, <1>8 DEF GroupsInv, ids

\* There are finitely many chunks, so one of them is merged last.
LEMMA ChunksFinite ==
  ASSUME GroupsInv
  PROVE  IsFiniteSet(Chunks) /\ Chunks \subseteq Int
<1>1. IsFiniteSet(frontier) /\ frontier \subseteq Nat
  <2>1. frontier \in SUBSET Objects
    BY DEF GroupsInv, Objects
  <2> QED BY <2>1, GroupsAssumption, FS_Subset
<1>2. \A g \in frontier : position(g) \in Nat
  <2>1. \A g \in frontier : {h \in frontier : h < g} \in SUBSET frontier
    OBVIOUS
  <2> QED BY <1>1, <2>1, FS_Subset, FS_CardinalityType DEF position
<1>3. \A g \in frontier : position(g) \div ChunkSize \in Int
  BY <1>2, GroupsAssumption
<1> DEFINE f == [g \in frontier |-> position(g) \div ChunkSize]
<1>4. f \in Surjection(frontier, Chunks)
  BY DEF Surjection, Chunks
<1>5. IsFiniteSet(Chunks)
  <2> HIDE DEF f
  <2> QED BY <1>1, <1>4, FS_Surjection
<1> QED BY <1>3, <1>5 DEF Chunks

\* Of the answers that hold a member the last one counts, and it shows the link too.
LEMMA MergedHas ==
  ASSUME GroupsInv, pc = "children", DOMAIN answers = Chunks, NEW l \in stable, l[1] \in frontier
  PROVE  \E e \in merged : e.id = l[2] /\ l[1] \in e.parents
<1> DEFINE K == {k \in DOMAIN answers : l[2] \in ids(answers[k])}
<1>1. AnswersInv /\ l = <<l[1], l[2]>> /\ l[1] \in Groups
  BY DEF GroupsInv, LinkSet
<1>2. PICK c \in DOMAIN answers : l[1] \in chunk(c)
  BY DEF Chunks, chunk
<1>3. c \in K
  BY <1>1, <1>2 DEF AnswersInv
<1>4. IsFiniteSet(K) /\ K \subseteq Int
  BY ChunksFinite, FS_Subset
<1>5. PICK k \in K : \A j \in K : j <= k
  <2> HIDE DEF K
  <2> QED BY <1>3, <1>4, Greatest
<1>6. PICK e \in answers[k] : e.id = l[2]
  BY <1>5 DEF ids
<1>7. \A j \in DOMAIN answers : j > k => l[2] \notin ids(answers[j])
  <2>1. \A j \in DOMAIN answers : j \in Int
    BY ChunksFinite
  <2> QED BY <1>4, <1>5, <2>1
<1>8. e \in merged
  BY <1>5, <1>6, <1>7 DEF merged, Range
<1>9. l[1] \in e.parents
  BY <1>1, <1>5, <1>6 DEF AnswersInv
<1> QED BY <1>6, <1>8, <1>9

\* With all its answers a level is expanded, and no stable link from it is lost.
LEMMA SaveChildrenKeeps == ASSUME GroupsInv, SaveChildren PROVE GroupsInv'
<1>1. /\ pc = "children" /\ DOMAIN answers = Chunks /\ AnswersInv /\ depth \in 1 .. MaxDepth
      /\ UNCHANGED <<parents, bare, wanted, catalog, stable, ever>>
      /\ loaded' = loaded \cup merged /\ frontier' = ids(merged) \cap Groups /\ depth' = depth + 1
      /\ pc' = IF too_deep(depth, frontier') THEN "failed" ELSE continue(frontier', depth + 1)
      /\ answers' = <<>>
  BY DEF SaveChildren, next_frontier, GroupsInv
<1>2. merged \subseteq Entry /\ links(merged) \subseteq ever
  <2>1. \A e \in merged : \E c \in DOMAIN answers : e \in answers[c]
    BY DEF merged
  <2> QED BY <1>1, <2>1 DEF AnswersInv, links
<1>3. loaded' \subseteq Entry /\ links(loaded') \subseteq ever
  BY <1>1, <1>2 DEF GroupsInv, links
<1>4. ASSUME NEW l \in stable, l[1] \in ids(loaded'), l[1] \notin frontier' PROVE l \in links(loaded')
  <2>1. l = <<l[1], l[2]>> /\ l[1] \in Groups /\ l[2] \in Objects
    BY DEF GroupsInv, LinkSet
  <2>2. l[1] \in ids(loaded)
    BY <1>1, <1>4, <2>1 DEF ids
  <2>3. CASE l[1] \notin frontier
    <3>1. l \in links(loaded)
      BY <2>2, <2>3 DEF GroupsInv
    <3> QED BY <1>1, <3>1 DEF links
  <2>4. CASE l[1] \in frontier
    <3>1. \E e \in merged : e.id = l[2] /\ l[1] \in e.parents
      BY <1>1, <2>4, MergedHas
    <3> QED BY <1>1, <2>1, <3>1 DEF links
  <2> QED BY <2>3, <2>4
<1>5. /\ pc' \in {"children", "networks", "failed"}
      /\ pc' = "children" => depth' \in 1 .. MaxDepth
      /\ pc' = "networks" => frontier' = {}
  BY <1>1, GroupsAssumption DEF too_deep, continue
<1>6. AnswersInv'
  BY <1>1 DEF AnswersInv
<1> QED BY <1>1, <1>3, <1>4, <1>5, <1>6 DEF GroupsInv, ids

\* The catalog is what was loaded.
LEMMA ConvertKeeps == ASSUME GroupsInv, Convert PROVE GroupsInv'
<1>1. /\ pc = "networks" /\ pc' = "done" /\ catalog' = {e \in loaded : e.id \notin bare}
      /\ UNCHANGED <<parents, bare, wanted, loaded, frontier, depth, answers, stable, ever>>
  BY DEF Convert
<1> QED BY <1>1 DEF GroupsInv

\* An edit takes from the stable links and adds to those that ever were.
LEMMA EditKeeps ==
  ASSUME GroupsInv, NEW o \in Objects, NEW new \in Memberships, Edit(o, new)
  PROVE  GroupsInv'
<1>1. /\ pc \notin {"done", "failed"} /\ parents' = [parents EXCEPT ![o] = new]
      /\ stable' = stable \cap links(entries(parents')) /\ ever' = ever \cup links(entries(parents'))
      /\ UNCHANGED <<bare, wanted, pc, loaded, frontier, depth, answers, catalog>>
  BY DEF Edit, loadVars
<1>2. parents' \in [Objects -> SUBSET Groups]
  BY <1>1, GroupsAssumption DEF GroupsInv
<1>3. links(entries(parents')) \subseteq LinkSet /\ links(entries(parents))' = links(entries(parents'))
  BY <1>2, LinksOfParents DEF links, entries
<1>4. stable' \subseteq stable /\ ever \subseteq ever'
  BY <1>1
<1>5. AnswersInv => AnswersInv'
  <2>1. Chunks' = Chunks /\ \A k : chunk(k)' = chunk(k)
    BY <1>1 DEF Chunks, chunk, position
  <2> QED BY <1>1, <1>4, <2>1 DEF AnswersInv, links, ids
<1> QED BY <1>1, <1>2, <1>3, <1>4, <1>5 DEF GroupsInv, links, ids

\* So every step of a load keeps the invariant.
LEMMA NextGroupsInv == GroupsInv /\ (GroupsNext \/ UNCHANGED groupVars) => GroupsInv'
<1>1. GroupsInv /\ GroupsNext => GroupsInv'
  BY LoadInitialKeeps, ReadChunkKeeps, SaveChildrenKeeps, ConvertKeeps, EditKeeps DEF GroupsNext
<1>2. GroupsInv /\ UNCHANGED groupVars => GroupsInv'
  <2> SUFFICES ASSUME GroupsInv, UNCHANGED groupVars PROVE GroupsInv'
    OBVIOUS
  <2>1. UNCHANGED <<parents, bare, wanted, pc, loaded, frontier, depth, answers, catalog, stable, ever>>
    BY DEF groupVars, loadVars
  <2>2. Chunks' = Chunks /\ \A k : chunk(k)' = chunk(k)
    BY <2>1 DEF Chunks, chunk, position
  <2>3. AnswersInv => AnswersInv'
    BY <2>1, <2>2 DEF AnswersInv, links, ids
  <2> QED BY <2>1, <2>3 DEF GroupsInv, links, ids, entries
<1> QED BY <1>1, <1>2
----------------------------------------------------------------------------
(***************************************************************************)
(* The comparison                                                          *)
(***************************************************************************)

\* What the addresses of an operand resolve to.
leaves_of(objects) == UNION {resolve_leaves(o) : o \in objects}

\* When all is loaded, a resolved operand has at least the leaves it has had all along and at
\* most those it has had at some time.
LEMMA OperandResolved ==
  ASSUME GroupsInv, pc = "done", bare = {}, NEW STATE objects, objects \in SUBSET Objects,
         \A o \in objects : Error \notin resolve_leaves(o)
  PROVE  /\ members(objects, stable) \subseteq leaves_of(objects)
         /\ leaves_of(objects) \subseteq members(objects, ever)
         /\ leaves_of(objects) = {} => objects = {}
         /\ leaves_of(objects) \subseteq Leaves
<1>1. catalog = loaded /\ frontier = {} /\ loaded \subseteq Entry /\ links(loaded) \subseteq ever
  BY DEF GroupsInv
<1>2. ids(catalog) \subseteq Objects /\ links(catalog) \subseteq ever
  BY <1>1, EntryLinks
<1>3. \A l \in stable : l[1] \in ids(catalog) => l \in links(catalog)
  BY <1>1 DEF GroupsInv
<1>4. stable \in SUBSET (Groups \X Objects) /\ ever \in SUBSET Pairs
  BY DEF GroupsInv, LinkSet, Pairs, Objects
<1>5. ASSUME NEW o \in objects
      PROVE  /\ resolve_leaves(o) # {} /\ resolve_leaves(o) \subseteq reached(o, ever) \cap Leaves
             /\ reached(o, stable) \cap Leaves \subseteq resolve_leaves(o)
  <2>1. Error \notin resolve_leaves(o) /\ o \in Objects
    OBVIOUS
  <2>2. resolve_leaves(o) # {} /\ resolve_leaves(o) \ {Error} \subseteq reached(o, ever) \cap Leaves
    BY <1>2, <1>4, <2>1, ResolvedIsBelow
  <2>3. reached(o, stable) \cap Leaves \subseteq resolve_leaves(o)
    <3>1. (reached(o, stable) \cap Leaves) \ {} \subseteq resolve_leaves(o)
      BY <1>2, <1>3, <1>4, <2>1, ResolvedIsWhole
    <3> QED BY <3>1
  <2> QED BY <2>1, <2>2, <2>3
<1> QED BY <1>5 DEF members, leaves_of

\* A rule that is not broken resolves to normalised values.
LEMMA ResolvedRule ==
  ASSUME GroupsInv, pc = "done", bare = {}, NEW STATE rule, rule \in RuleBody, ~broken(rule)
  PROVE  resolve_rule(rule) \in NormalizedRuleValues
<1>1. /\ \A o \in rule.src_addr_objects \cup rule.dst_addr_objects : Error \notin resolve_leaves(o)
      /\ rule.src_zones \cup rule.dst_zones \subseteq DOMAIN zone_label
      /\ rule.services \subseteq DOMAIN service_values
  BY DEF broken, address_ids
<1>2. rule.src_addr_objects \in SUBSET Objects /\ rule.dst_addr_objects \in SUBSET Objects
  BY DEF RuleBody
<1>3. leaves_of(rule.src_addr_objects) \subseteq Leaves /\ leaves_of(rule.dst_addr_objects) \subseteq Leaves
  BY <1>1, <1>2, OperandResolved
<1>4. /\ resolved_addresses(rule.src_addr_objects) \in SUBSET AddressValue
      /\ resolved_addresses(rule.dst_addr_objects) \in SUBSET AddressValue
  BY <1>3, ComparisonAssumption DEF resolved_addresses, leaves_of
<1>5. zone_labels(rule.src_zones) \in SUBSET Labels /\ zone_labels(rule.dst_zones) \in SUBSET Labels
  BY <1>1, ComparisonAssumption DEF zone_labels
<1>6. values_of(rule.services) \in SUBSET ServiceValue
  BY <1>1, ComparisonAssumption DEF values_of
<1>7. normalize_action(rule.action) \in {"ACCEPT", "REJECT"}
  BY DEF normalize_action
<1> QED BY <1>4, <1>5, <1>6, <1>7 DEF resolve_rule, NormalizedRuleValues

\* More values of addresses are for more packets; an empty operand stays empty.
LEMMA OperandGrows ==
  ASSUME NEW A, NEW B, NEW x, NEW empty, A \subseteq B, A = {} => B = {},
         operand_has(A, x, address_has, empty)
  PROVE  operand_has(B, x, address_has, empty)
BY DEF operand_has

\* What a planned rule has been for all along it is still for when it is resolved, ...
LEMMA PlannedResolved ==
  ASSUME GroupsInv, pc = "done", bare = {}, NEW STATE rule, rule \in RuleBody, ~broken(rule), ~hollow(rule, stable),
         NEW packet, NEW empty, admits(meant(rule, stable), packet, empty)
  PROVE  admits(resolve_rule(rule), packet, empty)
<1> DEFINE value(set) == {address_value[l] : l \in set}
<1>1. ASSUME NEW STATE objects, objects \in {rule.src_addr_objects, rule.dst_addr_objects}, NEW x,
             operand_has(value(members(objects, stable)), x, address_has, empty)
      PROVE  operand_has(resolved_addresses(objects), x, address_has, empty)
  <2>1. objects \in SUBSET Objects /\ \A o \in objects : Error \notin resolve_leaves(o)
    BY <1>1 DEF RuleBody, broken, address_ids
  <2>2. members(objects, stable) \subseteq leaves_of(objects)
    BY <2>1, OperandResolved
  <2>3. objects # {} => members(objects, stable) # {}
    BY <1>1 DEF hollow
  <2>4. objects = {} => leaves_of(objects) = {}
    BY DEF leaves_of
  <2>5. resolved_addresses(objects) = value(leaves_of(objects))
    BY DEF resolved_addresses, leaves_of
  <2>6. value(members(objects, stable)) \subseteq value(leaves_of(objects))
    BY <2>2
  <2>7. value(members(objects, stable)) = {} => value(leaves_of(objects)) = {}
    BY <2>3, <2>4
  <2> HIDE DEF value
  <2> QED BY <1>1, <2>5, <2>6, <2>7, OperandGrows
<1> DEFINE m == meant(rule, stable)
<1>2. /\ m.src_zones = zone_labels(rule.src_zones) /\ m.dst_zones = zone_labels(rule.dst_zones)
      /\ m.src_addresses = value(members(rule.src_addr_objects, stable))
      /\ m.dst_addresses = value(members(rule.dst_addr_objects, stable))
      /\ m.services = values_of(rule.services)
  BY DEF meant
<1> DEFINE r == resolve_rule(rule)
<1>3. /\ r.src_zones = zone_labels(rule.src_zones) /\ r.dst_zones = zone_labels(rule.dst_zones)
      /\ r.src_addresses = resolved_addresses(rule.src_addr_objects)
      /\ r.dst_addresses = resolved_addresses(rule.dst_addr_objects)
      /\ r.services = values_of(rule.services)
  BY DEF resolve_rule
<1>4. admits(m, packet, empty)
  OBVIOUS
<1> HIDE DEF value, m, r
<1>5. /\ operand_has(r.src_zones, packet.src_zone, same, empty)
      /\ operand_has(r.dst_zones, packet.dst_zone, same, empty)
      /\ operand_has(r.services, packet.service, service_has, empty)
  BY <1>2, <1>3, <1>4 DEF admits
<1>6. /\ operand_has(r.src_addresses, packet.src, address_has, empty)
      /\ operand_has(r.dst_addresses, packet.dst, address_has, empty)
  BY <1>1, <1>2, <1>3, <1>4 DEF admits
<1>7. admits(r, packet, empty)
  BY <1>5, <1>6 DEF admits
<1> QED BY <1>7 DEF r

\* ... and what a policy is for when it is resolved it has been for at some time.
LEMMA PolicyResolved ==
  ASSUME GroupsInv, pc = "done", bare = {}, NEW STATE rule, rule \in RuleBody, ~broken(rule),
         NEW packet, NEW empty, admits(resolve_rule(rule), packet, empty)
  PROVE  admits(meant(rule, ever), packet, empty)
<1> DEFINE value(set) == {address_value[l] : l \in set}
<1>1. ASSUME NEW STATE objects, objects \in {rule.src_addr_objects, rule.dst_addr_objects}, NEW x,
             operand_has(resolved_addresses(objects), x, address_has, empty)
      PROVE  operand_has(value(members(objects, ever)), x, address_has, empty)
  <2>1. objects \in SUBSET Objects /\ \A o \in objects : Error \notin resolve_leaves(o)
    BY <1>1 DEF RuleBody, broken, address_ids
  <2>2. leaves_of(objects) \subseteq members(objects, ever) /\ (leaves_of(objects) = {} => objects = {})
    BY <2>1, OperandResolved
  <2>3. objects = {} => members(objects, ever) = {}
    BY DEF members
  <2>5. resolved_addresses(objects) = value(leaves_of(objects))
    BY DEF resolved_addresses, leaves_of
  <2>6. value(leaves_of(objects)) \subseteq value(members(objects, ever))
    BY <2>2
  <2>7. value(leaves_of(objects)) = {} => value(members(objects, ever)) = {}
    BY <2>2, <2>3
  <2> HIDE DEF value
  <2> QED BY <1>1, <2>5, <2>6, <2>7, OperandGrows
<1> DEFINE m == meant(rule, ever)
<1>2. /\ m.src_zones = zone_labels(rule.src_zones) /\ m.dst_zones = zone_labels(rule.dst_zones)
      /\ m.src_addresses = value(members(rule.src_addr_objects, ever))
      /\ m.dst_addresses = value(members(rule.dst_addr_objects, ever))
      /\ m.services = values_of(rule.services)
  BY DEF meant
<1> DEFINE r == resolve_rule(rule)
<1>3. /\ r.src_zones = zone_labels(rule.src_zones) /\ r.dst_zones = zone_labels(rule.dst_zones)
      /\ r.src_addresses = resolved_addresses(rule.src_addr_objects)
      /\ r.dst_addresses = resolved_addresses(rule.dst_addr_objects)
      /\ r.services = values_of(rule.services)
  BY DEF resolve_rule
<1>4. admits(r, packet, empty)
  OBVIOUS
<1> HIDE DEF value, m, r
<1>5. /\ operand_has(m.src_zones, packet.src_zone, same, empty)
      /\ operand_has(m.dst_zones, packet.dst_zone, same, empty)
      /\ operand_has(m.services, packet.service, service_has, empty)
  BY <1>2, <1>3, <1>4 DEF admits
<1>6. /\ operand_has(m.src_addresses, packet.src, address_has, empty)
      /\ operand_has(m.dst_addresses, packet.dst, address_has, empty)
  BY <1>1, <1>2, <1>3, <1>4 DEF admits
<1>7. admits(m, packet, empty)
  BY <1>5, <1>6 DEF admits
<1> QED BY <1>7 DEF m

\* The comparison itself.
LEMMA ComparedSound ==
  ASSUME GroupsInv, pc = "done", bare = {}, planned \in RuleBody, policies \in Seq(RuleBody),
         ~hollow(planned, stable),
         NEW STATE verdict,
         verdict \in compare_rule(resolve_rule(planned), [i \in DOMAIN policies |-> resolve_rule(policies[i])]),
         verdict.match_status \in {"EXACT_MATCH", "COVERED_MATCH"}
  PROVE  /\ passes(policies[verdict.matched].action) = passes(planned.action)
         /\ \A empty \in BOOLEAN : packets(planned, stable, empty) \subseteq packets(policies[verdict.matched], ever, empty)
<1> DEFINE existing == [i \in DOMAIN policies |-> resolve_rule(policies[i])]
           policy == policies[verdict.matched]
<1>1. /\ resolve_rule(planned) # Broken /\ verdict.matched \in DOMAIN policies /\ resolve_rule(policy) # Broken
      /\ resolve_rule(policy) = resolve_rule(planned) \/ is_covered(resolve_rule(policy), resolve_rule(planned))
  <2>1. DOMAIN existing = DOMAIN policies /\ \A i \in DOMAIN policies : existing[i] = resolve_rule(policies[i])
    OBVIOUS
  <2>2. verdict \in compare_rule(resolve_rule(planned), existing)
    OBVIOUS
  <2> HIDE DEF existing
  <2>3. /\ resolve_rule(planned) # Broken
        /\ verdict.matched \in DOMAIN existing /\ existing[verdict.matched] # Broken
        /\ \/ existing[verdict.matched] = resolve_rule(planned)
           \/ is_covered(existing[verdict.matched], resolve_rule(planned))
    BY <2>2, ComparedTo
  <2> QED BY <2>1, <2>3
<1>2. policy \in RuleBody
  BY <1>1
<1> HIDE DEF policy, existing
<1>3. ~broken(planned) /\ ~broken(policy)
  BY <1>1 DEF resolve_rule
<1>4. resolve_rule(planned) \in NormalizedRuleValues /\ resolve_rule(policy) \in NormalizedRuleValues
  BY <1>2, <1>3, ResolvedRule
<1>5. resolve_rule(policy).action = resolve_rule(planned).action
  BY <1>1 DEF is_covered
<1>6. passes(policy.action) = passes(planned.action)
  <2>1. /\ resolve_rule(planned).action = normalize_action(planned.action)
        /\ resolve_rule(policy).action = normalize_action(policy.action)
    BY <1>3 DEF resolve_rule
  <2>2. planned.action \in Actions /\ policy.action \in Actions
    BY <1>2 DEF RuleBody
  <2>3. CASE planned.action = "ACCEPT"
    BY <1>5, <2>1, <2>2, <2>3 DEF normalize_action, passes, Actions
  <2>4. CASE planned.action # "ACCEPT"
    BY <1>5, <2>1, <2>2, <2>4 DEF normalize_action, passes, Actions
  <2> QED BY <2>3, <2>4
<1>7. ASSUME NEW empty \in BOOLEAN, NEW packet \in packets(planned, stable, empty)
      PROVE  packet \in packets(policy, ever, empty)
  <2>1. packet \in Packets /\ packet \in Packet /\ admits(meant(planned, stable), packet, empty)
    BY ComparisonAssumption DEF packets
  <2>2. admits(resolve_rule(planned), packet, empty)
    BY <1>3, <2>1, PlannedResolved
  <2>3. admits(resolve_rule(policy), packet, empty)
    <3>1. CASE resolve_rule(policy) = resolve_rule(planned)
      BY <2>2, <3>1
    <3>2. CASE is_covered(resolve_rule(policy), resolve_rule(planned))
      BY <1>4, <2>1, <2>2, <3>2, CoveredAdmits
    <3> QED BY <1>1, <3>1, <3>2
  <2>4. admits(meant(policy, ever), packet, empty)
    BY <1>2, <1>3, <2>3, PolicyResolved
  <2> QED BY <2>1, <2>4 DEF packets
<1> QED BY <1>6, <1>7 DEF policy

\* Until all is loaded nothing is compared; afterwards nothing changes any more.
CompareInv ==
  /\ GroupsInv
  /\ planned \in RuleBody /\ policies \in Seq(RuleBody)
  /\ pc # "done" => result = NoResult
  /\ CoverageSound

\* At the start nothing is compared.
LEMMA InitCompareInv == Init => CompareInv
<1> SUFFICES ASSUME Init PROVE CompareInv
  OBVIOUS
<1>1. planned \in RuleBody /\ policies \in Seq(RuleBody) /\ result = NoResult
  BY ComparisonAssumption DEF Init
<1>2. GroupsInv
  BY InitGroupsInv DEF Init
<1>3. CoverageSound
  BY <1>1 DEF CoverageSound, NoResult, RuleCompareResult
<1> QED BY <1>1, <1>2, <1>3 DEF CompareInv

\* A load that is done does not go on.
LEMMA DoneIsDone == ASSUME GroupsNext PROVE pc # "done"
BY DEF GroupsNext, LoadInitial, ReadChunk, SaveChildren, Convert, Edit

\* A step of the comparison leaves the load alone.
LEMMA LoadSteps == [Next]_vars => (GroupsNext \/ UNCHANGED groupVars)
BY DEF Next, Load, Compare, vars

\* Loading and comparing keep it.
LEMMA NextCompareInv == CompareInv /\ [Next]_vars => CompareInv'
<1> SUFFICES ASSUME CompareInv, [Next]_vars PROVE CompareInv'
  OBVIOUS
<1>1. CASE Load
  <2>1. GroupsNext /\ UNCHANGED <<planned, policies, result>>
    BY <1>1 DEF Load
  <2>2. GroupsInv'
    BY <2>1, NextGroupsInv DEF CompareInv
  <2>3. result' = NoResult
    BY <2>1, DoneIsDone DEF CompareInv
  <2>4. CoverageSound'
    BY <2>3 DEF CoverageSound, NoResult, RuleCompareResult
  <2> QED BY <2>1, <2>2, <2>3, <2>4 DEF CompareInv, NoResult
<1>2. CASE Compare
  <2>1. /\ pc = "done" /\ UNCHANGED <<groupVars, planned, policies>>
        /\ result' \in compare_rule(resolve_rule(planned), [i \in DOMAIN policies |-> resolve_rule(policies[i])])
    BY <1>2 DEF Compare
  <2>2. GroupsInv'
    BY <2>1, NextGroupsInv DEF CompareInv
  <2>3. UNCHANGED <<pc, bare, stable, ever>>
    BY <2>1 DEF groupVars
  <2>4. ASSUME bare = {}, ~hollow(planned, stable), NEW verdict,
               verdict \in compare_rule(resolve_rule(planned), [i \in DOMAIN policies |-> resolve_rule(policies[i])]),
               verdict.match_status \in {"EXACT_MATCH", "COVERED_MATCH"}
        PROVE  /\ passes(policies[verdict.matched].action) = passes(planned.action)
               /\ \A empty \in BOOLEAN :
                     packets(planned, stable, empty) \subseteq packets(policies[verdict.matched], ever, empty)
    BY <2>1, <2>4, ComparedSound DEF CompareInv
  <2>5. CoverageSound'
    BY <2>1, <2>3, <2>4 DEF CoverageSound
  <2> QED BY <2>1, <2>2, <2>3, <2>5 DEF CompareInv
<1>3. CASE UNCHANGED vars
  <2>1. UNCHANGED <<groupVars, planned, policies, result>> /\ UNCHANGED <<pc, bare, stable, ever>>
    BY <1>3 DEF vars, groupVars
  <2>2. GroupsInv'
    BY <2>1, NextGroupsInv DEF CompareInv
  <2>3. CoverageSound'
    BY <2>1 DEF CompareInv, CoverageSound
  <2> QED BY <2>1, <2>2, <2>3 DEF CompareInv, NoResult
<1> QED BY <1>1, <1>2, <1>3 DEF Next

\* Whatever is edited while groups are loaded, a rule is reported as matched or covered only
\* when the policy it is reported with does the same to the packets it has been for all along.
THEOREM CoverageSoundHolds == Spec => []CoverageSound
<1>1. CompareInv => CoverageSound
  BY DEF CompareInv
<1> QED BY <1>1, InitCompareInv, NextCompareInv, PTL DEF Spec

----------------------------------------------------------------------------
(***************************************************************************)
(* Loads that nobody disturbs                                              *)
(***************************************************************************)

\* The groups that hold a member of a set of groups.
holders(ls) == [set \in SUBSET Groups |-> {h \in Groups : \E l \in ls : l[1] = h /\ l[2] \in set}]

\* The recursion of chain is an iteration.
LEMMA ChainIterates ==
  ASSUME NEW ls, NEW n \in Nat, NEW f \in [0 .. n -> SUBSET Groups], iterates(f, Groups, holders(ls), n)
  PROVE  \A g : chain(g, ls, n + 1) <=> g \in f[n]
<1> DEFINE body(d) == [k \in 1 .. n + 1 |->
                 IF k = 1 THEN Groups
                 ELSE {h \in Groups : \E l \in ls : l[1] = h /\ l[2] \in d[k - 1]}]
           deep == CHOOSE d : d = body(d)
           e == [k \in 1 .. n + 1 |-> f[k - 1]]
<1>1. \A g : chain(g, ls, n + 1) <=> g \in deep[n + 1]
  BY DEF chain
<1>2. f[0] = Groups
  BY DEF iterates
<1>3. \A k \in 1 .. n : f[k] = {h \in Groups : \E l \in ls : l[1] = h /\ l[2] \in f[k - 1]}
  <2>1. ASSUME NEW k \in 1 .. n
        PROVE  f[k] = {h \in Groups : \E l \in ls : l[1] = h /\ l[2] \in f[k - 1]}
    <3>1. f[k] = holders(ls)[f[k - 1]] /\ f[k - 1] \in SUBSET Groups
      BY DEF iterates
    <3> QED BY <3>1 DEF holders
  <2> QED BY <2>1
<1>4. e = body(e)
  <2>1. ASSUME NEW k \in 1 .. n + 1 PROVE e[k] = body(e)[k]
    <3>1. CASE k = 1
      BY <1>2, <3>1
    <3>2. CASE k # 1
      <4>1. k - 1 \in 1 .. n /\ k - 1 \in 1 .. n + 1
        BY <3>2
      <4> QED BY <1>3, <3>2, <4>1
    <3> QED BY <3>1, <3>2
  <2> QED BY <2>1
<1>5. deep = body(deep)
  <2> HIDE DEF body
  <2> QED BY <1>4
<1>6. 0 .. n \subseteq {m \in 0 .. n : deep[m + 1] = f[m]}
  <2> DEFINE D == {m \in 0 .. n : deep[m + 1] = f[m]}
  <2>1. deep[1] = Groups
    <3>1. 1 \in 1 .. n + 1
      OBVIOUS
    <3> HIDE DEF deep
    <3> QED BY <1>5, <3>1
  <2>2. 0 \in D
    BY <1>2, <2>1
  <2>3. ASSUME NEW m \in 0 .. n - 1, m \in D PROVE m + 1 \in D
    <3>1. m + 2 \in 1 .. n + 1 /\ m + 2 # 1 /\ m + 1 \in 1 .. n /\ (m + 2) - 1 = m + 1 /\ (m + 1) - 1 = m
          /\ (m + 1) + 1 = m + 2
      OBVIOUS
    <3>2. deep[m + 2] = {h \in Groups : \E l \in ls : l[1] = h /\ l[2] \in deep[m + 1]}
      <4>1. deep[m + 2] = body(deep)[m + 2] /\ deep[(m + 2) - 1] = deep[m + 1]
        <5> HIDE DEF deep, body
        <5> QED BY <1>5, <3>1
      <4>2. body(deep)[m + 2] = {h \in Groups : \E l \in ls : l[1] = h /\ l[2] \in deep[(m + 2) - 1]}
        <5> HIDE DEF deep
        <5> QED BY <3>1
      <4> HIDE DEF deep, body
      <4> QED BY <4>1, <4>2
    <3>3. deep[m + 1] = f[m]
      BY <2>3
    <3>4. deep[(m + 1) + 1] = f[m + 1]
      <4> HIDE DEF deep
      <4> QED BY <1>3, <3>1, <3>2, <3>3
    <3> HIDE DEF deep
    <3> QED BY <3>1, <3>4
  <2> HIDE DEF D
  <2> QED BY <2>2, <2>3, SetInduction DEF D
<1>7. deep[n + 1] = f[n]
  <2> HIDE DEF deep
  <2> QED BY <1>6
<1> QED BY <1>1, <1>7

\* A chain of one group more hangs below the groups that hold the first of a chain.
LEMMA ChainSteps ==
  ASSUME NEW ls, NEW n \in Nat \ {0}
  PROVE  /\ \A g : chain(g, ls, 1) <=> g \in Groups
         /\ \A g : chain(g, ls, n + 1) <=> (g \in Groups /\ \E l \in ls : l[1] = g /\ chain(l[2], ls, n))
<1>1. holders(ls) \in [SUBSET Groups -> SUBSET Groups]
  BY DEF holders
<1>2. PICK f \in [0 .. n -> SUBSET Groups] : iterates(f, Groups, holders(ls), n)
  <2> DEFINE S == SUBSET Groups
  <2>1. Groups \in S
    OBVIOUS
  <2> HIDE DEF S
  <2>2. holders(ls) \in [S -> S]
    BY <1>1 DEF S
  <2>3. \E f \in [0 .. n -> S] : iterates(f, Groups, holders(ls), n)
    BY <2>1, <2>2, Iterate
  <2> QED BY <2>3 DEF S
<1>3. \A g : chain(g, ls, n + 1) <=> g \in f[n]
  BY <1>2, ChainIterates
<1>4. \A g : chain(g, ls, n) <=> g \in f[n - 1]
  <2> DEFINE e == [k \in 0 .. n - 1 |-> f[k]]
  <2>1. e \in [0 .. n - 1 -> SUBSET Groups] /\ n - 1 \in Nat /\ (n - 1) + 1 = n /\ e[n - 1] = f[n - 1]
    OBVIOUS
  <2>2. iterates(e, Groups, holders(ls), n - 1)
    BY <1>2 DEF iterates
  <2> HIDE DEF e
  <2>3. \A g : chain(g, ls, (n - 1) + 1) <=> g \in e[n - 1]
    BY <2>1, <2>2, ChainIterates
  <2> QED BY <2>1, <2>3
<1>5. f[n] = {h \in Groups : \E l \in ls : l[1] = h /\ l[2] \in f[n - 1]}
  <2>1. f[n] = holders(ls)[f[n - 1]] /\ f[n - 1] \in SUBSET Groups
    BY <1>2 DEF iterates
  <2> QED BY <2>1 DEF holders
<1>6. \A g : chain(g, ls, 1) <=> g \in Groups
  <2> DEFINE e == [k \in 0 .. 0 |-> Groups]
  <2>1. e \in [0 .. 0 -> SUBSET Groups] /\ e[0] = Groups /\ 0 \in Nat /\ 0 + 1 = 1
    OBVIOUS
  <2>2. iterates(e, Groups, holders(ls), 0)
    BY DEF iterates
  <2> HIDE DEF e
  <2>3. \A g : chain(g, ls, 0 + 1) <=> g \in e[0]
    BY <2>1, <2>2, ChainIterates
  <2> QED BY <2>1, <2>3
<1> QED BY <1>3, <1>4, <1>5, <1>6

\* Chains begin with groups.
LEMMA ChainsOfGroups ==
  ASSUME NEW ls, NEW n \in Nat \ {0}, NEW g, chain(g, ls, n)
  PROVE  g \in Groups
<1>1. CASE n = 1
  BY <1>1, ChainSteps
<1>2. CASE n # 1
  <2>1. n - 1 \in Nat \ {0} /\ (n - 1) + 1 = n
    BY <1>2
  <2> QED BY <2>1, ChainSteps
<1> QED BY <1>1, <1>2

\* A chain of n groups hangs below one of the objects.
chained(objects, n) == \E g \in objects : chain(g, current, n)

\* In a load that nobody has disturbed the answers show what there is, and the groups that are
\* expanded next are as many levels below the wanted ones as the depth says.
CalmAnswers ==
  \A c \in DOMAIN answers : \A e \in answers[c] : e \in entries(parents) /\ e.parents \cap chunk(c) # {}

\* Then the load is refused exactly when a chain is too long.
CalmInv ==
  /\ edits \in Nat
  /\ edits = 0 =>
       /\ stable = current /\ ever = current
       /\ loaded \subseteq entries(parents)
       /\ pc # "initial" => wanted \subseteq ids(loaded)
       /\ pc = "children" =>
            /\ CalmAnswers
            /\ \A n \in Nat \ {0} : chained(wanted, (depth - 1) + n) <=> chained(frontier, n)
       /\ pc \in {"networks", "done"} => ~chained(wanted, MaxDepth + 1)
       /\ pc = "failed" => chained(wanted, MaxDepth + 1)

\* At the start the first level is still to come, or nothing is wanted.
LEMMA InitCalmInv == GroupsInit => CalmInv
<1> SUFFICES ASSUME GroupsInit PROVE CalmInv
  OBVIOUS
<1>1. /\ edits = 0 /\ stable = current /\ ever = current /\ loaded = {}
      /\ pc \in {"initial", "done"} /\ (pc = "done" => wanted = {})
  BY DEF GroupsInit, current
<1> QED BY <1>1 DEF CalmInv, chained

\* The first level are the wanted groups.
LEMMA LoadInitialCalm == ASSUME GroupsInv, CalmInv, LoadInitial PROVE CalmInv'
<1>1. /\ loaded' = {entry(o) : o \in wanted} /\ frontier' = wanted \cap Groups /\ depth' = 1
      /\ pc' = continue(frontier', 1) /\ answers = <<>>
      /\ UNCHANGED <<parents, wanted, answers, stable, ever, edits>>
  BY DEF LoadInitial, GroupsInv
<1>2. current' = current
  BY <1>1 DEF current, links, entries
<1>3. loaded' \subseteq entries(parents) /\ wanted \subseteq ids(loaded')
  <2>1. \A o \in wanted : entry(o) \in loaded' /\ entry(o).id = o
    BY <1>1 DEF entry
  <2>2. loaded' \subseteq entries(parents)
    BY <1>1 DEF entry, entries, GroupsInv
  <2> QED BY <2>1, <2>2 DEF ids
<1>4. \A n \in Nat \ {0} : chained(wanted, n) <=> chained(frontier', n)
  BY <1>1, ChainsOfGroups DEF chained
<1>6. \A n \in Nat \ {0} : (depth' - 1) + n = n
  BY <1>1
<1>7. pc' \in {"children", "networks"} /\ (pc' = "networks" => frontier' = {})
  BY <1>1, GroupsAssumption DEF continue
<1>8. pc' = "networks" => ~chained(wanted, MaxDepth + 1)
  <2>1. MaxDepth + 1 \in Nat \ {0}
    BY GroupsAssumption
  <2>2. ~chained({}, MaxDepth + 1)
    BY DEF chained
  <2> QED BY <1>4, <1>7, <2>1, <2>2
<1>9. CalmAnswers'
  BY <1>1 DEF CalmAnswers
<1>10. (\A n \in Nat \ {0} : chained(wanted, (depth - 1) + n) <=> chained(frontier, n))'
  <2>1. \A n \in Nat \ {0} : (\E g \in wanted : chain(g, current, n)) <=> \E g \in frontier' : chain(g, current, n)
    BY <1>4 DEF chained
  <2>2. \A n \in Nat \ {0} : (\E g \in wanted' : chain(g, current', (depth' - 1) + n))
                                 <=> \E g \in frontier' : chain(g, current', n)
    BY <1>1, <1>2, <1>6, <2>1
  <2> QED BY <2>2 DEF chained
<1>11. chained(wanted, MaxDepth + 1)' <=> chained(wanted, MaxDepth + 1)
  BY <1>1, <1>2 DEF chained
<1>12. UNCHANGED <<edits, stable, ever, current>> /\ loaded' \subseteq entries(parents)' /\ wanted' \subseteq ids(loaded)'
  BY <1>1, <1>2, <1>3 DEF entries, ids
<1>13. edits' = 0 => (stable' = current' /\ ever' = current')
  BY <1>12 DEF CalmInv
<1>14. edits' \in Nat
  BY <1>12 DEF CalmInv
<1> QED BY <1>7, <1>8, <1>9, <1>10, <1>11, <1>12, <1>13, <1>14 DEF CalmInv

\* An answer shows what there is.
LEMMA ReadChunkCalm ==
  ASSUME GroupsInv, CalmInv, NEW c \in Chunks, ReadChunk(c)
  PROVE  CalmInv'
<1> DEFINE answer == {entry(o) : o \in {p \in Objects : parents[p] \cap chunk(c) # {}}}
<1>1. /\ pc = "children" /\ UNCHANGED <<parents, wanted, pc, loaded, frontier, depth, stable, ever, edits>>
      /\ answers' = [k \in DOMAIN answers \cup {c} |-> IF k = c THEN answer ELSE answers[k]]
  BY DEF ReadChunk
<1>2. current' = current /\ \A k : chunk(k)' = chunk(k)
  BY <1>1 DEF current, links, entries, chunk, position
<1>3. \A e \in answer : e \in entries(parents) /\ e.parents \cap chunk(c) # {}
  BY DEF entry, entries
<1>4. ASSUME CalmAnswers PROVE CalmAnswers'
  <2> HIDE DEF answer
  <2>1. ASSUME NEW k \in DOMAIN answers', NEW e \in answers'[k]
        PROVE  e \in entries(parents) /\ e.parents \cap chunk(k) # {}
    <3>1. CASE k = c
      BY <1>1, <1>3, <2>1, <3>1
    <3>2. CASE k # c
      BY <1>1, <1>4, <2>1, <3>2 DEF CalmAnswers
    <3> QED BY <3>1, <3>2
  <2> QED BY <1>1, <1>2, <2>1 DEF CalmAnswers, entries
<1>5. \A n : /\ chained(wanted, n)' <=> chained(wanted, n)
             /\ chained(frontier, n)' <=> chained(frontier, n)
             /\ chained(wanted, (depth - 1) + n)' <=> chained(wanted, (depth - 1) + n)
  BY <1>1, <1>2 DEF chained
<1>6. entries(parents)' = entries(parents) /\ ids(loaded)' = ids(loaded)
  BY <1>1 DEF entries, ids
<1> QED BY <1>1, <1>2, <1>4, <1>5, <1>6 DEF CalmInv

\* The next level is one group further from the wanted ones.
LEMMA SaveChildrenCalm == ASSUME GroupsInv, CalmInv, SaveChildren PROVE CalmInv'
<1>1. /\ pc = "children" /\ DOMAIN answers = Chunks
      /\ UNCHANGED <<parents, wanted, stable, ever, edits>>
      /\ loaded' = loaded \cup merged /\ frontier' = ids(merged) \cap Groups /\ depth' = depth + 1
      /\ pc' = IF too_deep(depth, frontier') THEN "failed" ELSE continue(frontier', depth + 1)
      /\ answers' = <<>>
  BY DEF SaveChildren, next_frontier
<1>2. current' = current /\ entries(parents)' = entries(parents)
  BY <1>1 DEF current, links, entries
<1> SUFFICES ASSUME edits = 0 PROVE CalmInv'
  BY <1>1 DEF CalmInv
<1>3. /\ stable = current /\ ever = current /\ CalmAnswers /\ loaded \subseteq entries(parents) /\ wanted \subseteq ids(loaded)
      /\ \A n \in Nat \ {0} : chained(wanted, (depth - 1) + n) <=> chained(frontier, n)
  BY <1>1 DEF CalmInv
<1>4. depth \in 1 .. MaxDepth /\ MaxDepth \in Nat /\ GroupsInv'
  BY <1>1, GroupsAssumption, SaveChildrenKeeps DEF GroupsInv
<1>5. loaded' \subseteq entries(parents) /\ wanted \subseteq ids(loaded')
  <2>1. merged \subseteq entries(parents)
    <3>1. \A e \in merged : \E c \in DOMAIN answers : e \in answers[c]
      BY DEF merged
    <3> QED BY <1>3, <3>1 DEF CalmAnswers
  <2> QED BY <1>1, <1>3, <2>1 DEF ids
<1>6. \A l \in current : l[1] \in frontier => l[2] \in ids(merged)
  <2>1. ASSUME NEW l \in stable, l[1] \in frontier PROVE l[2] \in ids(merged)
    <3>1. \E e \in merged : e.id = l[2] /\ l[1] \in e.parents
      BY <1>1, <2>1, MergedHas
    <3> QED BY <3>1 DEF ids
  <2> QED BY <1>3, <2>1
<1>7. ASSUME NEW o \in ids(merged) PROVE \E g \in frontier : <<g, o>> \in current
  <2>1. PICK e \in merged : e.id = o
    BY <1>7 DEF ids
  <2>2. PICK c \in DOMAIN answers : e \in answers[c]
    BY <2>1 DEF merged
  <2>3. PICK g \in e.parents : g \in chunk(c)
    BY <1>3, <2>2 DEF CalmAnswers
  <2>4. e \in entries(parents)
    BY <1>3, <2>2 DEF CalmAnswers
  <2> QED BY <2>1, <2>3, <2>4 DEF current, links, chunk
<1>8. ASSUME NEW n \in Nat \ {0} PROVE chained(frontier, n + 1) <=> chained(frontier', n)
  <2>1. \A g : chain(g, current, n + 1) <=> (g \in Groups /\ \E l \in current : l[1] = g /\ chain(l[2], current, n))
    BY ChainSteps
  <2>2. ASSUME NEW g \in frontier, chain(g, current, n + 1) PROVE \E h \in frontier' : chain(h, current, n)
    <3>1. PICK l \in current : l[1] = g /\ chain(l[2], current, n)
      BY <2>1, <2>2
    <3>2. l[2] \in ids(merged) /\ l[2] \in Groups
      BY <1>6, <2>2, <3>1, ChainsOfGroups
    <3> QED BY <1>1, <3>1, <3>2
  <2>3. ASSUME NEW h \in frontier', chain(h, current, n) PROVE \E g \in frontier : chain(g, current, n + 1)
    <3>1. h \in ids(merged)
      BY <1>1, <2>3
    <3>2. PICK g \in frontier : <<g, h>> \in current
      BY <1>7, <3>1
    <3>3. g \in Groups
      BY DEF GroupsInv
    <3>4. \E l \in current : l[1] = g /\ chain(l[2], current, n)
      BY <2>3, <3>2
    <3> QED BY <2>1, <3>2, <3>3, <3>4
  <2> QED BY <2>2, <2>3 DEF chained
<1>9. ASSUME NEW n \in Nat \ {0} PROVE chained(wanted, depth + n) <=> chained(frontier', n)
  <2>1. n + 1 \in Nat \ {0} /\ (depth - 1) + (n + 1) = depth + n
    BY <1>4
  <2> QED BY <1>3, <1>8, <2>1
<1>10. pc' = "failed" => chained(wanted, MaxDepth + 1)
  <2>1. pc' = "failed" => depth = MaxDepth /\ frontier' # {} /\ frontier' \subseteq Groups
    BY <1>1 DEF too_deep, continue
  <2>2. frontier' # {} /\ frontier' \subseteq Groups => chained(frontier', 1)
    <3>1. \A g : chain(g, current, 1) <=> g \in Groups
      BY ChainSteps
    <3> QED BY <3>1 DEF chained
  <2> QED BY <1>9, <2>1, <2>2
<1>11. pc' = "networks" => ~chained(wanted, MaxDepth + 1)
  <2>1. pc' = "networks" => frontier' = {}
    BY <1>4 DEF GroupsInv
  <2>2. (MaxDepth + 1) - depth \in Nat \ {0} /\ depth + ((MaxDepth + 1) - depth) = MaxDepth + 1
    BY <1>4
  <2>3. ~chained({}, (MaxDepth + 1) - depth)
    BY DEF chained
  <2> QED BY <1>9, <2>1, <2>2, <2>3
<1>12. pc' \in {"children", "networks", "failed"}
  BY <1>1 DEF continue
<1>13. CalmAnswers'
  BY <1>1 DEF CalmAnswers
<1>14. (\A n \in Nat \ {0} : chained(wanted, (depth - 1) + n) <=> chained(frontier, n))'
  <2>1. depth' - 1 = depth
    BY <1>1, <1>4
  <2>2. \A n \in Nat \ {0} : (\E g \in wanted : chain(g, current, depth + n)) <=> \E g \in frontier' : chain(g, current, n)
    BY <1>9 DEF chained
  <2>3. \A n \in Nat \ {0} : (\E g \in wanted' : chain(g, current', (depth' - 1) + n))
                                 <=> \E g \in frontier' : chain(g, current', n)
    BY <1>1, <1>2, <2>1, <2>2
  <2> QED BY <2>3 DEF chained
<1>15. chained(wanted, MaxDepth + 1)' <=> chained(wanted, MaxDepth + 1)
  BY <1>1, <1>2 DEF chained
<1>16. edits' = 0 /\ stable' = current' /\ ever' = current' /\ loaded' \subseteq entries(parents)' /\ wanted' \subseteq ids(loaded)'
  BY <1>1, <1>2, <1>3, <1>5 DEF ids
<1> QED BY <1>10, <1>11, <1>12, <1>13, <1>14, <1>15, <1>16 DEF CalmInv

\* Converting leaves what was loaded alone.
LEMMA ConvertCalm == ASSUME GroupsInv, CalmInv, Convert PROVE CalmInv'
<1>1. /\ pc = "networks" /\ pc' = "done" /\ UNCHANGED <<parents, wanted, loaded, stable, ever, edits>>
  BY DEF Convert
<1>2. UNCHANGED current /\ entries(parents)' = entries(parents) /\ ids(loaded)' = ids(loaded)
  BY <1>1 DEF current, links, entries, ids
<1>3. chained(wanted, MaxDepth + 1)' <=> chained(wanted, MaxDepth + 1)
  BY <1>1, <1>2 DEF chained
<1> QED BY <1>1, <1>2, <1>3 DEF CalmInv

\* A load is not calm after an edit.
LEMMA EditCalm ==
  ASSUME GroupsInv, CalmInv, NEW o \in Objects, NEW new \in Memberships, Edit(o, new)
  PROVE  CalmInv'
<1>1. edits' = edits + 1 /\ edits \in Nat
  BY DEF Edit, CalmInv
<1> QED BY <1>1 DEF CalmInv

\* So every step of a load keeps the invariant.
LEMMA NextCalmInv == GroupsInv /\ CalmInv /\ (GroupsNext \/ UNCHANGED groupVars) => CalmInv'
<1>1. GroupsInv /\ CalmInv /\ GroupsNext => CalmInv'
  BY LoadInitialCalm, ReadChunkCalm, SaveChildrenCalm, ConvertCalm, EditCalm DEF GroupsNext
<1>2. ASSUME GroupsInv, CalmInv, UNCHANGED groupVars PROVE CalmInv'
  <2>1. UNCHANGED <<parents, bare, wanted, pc, loaded, frontier, depth, answers, stable, ever, edits>>
    BY <1>2 DEF groupVars, loadVars
  <2>2. UNCHANGED current /\ entries(parents)' = entries(parents) /\ ids(loaded)' = ids(loaded)
    BY <2>1 DEF current, links, entries, ids
  <2>3. \A k : chunk(k)' = chunk(k)
    BY <2>1 DEF chunk, position
  <2>4. CalmAnswers => CalmAnswers'
    BY <2>1, <2>2, <2>3 DEF CalmAnswers
  <2>5. \A n : /\ chained(wanted, n)' <=> chained(wanted, n)
               /\ chained(frontier, n)' <=> chained(frontier, n)
               /\ chained(wanted, (depth - 1) + n)' <=> chained(wanted, (depth - 1) + n)
    BY <2>1, <2>2 DEF chained
  <2> QED BY <1>2, <2>1, <2>2, <2>4, <2>5 DEF CalmInv
<1> QED BY <1>1, <1>2

\* An undisturbed load is refused exactly when groups are nested too deep.
LEMMA CalmRefused == CalmInv => RefusedIffTooDeep
<1> SUFFICES ASSUME CalmInv, edits = 0, pc \in {"done", "failed"}
             PROVE  pc = "failed" <=> \E g \in wanted \cap Groups : chain(g, current, MaxDepth + 1)
  BY DEF RefusedIffTooDeep
<1>1. pc = "failed" <=> chained(wanted, MaxDepth + 1)
  BY DEF CalmInv
<1>2. MaxDepth + 1 \in Nat \ {0}
  BY GroupsAssumption
<1> QED BY <1>1, <1>2, ChainsOfGroups DEF chained

\* An object below which no chain is longer than the levels that are left is resolved, where
\* each group has a member: by induction on the levels.
LEMMA ShortResolved ==
  ASSUME ids(catalog) \subseteq Objects, NEW STATE ls, ls \in SUBSET (Groups \X Objects), links(catalog) \subseteq ls,
         NEW W, W \subseteq ids(catalog), \A g \in W : children(g) \subseteq W,
         \A g \in W \cap Groups : children(g) # {},
         NEW o \in W, ~chain(o, ls, MaxDepth + 1)
  PROVE  Error \notin resolve_leaves(o)
<1> DEFINE fine(left, c) == Error \notin resolve_below[left][c] /\ resolve_below[left][c] # {}
           good(left) == \A c \in W : ~chain(c, ls, left + 1) => fine(left, c)
           D == {n \in 0 .. MaxDepth : good(n)}
<1>1. MaxDepth \in Nat /\ Error \notin Objects /\ Objects = Groups \cup Leaves
  BY GroupsAssumption DEF Objects
<1>6. \A g : chain(g, ls, 1) <=> g \in Groups
  <2>1. 1 \in Nat \ {0}
    OBVIOUS
  <2> QED BY <2>1, ChainSteps
<1>2. 0 \in D
  <2>1. ASSUME NEW c \in W, ~chain(c, ls, 0 + 1) PROVE fine(0, c)
    <3>1. c \in Leaves /\ c \in ids(catalog) /\ c \in Objects
      <4>1. 0 + 1 = 1 /\ c \in ids(catalog)
        OBVIOUS
      <4> QED BY <1>1, <1>6, <2>1, <4>1
    <3>2. resolve_below[0][c] = resolve_level(0, c, <<>>)
      BY <3>1, ResolveSteps
    <3> QED BY <1>1, <3>1, <3>2 DEF resolve_level
  <2> QED BY <1>1, <2>1
<1>3. ASSUME NEW n \in 0 .. MaxDepth - 1, n \in D PROVE n + 1 \in D
  <2>1. n + 1 \in 1 .. MaxDepth /\ n + 1 \in 0 .. MaxDepth /\ (n + 1) - 1 = n /\ n + 1 \in Nat \ {0} /\ n + 1 # 0
    BY <1>1
  <2>2. ASSUME NEW c \in W, ~chain(c, ls, (n + 1) + 1) PROVE fine(n + 1, c)
    <3>1. resolve_below[n + 1][c] = resolve_level(n + 1, c, resolve_below[n])
      BY <2>1, ResolveSteps
    <3>2. c \in ids(catalog) /\ c \in Objects
      OBVIOUS
    <3>3. CASE c \in Leaves
      BY <1>1, <3>1, <3>2, <3>3 DEF resolve_level
    <3>4. CASE c \notin Leaves
      <4>1. c \in Groups
        BY <1>1, <3>2, <3>4
      <4>2. ASSUME NEW d \in children(c) PROVE d \in W /\ ~chain(d, ls, n + 1)
        <5>1. <<c, d>> \in ls
          BY ChildLinks
        <5> QED BY <2>1, <2>2, <4>1, <5>1, ChainSteps
      <4>3. c \notin children(c)
        <5>1. SUFFICES ASSUME c \in children(c) PROVE FALSE
          OBVIOUS
        <5>2. <<c, c>> \in ls
          BY <5>1, ChildLinks
        <5> DEFINE E == {m \in 0 .. n + 1 : chain(c, ls, m + 1)}
        <5>3. 0 \in E
          <6>1. 0 + 1 = 1 /\ 0 \in 0 .. n + 1
            BY <2>1
          <6> QED BY <1>6, <4>1, <6>1
        <5>4. ASSUME NEW m \in 0 .. (n + 1) - 1, m \in E PROVE m + 1 \in E
          <6>1. m + 1 \in Nat \ {0} /\ m + 1 \in 0 .. n + 1
            BY <2>1
          <6> QED BY <4>1, <5>2, <5>4, <6>1, ChainSteps
        <5>5. 0 .. n + 1 \subseteq E
          <6> HIDE DEF E
          <6> QED BY <2>1, <5>3, <5>4, SetInduction
        <5> QED BY <2>1, <2>2, <5>5
      <4>4. PICK d \in children(c) : TRUE
        BY <4>1
      <4>5. \A e \in children(c) : fine(n, e)
        BY <1>3, <4>2
      <4> DEFINE below == UNION {resolve_below[n][e] : e \in children(c) \ {c}}
      <4>6. below # {} /\ Error \notin below
        BY <4>3, <4>4, <4>5
      <4>7. resolve_below[n + 1][c] = IF below = {} THEN {Error} ELSE below
        BY <2>1, <3>1, <3>2, <3>4 DEF resolve_level
      <4> HIDE DEF below
      <4> QED BY <4>6, <4>7
    <3> QED BY <3>3, <3>4
  <2> QED BY <2>1, <2>2
<1>4. 0 .. MaxDepth \subseteq D
  <2> HIDE DEF D
  <2> QED BY <1>1, <1>2, <1>3, SetInduction
<1>5. good(MaxDepth)
  BY <1>1, <1>4
<1> QED BY <1>5 DEF resolve_leaves, levels

\* What an undisturbed load accepts is resolved exactly.
LEMMA CalmResolves == GroupsInv /\ CalmInv => ResolvesExactly
<1> SUFFICES ASSUME GroupsInv, CalmInv, edits = 0, pc = "done", NEW o \in wanted
             PROVE  LET below == reached(o, current) \ bare
                        hollow_groups == {g \in below \cap Groups : children(g) = {}}
                    IN  IF hollow_groups # {} \/ o \in bare THEN Error \in resolve_leaves(o)
                        ELSE resolve_leaves(o) = below \cap Leaves
  BY DEF ResolvesExactly
<1> DEFINE W == reached(o, current)
<1>1. /\ stable = current /\ ever = current /\ loaded \subseteq entries(parents) /\ wanted \subseteq ids(loaded)
      /\ ~chained(wanted, MaxDepth + 1)
      /\ catalog = {e \in loaded : e.id \notin bare} /\ frontier = {} /\ loaded \subseteq Entry
      /\ current \in SUBSET (Groups \X Objects)
      /\ \A l \in current : l[1] \in ids(loaded) => l \in links(loaded)
  BY DEF CalmInv, GroupsInv, current, LinkSet
<1>2. /\ o \in W /\ W \subseteq Objects /\ closed(W, current)
      /\ W \subseteq ids(loaded)
  <2>1. o \in Objects /\ o \in ids(loaded) /\ current \in SUBSET Pairs
    BY <1>1 DEF GroupsInv, Pairs, Objects
  <2>2. \A l \in current : l[1] \in ids(loaded) => l[2] \in ids(loaded)
    <3>1. \A l \in links(loaded) : l[2] \in ids(loaded)
      BY DEF links, ids
    <3> QED BY <1>1, <3>1
  <2> QED BY <2>1, <2>2, ReachedClosed, ReachedLeast
<1>3. ids(catalog) = ids(loaded) \ bare
  BY <1>1 DEF ids
<1>4. ids(catalog) \subseteq Objects /\ links(catalog) \subseteq current
  <2>1. ids(catalog) \subseteq Objects
    BY <1>1 DEF ids, Entry
  <2>2. links(catalog) \subseteq current
    BY <1>1 DEF links, current
  <2> QED BY <2>1, <2>2
<1>5. ASSUME NEW l \in current, l[1] \in ids(catalog) PROVE l \in links(catalog) \/ l[2] \in bare
  <2>1. l \in links(loaded)
    BY <1>1, <1>3, <1>5
  <2>2. PICK e \in loaded : \E g \in e.parents : l = <<g, e.id>>
    BY <2>1 DEF links
  <2>3. CASE e.id \notin bare
    <3>1. e \in catalog
      BY <1>1, <2>3
    <3> QED BY <2>2, <3>1 DEF links
  <2>4. CASE e.id \in bare
    BY <2>2, <2>4
  <2> QED BY <2>3, <2>4
<1>6. bare \subseteq Leaves /\ o \in Objects /\ MaxDepth \in 1 .. MaxDepth /\ current \in SUBSET Pairs
      /\ Groups \cap Leaves = {}
  BY <1>1, GroupsAssumption DEF GroupsInv, Pairs, Objects
<1>7. ASSUME Error \notin resolve_leaves(o)
      PROVE  /\ (W \cap Leaves) \ bare \subseteq resolve_leaves(o)
             /\ \A g \in W \cap Groups : children(g) # {}
  BY <1>1, <1>4, <1>5, <1>6, <1>7, ResolvedIsWhole
<1>8. resolve_leaves(o) \ {Error} \subseteq W \cap Leaves \cap ids(catalog)
  BY <1>4, <1>6, ResolvedIsBelow
<1>9. CASE o \in bare
  <2>1. o \notin ids(catalog)
    BY <1>3, <1>9
  <2>2. resolve_leaves(o) = resolve_level(MaxDepth, o, resolve_below[MaxDepth - 1])
    BY <1>4, <1>6, ResolveSteps DEF resolve_leaves, levels
  <2>3. Error \in resolve_leaves(o)
    BY <2>1, <2>2 DEF resolve_level
  <2> QED BY <1>9, <2>3
<1>10. CASE \E g \in W \cap Groups : children(g) = {}
  <2>1. Error \in resolve_leaves(o)
    BY <1>7, <1>10
  <2>2. PICK g \in W \cap Groups : children(g) = {}
    BY <1>10
  <2>3. g \in W \ bare
    BY <1>6, <2>2
  <2> HIDE DEF W
  <2> QED BY <2>1, <2>2, <2>3 DEF W
<1>11. CASE o \notin bare /\ \A g \in W \cap Groups : children(g) # {}
  <2> DEFINE below == W \ bare
  <2>1. below \subseteq ids(catalog) /\ o \in below
    BY <1>2, <1>3, <1>11
  <2>2. ASSUME NEW g \in below, NEW d \in children(g) PROVE d \in below
    <3>1. <<g, d>> \in current
      BY <1>4, ChildLinks
    <3>2. d \in W
      BY <1>2, <3>1 DEF closed
    <3>3. d \in ids(catalog)
      BY DEF children, ids
    <3> QED BY <1>3, <3>2, <3>3
  <2>3. ~chain(o, current, MaxDepth + 1)
    BY <1>1 DEF chained
  <2>4. \A g \in below \cap Groups : children(g) # {}
    BY <1>11
  <2>5. Error \notin resolve_leaves(o)
    <3> HIDE DEF below
    <3> QED BY <1>1, <1>4, <2>1, <2>2, <2>3, <2>4, ShortResolved
  <2>6. resolve_leaves(o) = below \cap Leaves
    BY <1>3, <1>7, <1>8, <2>5
  <2>7. ~\E g \in below \cap Groups : children(g) = {}
    BY <2>4
  <2> QED BY <1>11, <2>6, <2>7
<1> QED BY <1>9, <1>10, <1>11

\* A load that nobody disturbs is refused exactly when more groups than max_groups_depth are
\* nested below a wanted one, cycles included, whatever the memberships are.
THEOREM RefusedIffTooDeepHolds == Spec => []RefusedIffTooDeep
<1>1. Init => GroupsInv /\ CalmInv
  BY InitGroupsInv, InitCalmInv DEF Init
<1>2. GroupsInv /\ CalmInv /\ [Next]_vars => (GroupsInv /\ CalmInv)'
  BY LoadSteps, NextGroupsInv, NextCalmInv
<1> QED BY <1>1, <1>2, CalmRefused, PTL DEF Spec

\* What an undisturbed load accepts the resolver can walk, and a wanted group resolves to
\* exactly the leaves below it, whatever the memberships are: the level limits of the loader and
\* of the resolver agree.
THEOREM ResolvesExactlyHolds == Spec => []ResolvesExactly
<1>1. Init => GroupsInv /\ CalmInv
  BY InitGroupsInv, InitCalmInv DEF Init
<1>2. GroupsInv /\ CalmInv /\ [Next]_vars => (GroupsInv /\ CalmInv)'
  BY LoadSteps, NextGroupsInv, NextCalmInv
<1> QED BY <1>1, <1>2, CalmResolves, PTL DEF Spec

----------------------------------------------------------------------------
(***************************************************************************)
(* New rules                                                               *)
(***************************************************************************)

\* Where one value in a field does not cover what is planned, it lacks something of it.
LEMMA ZonesApart ==
  ASSUME NEW P, P \subseteq Labels, P # {}, NEW E, \E e : E = {e}
  PROVE  \E x \in Labels : /\ operand_has(P, x, same, FALSE)
                           /\ ~values_cover(E, P, same) => ~operand_has(E, x, same, FALSE)
<1>0. PICK e : E = {e}
  OBVIOUS
<1>1. CASE \E p \in P : p # e
  <2>1. PICK p \in P : p # e
    BY <1>1
  <2> QED BY <1>0, <2>1 DEF operand_has, same
<1>2. CASE ~\E p \in P : p # e
  <2>1. values_cover(E, P, same)
    BY <1>0, <1>2 DEF values_cover, same
  <2> QED BY <1>0, <2>1 DEF operand_has, same
<1> QED BY <1>1, <1>2

\* An address value lacks an end of some value it does not cover.
LEMMA AddressApart ==
  ASSUME NEW p \in AddressValue, proper_address(p), NEW e \in AddressValue, proper_address(e)
  PROVE  \E x \in End : address_has(p, x) /\ (~address_covers(e, p) => ~address_has(e, x))
<1> DEFINE at(ip, name) == [ip |-> ip, name |-> name]
<1>1. /\ p.kind \in {"ipv4", "fqdn"} /\ e.kind \in {"ipv4", "fqdn"}
      /\ p.start \in Nat /\ p.end \in Nat /\ e.start \in Nat /\ e.end \in Nat /\ e.end + 1 \in Nat
      /\ NoDomain \notin Domains
  BY CoverageAssumption DEF AddressValue, Kinds
<1>2. \A ip \in Nat, name \in Domains \cup {NoDomain} :
        at(ip, name) \in End /\ at(ip, name).ip = ip /\ at(ip, name).name = name
  BY DEF End
<1> HIDE DEF at
<1>3. CASE p.kind = "ipv4"
  <2>1. p.start <= p.end
    BY <1>3 DEF proper_address
  <2>2. /\ at(p.start, NoDomain) \in End /\ address_has(p, at(p.start, NoDomain))
        /\ at(p.end, NoDomain) \in End /\ address_has(p, at(p.end, NoDomain))
    BY <1>1, <1>2, <1>3, <2>1 DEF address_has
  <2>3. CASE e.kind = "fqdn"
    <3>1. e.domain \in Domains
      BY <2>3 DEF proper_address
    <3>2. ~address_has(e, at(p.start, NoDomain))
      BY <1>1, <1>2, <2>3, <3>1 DEF address_has
    <3> QED BY <2>2, <3>2
  <2>4. CASE e.kind = "ipv4" /\ ~ e.start <= p.start
    <3>1. ~address_has(e, at(p.start, NoDomain))
      BY <1>1, <1>2, <2>4 DEF address_has
    <3> QED BY <2>2, <3>1
  <2>5. CASE e.kind = "ipv4" /\ ~ p.end <= e.end
    <3>1. ~address_has(e, at(p.end, NoDomain))
      BY <1>1, <1>2, <2>5 DEF address_has
    <3> QED BY <2>2, <3>1
  <2>6. CASE e.kind = "ipv4" /\ e.start <= p.start /\ p.end <= e.end
    <3>1. address_covers(e, p)
      BY <1>3, <2>6 DEF address_covers
    <3> QED BY <2>2, <3>1
  <2> QED BY <1>1, <2>3, <2>4, <2>5, <2>6
<1>4. CASE p.kind = "fqdn"
  <2>1. p.domain \in Domains
    BY <1>4 DEF proper_address
  <2>2. at(e.end + 1, p.domain) \in End /\ address_has(p, at(e.end + 1, p.domain))
    BY <1>1, <1>2, <1>4, <2>1 DEF address_has
  <2>3. CASE e.kind = "ipv4"
    <3>1. ~address_has(e, at(e.end + 1, p.domain))
      BY <1>1, <1>2, <2>1, <2>3 DEF address_has
    <3> QED BY <2>2, <3>1
  <2>4. CASE e.kind = "fqdn" /\ e.domain # p.domain
    <3>1. ~address_has(e, at(e.end + 1, p.domain))
      BY <1>1, <1>2, <2>1, <2>4 DEF address_has
    <3> QED BY <2>2, <3>1
  <2>5. CASE e.kind = "fqdn" /\ e.domain = p.domain
    <3>1. address_covers(e, p)
      BY <1>4, <2>5 DEF address_covers
    <3> QED BY <2>2, <3>1
  <2> QED BY <1>1, <2>3, <2>4, <2>5
<1> QED BY <1>1, <1>3, <1>4

\* So it is with the addresses of an operand.
LEMMA AddressesApart ==
  ASSUME NEW P, P \subseteq AddressValue, P # {}, \A p \in P : proper_address(p),
         NEW E, E \subseteq AddressValue, \A e \in E : proper_address(e), \E e : E = {e}
  PROVE  \E x \in End : /\ operand_has(P, x, address_has, FALSE)
                        /\ ~values_cover(E, P, address_covers) => ~operand_has(E, x, address_has, FALSE)
<1>0. PICK e : E = {e} /\ e \in AddressValue /\ proper_address(e)
  OBVIOUS
<1>1. CASE \E p \in P : ~address_covers(e, p)
  <2>1. PICK p \in P : ~address_covers(e, p)
    BY <1>1
  <2>2. PICK x \in End : address_has(p, x) /\ ~address_has(e, x)
    BY <1>0, <2>1, AddressApart
  <2> QED BY <1>0, <2>1, <2>2 DEF operand_has
<1>2. CASE ~\E p \in P : ~address_covers(e, p)
  <2>1. values_cover(E, P, address_covers)
    BY <1>0, <1>2 DEF values_cover
  <2>2. PICK p \in P : TRUE
    OBVIOUS
  <2>3. PICK x \in End : address_has(p, x)
    BY <1>0, AddressApart
  <2> QED BY <2>1, <2>3 DEF operand_has
<1> QED BY <1>1, <1>2

\* A service value lacks a packet of some value it does not cover.
LEMMA ServiceApart ==
  ASSUME NEW p \in ServiceValue, proper_service(p), NEW e \in ServiceValue
  PROVE  \E x \in PacketService : service_has(p, x) /\ (~service_covers(e, p) => ~service_has(e, x))
<1> DEFINE to(proto, port, code) == [proto |-> proto, port |-> port, code |-> code]
<1>1. /\ p.proto \in Protocols /\ e.proto \in Protocols /\ p.codes \subseteq Codes
      /\ p.port_start \in Nat /\ p.port_end \in Nat /\ e.port_start \in Nat /\ e.port_end \in Nat
  BY DEF ServiceValue
<1>2. \A proto \in (Protocols \ {"ANY"}) \cup {"OTHER"}, port \in Nat, code \in Codes :
        /\ to(proto, port, code) \in PacketService /\ to(proto, port, code).proto = proto
        /\ to(proto, port, code).port = port /\ to(proto, port, code).code = code
  BY DEF PacketService
<1> HIDE DEF to
<1>3. CASE p.proto = "ANY"
  <2>1. PICK code \in Codes : TRUE
    BY CoverageAssumption
  <2>2. to("OTHER", 0, code) \in PacketService /\ service_has(p, to("OTHER", 0, code))
    BY <1>2, <1>3 DEF service_has
  <2>3. service_has(e, to("OTHER", 0, code)) => e.proto = "ANY"
    BY <1>1, <1>2 DEF service_has, Protocols
  <2>4. e.proto = "ANY" => service_covers(e, p)
    BY DEF service_covers
  <2> QED BY <2>2, <2>3, <2>4
<1>4. CASE p.proto # "ANY"
  <2>1. PICK code \in Codes : (p.proto = "ICMP" => code \in p.codes)
                                /\ (p.proto = "ICMP" /\ ~ p.codes \subseteq e.codes => code \notin e.codes)
    BY <1>1, CoverageAssumption DEF proper_service
  <2>2. PICK port \in {p.port_start, p.port_end} :
           p.proto \in PortProtocols =>
             /\ p.port_start <= port /\ port <= p.port_end
             /\ ~(e.port_start <= p.port_start /\ p.port_end <= e.port_end)
                  => ~(e.port_start <= port /\ port <= e.port_end)
    <3>1. p.proto \in PortProtocols => p.port_start <= p.port_end
      BY DEF proper_service
    <3>2. CASE e.port_start <= p.port_start
      BY <1>1, <3>1, <3>2
    <3>3. CASE ~ e.port_start <= p.port_start
      BY <1>1, <3>1, <3>3
    <3> QED BY <3>2, <3>3
  <2> DEFINE x == to(p.proto, port, code)
  <2>3. x \in PacketService /\ x.proto = p.proto /\ x.port = port /\ x.code = code
    BY <1>1, <1>2, <1>4
  <2> HIDE DEF x
  <2>4. service_has(p, x)
    BY <2>1, <2>2, <2>3 DEF service_has
  <2>5. ASSUME service_has(e, x) PROVE service_covers(e, p)
    <3>1. CASE e.proto = "ANY"
      BY <3>1 DEF service_covers
    <3>2. CASE e.proto # "ANY"
      <4>1. e.proto = p.proto
        BY <2>3, <2>5, <3>2 DEF service_has
      <4>2. e.proto = "ICMP" => p.codes \subseteq e.codes
        BY <2>1, <2>3, <2>5, <3>2, <4>1 DEF service_has
      <4>3. e.proto \in PortProtocols => e.port_start <= p.port_start /\ p.port_end <= e.port_end
        BY <2>2, <2>3, <2>5, <3>2, <4>1 DEF service_has
      <4> QED BY <1>4, <4>1, <4>2, <4>3 DEF service_covers, same_proto_covers
    <3> QED BY <3>1, <3>2
  <2> QED BY <2>3, <2>4, <2>5
<1> QED BY <1>3, <1>4

\* And with its services.
LEMMA ServicesApart ==
  ASSUME NEW P, P \subseteq ServiceValue, P # {}, \A p \in P : proper_service(p),
         NEW E, E \subseteq ServiceValue, \E e : E = {e}
  PROVE  \E x \in PacketService :
            /\ operand_has(P, x, service_has, FALSE)
            /\ ~values_cover(E, P, service_covers) => ~operand_has(E, x, service_has, FALSE)
<1>0. PICK e : E = {e} /\ e \in ServiceValue
  OBVIOUS
<1>1. CASE \E p \in P : ~service_covers(e, p)
  <2>1. PICK p \in P : ~service_covers(e, p)
    BY <1>1
  <2>2. PICK x \in PacketService : service_has(p, x) /\ ~service_has(e, x)
    BY <1>0, <2>1, ServiceApart
  <2> QED BY <1>0, <2>1, <2>2 DEF operand_has
<1>2. CASE ~\E p \in P : ~service_covers(e, p)
  <2>1. values_cover(E, P, service_covers)
    BY <1>0, <1>2 DEF values_cover
  <2>2. PICK p \in P : TRUE
    OBVIOUS
  <2>3. PICK x \in PacketService : service_has(p, x)
    BY <1>0, ServiceApart
  <2> QED BY <2>1, <2>3 DEF operand_has
<1> QED BY <1>1, <1>2

\* A rule is new only when no policy covers it.
LEMMA NewUncovered ==
  ASSUME NEW rule, NEW existing, NEW verdict \in compare_rule(rule, existing), verdict.match_status = "NEW"
  PROVE  /\ rule # Broken
         /\ \A i \in DOMAIN existing : existing[i] # Broken => ~is_covered(existing[i], rule)
<1> DEFINE exact == candidates(existing, LAMBDA e : e = rule)
           covering == candidates(existing, LAMBDA e : is_covered(e, rule))
<1>1. \/ verdict = RuleCompareResult("MATCH_ERROR", 0)
      \/ \E i \in first(exact) : verdict = RuleCompareResult("EXACT_MATCH", i)
      \/ \E i \in first(covering) : verdict = RuleCompareResult("COVERED_MATCH", i)
      \/ rule # Broken /\ covering = {}
  BY Zenon DEF compare_rule
<1>2. rule # Broken /\ covering = {}
  <2> HIDE DEF exact, covering
  <2> QED BY <1>1 DEF RuleCompareResult
<1> QED BY <1>2 DEF candidates

\* Where nothing was edited a rule means what it resolves to.
LEMMA MeantResolved ==
  ASSUME GroupsInv, CalmInv, edits = 0, pc = "done", bare = {},
         NEW STATE rule, rule \in RuleBody, ~broken(rule)
  PROVE  /\ meant(rule, current).src_zones = resolve_rule(rule).src_zones
         /\ meant(rule, current).dst_zones = resolve_rule(rule).dst_zones
         /\ meant(rule, current).src_addresses = resolve_rule(rule).src_addresses
         /\ meant(rule, current).dst_addresses = resolve_rule(rule).dst_addresses
         /\ meant(rule, current).services = resolve_rule(rule).services
<1>1. ASSUME NEW STATE objects, objects \in {rule.src_addr_objects, rule.dst_addr_objects}
      PROVE  {address_value[l] : l \in members(objects, current)} = resolved_addresses(objects)
  <2>1. objects \in SUBSET Objects /\ \A o \in objects : Error \notin resolve_leaves(o)
    BY <1>1 DEF RuleBody, broken, address_ids
  <2>2. stable = current /\ ever = current
    BY DEF CalmInv
  <2>3. leaves_of(objects) = members(objects, current)
    BY <2>1, <2>2, OperandResolved
  <2> QED BY <2>3 DEF resolved_addresses, leaves_of
<1>2. /\ {address_value[l] : l \in members(rule.src_addr_objects, current)} = resolved_addresses(rule.src_addr_objects)
      /\ {address_value[l] : l \in members(rule.dst_addr_objects, current)} = resolved_addresses(rule.dst_addr_objects)
  BY <1>1
<1> QED BY <1>2 DEF meant, resolve_rule

\* A complete rule has a value in each field.
LEMMA CompleteResolved ==
  ASSUME GroupsInv, pc = "done", bare = {}, NEW STATE rule, rule \in RuleBody, ~broken(rule), complete(rule)
  PROVE  /\ resolve_rule(rule).src_zones # {} /\ resolve_rule(rule).dst_zones # {}
         /\ resolve_rule(rule).src_addresses # {} /\ resolve_rule(rule).dst_addresses # {}
         /\ resolve_rule(rule).services # {}
<1>1. ASSUME NEW STATE objects, objects \in {rule.src_addr_objects, rule.dst_addr_objects}
      PROVE  resolved_addresses(objects) # {}
  <2>1. objects \in SUBSET Objects /\ (\A o \in objects : Error \notin resolve_leaves(o)) /\ objects # {}
    BY <1>1 DEF RuleBody, broken, address_ids, complete
  <2>2. leaves_of(objects) # {}
    BY <2>1, OperandResolved
  <2> QED BY <2>2 DEF resolved_addresses, leaves_of
<1>2. rule.services # {} /\ \A s \in rule.services : s \in DOMAIN service_values
  BY DEF complete, broken
<1>3. values_of(rule.services) # {}
  BY <1>2, ComparisonAssumption DEF values_of
<1>4. zone_labels(rule.src_zones) # {} /\ zone_labels(rule.dst_zones) # {}
  BY DEF zone_labels, complete
<1>5. resolved_addresses(rule.src_addr_objects) # {} /\ resolved_addresses(rule.dst_addr_objects) # {}
  BY <1>1
<1> QED BY <1>3, <1>4, <1>5 DEF resolve_rule

\* What is resolved is proper.
LEMMA ProperResolved ==
  ASSUME GroupsInv, pc = "done", bare = {}, NEW STATE rule, rule \in RuleBody, ~broken(rule)
  PROVE  /\ \A v \in resolve_rule(rule).src_addresses : proper_address(v)
         /\ \A v \in resolve_rule(rule).dst_addresses : proper_address(v)
         /\ \A v \in resolve_rule(rule).services : proper_service(v)
<1>1. ASSUME NEW STATE objects, objects \in {rule.src_addr_objects, rule.dst_addr_objects}
      PROVE  \A v \in resolved_addresses(objects) : proper_address(v)
  <2>1. objects \in SUBSET Objects /\ \A o \in objects : Error \notin resolve_leaves(o)
    BY <1>1 DEF RuleBody, broken, address_ids
  <2>2. leaves_of(objects) \subseteq Leaves
    BY <2>1, OperandResolved
  <2> QED BY <2>2, ComparisonAssumption DEF resolved_addresses, leaves_of
<1>2. \A s \in rule.services : s \in DOMAIN service_values
  BY DEF broken
<1>3. \A v \in values_of(rule.services) : proper_service(v)
  BY <1>2, ComparisonAssumption DEF values_of
<1>4. /\ \A v \in resolved_addresses(rule.src_addr_objects) : proper_address(v)
      /\ \A v \in resolved_addresses(rule.dst_addr_objects) : proper_address(v)
  BY <1>1
<1> QED BY <1>3, <1>4 DEF resolve_rule

\* A rule with one value in each field resolves to one value in each field.
LEMMA SingleResolved ==
  ASSUME GroupsInv, CalmInv, edits = 0, pc = "done", bare = {},
         NEW STATE rule, rule \in RuleBody, ~broken(rule), single(rule)
  PROVE  /\ \E e : resolve_rule(rule).src_zones = {e}
         /\ \E e : resolve_rule(rule).dst_zones = {e}
         /\ \E e : resolve_rule(rule).src_addresses = {e}
         /\ \E e : resolve_rule(rule).dst_addresses = {e}
         /\ \E e : resolve_rule(rule).services = {e}
<1>1. ASSUME NEW STATE zones, zones \in {rule.src_zones, rule.dst_zones}
      PROVE  \E e : zone_labels(zones) = {e}
  <2>1. zones \subseteq DOMAIN zone_label /\ Cardinality(zones) = 1
    BY <1>1 DEF broken, single
  <2>2. IsFiniteSet(zones)
    BY <2>1, ComparisonAssumption, FS_Subset
  <2>3. PICK z : zones = {z}
    BY <2>1, <2>2, FS_Singleton
  <2> QED BY <2>3 DEF zone_labels
<1>2. ASSUME NEW STATE objects, objects \in {rule.src_addr_objects, rule.dst_addr_objects}
      PROVE  \E e : {address_value[l] : l \in members(objects, current)} = {e}
  <2>1. Cardinality(members(objects, current)) = 1
    BY <1>2 DEF single
  <2>2. members(objects, current) \in SUBSET Objects
    BY DEF members, Objects
  <2>3. IsFiniteSet(members(objects, current))
    BY <2>2, GroupsAssumption, FS_Subset
  <2>4. PICK l : members(objects, current) = {l}
    BY <2>1, <2>3, FS_Singleton
  <2> QED BY <2>4
<1>3. \E e : values_of(rule.services) = {e}
  <2>1. rule.services \subseteq DOMAIN service_values
    BY DEF broken
  <2>2. IsFiniteSet(rule.services)
    BY <2>1, ComparisonAssumption, FS_Subset
  <2>3. IsFiniteSet({service_values[s] : s \in rule.services})
    <3> DEFINE f == [s \in rule.services |-> service_values[s]]
               T == {service_values[s] : s \in rule.services}
    <3>1. f \in Surjection(rule.services, T)
      BY DEF Surjection
    <3> HIDE DEF f, T
    <3>2. IsFiniteSet(T)
      BY <2>2, <3>1, FS_Surjection
    <3> QED BY <3>2 DEF T
  <2>4. \A t \in {service_values[s] : s \in rule.services} : IsFiniteSet(t)
    BY <2>1, ComparisonAssumption
  <2>5. IsFiniteSet(values_of(rule.services))
    BY <2>3, <2>4, FS_UNION DEF values_of
  <2>6. Cardinality(values_of(rule.services)) = 1
    BY DEF single
  <2> QED BY <2>5, <2>6, FS_Singleton
<1>4. /\ \E e : zone_labels(rule.src_zones) = {e}
      /\ \E e : zone_labels(rule.dst_zones) = {e}
      /\ \E e : {address_value[l] : l \in members(rule.src_addr_objects, current)} = {e}
      /\ \E e : {address_value[l] : l \in members(rule.dst_addr_objects, current)} = {e}
  BY <1>1, <1>2
<1>5. /\ meant(rule, current).src_addresses = {address_value[l] : l \in members(rule.src_addr_objects, current)}
      /\ meant(rule, current).dst_addresses = {address_value[l] : l \in members(rule.dst_addr_objects, current)}
  BY DEF meant
<1>6. /\ resolve_rule(rule).src_zones = zone_labels(rule.src_zones)
      /\ resolve_rule(rule).dst_zones = zone_labels(rule.dst_zones)
      /\ resolve_rule(rule).services = values_of(rule.services)
  BY DEF resolve_rule
<1>7. /\ meant(rule, current).src_addresses = resolve_rule(rule).src_addresses
      /\ meant(rule, current).dst_addresses = resolve_rule(rule).dst_addresses
  BY MeantResolved
<1> QED BY <1>3, <1>4, <1>5, <1>6, <1>7

\* The effect of an action is what is left of it when it is normalised.
LEMMA NormalActions ==
  ASSUME NEW a \in Actions, NEW b \in Actions
  PROVE  (passes(a) = passes(b)) <=> (normalize_action(a) = normalize_action(b))
<1>1. CASE a = "ACCEPT" /\ b = "ACCEPT"
  BY <1>1
<1>2. CASE a = "ACCEPT" /\ b # "ACCEPT"
  BY <1>2 DEF normalize_action, passes, Actions
<1>3. CASE a # "ACCEPT" /\ b = "ACCEPT"
  BY <1>3 DEF normalize_action, passes, Actions
<1>4. CASE a # "ACCEPT" /\ b # "ACCEPT"
  BY <1>4 DEF normalize_action, passes, Actions
<1> QED BY <1>1, <1>2, <1>3, <1>4

\* Rules with such values that are not covered differ in a packet.
LEMMA UncoveredApart ==
  ASSUME NEW P \in NormalizedRuleValues, NEW Q \in NormalizedRuleValues,
         P.action = Q.action, ~is_covered(Q, P),
         P.src_zones # {}, P.dst_zones # {}, P.src_addresses # {}, P.dst_addresses # {}, P.services # {},
         \A v \in P.src_addresses \cup P.dst_addresses \cup Q.src_addresses \cup Q.dst_addresses : proper_address(v),
         \A v \in P.services : proper_service(v),
         \E e : Q.src_zones = {e}, \E e : Q.dst_zones = {e},
         \E e : Q.src_addresses = {e}, \E e : Q.dst_addresses = {e}, \E e : Q.services = {e}
  PROVE  \E packet \in Packet : admits(P, packet, FALSE) /\ ~admits(Q, packet, FALSE)
<1>1. /\ P.src_zones \subseteq Labels /\ P.dst_zones \subseteq Labels
      /\ P.src_addresses \subseteq AddressValue /\ P.dst_addresses \subseteq AddressValue
      /\ P.services \subseteq ServiceValue
      /\ Q.src_addresses \subseteq AddressValue /\ Q.dst_addresses \subseteq AddressValue
      /\ Q.services \subseteq ServiceValue
  BY DEF NormalizedRuleValues
<1>2. PICK src_zone \in Labels :
           /\ operand_has(P.src_zones, src_zone, same, FALSE)
           /\ ~values_cover(Q.src_zones, P.src_zones, same) => ~operand_has(Q.src_zones, src_zone, same, FALSE)
  BY <1>1, ZonesApart
<1>3. PICK dst_zone \in Labels :
           /\ operand_has(P.dst_zones, dst_zone, same, FALSE)
           /\ ~values_cover(Q.dst_zones, P.dst_zones, same) => ~operand_has(Q.dst_zones, dst_zone, same, FALSE)
  BY <1>1, ZonesApart
<1>4. PICK src \in End :
           /\ operand_has(P.src_addresses, src, address_has, FALSE)
           /\ ~values_cover(Q.src_addresses, P.src_addresses, address_covers)
                => ~operand_has(Q.src_addresses, src, address_has, FALSE)
  BY <1>1, AddressesApart
<1>5. PICK dst \in End :
           /\ operand_has(P.dst_addresses, dst, address_has, FALSE)
           /\ ~values_cover(Q.dst_addresses, P.dst_addresses, address_covers)
                => ~operand_has(Q.dst_addresses, dst, address_has, FALSE)
  BY <1>1, AddressesApart
<1>6. PICK service \in PacketService :
           /\ operand_has(P.services, service, service_has, FALSE)
           /\ ~values_cover(Q.services, P.services, service_covers)
                => ~operand_has(Q.services, service, service_has, FALSE)
  BY <1>1, ServicesApart
<1> DEFINE packet == [src_zone |-> src_zone, dst_zone |-> dst_zone, src |-> src, dst |-> dst, service |-> service]
<1>7. /\ packet \in Packet /\ packet.src_zone = src_zone /\ packet.dst_zone = dst_zone
      /\ packet.src = src /\ packet.dst = dst /\ packet.service = service
  BY DEF Packet
<1> HIDE DEF packet
<1>8. admits(P, packet, FALSE)
  BY <1>2, <1>3, <1>4, <1>5, <1>6, <1>7 DEF admits
<1>9. ~admits(Q, packet, FALSE)
  <2>1. \/ ~values_cover(Q.src_zones, P.src_zones, same)
        \/ ~values_cover(Q.dst_zones, P.dst_zones, same)
        \/ ~values_cover(Q.src_addresses, P.src_addresses, address_covers)
        \/ ~values_cover(Q.dst_addresses, P.dst_addresses, address_covers)
        \/ ~values_cover(Q.services, P.services, service_covers)
    BY DEF is_covered
  <2> QED BY <1>2, <1>3, <1>4, <1>5, <1>6, <1>7, <2>1 DEF admits
<1> QED BY <1>7, <1>8, <1>9

\* A rule that is found new differs from each such policy in a packet.
LEMMA ComparedNew ==
  ASSUME GroupsInv, CalmInv, edits = 0, pc = "done", bare = {}, Packets = Packet,
         planned \in RuleBody, policies \in Seq(RuleBody), complete(planned),
         NEW STATE verdict,
         verdict \in compare_rule(resolve_rule(planned), [i \in DOMAIN policies |-> resolve_rule(policies[i])]),
         verdict.match_status = "NEW",
         NEW i \in DOMAIN policies, ~broken(policies[i]), single(policies[i]),
         passes(policies[i].action) = passes(planned.action)
  PROVE  ~ packets(planned, current, FALSE) \subseteq packets(policies[i], current, FALSE)
<1> DEFINE existing == [j \in DOMAIN policies |-> resolve_rule(policies[j])]
           policy == policies[i]
           P == resolve_rule(planned)
           Q == resolve_rule(policy)
<1>1. policy \in RuleBody /\ ~broken(policy) /\ single(policy)
  OBVIOUS
<1>2. DOMAIN existing = DOMAIN policies /\ existing[i] = Q
  OBVIOUS
<1>3. /\ P # Broken
      /\ \A j \in DOMAIN existing : existing[j] # Broken => ~is_covered(existing[j], P)
  <2>1. verdict \in compare_rule(P, existing)
    OBVIOUS
  <2> HIDE DEF P, existing
  <2> QED BY <2>1, NewUncovered
<1>4. ~broken(planned)
  BY <1>3 DEF resolve_rule
<1> HIDE DEF existing
<1>5. P \in NormalizedRuleValues /\ Q \in NormalizedRuleValues
  <2> HIDE DEF policy
  <2> QED BY <1>1, <1>4, ResolvedRule
<1>6. ~is_covered(Q, P)
  <2> HIDE DEF P, Q
  <2> QED BY <1>2, <1>3, <1>5, BrokenAssumption
<1>7. P.action = Q.action
  <2>1. P.action = normalize_action(planned.action) /\ Q.action = normalize_action(policy.action)
    BY <1>1, <1>4 DEF resolve_rule
  <2>2. planned.action \in Actions /\ policy.action \in Actions
    BY <1>1 DEF RuleBody
  <2>3. passes(policy.action) = passes(planned.action)
    OBVIOUS
  <2> HIDE DEF P, Q, policy
  <2>4. normalize_action(policy.action) = normalize_action(planned.action)
    BY <2>2, <2>3, NormalActions
  <2> QED BY <2>1, <2>4
<1>8. /\ P.src_zones # {} /\ P.dst_zones # {} /\ P.src_addresses # {} /\ P.dst_addresses # {} /\ P.services # {}
      /\ \A v \in P.src_addresses : proper_address(v)
      /\ \A v \in P.dst_addresses : proper_address(v)
      /\ \A v \in P.services : proper_service(v)
  BY <1>4, CompleteResolved, ProperResolved
<1>9. /\ \A v \in Q.src_addresses : proper_address(v)
      /\ \A v \in Q.dst_addresses : proper_address(v)
      /\ \E e : Q.src_zones = {e}
      /\ \E e : Q.dst_zones = {e}
      /\ \E e : Q.src_addresses = {e}
      /\ \E e : Q.dst_addresses = {e}
      /\ \E e : Q.services = {e}
  <2> HIDE DEF policy
  <2> QED BY <1>1, SingleResolved, ProperResolved
<1>10. PICK packet \in Packet : admits(P, packet, FALSE) /\ ~admits(Q, packet, FALSE)
  <2>1. \A v \in P.src_addresses \cup P.dst_addresses \cup Q.src_addresses \cup Q.dst_addresses : proper_address(v)
    BY <1>8, <1>9
  <2> HIDE DEF P, Q
  <2> QED BY <1>5, <1>6, <1>7, <1>8, <1>9, <2>1, UncoveredApart
<1>11. admits(meant(planned, current), packet, FALSE)
  <2> DEFINE m == meant(planned, current)
  <2>1. /\ m.src_zones = P.src_zones /\ m.dst_zones = P.dst_zones /\ m.src_addresses = P.src_addresses
        /\ m.dst_addresses = P.dst_addresses /\ m.services = P.services
    BY <1>4, MeantResolved
  <2>2. admits(m, packet, FALSE)
    <3> HIDE DEF m, P
    <3> QED BY <1>10, <2>1 DEF admits
  <2> QED BY <2>2
<1>12. ~admits(meant(policy, current), packet, FALSE)
  <2> DEFINE m == meant(policy, current)
  <2>1. /\ m.src_zones = Q.src_zones /\ m.dst_zones = Q.dst_zones /\ m.src_addresses = Q.src_addresses
        /\ m.dst_addresses = Q.dst_addresses /\ m.services = Q.services
    <3> HIDE DEF policy
    <3> QED BY <1>1, MeantResolved
  <2>2. ~admits(m, packet, FALSE)
    <3> HIDE DEF m, Q
    <3> QED BY <1>10, <2>1 DEF admits
  <2> QED BY <2>2
<1>13. packet \in packets(planned, current, FALSE) /\ packet \notin packets(policy, current, FALSE)
  BY <1>11, <1>12 DEF packets
<1> QED BY <1>13

\* What is resolved hangs on the catalog alone.
LEMMA SameResolved ==
  ASSUME UNCHANGED catalog
  PROVE  \A o : resolve_leaves(o)' = resolve_leaves(o)
<1>1. resolve_below' = resolve_below
  BY DEF resolve_below, children, ids
<1> QED BY <1>1 DEF resolve_leaves, levels

\* The strengthening of NewIsNeeded that every step keeps.
NewInv ==
  /\ GroupsInv /\ CalmInv
  /\ planned \in RuleBody /\ policies \in Seq(RuleBody)
  /\ pc # "done" => result = NoResult
  /\ NewIsNeeded

\* At the start nothing is found new.
LEMMA InitNewInv == Init => NewInv
<1> SUFFICES ASSUME Init PROVE NewInv
  OBVIOUS
<1>1. planned \in RuleBody /\ policies \in Seq(RuleBody) /\ result = NoResult
  BY ComparisonAssumption DEF Init
<1>2. GroupsInv /\ CalmInv
  BY InitGroupsInv, InitCalmInv DEF Init
<1>3. NewIsNeeded
  BY <1>1 DEF NewIsNeeded, NoResult, RuleCompareResult
<1> QED BY <1>1, <1>2, <1>3 DEF NewInv

\* When all is loaded and stays so, what is said of the policies stays so.
LEMMA SamePolicies ==
  ASSUME UNCHANGED <<groupVars, planned, policies>>, NEW i
  PROVE  /\ broken(policies[i])' <=> broken(policies[i])
         /\ single(policies[i])' <=> single(policies[i])
         /\ UNCHANGED <<current, edits, bare, pc>>
<1>1. UNCHANGED <<parents, catalog, edits, bare, pc>> /\ policies' = policies
  BY DEF groupVars, loadVars
<1>2. UNCHANGED current
  BY <1>1 DEF current, links, entries
<1>3. \A o : resolve_leaves(o)' = resolve_leaves(o)
  BY <1>1, SameResolved
<1>4. broken(policies[i])' <=> broken(policies[i])
  BY <1>1, <1>3 DEF broken, address_ids
<1>5. single(policies[i])' <=> single(policies[i])
  BY <1>1, <1>2 DEF single
<1> QED BY <1>1, <1>2, <1>4, <1>5

\* Loading and comparing keep it.
LEMMA NextNewInv == ASSUME Packets = Packet PROVE NewInv /\ [Next]_vars => NewInv'
<1> SUFFICES ASSUME NewInv, [Next]_vars PROVE NewInv'
  OBVIOUS
<1>1. (GroupsInv /\ CalmInv)'
  BY LoadSteps, NextGroupsInv, NextCalmInv DEF NewInv
<1>2. CASE Load
  <2>1. GroupsNext /\ UNCHANGED <<planned, policies, result>>
    BY <1>2 DEF Load
  <2>2. result' = NoResult
    BY <2>1, DoneIsDone DEF NewInv
  <2>3. NewIsNeeded'
    BY <2>2 DEF NewIsNeeded, NoResult, RuleCompareResult
  <2> QED BY <1>1, <2>1, <2>2, <2>3 DEF NewInv, NoResult
<1>3. CASE Compare
  <2>1. /\ pc = "done" /\ UNCHANGED <<groupVars, planned, policies>>
        /\ result' \in compare_rule(resolve_rule(planned), [i \in DOMAIN policies |-> resolve_rule(policies[i])])
    BY <1>3 DEF Compare
  <2>2. \A i : /\ broken(policies[i])' <=> broken(policies[i])
               /\ single(policies[i])' <=> single(policies[i])
    BY <2>1, SamePolicies
  <2>3. UNCHANGED <<current, edits, bare, pc>>
    BY <2>1, SamePolicies
  <2>4. ASSUME edits = 0, bare = {}, complete(planned), NEW verdict,
               verdict \in compare_rule(resolve_rule(planned), [i \in DOMAIN policies |-> resolve_rule(policies[i])]),
               verdict.match_status = "NEW",
               NEW i \in DOMAIN policies, ~broken(policies[i]), single(policies[i]),
               passes(policies[i].action) = passes(planned.action)
        PROVE  ~ packets(planned, current, FALSE) \subseteq packets(policies[i], current, FALSE)
    BY <2>1, <2>4, ComparedNew DEF NewInv
  <2>5. NewIsNeeded'
    BY <2>1, <2>2, <2>3, <2>4 DEF NewIsNeeded
  <2> QED BY <1>1, <2>1, <2>3, <2>5 DEF NewInv
<1>4. CASE UNCHANGED vars
  <2>1. UNCHANGED <<groupVars, planned, policies, result>>
    BY <1>4 DEF vars
  <2>2. \A i : /\ broken(policies[i])' <=> broken(policies[i])
               /\ single(policies[i])' <=> single(policies[i])
    BY <2>1, SamePolicies
  <2>3. UNCHANGED <<current, edits, bare, pc>>
    BY <2>1, SamePolicies
  <2>4. NewIsNeeded'
    BY <2>1, <2>2, <2>3 DEF NewInv, NewIsNeeded
  <2> QED BY <1>1, <2>1, <2>3, <2>4 DEF NewInv, NoResult
<1> QED BY <1>2, <1>3, <1>4 DEF Next

\* Where nothing is edited, a rule with complete operands is planned as new only when no policy
\* with one value in each field does it already: some packet tells the two apart.
THEOREM NewIsNeededHolds == ASSUME Packets = Packet PROVE Spec => []NewIsNeeded
<1>1. NewInv => NewIsNeeded
  BY DEF NewInv
<1> QED BY <1>1, InitNewInv, NextNewInv, PTL DEF Spec
=============================================================================
