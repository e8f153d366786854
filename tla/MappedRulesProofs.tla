------------------------- MODULE MappedRulesProofs -------------------------
(***************************************************************************)
(* What MappedRules keeps, for any snapshots, catalogs, users and numbers  *)
(* of changes: what the pages show is what they were asked for and what    *)
(* there is, and what is shown as clear is what the execution reads.       *)
(*                                                                         *)
(* Four invariants carry the theorems.  PageInv: the table of the page on  *)
(* which rules are picked is in step with its key, its rows and its        *)
(* filter.  ShownInv: what a session has loaded is current or marked.      *)
(* ScopeInv: the operands of the scope are those built from its rules and  *)
(* manual ones, each has a result, and each result is used.  MatchInv: a   *)
(* result holds what the catalog had to offer its entity when the mapping  *)
(* was made, and the ids of the catalog have been given out.               *)
(***************************************************************************)
EXTENDS MappedRules, FiniteSetTheorems, WellFoundedInduction, TLAPS

----------------------------------------------------------------------------
(***************************************************************************)
(* Finite sets, induction, sequences                                       *)
(***************************************************************************)

\* Induction over the naturals up to a bound, for a property given as a set: from the
\* well-founded inclusion of finite sets.
LEMMA SetInduction ==
  ASSUME NEW N \in Nat, NEW S, 0 \in S, \A n \in 0 .. N - 1 : n \in S => n + 1 \in S
  PROVE  0 .. N \subseteq S
<1> DEFINE R == StrictSubsetOrdering(0 .. N)
           T == {0 .. n : n \in (0 .. N) \ S}
<1>1. IsWellFoundedOn(R, FiniteSubsetsOf(0 .. N))
  BY FS_StrictSubsetOrderingWellFounded
<1>2. T \subseteq FiniteSubsetsOf(0 .. N)
  <2>1. ASSUME NEW n \in 0 .. N PROVE 0 .. n \in SUBSET (0 .. N) /\ IsFiniteSet(0 .. n)
    BY FS_Interval
  <2> QED BY <2>1 DEF FiniteSubsetsOf
<1>3. ASSUME T # {} PROVE FALSE
  <2>1. PICK U \in T : \A V \in T : ~ (<<V, U>> \in R)
    <3> HIDE DEF R, T
    <3> QED BY <1>1, <1>2, <1>3, WFMin
  <2>2. PICK n \in (0 .. N) \ S : U = 0 .. n
    OBVIOUS
  <2>3. n # 0 /\ n - 1 \in 0 .. N - 1 /\ n - 1 \notin S
    BY <2>2
  <2>4. 0 .. n - 1 \in T
    BY <2>3
  <2>5. 0 .. n - 1 \subseteq 0 .. n /\ 0 .. n - 1 # 0 .. n /\ 0 .. n \subseteq 0 .. N
    BY <2>2, <2>3
  <2>6. <<0 .. n - 1, 0 .. n>> \in R
    BY <2>5 DEF StrictSubsetOrdering
  <2> QED BY <2>1, <2>2, <2>4, <2>6
<1> QED BY <1>3

\* f holds the iterates of F from a value.
iterates(f, a, F, N) == f[0] = a /\ \A n \in 1 .. N : f[n] = F[f[n - 1]]

\* A function can be iterated from a value.
LEMMA Iterate ==
  ASSUME NEW S, NEW a \in S, NEW F \in [S -> S], NEW N \in Nat
  PROVE  \E f \in [0 .. N -> S] : iterates(f, a, F, N)
<1> DEFINE done(m) == \E f \in [0 .. m -> S] : f[0] = a /\ \A n \in 1 .. m : f[n] = F[f[n - 1]]
           D == {m \in 0 .. N : done(m)}
<1>1. 0 \in D
  <2> DEFINE f == [n \in 0 .. 0 |-> a]
  <2>1. f \in [0 .. 0 -> S] /\ f[0] = a /\ \A n \in 1 .. 0 : f[n] = F[f[n - 1]]
    OBVIOUS
  <2>2. 0 \in 0 .. N
    OBVIOUS
  <2> HIDE DEF f
  <2> QED BY <2>1, <2>2
<1>2. ASSUME NEW m \in 0 .. N - 1, m \in D PROVE m + 1 \in D
  <2>1. PICK f \in [0 .. m -> S] : f[0] = a /\ \A n \in 1 .. m : f[n] = F[f[n - 1]]
    BY <1>2
  <2> DEFINE g == [n \in 0 .. m + 1 |-> IF n \in 0 .. m THEN f[n] ELSE F[f[m]]]
  <2>2. g \in [0 .. m + 1 -> S] /\ g[0] = a
    BY <2>1
  <2>3. ASSUME NEW n \in 1 .. m + 1 PROVE g[n] = F[g[n - 1]]
    <3>1. CASE n = m + 1
      BY <3>1
    <3>2. CASE n # m + 1
      <4>1. n \in 1 .. m /\ n \in 0 .. m /\ n - 1 \in 0 .. m
        BY <3>2
      <4>2. n \in 0 .. m + 1 /\ n - 1 \in 0 .. m + 1
        BY <4>1
      <4>3. g[n] = f[n] /\ g[n - 1] = f[n - 1]
        BY <4>1, <4>2
      <4>4. f[n] = F[f[n - 1]]
        BY <2>1, <4>1
      <4> HIDE DEF g
      <4> QED BY <4>3, <4>4
    <3> QED BY <3>1, <3>2
  <2>4. m + 1 \in 0 .. N
    OBVIOUS
  <2> HIDE DEF g
  <2>5. done(m + 1)
    BY <2>2, <2>3
  <2> HIDE DEF done
  <2> QED BY <2>4, <2>5
<1>3. 0 .. N \subseteq D
  <2> HIDE DEF D
  <2> QED BY <1>1, <1>2, SetInduction
<1> QED BY <1>3 DEF iterates

\* A set of naturals has a least one.
LEMMA Least ==
  ASSUME NEW T, T \subseteq Nat, T # {}
  PROVE  \E r \in T : \A q \in T : r <= q
<1> SUFFICES ASSUME \A r \in T : \E q \in T : q < r PROVE FALSE
  OBVIOUS
<1>1. PICK N \in T : TRUE
  OBVIOUS
<1> DEFINE S == {n \in 0 .. N : \A q \in T : n < q}
<1>2. 0 \in S
  <2> SUFFICES ASSUME NEW q \in T PROVE 0 < q
    BY <1>1
  <2>1. PICK p \in T : p < q
    OBVIOUS
  <2> QED BY <2>1
<1>3. ASSUME NEW n \in 0 .. N - 1, n \in S PROVE n + 1 \in S
  <2> SUFFICES ASSUME NEW q \in T PROVE n + 1 < q
    BY <1>1
  <2>1. PICK p \in T : p < q
    OBVIOUS
  <2> QED BY <1>3, <2>1
<1>4. N \in S
  <2>1. 0 .. N \subseteq S
    <3> HIDE DEF S
    <3> QED BY <1>1, <1>2, <1>3, SetInduction
  <2> QED BY <1>1, <2>1
<1> QED BY <1>1, <1>4

\* Any function on 1 .. n is a sequence.
LEMMA Sequence ==
  ASSUME NEW n \in Nat, NEW T, NEW f \in [1 .. n -> T]
  PROVE  f \in Seq(T) /\ Len(f) = n
  OBVIOUS

\* The order of rules is total.
Ordered(S) ==
  /\ IsFiniteSet(S)
  /\ \A u \in S : u.id \in Nat /\ u.priority \in Int /\ u.name \in Int
  /\ \A u, v \in S : u.id = v.id => u = v

below(S, sort, u) == {v \in S : precedes(sort, v, u)}

\* Rules are put in a strict total order by each of the sorts.
LEMMA Precedes ==
  ASSUME NEW S, Ordered(S), NEW sort
  PROVE  /\ \A u \in S : ~precedes(sort, u, u)
         /\ \A u, v \in S : u # v => precedes(sort, u, v) \/ precedes(sort, v, u)
         /\ \A u, v, w \in S : precedes(sort, u, v) /\ precedes(sort, v, w) => precedes(sort, u, w)
<1>1. \A u \in S : ~precedes(sort, u, u)
  BY DEF Ordered, precedes
<1>2. \A u, v \in S : u # v => precedes(sort, u, v) \/ precedes(sort, v, u)
  BY DEF Ordered, precedes
<1>3. \A u, v, w \in S : precedes(sort, u, v) /\ precedes(sort, v, w) => precedes(sort, u, w)
  BY DEF Ordered, precedes
<1> QED BY <1>1, <1>2, <1>3

\* Every rule has a number of its own, and every number a rule.
LEMMA Ranks ==
  ASSUME NEW S, Ordered(S), NEW sort
  PROVE  \A n \in 1 .. Cardinality(S) :
           \E u \in S : Cardinality(below(S, sort, u)) = n - 1
<1> DEFINE N == Cardinality(S)
           rank == [u \in S |-> Cardinality(below(S, sort, u)) + 1]
<1>1. IsFiniteSet(S) /\ N \in Nat
  BY FS_CardinalityType DEF Ordered
<1>2. \A u \in S : /\ below(S, sort, u) \subseteq S \ {u}
                   /\ IsFiniteSet(below(S, sort, u))
                   /\ Cardinality(below(S, sort, u)) \in 0 .. N - 1
  <2> SUFFICES ASSUME NEW u \in S
               PROVE  /\ below(S, sort, u) \subseteq S \ {u}
                      /\ IsFiniteSet(below(S, sort, u))
                      /\ Cardinality(below(S, sort, u)) \in 0 .. N - 1
    OBVIOUS
  <2>1. below(S, sort, u) \subseteq S \ {u}
    BY Precedes DEF below
  <2>2. IsFiniteSet(S \ {u}) /\ Cardinality(S \ {u}) = N - 1
    BY <1>1, FS_RemoveElement
  <2>3. IsFiniteSet(below(S, sort, u)) /\ Cardinality(below(S, sort, u)) <= N - 1
    BY <2>1, <2>2, FS_Subset
  <2> QED BY <2>1, <2>3, FS_CardinalityType
<1>3. \A u, w \in S : u # w => Cardinality(below(S, sort, u)) # Cardinality(below(S, sort, w))
  <2>1. \A u, w \in S : precedes(sort, u, w) => below(S, sort, u) \subseteq below(S, sort, w) /\ u \in below(S, sort, w)
    BY Precedes DEF below
  <2>2. ASSUME NEW u \in S, NEW w \in S, precedes(sort, u, w)
        PROVE  Cardinality(below(S, sort, u)) # Cardinality(below(S, sort, w))
    BY <1>2, <2>1, <2>2, FS_Subset
  <2> QED BY <2>2, Precedes
<1>4. rank \in Injection(S, 1 .. N)
  BY <1>1, <1>2, <1>3 DEF Injection, IsInjective
<1>5. IsFiniteSet(1 .. N) /\ Cardinality(1 .. N) = N
  BY <1>1, FS_Interval
<1>6. rank \in Surjection(S, 1 .. N)
  BY <1>4, <1>5, FS_Injection
<1>7. \A n \in 1 .. N : \E u \in S : rank[u] = n
  BY <1>6 DEF Surjection
<1>8. \A u \in S : rank[u] = Cardinality(below(S, sort, u)) + 1
  OBVIOUS
<1> HIDE DEF rank
<1>9. \A u \in S : Cardinality(below(S, sort, u)) = rank[u] - 1
  BY <1>2, <1>8
<1> QED BY <1>7, <1>9

\* A list shows every rule once.
LEMMA Listed ==
  ASSUME Ordered(snapshot.rules), NEW f, NEW sort
  PROVE  /\ list_filtered(f, sort) \in Seq(Nat)
         /\ \A m, n \in DOMAIN list_filtered(f, sort) :
              list_filtered(f, sort)[m] = list_filtered(f, sort)[n] => m = n
<1> DEFINE found == {u \in snapshot.rules : passes(u, f)}
           N == Cardinality(found)
           at(n) == CHOOSE u \in found : Cardinality(below(found, sort, u)) = n - 1
<1>1. Ordered(found) /\ N \in Nat
  BY FS_Subset, FS_CardinalityType DEF Ordered
<1>2. \A n \in 1 .. N : at(n) \in found /\ Cardinality(below(found, sort, at(n))) = n - 1
  <2> HIDE DEF found
  <2> QED BY <1>1, Ranks
<1>3. list_filtered(f, sort) = [n \in 1 .. N |-> at(n).id]
  BY DEF list_filtered, in_order, passing, below
<1> HIDE DEF found, N, at
<1>4. \A n \in 1 .. N : at(n).id \in Nat
  BY <1>1, <1>2 DEF Ordered
<1>5. \A m, n \in 1 .. N : at(m).id = at(n).id => m = n
  <2> SUFFICES ASSUME NEW m \in 1 .. N, NEW n \in 1 .. N, at(m).id = at(n).id PROVE m = n
    OBVIOUS
  <2>1. at(m) = at(n)
    BY <1>1, <1>2 DEF Ordered
  <2>2. m - 1 = n - 1
    BY <1>2, <2>1
  <2> QED BY <1>1, <2>2
<1> QED BY <1>1, <1>3, <1>4, <1>5

----------------------------------------------------------------------------
(***************************************************************************)
(* Runs of the page on which rules are picked                              *)
(***************************************************************************)

\* What its fields hold.
Searches == {NoFilter.search} \cup UNION {{f.search : f \in w.filters} : w \in Worlds}
FacetSets == {NoFacets} \cup UNION {{f.facets : f \in w.filters} : w \in Worlds}

Filter ==
  [rule_ids: SUBSET Nat, search: Searches, facets: FacetSets, zones: SUBSET Nat, objects: SUBSET Nat]

\* What may be selected.
Selections == {ids \in SUBSET Nat : IsFiniteSet(ids)}

Page ==
  [number: Nat \ {0}, filter: Filter, sort: {"default"} \cup UNION {w.sorts : w \in Worlds},
   selected: Selections, visible: Seq(Nat), key: {NONE} \cup (Nat \X Nat \X Seq(Nat)), rows: SUBSET Nat,
   pending: BOOLEAN, pages: Nat, shows: Nat]

\* The filter the page starts with is one it may have.
LEMMA NoFilterType == NoFilter \in Filter
  BY DEF NoFilter, Filter, Searches, FacetSets

\* What the page starts over with is of the right kinds.
LEMMA Blank == 1 \in Nat \ {0} /\ <<>> \in Seq(Nat) /\ {} \in SUBSET Nat /\ {} \in Selections
  BY FS_EmptySet DEF Selections

\* _reset_filters_state leaves a page, without rows and with its selection.
LEMMA ResetType == ASSUME NEW p \in Page
  PROVE /\ reset_filters(p) \in Page
        /\ reset_filters(p).visible = <<>> /\ reset_filters(p).selected = p.selected
        /\ reset_filters(p).shows = p.shows /\ reset_filters(p).rows = {}
<1>1. reset_filters(p) \in Page
  BY NoFilterType, Blank DEF reset_filters, Page
<1>2. reset_filters(p).visible = <<>> /\ reset_filters(p).selected = p.selected
  BY DEF reset_filters, Page
<1>3. reset_filters(p).shows = p.shows /\ reset_filters(p).rows = {}
  BY DEF reset_filters, Page
<1> QED BY <1>1, <1>2, <1>3

\* So does following a link.
LEMMA LinkType == ASSUME NEW p \in Page, NEW l, is_link(l)
  PROVE /\ apply_link(p, l) \in Page
        /\ apply_link(p, l).visible = <<>> /\ apply_link(p, l).selected = p.selected
        /\ apply_link(p, l).shows = p.shows /\ apply_link(p, l).rows = {}
<1> DEFINE fresh == reset_filters(p)
           f == CASE l.kind = "object" -> [NoFilter EXCEPT !.objects = {l.id}]
                  [] l.kind = "zone"   -> [NoFilter EXCEPT !.zones = {l.id}]
                  [] OTHER             -> [NoFilter EXCEPT !.rule_ids = {l.id}]
<1>1. fresh \in Page /\ fresh.visible = <<>> /\ fresh.selected = p.selected /\ fresh.shows = p.shows
      /\ fresh.rows = {}
  BY ResetType
<1>2. l.id \in Nat
  BY DEF is_link
<1>3. f \in Filter
  <2>1. /\ [NoFilter EXCEPT !.objects = {l.id}] \in Filter
        /\ [NoFilter EXCEPT !.zones = {l.id}] \in Filter
        /\ [NoFilter EXCEPT !.rule_ids = {l.id}] \in Filter
    BY <1>2, NoFilterType DEF Filter
  <2> QED BY <2>1
<1>4. apply_link(p, l) = [fresh EXCEPT !.filter = f]
  BY DEF apply_link
<1> HIDE DEF fresh, f
<1> QED BY <1>1, <1>3, <1>4 DEF Page

\* The page starts over on another snapshot, and stays as it is on the same.
LEMMA SyncType == ASSUME NEW p \in Page, latest \in Nat
  PROVE /\ sync(p) \in Page /\ sync(p).shows = latest
        /\ p.shows = latest => sync(p) = p
        /\ p.shows # latest => /\ sync(p).selected = {} /\ sync(p).visible = <<>> /\ ~sync(p).pending
                               /\ sync(p).rows = {}
<1>1. CASE p.shows = latest
  BY <1>1 DEF sync
<1>2. CASE p.shows # latest
  <2> DEFINE q == [p EXCEPT !.number = 1, !.selected = {}, !.visible = <<>>, !.key = NONE, !.rows = {},
                 !.pending = FALSE, !.shows = latest]
  <2>1. sync(p) = q
    BY <1>2 DEF sync
  <2>2. q \in Page
    BY Blank DEF Page
  <2>3. q.shows = latest /\ q.selected = {} /\ q.visible = <<>> /\ ~q.pending /\ q.rows = {}
    BY DEF Page
  <2> HIDE DEF q
  <2> QED BY <1>2, <2>1, <2>2, <2>3
<1> QED BY <1>1, <1>2

\* Dropping options that are none leaves everything but these two filters.
LEMMA ValidType == ASSUME NEW p \in Page
  PROVE /\ valid_options(p) \in Page
        /\ valid_options(p).filter =
             [rule_ids |-> p.filter.rule_ids, search |-> p.filter.search, facets |-> p.filter.facets,
              zones |-> p.filter.zones \cap ids_of(snapshot.zones),
              objects |-> p.filter.objects \cap ids_of(snapshot.objects)]
        /\ valid_options(p).number = p.number /\ valid_options(p).sort = p.sort
        /\ valid_options(p).selected = p.selected /\ valid_options(p).visible = p.visible
        /\ valid_options(p).key = p.key /\ valid_options(p).rows = p.rows
        /\ valid_options(p).pending = p.pending /\ valid_options(p).shows = p.shows
<1> DEFINE v == valid_options(p)
<1>1. p.filter \in Filter
  BY DEF Page
<1>2. /\ v.filter.rule_ids = p.filter.rule_ids /\ v.filter.search = p.filter.search
      /\ v.filter.facets = p.filter.facets
      /\ v.filter.zones = p.filter.zones \cap ids_of(snapshot.zones)
      /\ v.filter.objects = p.filter.objects \cap ids_of(snapshot.objects)
  BY <1>1 DEF valid_options, Page, Filter
<1>3. v.filter \in Filter /\ v \in Page
  BY <1>1 DEF valid_options, Page, Filter
<1>4. /\ v.number = p.number /\ v.sort = p.sort /\ v.selected = p.selected /\ v.visible = p.visible
      /\ v.key = p.key /\ v.rows = p.rows /\ v.pending = p.pending /\ v.shows = p.shows
  BY DEF valid_options, Page
<1> HIDE DEF v
<1>5. v.filter =
         [rule_ids |-> v.filter.rule_ids, search |-> v.filter.search, facets |-> v.filter.facets,
          zones |-> v.filter.zones, objects |-> v.filter.objects]
  BY <1>3 DEF Filter
<1> QED BY <1>2, <1>3, <1>4, <1>5 DEF v

\* A page that is not empty is one of the pages counted.
LEMMA Ceiling ==
  ASSUME NEW n \in Nat \ {0}, NEW k \in Nat, NEW b \in Nat \ {0}, (n - 1) * b + 1 <= k
  PROVE  n <= (k + b - 1) \div b
  OBVIOUS

\* A page of a list shows no rule twice, and no page past the last shows any.
LEMMA PageOf ==
  ASSUME NEW ids \in Seq(Nat), \A m, n \in DOMAIN ids : ids[m] = ids[n] => m = n,
         NEW number \in Nat \ {0}
  PROVE  /\ page_of(ids, PageSize, number) \in Seq(Nat)
         /\ \A m, n \in DOMAIN page_of(ids, PageSize, number) :
              page_of(ids, PageSize, number)[m] = page_of(ids, PageSize, number)[n] => m = n
         /\ page_of(ids, PageSize, number) # <<>> => number <= pages_of(ids)
         /\ pages_of(ids) \in Nat
<1> DEFINE a == (number - 1) * PageSize + 1
           b == IF number * PageSize < Len(ids) THEN number * PageSize ELSE Len(ids)
           part == page_of(ids, PageSize, number)
<1>1. PageSize \in Nat \ {0} /\ Len(ids) \in Nat
  BY PageAssumption
<1>2. a \in Nat \ {0} /\ b \in Nat /\ b <= Len(ids)
  BY <1>1
<1>3. part = SubSeq(ids, a, b)
  BY DEF page_of
<1> HIDE DEF a, b, part
<1>4. part \in Seq(Nat) /\ Len(part) = (IF a <= b THEN b - a + 1 ELSE 0)
      /\ \A n \in 1 .. Len(part) : part[n] = ids[a + n - 1]
  <2>1. Len(part) = IF a <= b THEN b - a + 1 ELSE 0
    BY <1>2, <1>3
  <2>2. \A n \in 1 .. b - a + 1 : part[n] = ids[a + n - 1]
    BY <1>2, <1>3
  <2>3. \A n \in a .. b : ids[n] \in Nat
    BY <1>2
  <2>4. part \in Seq(Nat)
    BY <1>2, <1>3, <2>3
  <2>5. \A n \in 1 .. Len(part) : part[n] = ids[a + n - 1]
    BY <1>2, <2>1, <2>2
  <2> QED BY <2>1, <2>4, <2>5
<1>5. \A m, n \in DOMAIN part : part[m] = part[n] => m = n
  <2>1. \A n \in 1 .. Len(part) : a + n - 1 \in DOMAIN ids
    BY <1>2, <1>4
  <2>4. DOMAIN part = 1 .. Len(part)
    BY <1>4
  <2> SUFFICES ASSUME NEW m \in 1 .. Len(part), NEW n \in 1 .. Len(part), part[m] = part[n] PROVE m = n
    BY <2>4
  <2>2. ids[a + m - 1] = ids[a + n - 1]
    BY <1>4
  <2>3. a + m - 1 = a + n - 1
    BY <2>1, <2>2
  <2> QED BY <1>2, <2>3
<1>6. part # <<>> => number <= pages_of(ids)
  <2> SUFFICES ASSUME part # <<>> PROVE number <= pages_of(ids)
    OBVIOUS
  <2>1. a <= Len(ids)
    BY <1>2, <1>4
  <2>2. (number - 1) * PageSize + 1 <= Len(ids)
    BY <2>1 DEF a
  <2> QED BY <1>1, <2>2, Ceiling DEF pages_of
<1>7. pages_of(ids) \in Nat
  BY <1>1 DEF pages_of
<1> QED BY <1>4, <1>5, <1>6, <1>7 DEF part

\* The ticks that the widget of a page still holds.
held(p, part) == IF p.key = <<p.shows, p.number, part>> THEN p.rows ELSE {}

\* Whether a run takes ticks for clicks: the rows are those of the run before.
clicks(p, part) == part # <<>> /\ p.visible = part /\ ~p.pending

\* Ticks and the selection stand for each other on the rules shown.
LEMMA Ticks ==
  ASSUME NEW part \in Seq(Nat), NEW selected \in Selections
  PROVE  /\ row_indices_for_selected_ids(part, selected) \subseteq DOMAIN part
         /\ {part[n] : n \in row_indices_for_selected_ids(part, selected)} = selected \cap ToSet(part)
         /\ \A rows \in SUBSET DOMAIN part :
              /\ merge_visible_page_selection(selected, part, rows) \in Selections
              /\ {part[n] : n \in rows} = merge_visible_page_selection(selected, part, rows) \cap ToSet(part)
<1>1. /\ row_indices_for_selected_ids(part, selected) \subseteq DOMAIN part
      /\ {part[n] : n \in row_indices_for_selected_ids(part, selected)} = selected \cap ToSet(part)
  BY DEF row_indices_for_selected_ids, ToSet
<1>2. ASSUME NEW rows \in SUBSET DOMAIN part
      PROVE  /\ merge_visible_page_selection(selected, part, rows) \in Selections
             /\ {part[n] : n \in rows} = merge_visible_page_selection(selected, part, rows) \cap ToSet(part)
  <2>1. \A n \in DOMAIN part : part[n] \in Nat
    OBVIOUS
  <2>2. {part[n] : n \in rows} \subseteq ToSet(part) /\ {part[n] : n \in rows} \subseteq Nat
    BY <2>1 DEF ToSet
  <2> DEFINE clicked == {part[n] : n \in rows}
  <2>3. IsFiniteSet(clicked)
    <3>1. DOMAIN part = 1 .. Len(part) /\ Len(part) \in Nat
      OBVIOUS
    <3>2. IsFiniteSet(DOMAIN part)
      BY <3>1, FS_Interval
    <3>3. IsFiniteSet(rows)
      BY <3>2, FS_Subset
    <3> DEFINE f == [n \in rows |-> part[n]]
    <3>4. f \in Surjection(rows, clicked)
      BY DEF Surjection
    <3> QED BY <3>3, <3>4, FS_Surjection
  <2>4. IsFiniteSet(selected \ ToSet(part)) /\ selected \subseteq Nat
    BY FS_Difference DEF Selections
  <2> HIDE DEF clicked
  <2>5. IsFiniteSet((selected \ ToSet(part)) \cup clicked)
    BY <2>3, <2>4, FS_Union
  <2> QED BY <2>2, <2>4, <2>5 DEF merge_visible_page_selection, clicked, Selections
<1> QED BY <1>1, <1>2

\* _render_rules_table: afterwards rows, key and selection are in step.
LEMMA RenderTable ==
  ASSUME NEW p \in Page, p.visible # <<>> => p.rows \subseteq DOMAIN p.visible, NEW part \in Seq(Nat)
  PROVE  LET r == render_table(p, part)
         IN  /\ r \in Page
             /\ r.visible = part /\ ~r.pending /\ r.number = p.number /\ r.filter = p.filter
             /\ r.sort = p.sort /\ r.shows = p.shows
             /\ r.rows \subseteq DOMAIN part
             /\ part # <<>> => /\ r.key = <<p.shows, p.number, part>>
                               /\ {part[n] : n \in r.rows} = r.selected \cap ToSet(part)
             /\ r.selected = IF clicks(p, part)
                             THEN merge_visible_page_selection(p.selected, part, held(p, part))
                             ELSE p.selected
<1> DEFINE r == render_table(p, part)
           key == <<p.shows, p.number, part>>
           expected == row_indices_for_selected_ids(part, p.selected)
           seed == p.visible # part \/ p.pending
           rows == IF seed THEN expected ELSE held(p, part)
           selected == IF seed THEN p.selected
                       ELSE merge_visible_page_selection(p.selected, part, held(p, part))
<1>1. CASE part = <<>>
  <2>1. r = [p EXCEPT !.visible = <<>>, !.pending = FALSE, !.key = NONE, !.rows = {}]
    BY <1>1 DEF render_table
  <2>2. r \in Page
    BY <2>1, Blank DEF Page
  <2>3. /\ r.visible = part /\ ~r.pending /\ r.number = p.number /\ r.filter = p.filter
        /\ r.sort = p.sort /\ r.shows = p.shows /\ r.rows = {} /\ r.selected = p.selected
    BY <1>1, <2>1 DEF Page
  <2> QED BY <1>1, <2>2, <2>3 DEF clicks
<1>2. CASE part # <<>>
  <2>1. key \in Nat \X Nat \X Seq(Nat) /\ p.selected \in Selections
    BY DEF Page
  <2>2. ~seed => held(p, part) \in SUBSET DOMAIN part
    BY <1>2 DEF held
  <2>3. rows \in SUBSET DOMAIN part /\ selected \in Selections
        /\ {part[n] : n \in rows} = selected \cap ToSet(part)
    <3>1. CASE seed
      BY <2>1, <3>1, Ticks
    <3>2. CASE ~seed
      BY <2>1, <2>2, <3>2, Ticks
    <3> QED BY <3>1, <3>2
  <2>4. r = [p EXCEPT !.key = key, !.rows = rows, !.visible = part, !.pending = seed /\ rows # expected,
                      !.selected = selected]
    BY <1>2 DEF render_table, held
  <2>5. (seed /\ rows # expected) = FALSE
    OBVIOUS
  <2>6. selected = IF clicks(p, part)
                   THEN merge_visible_page_selection(p.selected, part, held(p, part))
                   ELSE p.selected
    BY <1>2 DEF clicks
  <2>7. rows \in SUBSET Nat
    BY <2>3
  <2>8. r = [p EXCEPT !.key = key, !.rows = rows, !.visible = part, !.pending = FALSE, !.selected = selected]
    BY <2>4, <2>5
  <2> HIDE DEF r, key, expected, seed, rows, selected
  <2>9. r \in Page
    BY <2>1, <2>3, <2>7, <2>8 DEF Page
  <2>10. /\ r.key = key /\ r.rows = rows /\ r.visible = part /\ ~r.pending /\ r.selected = selected
    BY <2>8 DEF Page
  <2>11. r.number = p.number /\ r.filter = p.filter /\ r.sort = p.sort /\ r.shows = p.shows
    BY <2>8 DEF Page
  <2> QED BY <2>3, <2>6, <2>9, <2>10, <2>11 DEF r, key
<1> QED BY <1>1, <1>2

\* _render_pagination changes nothing but the numbers of the pages.
LEMMA CapNumber ==
  ASSUME NEW p \in Page, NEW pages \in Nat
  PROVE  LET c == cap_number(p, pages)
         IN  /\ c \in Page
             /\ c.visible = p.visible /\ c.pending = p.pending /\ c.filter = p.filter /\ c.sort = p.sort
             /\ c.shows = p.shows /\ c.rows = p.rows /\ c.key = p.key /\ c.selected = p.selected
             /\ p.number <= pages => c.number = p.number
<1> DEFINE c == cap_number(p, pages)
           number == IF pages = 0 THEN 1 ELSE IF p.number > pages THEN pages ELSE p.number
<1>1. number \in Nat \ {0} /\ (p.number <= pages => number = p.number)
  BY DEF Page
<1>2. c = [p EXCEPT !.pages = pages, !.number = number]
  BY DEF cap_number
<1> HIDE DEF c, number
<1>3. c \in Page
  BY <1>1, <1>2 DEF Page
<1>4. /\ c.visible = p.visible /\ c.pending = p.pending /\ c.filter = p.filter /\ c.sort = p.sort
      /\ c.shows = p.shows /\ c.rows = p.rows /\ c.key = p.key /\ c.selected = p.selected
      /\ c.number = number
  BY <1>2 DEF Page
<1> QED BY <1>1, <1>3, <1>4 DEF c

----------------------------------------------------------------------------
(***************************************************************************)
(* Clicks on the page                                                      *)
(***************************************************************************)

\* The snapshot is one of the world's.
Placed ==
  /\ shelf \in Worlds
  /\ latest \in 1 .. Len(shelf.snapshots)
  /\ snapshot = shelf.snapshots[latest]

\* The rows are the page of rules that the filter leaves now.
Fresh ==
  /\ page.filter.zones \subseteq ids_of(snapshot.zones)
  /\ page.filter.objects \subseteq ids_of(snapshot.objects)
  /\ page.visible # <<>> =>
       \A f, sort, number : page.filter = f /\ page.sort = sort /\ page.number = number =>
          page.visible = page_of(list_filtered(f, sort), PageSize, number)

\* The part of an open page in SelectionFollowsClicks.
Follows ==
  /\ page.selected \subseteq ticked
  /\ ~left => page.selected = ticked
  /\ page.visible # <<>> =>
       {page.visible[n] : n \in page.rows} = page.selected \cap ToSet(page.visible)

InStep ==
  /\ page \in Page /\ ~page.pending /\ page.shows <= latest
  /\ page.rows \subseteq DOMAIN page.visible
  /\ \A m, n \in DOMAIN page.visible : page.visible[m] = page.visible[n] => m = n
  /\ page.visible # <<>> => page.key = <<page.shows, page.number, page.visible>>
  /\ page.shows = latest => Fresh
  /\ Follows

PageInv == Placed /\ (page # NONE => InStep)

\* What a list of rules shows depends on the snapshot alone.
LEMMA SameRules ==
  ASSUME snapshot' = snapshot
  PROVE  /\ \A f, sort : list_filtered(f, sort)' = list_filtered(f, sort)
         /\ ids_of(snapshot.zones)' = ids_of(snapshot.zones)
         /\ ids_of(snapshot.objects)' = ids_of(snapshot.objects)
<1>3. \A ids : expand_operand_object_ids(ids)' = expand_operand_object_ids(ids)
  BY DEF expand_operand_object_ids, closure
<1>4. \A u, s : passes_search(u, s)' <=> passes_search(u, s)
  BY <1>3 DEF passes_search
<1>5. \A u, f : passes(u, f)' <=> passes(u, f)
  BY <1>3, <1>4 DEF passes
<1>6. \A f : passing(f)' = passing(f)
  BY <1>5 DEF passing
<1>7. \A f, sort : list_filtered(f, sort)' = list_filtered(f, sort)
  BY <1>6 DEF list_filtered
<1> QED BY <1>7 DEF ids_of

\* The rules of the snapshots of a world can be put in order.
LEMMA PlacedOrdered == ASSUME Placed PROVE Ordered(snapshot.rules) /\ latest \in Nat
  BY WorldsAssumption DEF Placed, well_formed, Ordered

\* What a run shows.
now_shown(p) == page_of(shown_rules(valid_options(p)), PageSize, p.number)

now_selected(p) ==
  IF clicks(p, now_shown(p))
  THEN merge_visible_page_selection(p.selected, now_shown(p), held(p, now_shown(p)))
  ELSE p.selected

\* A run keeps the page in step when what it selects is what is ticked.
LEMMA RunKeeps ==
  ASSUME Placed, NEW p \in Page, p.visible # <<>> => p.rows \subseteq DOMAIN p.visible, p.shows = latest,
         snapshot' = snapshot, latest' = latest,
         page' = cap_number(render_table(valid_options(p), now_shown(p)), pages_of(shown_rules(valid_options(p)))),
         now_selected(p) \subseteq ticked', ~left' => now_selected(p) = ticked'
  PROVE  InStep'
<1> DEFINE v == valid_options(p)
           ids == shown_rules(v)
           part == now_shown(p)
           r == render_table(v, part)
<1>1. /\ v \in Page /\ v.number = p.number /\ v.sort = p.sort
      /\ v.selected = p.selected /\ v.visible = p.visible
      /\ v.key = p.key /\ v.rows = p.rows /\ v.pending = p.pending /\ v.shows = p.shows
  BY ValidType
<1>2. /\ v.filter.zones \subseteq ids_of(snapshot.zones)
      /\ v.filter.objects \subseteq ids_of(snapshot.objects)
  <2>1. v.filter =
          [rule_ids |-> p.filter.rule_ids, search |-> p.filter.search, facets |-> p.filter.facets,
           zones |-> p.filter.zones \cap ids_of(snapshot.zones),
           objects |-> p.filter.objects \cap ids_of(snapshot.objects)]
    BY ValidType
  <2> QED BY <2>1
<1>3. ids \in Seq(Nat) /\ \A m, n \in DOMAIN ids : ids[m] = ids[n] => m = n
  BY PlacedOrdered, Listed DEF shown_rules
<1>4. p.number \in Nat \ {0}
  BY DEF Page
<1>5. part = page_of(ids, PageSize, p.number)
  BY DEF now_shown
<1> HIDE DEF v, ids, part
<1>6. /\ part \in Seq(Nat)
      /\ \A m, n \in DOMAIN part : part[m] = part[n] => m = n
      /\ part # <<>> => p.number <= pages_of(ids)
      /\ pages_of(ids) \in Nat
  BY <1>3, <1>4, <1>5, PageOf
<1>7. /\ r \in Page
      /\ r.visible = part /\ ~r.pending /\ r.number = p.number /\ r.filter = v.filter
      /\ r.sort = v.sort /\ r.shows = latest
      /\ r.rows \subseteq DOMAIN part
      /\ part # <<>> => /\ r.key = <<latest, p.number, part>>
                        /\ {part[n] : n \in r.rows} = r.selected \cap ToSet(part)
      /\ r.selected = IF clicks(v, part)
                      THEN merge_visible_page_selection(v.selected, part, held(v, part))
                      ELSE v.selected
  BY <1>1, <1>6, RenderTable
<1>8. r.selected = now_selected(p)
  BY <1>1, <1>7 DEF now_selected, clicks, held, part
<1>9. page' = cap_number(r, pages_of(ids))
  BY DEF v, ids, part
<1> HIDE DEF r
<1>10. /\ page' \in Page
       /\ page'.visible = part /\ ~page'.pending /\ page'.filter = v.filter
       /\ page'.sort = v.sort /\ page'.shows = latest /\ page'.rows = r.rows /\ page'.key = r.key
       /\ page'.selected = now_selected(p)
       /\ part # <<>> => page'.number = p.number
  <2>1. LET c == cap_number(r, pages_of(ids))
        IN  /\ c \in Page
            /\ c.visible = r.visible /\ c.pending = r.pending /\ c.filter = r.filter /\ c.sort = r.sort
            /\ c.shows = r.shows /\ c.rows = r.rows /\ c.key = r.key /\ c.selected = r.selected
            /\ r.number <= pages_of(ids) => c.number = r.number
    BY <1>6, <1>7, CapNumber
  <2> QED BY <1>6, <1>7, <1>8, <1>9, <2>1
<1>11. Fresh'
  <2>1. /\ page'.filter.zones \subseteq ids_of(snapshot.zones)'
        /\ page'.filter.objects \subseteq ids_of(snapshot.objects)'
    BY <1>2, <1>10, SameRules
  <2>2. part # <<>> =>
          \A f, sort, number : page'.filter = f /\ page'.sort = sort /\ page'.number = number =>
             page'.visible = page_of(list_filtered(f, sort), PageSize, number)'
    <3> SUFFICES ASSUME part # <<>> PROVE part = page_of(list_filtered(v.filter, v.sort), PageSize, p.number)
      BY <1>10, SameRules DEF page_of
    <3> QED BY <1>5 DEF ids, shown_rules
  <2> QED BY <1>10, <2>1, <2>2 DEF Fresh
<1>12. Follows'
  BY <1>7, <1>8, <1>10 DEF Follows
<1>13. latest' \in Nat /\ page'.shows <= latest'
  BY <1>10, PlacedOrdered
<1> QED BY <1>6, <1>7, <1>10, <1>11, <1>12, <1>13 DEF InStep

\* Where nothing was shown no click counts.
LEMMA NoClicks == ASSUME NEW p, p.visible = <<>> PROVE now_selected(p) = p.selected
  BY DEF now_selected, clicks

\* A run keeps the page in step, on another snapshot as well.
LEMMA RerunKeeps ==
  ASSUME Placed, NEW p \in Page, p.visible # <<>> => p.rows \subseteq DOMAIN p.visible, NEW t, Rerun(p, t),
         p.shows = latest => now_selected(p) \subseteq t /\ (~left' => now_selected(p) = t)
  PROVE  PageInv'
<1> DEFINE q == sync(p)
<1>1. /\ snapshot' = snapshot /\ shelf' = shelf /\ latest' = latest
      /\ ticked' = IF p.shows = latest THEN t ELSE {}
      /\ page' = cap_number(render_table(valid_options(q), now_shown(q)),
                            pages_of(shown_rules(valid_options(q))))
  <2>1. valid_options(q).number = q.number
    BY PlacedOrdered, SyncType, ValidType
  <2> QED BY <2>1 DEF Rerun, render, now_shown
<1>2. Placed'
  BY <1>1 DEF Placed
<1>3. /\ q \in Page /\ q.shows = latest
      /\ p.shows = latest => q = p
      /\ p.shows # latest => /\ q.selected = {} /\ q.visible = <<>> /\ ~q.pending
                             /\ q.rows = {}
  BY PlacedOrdered, SyncType
<1> HIDE DEF q
<1>4. now_selected(q) \subseteq ticked' /\ (~left' => now_selected(q) = ticked')
  BY <1>1, <1>3, NoClicks
<1>5. q.visible # <<>> => q.rows \subseteq DOMAIN q.visible
  BY <1>3
<1>6. InStep'
  BY <1>1, <1>3, <1>4, <1>5, RunKeeps
<1> QED BY <1>2, <1>6 DEF PageInv

\* What leaves the rows, their ticks and their key alone leaves the selection alone.
LEMMA SameTicks ==
  ASSUME InStep, NEW p, p.visible = page.visible, p.rows = page.rows, p.key = page.key,
         p.selected = page.selected, p.number = page.number, p.shows = page.shows
  PROVE  now_selected(p) = page.selected
<1>1. CASE clicks(p, now_shown(p))
  <2>1. now_shown(p) = page.visible /\ page.visible # <<>>
    BY <1>1 DEF clicks
  <2>2. held(p, page.visible) = page.rows
    BY <2>1 DEF held, InStep
  <2>3. now_selected(p) = (page.selected \ ToSet(page.visible)) \cup {page.visible[n] : n \in page.rows}
    BY <1>1, <2>1, <2>2 DEF now_selected, merge_visible_page_selection
  <2> QED BY <2>1, <2>3 DEF InStep, Follows
<1>2. CASE ~clicks(p, now_shown(p))
  BY <1>2 DEF now_selected
<1> QED BY <1>1, <1>2

\* A page that opens, with or without a link, is in step.
LEMMA OpenKeeps == ASSUME PageInv, OpenPage PROVE PageInv'
<1> DEFINE e == [EmptyPage EXCEPT !.shows = latest]
<1>1. latest \in Nat
  BY PlacedOrdered DEF PageInv
<1>2. e \in Page /\ e.visible = <<>> /\ e.selected = {} /\ e.rows = {}
  BY <1>1, Blank, NoFilterType DEF EmptyPage, Page
<1> HIDE DEF e
<1>3. ASSUME NEW p \in Page, p.visible = <<>>, p.selected = {}, p.rows = {}, Rerun(p, {})
      PROVE  PageInv'
  BY <1>3, NoClicks, RerunKeeps DEF PageInv
<1>4. CASE Rerun(e, {})
  BY <1>2, <1>3, <1>4
<1>5. ASSUME NEW link \in shelf.links, Rerun(apply_link(e, link), {})
      PROVE  PageInv'
  <2>1. is_link(link)
    BY WorldsAssumption DEF PageInv, Placed
  <2> QED BY <1>2, <1>3, <1>5, <2>1, LinkType
<1> QED BY <1>4, <1>5 DEF OpenPage, e

\* Another filter leaves the page in step.
LEMMA SetFilterKeeps == ASSUME PageInv, SetFilter PROVE PageInv'
<1>1. PICK f \in shelf.filters :
        Rerun([page EXCEPT !.filter = [f EXCEPT !.rule_ids = page.filter.rule_ids]], ticked)
  BY DEF SetFilter
<1> DEFINE g == [f EXCEPT !.rule_ids = page.filter.rule_ids]
           p == [page EXCEPT !.filter = g]
<1>2. InStep /\ page \in Page /\ left' = left /\ page.filter \in Filter
  BY DEF PageInv, SetFilter, InStep, Page
<1>3. g \in Filter
  <2>1. is_filter(f) /\ f.search \in Searches /\ f.facets \in FacetSets
    BY WorldsAssumption DEF PageInv, Placed, Searches, FacetSets
  <2>2. f \in [rule_ids: SUBSET Nat, search: {f.search}, facets: {f.facets}, zones: SUBSET Nat,
               objects: SUBSET Nat]
    BY <2>1 DEF is_filter
  <2>3. f \in Filter
    BY <2>1, <2>2 DEF Filter
  <2> QED BY <1>2, <2>3 DEF Filter
<1> HIDE DEF g
<1>4. p \in Page
  BY <1>2, <1>3 DEF Page
<1>5. /\ p.visible = page.visible /\ p.rows = page.rows /\ p.key = page.key
      /\ p.selected = page.selected /\ p.number = page.number /\ p.shows = page.shows
  BY <1>2 DEF Page
<1>6. Rerun(p, ticked)
  BY <1>1 DEF g
<1> HIDE DEF p
<1>7. now_selected(p) = page.selected
  BY <1>2, <1>5, SameTicks
<1> QED BY <1>2, <1>4, <1>5, <1>6, <1>7, RerunKeeps DEF PageInv, InStep, Follows

\* So does another order,
LEMMA SetSortKeeps == ASSUME PageInv, SetSort PROVE PageInv'
<1>1. PICK s \in shelf.sorts : Rerun([page EXCEPT !.sort = s], ticked)
  BY DEF SetSort
<1> DEFINE p == [page EXCEPT !.sort = s]
<1>2. InStep /\ page \in Page /\ left' = left
  BY DEF PageInv, SetSort, InStep
<1>3. p \in Page
  BY <1>2 DEF Page, PageInv, Placed
<1>4. /\ p.visible = page.visible /\ p.rows = page.rows /\ p.key = page.key
      /\ p.selected = page.selected /\ p.number = page.number /\ p.shows = page.shows
  BY <1>2 DEF Page
<1>5. Rerun(p, ticked)
  BY <1>1
<1> HIDE DEF p
<1>6. now_selected(p) = page.selected
  BY <1>2, <1>4, SameTicks
<1> QED BY <1>2, <1>3, <1>4, <1>5, <1>6, RerunKeeps DEF PageInv, InStep, Follows

\* the reset,
LEMMA ResetKeeps == ASSUME PageInv, Reset PROVE PageInv'
<1>1. InStep /\ page \in Page /\ left' = left
  BY DEF PageInv, Reset, InStep
<1> DEFINE p == reset_filters(page)
<1>2. p \in Page /\ p.visible = <<>> /\ p.selected = page.selected /\ p.shows = page.shows /\ p.rows = {}
  BY <1>1, ResetType
<1>3. Rerun(p, ticked)
  BY DEF Reset
<1> HIDE DEF p
<1> QED BY <1>1, <1>2, <1>3, NoClicks, RerunKeeps DEF PageInv, InStep, Follows

\* another page of the list,
LEMMA TurnPageKeeps == ASSUME PageInv, TurnPage PROVE PageInv'
<1>1. PICK number \in 1 .. page.pages : Rerun(turn_to(number), ticked)
  BY DEF TurnPage
<1>2. InStep /\ page \in Page /\ left' = left
  BY DEF PageInv, TurnPage, InStep
<1> DEFINE p == turn_to(number)
<1>3. number \in Nat \ {0}
  BY <1>2 DEF Page
<1>4. p \in Page
  BY <1>2, <1>3, Blank DEF turn_to, Page
<1>5. p.visible = <<>> /\ p.selected = page.selected /\ p.shows = page.shows
  BY <1>2 DEF turn_to, Page
<1>6. Rerun(p, ticked)
  BY <1>1
<1> HIDE DEF p
<1> QED BY <1>2, <1>4, <1>5, <1>6, NoClicks, RerunKeeps DEF PageInv, InStep, Follows

\* leaving the page and coming back,
LEMMA LeaveKeeps == ASSUME PageInv, LeaveAndReturn PROVE PageInv'
<1> DEFINE g == [page.filter EXCEPT !.search = NoFilter.search, !.facets = NoFacets]
           p == [page EXCEPT !.rows = {}, !.sort = "default", !.filter = g]
<1>1. InStep /\ page \in Page /\ left' = TRUE /\ page.filter \in Filter
  BY DEF PageInv, LeaveAndReturn, InStep, Page
<1>2. g \in Filter
  BY <1>1 DEF Filter, Searches, FacetSets
<1>3. Rerun(p, ticked)
  BY DEF LeaveAndReturn
<1> HIDE DEF g
<1>4. p \in Page
  BY <1>1, <1>2 DEF Page
<1>5. p.selected = page.selected /\ p.rows = {}
  BY <1>1 DEF Page
<1> HIDE DEF p
<1>6. now_selected(p) \subseteq page.selected
  BY <1>5 DEF now_selected, merge_visible_page_selection, held
<1> QED BY <1>1, <1>3, <1>4, <1>5, <1>6, RerunKeeps DEF PageInv, InStep, Follows

\* and another snapshot, which the page takes up with its next run.
LEMMA NewSnapshotKeeps == ASSUME PageInv, NewSnapshot PROVE PageInv'
<1>1. /\ latest < Len(shelf.snapshots) /\ latest' = latest + 1 /\ snapshot' = shelf.snapshots[latest']
      /\ shelf' = shelf /\ page' = page /\ ticked' = ticked /\ left' = left /\ page # NONE
  BY DEF NewSnapshot
<1>2. /\ shelf \in Worlds /\ latest \in 1 .. Len(shelf.snapshots)
      /\ Len(shelf.snapshots) \in Nat
  BY WorldsAssumption DEF PageInv, Placed
<1>3. Placed'
  BY <1>1, <1>2 DEF Placed
<1>4. InStep
  BY <1>1 DEF PageInv
<1>5. page'.shows <= latest' /\ page'.shows # latest'
  BY <1>1, <1>2, <1>4 DEF InStep, Page
<1>6. Follows'
  BY <1>1, <1>4 DEF InStep, Follows
<1>7. InStep'
  BY <1>1, <1>4, <1>5, <1>6 DEF InStep
<1> QED BY <1>3, <1>7 DEF PageInv

\* A click on a row of the snapshot that the page shows reaches the selection.
LEMMA TickKeeps == ASSUME PageInv, Tick PROVE PageInv'
<1>1. /\ InStep /\ page \in Page /\ left' = left /\ page.visible # <<>>
      /\ page.visible \in Seq(Nat) /\ page.rows \subseteq DOMAIN page.visible
  BY DEF PageInv, Tick, InStep, Page
<1>2. PICK n \in DOMAIN page.visible :
        Rerun([page EXCEPT !.rows = IF n \in page.rows THEN page.rows \ {n} ELSE page.rows \cup {n}],
              IF n \in page.rows THEN ticked \ {page.visible[n]} ELSE ticked \cup {page.visible[n]})
  BY DEF Tick
<1> DEFINE rows == IF n \in page.rows THEN page.rows \ {n} ELSE page.rows \cup {n}
           t == IF n \in page.rows THEN ticked \ {page.visible[n]} ELSE ticked \cup {page.visible[n]}
           p == [page EXCEPT !.rows = rows]
<1>3. rows \subseteq DOMAIN page.visible /\ rows \in SUBSET Nat
  BY <1>1
<1>4. Rerun(p, t)
  BY <1>2
<1>5. {page.visible[m] : m \in rows} =
        IF n \in page.rows THEN {page.visible[m] : m \in page.rows} \ {page.visible[n]}
        ELSE {page.visible[m] : m \in page.rows} \cup {page.visible[n]}
  BY <1>1 DEF InStep
<1> HIDE DEF rows
<1>6. p \in Page
  BY <1>1, <1>3 DEF Page
<1>7. /\ p.visible = page.visible /\ p.rows = rows /\ p.key = page.key /\ p.pending = page.pending
      /\ p.selected = page.selected /\ p.number = page.number /\ p.shows = page.shows
      /\ p.filter = page.filter /\ p.sort = page.sort
  BY <1>1 DEF Page
<1> HIDE DEF p
<1>8. ASSUME p.shows = latest
      PROVE  now_selected(p) \subseteq t /\ (~left' => now_selected(p) = t)
  <2>1. Fresh
    BY <1>1, <1>7, <1>8 DEF InStep
  <2>2. valid_options(p).filter = page.filter
    <3>1. page.filter \in Filter
      BY <1>1 DEF Page
    <3>2. page.filter = [rule_ids |-> page.filter.rule_ids, search |-> page.filter.search,
                         facets |-> page.filter.facets, zones |-> page.filter.zones,
                         objects |-> page.filter.objects]
      BY <3>1 DEF Filter
    <3>3. /\ page.filter.zones \cap ids_of(snapshot.zones) = page.filter.zones
          /\ page.filter.objects \cap ids_of(snapshot.objects) = page.filter.objects
      BY <2>1 DEF Fresh
    <3> QED BY <1>6, <1>7, <3>2, <3>3, ValidType
  <2>3. valid_options(p).sort = page.sort
    BY <1>6, <1>7, ValidType
  <2>4. now_shown(p) = page.visible
    BY <1>1, <1>7, <2>1, <2>2, <2>3 DEF Fresh, now_shown, shown_rules
  <2>5. clicks(p, now_shown(p)) /\ held(p, page.visible) = rows
    BY <1>1, <1>7, <2>4 DEF clicks, held, InStep
  <2>6. now_selected(p) = (page.selected \ ToSet(page.visible)) \cup {page.visible[m] : m \in rows}
    BY <1>7, <2>4, <2>5 DEF now_selected, merge_visible_page_selection
  <2>7. {page.visible[m] : m \in page.rows} = page.selected \cap ToSet(page.visible)
    BY <1>1 DEF InStep, Follows
  <2>8. page.visible[n] \in ToSet(page.visible)
    BY DEF ToSet
  <2>9. now_selected(p) = IF n \in page.rows THEN page.selected \ {page.visible[n]}
                          ELSE page.selected \cup {page.visible[n]}
    BY <1>5, <2>6, <2>7, <2>8
  <2> QED BY <1>1, <2>9 DEF InStep, Follows
<1> QED BY <1>3, <1>4, <1>6, <1>7, <1>8, RerunKeeps DEF PageInv

\* Every step keeps the page in step.
LEMMA NextKeeps == PageInv /\ [Next]_vars => PageInv'
<1> SUFFICES ASSUME PageInv, [Next]_vars PROVE PageInv'
  OBVIOUS
<1>1. ASSUME snapshot' = snapshot, shelf' = shelf, latest' = latest, ticked' = ticked, left' = left,
             page' = page \/ page' = NONE
      PROVE  PageInv'
  <2>1. Placed'
    BY <1>1 DEF PageInv, Placed
  <2>2. CASE page' = NONE
    BY <2>1, <2>2 DEF PageInv
  <2>3. CASE page' = page /\ page # NONE
    <3>1. Fresh => Fresh'
      BY <1>1, <2>3, SameRules DEF Fresh, page_of
    <3> QED BY <1>1, <2>1, <2>3, <3>1 DEF PageInv, InStep, Follows
  <2> QED BY <1>1, <2>2, <2>3
<1>2. CASE UNCHANGED vars \/ Working
  BY <1>1, <1>2 DEF vars, pageVars, Working
<1>3. CASE Generate \/ MapByApi
  BY <1>1, <1>3 DEF Generate, MapByApi, MapRules
<1>4. CASE Picking
  BY <1>4, OpenKeeps, TickKeeps, SetFilterKeeps, SetSortKeeps, ResetKeeps, TurnPageKeeps, LeaveKeeps,
     NewSnapshotKeeps DEF Picking, PageNext
<1> QED BY <1>2, <1>3, <1>4 DEF Next

\* At the start there is no page.
LEMMA InitKeeps == Init => PageInv
  BY WorldsAssumption DEF Init, InitIn, PageInv, Placed

\* The page on which rules are picked never selects a rule that was not ticked, loses no tick
\* unless the page was left meanwhile, and ticks in its table what is selected: rows are told
\* by number, across paging, filters, sorts and new snapshots, for any page size and world.
THEOREM SelectionFollowsClicksHolds == Spec => []SelectionFollowsClicks
<1>1. PageInv => SelectionFollowsClicks
  BY DEF PageInv, InStep, Follows, SelectionFollowsClicks
<1> QED BY <1>1, InitKeeps, NextKeeps, PTL DEF Spec

----------------------------------------------------------------------------
(***************************************************************************)
(* Walking the membership                                                  *)
(***************************************************************************)

\* One step along links.
below_of(set, links) == {l[2] : l \in {k \in links : k[1] \in set}}

\* No link leads out of the set.
closed(set, links) == \A l \in links : l[1] \in set => l[2] \in set

\* The sets a walk along links goes through.
LEMMA ClosureSteps ==
  ASSUME NEW links, NEW ids, Cardinality(snapshot.objects) \in Nat
  PROVE  \E step : /\ step[0] = ids
                   /\ \A n \in 1 .. Cardinality(snapshot.objects) :
                        step[n] = step[n - 1] \cup below_of(step[n - 1], links)
                   /\ closure(links, ids) = step[Cardinality(snapshot.objects)]
<1> DEFINE N == Cardinality(snapshot.objects)
           body(d) == [n \in 0 .. N |->
                         IF n = 0 THEN ids
                         ELSE LET before == d[n - 1]
                              IN  before \cup {l[2] : l \in {k \in links : k[1] \in before}}]
           step == CHOOSE d : d = body(d)
           V == ids \cup {l[2] : l \in links}
           F == [set \in SUBSET V |-> set \cup below_of(set, links)]
<1>1. closure(links, ids) = step[N]
  BY DEF closure
<1>2. PICK f \in [0 .. N -> SUBSET V] : f[0] = ids /\ \A n \in 1 .. N : f[n] = F[f[n - 1]]
  <2> DEFINE S == SUBSET V
  <2>1. ids \in S
    OBVIOUS
  <2>2. F \in [S -> S]
    BY DEF below_of
  <2> HIDE DEF F, N, step, S
  <2>3. \E f \in [0 .. N -> S] : iterates(f, ids, F, N)
    BY <2>1, <2>2, Iterate DEF N
  <2> QED BY <2>3 DEF S, iterates
<1>3. N \in Nat
  OBVIOUS
<1> HIDE DEF N
<1>4. ASSUME NEW n \in 1 .. N PROVE f[n] = f[n - 1] \cup below_of(f[n - 1], links)
  <2>1. n - 1 \in 0 .. N
    BY <1>3
  <2>2. f[n - 1] \in SUBSET V
    BY <1>2, <2>1
  <2> QED BY <1>2, <2>2
<1>5. f = body(f)
  <2>1. ASSUME NEW n \in 0 .. N PROVE f[n] = body(f)[n]
    BY <1>2, <1>3, <1>4 DEF below_of
  <2> HIDE DEF V, F
  <2> QED BY <1>2, <2>1
<1>6. step = body(step)
  <2> HIDE DEF body
  <2> QED BY <1>5
<1>7. step[0] = ids
  <2>1. 0 \in 0 .. N
    BY <1>3
  <2>2. body(step)[0] = ids
    <3> HIDE DEF step
    <3> QED BY <2>1
  <2> HIDE DEF step, body
  <2> QED BY <1>6, <2>2
<1>8. ASSUME NEW n \in 1 .. N PROVE step[n] = step[n - 1] \cup below_of(step[n - 1], links)
  <2>1. n \in 0 .. N /\ n # 0
    BY <1>3
  <2>2. body(step)[n] = step[n - 1] \cup below_of(step[n - 1], links)
    <3> HIDE DEF step
    <3> QED BY <2>1 DEF below_of
  <2> HIDE DEF step, body
  <2> QED BY <1>6, <2>2
<1> QED BY <1>1, <1>7, <1>8 DEF N

\* What is reached is in every closed set that holds the start.
LEMMA ClosureLeast ==
  ASSUME NEW links, NEW ids, Cardinality(snapshot.objects) \in Nat,
         NEW set, ids \subseteq set, closed(set, links)
  PROVE  closure(links, ids) \subseteq set
<1> DEFINE N == Cardinality(snapshot.objects)
<1>1. PICK step : /\ step[0] = ids
                  /\ \A n \in 1 .. N : step[n] = step[n - 1] \cup below_of(step[n - 1], links)
                  /\ closure(links, ids) = step[N]
  BY ClosureSteps
<1>2. N \in Nat
  OBVIOUS
<1> HIDE DEF N
<1> DEFINE D == {n \in 0 .. N : step[n] \subseteq set}
<1>3. 0 \in D
  BY <1>1, <1>2
<1>4. ASSUME NEW n \in 0 .. N - 1, n \in D PROVE n + 1 \in D
  <2>1. n + 1 \in 1 .. N /\ (n + 1) - 1 = n
    BY <1>2
  <2>2. step[n + 1] = step[n] \cup below_of(step[n], links)
    BY <1>1, <2>1
  <2> QED BY <1>4, <2>1, <2>2 DEF below_of, closed
<1>5. 0 .. N \subseteq D
  <2> HIDE DEF D
  <2> QED BY <1>2, <1>3, <1>4, SetInduction
<1> QED BY <1>1, <1>2, <1>5

\* There are not more ids of objects than objects.
LEMMA ObjectIds ==
  ASSUME well_formed(snapshot)
  PROVE  /\ Cardinality(snapshot.objects) \in Nat
         /\ IsFiniteSet(ids_of(snapshot.objects))
         /\ Cardinality(ids_of(snapshot.objects)) <= Cardinality(snapshot.objects)
<1> DEFINE S == snapshot.objects
           T == ids_of(snapshot.objects)
           f == [o \in S |-> o.id]
<1>1. IsFiniteSet(S)
  BY DEF well_formed
<1>2. f \in Surjection(S, T)
  BY DEF Surjection, ids_of
<1> HIDE DEF S, T, f
<1> QED BY <1>1, <1>2, FS_Surjection, FS_CardinalityType DEF S, T

\* It is such a set itself: so many rounds are enough.
LEMMA ClosureClosed ==
  ASSUME well_formed(snapshot), NEW ids, ids \subseteq ids_of(snapshot.objects),
         NEW links, links \subseteq ids_of(snapshot.objects) \X ids_of(snapshot.objects)
  PROVE  /\ ids \subseteq closure(links, ids)
         /\ closure(links, ids) \subseteq ids_of(snapshot.objects)
         /\ closed(closure(links, ids), links)
<1> DEFINE N == Cardinality(snapshot.objects)
           U == ids_of(snapshot.objects)
<1>1. N \in Nat /\ IsFiniteSet(U) /\ Cardinality(U) <= N
  BY ObjectIds
<1>2. PICK step : /\ step[0] = ids
                  /\ \A n \in 1 .. N : step[n] = step[n - 1] \cup below_of(step[n - 1], links)
                  /\ closure(links, ids) = step[N]
  BY ObjectIds, ClosureSteps
<1>3. closure(links, ids) \subseteq U
  <2>1. closed(U, links)
    BY DEF closed
  <2> HIDE DEF U
  <2> QED BY <1>1, <2>1, ClosureLeast DEF U
<1>4. ids \subseteq U /\ \A l \in links : l[2] \in U
  OBVIOUS
<1> HIDE DEF N, U
<1> DEFINE big(n) == Cardinality(step[n]) >= n + 1
           D == {n \in 0 .. N : ids \subseteq step[n] /\ step[n] \subseteq U /\ (closed(step[n], links) \/ big(n))}
<1>5. 0 \in D
  <2>1. CASE ids = {}
    BY <1>1, <1>2, <2>1 DEF closed
  <2>2. CASE ids # {}
    <3>1. PICK i \in ids : TRUE
      BY <2>2
    <3>2. IsFiniteSet(ids)
      BY <1>1, <1>4, FS_Subset
    <3>4. {i} \in SUBSET ids
      BY <3>1
    <3>5. Cardinality({i}) <= Cardinality(ids)
      BY <3>2, <3>4, FS_Subset
    <3>6. Cardinality({i}) = 1
      BY FS_Singleton
    <3>3. big(0)
      BY <1>2, <3>2, <3>5, <3>6, FS_CardinalityType
    <3> QED BY <1>1, <1>2, <1>4, <3>3
  <2> QED BY <2>1, <2>2
<1>6. ASSUME NEW n \in 0 .. N - 1, n \in D PROVE n + 1 \in D
  <2>1. n + 1 \in 1 .. N /\ (n + 1) - 1 = n /\ n \in 0 .. N
    BY <1>1
  <2>2. step[n + 1] = step[n] \cup below_of(step[n], links)
    BY <1>2, <2>1
  <2>3. CASE closed(step[n], links)
    <3>1. step[n + 1] = step[n]
      BY <2>2, <2>3 DEF below_of, closed
    <3> QED BY <1>6, <2>1, <2>3, <3>1
  <2>4. CASE ~closed(step[n], links)
    <3>1. step[n + 1] # step[n] /\ step[n] \in SUBSET step[n + 1]
      BY <2>2, <2>4 DEF below_of, closed
    <3>2. step[n + 1] \subseteq U /\ step[n] \subseteq U
      BY <1>4, <1>6, <2>2 DEF below_of
    <3>3. /\ IsFiniteSet(step[n]) /\ IsFiniteSet(step[n + 1])
          /\ Cardinality(step[n]) \in Nat /\ Cardinality(step[n + 1]) \in Nat
      BY <1>1, <3>2, FS_Subset, FS_CardinalityType
    <3>4. /\ Cardinality(step[n]) <= Cardinality(step[n + 1])
          /\ Cardinality(step[n]) # Cardinality(step[n + 1])
      BY <3>1, <3>3, FS_Subset
    <3>5. Cardinality(step[n]) >= n + 1
      BY <1>6, <2>4
    <3>6. big(n + 1)
      BY <3>3, <3>4, <3>5
    <3> QED BY <1>6, <2>1, <3>1, <3>2, <3>6
  <2> QED BY <2>3, <2>4
<1>7. N \in D
  <2> HIDE DEF D
  <2>1. 0 .. N \subseteq D
    BY <1>1, <1>5, <1>6, SetInduction
  <2> QED BY <1>1, <2>1
<1>8. step[N] \subseteq U
  BY <1>7
<1>9. IsFiniteSet(step[N]) /\ Cardinality(step[N]) \in Nat /\ Cardinality(step[N]) <= Cardinality(U)
      /\ Cardinality(U) \in Nat
  BY <1>1, <1>8, FS_Subset, FS_CardinalityType
<1>10. ~big(N)
  BY <1>1, <1>9
<1> QED BY <1>1, <1>2, <1>7, <1>8, <1>10 DEF U

----------------------------------------------------------------------------
(***************************************************************************)
(* Filters and scopes                                                      *)
(***************************************************************************)

\* Walking up from an object meets a set exactly when walking down from the set finds it.
LEMMA UpAndDown ==
  ASSUME well_formed(snapshot), NEW o \in ids_of(snapshot.objects),
         NEW seeds, seeds \subseteq ids_of(snapshot.objects)
  PROVE  o \in expand_object_groups(seeds) <=> seeds \cap expand_operand_object_ids({o}) # {}
<1> DEFINE links == {<<m[2], m[1]>> : m \in snapshot.members}
           U == ids_of(snapshot.objects)
           up == expand_operand_object_ids({o})
           down == expand_object_groups(seeds)
<1>1. /\ snapshot.members \subseteq U \X U /\ links \subseteq U \X U
      /\ {m \in snapshot.members : m[1] \in groups} = snapshot.members
  BY DEF well_formed, groups, ids_of
<1>2. up = closure(links, {o}) /\ down = closure(snapshot.members, seeds)
  BY <1>1 DEF expand_operand_object_ids, expand_object_groups
<1>3. o \in up /\ closed(up, links)
  <2>1. {o} \subseteq U
    OBVIOUS
  <2> QED BY <1>1, <1>2, <2>1, ClosureClosed
<1>4. seeds \subseteq down /\ closed(down, snapshot.members)
  <2>1. snapshot.members \subseteq U \X U
    BY <1>1
  <2> QED BY <1>2, <2>1, ClosureClosed
<1>5. \A m \in snapshot.members : m[1] \in U /\ m[2] \in U /\ <<m[2], m[1]>> \in links
  BY <1>1
<1>6. \A l \in links : \E m \in snapshot.members : l[1] = m[2] /\ l[2] = m[1]
  OBVIOUS
<1> HIDE DEF links, U, up, down
<1>7. ASSUME seeds \cap up = {} PROVE o \notin down
  <2>1. closed(U \ up, snapshot.members)
    BY <1>3, <1>5 DEF closed
  <2>2. seeds \subseteq U \ up
    BY <1>7 DEF U
  <2> QED BY <1>2, <1>3, <2>1, <2>2, ObjectIds, ClosureLeast
<1>8. ASSUME o \notin down PROVE seeds \cap up = {}
  <2>1. closed(U \ down, links)
    BY <1>4, <1>5, <1>6 DEF closed
  <2>2. {o} \subseteq U \ down
    BY <1>8 DEF U
  <2> QED BY <1>2, <1>4, <2>1, <2>2, ObjectIds, ClosureLeast
<1> QED BY <1>7, <1>8 DEF up, down

\* Only groups and what they hold are walked over.
LEMMA UpStays ==
  ASSUME well_formed(snapshot), NEW o \in ids_of(snapshot.objects)
  PROVE  expand_operand_object_ids({o}) \subseteq ids_of(snapshot.objects)
<1>1. {<<m[2], m[1]>> : m \in snapshot.members} \subseteq ids_of(snapshot.objects) \X ids_of(snapshot.objects)
  BY DEF well_formed, ids_of
<1> QED BY <1>1, ClosureClosed DEF expand_operand_object_ids

\* The filter by one object asks for the groups above it only.
LEMMA ObjectFilter ==
  ASSUME NEW o, NEW u
  PROVE  passes(u, [NoFilter EXCEPT !.objects = {o}]) <=> uses(u, expand_operand_object_ids({o}))
  BY DEF passes, NoFilter, NoFacets, passes_search, passes_facets

\* The filter by an object finds the rules whose scope takes the object in.
LEMMA FilterAgrees ==
  ASSUME well_formed(snapshot), NEW o \in ids_of(snapshot.objects)
  PROVE  passing([NoFilter EXCEPT !.objects = {o}])
           = {u \in snapshot.rules : o \in ids_of(collect_objects(TRUE, {u.id}))}
<1> SUFFICES ASSUME NEW u \in snapshot.rules
             PROVE  uses(u, expand_operand_object_ids({o})) <=> o \in ids_of(collect_objects(TRUE, {u.id}))
  BY ObjectFilter DEF passing
<1> DEFINE seeds == {op.target : op \in {x \in operands_of({u.id}) : x.role \notin ZoneRoles}}
           up == expand_operand_object_ids({o})
<1>1. operands_of({u.id}) = u.operands
  BY DEF operands_of, well_formed
<1>2. \A op \in u.operands :
         op.target \in ids_of(IF op.role \in ZoneRoles THEN snapshot.zones ELSE snapshot.objects)
  BY DEF well_formed
<1>3. ids_of(snapshot.zones) \cap ids_of(snapshot.objects) = {}
  BY DEF well_formed, ids_of
<1>4. seeds \subseteq ids_of(snapshot.objects)
  BY <1>1, <1>2
<1>5. up \subseteq ids_of(snapshot.objects)
  BY UpStays
<1>6. o \in expand_object_groups(seeds) <=> seeds \cap up # {}
  BY <1>4, UpAndDown
<1>7. o \in ids_of(collect_objects(TRUE, {u.id})) <=> o \in expand_object_groups(seeds)
  BY DEF collect_objects, ids_of
<1> HIDE DEF up
<1>8. uses(u, up) <=> seeds \cap up # {}
  BY <1>1, <1>2, <1>3, <1>5 DEF uses
<1> QED BY <1>6, <1>7, <1>8 DEF up

----------------------------------------------------------------------------
(***************************************************************************)
(* What sessions have loaded                                               *)
(***************************************************************************)

\* The records and maps that actions change in part.
IsCache(c) == c = [projection |-> c.projection, details |-> c.details, rows |-> c.rows, seen |-> c.seen]

IsScope(v) ==
  /\ v = [rules |-> v.rules, operands |-> v.operands, results |-> v.results, catalog |-> v.catalog]
  /\ v.results = [i \in DOMAIN v.results |-> v.results[i]]

\* The part of a session in ShownIsCurrent.
CurrentProjection(c) ==
  \A n \in DOMAIN c.projection :
     ~c.projection[n].outdated =>
       ~projection_fails /\ c.projection[n].value = build_projection

CurrentDetails(c) ==
  \A r \in DOMAIN c.details :
     ~c.details[r].outdated =>
       ~details_fail(r) /\ c.details[r].value = build_details(r)

CurrentRows(c) ==
  \A side \in DOMAIN c.rows :
     ~c.rows[side].outdated => c.rows[side].value = catalog_rows(side)

Shown(c) == CurrentProjection(c) /\ CurrentDetails(c) /\ CurrentRows(c)

ShownInv ==
  /\ cache = [s \in Sessions |-> cache[s]]
  /\ \A s \in Sessions : IsCache(cache[s])
  /\ shelf.sessions \subseteq Sessions
  /\ scope # NoScope => IsScope(scope)
  /\ scope = NoScope => cache = [s \in Sessions |-> EmptyCache]
  /\ \A s \in Sessions : Shown(cache[s])

\* What others have changed claims nothing.
AllOutdated(c) ==
  /\ \A n \in DOMAIN c.projection : c.projection[n].outdated
  /\ \A r \in DOMAIN c.details : c.details[r].outdated
  /\ \A side \in DOMAIN c.rows : c.rows[side].outdated

\* After a change by somebody else nothing is claimed to be current.
LEMMA OutdatedAll ==
  ASSUME NEW c, IsCache(c)
  PROVE  IsCache(outdate_all(c)) /\ AllOutdated(outdate_all(c))
<1>1. IsCache(outdate_all(c))
  BY DEF IsCache, outdate_all
<1>2. \A d : \A i \in DOMAIN outdate(d) : outdate(d)[i].outdated
  BY DEF outdate
<1>3. \A d : \A i \in DOMAIN outdate_rows(d) : outdate_rows(d)[i].outdated
  BY DEF outdate_rows
<1> QED BY <1>1, <1>2, <1>3 DEF AllOutdated, outdate_all

\* A scope is not NoScope.
LEMMA ScopeIsThere == ASSUME NEW v, IsScope(v) PROVE v # NoScope
  BY DEF IsScope, NoScope

\* Other results make another scope.
LEMMA Changed == ASSUME NEW v, IsScope(v), NEW w, w = [i \in DOMAIN w |-> w[i]] PROVE IsScope([v EXCEPT !.results = w])
  BY DEF IsScope

\* A map with one more entry.
LEMMA Over == ASSUME NEW c, NEW r, NEW v
  PROVE  /\ DOMAIN over(c, entry(r, v)) = DOMAIN c \cup {r}
         /\ over(c, entry(r, v))[r] = v
         /\ \A q \in DOMAIN c \ {r} : over(c, entry(r, v))[q] = c[q]
  BY DEF over, entry

\* What the three invalidations leave of a cache.
LEMMA Dropped ==
  ASSUME NEW c, IsCache(c), NEW r
  PROVE  /\ after_mapping_result_mutation(c, r) =
              [projection |-> <<>>, details |-> without(c.details, r), rows |-> c.rows, seen |-> c.seen]
         /\ after_scope_mapping_mutation(c) =
              [projection |-> <<>>, details |-> <<>>, rows |-> c.rows, seen |-> c.seen]
         /\ after_sdwan_catalog_mutation(c) =
              [projection |-> <<>>, details |-> <<>>, rows |-> <<>>, seen |-> c.seen]
  BY DEF IsCache, after_mapping_result_mutation, after_scope_mapping_mutation, after_sdwan_catalog_mutation,
     EmptyCache

\* What claims nothing is shown rightly.
LEMMA OutdatedShown == ASSUME NEW t, AllOutdated(cache[t]) PROVE Shown(cache[t])
  BY DEF AllOutdated, Shown, CurrentProjection, CurrentDetails, CurrentRows

\* A step keeps ShownInv when each cache claims nothing or is current afterwards.
LEMMA WorkFrame ==
  ASSUME ShownInv, scope # NoScope, scope' # NoScope => IsScope(scope'), scope' # NoScope, shelf' = shelf,
         cache' = [s \in Sessions |-> cache'[s]],
         \A s \in Sessions : IsCache(cache'[s]) /\ (AllOutdated(cache'[s]) \/ Shown(cache[s])')
  PROVE  ShownInv'
<1>1. \A s \in Sessions : Shown(cache[s])'
  BY DEF AllOutdated, Shown, CurrentProjection, CurrentDetails, CurrentRows
<1> QED BY <1>1 DEF ShownInv

\* After a change the caches of all the others claim nothing.
LEMMA InvalidateFrame ==
  ASSUME ShownInv, scope # NoScope, IsScope(scope'), shelf' = shelf, NEW s \in Sessions,
         cache' = [t \in Sessions |-> IF t = s THEN cache'[s] ELSE outdate_all(cache[t])],
         IsCache(cache'[s]), AllOutdated(cache'[s]) \/ Shown(cache[s])'
  PROVE  ShownInv'
<1>1. \A t \in Sessions \ {s} : IsCache(cache'[t]) /\ AllOutdated(cache'[t])
  BY OutdatedAll DEF ShownInv
<1>2. cache' = [t \in Sessions |-> cache'[t]]
  OBVIOUS
<1> QED BY <1>1, <1>2, WorkFrame, ScopeIsThere

\* What is read is a function of scope, catalog and snapshot.
LEMMA SameReads ==
  ASSUME scope' = scope, catalog' = catalog, snapshot' = snapshot
  PROVE  /\ projection_fails' <=> projection_fails
         /\ build_projection' = build_projection
         /\ \A r : (details_fail(r)' <=> details_fail(r)) /\ build_details(r)' = build_details(r)
         /\ \A side : catalog_rows(side)' = catalog_rows(side)
<1>1. \A side, o : /\ in_catalog(side, o)' <=> in_catalog(side, o)
                   /\ catalog_object(o)' = catalog_object(o)
                   /\ catalog_rows(side)' = catalog_rows(side)
  BY DEF in_catalog, catalog_object, catalog_rows
<1>2. \A r : side_of(r)' = side_of(r)
  BY DEF side_of, entity
<1>3. \A r : lost(r)' <=> lost(r)
  BY <1>1, <1>2 DEF lost
<1>4. \A r : result_display(r)' = result_display(r)
  BY <1>1 DEF result_display
<1>5. groups' = groups
  BY DEF groups
<1>6. \A g : groups_at(g)' = groups_at(g)
  BY <1>5 DEF groups_at, children
<1>7. \A g : resolve_group_members(g)' = resolve_group_members(g)
  BY <1>6 DEF resolve_group_members
<1>8. \A m, p : row(m, p)' = row(m, p)
  BY <1>4, <1>5 DEF row
<1>9. \A t : canonical_rows(t)' = canonical_rows(t)
  BY <1>5, <1>7, <1>8 DEF canonical_rows
<1>10. \A u, role : manual_rows(u, role)' = manual_rows(u, role)
  BY <1>4 DEF manual_rows
<1>11. \A u : rule_of(u)' = rule_of(u)
  BY DEF rule_of
<1>12. \A u, role : role_rows(u, role)' = role_rows(u, role)
  BY <1>9, <1>10, <1>11 DEF role_rows
<1>13. build_projection' = build_projection
  BY <1>12 DEF build_projection
<1>14. projection_fails' <=> projection_fails
  BY <1>3 DEF projection_fails
<1>15. \A r : (details_fail(r)' <=> details_fail(r)) /\ build_details(r)' = build_details(r)
  BY <1>1, <1>2, <1>3, <1>4 DEF details_fail, build_details
<1> QED BY <1>1, <1>13, <1>14, <1>15

\* What nobody touched is as current as it was.
LEMMA SameShown ==
  ASSUME scope' = scope, catalog' = catalog, snapshot' = snapshot, NEW s \in Sessions, Shown(cache[s]),
         cache'[s] = cache[s]
  PROVE  Shown(cache[s])'
  BY SameReads DEF Shown, CurrentProjection, CurrentDetails, CurrentRows

\* Loading reads what is there: the projection,
LEMMA LoadProjectionShown ==
  ASSUME ShownInv, scope # NoScope, shelf' = shelf, snapshot' = snapshot,
         NEW s \in Sessions, LoadProjection(s)
  PROVE  ShownInv'
<1>1. cache' = [cache EXCEPT ![s].projection = <<loaded(build_projection)>>]
      /\ ~projection_fails /\ scope' = scope /\ catalog' = catalog
  BY DEF LoadProjection
<1>2. /\ cache' = [t \in Sessions |-> cache'[t]]
      /\ \A t \in Sessions \ {s} : cache'[t] = cache[t]
      /\ cache'[s] = [projection |-> <<loaded(build_projection)>>, details |-> cache[s].details,
                      rows |-> cache[s].rows, seen |-> cache[s].seen]
  BY <1>1 DEF ShownInv, IsCache
<1>3. \A t \in Sessions : IsCache(cache'[t])
  BY <1>2 DEF ShownInv, IsCache
<1>4. \A t \in Sessions \ {s} : Shown(cache[t])'
  BY <1>1, <1>2, SameShown DEF ShownInv
<1>5. Shown(cache[s])'
  <2>1. /\ (projection_fails' <=> projection_fails) /\ build_projection' = build_projection
        /\ DOMAIN cache'[s].projection = {1}
        /\ cache'[s].projection[1].value = build_projection
    BY <1>1, <1>2, SameReads DEF loaded
  <2>2. CurrentProjection(cache[s])'
    BY <1>1, <2>1 DEF CurrentProjection
  <2>3. CurrentDetails(cache[s])' /\ CurrentRows(cache[s])'
    BY <1>1, <1>2, SameReads DEF ShownInv, Shown, CurrentDetails, CurrentRows
  <2> QED BY <2>2, <2>3 DEF Shown
<1> QED BY <1>1, <1>2, <1>3, <1>4, <1>5, WorkFrame DEF ShownInv

\* the details of a result,
LEMMA LoadDetailsShown ==
  ASSUME ShownInv, scope # NoScope, shelf' = shelf, snapshot' = snapshot,
         NEW s \in Sessions, NEW r, LoadDetails(s, r)
  PROVE  ShownInv'
<1> DEFINE d == over(cache[s].details, entry(r, loaded(build_details(r))))
<1>1. cache' = [cache EXCEPT ![s].details = d]
      /\ ~details_fail(r) /\ scope' = scope /\ catalog' = catalog
  BY DEF LoadDetails
<1>2. /\ cache' = [t \in Sessions |-> cache'[t]]
      /\ \A t \in Sessions \ {s} : cache'[t] = cache[t]
      /\ cache'[s] = [projection |-> cache[s].projection, details |-> d,
                      rows |-> cache[s].rows, seen |-> cache[s].seen]
  <2> HIDE DEF d
  <2> QED BY <1>1 DEF ShownInv, IsCache
<1>3. \A t \in Sessions : IsCache(cache'[t])
  BY <1>2 DEF ShownInv, IsCache
<1>4. \A t \in Sessions \ {s} : Shown(cache[t])'
  BY <1>1, <1>2, SameShown DEF ShownInv
<1>5. \A q \in DOMAIN d : d[q] = IF q = r THEN loaded(build_details(r)) ELSE cache[s].details[q]
  BY DEF over, entry
<1>6. \A q \in DOMAIN d : q # r => q \in DOMAIN cache[s].details
  BY DEF over, entry
<1>7. Shown(cache[s])'
  <2> HIDE DEF d
  <2>1. CurrentProjection(cache[s])' /\ CurrentRows(cache[s])'
    BY <1>1, <1>2, SameReads DEF ShownInv, Shown, CurrentProjection, CurrentRows
  <2>2. CurrentDetails(cache[s])'
    BY <1>1, <1>2, <1>5, <1>6, SameReads DEF ShownInv, Shown, CurrentDetails, loaded
  <2> QED BY <2>1, <2>2 DEF Shown
<1> QED BY <1>1, <1>2, <1>3, <1>4, <1>7, WorkFrame DEF ShownInv

\* and the rows to pick from.
LEMMA LoadRowsShown ==
  ASSUME ShownInv, scope # NoScope, shelf' = shelf, snapshot' = snapshot,
         NEW s \in Sessions, NEW side, LoadRows(s, side)
  PROVE  ShownInv'
<1> DEFINE d == over(cache[s].rows, entry(side, loaded(catalog_rows(side))))
           seen == cache[s].seen \cup (ids_of(catalog_rows(side)) \cap shelf.picks)
<1>1. /\ cache' = [cache EXCEPT ![s] = [projection |-> cache[s].projection, details |-> cache[s].details,
                                        rows |-> d, seen |-> seen]]
      /\ scope' = scope /\ catalog' = catalog
  BY DEF LoadRows
<1>2. /\ cache' = [t \in Sessions |-> cache'[t]]
      /\ \A t \in Sessions \ {s} : cache'[t] = cache[t]
      /\ cache'[s] = [projection |-> cache[s].projection, details |-> cache[s].details,
                      rows |-> d, seen |-> seen]
  <2> HIDE DEF d, seen
  <2> QED BY <1>1 DEF ShownInv
<1>3. \A t \in Sessions : IsCache(cache'[t])
  BY <1>2 DEF ShownInv, IsCache
<1>4. \A t \in Sessions \ {s} : Shown(cache[t])'
  BY <1>1, <1>2, SameShown DEF ShownInv
<1>5. \A q \in DOMAIN d : d[q] = IF q = side THEN loaded(catalog_rows(side)) ELSE cache[s].rows[q]
  BY DEF over, entry
<1>6. \A q \in DOMAIN d : q # side => q \in DOMAIN cache[s].rows
  BY DEF over, entry
<1>7. Shown(cache[s])'
  <2> HIDE DEF d, seen
  <2>1. CurrentProjection(cache[s])' /\ CurrentDetails(cache[s])'
    BY <1>1, <1>2, SameReads DEF ShownInv, Shown, CurrentProjection, CurrentDetails
  <2>2. CurrentRows(cache[s])'
    BY <1>1, <1>2, <1>5, <1>6, SameReads DEF ShownInv, Shown, CurrentRows, loaded
  <2> QED BY <2>1, <2>2 DEF Shown
<1> QED BY <1>1, <1>2, <1>3, <1>4, <1>7, WorkFrame DEF ShownInv

\* What the details of a result are read from.
LEMMA SameDetails ==
  ASSUME NEW r, scope'.results[r] = scope.results[r], catalog' = catalog, snapshot' = snapshot
  PROVE  (details_fail(r)' <=> details_fail(r)) /\ build_details(r)' = build_details(r)
<1>1. \A side, o : /\ in_catalog(side, o)' <=> in_catalog(side, o)
                   /\ catalog_object(o)' = catalog_object(o)
  BY DEF in_catalog, catalog_object
<1>2. side_of(r)' = side_of(r)
  BY DEF side_of, entity
<1>3. lost(r)' <=> lost(r)
  BY <1>1, <1>2 DEF lost
<1>4. result_display(r)' = result_display(r)
  BY <1>1 DEF result_display
<1> QED BY <1>1, <1>2, <1>3, <1>4 DEF details_fail, build_details

\* A choice for one result: its details and the projection go, the rest is as it was.
LEMMA ChosenShown ==
  ASSUME ShownInv, scope # NoScope, shelf' = shelf, snapshot' = snapshot, catalog' = catalog,
         NEW s \in Sessions, NEW r, NEW v, scope' = [scope EXCEPT !.results[r] = v],
         Invalidate(s, after_mapping_result_mutation(cache[s], r))
  PROVE  ShownInv'
<1>1. IsScope(scope') /\ \A q : q # r => scope'.results[q] = scope.results[q]
  BY DEF ShownInv, IsScope
<1>2. cache'[s] = [projection |-> <<>>, details |-> without(cache[s].details, r),
                   rows |-> cache[s].rows, seen |-> cache[s].seen]
  BY Dropped DEF Invalidate, ShownInv
<1>3. IsCache(cache'[s])
  BY <1>2 DEF IsCache
<1>4. CurrentProjection(cache[s])'
  BY <1>2 DEF CurrentProjection
<1>5. CurrentRows(cache[s])'
  BY <1>2 DEF CurrentRows, catalog_rows, ShownInv, Shown
<1>6. CurrentDetails(cache[s])'
  <2>1. \A q \in DOMAIN cache'[s].details :
           q # r /\ q \in DOMAIN cache[s].details /\ cache'[s].details[q] = cache[s].details[q]
    BY <1>2 DEF without
  <2> QED BY <1>1, <2>1, SameDetails DEF CurrentDetails, ShownInv, Shown
<1>7. cache' = [t \in Sessions |-> IF t = s THEN cache'[s] ELSE outdate_all(cache[t])]
  BY DEF Invalidate
<1> QED BY <1>1, <1>3, <1>4, <1>5, <1>6, <1>7, InvalidateFrame DEF Shown

\* SelectEntityCandidate leaves its own session without old data.
LEMMA SelectCandidateShown ==
  ASSUME ShownInv, scope # NoScope, shelf' = shelf, snapshot' = snapshot,
         NEW s \in Sessions, NEW r, SelectCandidate(s, r)
  PROVE  ShownInv'
<1>1. PICK o : scope' = [scope EXCEPT !.results[r] =
                           [scope.results[r] EXCEPT !.status = "MATCHED", !.selected = o, !.how = "candidate"]]
  BY DEF SelectCandidate
<1> QED BY <1>1, ChosenShown DEF SelectCandidate

\* So does SelectSdwanEntityDirectly,
LEMMA SelectDirectlyShown ==
  ASSUME ShownInv, scope # NoScope, shelf' = shelf, snapshot' = snapshot,
         NEW s \in Sessions, NEW r, SelectDirectly(s, r)
  PROVE  ShownInv'
<1>1. PICK o : scope' = [scope EXCEPT !.results[r] =
                           [scope.results[r] EXCEPT !.status = "MATCHED", !.selected = o, !.how = "direct"]]
  BY DEF SelectDirectly
<1> QED BY <1>1, ChosenShown DEF SelectDirectly

\* A scope with other operands and results.
LEMMA Rewritten ==
  ASSUME NEW v, IsScope(v), NEW o, NEW q, q = [i \in DOMAIN q |-> q[i]]
  PROVE  IsScope([v EXCEPT !.operands = o, !.results = q])
<1> DEFINE w == [v EXCEPT !.operands = o]
<1>1. w = [rules |-> v.rules, operands |-> o, results |-> v.results, catalog |-> v.catalog]
  BY DEF IsScope
<1> HIDE DEF w
<1>2. [w EXCEPT !.results = q] = [rules |-> v.rules, operands |-> o, results |-> q, catalog |-> v.catalog]
  BY <1>1
<1> QED BY <1>2 DEF IsScope, w

\* and AssignZoneForScope.
LEMMA AssignZoneShown ==
  ASSUME ShownInv, scope # NoScope, shelf' = shelf, snapshot' = snapshot,
         NEW s \in Sessions, NEW role, AssignZone(s, role)
  PROVE  ShownInv'
<1>1. IsScope(scope')
  <2>1. PICK z : scope' =
            IF rules_without_zone(z, role) = {} THEN scope
            ELSE [scope EXCEPT
                    !.operands = @ \cup [rule: rules_without_zone(z, role), role: {role},
                                         result: {manual_result(z)}],
                    !.results = over(entry(manual_result(z),
                      [how |-> "direct", status |-> "MATCHED", selected |-> z, candidates |-> {}]), @)]
    BY DEF AssignZone
  <2>2. \A x, y : over(x, y) = [i \in DOMAIN over(x, y) |-> over(x, y)[i]]
    BY DEF over
  <2> QED BY <2>1, <2>2, Rewritten DEF ShownInv
<1>2. cache'[s] = [projection |-> <<>>, details |-> <<>>, rows |-> cache[s].rows, seen |-> cache[s].seen]
  BY Dropped DEF AssignZone, Invalidate, ShownInv
<1>3. IsCache(cache'[s])
  BY <1>2 DEF IsCache
<1>4. Shown(cache[s])'
  BY <1>2 DEF AssignZone, CurrentProjection, CurrentDetails, CurrentRows, catalog_rows, ShownInv, Shown
<1>5. cache' = [t \in Sessions |-> IF t = s THEN cache'[s] ELSE outdate_all(cache[t])]
  BY DEF AssignZone, Invalidate
<1> QED BY <1>1, <1>3, <1>4, <1>5, InvalidateFrame

\* An auto-creation drops everything, or marks it when it fails at its end.
LEMMA AutoCreateShown ==
  ASSUME ShownInv, scope # NoScope, shelf' = shelf, snapshot' = snapshot,
         NEW s \in Sessions, AutoCreate(s)
  PROVE  ShownInv'
<1>1. PICK refreshed \in BOOLEAN :
        /\ \E w : scope' = [scope EXCEPT !.results = over(@, w)]
        /\ Invalidate(s, IF refreshed THEN after_sdwan_catalog_mutation(cache[s])
                         ELSE outdate_all(cache[s]))
  BY DEF AutoCreate
<1>2. IsScope(scope')
  <2>1. \A x, y : over(x, y) = [i \in DOMAIN over(x, y) |-> over(x, y)[i]]
    BY DEF over
  <2> QED BY <1>1, <2>1 DEF ShownInv, IsScope
<1>3. cache'[s] = IF refreshed THEN after_sdwan_catalog_mutation(cache[s]) ELSE outdate_all(cache[s])
  BY <1>1 DEF Invalidate
<1>4. IsCache(cache'[s]) /\ AllOutdated(cache'[s])
  <2>1. CASE refreshed
    <3>1. cache'[s] = [projection |-> <<>>, details |-> <<>>, rows |-> <<>>, seen |-> cache[s].seen]
      BY <1>3, <2>1, Dropped DEF ShownInv
    <3> QED BY <3>1 DEF IsCache, AllOutdated
  <2>2. CASE ~refreshed
    BY <1>3, <2>2, OutdatedAll DEF ShownInv
  <2> QED BY <2>1, <2>2
<1>5. cache' = [t \in Sessions |-> IF t = s THEN cache'[s] ELSE outdate_all(cache[t])]
  BY <1>1 DEF Invalidate
<1> QED BY <1>2, <1>4, <1>5, InvalidateFrame

\* A change of the catalog marks all that is loaded.
LEMMA EditCatalogShown ==
  ASSUME ShownInv, scope # NoScope, shelf' = shelf, snapshot' = snapshot, EditCatalog
  PROVE  ShownInv'
<1>1. cache' = [t \in Sessions |-> outdate_all(cache[t])] /\ scope' = scope
  BY DEF EditCatalog
<1>2. \A t \in Sessions : IsCache(cache'[t]) /\ AllOutdated(cache'[t])
  BY <1>1, OutdatedAll DEF ShownInv
<1>3. cache' = [t \in Sessions |-> cache'[t]]
  BY <1>1
<1> QED BY <1>1, <1>2, <1>3, WorkFrame DEF ShownInv

\* As long as there is no scope nothing is loaded.
LEMMA BeforeShown ==
  ASSUME ShownInv, scope = NoScope, shelf' = shelf, cache' = cache,
         scope' # NoScope => IsScope(scope')
  PROVE  ShownInv'
<1>1. \A s \in Sessions : cache'[s] = EmptyCache
  BY DEF ShownInv
<1>2. \A s \in Sessions : Shown(cache[s])'
  BY <1>1 DEF EmptyCache, Shown, CurrentProjection, CurrentDetails, CurrentRows
<1> QED BY <1>2 DEF ShownInv

\* A mapping comes before anything is loaded.
LEMMA MapRulesShown ==
  ASSUME ShownInv, scope = NoScope, NEW ids, MapRules(ids)
  PROVE  ShownInv'
<1>1. scope' # NoScope => IsScope(scope')
  BY DEF MapRules, new_scope, entity_results, IsScope
<1> QED BY <1>1, BeforeShown DEF MapRules

\* So does picking rules.
LEMMA PickingShown == ASSUME ShownInv, Picking PROVE ShownInv'
<1>1. scope = NoScope /\ scope' = scope /\ cache' = cache
  BY DEF Picking, mapVars
<1>2. shelf' = shelf
  BY DEF Picking, PageNext, OpenPage, Tick, SetFilter, SetSort, Reset, TurnPage, LeaveAndReturn,
     NewSnapshot, Rerun
<1> QED BY <1>1, <1>2, BeforeShown DEF ShownInv

\* A step on the scope keeps what is shown current or marked.
LEMMA WorkingShown == ASSUME ShownInv, Working PROVE ShownInv'
<1>1. scope # NoScope /\ shelf' = shelf /\ snapshot' = snapshot
  BY DEF Working, pageVars
<1>2. CASE EditCatalog
  BY <1>1, <1>2, EditCatalogShown
<1>3. ASSUME NEW s \in shelf.sessions,
             \/ LoadProjection(s)
             \/ \E r \in Results \cap shelf.opened :
                   LoadDetails(s, r) \/ SelectCandidate(s, r) \/ SelectDirectly(s, r)
             \/ \E side \in shelf.looks : LoadRows(s, side)
             \/ \E role \in {"SRC_ZONE", "DST_ZONE"} : AssignZone(s, role)
             \/ AutoCreate(s)
      PROVE  ShownInv'
  <2>1. s \in Sessions
    BY DEF ShownInv
  <2> QED BY <1>1, <1>3, <2>1, LoadProjectionShown, LoadDetailsShown, LoadRowsShown, SelectCandidateShown,
             SelectDirectlyShown, AssignZoneShown, AutoCreateShown
<1> QED BY <1>2, <1>3 DEF Working

\* And so does every step.
LEMMA NextShown == ShownInv /\ [Next]_vars => ShownInv'
<1> SUFFICES ASSUME ShownInv, [Next]_vars PROVE ShownInv'
  OBVIOUS
<1>1. CASE UNCHANGED vars
  <2>1. /\ scope' = scope /\ catalog' = catalog /\ snapshot' = snapshot /\ cache' = cache
        /\ shelf' = shelf
    BY <1>1 DEF vars, pageVars, mapVars
  <2> QED BY <2>1, SameShown DEF ShownInv
<1>2. CASE Generate \/ MapByApi
  BY <1>2, MapRulesShown DEF Generate, MapByApi
<1> QED BY <1>1, <1>2, PickingShown, WorkingShown DEF Next

\* At the start nothing is loaded.
LEMMA InitShown == Init => ShownInv
  BY WorldsAssumption
     DEF Init, InitIn, ShownInv, IsCache, EmptyCache, Shown, CurrentProjection, CurrentDetails, CurrentRows

\* What a session has loaded is what it would load now, unless somebody else changed it or
\* an auto-creation failed at its end, for any number of sessions, changes and worlds.
THEOREM ShownIsCurrentHolds == Spec => []ShownIsCurrent
<1>1. ShownInv => ShownIsCurrent
  BY DEF ShownInv, Shown, CurrentProjection, CurrentDetails, CurrentRows, ShownIsCurrent
<1> QED BY <1>1, InitShown, NextShown, PTL DEF Spec

----------------------------------------------------------------------------
(***************************************************************************)
(* What a group stands for                                                 *)
(***************************************************************************)

\* The levels of a walk.
LEMMA Levels ==
  ASSUME NEW g
  PROVE  /\ groups_at(g)[1] = {g}
         /\ \A n \in 1 .. MaxGroupDepth : groups_at(g)[n + 1] = children(groups_at(g)[n]) \cap groups
<1> DEFINE N == MaxGroupDepth
           body(d) == [n \in 1 .. N + 1 |-> IF n = 1 THEN {g} ELSE children(d[n - 1]) \cap groups]
           at == CHOOSE d : d = body(d)
           V == {g} \cup groups
           F == [set \in SUBSET V |-> children(set) \cap groups]
<1>1. groups_at(g) = at
  BY DEF groups_at
<1>2. N \in Nat \ {0}
  BY DepthAssumption
<1>3. PICK f \in [0 .. N -> SUBSET V] : f[0] = {g} /\ \A n \in 1 .. N : f[n] = F[f[n - 1]]
  <2> DEFINE S == SUBSET V
  <2>1. {g} \in S
    OBVIOUS
  <2>2. F \in [S -> S]
    OBVIOUS
  <2> HIDE DEF F, N, at, S
  <2>3. \E f \in [0 .. N -> S] : iterates(f, {g}, F, N)
    BY <1>2, <2>1, <2>2, Iterate
  <2> QED BY <2>3 DEF S, iterates
<1> HIDE DEF N
<1> DEFINE e == [n \in 1 .. N + 1 |-> f[n - 1]]
<1>4. ASSUME NEW n \in 1 .. N PROVE f[n] = children(f[n - 1]) \cap groups
  <2>1. n - 1 \in 0 .. N
    BY <1>2
  <2>2. f[n - 1] \in SUBSET V
    BY <1>3, <2>1
  <2> QED BY <1>3, <2>2
<1>5. e = body(e)
  <2>1. ASSUME NEW n \in 1 .. N + 1 PROVE e[n] = body(e)[n]
    <3>1. CASE n = 1
      BY <1>3, <3>1
    <3>2. CASE n # 1
      <4>1. n - 1 \in 1 .. N /\ n - 1 \in 1 .. N + 1
        BY <1>2, <3>2
      <4> HIDE DEF V, F
      <4>2. e[n] = f[n - 1] /\ e[n - 1] = f[n - 2]
        BY <4>1
      <4>3. f[n - 1] = children(f[n - 2]) \cap groups
        BY <1>4, <4>1
      <4>4. body(e)[n] = children(e[n - 1]) \cap groups
        BY <3>2
      <4> HIDE DEF e, body
      <4> QED BY <4>2, <4>3, <4>4
    <3> QED BY <3>1, <3>2
  <2> HIDE DEF V, F
  <2> QED BY <2>1
<1>6. at = body(at)
  <2> HIDE DEF body
  <2> QED BY <1>5
<1>7. at[1] = {g}
  <2>1. body(at)[1] = {g}
    <3>1. 1 \in 1 .. N + 1
      BY <1>2
    <3> HIDE DEF at
    <3> QED BY <3>1
  <2> HIDE DEF at, body
  <2> QED BY <1>6, <2>1
<1>8. ASSUME NEW n \in 1 .. N PROVE at[n + 1] = children(at[n]) \cap groups
  <2>1. n + 1 \in 1 .. N + 1 /\ n + 1 # 1 /\ (n + 1) - 1 = n
    BY <1>2
  <2>2. body(at)[n + 1] = children(at[n]) \cap groups
    <3> HIDE DEF at
    <3> QED BY <2>1
  <2> HIDE DEF at, body
  <2> QED BY <1>6, <2>2
<1> QED BY <1>1, <1>7, <1>8 DEF N

\* What all the levels hold lies below.
LEMMA LevelsBelow ==
  ASSUME NEW set, closed(set, snapshot.members), NEW g \in set, NEW n \in 1 .. MaxGroupDepth
  PROVE  groups_at(g)[n] \subseteq set
<1> DEFINE N == MaxGroupDepth - 1
           D == {k \in 0 .. N : groups_at(g)[k + 1] \subseteq set}
<1>1. N \in Nat /\ \A k \in 0 .. N : k + 1 \in 1 .. MaxGroupDepth
  BY DepthAssumption
<1>2. 0 \in D
  BY <1>1, Levels
<1>3. ASSUME NEW k \in 0 .. N - 1, k \in D PROVE k + 1 \in D
  <2>1. k + 1 \in 1 .. MaxGroupDepth /\ k + 1 \in 0 .. N
    BY <1>1
  <2>2. groups_at(g)[(k + 1) + 1] = children(groups_at(g)[k + 1]) \cap groups
    BY <2>1, Levels
  <2> QED BY <1>3, <2>1, <2>2 DEF children, closed
<1>4. 0 .. N \subseteq D
  <2> HIDE DEF D, N
  <2> QED BY <1>1, <1>2, <1>3, SetInduction
<1>5. n - 1 \in 0 .. N /\ (n - 1) + 1 = n
  BY DepthAssumption
<1>6. n - 1 \in D
  BY <1>4, <1>5
<1> QED BY <1>5, <1>6

\* What an operand stands for is below it.
LEMMA TargetsBelow ==
  ASSUME NEW set, closed(set, snapshot.members), NEW t \in set
  PROVE  operand_targets(t).targets \subseteq set \ groups
<1>1. resolve_group_leaves(t) \subseteq set \ groups
  BY LevelsBelow DEF resolve_group_leaves, children, closed
<1> QED BY <1>1 DEF operand_targets

\* As long as no walk fails, the operands stand for all that is below them.
LEMMA BelowTargets ==
  ASSUME well_formed(snapshot), NEW seeds, seeds \subseteq ids_of(snapshot.objects),
         \A t \in seeds : ~operand_targets(t).fails,
         NEW o \in expand_object_groups(seeds), o \notin groups
  PROVE  \E t \in seeds : o \in operand_targets(t).targets
<1> DEFINE W == seeds \cup {x \in ids_of(snapshot.objects) :
                   \E s \in seeds \cap groups : \E n \in 1 .. MaxGroupDepth : x \in children(groups_at(s)[n])}
<1>1. /\ \A m \in snapshot.members : m[1] \in groups /\ m[2] \in ids_of(snapshot.objects)
      /\ {m \in snapshot.members : m[1] \in groups} = snapshot.members
  BY DEF well_formed, groups
<1>2. MaxGroupDepth \in Nat \ {0}
  BY DepthAssumption
<1>3. closed(W, snapshot.members)
  <2> SUFFICES ASSUME NEW m \in snapshot.members, m[1] \in W PROVE m[2] \in W
    BY DEF closed
  <2>1. CASE m[1] \in seeds
    <3>1. m[2] \in children(groups_at(m[1])[1])
      BY Levels DEF children
    <3>2. 1 \in 1 .. MaxGroupDepth
      BY <1>2
    <3> QED BY <1>1, <2>1, <3>1, <3>2
  <2>2. ASSUME NEW s \in seeds \cap groups, NEW n \in 1 .. MaxGroupDepth, m[1] \in children(groups_at(s)[n])
        PROVE  m[2] \in W
    <3>1. m[1] \in groups_at(s)[n + 1]
      BY <1>1, <2>2, Levels
    <3>2. groups_at(s)[MaxGroupDepth + 1] = {}
      BY DEF operand_targets, walk_fails
    <3>3. n + 1 \in 1 .. MaxGroupDepth
      BY <1>2, <3>1, <3>2
    <3>4. m[2] \in children(groups_at(s)[n + 1])
      BY <3>1 DEF children
    <3> QED BY <1>1, <3>3, <3>4
  <2> QED BY <2>1, <2>2
<1>4. o \in W
  BY <1>1, <1>3, ObjectIds, ClosureLeast DEF expand_object_groups
<1>5. CASE o \in seeds
  BY <1>5 DEF operand_targets
<1>6. ASSUME NEW s \in seeds \cap groups, NEW n \in 1 .. MaxGroupDepth, o \in children(groups_at(s)[n])
      PROVE  o \in operand_targets(s).targets
  BY <1>6 DEF operand_targets, resolve_group_leaves
<1> QED BY <1>4, <1>5, <1>6

----------------------------------------------------------------------------
(***************************************************************************)
(* What the scope holds                                                    *)
(***************************************************************************)

Result ==
  [how: {NONE, "auto", "candidate", "direct", "created"},
   status: {"MATCHED", "AMBIGUOUS", "UNRESOLVED"}, selected: Nat, candidates: SUBSET (Nat \ {0})]

ResultOK(v) == v \in Result /\ (v.status = "MATCHED" <=> v.selected # NoObject)

ScopeOK(v) ==
  /\ v.rules \subseteq ids_of(snapshot.rules)
  /\ \A u \in v.rules : \A op \in rule_of(u).operands : ~operand_targets(op.target).fails
  /\ {op \in v.operands : ~is_manual(op.result)} = build_operands(v.rules)
  /\ \A op \in v.operands :
       op.rule \in v.rules /\ op.role \in MappedRoles /\ op.result \in DOMAIN v.results
  /\ \A r \in DOMAIN v.results : \E op \in v.operands : op.result = r
  /\ DOMAIN v.results \subseteq Nat
  /\ IsFiniteSet({r \in DOMAIN v.results : is_manual(r)})
  /\ \A r \in DOMAIN v.results : ResultOK(v.results[r])

ScopeInv ==
  /\ \A x \in catalog : x.id \in Nat \ {0}
  /\ scope # NoScope => ScopeOK(scope)

\* A rule is found by its id.
LEMMA RuleOf ==
  ASSUME well_formed(snapshot), NEW u \in snapshot.rules
  PROVE  rule_of(u.id) = u
  BY DEF well_formed, rule_of

\* The SD-WAN sides of rows are the sides of one of them.
LEMMA Sides ==
  \A rows, d : d \in sdwan_sides(rows) <=> \E x \in rows : d \in x.sdwan
  BY DEF sdwan_sides

\* A hierarchy ends in what the group stands for.
LEMMA Hierarchy ==
  ASSUME NEW g, NEW x, x \notin groups, g \in groups
  PROVE  x \in resolve_group_leaves(g) <=> \E m \in resolve_group_members(g) : m.id = x
<1>1. ASSUME x \in resolve_group_leaves(g) PROVE \E m \in resolve_group_members(g) : m.id = x
  <2>1. PICK n \in 1 .. MaxGroupDepth : x \in children(groups_at(g)[n])
    BY <1>1 DEF resolve_group_leaves
  <2>2. PICK m \in snapshot.members : m[1] \in groups_at(g)[n] /\ m[2] = x
    BY <2>1 DEF children
  <2>3. [id |-> m[2], parent |-> m[1]] \in resolve_group_members(g)
    BY <2>2 DEF resolve_group_members
  <2> QED BY <2>2, <2>3
<1>2. ASSUME NEW m \in resolve_group_members(g), m.id = x PROVE x \in resolve_group_leaves(g)
  <2>1. PICK k \in snapshot.members : /\ m = [id |-> k[2], parent |-> k[1]]
                                      /\ \E n \in 1 .. MaxGroupDepth : k[1] \in groups_at(g)[n]
    BY <1>2 DEF resolve_group_members
  <2>2. PICK n \in 1 .. MaxGroupDepth : x \in children(groups_at(g)[n])
    BY <1>2, <2>1 DEF children
  <2>3. x \in children(groups_at(g)[n]) \ groups
    BY <2>2
  <2> QED BY <2>3 DEF resolve_group_leaves
<1> QED BY <1>1, <1>2

\* The rows of an operand show the results of what it stands for.
LEMMA CanonicalSides ==
  ASSUME NEW t, ~operand_targets(t).fails, NEW d
  PROVE  d \in sdwan_sides(canonical_rows(t)) <=> \E x \in operand_targets(t).targets : d = result_display(x)
<1>3. \A i, q : row(i, q).sdwan = IF i \in groups THEN {} ELSE {result_display(i)}
  BY DEF row
<1>1. CASE t \notin groups
  <2>1. canonical_rows(t) = {row(t, NONE)} /\ operand_targets(t).targets = {t}
    BY <1>1 DEF canonical_rows, operand_targets
  <2>2. d \in sdwan_sides(canonical_rows(t)) <=> d \in row(t, NONE).sdwan
    BY <2>1, Sides
  <2>3. row(t, NONE).sdwan = {result_display(t)}
    BY <1>1, <1>3
  <2>4. d \in sdwan_sides(canonical_rows(t)) <=> d = result_display(t)
    BY <2>2, <2>3
  <2> QED BY <2>1, <2>4
<1>2. CASE t \in groups
  <2>1. operand_targets(t).targets = resolve_group_leaves(t)
    BY <1>2 DEF operand_targets
  <2>2. d \in sdwan_sides(canonical_rows(t)) <=>
          \E m \in resolve_group_members(t) : m.id \notin groups /\ d = result_display(m.id)
    <3>1. canonical_rows(t) = {row(m.id, m.parent) : m \in resolve_group_members(t)}
      BY <1>2 DEF canonical_rows
    <3>2. d \in sdwan_sides(canonical_rows(t)) <=>
            \E m \in resolve_group_members(t) : d \in row(m.id, m.parent).sdwan
      <4>1. \A y : y \in canonical_rows(t) <=> \E m \in resolve_group_members(t) : y = row(m.id, m.parent)
        BY <3>1
      <4> QED BY <4>1, Sides
    <3>3. \A i, q : d \in row(i, q).sdwan <=> i \notin groups /\ d = result_display(i)
      BY <1>3
    <3> QED BY <3>2, <3>3
  <2>3. \A x \in resolve_group_leaves(t) : x \notin groups
    BY DEF resolve_group_leaves
  <2> QED BY <1>2, <2>1, <2>2, <2>3, Hierarchy
<1> QED BY <1>1, <1>2

\* The mapping names the five roles apart.
LEMMA RolesApart ==
  \A r, q \in Roles : MappedRole(r) = MappedRole(q) => r = q
  BY DEF Roles, MappedRole

\* What operands a mapping writes.
LEMMA Built ==
  ASSUME NEW rules, NEW x
  PROVE  x \in build_operands(rules) <=>
           \E u \in rules : \E op \in rule_of(u).operands : \E r \in operand_targets(op.target).targets :
             x = [rule |-> u, role |-> MappedRole(op.role), result |-> r]
<1>1. x \in build_operands(rules) <=>
        \E u \in rules : \E op \in rule_of(u).operands :
          x \in [rule: {u}, role: {MappedRole(op.role)}, result: operand_targets(op.target).targets]
  BY DEF build_operands
<1>2. \A u, m, T : x \in [rule: {u}, role: {m}, result: T] <=> \E r \in T : x = [rule |-> u, role |-> m, result |-> r]
  OBVIOUS
<1> QED BY <1>1, <1>2

\* The rows of a role show the results of its operands in the scope.
LEMMA RoleSides ==
  ASSUME Placed, scope # NoScope, ScopeOK(scope), NEW u \in scope.rules, NEW role \in Roles, NEW d
  PROVE  d \in sdwan_sides(role_rows(u, role)) <=>
           \E op \in scope.operands : op.rule = u /\ op.role = MappedRole(role) /\ d = result_display(op.result)
<1>1. \A op \in rule_of(u).operands : op.role \in Roles
  <2>1. PICK v \in snapshot.rules : v.id = u
    BY DEF ScopeOK, ids_of
  <2>2. well_formed(snapshot)
    BY WorldsAssumption DEF Placed
  <2> QED BY <2>1, <2>2, RuleOf DEF well_formed
<1>2. d \in sdwan_sides(role_rows(u, role)) <=>
        \/ \E op \in rule_of(u).operands : op.role = role /\ d \in sdwan_sides(canonical_rows(op.target))
        \/ d \in sdwan_sides(manual_rows(u, role))
  <2>1. role_rows(u, role) = (UNION {canonical_rows(op.target) : op \in {x \in rule_of(u).operands : x.role = role}})
                               \cup manual_rows(u, role)
    BY DEF role_rows
  <2>2. \A y : y \in role_rows(u, role) <=>
          \/ \E op \in rule_of(u).operands : op.role = role /\ y \in canonical_rows(op.target)
          \/ y \in manual_rows(u, role)
    <3> DEFINE mine == {x \in rule_of(u).operands : x.role = role}
               all == {canonical_rows(op.target) : op \in mine}
    <3>1. \A y : y \in UNION all <=> \E op \in mine : y \in canonical_rows(op.target)
      <4> HIDE DEF mine
      <4> QED OBVIOUS
    <3>2. role_rows(u, role) = (UNION all) \cup manual_rows(u, role)
      BY <2>1
    <3>3. \A op : op \in mine <=> op \in rule_of(u).operands /\ op.role = role
      OBVIOUS
    <3> HIDE DEF all, mine
    <3> QED BY <3>1, <3>2, <3>3
  <2> QED BY <2>2, Sides
<1>3. d \in sdwan_sides(manual_rows(u, role)) <=>
        \E op \in scope.operands : /\ op.rule = u /\ op.role = MappedRole(role) /\ is_manual(op.result)
                                   /\ d = result_display(op.result)
  <2>1. \A y : y \in manual_rows(u, role) <=>
          \E op \in scope.operands :
            /\ op.rule = u /\ op.role = MappedRole(role) /\ is_manual(op.result)
            /\ y = [canonical |-> NONE, parent |-> NONE, sdwan |-> {result_display(op.result)}]
    BY DEF manual_rows
  <2>2. \A r : d \in [canonical |-> NONE, parent |-> NONE, sdwan |-> {r}].sdwan <=> d = r
    OBVIOUS
  <2>3. d \in sdwan_sides(manual_rows(u, role)) <=> \E y \in manual_rows(u, role) : d \in y.sdwan
    BY Sides
  <2> QED BY <2>1, <2>2, <2>3
<1>4. (\E op \in rule_of(u).operands : op.role = role /\ d \in sdwan_sides(canonical_rows(op.target)))
        <=> \E op \in rule_of(u).operands :
              op.role = role /\ \E r \in operand_targets(op.target).targets : d = result_display(r)
  BY CanonicalSides DEF ScopeOK
<1>5. (\E op \in rule_of(u).operands :
              op.role = role /\ \E r \in operand_targets(op.target).targets : d = result_display(r))
        <=> \E x \in build_operands(scope.rules) :
              x.rule = u /\ x.role = MappedRole(role) /\ d = result_display(x.result)
  <2>1. ASSUME NEW op \in rule_of(u).operands, op.role = role, NEW r \in operand_targets(op.target).targets,
               d = result_display(r)
        PROVE  \E x \in build_operands(scope.rules) :
                  x.rule = u /\ x.role = MappedRole(role) /\ d = result_display(x.result)
    <3> DEFINE x == [rule |-> u, role |-> MappedRole(op.role), result |-> r]
    <3>1. x \in build_operands(scope.rules)
      BY Built
    <3>2. x.rule = u /\ x.role = MappedRole(role) /\ x.result = r
      BY <2>1
    <3> QED BY <2>1, <3>1, <3>2
  <2>2. ASSUME NEW x \in build_operands(scope.rules), x.rule = u, x.role = MappedRole(role),
               d = result_display(x.result)
        PROVE  \E op \in rule_of(u).operands :
                  op.role = role /\ \E r \in operand_targets(op.target).targets : d = result_display(r)
    <3>1. PICK v \in scope.rules : \E op \in rule_of(v).operands : \E r \in operand_targets(op.target).targets :
            x = [rule |-> v, role |-> MappedRole(op.role), result |-> r]
      BY Built
    <3>2. PICK op \in rule_of(v).operands : \E r \in operand_targets(op.target).targets :
            x = [rule |-> v, role |-> MappedRole(op.role), result |-> r]
      BY <3>1
    <3>3. PICK r \in operand_targets(op.target).targets :
            x = [rule |-> v, role |-> MappedRole(op.role), result |-> r]
      BY <3>2
    <3>4. v = u /\ MappedRole(op.role) = MappedRole(role) /\ r = x.result
      BY <2>2, <3>3
    <3>5. op.role = role
      BY <1>1, <3>4, RolesApart
    <3> QED BY <2>2, <3>3, <3>4, <3>5
  <2> QED BY <2>1, <2>2
<1>6. \A x : x \in build_operands(scope.rules) <=> x \in scope.operands /\ ~is_manual(x.result)
  BY DEF ScopeOK
<1> QED BY <1>2, <1>3, <1>4, <1>5, <1>6

\* The object a row shows is the one that the result selects.
LEMMA DisplayedObject ==
  ASSUME ScopeOK(scope), NEW r \in DOMAIN scope.results, ~lost(r)
  PROVE  /\ result_display(r).status = scope.results[r].status
         /\ scope.results[r].status = "MATCHED" => result_display(r).object.id = scope.results[r].selected
<1>1. result_display(r).status = scope.results[r].status
  BY DEF result_display
<1>2. ASSUME scope.results[r].status = "MATCHED"
      PROVE  result_display(r).object.id = scope.results[r].selected
  <2>1. in_catalog(side_of(r), scope.results[r].selected)
    BY <1>2 DEF lost
  <2>2. catalog_object(scope.results[r].selected).id = scope.results[r].selected
    BY <2>1 DEF in_catalog, catalog_object
  <2> QED BY <1>2, <2>2 DEF result_display
<1> QED BY <1>1, <1>2

\* What rows show in a role, and what the execution reads.
LEMMA RoleReads ==
  ASSUME Placed, scope # NoScope, ScopeOK(scope), ~projection_fails, NEW u \in scope.rules, NEW role \in Roles
  PROVE  /\ {d.object.id : d \in {x \in sdwan_sides(role_rows(u, role)) : x.status = "MATCHED"}}
              = entities_ids(u, MappedRole(role)) \ {NoObject}
         /\ entities_ids(u, MappedRole(role)) = {} <=> sdwan_sides(role_rows(u, role)) = {}
<1> DEFINE sides == sdwan_sides(role_rows(u, role))
           ops == {op \in scope.operands : op.rule = u /\ op.role = MappedRole(role)}
<1>1. \A d : d \in sides <=> \E op \in ops : d = result_display(op.result)
  BY RoleSides
<1>2. entities_ids(u, MappedRole(role)) = {scope.results[op.result].selected : op \in ops}
  BY DEF entities_ids
<1>3. \A op \in ops : /\ op.result \in DOMAIN scope.results
                      /\ ResultOK(scope.results[op.result])
                      /\ ~lost(op.result)
  BY DEF ScopeOK, projection_fails
<1>4. \A op \in ops :
        /\ result_display(op.result).status = scope.results[op.result].status
        /\ scope.results[op.result].status = "MATCHED" <=> scope.results[op.result].selected # NoObject
        /\ scope.results[op.result].status = "MATCHED" =>
             result_display(op.result).object.id = scope.results[op.result].selected
  BY <1>3, DisplayedObject DEF ResultOK
<1> HIDE DEF sides, ops
<1>5. \A i : (\E d \in sides : d.status = "MATCHED" /\ i = d.object.id)
                <=> \E op \in ops : i = scope.results[op.result].selected /\ i # NoObject
  BY <1>1, <1>4
<1>6. {d.object.id : d \in {x \in sides : x.status = "MATCHED"}}
        = {scope.results[op.result].selected : op \in ops} \ {NoObject}
  <2>1. \A i : i \in {d.object.id : d \in {x \in sides : x.status = "MATCHED"}}
                 <=> \E d \in sides : d.status = "MATCHED" /\ i = d.object.id
    OBVIOUS
  <2>2. \A i : i \in {scope.results[op.result].selected : op \in ops} \ {NoObject}
                 <=> \E op \in ops : i = scope.results[op.result].selected /\ i # NoObject
    OBVIOUS
  <2> QED BY <1>5, <2>1, <2>2
<1>7. {scope.results[op.result].selected : op \in ops} = {} <=> sides = {}
  BY <1>1
<1>8. sides = sdwan_sides(role_rows(u, role))
  BY DEF sides
<1> QED BY <1>2, <1>6, <1>7, <1>8

\* A rule is mapped when every role has rows and all of them are matched.
LEMMA RuleMapped ==
  ASSUME NEW details
  PROVE  rule_status(details) = "MAPPED" <=>
           \A role \in Roles : /\ sdwan_sides(details[role]) # {}
                               /\ \A d \in sdwan_sides(details[role]) : d.status = "MATCHED"
<1> DEFINE seen == UNION {sdwan_sides(details[role]) : role \in Roles}
           empty == {x \in Roles : sdwan_sides(details[x]) = {}}
           statuses == {d.status : d \in seen} \cup {"UNRESOLVED" : role \in empty}
<1>1. rule_status(details) = "MAPPED" <=> statuses = {"MATCHED"}
  BY DEF rule_status
<1>2. \A d : d \in seen <=> \E role \in Roles : d \in sdwan_sides(details[role])
  OBVIOUS
<1>3. Roles # {}
  BY DEF Roles
<1>4. \A s : s \in statuses <=> (\E d \in seen : s = d.status) \/ (s = "UNRESOLVED" /\ empty # {})
  <2> HIDE DEF seen, empty
  <2> QED OBVIOUS
<1>5. empty = {} <=> \A role \in Roles : sdwan_sides(details[role]) # {}
  OBVIOUS
<1> HIDE DEF seen, empty, statuses
<1>6. statuses = {"MATCHED"} <=>
        /\ \E d \in seen : d.status = "MATCHED"
        /\ \A d \in seen : d.status = "MATCHED"
        /\ empty = {}
  BY <1>4
<1>7. empty = {} => seen # {}
  BY <1>2, <1>3, <1>5
<1> QED BY <1>1, <1>2, <1>5, <1>6, <1>7

\* On a good scope what is shown as clear is what the execution accepts, and reads.
LEMMA Planned ==
  ASSUME Placed, scope # NoScope, ScopeOK(scope), ~projection_fails
  PROVE  LET p == build_projection
         IN  /\ unmatched_rules(p) = {} <=> reader_accepts
             /\ \A u \in scope.rules : \A role \in Roles :
                  /\ unmatched_rules(p) = {} => roles_statuses_of_rule(p[u].details)[role] = "OK"
                  /\ {d.object.id : d \in {x \in sdwan_sides(p[u].details[role]) : x.status = "MATCHED"}}
                       = entities_ids(u, MappedRole(role)) \ {NoObject}
<1> DEFINE p == build_projection
           matched == \A u \in scope.rules : \A role \in Roles :
                        /\ sdwan_sides(role_rows(u, role)) # {}
                        /\ \A d \in sdwan_sides(role_rows(u, role)) : d.status = "MATCHED"
<1>1. DOMAIN p = scope.rules
      /\ \A u \in scope.rules : /\ \A role \in Roles : p[u].details[role] = role_rows(u, role)
                                /\ p[u].status = rule_status(p[u].details)
  BY DEF build_projection, projected_rule
<1> HIDE DEF p
<1>2. unmatched_rules(p) = {} <=> matched
  <2>1. unmatched_rules(p) = {} <=> \A u \in scope.rules : rule_status(p[u].details) = "MAPPED"
    BY <1>1 DEF unmatched_rules
  <2>2. ASSUME NEW u \in scope.rules
        PROVE  rule_status(p[u].details) = "MAPPED" <=>
                 \A role \in Roles : /\ sdwan_sides(role_rows(u, role)) # {}
                                     /\ \A d \in sdwan_sides(role_rows(u, role)) : d.status = "MATCHED"
    <3>1. \A role \in Roles : p[u].details[role] = role_rows(u, role)
      BY <1>1
    <3>2. rule_status(p[u].details) = "MAPPED" <=>
                 \A role \in Roles : /\ sdwan_sides(p[u].details[role]) # {}
                                     /\ \A d \in sdwan_sides(p[u].details[role]) : d.status = "MATCHED"
      BY RuleMapped
    <3> QED BY <3>1, <3>2
  <2> QED BY <2>1, <2>2
<1>3. ASSUME NEW u \in scope.rules, NEW role \in Roles, matched
      PROVE  roles_statuses_of_rule(p[u].details)[role] = "OK"
  <2>1. p[u].details[role] = role_rows(u, role)
    BY <1>1
  <2>2. need_mapping(p[u].details[role]) = {} /\ has_selected(p[u].details[role])
    BY <1>3, <2>1 DEF need_mapping, has_selected
  <2> QED BY <2>2 DEF roles_statuses_of_rule
<1>4. matched <=> reader_accepts
  <2>1. ASSUME matched PROVE reader_accepts
    <3>1. ASSUME NEW r \in Results PROVE scope.results[r].status = "MATCHED"
      <4>1. PICK op \in scope.operands : op.result = r
        BY DEF Results, ScopeOK
      <4>2. op.rule \in scope.rules /\ op.role \in MappedRoles
        BY DEF ScopeOK
      <4>3. PICK role \in Roles : op.role = MappedRole(role)
        BY <4>2 DEF MappedRoles
      <4>4. result_display(r) \in sdwan_sides(role_rows(op.rule, role))
        BY <4>1, <4>2, <4>3, RoleSides
      <4>5. result_display(r).status = scope.results[r].status
        BY DEF result_display
      <4> QED BY <2>1, <4>2, <4>4, <4>5
    <3>2. \A u \in scope.rules : \A role \in MappedRoles : entities_ids(u, role) # {}
      BY <2>1, RoleReads DEF MappedRoles
    <3> QED BY <3>1, <3>2 DEF reader_accepts
  <2>2. ASSUME reader_accepts PROVE matched
    <3> SUFFICES ASSUME NEW u \in scope.rules, NEW role \in Roles
                 PROVE  /\ sdwan_sides(role_rows(u, role)) # {}
                        /\ \A d \in sdwan_sides(role_rows(u, role)) : d.status = "MATCHED"
      OBVIOUS
    <3>1. entities_ids(u, MappedRole(role)) # {}
      BY <2>2 DEF reader_accepts, MappedRoles
    <3>2. ASSUME NEW d \in sdwan_sides(role_rows(u, role)) PROVE d.status = "MATCHED"
      <4>1. PICK op \in scope.operands : d = result_display(op.result)
        BY RoleSides
      <4>2. op.result \in Results
        BY DEF Results, ScopeOK
      <4> QED BY <2>2, <4>1, <4>2 DEF reader_accepts, result_display
    <3> QED BY <3>1, <3>2, RoleReads
  <2> QED BY <2>1, <2>2
<1>5. \A u \in scope.rules : \A role \in Roles :
        {d.object.id : d \in {x \in sdwan_sides(p[u].details[role]) : x.status = "MATCHED"}}
          = entities_ids(u, MappedRole(role)) \ {NoObject}
  BY <1>1, RoleReads
<1> HIDE DEF matched
<1> QED BY <1>2, <1>3, <1>4, <1>5 DEF p

\* MappedIsPlanned follows from the invariant.
LEMMA ScopeInvPlanned == Placed /\ ScopeInv => MappedIsPlanned
  BY Planned DEF ScopeInv, MappedIsPlanned

\* What is written for rules depends on the snapshot alone.
LEMMA SameGroups ==
  ASSUME snapshot' = snapshot
  PROVE  /\ \A u : rule_of(u)' = rule_of(u)
         /\ \A t : operand_targets(t)' = operand_targets(t)
         /\ \A rules : build_operands(rules)' = build_operands(rules)
<1>1. groups' = groups
  BY DEF groups
<1>2. \A g : groups_at(g)' = groups_at(g)
  BY <1>1 DEF groups_at, children
<1>3. \A g : resolve_group_leaves(g)' = resolve_group_leaves(g)
  BY <1>1, <1>2 DEF resolve_group_leaves, children
<1>4. \A g : walk_fails(g)' <=> walk_fails(g)
  BY <1>2 DEF walk_fails
<1>5. \A t : operand_targets(t)' = operand_targets(t)
  BY <1>1, <1>3, <1>4 DEF operand_targets
<1>6. \A u : rule_of(u)' = rule_of(u)
  BY DEF rule_of
<1>7. \A rules : build_operands(rules)' = build_operands(rules)
  BY <1>5, <1>6 DEF build_operands
<1> QED BY <1>5, <1>6, <1>7

\* The scope a step leaves is good when it is good for what was there before the step.
LEMMA ScopeBecomes ==
  ASSUME snapshot' = snapshot, \A x \in catalog' : x.id \in Nat \ {0}, NEW v, scope' = v,
         v # NoScope => ScopeOK(v)
  PROVE  ScopeInv'
<1>1. ASSUME ScopeOK(v) PROVE ScopeOK(v)'
  <2>1. ids_of(snapshot.rules)' = ids_of(snapshot.rules)
    BY DEF ids_of
  <2>2. build_operands(v.rules)' = build_operands(v.rules)
    BY SameGroups
  <2>3. (\A u \in v.rules : \A op \in rule_of(u).operands : ~operand_targets(op.target).fails)'
    BY <1>1, SameGroups DEF ScopeOK
  <2> QED BY <1>1, <2>1, <2>2, <2>3 DEF ScopeOK
<1>2. scope' # NoScope => ScopeOK(scope)'
  BY <1>1
<1> QED BY <1>2 DEF ScopeInv

----------------------------------------------------------------------------
(***************************************************************************)
(* Steps of the scope                                                      *)
(***************************************************************************)

\* Who only reads the scope does not change it.
LEMMA SameScope ==
  ASSUME ScopeInv, scope' = scope, snapshot' = snapshot, \A x \in catalog' : x.id \in Nat \ {0}
  PROVE  ScopeInv'
  BY ScopeBecomes DEF ScopeInv

\* A result that somebody chose an object for.
LEMMA Chosen ==
  ASSUME NEW x, ResultOK(x), NEW o \in Nat \ {0}, NEW how \in {"candidate", "direct"}
  PROVE  ResultOK([x EXCEPT !.status = "MATCHED", !.selected = o, !.how = how])
<1> DEFINE a == [x EXCEPT !.status = "MATCHED"]
           b == [a EXCEPT !.selected = o]
           c == [b EXCEPT !.how = how]
<1>1. x \in Result
  BY DEF ResultOK
<1>2. a \in Result /\ a.status = "MATCHED"
  BY <1>1 DEF Result
<1> HIDE DEF a
<1>3. b \in Result /\ b.status = "MATCHED" /\ b.selected = o
  BY <1>2 DEF Result
<1> HIDE DEF b
<1>4. c \in Result /\ c.status = "MATCHED" /\ c.selected = o
  BY <1>3 DEF Result
<1>5. ResultOK(c)
  BY <1>4 DEF ResultOK, NoObject
<1> QED BY <1>5 DEF b, a

\* A choice for one result.
LEMMA ChosenScope ==
  ASSUME ScopeInv, scope # NoScope, IsScope(scope), snapshot' = snapshot, catalog' = catalog,
         NEW r \in Results, NEW o \in Nat \ {0}, NEW how \in {"candidate", "direct"},
         scope' = [scope EXCEPT !.results[r] = [scope.results[r] EXCEPT !.status = "MATCHED", !.selected = o,
                                                                        !.how = how]]
  PROVE  ScopeInv'
<1> DEFINE x == scope.results[r]
           y == [x EXCEPT !.status = "MATCHED", !.selected = o, !.how = how]
           v == [scope EXCEPT !.results[r] = y]
<1>1. ScopeOK(scope) /\ r \in DOMAIN scope.results
  BY DEF ScopeInv, Results
<1>2. ResultOK(y)
  BY <1>1, Chosen DEF ScopeOK
<1> HIDE DEF y
<1>3. /\ v.rules = scope.rules /\ v.operands = scope.operands
      /\ DOMAIN v.results = DOMAIN scope.results
      /\ \A q \in DOMAIN scope.results : v.results[q] = IF q = r THEN y ELSE scope.results[q]
  BY <1>1 DEF IsScope
<1>4. scope' = v
  BY DEF y
<1> HIDE DEF v
<1>5. ScopeOK(v)
  BY <1>1, <1>2, <1>3 DEF ScopeOK
<1> QED BY <1>4, <1>5, ScopeBecomes DEF ScopeInv

\* A chosen candidate is an object, and keeps the scope good.
LEMMA SelectCandidateScope ==
  ASSUME ScopeInv, scope # NoScope, IsScope(scope), snapshot' = snapshot,
         NEW s, NEW r \in Results, SelectCandidate(s, r)
  PROVE  ScopeInv'
<1>1. PICK o \in scope.results[r].candidates :
        scope' = [scope EXCEPT !.results[r] =
                    [scope.results[r] EXCEPT !.status = "MATCHED", !.selected = o, !.how = "candidate"]]
  BY DEF SelectCandidate
<1>2. o \in Nat \ {0}
  BY DEF ScopeInv, ScopeOK, ResultOK, Result, Results
<1>3. catalog' = catalog
  BY DEF SelectCandidate
<1> QED BY <1>1, <1>2, <1>3, ChosenScope

\* So is, and does, an object of the catalog.
LEMMA SelectDirectlyScope ==
  ASSUME ScopeInv, scope # NoScope, IsScope(scope), snapshot' = snapshot,
         NEW s, NEW r \in Results, SelectDirectly(s, r)
  PROVE  ScopeInv'
<1>1. PICK o : /\ in_catalog(side_of(r), o)
               /\ scope' = [scope EXCEPT !.results[r] =
                    [scope.results[r] EXCEPT !.status = "MATCHED", !.selected = o, !.how = "direct"]]
  BY DEF SelectDirectly
<1>2. o \in Nat \ {0}
  BY <1>1 DEF ScopeInv, in_catalog
<1>3. catalog' = catalog
  BY DEF SelectDirectly
<1> QED BY <1>1, <1>2, <1>3, ChosenScope

\* The result a zone is assigned by has an id of its own.
LEMMA ManualResult ==
  ASSUME Placed, ScopeInv, scope # NoScope, NEW z
  PROVE  manual_result(z) \in Nat /\ is_manual(manual_result(z))
<1> DEFINE manual == {r \in matching_zone_results(z) : is_manual(r)}
           known == {r \in Results : is_manual(r)}
<1>1. ScopeOK(scope) /\ Results = DOMAIN scope.results
  BY DEF ScopeInv, Results
<1>2. manual \subseteq Nat /\ IsFiniteSet(known)
  BY <1>1 DEF ScopeOK, matching_zone_results
<1>3. ManualBase \in Nat /\ Cardinality(known) \in Nat
  BY <1>2, WorldsAssumption, FS_CardinalityType
<1>4. CASE manual # {}
  <2> DEFINE c == CHOOSE r \in manual : \A q \in manual : r <= q
  <2>1. \E r \in manual : \A q \in manual : r <= q
    <3> HIDE DEF manual
    <3> QED BY <1>2, <1>4, Least
  <2>2. c \in manual
    <3> HIDE DEF manual
    <3> QED BY <2>1
  <2>3. manual_result(z) = c
    BY <1>4 DEF manual_result
  <2> HIDE DEF c
  <2> QED BY <1>2, <2>2, <2>3
<1>5. CASE manual = {}
  <2>1. manual_result(z) = ManualBase + Cardinality(known)
    BY <1>5 DEF manual_result
  <2> HIDE DEF known, manual
  <2> QED BY <1>3, <2>1 DEF is_manual
<1> QED BY <1>4, <1>5

\* A zone for all the rules that have none.
LEMMA AssignZoneScope ==
  ASSUME Placed, ScopeInv, scope # NoScope, IsScope(scope), snapshot' = snapshot,
         NEW s, NEW role \in {"SRC_ZONE", "DST_ZONE"}, AssignZone(s, role)
  PROVE  ScopeInv'
<1> DEFINE new(z) == [how |-> "direct", status |-> "MATCHED", selected |-> z, candidates |-> {}]
           ops(z) == [rule: rules_without_zone(z, role), role: {role}, result: {manual_result(z)}]
           res(z) == over(entry(manual_result(z), new(z)), scope.results)
           v(z) == [scope EXCEPT !.operands = scope.operands \cup ops(z), !.results = res(z)]
<1>1. PICK z : /\ in_catalog("zone", z)
               /\ scope' = IF rules_without_zone(z, role) = {} THEN scope ELSE v(z)
  BY DEF AssignZone
<1>2. catalog' = catalog
  BY DEF AssignZone
<1>3. z \in Nat \ {0}
  BY <1>1 DEF ScopeInv, in_catalog
<1>4. CASE rules_without_zone(z, role) = {}
  BY <1>1, <1>2, <1>4, SameScope DEF ScopeInv
<1>5. CASE rules_without_zone(z, role) # {}
  <2> DEFINE m == manual_result(z)
             old == scope.results
             w == v(z)
  <2>1. m \in Nat /\ is_manual(m)
    BY ManualResult
  <2>2. ScopeOK(scope)
    BY DEF ScopeInv
  <2>3. w.rules = scope.rules /\ w.operands = scope.operands \cup ops(z) /\ w.results = res(z)
    <3> HIDE DEF ops, res
    <3>1. scope = [rules |-> scope.rules, operands |-> scope.operands, results |-> scope.results,
                   catalog |-> scope.catalog]
      BY DEF IsScope
    <3> DEFINE u == [scope EXCEPT !.operands = scope.operands \cup ops(z)]
    <3>2. u = [rules |-> scope.rules, operands |-> scope.operands \cup ops(z), results |-> scope.results,
                   catalog |-> scope.catalog]
      BY <3>1
    <3> HIDE DEF u
    <3>3. [u EXCEPT !.results = res(z)] =
            [rules |-> scope.rules, operands |-> scope.operands \cup ops(z), results |-> res(z),
             catalog |-> scope.catalog]
      BY <3>2
    <3> QED BY <3>3 DEF u
  <2>4. /\ DOMAIN res(z) = DOMAIN old \cup {m}
        /\ \A r \in DOMAIN old : res(z)[r] = old[r]
        /\ m \notin DOMAIN old => res(z)[m] = new(z)
    BY DEF over, entry
  <2>5. ResultOK(new(z))
    BY <1>3 DEF ResultOK, Result, NoObject
  <2>6. \A op \in ops(z) : /\ op.rule \in scope.rules /\ op.role = role /\ op.result = m
    BY DEF rules_without_zone
  <2>7. \E op \in ops(z) : op.result = m
    <3>1. PICK u \in rules_without_zone(z, role) : TRUE
      BY <1>5
    <3>2. [rule |-> u, role |-> role, result |-> m] \in ops(z)
      BY <3>1
    <3> QED BY <3>2
  <2>8. role \in MappedRoles
    <3>1. MappedRole(role) = role /\ role \in Roles
      BY DEF MappedRole, Roles
    <3> QED BY <3>1 DEF MappedRoles
  <2> HIDE DEF new, ops, res, m, old, w
  <2>9. {op \in w.operands : ~is_manual(op.result)} = build_operands(w.rules)
    <3>1. {op \in w.operands : ~is_manual(op.result)} = {op \in scope.operands : ~is_manual(op.result)}
      BY <2>1, <2>3, <2>6
    <3> QED BY <2>2, <2>3, <3>1 DEF ScopeOK
  <2>10. IsFiniteSet({r \in DOMAIN w.results : is_manual(r)})
    <3>1. {r \in DOMAIN w.results : is_manual(r)} = {r \in DOMAIN old : is_manual(r)} \cup {m}
      BY <2>1, <2>3, <2>4
    <3>2. IsFiniteSet({r \in DOMAIN old : is_manual(r)})
      BY <2>2 DEF ScopeOK, old
    <3> QED BY <3>1, <3>2, FS_AddElement
  <2>11. \A op \in w.operands : op.rule \in w.rules /\ op.role \in MappedRoles /\ op.result \in DOMAIN w.results
    BY <2>2, <2>3, <2>4, <2>6, <2>8 DEF ScopeOK, old
  <2>12. \A r \in DOMAIN w.results : \E op \in w.operands : op.result = r
    BY <2>2, <2>3, <2>4, <2>7 DEF ScopeOK, old
  <2>13. DOMAIN w.results \subseteq Nat /\ \A r \in DOMAIN w.results : ResultOK(w.results[r])
    BY <2>1, <2>2, <2>3, <2>4, <2>5 DEF ScopeOK, old
  <2>14. ScopeOK(w)
    BY <2>2, <2>3, <2>9, <2>10, <2>11, <2>12, <2>13 DEF ScopeOK
  <2>15. scope' = w
    BY <1>1, <1>5 DEF w
  <2> QED BY <1>2, <2>14, <2>15, ScopeBecomes DEF ScopeInv
<1> QED BY <1>4, <1>5

\* Objects made for results that had none.
LEMMA AutoCreateScope ==
  ASSUME Placed, ScopeInv, scope # NoScope, IsScope(scope), snapshot' = snapshot, NEW s, AutoCreate(s)
  PROVE  ScopeInv'
<1> DEFINE id(r) == shelf.next + r
           new(ok) == [r \in ok |-> [how |-> "created", status |-> "MATCHED", selected |-> id(r),
                                     candidates |-> {}]]
           res(ok) == over(scope.results, new(ok))
           v(ok) == [scope EXCEPT !.results = res(ok)]
<1>1. PICK ok \in SUBSET {r \in unresolved : creatable(entity(r))} :
        /\ scope' = v(ok)
        /\ catalog' = catalog \cup {created_object(entity(r), id(r)) : r \in ok}
  BY DEF AutoCreate
<1> DEFINE w == v(ok)
           old == scope.results
<1>2. ScopeOK(scope) /\ ok \subseteq DOMAIN old /\ DOMAIN old \subseteq Nat
  BY DEF ScopeInv, unresolved, Results, ScopeOK
<1>3. \A r \in ok : id(r) \in Nat \ {0}
  <2>1. shelf.next \in Nat \ {0}
    BY WorldsAssumption DEF Placed, NoObject
  <2> QED BY <1>2, <2>1
<1>4. \A x \in catalog' : x.id \in Nat \ {0}
  BY <1>1, <1>3 DEF ScopeInv, created_object
<1>5. w.rules = scope.rules /\ w.operands = scope.operands /\ w.results = res(ok)
  <2> HIDE DEF res
  <2> QED BY DEF IsScope
<1>6. \A r \in ok : ResultOK(new(ok)[r])
  BY <1>3 DEF ResultOK, Result, NoObject
<1>7. /\ DOMAIN res(ok) = DOMAIN old
      /\ \A r \in DOMAIN old : res(ok)[r] = IF r \in ok THEN new(ok)[r] ELSE old[r]
  <2>1. DOMAIN new(ok) = ok
    OBVIOUS
  <2> HIDE DEF new
  <2> QED BY <1>2, <2>1 DEF over
<1> HIDE DEF new, res, w, v
<1>8. ScopeOK(w)
  BY <1>2, <1>5, <1>6, <1>7 DEF ScopeOK
<1> QED BY <1>1, <1>4, <1>8, ScopeBecomes DEF w

\* A change of the catalog leaves the scope as it is.
LEMMA EditCatalogScope ==
  ASSUME Placed, ScopeInv, shelf' = shelf, snapshot' = snapshot, EditCatalog
  PROVE  ScopeInv'
<1>1. \A x \in catalog' : x.id \in Nat \ {0}
  <2>1. \A x \in shelf.incoming : x.id \in Nat \ {0}
    BY WorldsAssumption DEF Placed, NoObject
  <2> QED BY <2>1 DEF EditCatalog, ScopeInv
<1> QED BY <1>1, SameScope DEF EditCatalog

\* The operands of the rules found are the operands of the rules asked for.
LEMMA FoundOperands ==
  ASSUME well_formed(snapshot), NEW asked, NEW op
  PROVE  op \in operands_of(asked) <=> \E u \in scope_rules(asked) : op \in rule_of(u).operands
<1>1. op \in operands_of(asked) <=> \E x \in snapshot.rules : x.id \in asked /\ op \in x.operands
  BY DEF operands_of
<1>2. \A u : u \in scope_rules(asked) <=> \E x \in snapshot.rules : x.id \in asked /\ u = x.id
  BY DEF scope_rules
<1>3. \A x \in snapshot.rules : rule_of(x.id) = x
  BY RuleOf
<1> QED BY <1>1, <1>2, <1>3

\* What the entities are resolved to.
LEMMA Resolved ==
  ASSUME \A x \in catalog : x.id \in Nat \ {0}, NEW entities
  PROVE  /\ DOMAIN entity_results(entities) = {e.id : e \in {x \in entities : ~IsGroup(x)}}
         /\ \A i \in DOMAIN entity_results(entities) : ResultOK(entity_results(entities)[i])
<1> DEFINE found == build_results(entities, catalog)
           D == {e.id : e \in {x \in entities : ~IsGroup(x)}}
<1>1. /\ DOMAIN found = D
      /\ \A i \in D : found[i] = resolution(candidates(CHOOSE e \in entities : e.id = i, catalog))
  BY DEF build_results
<1>2. /\ DOMAIN entity_results(entities) = D
      /\ \A i \in D : entity_results(entities)[i] =
           [how |-> IF found[i].status = "MATCHED" THEN "auto" ELSE NONE, status |-> found[i].status,
            selected |-> found[i].selected, candidates |-> found[i].candidates]
  BY <1>1 DEF entity_results
<1> HIDE DEF found, D
<1>3. ASSUME NEW i \in D PROVE ResultOK(entity_results(entities)[i])
  <2>1. PICK e : found[i] = resolution(candidates(e, catalog))
    BY <1>1
  <2> DEFINE c == candidates(e, catalog)
  <2>2. c \subseteq Nat \ {0}
    BY DEF candidates
  <2> HIDE DEF c
  <2>3. /\ found[i].candidates = c
        /\ found[i].status \in {"MATCHED", "AMBIGUOUS", "UNRESOLVED"}
        /\ found[i].selected \in Nat
        /\ found[i].status = "MATCHED" <=> found[i].selected # NoObject
    <3>1. found[i] = resolution(c)
      BY <2>1 DEF c
    <3>2. CASE Cardinality(c) = 1
      <4>1. c # {}
        BY <3>2, FS_EmptySet
      <4>2. (CHOOSE o \in c : TRUE) \in c
        BY <4>1
      <4>3. (CHOOSE o \in c : TRUE) \in Nat \ {0}
        BY <2>2, <4>2
      <4> QED BY <3>1, <3>2, <4>1, <4>3 DEF resolution, NoObject
    <3>3. CASE Cardinality(c) # 1
      BY <3>1, <3>3 DEF resolution, NoObject
    <3> QED BY <3>2, <3>3
  <2> DEFINE how == IF found[i].status = "MATCHED" THEN "auto" ELSE NONE
  <2>4. how \in {NONE, "auto"}
    OBVIOUS
  <2>5. entity_results(entities)[i] = [how |-> how, status |-> found[i].status,
                                      selected |-> found[i].selected, candidates |-> c]
    BY <1>2, <2>3
  <2> HIDE DEF how
  <2>6. entity_results(entities)[i] \in Result
    BY <2>2, <2>3, <2>4, <2>5 DEF Result
  <2> QED BY <2>3, <2>5, <2>6 DEF ResultOK
<1> QED BY <1>2, <1>3 DEF D

\* A new scope is good: its operands and its results are about the same entities.
LEMMA NewScope ==
  ASSUME Placed, \A x \in catalog : x.id \in Nat \ {0}, NEW ids, ~scope_entities(ids).fails,
         ~build_fails(scope_entities(ids).rules)
  PROVE  ScopeOK(new_scope(scope_entities(ids).rules, entity_results(scope_entities(ids).entities)))
<1> DEFINE asked == {ids[n] : n \in DOMAIN ids}
           rules == scope_rules(asked)
           narrow == has_any([NoFilter EXCEPT !.rule_ids = asked])
           entities == collect_zones(narrow, asked) \cup collect_objects(narrow, asked)
           results == entity_results(entities)
           seeds == {op.target : op \in {x \in operands_of(asked) : x.role \notin ZoneRoles}}
           v == new_scope(rules, results)
<1>1. /\ scope_entities(ids).rules = rules /\ scope_entities(ids).entities = entities
      /\ rules # {} /\ ~build_fails(rules)
  BY DEF scope_entities
<1>2. /\ well_formed(snapshot) /\ ManualBase \in Nat
      /\ \A e \in snapshot.zones \cup snapshot.objects : e.id \in Nat /\ e.id < ManualBase
  <2>1. /\ well_formed(snapshot) /\ ManualBase \in Nat
        /\ \A e \in snapshot.zones \cup snapshot.objects : e.id < ManualBase
    BY WorldsAssumption DEF Placed
  <2>2. \A e \in snapshot.zones \cup snapshot.objects : e.id \in Nat
    BY <2>1 DEF well_formed
  <2> QED BY <2>1, <2>2
<1>3. narrow
  <2>1. asked # {}
    BY <1>1 DEF scope_rules
  <2> HIDE DEF asked
  <2> QED BY <2>1 DEF has_any, NoFilter
<1>4. rules \subseteq ids_of(snapshot.rules) /\ rules \subseteq asked
  BY DEF scope_rules, ids_of
<1>5. \A e : e \in entities <=>
         \/ e \in snapshot.zones /\ \E op \in operands_of(asked) : op.target = e.id
         \/ e \in snapshot.objects /\ e.id \in expand_object_groups(seeds)
  BY <1>3 DEF collect_zones, collect_objects
<1> HIDE DEF asked, rules, narrow, entities, seeds
<1>6. \A op : op \in operands_of(asked) <=> \E u \in rules : op \in rule_of(u).operands
  BY <1>2, FoundOperands DEF rules
<1>7. \A op \in operands_of(asked) :
        /\ op.role \in Roles
        /\ op.role \in ZoneRoles => \E z \in snapshot.zones : z.id = op.target
        /\ op.role \notin ZoneRoles => op.target \in ids_of(snapshot.objects)
  BY <1>2 DEF operands_of, well_formed, ids_of
<1>8. \A op \in operands_of(asked) : ~operand_targets(op.target).fails
  <2>1. \A op \in operands_of(rules) : ~operand_targets(op.target).fails
    BY <1>1 DEF build_fails
  <2>2. \A op \in operands_of(asked) : op \in operands_of(rules)
    <3>1. operands_of(asked) = UNION {u.operands : u \in {x \in snapshot.rules : x.id \in asked}}
          /\ operands_of(rules) = UNION {u.operands : u \in {x \in snapshot.rules : x.id \in rules}}
      BY DEF operands_of
    <3>2. \A x \in snapshot.rules : x.id \in asked => x.id \in rules
      BY DEF rules, scope_rules
    <3> QED BY <3>1, <3>2
  <2> QED BY <2>1, <2>2
<1>9. /\ seeds \subseteq ids_of(snapshot.objects)
      /\ \A t \in seeds : ~operand_targets(t).fails
      /\ \A op \in operands_of(asked) : op.role \notin ZoneRoles => op.target \in seeds
      /\ \A t \in seeds : \E op \in operands_of(asked) : op.target = t
  BY <1>7, <1>8 DEF seeds
<1>10. /\ seeds \subseteq expand_object_groups(seeds)
       /\ expand_object_groups(seeds) \subseteq ids_of(snapshot.objects)
       /\ closed(expand_object_groups(seeds), snapshot.members)
  <2>1. /\ {m \in snapshot.members : m[1] \in groups} = snapshot.members
        /\ snapshot.members \subseteq ids_of(snapshot.objects) \X ids_of(snapshot.objects)
    BY <1>2 DEF well_formed, groups, ids_of
  <2> QED BY <1>2, <1>9, <2>1, ClosureClosed DEF expand_object_groups
<1>11. /\ \A z \in snapshot.zones : z.id \notin groups /\ ~IsGroup(z)
       /\ \A o \in snapshot.objects : IsGroup(o) <=> o.id \in groups
  BY <1>2 DEF well_formed, groups, ids_of
<1>12. /\ DOMAIN results = {e.id : e \in {x \in entities : ~IsGroup(x)}}
       /\ \A i \in DOMAIN results : ResultOK(results[i])
  BY Resolved
<1>13. /\ v.rules = rules /\ v.operands = build_operands(rules) /\ v.results = results
  BY DEF new_scope
<1> HIDE DEF results, v
<1>14. ASSUME NEW op \in operands_of(asked), NEW t \in operand_targets(op.target).targets
       PROVE  t \in DOMAIN results
  <2>1. CASE op.role \in ZoneRoles
    <3>1. PICK z \in snapshot.zones : z.id = op.target
      BY <1>7, <2>1
    <3>2. t = z.id
      BY <1>11, <3>1 DEF operand_targets
    <3>3. z \in entities
      BY <1>5, <3>1
    <3> QED BY <1>11, <1>12, <3>2, <3>3
  <2>2. CASE op.role \notin ZoneRoles
    <3>1. t \in expand_object_groups(seeds) \ groups
      BY <1>9, <1>10, <2>2, TargetsBelow
    <3>2. PICK o \in snapshot.objects : o.id = t
      BY <1>10, <3>1 DEF ids_of
    <3>3. o \in entities /\ ~IsGroup(o)
      BY <1>5, <1>11, <3>1, <3>2
    <3> QED BY <1>12, <3>2, <3>3
  <2> QED BY <2>1, <2>2
<1>15. \A r \in DOMAIN results : r \in Nat /\ ~is_manual(r)
  BY <1>2, <1>5, <1>12 DEF is_manual
<1>16. ASSUME NEW x \in build_operands(rules)
       PROVE  x.rule \in rules /\ x.role \in MappedRoles /\ x.result \in DOMAIN results
  <2>1. PICK u \in rules : \E op \in rule_of(u).operands : \E r \in operand_targets(op.target).targets :
          x = [rule |-> u, role |-> MappedRole(op.role), result |-> r]
    BY Built
  <2>2. PICK op \in rule_of(u).operands : \E r \in operand_targets(op.target).targets :
          x = [rule |-> u, role |-> MappedRole(op.role), result |-> r]
    BY <2>1
  <2>3. op \in operands_of(asked)
    BY <1>6
  <2> QED BY <1>7, <1>14, <2>2, <2>3 DEF MappedRoles
<1>17. ASSUME NEW r \in DOMAIN results
       PROVE  \E x \in build_operands(rules) : x.result = r
  <2>1. PICK e \in entities : e.id = r /\ ~IsGroup(e)
    BY <1>12
  <2>2. \E op \in operands_of(asked) : r \in operand_targets(op.target).targets
    <3>1. CASE e \in snapshot.zones /\ \E op \in operands_of(asked) : op.target = e.id
      BY <1>11, <2>1, <3>1 DEF operand_targets
    <3>2. CASE e \in snapshot.objects /\ e.id \in expand_object_groups(seeds)
      <4>1. r \notin groups
        BY <1>11, <2>1, <3>2
      <4>2. PICK t \in seeds : r \in operand_targets(t).targets
        BY <1>2, <1>9, <2>1, <3>2, <4>1, BelowTargets
      <4>3. PICK op \in operands_of(asked) : op.target = t
        BY <1>9
      <4> QED BY <4>2, <4>3
    <3> QED BY <1>5, <3>1, <3>2
  <2>3. PICK op \in operands_of(asked) : r \in operand_targets(op.target).targets
    BY <2>2
  <2>4. PICK u \in rules : op \in rule_of(u).operands
    BY <1>6
  <2>5. [rule |-> u, role |-> MappedRole(op.role), result |-> r] \in build_operands(rules)
    BY <2>3, <2>4, Built
  <2> QED BY <2>5
<1>18. ScopeOK(v)
  <2>1. {op \in v.operands : ~is_manual(op.result)} = build_operands(v.rules)
    BY <1>13, <1>15, <1>16
  <2>2. {r \in DOMAIN v.results : is_manual(r)} = {}
    BY <1>13, <1>15
  <2>3. IsFiniteSet({r \in DOMAIN v.results : is_manual(r)})
    BY <2>2, FS_EmptySet
  <2>4. \A u \in v.rules : \A op \in rule_of(u).operands : ~operand_targets(op.target).fails
    BY <1>6, <1>8, <1>13
  <2>5. \A op \in v.operands : op.rule \in v.rules /\ op.role \in MappedRoles /\ op.result \in DOMAIN v.results
    BY <1>13, <1>16
  <2>6. \A r \in DOMAIN v.results : \E op \in v.operands : op.result = r
    BY <1>13, <1>17
  <2> QED BY <1>4, <1>12, <1>13, <1>15, <2>1, <2>3, <2>4, <2>5, <2>6 DEF ScopeOK
<1> QED BY <1>1, <1>18 DEF v, results

\* A mapping writes a good scope, or none.
LEMMA MapRulesScope ==
  ASSUME Placed, ScopeInv, NEW ids, MapRules(ids)
  PROVE  ScopeInv'
<1> DEFINE read == scope_entities(ids)
           v == new_scope(read.rules, entity_results(read.entities))
           fails == read.fails \/ build_fails(read.rules)
<1>1. scope' = (IF fails THEN NoScope ELSE v) /\ snapshot' = snapshot /\ catalog' = catalog
  BY DEF MapRules
<1>2. ~fails => ScopeOK(v)
  BY NewScope DEF ScopeInv
<1>3. ASSUME fails PROVE ScopeInv'
  BY <1>1, <1>3 DEF ScopeInv
<1>4. ASSUME ~fails PROVE ScopeInv'
  <2>1. scope' = v
    BY <1>1, <1>4
  <2> HIDE DEF v, fails
  <2> QED BY <1>1, <1>2, <1>4, <2>1, ScopeBecomes DEF ScopeInv
<1> QED BY <1>3, <1>4

\* A step on the scope keeps it good.
LEMMA WorkingScope ==
  ASSUME Placed, ShownInv, ScopeInv, Working
  PROVE  ScopeInv'
<1>1. scope # NoScope /\ shelf' = shelf /\ snapshot' = snapshot /\ IsScope(scope)
  BY DEF Working, pageVars, ShownInv
<1>2. CASE EditCatalog
  BY <1>1, <1>2, EditCatalogScope
<1>3. ASSUME NEW s, LoadProjection(s) \/ (\E r : LoadDetails(s, r)) \/ (\E side : LoadRows(s, side))
      PROVE  ScopeInv'
  <2>1. scope' = scope /\ catalog' = catalog
    BY <1>3 DEF LoadProjection, LoadDetails, LoadRows
  <2> QED BY <1>1, <2>1, SameScope DEF ScopeInv
<1> QED BY <1>1, <1>2, <1>3, SelectCandidateScope, SelectDirectlyScope, AssignZoneScope, AutoCreateScope
        DEF Working

\* And so does every step.
LEMMA NextScope == Placed /\ ShownInv /\ ScopeInv /\ [Next]_vars => ScopeInv'
<1> SUFFICES ASSUME Placed, ShownInv, ScopeInv, [Next]_vars PROVE ScopeInv'
  OBVIOUS
<1>1. CASE UNCHANGED vars
  <2>1. scope' = scope /\ catalog' = catalog /\ snapshot' = snapshot
    BY <1>1 DEF vars, pageVars, mapVars
  <2> QED BY <2>1, SameScope DEF ScopeInv
<1>2. CASE Generate \/ MapByApi
  BY <1>2, MapRulesScope DEF Generate, MapByApi
<1>3. CASE Picking
  BY <1>3 DEF Picking, mapVars, ScopeInv
<1> QED BY <1>1, <1>2, <1>3, WorkingScope DEF Next

\* At the start there is no scope.
LEMMA InitScope == Init => ScopeInv
  BY WorldsAssumption DEF Init, InitIn, ScopeInv, NoObject

\* The mapped rules page shows every rule as clear exactly when the reader of the execution
\* accepts the scope, and each role then goes to the objects its rows show, whatever was
\* chosen, assigned and created before and by however many sessions.
THEOREM MappedIsPlannedHolds == Spec => []MappedIsPlanned
<1>1. PageInv => Placed
  BY DEF PageInv
<1>2. PageInv /\ ScopeInv => MappedIsPlanned
  BY <1>1, ScopeInvPlanned
<1>3. Init => PageInv /\ ShownInv /\ ScopeInv
  BY InitKeeps, InitShown, InitScope
<1>4. (PageInv /\ ShownInv /\ ScopeInv) /\ [Next]_vars => (PageInv /\ ShownInv /\ ScopeInv)'
  BY <1>1, NextKeeps, NextShown, NextScope
<1> QED BY <1>2, <1>3, <1>4, PTL DEF Spec

\* The filter by an object, which walks up the groups, finds exactly the rules whose mapping,
\* which walks down, would take the object in, however groups are nested, cycles included.
THEOREM FilterAgreesWithScopeHolds == Spec => []FilterAgreesWithScope
<1>1. PageInv => FilterAgreesWithScope
  <2>1. PageInv => well_formed(snapshot)
    BY WorldsAssumption DEF PageInv, Placed
  <2> QED BY <2>1, FilterAgrees DEF FilterAgreesWithScope
<1> QED BY <1>1, InitKeeps, NextKeeps, PTL DEF Spec

----------------------------------------------------------------------------
(***************************************************************************)
(* What a mapping answers                                                  *)
(***************************************************************************)

\* The ids a mapping is asked for are a sequence.
LEMMA SortedIds ==
  ASSUME NEW ids \in Selections
  PROVE  \E T : sorted_ids(ids) \in Seq(T)
<1> DEFINE f == sorted_ids(ids)
           n == Cardinality(ids)
           T == {f[i] : i \in 1 .. n}
<1>1. n \in Nat
  BY FS_CardinalityType DEF Selections
<1>2. f \in [1 .. n -> T]
  <2> DEFINE at(i) == CHOOSE x \in ids : Cardinality({j \in ids : j < x}) = i - 1
  <2>1. f = [i \in 1 .. n |-> at(i)]
    BY DEF sorted_ids
  <2> HIDE DEF f, n, at
  <2>2. f = [i \in 1 .. n |-> f[i]]
    BY <2>1
  <2> QED BY <2>2
<1> HIDE DEF f, n, T
<1>3. f \in Seq(T)
  BY <1>1, <1>2, Sequence
<1> QED BY <1>3 DEF f

\* The reader finds all the rules exactly when they are all there and asked for once.
LEMMA Complete ==
  ASSUME NEW T, NEW ids \in Seq(T), NEW asked, asked = {ids[n] : n \in DOMAIN ids}
  PROVE  /\ scope_entities(ids).rules = scope_rules(asked)
         /\ scope_entities(ids).fails <=>
              ~ (/\ asked # {} /\ asked \subseteq ids_of(snapshot.rules)
                 /\ Cardinality(asked) = Len(ids))
         /\ asked \subseteq ids_of(snapshot.rules) => scope_rules(asked) = asked
<1> DEFINE found == scope_rules(asked)
<1>1. /\ scope_entities(ids).rules = found
      /\ scope_entities(ids).fails <=> ids = <<>> \/ found = {} \/ Cardinality(found) # Len(ids)
  BY DEF scope_entities
<1>2. \A i : i \in found <=> i \in asked /\ i \in ids_of(snapshot.rules)
  BY DEF scope_rules, ids_of
<1>3. Len(ids) \in Nat /\ DOMAIN ids = 1 .. Len(ids)
  OBVIOUS
<1>4. /\ IsFiniteSet(asked) /\ Cardinality(asked) \in Nat /\ Cardinality(asked) <= Len(ids)
  <2> DEFINE f == [n \in 1 .. Len(ids) |-> ids[n]]
             D == 1 .. Len(ids)
  <2>1. f \in Surjection(D, asked)
    BY <1>3 DEF Surjection
  <2>2. IsFiniteSet(D) /\ Cardinality(D) = Len(ids)
    BY <1>3, FS_Interval
  <2> HIDE DEF f, D
  <2> QED BY <2>1, <2>2, FS_Surjection, FS_CardinalityType
<1> HIDE DEF found
<1>5. /\ IsFiniteSet(found) /\ Cardinality(found) \in Nat
      /\ Cardinality(found) <= Cardinality(asked)
      /\ Cardinality(found) = Cardinality(asked) <=> found = asked
  <2>1. found \in SUBSET asked
    BY <1>2
  <2> QED BY <1>4, <2>1, FS_Subset, FS_CardinalityType
<1>6. asked \subseteq ids_of(snapshot.rules) <=> found = asked
  BY <1>2
<1>7. asked # {} => ids # <<>>
  BY <1>3
<1>8. found = asked => (found = {} <=> asked = {})
  OBVIOUS
<1>9. ~scope_entities(ids).fails <=>
        asked # {} /\ asked \subseteq ids_of(snapshot.rules) /\ Cardinality(asked) = Len(ids)
  <2>1. ASSUME ~scope_entities(ids).fails
        PROVE  asked # {} /\ asked \subseteq ids_of(snapshot.rules) /\ Cardinality(asked) = Len(ids)
    <3>1. found # {} /\ Cardinality(found) = Len(ids)
      BY <1>1, <2>1
    <3>2. Cardinality(found) = Cardinality(asked)
      BY <1>3, <1>4, <1>5, <3>1
    <3> QED BY <1>5, <1>6, <3>1, <3>2
  <2>2. ASSUME asked # {}, asked \subseteq ids_of(snapshot.rules), Cardinality(asked) = Len(ids)
        PROVE  ~scope_entities(ids).fails
    BY <1>1, <1>6, <1>7, <2>2
  <2> QED BY <2>1, <2>2
<1> QED BY <1>1, <1>6, <1>9 DEF found

\* The groups a walk stands at are the ends of the paths so long.
LEMMA WalkEnds ==
  ASSUME well_formed(snapshot), NEW g \in groups
  PROVE  \A n \in 1 .. MaxGroupDepth + 1 : \A x :
            x \in groups_at(g)[n] <=> \E p \in walks(g, n) : p[n] = x
<1> DEFINE N == MaxGroupDepth
           at == groups_at(g)
           ends(n) == \A x : x \in at[n] <=> \E p \in walks(g, n) : p[n] = x
           D == {n \in 0 .. N : ends(n + 1)}
<1>1. N \in Nat \ {0}
  BY DepthAssumption
<1>2. at[1] = {g} /\ \A n \in 1 .. N : at[n + 1] = children(at[n]) \cap groups
  BY Levels
<1> HIDE DEF N, at
<1>3. \A n \in Nat : \A p \in [1 .. n -> groups] :
         walk(p) <=> \A i \in 1 .. n - 1 : <<p[i], p[i + 1]>> \in snapshot.members
  BY Sequence DEF walk
<1>4. 0 \in D
  <2>1. \A p \in walks(g, 1) : p[1] = g
    BY DEF walks
  <2> DEFINE p == [i \in 1 .. 1 |-> g]
  <2>2. p \in [1 .. 1 -> groups] /\ p[1] = g
    OBVIOUS
  <2> HIDE DEF p
  <2>3. walk(p)
    <3>1. \A i \in 1 .. 1 - 1 : <<p[i], p[i + 1]>> \in snapshot.members
      OBVIOUS
    <3>2. 1 \in Nat
      OBVIOUS
    <3> QED BY <1>3, <2>2, <3>1, <3>2
  <2>4. p \in walks(g, 1)
    BY <2>2, <2>3 DEF walks
  <2> QED BY <1>1, <1>2, <2>1, <2>2, <2>4
<1>5. ASSUME NEW n \in 0 .. N - 1, n \in D PROVE n + 1 \in D
  <2> DEFINE k == n + 1
  <2>1. k \in 1 .. N /\ ends(k) /\ k \in Nat /\ k # 0
    BY <1>1, <1>5
  <2> HIDE DEF k
  <2>2. ASSUME NEW x, x \in at[k + 1] PROVE \E q \in walks(g, k + 1) : q[k + 1] = x
    <3>1. x \in groups /\ \E m \in snapshot.members : m[1] \in at[k] /\ m[2] = x
      BY <1>2, <2>1, <2>2 DEF children
    <3>2. PICK m \in snapshot.members : m[1] \in at[k] /\ m[2] = x
      BY <3>1
    <3>3. PICK p \in walks(g, k) : p[k] = m[1]
      BY <2>1, <3>2
    <3> DEFINE q == [i \in 1 .. k + 1 |-> IF i = k + 1 THEN x ELSE p[i]]
    <3>4. p \in [1 .. k -> groups] /\ p[1] = g
          /\ \A i \in 1 .. k - 1 : <<p[i], p[i + 1]>> \in snapshot.members
      BY <1>3, <2>1 DEF walks
    <3>5. q \in [1 .. k + 1 -> groups] /\ q[1] = g /\ q[k + 1] = x
      BY <2>1, <3>1, <3>4
    <3>6. ASSUME NEW i \in 1 .. k PROVE <<q[i], q[i + 1]>> \in snapshot.members
      <4>1. CASE i = k
        <5>1. q[i] = p[k] /\ q[i + 1] = x
          BY <2>1, <4>1
        <5>2. m = <<m[1], m[2]>>
          <6> DEFINE U == ids_of({o \in snapshot.objects : IsGroup(o)})
                     V == ids_of(snapshot.objects)
          <6>1. snapshot.members \subseteq U \X V
            BY DEF well_formed
          <6> HIDE DEF U, V
          <6> QED BY <6>1
        <5> QED BY <3>2, <3>3, <5>1, <5>2
      <4>2. CASE i # k
        <5>1. i \in 1 .. k - 1 /\ q[i] = p[i] /\ q[i + 1] = p[i + 1]
          BY <2>1, <4>2
        <5> QED BY <3>4, <5>1
      <4> QED BY <4>1, <4>2
    <3> HIDE DEF q
    <3>7. k + 1 \in Nat /\ (k + 1) - 1 = k
      BY <2>1
    <3>8. q \in walks(g, k + 1)
      BY <1>3, <3>5, <3>6, <3>7 DEF walks
    <3> QED BY <3>5, <3>8
  <2>3. ASSUME NEW q \in walks(g, k + 1) PROVE q[k + 1] \in at[k + 1]
    <3> DEFINE p == [i \in 1 .. k |-> q[i]]
    <3>1. k + 1 \in Nat /\ (k + 1) - 1 = k
      BY <2>1
    <3>2. q \in [1 .. k + 1 -> groups] /\ q[1] = g
          /\ \A i \in 1 .. k : <<q[i], q[i + 1]>> \in snapshot.members
      BY <1>3, <3>1 DEF walks
    <3>3. p \in [1 .. k -> groups] /\ p[1] = g /\ p[k] = q[k]
          /\ \A i \in 1 .. k - 1 : <<p[i], p[i + 1]>> \in snapshot.members
      BY <2>1, <3>2
    <3> HIDE DEF p
    <3>4. p \in walks(g, k)
      BY <1>3, <2>1, <3>3 DEF walks
    <3>5. q[k] \in at[k]
      BY <2>1, <3>3, <3>4
    <3>6. <<q[k], q[k + 1]>> \in snapshot.members /\ q[k + 1] \in groups
      BY <2>1, <3>2
    <3>7. q[k + 1] \in children(at[k])
      BY <3>5, <3>6 DEF children
    <3> QED BY <1>2, <2>1, <3>6, <3>7
  <2>4. ends(k + 1)
    BY <2>2, <2>3
  <2> QED BY <1>1, <2>4 DEF k
<1>6. 0 .. N \subseteq D
  <2> HIDE DEF D
  <2> QED BY <1>1, <1>4, <1>5, SetInduction
<1>7. ASSUME NEW n \in 1 .. N + 1 PROVE ends(n)
  <2>1. n - 1 \in 0 .. N /\ (n - 1) + 1 = n
    BY <1>1
  <2>2. n - 1 \in D
    BY <1>6, <2>1
  <2> QED BY <2>1, <2>2
<1> QED BY <1>7 DEF N, at

\* What paths lead down to is what the walk collects, and it fails where a path is too long.
LEMMA LeavesBelow ==
  ASSUME well_formed(snapshot), NEW t
  PROVE  /\ operand_targets(t).fails <=>
              leaves_below(t) = {} \/ (t \in groups /\ walks(t, MaxGroupDepth + 1) # {})
         /\ ~operand_targets(t).fails => operand_targets(t).targets = leaves_below(t)
<1>1. CASE t \notin groups
  BY <1>1 DEF operand_targets, leaves_below
<1>2. CASE t \in groups
  <2>1. walk_fails(t) <=> walks(t, MaxGroupDepth + 1) # {}
    <3>1. MaxGroupDepth + 1 \in 1 .. MaxGroupDepth + 1
      BY DepthAssumption
    <3>2. \A x : x \in groups_at(t)[MaxGroupDepth + 1]
                   <=> \E p \in walks(t, MaxGroupDepth + 1) : p[MaxGroupDepth + 1] = x
      BY <1>2, <3>1, WalkEnds
    <3> QED BY <3>2 DEF walk_fails
  <2>2. leaves_below(t) = resolve_group_leaves(t)
    <3>1. \A n \in 1 .. MaxGroupDepth : \A x :
            x \in groups_at(t)[n] <=> \E p \in walks(t, n) : p[n] = x
      BY <1>2, WalkEnds, DepthAssumption
    <3>2. \A y : y \in leaves_below(t) <=>
             \E m \in snapshot.members :
               /\ m[2] = y /\ y \notin groups
               /\ \E n \in 1 .. MaxGroupDepth : \E p \in walks(t, n) : p[n] = m[1]
      BY <1>2 DEF leaves_below
    <3>3. \A y : y \in resolve_group_leaves(t) <=>
             y \notin groups /\ \E n \in 1 .. MaxGroupDepth : \E m \in snapshot.members :
                                  m[1] \in groups_at(t)[n] /\ m[2] = y
      BY DEF resolve_group_leaves, children
    <3>4. \A y : y \in leaves_below(t) <=> y \in resolve_group_leaves(t)
      BY <3>1, <3>2, <3>3
    <3> QED BY <3>4
  <2> QED BY <1>2, <2>1, <2>2 DEF operand_targets
<1> QED BY <1>1, <1>2

\* answered_whole, of an answer and the scope it left.
Answered(a, v) ==
  LET asked == {a.asked[n] : n \in DOMAIN a.asked}
      complete == /\ asked # {} /\ asked \subseteq ids_of(snapshot.rules)
                  /\ Cardinality(asked) = Len(a.asked)
  IN  /\ a.fails <=> \/ ~complete
                     \/ \E op \in operands_of(asked) :
                          \/ leaves_below(op.target) = {}
                          \/ op.target \in groups /\ walks(op.target, MaxGroupDepth + 1) # {}
      /\ a.fails <=> v = NoScope
      /\ ~a.fails =>
           \A u \in asked : \A op \in rule_of(u).operands : \A t \in leaves_below(op.target) :
             [rule |-> u, role |-> MappedRole(op.role), result |-> t] \in v.operands
               /\ t \in DOMAIN v.results

\* Whether an answer is whole depends on the snapshot alone.
LEMMA AnsweredSame ==
  ASSUME snapshot' = snapshot, NEW a, NEW v, Answered(a, v)
  PROVE  Answered(a, v)'
<1>1. groups' = groups /\ ids_of(snapshot.rules)' = ids_of(snapshot.rules)
  BY DEF groups, ids_of
<1>2. \A p : walk(p)' <=> walk(p)
  BY DEF walk
<1>3. \A g, n : walks(g, n)' = walks(g, n)
  BY <1>1, <1>2 DEF walks
<1>4. \A t : leaves_below(t)' = leaves_below(t)
  BY <1>1, <1>3 DEF leaves_below
<1>5. \A ids : operands_of(ids)' = operands_of(ids)
  BY DEF operands_of
<1>6. \A u : rule_of(u)' = rule_of(u)
  BY SameGroups
<1> QED BY <1>1, <1>3, <1>4, <1>5, <1>6 DEF Answered

\* A mapping answers whole.
LEMMA AnswerWhole ==
  ASSUME Placed, ScopeInv, NEW T, NEW ids \in Seq(T), MapRules(ids)
  PROVE  answered_whole'
<1> DEFINE read == scope_entities(ids)
           v == new_scope(read.rules, entity_results(read.entities))
           fails == read.fails \/ build_fails(read.rules)
           asked == {ids[n] : n \in DOMAIN ids}
           left_out == \E op \in operands_of(asked) :
                          \/ leaves_below(op.target) = {}
                          \/ op.target \in groups /\ walks(op.target, MaxGroupDepth + 1) # {}
           complete == /\ asked # {} /\ asked \subseteq ids_of(snapshot.rules)
                       /\ Cardinality(asked) = Len(ids)
           a == [asked |-> ids, fails |-> fails]
           w == IF fails THEN NoScope ELSE v
<1>1. answer' = a /\ scope' = w /\ snapshot' = snapshot
  BY DEF MapRules
<1>2. well_formed(snapshot)
  BY WorldsAssumption DEF Placed
<1>3. ~fails => ScopeOK(v) /\ v.operands = build_operands(read.rules) /\ v.results = entity_results(read.entities)
                /\ v # NoScope
  <2>1. /\ v.operands = build_operands(read.rules) /\ v.results = entity_results(read.entities)
        /\ v # NoScope
    BY DEF new_scope, NoScope
  <2> QED BY <2>1, NewScope DEF ScopeInv
<1>4. /\ read.rules = scope_rules(asked)
      /\ read.fails <=> ~complete
      /\ asked \subseteq ids_of(snapshot.rules) => scope_rules(asked) = asked
  BY Complete
<1>5. complete => (build_fails(read.rules) <=> left_out)
  BY <1>2, <1>4, LeavesBelow DEF build_fails
<1>6. fails <=> ~complete \/ left_out
  BY <1>4, <1>5
<1>7. ASSUME ~fails, NEW u \in asked, NEW op \in rule_of(u).operands, NEW t \in leaves_below(op.target)
      PROVE  [rule |-> u, role |-> MappedRole(op.role), result |-> t] \in v.operands /\ t \in DOMAIN v.results
  <2>1. u \in read.rules
    BY <1>4, <1>7
  <2>2. op \in operands_of(asked)
    BY <1>2, <1>4, <2>1, FoundOperands
  <2>3. ~operand_targets(op.target).fails
    BY <1>2, <1>6, <1>7, <2>2, LeavesBelow
  <2>4. t \in operand_targets(op.target).targets
    BY <1>2, <1>7, <2>3, LeavesBelow
  <2>5. [rule |-> u, role |-> MappedRole(op.role), result |-> t] \in build_operands(read.rules)
    BY <2>1, <2>4, Built
  <2>6. [rule |-> u, role |-> MappedRole(op.role), result |-> t] \in v.operands
    BY <1>3, <1>7, <2>5
  <2>7. \A x \in v.operands : x.result \in DOMAIN v.results
    BY <1>3, <1>7 DEF ScopeOK
  <2> QED BY <2>6, <2>7
<1>8. Answered(a, w)
  <2>1. a.asked = ids /\ (a.fails <=> fails)
    OBVIOUS
  <2>2. a.fails <=> w = NoScope
    BY <1>3, <2>1
  <2>3. a.fails <=> ~complete \/ left_out
    BY <1>6, <2>1
  <2>4. ~a.fails => w = v
    BY <2>1
  <2>5. asked = {a.asked[n] : n \in DOMAIN a.asked}
    BY <2>1
  <2>6. ~a.fails =>
           \A u \in asked : \A op \in rule_of(u).operands : \A t \in leaves_below(op.target) :
             [rule |-> u, role |-> MappedRole(op.role), result |-> t] \in w.operands
               /\ t \in DOMAIN w.results
    <3> HIDE DEF a, w, v, fails
    <3> QED BY <1>7, <2>1, <2>4
  <2> HIDE DEF a, w, v, fails
  <2> QED BY <2>1, <2>2, <2>3, <2>5, <2>6 DEF Answered
<1> HIDE DEF a, w
<1>9. PICK b, z : b = a /\ z = w
  OBVIOUS
<1>10. Answered(b, z)'
  BY <1>1, <1>8, <1>9, AnsweredSame
<1>11. Answered(answer, scope)'
  BY <1>1, <1>9, <1>10
<1> QED BY <1>11 DEF Answered, answered_whole, Results

\* Nothing else answers.
LEMMA WholeStep ==
  ASSUME PageInv, ScopeInv, [Next]_vars
  PROVE  answer' # answer => answered_whole'
<1>1. Placed
  BY DEF PageInv
<1>2. CASE UNCHANGED vars \/ Picking \/ Working
  BY <1>2 DEF vars, mapVars, Picking, Working
<1>3. CASE Generate
  <2>1. MapRules(sorted_ids(page.selected)) /\ page.selected \in Selections
    BY <1>3 DEF Generate, PageInv, InStep, Page
  <2>2. PICK T : sorted_ids(page.selected) \in Seq(T)
    BY <2>1, SortedIds
  <2> QED BY <1>1, <2>1, <2>2, AnswerWhole
<1>4. CASE MapByApi
  <2>1. PICK ids \in shelf.requests : MapRules(ids)
    BY <1>4 DEF MapByApi
  <2>2. ids \in Seq(Nat)
    BY <1>1, WorldsAssumption DEF Placed
  <2> QED BY <1>1, <2>1, <2>2, AnswerWhole
<1> QED BY <1>2, <1>3, <1>4 DEF Next

\* A mapping answers for all the rules asked for and all that their groups hold, or refuses
\* and stores nothing: as far as paths go, for any depth of groups that is allowed.
THEOREM MappingWholeHolds == Spec => MappingWhole
<1>1. PageInv => Placed
  BY DEF PageInv
<1>2. Init => PageInv /\ ShownInv /\ ScopeInv
  BY InitKeeps, InitShown, InitScope
<1>3. (PageInv /\ ShownInv /\ ScopeInv) /\ [Next]_vars => (PageInv /\ ShownInv /\ ScopeInv)'
  BY <1>1, NextKeeps, NextShown, NextScope
<1>4. (PageInv /\ ShownInv /\ ScopeInv) /\ [Next]_vars => [answer' # answer => answered_whole']_vars
  BY WholeStep
<1> QED BY <1>2, <1>3, <1>4, PTL DEF Spec, MappingWhole

----------------------------------------------------------------------------
(***************************************************************************)
(* What objects mean                                                       *)
(***************************************************************************)

\* The recursive definition holds.
LEMMA PowerOf ==
  power[0] = 1 /\ \A n \in 1 .. AddressBits : power[n] = 2 * power[n - 1]
<1> DEFINE double == [x \in Nat |-> 2 * x]
           is_power(f) == f = [n \in 0 .. AddressBits |-> IF n = 0 THEN 1 ELSE 2 * f[n - 1]]
<1>1. AddressBits \in Nat
  BY MatchingAssumption
<1>2. PICK f \in [0 .. AddressBits -> Nat] : iterates(f, 1, double, AddressBits)
  <2>1. double \in [Nat -> Nat] /\ 1 \in Nat
    OBVIOUS
  <2> HIDE DEF double
  <2> QED BY <1>1, <2>1, Iterate
<1>3. f[0] = 1
  BY <1>2 DEF iterates
<1>4. ASSUME NEW n \in 1 .. AddressBits PROVE f[n] = 2 * f[n - 1]
  <2>1. f[n] = double[f[n - 1]]
    BY <1>2 DEF iterates
  <2>2. n - 1 \in 0 .. AddressBits
    BY <1>1
  <2>3. f[n - 1] \in Nat
    <3> HIDE DEF double
    <3> QED BY <1>2, <2>2
  <2> QED BY <2>1, <2>3
<1>5. is_power(f)
  <2> DEFINE g == [n \in 0 .. AddressBits |-> IF n = 0 THEN 1 ELSE 2 * f[n - 1]]
  <2>1. f = [n \in 0 .. AddressBits |-> f[n]]
    BY <1>2
  <2>2. \A n \in 0 .. AddressBits : f[n] = IF n = 0 THEN 1 ELSE 2 * f[n - 1]
    BY <1>1, <1>3, <1>4
  <2> QED BY <2>1, <2>2
<1>6. power = CHOOSE g : is_power(g)
  BY DEF power
<1> HIDE DEF is_power
<1>7. is_power(power)
  BY <1>5, <1>6
<1> QED BY <1>1, <1>7 DEF is_power

\* A shorter mask is a larger network, and all of them divide the addresses.
LEMMA Powers ==
  /\ \A n \in 0 .. AddressBits : power[n] \in Nat \ {0}
  /\ \A m, n \in 0 .. AddressBits : m < n => 2 * power[m] <= power[n]
  /\ \A n \in 0 .. AddressBits : \E k \in Nat : power[AddressBits] = k * power[n]
<1>1. AddressBits \in Nat
  BY MatchingAssumption
<1>2. ASSUME NEW n \in 0 .. AddressBits PROVE power[n] \in Nat \ {0}
  <2> DEFINE S == {k \in 0 .. AddressBits : power[k] \in Nat \ {0}}
  <2>1. 0 \in S
    BY <1>1, PowerOf
  <2>2. \A k \in 0 .. AddressBits - 1 : k \in S => k + 1 \in S
    <3> SUFFICES ASSUME NEW k \in 0 .. AddressBits - 1, k \in S PROVE k + 1 \in S
      OBVIOUS
    <3>1. k + 1 \in 1 .. AddressBits /\ (k + 1) - 1 = k
      BY <1>1
    <3>2. power[k + 1] = 2 * power[k]
      BY <3>1, PowerOf
    <3> QED BY <3>1, <3>2
  <2> HIDE DEF S
  <2>3. 0 .. AddressBits \subseteq S
    BY <1>1, <2>1, <2>2, SetInduction
  <2> QED BY <2>3 DEF S
<1>3. ASSUME NEW m \in 0 .. AddressBits, NEW n \in 0 .. AddressBits, m < n
      PROVE  2 * power[m] <= power[n]
  <2> DEFINE S == {k \in 0 .. AddressBits : m < k => 2 * power[m] <= power[k]}
  <2>1. 0 \in S
    BY <1>1
  <2>2. \A k \in 0 .. AddressBits - 1 : k \in S => k + 1 \in S
    <3> SUFFICES ASSUME NEW k \in 0 .. AddressBits - 1, k \in S, m < k + 1
                 PROVE  2 * power[m] <= power[k + 1]
      BY <1>1
    <3>1. k + 1 \in 1 .. AddressBits /\ (k + 1) - 1 = k /\ k \in 0 .. AddressBits
      BY <1>1
    <3>2. power[k + 1] = 2 * power[k]
      BY <3>1, PowerOf
    <3>3. power[k] \in Nat \ {0} /\ power[m] \in Nat
      BY <1>2, <3>1
    <3>4. CASE m = k
      BY <3>2, <3>3, <3>4
    <3>5. CASE m < k
      BY <3>2, <3>3, <3>5
    <3> QED BY <1>1, <3>4, <3>5
  <2> HIDE DEF S
  <2>3. 0 .. AddressBits \subseteq S
    BY <1>1, <2>1, <2>2, SetInduction
  <2> QED BY <1>3, <2>3 DEF S
<1>4. ASSUME NEW n \in 0 .. AddressBits
      PROVE  \E k \in Nat : power[AddressBits] = k * power[n]
  <2> DEFINE S == {l \in 0 .. AddressBits :
                     \E k \in Nat : power[AddressBits] = k * power[AddressBits - l]}
  <2>1. 0 \in S
    <3>1. power[AddressBits] = 1 * power[AddressBits - 0]
      BY <1>1, <1>2
    <3> QED BY <1>1, <3>1
  <2>2. \A l \in 0 .. AddressBits - 1 : l \in S => l + 1 \in S
    <3> SUFFICES ASSUME NEW l \in 0 .. AddressBits - 1, l \in S PROVE l + 1 \in S
      OBVIOUS
    <3>1. PICK k \in Nat : power[AddressBits] = k * power[AddressBits - l]
      OBVIOUS
    <3>2. /\ AddressBits - l \in 1 .. AddressBits /\ AddressBits - (l + 1) \in 0 .. AddressBits
          /\ (AddressBits - l) - 1 = AddressBits - (l + 1)
      BY <1>1
    <3>3. power[AddressBits - l] = 2 * power[AddressBits - (l + 1)]
      BY <3>2, PowerOf
    <3>4. power[AddressBits] = (2 * k) * power[AddressBits - (l + 1)] /\ 2 * k \in Nat
      BY <1>2, <3>1, <3>2, <3>3
    <3> QED BY <1>1, <3>4
  <2> HIDE DEF S
  <2>3. 0 .. AddressBits \subseteq S
    BY <1>1, <2>1, <2>2, SetInduction
  <2>4. AddressBits - n \in S /\ AddressBits - (AddressBits - n) = n
    BY <1>1, <2>3
  <2> QED BY <2>4 DEF S
<1> QED BY <1>2, <1>3, <1>4

\* Division and its rest.
LEMMA Divided ==
  ASSUME NEW a \in Nat, NEW p \in Nat \ {0}
  PROVE  a \div p \in Nat /\ a % p \in 0 .. p - 1 /\ a = p * (a \div p) + (a % p)
  OBVIOUS

LEMMA Quotient ==
  ASSUME NEW x \in Nat, NEW q \in Nat, NEW p \in Nat \ {0}
  PROVE  x \div p = q <=> q * p <= x /\ x < q * p + p
  OBVIOUS

\* Multiples are apart.
LEMMA Multiples ==
  ASSUME NEW q \in Nat, NEW r \in Nat, NEW p \in Nat \ {0}, q * p < r * p
  PROVE  q * p + p <= r * p
<1>1. q < r
  OBVIOUS
<1>2. q + 1 <= r
  BY <1>1
<1> QED BY <1>2

\* The addresses of a network are those from its masked address on, as many as its mask
\* leaves.
LEMMA Networks ==
  ASSUME NEW addr \in Addresses, NEW len \in 0 .. AddressBits
  PROVE  /\ AddressBits - len \in 0 .. AddressBits
         /\ masked(addr, len) \in Addresses
         /\ masked(addr, len) + power[AddressBits - len] - 1 \in Addresses
         /\ network(addr, len) =
              masked(addr, len) .. masked(addr, len) + power[AddressBits - len] - 1
<1> DEFINE p == power[AddressBits - len]
           q == addr \div p
           N == power[AddressBits]
<1>1. AddressBits \in Nat /\ AddressBits - len \in 0 .. AddressBits
  BY MatchingAssumption
<1>2. p \in Nat \ {0} /\ N \in Nat \ {0}
  BY <1>1, Powers
<1>3. PICK k \in Nat : N = k * p
  BY <1>1, Powers
<1>4. addr \in Nat /\ addr < N
  BY <1>2 DEF Addresses
<1> HIDE DEF N
<1>5. q \in Nat /\ masked(addr, len) = addr - (addr % p) /\ addr % p \in 0 .. p - 1
      /\ addr = p * q + (addr % p)
  <2>1. masked(addr, len) = addr - (addr % p)
    BY DEF masked
  <2> HIDE DEF p
  <2> QED BY <1>2, <1>4, <2>1, Divided
<1>6. network(addr, len) = {x \in 0 .. N - 1 : x \div p = q}
  BY DEF network, Addresses, N
<1> HIDE DEF p, q
<1>7. masked(addr, len) = q * p /\ q * p \in Nat /\ q * p < k * p
  BY <1>2, <1>3, <1>4, <1>5
<1>8. q * p + p <= N
  BY <1>2, <1>3, <1>5, <1>7, Multiples
<1>9. \A x \in Nat : x \div p = q <=> q * p <= x /\ x < q * p + p
  BY <1>2, <1>5, Quotient
<1>10. network(addr, len) = q * p .. q * p + p - 1
  BY <1>2, <1>6, <1>7, <1>8, <1>9
<1>11. q * p \in 0 .. N - 1 /\ q * p + p - 1 \in 0 .. N - 1
  BY <1>2, <1>7, <1>8
<1> QED BY <1>1, <1>7, <1>10, <1>11 DEF p, Addresses, N

\* Intervals that are not empty are told by their ends.
LEMMA Intervals ==
  ASSUME NEW a \in Int, NEW b \in Int, NEW c \in Int, NEW d \in Int, a <= b
  PROVE  a .. b = c .. d <=> a = c /\ b = d
<1> SUFFICES ASSUME a .. b = c .. d PROVE a = c /\ b = d
  OBVIOUS
<1>1. a \in c .. d /\ b \in c .. d
  OBVIOUS
<1>2. c \in a .. b /\ d \in a .. b
  BY <1>1
<1> QED BY <1>1, <1>2

\* Two networks are the same exactly when they are written the same.
LEMMA SameNetwork ==
  ASSUME NEW a \in Addresses, NEW m \in 0 .. AddressBits, NEW b \in Addresses, NEW n \in 0 .. AddressBits
  PROVE  network(a, m) = network(b, n) <=> masked(a, m) = masked(b, n) /\ m = n
<1> DEFINE p == power[AddressBits - m]
           q == power[AddressBits - n]
<1>1. /\ masked(a, m) \in Int /\ masked(b, n) \in Int
      /\ network(a, m) = masked(a, m) .. masked(a, m) + p - 1
      /\ network(b, n) = masked(b, n) .. masked(b, n) + q - 1
      /\ AddressBits - m \in 0 .. AddressBits /\ AddressBits - n \in 0 .. AddressBits
  BY Networks DEF Addresses
<1>2. p \in Nat \ {0} /\ q \in Nat \ {0}
  BY <1>1, Powers
<1>3. p = q => m = n
  <2>1. AddressBits - m < AddressBits - n => 2 * p <= q
    BY <1>1, Powers
  <2>2. AddressBits - n < AddressBits - m => 2 * q <= p
    BY <1>1, Powers
  <2> HIDE DEF p, q
  <2> QED BY <1>1, <1>2, <2>1, <2>2, MatchingAssumption
<1>4. ASSUME network(a, m) = network(b, n) PROVE masked(a, m) = masked(b, n) /\ p = q
  <2> HIDE DEF p, q
  <2>1. /\ masked(a, m) <= masked(a, m) + p - 1
        /\ masked(a, m) + p - 1 \in Int /\ masked(b, n) + q - 1 \in Int
    BY <1>1, <1>2
  <2>2. masked(a, m) = masked(b, n) /\ masked(a, m) + p - 1 = masked(b, n) + q - 1
    BY <1>1, <1>4, <2>1, Intervals
  <2> QED BY <1>1, <1>2, <2>2
<1>5. ASSUME masked(a, m) = masked(b, n), m = n PROVE network(a, m) = network(b, n)
  BY <1>1, <1>5
<1> QED BY <1>3, <1>4, <1>5

\* A masked address is its own.
LEMMA MaskedAgain ==
  ASSUME NEW addr \in Addresses, NEW len \in 0 .. AddressBits
  PROVE  masked(masked(addr, len), len) = masked(addr, len)
<1> DEFINE p == power[AddressBits - len]
           a == masked(addr, len)
<1>1. /\ AddressBits - len \in 0 .. AddressBits /\ a \in Addresses
      /\ network(addr, len) = a .. a + p - 1
      /\ network(a, len) = masked(a, len) .. masked(a, len) + p - 1
      /\ masked(a, len) \in Addresses
  BY Networks
<1>2. p \in Nat \ {0} /\ power[AddressBits] \in Nat
  BY <1>1, Powers, MatchingAssumption
<1>3. addr \in Nat /\ a \in Nat /\ masked(a, len) \in Nat
  BY <1>1, <1>2 DEF Addresses
<1>4. a = addr - (addr % p) /\ masked(a, len) = a - (a % p)
  BY DEF masked
<1> HIDE DEF p, a
<1>5. /\ addr \div p \in Nat /\ addr % p \in 0 .. p - 1 /\ addr = p * (addr \div p) + (addr % p)
      /\ a \div p \in Nat /\ a % p \in 0 .. p - 1 /\ a = p * (a \div p) + (a % p)
  BY <1>2, <1>3, Divided
<1>6. a = (addr \div p) * p
  BY <1>2, <1>3, <1>4, <1>5
<1>7. a \div p = addr \div p
  BY <1>2, <1>3, <1>5, <1>6, Quotient
<1>8. a % p = 0
  BY <1>2, <1>3, <1>5, <1>6, <1>7
<1> QED BY <1>3, <1>4, <1>8 DEF a

\* The first field of what an address object is filed under says its type.
LEMMA AddrObjects ==
  ASSUME NEW o, is_object(o), o.side = "addr"
  PROVE  /\ filed_value(o)[1] = "host" <=> o.type = "HOST"
         /\ filed_value(o)[1] = "prefix" <=> o.type \in {"PREFIX", "NETWORK"}
         /\ filed_value(o)[1] = "range" <=> o.type = "IP_RANGE"
         /\ filed_value(o)[1] = "fqdn" <=> o.type = "FQDN"
         /\ o.type # "FQDN" => filed_value(o) = o.value
         /\ o.type = "HOST" => \E a \in Addresses : o.value = <<"host", a>>
         /\ o.type \in {"PREFIX", "NETWORK"} =>
              \E a \in Addresses, n \in 0 .. AddressBits : o.value = <<"prefix", masked(a, n), n>>
         /\ o.type = "IP_RANGE" => \E c \in Nat, d \in Nat : o.value = <<"range", c, d>>
         /\ o.type = "FQDN" => o.value[1] = "fqdn" /\ filed_value(o) = <<"fqdn", NormalName[o.value[2]]>>
<1>1. filed_value(o) = IF o.type = "FQDN" THEN <<"fqdn", NormalName[o.value[2]]>> ELSE o.value
  BY DEF filed_value
<1>2. CASE o.type = "HOST"
  <2>1. o.value \in {"host"} \X Addresses
    BY <1>2 DEF is_object
  <2>2. PICK a \in Addresses : o.value = <<"host", a>>
    BY <2>1
  <2> QED BY <1>1, <1>2, <2>2
<1>3. CASE o.type \in {"PREFIX", "NETWORK"}
  <2>1. PICK a \in Addresses, n \in 0 .. AddressBits : o.value = addr_value(a, n)
    BY <1>3 DEF is_object
  <2>2. o.value = <<"prefix", masked(a, n), n>>
    BY <2>1 DEF addr_value
  <2>3. o.value[1] = "prefix"
    BY <2>2
  <2>4. \E b \in Addresses, m \in 0 .. AddressBits : o.value = <<"prefix", masked(b, m), m>>
    BY <2>2
  <2> QED BY <1>1, <1>3, <2>3, <2>4
<1>4. CASE o.type = "IP_RANGE"
  <2>1. o.value \in {"range"} \X Nat \X Nat
    BY <1>4 DEF is_object
  <2>2. PICK c \in Nat, d \in Nat : o.value = <<"range", c, d>>
    BY <2>1
  <2> QED BY <1>1, <1>4, <2>2
<1>5. CASE o.type = "FQDN"
  BY <1>1, <1>5 DEF is_object
<1>6. CASE o.type \notin {"HOST", "PREFIX", "NETWORK", "IP_RANGE", "FQDN"}
  <2>1. o.value[1] \notin {"host", "range", "fqdn", "prefix"}
    BY <1>6 DEF is_object
  <2> QED BY <1>1, <1>6, <2>1
<1> QED BY <1>2, <1>3, <1>4, <1>5, <1>6

\* A candidate for e means what e means.
Exact(e, o) == matches(e, o) <=> same_shape(e, o) /\ object_means(o) = entity_means(e)

\* What was left out by the import has no candidates.
LEMMA LeftOut ==
  ASSUME NEW e, is_entity(e), NEW o, o.side = e.side, e.kind \in ByMeaning, e.value = <<>>
  PROVE  Exact(e, o)
<1>1. ~same_shape(e, o)
  BY DEF same_shape
<1>2. e.side \in {"addr", "service"} /\ e.kind \notin {"ANY_ADDR", "ANY_SERVICE"}
  BY DEF is_entity, ByMeaning
<1>3. e.side = "addr" => addr_lookup(e) = Nothing
  BY DEF addr_lookup, host_value, subnet_value, ByMeaning, is_entity, Nothing
<1>4. e.side = "service" => service_lookup(e) = Nothing
  <2>1. icmp_codes(e) = {}
    BY DEF icmp_codes
  <2>2. e.side = "service" => e.kind \in {"TCP", "UDP", "ICMP"}
    BY DEF is_entity, ByMeaning
  <2> QED BY <2>1, <2>2 DEF service_lookup, l4_lookup, icmp_lookup
<1> QED BY <1>1, <1>2, <1>3, <1>4 DEF Exact, matches

\* An address is matched by its value.
LEMMA AddrMatches ==
  ASSUME NEW e, e.side = "addr", NEW o, o.side = e.side, e.kind # "ANY_ADDR", e.kind # "ANY_SERVICE"
  PROVE  matches(e, o) <=> addr_lookup(e) # Nothing /\ filed_value(o) = addr_lookup(e)
  BY DEF matches

\* A host is matched by the hosts of its address.
LEMMA HostExact ==
  ASSUME NEW e, is_entity(e), e.kind = "HOST", e.value # <<>>, NEW o, is_object(o), o.side = e.side
  PROVE  Exact(e, o)
<1>1. e.side = "addr"
  BY DEF is_entity
<1>2. PICK a \in Addresses, n \in 0 .. AddressBits : e.value = <<a, n>>
  <2>1. e.value \in Addresses \X (0 .. AddressBits)
    BY DEF is_entity
  <2> QED BY <2>1
<1>3. addr_lookup(e) = <<"host", a>> /\ addr_lookup(e) # Nothing /\ entity_means(e) = {a}
  BY <1>2 DEF addr_lookup, host_value, Nothing, entity_means
<1>4. matches(e, o) <=> filed_value(o) = <<"host", a>>
  BY <1>1, <1>3, AddrMatches
<1>5. same_shape(e, o) <=> o.type = "HOST"
  BY DEF same_shape
<1>6. CASE o.type = "HOST"
  <2>1. PICK b \in Addresses : o.value = <<"host", b>>
    BY <1>1, <1>6, AddrObjects
  <2>2. filed_value(o) = o.value
    BY <1>1, <1>6, AddrObjects
  <2>3. object_means(o) = {b}
    BY <2>1 DEF object_means
  <2> QED BY <1>3, <1>4, <1>5, <1>6, <2>1, <2>2, <2>3 DEF Exact
<1>7. CASE o.type # "HOST"
  <2>1. filed_value(o)[1] # "host"
    BY <1>1, <1>7, AddrObjects
  <2>2. <<"host", a>>[1] = "host"
    OBVIOUS
  <2> QED BY <1>4, <1>5, <1>7, <2>1, <2>2 DEF Exact
<1> QED BY <1>6, <1>7

\* A subnet is matched by the prefixes and networks of its addresses.
LEMMA SubnetExact ==
  ASSUME NEW e, is_entity(e), e.kind = "SUBNET", e.value # <<>>, NEW o, is_object(o), o.side = e.side
  PROVE  Exact(e, o)
<1>1. e.side = "addr"
  BY DEF is_entity
<1>2. PICK a \in Addresses, n \in 0 .. AddressBits : e.value = <<a, n>>
  <2>1. e.value \in Addresses \X (0 .. AddressBits)
    BY DEF is_entity
  <2> QED BY <2>1
<1>3. addr_lookup(e) = <<"prefix", masked(a, n), n>> /\ addr_lookup(e) # Nothing
      /\ entity_means(e) = network(a, n)
  BY <1>2 DEF addr_lookup, subnet_value, addr_value, Nothing, entity_means
<1>4. matches(e, o) <=> filed_value(o) = <<"prefix", masked(a, n), n>>
  BY <1>1, <1>3, AddrMatches
<1>5. same_shape(e, o) <=> o.type \in {"PREFIX", "NETWORK"}
  BY DEF same_shape
<1>6. CASE o.type \in {"PREFIX", "NETWORK"}
  <2>1. PICK b \in Addresses, m \in 0 .. AddressBits : o.value = <<"prefix", masked(b, m), m>>
    BY <1>1, <1>6, AddrObjects
  <2>2. filed_value(o) = o.value
    <3>1. o.type # "FQDN"
      BY <1>6
    <3> QED BY <1>1, <3>1, AddrObjects
  <2>3. object_means(o) = network(masked(b, m), m)
    BY <2>1 DEF object_means
  <2>4. masked(masked(b, m), m) = masked(b, m) /\ masked(b, m) \in Addresses
    BY MaskedAgain, Networks
  <2>5. object_means(o) = entity_means(e) <=> masked(b, m) = masked(a, n) /\ m = n
    BY <1>3, <2>3, <2>4, SameNetwork
  <2> QED BY <1>3, <1>4, <1>5, <1>6, <2>1, <2>2, <2>5 DEF Exact
<1>7. CASE o.type \notin {"PREFIX", "NETWORK"}
  <2>1. filed_value(o)[1] # "prefix"
    BY <1>1, <1>7, AddrObjects
  <2>2. <<"prefix", masked(a, n), n>>[1] = "prefix"
    OBVIOUS
  <2> QED BY <1>4, <1>5, <1>7, <2>1, <2>2 DEF Exact
<1> QED BY <1>6, <1>7

\* The key of a range of addresses.
LEMMA RangeKey ==
  ASSUME NEW a \in Nat, NEW b \in Nat
  PROVE  <<"range">> \o <<a, b>> = <<"range", a, b>>
<1> DEFINE S == {"range"} \cup Nat
           key == <<"range">> \o <<a, b>>
<1>1. <<"range">> \in Seq(S) /\ <<a, b>> \in Seq(S) /\ <<"range", a, b>> \in Seq(S)
  OBVIOUS
<1>2. key \in Seq(S) /\ Len(key) = 3 /\ key[1] = "range" /\ key[2] = a /\ key[3] = b
  BY <1>1
<1> HIDE DEF S, key
<1>3. \A n \in 1 .. 3 : key[n] = <<"range", a, b>>[n]
  BY <1>2
<1>4. /\ key = [n \in 1 .. 3 |-> key[n]]
      /\ <<"range", a, b>> = [n \in 1 .. 3 |-> <<"range", a, b>>[n]]
  BY <1>2
<1> QED BY <1>3, <1>4 DEF key

\* A range of addresses is matched by the ranges with its ends.
LEMMA RangeExact ==
  ASSUME NEW e, is_entity(e), e.kind = "RANGE", e.value # <<>>, NEW o, is_object(o), o.side = e.side
  PROVE  Exact(e, o)
<1>1. e.side = "addr"
  BY DEF is_entity
<1>2. PICK a \in Nat, b \in Nat : e.value = <<a, b>> /\ a <= b
  <2>1. e.value \in Nat \X Nat /\ e.value[1] <= e.value[2]
    BY DEF is_entity
  <2> QED BY <2>1
<1>3. addr_lookup(e) = <<"range", a, b>> /\ addr_lookup(e) # Nothing /\ entity_means(e) = a .. b
  <2>1. <<"range">> \o <<a, b>> = <<"range", a, b>>
    BY RangeKey
  <2> QED BY <1>2, <2>1 DEF addr_lookup, Nothing, entity_means
<1>4. matches(e, o) <=> filed_value(o) = <<"range", a, b>>
  BY <1>1, <1>3, AddrMatches
<1>5. same_shape(e, o) <=> o.type = "IP_RANGE"
  BY DEF same_shape
<1>6. CASE o.type = "IP_RANGE"
  <2>1. PICK c \in Nat, d \in Nat : o.value = <<"range", c, d>>
    BY <1>1, <1>6, AddrObjects
  <2>2. filed_value(o) = o.value
    BY <1>1, <1>6, AddrObjects
  <2>3. object_means(o) = c .. d
    BY <2>1 DEF object_means
  <2>4. object_means(o) = entity_means(e) <=> a = c /\ b = d
    BY <1>2, <1>3, <2>3, Intervals
  <2> QED BY <1>3, <1>4, <1>5, <1>6, <2>1, <2>2, <2>4 DEF Exact
<1>7. CASE o.type # "IP_RANGE"
  <2>1. filed_value(o)[1] # "range"
    BY <1>1, <1>7, AddrObjects
  <2>2. <<"range", a, b>>[1] = "range"
    OBVIOUS
  <2> QED BY <1>4, <1>5, <1>7, <2>1, <2>2 DEF Exact
<1> QED BY <1>6, <1>7

\* A name is matched by the names with the same normal form.
LEMMA FqdnExact ==
  ASSUME NEW e, is_entity(e), e.kind = "FQDN", e.value # <<>>, NEW o, is_object(o), o.side = e.side
  PROVE  Exact(e, o)
<1> DEFINE x == NormalName[e.value[1]]
<1>1. e.side = "addr"
  BY DEF is_entity
<1>2. addr_lookup(e) = <<"fqdn", x>> /\ addr_lookup(e) # Nothing /\ entity_means(e) = {x}
  BY DEF addr_lookup, Nothing, entity_means
<1> HIDE DEF x
<1>3. matches(e, o) <=> filed_value(o) = <<"fqdn", x>>
  BY <1>1, <1>2, AddrMatches
<1>4. same_shape(e, o) <=> o.type = "FQDN"
  BY DEF same_shape
<1>5. CASE o.type = "FQDN"
  <2>1. o.value[1] = "fqdn" /\ filed_value(o) = <<"fqdn", NormalName[o.value[2]]>>
    BY <1>1, <1>5, AddrObjects
  <2>2. object_means(o) = {NormalName[o.value[2]]}
    BY <2>1 DEF object_means
  <2> QED BY <1>2, <1>3, <1>4, <1>5, <2>1, <2>2 DEF Exact
<1>6. CASE o.type # "FQDN"
  <2>1. filed_value(o)[1] # "fqdn"
    BY <1>1, <1>6, AddrObjects
  <2>2. <<"fqdn", x>>[1] = "fqdn"
    OBVIOUS
  <2> QED BY <1>3, <1>4, <1>6, <2>1, <2>2 DEF Exact
<1> QED BY <1>5, <1>6

\* What a service holds.
LEMMA ServiceObjects ==
  ASSUME NEW o, is_object(o), o.side = "service"
  PROVE  /\ o.value = <<o.type, o.value[2], o.value[3]>>
         /\ o.value[2] \subseteq Nat \X Nat /\ IsFiniteSet(o.value[2])
         /\ o.type = "ICMP" <=> o.value[3] # {}
         /\ filed_value(o) = IF o.type = "ICMP" THEN <<"ICMP", {}, o.value[3]>> ELSE o.value
         /\ filed_value(o)[1] = o.type
<1>1. /\ o.value = <<o.type, o.value[2], o.value[3]>>
      /\ o.value[2] \subseteq Nat \X Nat /\ IsFiniteSet(o.value[2])
      /\ o.type = "ICMP" <=> o.value[3] # {}
  BY DEF is_object
<1>2. o.value[1] = o.type
  BY <1>1
<1>3. filed_value(o) = IF o.type = "ICMP" THEN <<"ICMP", {}, o.value[3]>> ELSE o.value
  BY <1>2 DEF filed_value
<1> QED BY <1>1, <1>2, <1>3

\* A service is matched by its value.
LEMMA ServiceMatches ==
  ASSUME NEW e, e.side = "service", NEW o, o.side = e.side, e.kind # "ANY_ADDR", e.kind # "ANY_SERVICE"
  PROVE  matches(e, o) <=> service_lookup(e) # Nothing /\ filed_value(o) = service_lookup(e)
  BY DEF matches

\* Ports are matched by the services of the protocol with exactly these ports.
LEMMA PortsExact ==
  ASSUME NEW e, is_entity(e), e.kind \in {"TCP", "UDP"}, e.value # <<>>, NEW o, is_object(o),
         o.side = e.side
  PROVE  Exact(e, o)
<1>1. e.side = "service"
  BY DEF is_entity
<1>2. PICK a \in Nat, b \in Nat : e.value = <<a, b>> /\ a <= b
  <2>1. e.value \in Nat \X Nat /\ e.value[1] <= e.value[2]
    BY DEF is_entity
  <2> QED BY <2>1
<1>3. service_lookup(e) = <<e.kind, {<<a, b>>}, {}>> /\ service_lookup(e) # Nothing
      /\ entity_means(e) = a .. b
  BY <1>2 DEF service_lookup, l4_lookup, Nothing, entity_means
<1>4. matches(e, o) <=> filed_value(o) = <<e.kind, {<<a, b>>}, {}>>
  BY <1>1, <1>3, ServiceMatches
<1>5. same_shape(e, o) <=> o.type = e.kind /\ Cardinality(o.value[2]) = 1
  BY DEF same_shape
<1>6. CASE o.type = e.kind
  <2> DEFINE R == o.value[2]
  <2>1. /\ o.value = <<e.kind, R, {}>> /\ R \subseteq Nat \X Nat /\ IsFiniteSet(R)
        /\ filed_value(o) = o.value
    BY <1>1, <1>6, ServiceObjects
  <2>2. object_means(o) = UNION {x[1] .. x[2] : x \in R}
    BY <2>1 DEF object_means
  <2> HIDE DEF R
  <2>3. matches(e, o) <=> R = {<<a, b>>}
    BY <1>4, <2>1
  <2>4. ASSUME R = {<<a, b>>} PROVE Cardinality(R) = 1 /\ object_means(o) = a .. b
    <3>1. Cardinality(R) = 1
      BY <2>4, FS_Singleton
    <3>2. {x[1] .. x[2] : x \in R} = {a .. b}
      BY <2>4
    <3> QED BY <2>2, <3>1, <3>2
  <2>5. ASSUME Cardinality(R) = 1, object_means(o) = a .. b PROVE R = {<<a, b>>}
    <3>1. PICK x : R = {x}
      BY <2>1, <2>5, FS_Singleton
    <3>2. PICK c \in Nat, d \in Nat : x = <<c, d>>
      BY <2>1, <3>1
    <3>3. object_means(o) = c .. d
      BY <2>2, <3>1, <3>2
    <3>4. a = c /\ b = d
      BY <1>2, <2>5, <3>3, Intervals
    <3> QED BY <3>1, <3>2, <3>4
  <2> QED BY <1>3, <1>5, <1>6, <2>3, <2>4, <2>5 DEF Exact, R
<1>7. CASE o.type # e.kind
  <2>1. filed_value(o)[1] # e.kind
    BY <1>1, <1>7, ServiceObjects
  <2>2. <<e.kind, {<<a, b>>}, {}>>[1] = e.kind
    OBVIOUS
  <2> QED BY <1>4, <1>5, <1>7, <2>1, <2>2 DEF Exact
<1> QED BY <1>6, <1>7

\* ICMP messages are matched by the services with exactly their codes.
LEMMA IcmpExact ==
  ASSUME NEW e, is_entity(e), e.kind = "ICMP", e.value # <<>>, NEW o, is_object(o), o.side = e.side
  PROVE  Exact(e, o)
<1> DEFINE M == {m \in IcmpMessages : m.type = e.value[1] /\ e.value[2] \in {ANY, m.code}}
           names == {m.name : m \in M}
           codes == o.value[3]
           known == {m.name : m \in IcmpMessages}
           odd == {unknown(n) : n \in codes \ known}
           K == {m \in IcmpMessages : m.name \in codes}
<1>1. e.side = "service"
  BY DEF is_entity
<1>2. entity_means(e) = M
  <2>1. entity_means(e) = {m \in IcmpMessages : m.type = e.value[1]
                                              /\ (e.value[2] # ANY => m.code = e.value[2])}
    BY DEF entity_means
  <2>2. \A m \in IcmpMessages :
          (e.value[2] # ANY => m.code = e.value[2]) <=> e.value[2] \in {ANY, m.code}
    OBVIOUS
  <2> QED BY <2>1, <2>2
<1>3. service_lookup(e) = IF names = {} THEN Nothing ELSE <<"ICMP", {}, names>>
  BY DEF service_lookup, icmp_lookup, icmp_codes
<1>4. same_shape(e, o) <=> o.type = "ICMP"
  BY DEF same_shape
<1>5. CASE o.type = "ICMP"
  <2>1. o.value[1] = "ICMP" /\ codes # {} /\ filed_value(o) = <<"ICMP", {}, codes>>
    BY <1>1, <1>5, ServiceObjects
  <2>2. object_means(o) = K \cup odd
    BY <2>1 DEF object_means
  <2> HIDE DEF M, codes
  <2>3. matches(e, o) <=> names # {} /\ codes = names
    <3>1. <<"ICMP", {}, names>> # Nothing
      BY DEF Nothing
    <3>2. <<"ICMP", {}, codes>> = <<"ICMP", {}, names>> <=> codes = names
      BY <3>1
    <3>3. matches(e, o) <=> service_lookup(e) # Nothing /\ filed_value(o) = service_lookup(e)
      BY <1>1, ServiceMatches
    <3> HIDE DEF names
    <3> QED BY <1>3, <2>1, <3>1, <3>2, <3>3
  <2>4. M \subseteq IcmpMessages
    BY DEF M
  <2>5. ASSUME codes = names PROVE K \cup odd = M
    <3>1. odd = {}
      BY <2>4, <2>5
    <3>2. K \subseteq M
      <4> SUFFICES ASSUME NEW m \in IcmpMessages, m.name \in names PROVE m \in M
        BY <2>5
      <4>1. PICK n \in M : n.name = m.name
        OBVIOUS
      <4> QED BY <2>4, <4>1, MatchingAssumption
    <3>3. M \subseteq K
      BY <2>4, <2>5
    <3> QED BY <3>1, <3>2, <3>3
  <2>6. ASSUME K \cup odd = M PROVE codes = names
    <3>1. odd = {}
      <4> SUFFICES ASSUME NEW n \in codes \ known PROVE FALSE
        OBVIOUS
      <4>1. unknown(n) \in IcmpMessages
        BY <2>4, <2>6
      <4>2. unknown(n).type = ANY
        BY DEF unknown
      <4> QED BY <4>1, <4>2, MatchingAssumption DEF ANY
    <3>2. codes \subseteq known /\ K = M
      BY <2>6, <3>1
    <3>3. codes \subseteq names
      BY <3>2
    <3>4. names \subseteq codes
      BY <3>2
    <3> QED BY <3>3, <3>4
  <2> QED BY <1>2, <1>4, <1>5, <2>1, <2>2, <2>3, <2>5, <2>6 DEF Exact
<1>6. CASE o.type # "ICMP"
  <2>1. filed_value(o)[1] # "ICMP"
    BY <1>1, <1>6, ServiceObjects
  <2>2. matches(e, o) => service_lookup(e) # Nothing /\ filed_value(o) = service_lookup(e)
    BY <1>1, ServiceMatches
  <2> HIDE DEF names
  <2>3. <<"ICMP", {}, names>>[1] = "ICMP"
    OBVIOUS
  <2> QED BY <1>3, <1>4, <1>6, <2>1, <2>2, <2>3 DEF Exact
<1> QED BY <1>5, <1>6

\* The lookup of an entity and the index of the catalog agree on what both mean.
LEMMA MatchesExact ==
  ASSUME NEW e, is_entity(e), e.kind \in ByMeaning, NEW o, is_object(o), o.side = e.side
  PROVE  Exact(e, o)
  BY LeftOut, HostExact, SubnetExact, RangeExact, FqdnExact, PortsExact, IcmpExact DEF ByMeaning

----------------------------------------------------------------------------
(***************************************************************************)
(* Results and what they were matched to                                   *)
(***************************************************************************)

\* There is an entity for the result.
has_entity(r) == \E e \in snapshot.zones \cup snapshot.objects : e.id = r

\* A result holds the candidates of the catalog it was made on, and is unresolved only without
\* any; one without an entity is never unresolved.
ResultMatches(r, x) ==
  IF is_manual(r) THEN x.status = "MATCHED"
  ELSE /\ has_entity(r)
       /\ x.candidates = candidates(entity(r), shelf.catalog)
       /\ x.status = "UNRESOLVED" => x.candidates = {}

CandidatesInv ==
  IF scope = NoScope THEN catalog = shelf.catalog
  ELSE /\ scope.catalog = shelf.catalog
       /\ \A r \in DOMAIN scope.results : ResultMatches(r, scope.results[r])

\* The objects with ids from shelf.next on are those created for entities, each with its own.
MadeInv ==
  /\ \A x \in catalog : x.id >= shelf.next =>
       x = created_object(entity(x.id - shelf.next), x.id)
  /\ \A r \in DOMAIN made : r \in Nat /\ has_entity(r) /\ creatable(entity(r)) /\ made[r] = shelf.next + r

MatchInv == CandidatesInv /\ MadeInv /\ (scope = NoScope => made = <<>>)

\* What the worlds promise of entities and of the catalog.
LEMMA Promised ==
  ASSUME Placed
  PROVE  /\ well_formed(snapshot)
         /\ \A e \in snapshot.zones \cup snapshot.objects : is_entity(e) /\ e.id \in Nat /\ ~is_manual(e.id)
         /\ \A x \in shelf.catalog \cup shelf.incoming : x.id \in Nat /\ x.id < shelf.next
         /\ \A x \in shelf.catalog : is_object(x)
         /\ \A x, y \in shelf.catalog : x.side = y.side /\ x.id = y.id => x = y
         /\ shelf.next \in Nat
<1>1. /\ well_formed(snapshot) /\ ManualBase \in Nat
      /\ \A e \in snapshot.zones \cup snapshot.objects : e.id < ManualBase /\ is_entity(e)
      /\ \A x \in shelf.catalog \cup shelf.incoming : x.id \in Nat \ {NoObject} /\ x.id < shelf.next
      /\ \A x \in shelf.catalog : is_object(x)
      /\ \A x, y \in shelf.catalog : x.side = y.side /\ x.id = y.id => x = y
      /\ shelf.next \in Nat \ {NoObject}
  BY WorldsAssumption DEF Placed
<1>2. \A e \in snapshot.zones \cup snapshot.objects : e.id \in Nat
  BY <1>1 DEF well_formed
<1> QED BY <1>1, <1>2 DEF is_manual

\* Entities are found by their ids.
LEMMA EntityOf ==
  ASSUME well_formed(snapshot), NEW e \in snapshot.zones \cup snapshot.objects
  PROVE  entity(e.id) = e
  BY DEF well_formed, entity

\* Who changes neither the snapshot nor the world leaves entities as they are.
LEMMA SameEntities ==
  ASSUME snapshot' = snapshot, shelf' = shelf
  PROVE  /\ \A r : entity(r)' = entity(r) /\ (has_entity(r)' <=> has_entity(r))
         /\ \A r, x : ResultMatches(r, x)' <=> ResultMatches(r, x)
<1>1. \A r : entity(r)' = entity(r) /\ (has_entity(r)' <=> has_entity(r))
  BY DEF entity, has_entity
<1> QED BY <1>1 DEF ResultMatches

\* Other results for the same entities.
LEMMA CandidatesBecome ==
  ASSUME snapshot' = snapshot, shelf' = shelf, NEW v, scope' = v, IsScope(v),
         v.catalog = shelf.catalog, \A r \in DOMAIN v.results : ResultMatches(r, v.results[r])
  PROVE  CandidatesInv'
<1>1. scope' # NoScope
  BY ScopeIsThere
<1>2. \A r \in DOMAIN v.results : ResultMatches(r, v.results[r])'
  BY SameEntities
<1> QED BY <1>1, <1>2 DEF CandidatesInv

\* A step that creates nothing.
LEMMA MadeSame ==
  ASSUME MadeInv, snapshot' = snapshot, shelf' = shelf, made' = made,
         \A x \in catalog' : x \in catalog \/ (x.id \in Nat /\ shelf.next \in Nat /\ x.id < shelf.next)
  PROVE  MadeInv'
<1>1. \A x \in catalog' : x.id >= shelf.next => x = created_object(entity(x.id - shelf.next)', x.id)
  BY SameEntities DEF MadeInv
<1>2. \A r \in DOMAIN made :
        r \in Nat /\ has_entity(r)' /\ creatable(entity(r)') /\ made[r] = shelf.next + r
  BY SameEntities DEF MadeInv
<1> QED BY <1>1, <1>2 DEF MadeInv, created_object, created_type, created_value, creatable

\* A choice for one result.
LEMMA ChosenMatch ==
  ASSUME MatchInv, scope # NoScope, IsScope(scope), snapshot' = snapshot, shelf' = shelf, catalog' = catalog,
         made' = made, NEW r \in Results, NEW o, NEW how,
         scope' = [scope EXCEPT !.results[r] = [scope.results[r] EXCEPT !.status = "MATCHED", !.selected = o,
                                                                        !.how = how]],
         ResultOK(scope.results[r])
  PROVE  MatchInv'
<1> DEFINE x == scope.results[r]
           a == [x EXCEPT !.status = "MATCHED"]
           b == [a EXCEPT !.selected = o]
           y == [b EXCEPT !.how = how]
           v == [scope EXCEPT !.results[r] = y]
<1>1. r \in DOMAIN scope.results /\ x \in Result
  BY DEF Results, ResultOK
<1>2. a.status = "MATCHED" /\ a.candidates = x.candidates
      /\ a = [how |-> x.how, status |-> "MATCHED", selected |-> x.selected, candidates |-> x.candidates]
  BY <1>1 DEF Result
<1> HIDE DEF a
<1>3. b = [how |-> x.how, status |-> "MATCHED", selected |-> o, candidates |-> x.candidates]
  BY <1>2
<1> HIDE DEF b
<1>4. y.status = "MATCHED" /\ y.candidates = x.candidates
  BY <1>3
<1> HIDE DEF y
<1>5. /\ v.catalog = scope.catalog /\ IsScope(v)
      /\ DOMAIN v.results = DOMAIN scope.results
      /\ \A q \in DOMAIN scope.results : v.results[q] = IF q = r THEN y ELSE scope.results[q]
  BY <1>1 DEF IsScope
<1>6. scope' = v
  BY DEF y, b, a
<1> HIDE DEF v
<1>7. \A q \in DOMAIN v.results : ResultMatches(q, v.results[q])
  <2>1. \A q \in DOMAIN scope.results : ResultMatches(q, scope.results[q])
    BY DEF MatchInv, CandidatesInv
  <2>2. ResultMatches(r, y)
    BY <1>1, <1>4, <2>1 DEF ResultMatches
  <2> QED BY <1>5, <2>1, <2>2
<1>8. CandidatesInv'
  BY <1>5, <1>6, <1>7, CandidatesBecome DEF MatchInv, CandidatesInv
<1>9. MadeInv'
  BY MadeSame DEF MatchInv
<1>10. scope' # NoScope
  BY <1>5, <1>6, ScopeIsThere
<1> QED BY <1>8, <1>9, <1>10 DEF MatchInv

\* A zone for rules that had none.
LEMMA AssignZoneMatch ==
  ASSUME Placed, MatchInv, ScopeInv, scope # NoScope, IsScope(scope), snapshot' = snapshot,
         shelf' = shelf, NEW s, NEW role \in {"SRC_ZONE", "DST_ZONE"}, AssignZone(s, role)
  PROVE  MatchInv'
<1> DEFINE new(z) == [how |-> "direct", status |-> "MATCHED", selected |-> z, candidates |-> {}]
           ops(z) == [rule: rules_without_zone(z, role), role: {role}, result: {manual_result(z)}]
           res(z) == over(entry(manual_result(z), new(z)), scope.results)
           v(z) == [scope EXCEPT !.operands = scope.operands \cup ops(z), !.results = res(z)]
<1>1. PICK z : scope' = IF rules_without_zone(z, role) = {} THEN scope ELSE v(z)
  BY DEF AssignZone
<1>2. catalog' = catalog /\ made' = made
  BY DEF AssignZone
<1>3. MadeInv'
  BY <1>2, MadeSame DEF MatchInv
<1>4. CASE rules_without_zone(z, role) = {}
  <2>1. scope' = scope
    BY <1>1, <1>4
  <2>2. CandidatesInv'
    BY <2>1, CandidatesBecome DEF MatchInv, CandidatesInv
  <2> QED BY <1>3, <2>1, <2>2 DEF MatchInv
<1>5. CASE rules_without_zone(z, role) # {}
  <2> DEFINE m == manual_result(z)
             w == v(z)
  <2>1. is_manual(m)
    BY ManualResult
  <2>2. /\ w.results = res(z) /\ w.catalog = scope.catalog /\ IsScope(w)
    <3>1. res(z) = [i \in DOMAIN res(z) |-> res(z)[i]]
      BY DEF over
    <3> HIDE DEF res, ops
    <3>2. IsScope(w)
      BY <3>1, Rewritten
    <3> QED BY <3>2 DEF IsScope
  <2>3. /\ DOMAIN res(z) = DOMAIN scope.results \cup {m}
        /\ \A q \in DOMAIN scope.results : res(z)[q] = scope.results[q]
        /\ m \notin DOMAIN scope.results => res(z)[m] = new(z)
    BY DEF over, entry
  <2>4. new(z).status = "MATCHED"
    OBVIOUS
  <2>5. scope' = w
    BY <1>1, <1>5
  <2> HIDE DEF w, m, res, new
  <2>6. \A q \in DOMAIN scope.results : ResultMatches(q, scope.results[q])
    BY DEF MatchInv, CandidatesInv
  <2>7. m \notin DOMAIN scope.results => ResultMatches(m, res(z)[m])
    BY <2>1, <2>3, <2>4 DEF ResultMatches
  <2>8. \A q \in DOMAIN w.results : ResultMatches(q, w.results[q])
    BY <2>2, <2>3, <2>6, <2>7
  <2>9. CandidatesInv'
    BY <2>2, <2>5, <2>8, CandidatesBecome DEF MatchInv, CandidatesInv
  <2>10. scope' # NoScope
    BY <2>2, <2>5, ScopeIsThere
  <2> QED BY <1>3, <2>9, <2>10 DEF MatchInv
<1> QED BY <1>4, <1>5

\* Objects made for results that had none.
LEMMA AutoCreateMatch ==
  ASSUME Placed, MatchInv, scope # NoScope, IsScope(scope), snapshot' = snapshot, shelf' = shelf,
         NEW s, AutoCreate(s)
  PROVE  MatchInv'
<1> DEFINE id(r) == shelf.next + r
           new(ok) == [r \in ok |-> [how |-> "created", status |-> "MATCHED", selected |-> id(r),
                                     candidates |-> {}]]
           res(ok) == over(scope.results, new(ok))
           ids(ok) == [r \in ok |-> id(r)]
           v(ok) == [scope EXCEPT !.results = res(ok)]
           old == scope.results
<1>1. PICK ok \in SUBSET {r \in unresolved : creatable(entity(r))} :
        /\ scope' = v(ok)
        /\ catalog' = catalog \cup {created_object(entity(r), id(r)) : r \in ok}
        /\ made' = over(made, ids(ok))
  BY DEF AutoCreate
<1> DEFINE w == v(ok)
<1>2. \A q \in DOMAIN old : ResultMatches(q, old[q])
  BY DEF MatchInv, CandidatesInv
<1>3. \A r \in ok : r \in DOMAIN old /\ old[r].status = "UNRESOLVED" /\ creatable(entity(r))
  BY <1>1 DEF unresolved, Results
<1>4. \A r \in ok : /\ ~is_manual(r) /\ has_entity(r) /\ r \in Nat
                    /\ candidates(entity(r), shelf.catalog) = {}
  <2>1. \A r \in ok : /\ ~is_manual(r) /\ has_entity(r) /\ candidates(entity(r), shelf.catalog) = {}
    BY <1>2, <1>3 DEF ResultMatches
  <2> QED BY <2>1, Promised DEF has_entity
<1>5. /\ DOMAIN res(ok) = DOMAIN old
      /\ \A q \in DOMAIN old : res(ok)[q] = IF q \in ok THEN new(ok)[q] ELSE old[q]
      /\ res(ok) = [q \in DOMAIN res(ok) |-> res(ok)[q]]
  <2>1. DOMAIN new(ok) = ok
    OBVIOUS
  <2> HIDE DEF new
  <2> QED BY <1>3, <2>1 DEF over
<1>6. \A r \in ok : new(ok)[r].status = "MATCHED" /\ new(ok)[r].candidates = {}
  OBVIOUS
<1>7. w.results = res(ok) /\ w.catalog = scope.catalog /\ IsScope(w)
  <2> HIDE DEF res
  <2>1. w = [rules |-> scope.rules, operands |-> scope.operands, results |-> res(ok), catalog |-> scope.catalog]
    BY DEF IsScope
  <2> QED BY <1>5, <2>1 DEF IsScope
<1> HIDE DEF new, res
<1>8. scope' = w
  BY <1>1
<1> HIDE DEF w
<1>9. \A r \in ok : ResultMatches(r, new(ok)[r])
  BY <1>4, <1>6 DEF ResultMatches
<1>10. \A q \in DOMAIN w.results : ResultMatches(q, w.results[q])
  BY <1>2, <1>5, <1>7, <1>9
<1>11. CandidatesInv'
  BY <1>7, <1>8, <1>10, CandidatesBecome DEF MatchInv, CandidatesInv
<1>12. shelf.next \in Nat
  BY Promised
<1>13. \A x \in catalog' : x.id >= shelf.next => x = created_object(entity(x.id - shelf.next), x.id)
  <2> SUFFICES ASSUME NEW x \in catalog', x.id >= shelf.next
               PROVE  x = created_object(entity(x.id - shelf.next), x.id)
    OBVIOUS
  <2>1. CASE x \in catalog
    BY <2>1 DEF MatchInv, MadeInv
  <2>2. ASSUME NEW r \in ok, x = created_object(entity(r), id(r))
        PROVE  x = created_object(entity(x.id - shelf.next), x.id)
    <3>1. x.id = shelf.next + r
      BY <2>2 DEF created_object
    <3>2. x.id - shelf.next = r
      BY <1>4, <1>12, <3>1
    <3> QED BY <2>2, <3>1, <3>2
  <2> QED BY <1>1, <2>1, <2>2
<1>14. \A r \in DOMAIN made' :
         r \in Nat /\ has_entity(r) /\ creatable(entity(r)) /\ made'[r] = shelf.next + r
  <2>1. /\ DOMAIN made' = DOMAIN made \cup ok
        /\ \A r \in DOMAIN made' : made'[r] = IF r \in ok THEN shelf.next + r ELSE made[r]
    BY <1>1 DEF over
  <2> QED BY <1>3, <1>4, <2>1 DEF MatchInv, MadeInv
<1>15. MadeInv'
  <2>1. \A x \in catalog' : x.id >= shelf.next => x = created_object(entity(x.id - shelf.next)', x.id)
    BY <1>13, SameEntities
  <2>2. \A r \in DOMAIN made' :
          r \in Nat /\ has_entity(r)' /\ creatable(entity(r)') /\ made'[r] = shelf.next + r
    BY <1>14, SameEntities
  <2> QED BY <2>1, <2>2 DEF MadeInv, created_object, created_type, created_value, creatable
<1>16. scope' # NoScope
  BY <1>7, <1>8, ScopeIsThere
<1> QED BY <1>11, <1>15, <1>16 DEF MatchInv

\* A change of the catalog by somebody else is of objects that were not created here.
LEMMA EditCatalogMatch ==
  ASSUME Placed, MatchInv, scope # NoScope, IsScope(scope), snapshot' = snapshot, shelf' = shelf,
         EditCatalog
  PROVE  MatchInv'
<1>1. scope' = scope /\ made' = made
  BY DEF EditCatalog
<1>2. \A x \in catalog' : x \in catalog \/ x \in shelf.incoming
  BY DEF EditCatalog
<1>3. \A x \in catalog' : x \in catalog \/ (x.id \in Nat /\ shelf.next \in Nat /\ x.id < shelf.next)
  BY <1>2, Promised
<1>4. MadeInv'
  BY <1>1, <1>3, MadeSame DEF MatchInv
<1>5. CandidatesInv'
  BY <1>1, CandidatesBecome DEF MatchInv, CandidatesInv
<1> QED BY <1>1, <1>4, <1>5 DEF MatchInv

\* The results of a mapping hold what matches.
LEMMA FoundMatch ==
  ASSUME Placed, NEW entities, entities \subseteq snapshot.zones \cup snapshot.objects,
         catalog = shelf.catalog, NEW i \in DOMAIN entity_results(entities)
  PROVE  ResultMatches(i, entity_results(entities)[i])
<1> DEFINE found == build_results(entities, catalog)
           D == {e.id : e \in {x \in entities : ~IsGroup(x)}}
<1>1. /\ DOMAIN found = D
      /\ \A n \in D : found[n] = resolution(candidates(CHOOSE e \in entities : e.id = n, catalog))
  BY DEF build_results
<1>2. /\ DOMAIN entity_results(entities) = D
      /\ \A n \in D : entity_results(entities)[n] =
           [how |-> IF found[n].status = "MATCHED" THEN "auto" ELSE NONE, status |-> found[n].status,
            selected |-> found[n].selected, candidates |-> found[n].candidates]
  BY <1>1 DEF entity_results
<1> HIDE DEF found
<1>3. PICK e \in entities : e.id = i
  BY <1>2
<1> HIDE DEF D
<1>4. (CHOOSE x \in entities : x.id = i) = entity(i) /\ has_entity(i) /\ ~is_manual(i)
  <2>1. \A x \in entities : x.id = i => x = e
    BY <1>3, Promised DEF well_formed
  <2>2. (CHOOSE x \in entities : x.id = i) = e
    BY <1>3, <2>1
  <2>3. entity(i) = e
    BY <1>3, Promised, EntityOf
  <2> QED BY <1>3, <2>2, <2>3, Promised DEF has_entity
<1>5. found[i] = resolution(candidates(entity(i), shelf.catalog))
  BY <1>1, <1>2, <1>4
<1> DEFINE c == candidates(entity(i), shelf.catalog)
<1> HIDE DEF c
<1>6. found[i].candidates = c /\ (found[i].status = "UNRESOLVED" => c = {})
  BY <1>5 DEF resolution, c
<1>7. /\ entity_results(entities)[i].status = found[i].status
      /\ entity_results(entities)[i].candidates = found[i].candidates
  BY <1>2
<1> QED BY <1>4, <1>6, <1>7 DEF ResultMatches, c

\* A mapping is made on the catalog as it is.
LEMMA MapRulesMatch ==
  ASSUME Placed, MatchInv, scope = NoScope, NEW ids, MapRules(ids)
  PROVE  MatchInv'
<1> DEFINE read == scope_entities(ids)
           results == entity_results(read.entities)
           v == new_scope(read.rules, results)
           fails == read.fails \/ build_fails(read.rules)
<1>1. /\ scope' = (IF fails THEN NoScope ELSE v)
      /\ UNCHANGED <<snapshot, shelf, catalog, made>>
  BY DEF MapRules
<1>2. catalog = shelf.catalog /\ made = <<>>
  BY DEF MatchInv, CandidatesInv
<1>3. MadeInv'
  BY <1>1, MadeSame DEF MatchInv
<1>4. CASE fails
  BY <1>1, <1>2, <1>3, <1>4 DEF MatchInv, CandidatesInv
<1>5. CASE ~fails
  <2>1. read.entities \subseteq snapshot.zones \cup snapshot.objects
    BY DEF scope_entities, collect_zones, collect_objects
  <2> HIDE DEF read
  <2>2. /\ v.catalog = catalog /\ v.results = results
        /\ IsScope(v)
    <3>1. results = [i \in DOMAIN results |-> results[i]]
      BY DEF entity_results
    <3> HIDE DEF results
    <3> QED BY <3>1 DEF new_scope, IsScope
  <2>3. \A i \in DOMAIN results : ResultMatches(i, results[i])
    BY <1>2, <2>1, FoundMatch
  <2> HIDE DEF v, results, fails
  <2>4. scope' = v
    BY <1>1, <1>5
  <2>5. v # NoScope
    BY <2>2, ScopeIsThere
  <2>6. CandidatesInv'
    BY <1>1, <1>2, <2>2, <2>3, <2>4, CandidatesBecome
  <2> QED BY <1>3, <2>4, <2>5, <2>6 DEF MatchInv
<1> QED BY <1>4, <1>5

\* Picking rules maps nothing.
LEMMA PickingMatch ==
  ASSUME Placed, MatchInv, Picking
  PROVE  MatchInv'
<1>1. shelf' = shelf /\ scope = NoScope /\ scope' = NoScope /\ catalog' = catalog /\ made' = made
  BY DEF Picking, mapVars, PageNext, OpenPage, Tick, SetFilter, SetSort, Reset, TurnPage, LeaveAndReturn,
     NewSnapshot, Rerun
<1>2. catalog = shelf.catalog /\ made = <<>>
  BY <1>1 DEF MatchInv, CandidatesInv
<1>3. \A x \in catalog : ~(x.id >= shelf.next)
  BY <1>2, Promised
<1>4. MadeInv'
  BY <1>1, <1>2, <1>3 DEF MadeInv
<1> QED BY <1>1, <1>2, <1>4 DEF MatchInv, CandidatesInv

\* A step on the scope keeps what its results were matched to.
LEMMA WorkingMatch ==
  ASSUME Placed, ShownInv, ScopeInv, MatchInv, Working
  PROVE  MatchInv'
<1>1. /\ scope # NoScope /\ shelf' = shelf /\ snapshot' = snapshot /\ IsScope(scope)
      /\ \A r \in Results : ResultOK(scope.results[r])
  BY DEF Working, pageVars, ShownInv, ScopeInv, ScopeOK, Results
<1>2. CASE EditCatalog
  BY <1>1, <1>2, EditCatalogMatch
<1>3. ASSUME NEW s, LoadProjection(s) \/ (\E r : LoadDetails(s, r)) \/ (\E side : LoadRows(s, side))
      PROVE  MatchInv'
  <2>1. scope' = scope /\ catalog' = catalog /\ made' = made
    BY <1>3 DEF LoadProjection, LoadDetails, LoadRows
  <2>2. MadeInv'
    BY <1>1, <2>1, MadeSame DEF MatchInv
  <2>3. CandidatesInv'
    BY <1>1, <2>1, CandidatesBecome DEF MatchInv, CandidatesInv
  <2> QED BY <1>1, <2>1, <2>2, <2>3 DEF MatchInv
<1>4. ASSUME NEW s, NEW r \in Results, SelectCandidate(s, r) \/ SelectDirectly(s, r)
      PROVE  MatchInv'
  <2>1. PICK o, how :
          scope' = [scope EXCEPT !.results[r] =
                      [scope.results[r] EXCEPT !.status = "MATCHED", !.selected = o, !.how = how]]
    BY <1>4 DEF SelectCandidate, SelectDirectly
  <2>2. catalog' = catalog /\ made' = made
    BY <1>4 DEF SelectCandidate, SelectDirectly
  <2> QED BY <1>1, <2>1, <2>2, ChosenMatch
<1> QED BY <1>1, <1>2, <1>3, <1>4, AssignZoneMatch, AutoCreateMatch DEF Working

\* And so does every step.
LEMMA NextMatch == Placed /\ ShownInv /\ ScopeInv /\ MatchInv /\ [Next]_vars => MatchInv'
<1> SUFFICES ASSUME Placed, ShownInv, ScopeInv, MatchInv, [Next]_vars PROVE MatchInv'
  OBVIOUS
<1>1. CASE UNCHANGED vars
  <2>1. UNCHANGED <<snapshot, shelf, scope, catalog, made>>
    BY <1>1 DEF vars, pageVars, mapVars
  <2>2. MadeInv'
    BY <2>1, MadeSame DEF MatchInv
  <2>3. CandidatesInv'
    BY <2>1, SameEntities DEF MatchInv, CandidatesInv
  <2> QED BY <2>1, <2>2, <2>3 DEF MatchInv
<1>2. CASE Generate \/ MapByApi
  BY <1>2, MapRulesMatch DEF Generate, MapByApi
<1>3. CASE Picking
  BY <1>3, PickingMatch
<1> QED BY <1>1, <1>2, <1>3, WorkingMatch DEF Next

\* At the start nothing was created.
LEMMA InitMatch == Init => MatchInv
<1> SUFFICES ASSUME Init PROVE MatchInv
  OBVIOUS
<1>1. Placed
  BY InitKeeps DEF PageInv
<1>2. scope = NoScope /\ catalog = shelf.catalog /\ made = <<>>
  BY DEF Init, InitIn
<1>3. \A x \in catalog : ~(x.id >= shelf.next)
  BY <1>1, <1>2, Promised
<1> QED BY <1>2, <1>3 DEF MatchInv, CandidatesInv, MadeInv

\* What is created for an entity is filed under what the entity is looked up by.
LEMMA CreatedMatches ==
  ASSUME NEW e, is_entity(e), creatable(e), NEW id
  PROVE  matches(e, created_object(e, id))
<1> DEFINE o == created_object(e, id)
<1>1. /\ o.side = e.side /\ o.type = created_type(e) /\ o.value = created_value(e)
      /\ e.value # <<>> /\ e.kind \in {"HOST", "SUBNET", "FQDN", "RANGE", "TCP", "UDP"}
  BY DEF created_object, creatable
<1> HIDE DEF o
<1>2. CASE e.kind = "HOST"
  <2>1. e.side = "addr" /\ o.type = "HOST" /\ o.value = <<"host", e.value[1]>>
    BY <1>1, <1>2 DEF is_entity, created_type, created_value
  <2>2. filed_value(o) = o.value /\ addr_lookup(e) = <<"host", e.value[1]>> /\ addr_lookup(e) # Nothing
    BY <1>1, <1>2, <2>1 DEF filed_value, addr_lookup, host_value, Nothing
  <2> QED BY <1>1, <1>2, <2>1, <2>2, AddrMatches DEF o
<1>3. CASE e.kind = "SUBNET"
  <2>1. e.side = "addr" /\ o.type = "PREFIX" /\ o.value = addr_value(e.value[1], e.value[2])
    BY <1>1, <1>3 DEF is_entity, created_type, created_value
  <2>2. /\ filed_value(o) = o.value /\ addr_lookup(e) = addr_value(e.value[1], e.value[2])
        /\ addr_lookup(e) # Nothing
    BY <1>1, <1>3, <2>1 DEF filed_value, addr_lookup, subnet_value, addr_value, Nothing
  <2> QED BY <1>1, <1>3, <2>1, <2>2, AddrMatches DEF o
<1>4. CASE e.kind = "FQDN"
  <2>1. e.side = "addr" /\ o.type = "FQDN" /\ o.value = <<"fqdn", e.value[1]>>
    BY <1>1, <1>4 DEF is_entity, created_type, created_value
  <2>2. /\ filed_value(o) = <<"fqdn", NormalName[e.value[1]]>>
        /\ addr_lookup(e) = <<"fqdn", NormalName[e.value[1]]>> /\ addr_lookup(e) # Nothing
    BY <1>1, <1>4, <2>1 DEF filed_value, addr_lookup, Nothing
  <2> QED BY <1>1, <1>4, <2>1, <2>2, AddrMatches DEF o
<1>5. CASE e.kind = "RANGE"
  <2>1. e.side = "addr" /\ o.type = "IP_RANGE" /\ o.value = <<"range", e.value[1], e.value[2]>>
    BY <1>1, <1>5 DEF is_entity, created_type, created_value
  <2>2. PICK a \in Nat, b \in Nat : e.value = <<a, b>>
    <3>1. e.value \in Nat \X Nat
      BY <1>1, <1>5 DEF is_entity
    <3> QED BY <3>1
  <2>3. addr_lookup(e) = <<"range", a, b>> /\ addr_lookup(e) # Nothing
    BY <1>1, <1>5, <2>2, RangeKey DEF addr_lookup, Nothing
  <2>4. filed_value(o) = <<"range", a, b>>
    BY <2>1, <2>2 DEF filed_value
  <2> QED BY <1>1, <1>5, <2>1, <2>3, <2>4, AddrMatches DEF o
<1>6. CASE e.kind \in {"TCP", "UDP"}
  <2>1. e.side = "service" /\ o.value = <<e.kind, {<<e.value[1], e.value[2]>>}, {}>>
    BY <1>1, <1>6 DEF is_entity, created_value
  <2>2. PICK a \in Nat, b \in Nat : e.value = <<a, b>>
    <3>1. e.value \in Nat \X Nat
      BY <1>1, <1>6 DEF is_entity
    <3> QED BY <3>1
  <2>3. service_lookup(e) = <<e.kind, {<<a, b>>}, {}>> /\ service_lookup(e) # Nothing
    BY <1>1, <1>6, <2>2 DEF service_lookup, l4_lookup, Nothing
  <2>4. o.value = <<e.kind, {<<a, b>>}, {}>> /\ o.value[1] # "ICMP"
    BY <1>6, <2>1, <2>2
  <2>5. filed_value(o) = o.value
    BY <1>1, <2>1, <2>4 DEF filed_value
  <2> QED BY <1>1, <1>6, <2>1, <2>3, <2>4, <2>5, ServiceMatches DEF o
<1> QED BY <1>1, <1>2, <1>3, <1>4, <1>5, <1>6

\* From the invariant to what the results and the created objects mean.
LEMMA MatchInvExact == Placed /\ MatchInv => MatchExact
<1> SUFFICES ASSUME Placed, MatchInv PROVE MatchExact
  OBVIOUS
<1>1. \A r : has_entity(r) => is_entity(entity(r))
  BY Promised, EntityOf DEF has_entity
<1>2. ASSUME scope # NoScope, NEW r \in Results, ~is_manual(r), entity(r).kind \in ByMeaning,
             NEW o \in scope.catalog, o.side = entity(r).side
      PROVE  o.id \in scope.results[r].candidates
               <=> same_shape(entity(r), o) /\ object_means(o) = entity_means(entity(r))
  <2> DEFINE e == entity(r)
  <2>1. /\ has_entity(r) /\ scope.results[r].candidates = candidates(e, shelf.catalog)
        /\ scope.catalog = shelf.catalog
    BY <1>2 DEF MatchInv, CandidatesInv, ResultMatches, Results
  <2>2. is_entity(e) /\ is_object(o) /\ o \in shelf.catalog
    BY <1>1, <2>1, Promised
  <2>3. \A c : matches(e, c) => c.side = e.side
    BY DEF matches
  <2> HIDE DEF e
  <2>4. o.id \in candidates(e, shelf.catalog) <=> matches(e, o)
    <3>1. ASSUME NEW c \in shelf.catalog, matches(e, c), c.id = o.id PROVE c = o
      BY <1>2, <2>2, <2>3, <3>1, Promised DEF e
    <3> QED BY <2>2, <3>1 DEF candidates
  <2>5. Exact(e, o)
    BY <1>2, <2>2, MatchesExact DEF e
  <2> QED BY <2>1, <2>4, <2>5 DEF Exact, e
<1>3. candidates_mean_the_same
  BY <1>2 DEF candidates_mean_the_same
<1>4. ASSUME NEW r \in DOMAIN made, \E o \in catalog : o.id = made[r]
      PROVE  matches(entity(r), catalog_object(made[r]))
  <2>1. /\ r \in Nat /\ has_entity(r) /\ creatable(entity(r)) /\ made[r] = shelf.next + r
        /\ shelf.next \in Nat
    BY Promised DEF MatchInv, MadeInv
  <2> DEFINE x == catalog_object(made[r])
  <2>2. x \in catalog /\ x.id = made[r]
    BY <1>4 DEF catalog_object
  <2> HIDE DEF x
  <2>3. x = created_object(entity(x.id - shelf.next), x.id)
    BY <2>1, <2>2 DEF MatchInv, MadeInv
  <2>4. x.id - shelf.next = r
    BY <2>1, <2>2
  <2> QED BY <1>1, <2>1, <2>3, <2>4, CreatedMatches DEF x
<1> QED BY <1>3, <1>4 DEF MatchExact, created_would_match

\* The candidates of every entity are exactly the objects of its shape that mean the same, on
\* any catalog and for any number of address bits, and what was created would have matched.
THEOREM MatchExactHolds == Spec => []MatchExact
<1>1. PageInv => Placed
  BY DEF PageInv
<1>2. PageInv /\ MatchInv => MatchExact
  BY <1>1, MatchInvExact
<1>3. Init => PageInv /\ ShownInv /\ ScopeInv /\ MatchInv
  BY InitKeeps, InitShown, InitScope, InitMatch
<1>4. (PageInv /\ ShownInv /\ ScopeInv /\ MatchInv) /\ [Next]_vars
        => (PageInv /\ ShownInv /\ ScopeInv /\ MatchInv)'
  BY <1>1, NextKeeps, NextShown, NextScope, NextMatch
<1> QED BY <1>2, <1>3, <1>4, PTL DEF Spec
============================================================================
