-------------------------- MODULE SdwanClientProofs --------------------------
(***************************************************************************)
(* Proofs about SDWANCspHttpClient: what Pagination reads, for any         *)
(* collection, filter, page and chunk size and number of changes, and what *)
(* SdwanAuth keeps for any number of tasks and requests.                   *)
(***************************************************************************)
EXTENDS Pagination, SdwanAuth, FiniteSetTheorems, TLAPS

----------------------------------------------------------------------------
(***************************************************************************)
(* Finite sets of numbers                                                  *)
(***************************************************************************)

under(S, u) == {v \in S : v < u}

\* Of two members, different numbers of members come before.
LEMMA UnderGrows ==
  ASSUME NEW S \in SUBSET Int, IsFiniteSet(S), NEW u \in S, NEW w \in S, u # w
  PROVE  Cardinality(under(S, u)) # Cardinality(under(S, w))
<1>1. \A v \in S : v \in Int
  OBVIOUS
<1>2. ASSUME NEW a \in S, NEW b \in S, a < b
      PROVE  Cardinality(under(S, a)) # Cardinality(under(S, b))
  <2>1. a \in Int /\ b \in Int /\ \A v \in S : v < a => v < b
    BY <1>1, <1>2
  <2>2. under(S, a) \subseteq under(S, b)
    BY <2>1 DEF under
  <2>3. a \in under(S, b)
    BY <1>2 DEF under
  <2>4. a \notin under(S, a)
    BY <2>1 DEF under
  <2>5. IsFiniteSet(under(S, b))
    <3>1. under(S, b) \subseteq S
      BY DEF under
    <3> QED BY <3>1, FS_Subset
  <2> QED BY <2>2, <2>3, <2>4, <2>5, FS_Subset
<1>3. u < w \/ w < u
  BY <1>1
<1> QED BY <1>2, <1>3

\* Every member has a number of its own below the size of the set, and every such
\* number a member.
LEMMA Ranks ==
  ASSUME NEW S \in SUBSET Int, IsFiniteSet(S)
  PROVE  /\ Cardinality(S) \in Nat
         /\ \A u \in S : IsFiniteSet(under(S, u)) /\ Cardinality(under(S, u)) \in 0 .. Cardinality(S) - 1
         /\ \A n \in 1 .. Cardinality(S) : \E u \in S : Cardinality(under(S, u)) = n - 1
<1> DEFINE N == Cardinality(S)
           rank == [u \in S |-> Cardinality(under(S, u)) + 1]
<1>1. N \in Nat
  BY FS_CardinalityType
<1>2. ASSUME NEW u \in S
      PROVE  IsFiniteSet(under(S, u)) /\ Cardinality(under(S, u)) \in 0 .. N - 1
  <2>1. under(S, u) \subseteq S \ {u}
    BY DEF under
  <2>2. IsFiniteSet(S \ {u}) /\ Cardinality(S \ {u}) = N - 1
    BY <1>1, FS_RemoveElement
  <2>3. IsFiniteSet(under(S, u)) /\ Cardinality(under(S, u)) <= N - 1
    BY <2>1, <2>2, FS_Subset
  <2> QED BY <1>1, <2>3, FS_CardinalityType
<1>3. \A u, w \in S : u # w => Cardinality(under(S, u)) # Cardinality(under(S, w))
  BY UnderGrows
<1>4. rank \in Injection(S, 1 .. N)
  BY <1>1, <1>2, <1>3 DEF Injection, IsInjective
<1>5. rank \in Surjection(S, 1 .. N)
  BY <1>1, <1>4, FS_Interval, FS_Injection
<1>6. \A n \in 1 .. N : \E u \in S : rank[u] = n
  BY <1>5 DEF Surjection
<1>7. \A u \in S : Cardinality(under(S, u)) = rank[u] - 1
  BY <1>2
<1> HIDE DEF rank
<1> QED BY <1>1, <1>2, <1>6, <1>7

\* A finite set of numbers that is not empty has a least and a greatest member.
LEMMA Ends ==
  ASSUME NEW S \in SUBSET Int, IsFiniteSet(S), S # {}
  PROVE  /\ \E u \in S : under(S, u) = {}
         /\ \E u \in S : \A v \in S : v <= u
<1> DEFINE N == Cardinality(S)
<1>1. N \in Nat /\ N # 0
  BY Ranks, FS_EmptySet
<1>2. PICK u \in S : Cardinality(under(S, u)) = 0
  <2>1. 1 \in 1 .. N /\ 1 - 1 = 0
    BY <1>1
  <2> QED BY <2>1, Ranks
<1>3. under(S, u) = {}
  BY <1>2, Ranks, FS_EmptySet
<1>4. PICK w \in S : Cardinality(under(S, w)) = N - 1
  <2>1. N \in 1 .. N
    BY <1>1
  <2> QED BY <2>1, Ranks
<1>5. under(S, w) \subseteq S \ {w}
  BY DEF under
<1>6. IsFiniteSet(S \ {w}) /\ Cardinality(S \ {w}) = N - 1
  BY FS_RemoveElement
<1>7. under(S, w) = S \ {w}
  BY <1>4, <1>5, <1>6, FS_Subset
<1>8. \A v \in S : v <= w
  BY <1>7 DEF under
<1> QED BY <1>3, <1>8

\* The smaller of two numbers.
LEMMA MinOfTwo ==
  ASSUME NEW a \in Int, NEW b \in Int
  PROVE  Min({a, b}) = IF a <= b THEN a ELSE b
BY DEF Min

----------------------------------------------------------------------------
(***************************************************************************)
(* Keys and chunks                                                         *)
(***************************************************************************)

\* The list without repetitions has the keys of the list.
LEMMA Deduplicated ==
  ASSUME NEW keys \in Seq(Keys)
  PROVE  deduplicated(keys) \in Seq(Keys) /\ Range(deduplicated(keys)) = Range(keys)
<1> DEFINE F == first_uses(keys)
           N == Cardinality(F)
           at(n) == CHOOSE m \in F : Cardinality(under(F, m)) = n - 1
           d == deduplicated(keys)
<1>1. F \subseteq 1 .. Len(keys) /\ F \subseteq Int /\ IsFiniteSet(F)
  <2>1. F \subseteq 1 .. Len(keys)
    BY DEF first_uses
  <2>2. IsFiniteSet(1 .. Len(keys))
    BY FS_Interval
  <2> HIDE DEF F
  <2>3. IsFiniteSet(F)
    BY <2>1, <2>2, FS_Subset
  <2>4. F \subseteq Int
    BY <2>1
  <2> QED BY <2>1, <2>3, <2>4
<1>2. d = [n \in 1 .. N |-> keys[at(n)]]
  BY DEF deduplicated, under
<1>3. N \in Nat /\ \A n \in 1 .. N : at(n) \in F /\ Cardinality(under(F, at(n))) = n - 1
  <2> HIDE DEF F
  <2> QED BY <1>1, Ranks
<1>4. \A m \in F : m \in DOMAIN keys /\ keys[m] \in Keys
  BY DEF first_uses
<1> HIDE DEF d, N, at
<1>5. d \in [1 .. N -> Keys]
  BY <1>2, <1>3, <1>4
<1>6. d \in Seq(Keys) /\ DOMAIN d = 1 .. N
  BY <1>3, <1>5
<1>7. \A x \in Range(d) : x \in Range(keys)
  BY <1>2, <1>3, <1>4, <1>6 DEF Range
<1>8. ASSUME NEW k \in Range(keys) PROVE k \in Range(d)
  <2> DEFINE uses == {n \in DOMAIN keys : keys[n] = k}
  <2>1. uses \subseteq 1 .. Len(keys) /\ IsFiniteSet(1 .. Len(keys)) /\ uses # {}
    BY <1>8, FS_Interval DEF Range
  <2>2. IsFiniteSet(uses) /\ uses \in SUBSET Int
    BY <2>1, FS_Subset
  <2>3. PICK m \in uses : under(uses, m) = {}
    <3> HIDE DEF uses
    <3> QED BY <2>1, <2>2, Ends
  <2>4. m \in 1 .. Len(keys) /\ keys[m] = k
    BY <2>1
  <2>5. \A l \in 1 .. m - 1 : keys[l] # k
    BY <2>3, <2>4 DEF under
  <2>6. m \in F
    BY <2>4, <2>5 DEF first_uses
  <2> DEFINE n == Cardinality(under(F, m)) + 1
  <2>7. n \in 1 .. N
    <3> HIDE DEF F
    <3> QED BY <1>1, <2>6, Ranks DEF N
  <2>8. at(n) = m
    <3>1. at(n) \in F /\ Cardinality(under(F, at(n))) = Cardinality(under(F, m))
      <4>1. Cardinality(under(F, m)) \in Nat
        <5> HIDE DEF F
        <5> QED BY <1>1, <2>6, Ranks
      <4>2. at(n) \in F /\ Cardinality(under(F, at(n))) = n - 1
        BY <1>3, <2>7
      <4> HIDE DEF at, F
      <4> QED BY <4>1, <4>2
    <3> HIDE DEF F, at
    <3> QED BY <1>1, <2>6, <3>1, UnderGrows
  <2>9. d[n] = k
    BY <1>2, <2>4, <2>7, <2>8
  <2> QED BY <1>6, <2>7, <2>9 DEF Range
<1> QED BY <1>6, <1>7, <1>8 DEF d

\* Where a place of a list is when the list is cut into chunks.
LEMMA Ceiling ==
  ASSUME NEW n \in Nat \ {0}, NEW k \in Nat, NEW b \in Nat \ {0}, n <= k,
         NEW c, c = ((n - 1) \div b) + 1
  PROVE  c \in 1 .. ((k + b - 1) \div b) /\ (c - 1) * b + 1 <= n /\ n <= c * b
OBVIOUS

\* The chunks hold the keys of the list, and nothing else.
LEMMA Chunked ==
  ASSUME NEW keys \in Seq(Keys)
  PROVE  /\ \A c \in Nat \ {0} : Range(chunk(keys, c)) \subseteq Range(keys)
         /\ \A k \in Range(keys) :
              \E c \in 1 .. ((Len(keys) + ChunkSize - 1) \div ChunkSize) : k \in Range(chunk(keys, c))
<1> DEFINE a(c) == (c - 1) * ChunkSize + 1
           b(c) == IF c * ChunkSize <= Len(keys) THEN c * ChunkSize ELSE Len(keys)
<1>1. ChunkSize \in Nat \ {0} /\ Len(keys) \in Nat
  BY PaginationAssumption
<1>2. \A c \in Nat \ {0} : /\ a(c) \in Nat \ {0} /\ b(c) \in Nat /\ b(c) <= Len(keys)
                          /\ chunk(keys, c) = SubSeq(keys, a(c), b(c))
  <2> SUFFICES ASSUME NEW c \in Nat \ {0}
               PROVE  /\ a(c) \in Nat \ {0} /\ b(c) \in Nat /\ b(c) <= Len(keys)
                      /\ chunk(keys, c) = SubSeq(keys, a(c), b(c))
    OBVIOUS
  <2>1. c * ChunkSize \in Int /\ a(c) \in Nat \ {0} /\ c * ChunkSize \in Nat
    BY <1>1
  <2>2. Min({c * ChunkSize, Len(keys)}) = b(c)
    BY <1>1, <2>1, MinOfTwo
  <2>3. b(c) \in Nat /\ b(c) <= Len(keys)
    <3> DEFINE e == c * ChunkSize
    <3>1. e \in Nat /\ b(c) = IF e <= Len(keys) THEN e ELSE Len(keys)
      BY <2>1
    <3> HIDE DEF e, b
    <3> QED BY <1>1, <3>1
  <2>4. chunk(keys, c) = SubSeq(keys, a(c), b(c))
    <3> HIDE DEF b
    <3> QED BY <2>2 DEF chunk
  <2> QED BY <2>1, <2>3, <2>4
<1> HIDE DEF a, b
<1>3. ASSUME NEW c \in Nat \ {0}
      PROVE  /\ DOMAIN chunk(keys, c) = 1 .. (IF a(c) <= b(c) THEN b(c) - a(c) + 1 ELSE 0)
             /\ \A n \in 1 .. b(c) - a(c) + 1 : chunk(keys, c)[n] = keys[a(c) + n - 1]
  <2> DEFINE A == a(c)
             B == b(c)
  <2>1. A \in Nat \ {0} /\ B \in Nat /\ B <= Len(keys) /\ chunk(keys, c) = SubSeq(keys, A, B)
    BY <1>2
  <2> HIDE DEF A, B
  <2>2. /\ DOMAIN SubSeq(keys, A, B) = 1 .. (IF A <= B THEN B - A + 1 ELSE 0)
        /\ \A n \in 1 .. B - A + 1 : SubSeq(keys, A, B)[n] = keys[A + n - 1]
    BY <2>1
  <2> QED BY <2>1, <2>2 DEF A, B
<1>4. ASSUME NEW c \in Nat \ {0}, NEW k \in Range(chunk(keys, c)) PROVE k \in Range(keys)
  <2> DEFINE A == a(c)
             B == b(c)
  <2>1. PICK n \in DOMAIN chunk(keys, c) : k = chunk(keys, c)[n]
    BY <1>4 DEF Range
  <2>2. A \in Nat \ {0} /\ B \in Nat /\ B <= Len(keys)
    BY <1>2
  <2>3. n \in 1 .. (IF A <= B THEN B - A + 1 ELSE 0) /\ \A i \in 1 .. B - A + 1 : chunk(keys, c)[i] = keys[A + i - 1]
    BY <1>3
  <2> HIDE DEF A, B
  <2>4. n \in 1 .. B - A + 1 /\ A + n - 1 \in 1 .. Len(keys)
    BY <1>1, <2>2, <2>3
  <2> QED BY <2>1, <2>3, <2>4 DEF Range
<1>5. ASSUME NEW k \in Range(keys)
      PROVE  \E c \in 1 .. ((Len(keys) + ChunkSize - 1) \div ChunkSize) : k \in Range(chunk(keys, c))
  <2>1. PICK n \in 1 .. Len(keys) : k = keys[n]
    BY <1>5 DEF Range
  <2> DEFINE c == ((n - 1) \div ChunkSize) + 1
  <2>2. n \in Nat \ {0} /\ n <= Len(keys)
    OBVIOUS
  <2>3. c \in 1 .. ((Len(keys) + ChunkSize - 1) \div ChunkSize) /\ (c - 1) * ChunkSize + 1 <= n /\ n <= c * ChunkSize
    BY <1>1, <2>2, Ceiling
  <2> HIDE DEF c
  <2>4. c \in Nat \ {0}
    BY <1>1, <2>3
  <2>5. a(c) <= n /\ n <= b(c)
    BY <2>2, <2>3 DEF a, b
  <2> DEFINE A == a(c)
             B == b(c)
             m == n - A + 1
  <2>6. A \in Nat \ {0} /\ B \in Nat /\ A <= n /\ n <= B
    BY <1>2, <2>4, <2>5
  <2>7. DOMAIN chunk(keys, c) = 1 .. (IF A <= B THEN B - A + 1 ELSE 0)
        /\ \A i \in 1 .. B - A + 1 : chunk(keys, c)[i] = keys[A + i - 1]
    BY <1>3, <2>4
  <2> HIDE DEF A, B
  <2>8. m \in 1 .. B - A + 1 /\ A + m - 1 = n /\ m \in DOMAIN chunk(keys, c)
    BY <2>6, <2>7
  <2> HIDE DEF m
  <2>9. chunk(keys, c)[m] = k
    BY <2>1, <2>7, <2>8
  <2> QED BY <2>3, <2>8, <2>9 DEF Range
<1> QED BY <1>4, <1>5


\* A read under way: what each chunk selects makes up what is asked for.
LEMMA Covered ==
  ASSUME request \in Requests
  PROVE  /\ 1 \in Chunks /\ Chunks \subseteq Nat \ {0}
         /\ \A c \in Chunks : selected(c) \subseteq asked
         /\ ~no_request(request) => \A i \in asked : \E c \in Chunks : i \in selected(c)
<1> DEFINE all == ~filtered(request) \/ request.keys = <<>>
<1>1. CASE all
  <2>1. NumChunks(request) = 1 /\ asked = Items /\ \A c : selected(c) = Items
    BY <1>1 DEF NumChunks, asked, selected
  <2>2. Chunks = {1}
    BY <2>1 DEF Chunks
  <2> HIDE DEF all
  <2> QED BY <2>1, <2>2
<1>2. CASE ~all
  <2> DEFINE keys == request.keys
             d == deduplicated(keys)
  <2>1. keys \in Seq(Keys) /\ keys # <<>>
    BY <1>2, PaginationAssumption DEF Request, filtered
  <2>2. d \in Seq(Keys) /\ Range(d) = Range(keys)
    BY <2>1, Deduplicated
  <2>3. ChunkSize \in Nat \ {0}
    BY PaginationAssumption
  <2>4. Len(d) \in Nat \ {0}
    <3>1. keys[1] \in Range(keys)
      BY <2>1 DEF Range
    <3>2. keys[1] \in Range(d)
      BY <2>2, <3>1
    <3> HIDE DEF d
    <3> QED BY <2>2, <3>2 DEF Range
  <2>5. Chunks = 1 .. ((Len(d) + ChunkSize - 1) \div ChunkSize)
    BY <1>2 DEF Chunks, NumChunks
  <2>6. /\ asked = {i \in Items : KeysOf[i] \cap Range(keys) # {}}
        /\ \A c : selected(c) = {i \in Items : KeysOf[i] \cap Range(chunk(d, c)) # {}}
    BY <1>2 DEF asked, selected
  <2> HIDE DEF all, keys, d
  <2>7. 1 \in Chunks /\ Chunks \subseteq Nat \ {0}
    <3> DEFINE L == Len(d)
    <3>1. L \in Nat \ {0}
      BY <2>4
    <3> HIDE DEF L
    <3>2. 1 <= ((L + ChunkSize - 1) \div ChunkSize) /\ ((L + ChunkSize - 1) \div ChunkSize) \in Int
      BY <2>3, <3>1, Ceiling
    <3> QED BY <2>5, <3>2 DEF L
  <2>8. \A c \in Chunks : Range(chunk(d, c)) \subseteq Range(keys)
    BY <2>2, <2>7, Chunked
  <2>9. \A k \in Range(keys) : \E c \in Chunks : k \in Range(chunk(d, c))
    BY <2>2, <2>5, Chunked
  <2>10. \A c \in Chunks : selected(c) \subseteq asked
    BY <2>6, <2>8
  <2>11. \A i \in asked : \E c \in Chunks : i \in selected(c)
    BY <2>6, <2>9
  <2> QED BY <2>7, <2>10, <2>11
<1> QED BY <1>1, <1>2

----------------------------------------------------------------------------
(***************************************************************************)
(* Pages                                                                   *)
(***************************************************************************)

\* The page of a controller that is honest: a part of what comes after the cursor,
\* without a gap up to the next cursor, and all of it when there is none.
LEMMA HonestPage ==
  ASSUME PagesTypeOK, NEW c \in Chunks
  PROVE  LET page == honest_page(c)
             later == {i \in items \cap selected(c) : i > cursor[c]}
         IN  /\ page.data \subseteq later
             /\ page.next = None => page.data = later
             /\ page.next # None => page.next \in page.data /\ \A i \in later : i <= page.next => i \in page.data
             /\ page.total \in 0 .. MaxItem
<1> DEFINE page == honest_page(c)
           later == {i \in items \cap selected(c) : i > cursor[c]}
           data == {i \in later : Cardinality(under(later, i)) < PageSize}
<1>1. page = [data |-> data, total |-> Cardinality(items \cap selected(c)),
              next |-> IF data = later THEN None ELSE Max(data)]
  BY DEF honest_page, under
<1>2. IsFiniteSet(Items) /\ Cardinality(Items) = MaxItem /\ MaxItem \in Nat /\ PageSize \in Nat \ {0} /\ Items \subseteq Int
  BY PaginationAssumption, FS_Interval DEF Items
<1>3. IsFiniteSet(later) /\ later \subseteq Items
  <2>1. later \subseteq Items
    BY DEF PagesTypeOK
  <2> QED BY <1>2, <2>1, FS_Subset
<1>4. IsFiniteSet(data) /\ data \subseteq later
  <2>1. data \subseteq later
    OBVIOUS
  <2> HIDE DEF later, data
  <2> QED BY <1>3, <2>1, FS_Subset
<1>5. page.total \in 0 .. MaxItem
  <2>1. items \cap selected(c) \subseteq Items
    BY DEF PagesTypeOK
  <2>2. IsFiniteSet(items \cap selected(c)) /\ Cardinality(items \cap selected(c)) <= MaxItem
    BY <1>2, <2>1, FS_Subset
  <2>3. Cardinality(items \cap selected(c)) \in Nat
    BY <2>2, FS_CardinalityType
  <2> HIDE DEF later, data
  <2> QED BY <1>1, <1>2, <2>2, <2>3
<1>6. \A i \in data, j \in later : j <= i => j \in data
  <2> SUFFICES ASSUME NEW i \in data, NEW j \in later, j <= i PROVE j \in data
    OBVIOUS
  <2>1. i \in later /\ Cardinality(under(later, i)) < PageSize
    OBVIOUS
  <2>2. i \in Int /\ j \in Int /\ \A k \in later : k \in Int
    BY <1>2, <1>3, <2>1
  <2> HIDE DEF later
  <2>3. under(later, j) \subseteq under(later, i)
    <3>1. \A k \in later : k < j => k < i
      BY <2>2
    <3> QED BY <3>1 DEF under
  <2>4. IsFiniteSet(under(later, i)) /\ Cardinality(under(later, i)) \in Int
        /\ Cardinality(under(later, j)) \in Int
    <3>1. later \in SUBSET Int
      BY <1>2, <1>3
    <3> QED BY <1>3, <2>1, <3>1, Ranks
  <2>5. Cardinality(under(later, j)) <= Cardinality(under(later, i))
    BY <2>3, <2>4, FS_Subset
  <2> QED BY <1>2, <2>1, <2>4, <2>5
<1>7. ASSUME data # later PROVE Max(data) \in data
  <2> HIDE DEF later
  <2>1. later # {} /\ later \in SUBSET Int
    BY <1>2, <1>3, <1>7
  <2>2. PICK u \in later : under(later, u) = {}
    BY <1>3, <2>1, Ends
  <2>3. u \in data
    BY <1>2, <2>2, FS_EmptySet
  <2> HIDE DEF data
  <2>4. \E w \in data : \A v \in data : v <= w
    BY <1>4, <2>1, <2>3, Ends
  <2> QED BY <1>2, <1>3, <1>4, <2>4 DEF Max
<1>8. None \notin Items
  BY <1>2 DEF None, Items
<1> HIDE DEF page, data, later
<1>9. /\ page.data = data
      /\ data = later => page.next = None
      /\ data # later => page.next = Max(data)
  BY <1>1
<1>10. /\ page.data \subseteq later
       /\ page.next = None => page.data = later
       /\ page.next # None => page.next \in page.data /\ \A i \in later : i <= page.next => i \in page.data
  <2>1. CASE data = later
    BY <1>9, <2>1
  <2>2. CASE data # later
    BY <1>3, <1>4, <1>6, <1>7, <1>8, <1>9, <2>2
  <2> QED BY <2>1, <2>2
<1> QED BY <1>5, <1>10 DEF page, later

----------------------------------------------------------------------------
(***************************************************************************)
(* Reads                                                                   *)
(***************************************************************************)

\* What a chunk has got was there and was asked for.  Of what stays, it has all up
\* to its cursor, and everything once it is done: StableItemsRead is about the end.
ChunkInv(c) ==
  /\ got[c] \subseteq ever \cap selected(c)
  /\ phase[c] = "fetch" => \A i \in stable \cap selected(c) : i <= cursor[c] => i \in got[c]
  /\ phase[c] = "done" /\ ~no_request(request) => stable \cap selected(c) \subseteq got[c]

ReadInv == honest /\ request.kind # "limited" => \A c \in Chunks : ChunkInv(c)

PageInv == PagesTypeOK /\ ReadInv

\* The query of a read does not change.
LEMMA SameQuery ==
  ASSUME UNCHANGED request
  PROVE  /\ Chunks' = Chunks /\ asked' = asked /\ no_request(request)' = no_request(request)
         /\ \A c : selected(c)' = selected(c)
BY DEF Chunks, NumChunks, asked, selected, no_request, filtered, Items, chunk

\* A read starts with nothing.
LEMMA InitPageInv == PagesInit => PageInv
<1> SUFFICES ASSUME PagesInit PROVE PageInv
  OBVIOUS
<1>1. MaxItem \in Nat /\ MaxEdits \in Nat
  BY PaginationAssumption
<1>2. PagesTypeOK
  BY <1>1 DEF PagesInit, PagesTypeOK, None, Cursors
<1>3. ReadInv
  <2> SUFFICES ASSUME NEW c \in Chunks PROVE ChunkInv(c)
    BY DEF ReadInv
  <2>1. got[c] = {} /\ cursor[c] = 0 /\ (phase[c] = "done" => no_request(request)) /\ stable \subseteq Items
    BY DEF PagesInit, None
  <2>2. \A i \in Items : ~ (i <= 0)
    BY <1>1 DEF Items
  <2> QED BY <2>1, <2>2 DEF ChunkInv
<1> QED BY <1>2, <1>3 DEF PageInv

\* A page whose members are items keeps the types.
LEMMA PageType ==
  ASSUME PagesTypeOK, NEW c \in Chunks, NEW page, FetchPage(c, page), page.data \subseteq Items,
         page.next \in Cursors, page.total \in 0 .. MaxItem
  PROVE  PagesTypeOK'
<1>0. MaxItem \in Nat /\ 1 \in Int
  BY PaginationAssumption
<1>1. MaxItem \in Nat /\ IsFiniteSet(Items)
  BY <1>0, FS_Interval DEF Items
<1>2. Cardinality(page.data) \in Nat
  BY <1>1, FS_Subset, FS_CardinalityType
<1>3. UNCHANGED <<items, honest, request, stable, ever, edits>>
  BY DEF FetchPage
<1>4. Chunks' = Chunks
  BY <1>3, SameQuery
<1>5. /\ expected' \in [Chunks -> -1 .. MaxItem]
      /\ got' \in [Chunks -> SUBSET Items]
      /\ seen' \in [Chunks -> SUBSET ({None} \cup Items)]
      /\ cursor' \in [Chunks -> Cursors]
  <2>1. expected[c] \in -1 .. MaxItem
    BY DEF PagesTypeOK
  <2>2. page.next \in Cursors /\ {page.next} \ Fresh \subseteq {None} \cup Items
    BY DEF Cursors
  <2> QED BY <1>1, <2>1, <2>2 DEF PagesTypeOK, FetchPage, cursor_of
<1>6. length' \in [Chunks -> 0 .. MaxItem + 1]
  <2> DEFINE len == length[c] + Cardinality(page.data)
  <2>1. len \in Nat
    BY <1>1, <1>2 DEF PagesTypeOK
  <2>2. length' = [length EXCEPT ![c] = Min({len, MaxItem + 1})]
    BY DEF FetchPage
  <2> HIDE DEF len
  <2>3. Min({len, MaxItem + 1}) \in 0 .. MaxItem + 1
    <3>1. Min({len, MaxItem + 1}) = IF len <= MaxItem + 1 THEN len ELSE MaxItem + 1
      BY <1>1, <2>1, MinOfTwo
    <3> QED BY <1>1, <2>1, <3>1
  <2> QED BY <2>2, <2>3 DEF PagesTypeOK
<1>7. phase' \in [Chunks -> {"fetch", "again", "done", "failed"}]
  <2>1. \E end \in {"fetch", "done", "failed"} : phase' = [phase EXCEPT ![c] = end]
    BY DEF FetchPage
  <2> QED BY <2>1 DEF PagesTypeOK
<1> QED BY <1>3, <1>4, <1>5, <1>6, <1>7 DEF PagesTypeOK

\* What a page of an honest controller does to its chunk.
LEMMA PageRead ==
  ASSUME PageInv, honest, NEW c \in Chunks, FetchPage(c, honest_page(c))
  PROVE  PageInv'
<1> DEFINE page == honest_page(c)
           later == {i \in items \cap selected(c) : i > cursor[c]}
<1>1. /\ page.data \subseteq later
      /\ page.next = None => page.data = later
      /\ page.next # None => page.next \in page.data /\ \A i \in later : i <= page.next => i \in page.data
      /\ page.total \in 0 .. MaxItem
  BY HonestPage DEF PageInv
<1>2. later \subseteq Items /\ later \subseteq ever /\ later \subseteq selected(c)
  BY DEF PageInv, PagesTypeOK
<1>3. FetchPage(c, page)
  OBVIOUS
<1> HIDE DEF page
<1>4. page.data \subseteq Items /\ page.next \in Cursors
  BY <1>1, <1>2 DEF Cursors
<1>5. PagesTypeOK'
  BY <1>1, <1>3, <1>4, PageType DEF PageInv
<1>6. UNCHANGED <<items, honest, request, stable, ever, edits>> /\ request.kind # "limited" /\ phase[c] = "fetch"
  BY <1>3 DEF FetchPage
<1>7. Chunks' = Chunks /\ no_request(request)' = no_request(request) /\ \A d : selected(d)' = selected(d)
  BY <1>6, SameQuery
<1>8. /\ got' = [got EXCEPT ![c] = @ \cup page.data] /\ cursor' = [cursor EXCEPT ![c] = page.next]
      /\ \E end \in {"fetch", "done", "failed"} :
           /\ phase' = [phase EXCEPT ![c] = end]
           /\ end = "done" => page.next = None
           /\ end = "fetch" => page.next # None
  BY <1>3 DEF FetchPage, cursor_of
<1>9. ASSUME NEW d \in Chunks PROVE ChunkInv(d)'
  <2>1. ChunkInv(d)
    BY <1>6 DEF PageInv, ReadInv
  <2>2. CASE d # c
    <3>1. got'[d] = got[d] /\ cursor'[d] = cursor[d] /\ phase'[d] = phase[d]
      BY <1>8, <2>2 DEF PageInv, PagesTypeOK
    <3> QED BY <1>6, <1>7, <2>1, <3>1 DEF ChunkInv
  <2>3. CASE d = c
    <3>1. got'[c] = got[c] \cup page.data /\ cursor'[c] = page.next
          /\ (phase'[c] = "done" => page.next = None) /\ (phase'[c] = "fetch" => page.next # None)
      BY <1>8 DEF PageInv, PagesTypeOK
    <3>2. got[c] \subseteq ever \cap selected(c) /\ \A i \in stable \cap selected(c) : i <= cursor[c] => i \in got[c]
      BY <1>6, <2>1, <2>3 DEF ChunkInv
    <3>3. \A i \in stable \cap selected(c) : i <= cursor[c] \/ i \in later
      <4>1. stable \subseteq items /\ items \subseteq Int /\ cursor[c] \in Int
        BY PaginationAssumption DEF PageInv, PagesTypeOK, Items, None, Cursors, Fresh
      <4> QED BY <4>1
    <3>4. (got[c] \cup page.data) \subseteq ever \cap selected(c)
      BY <1>1, <1>2, <3>2
    <3>5. page.next # None => \A i \in stable \cap selected(c) : i <= page.next => i \in got[c] \cup page.data
      BY <1>1, <3>2, <3>3
    <3>6. page.next = None => stable \cap selected(c) \subseteq got[c] \cup page.data
      BY <1>1, <3>2, <3>3
    <3> QED BY <1>6, <1>7, <2>3, <3>1, <3>4, <3>5, <3>6 DEF ChunkInv
  <2> QED BY <2>2, <2>3
<1> QED BY <1>5, <1>6, <1>7, <1>9 DEF PageInv, ReadInv

\* The reads with a limit, of everything at once, keep the types.
LEMMA LimitedKeeps == ASSUME PageInv, FetchLimited PROVE PageInv'
<1>1. MaxItem \in Nat /\ IsFiniteSet(Items) /\ Cardinality(Items) = MaxItem
  BY PaginationAssumption, FS_Interval DEF Items
<1>2. UNCHANGED <<items, honest, request, cursor, seen, stable, ever, edits>> /\ request.kind = "limited"
  BY DEF FetchLimited
<1>3. \A S \in SUBSET items : Cardinality(S) \in 0 .. MaxItem /\ S \subseteq Items
  <2> SUFFICES ASSUME NEW S \in SUBSET items PROVE Cardinality(S) \in 0 .. MaxItem /\ S \subseteq Items
    OBVIOUS
  <2>1. S \subseteq Items
    BY DEF PageInv, PagesTypeOK
  <2>2. IsFiniteSet(S) /\ Cardinality(S) <= MaxItem
    BY <1>1, <2>1, FS_Subset
  <2> QED BY <1>1, <2>1, <2>2, FS_CardinalityType
<1>4. PICK S \in SUBSET items, end \in {"again", "done"} :
        /\ got' = [got EXCEPT ![1] = S] /\ length' = [length EXCEPT ![1] = Cardinality(S)]
        /\ expected' = [expected EXCEPT ![1] = Cardinality(items)] /\ phase' = [phase EXCEPT ![1] = end]
  <2> DEFINE limit == IF phase[1] = "fetch" THEN DefaultLimit ELSE expected[1]
  <2>1. first(limit) \in SUBSET items
    BY DEF first
  <2>2. \E end \in {"again", "done"} : phase' = [phase EXCEPT ![1] = end]
    BY DEF FetchLimited
  <2>3. /\ got' = [got EXCEPT ![1] = first(limit)] /\ length' = [length EXCEPT ![1] = Cardinality(first(limit))]
        /\ expected' = [expected EXCEPT ![1] = Cardinality(items)]
    BY DEF FetchLimited
  <2> HIDE DEF limit
  <2> QED BY <2>1, <2>2, <2>3
<1>5. Cardinality(S) \in 0 .. MaxItem + 1 /\ Cardinality(items) \in -1 .. MaxItem /\ S \subseteq Items
  BY <1>1, <1>3
<1>6. Chunks' = Chunks
  BY <1>2, SameQuery
<1>7. PagesTypeOK'
  BY <1>2, <1>4, <1>5, <1>6 DEF PageInv, PagesTypeOK
<1> QED BY <1>2, <1>7 DEF PageInv, ReadInv

\* A change of the collection takes nothing that a chunk has got, and what it touches
\* is no longer there all the time.
LEMMA EditKeeps == ASSUME PageInv, NEW i \in Items, Edit(i) PROVE PageInv'
<1>1. UNCHANGED <<honest, request, phase, cursor, expected, seen, got, length>>
      /\ items' \subseteq Items /\ stable' \subseteq items' /\ items' \subseteq ever' /\ ever' \subseteq Items
      /\ stable' \subseteq stable /\ ever \subseteq ever'
  BY DEF Edit, chunkVars, PageInv, PagesTypeOK
<1>2. Chunks' = Chunks /\ no_request(request)' = no_request(request) /\ \A d : selected(d)' = selected(d)
  BY <1>1, SameQuery
<1>3. edits' \in 0 .. MaxEdits
  BY PaginationAssumption DEF Edit, PageInv, PagesTypeOK
<1>4. PagesTypeOK'
  BY <1>1, <1>2, <1>3 DEF PageInv, PagesTypeOK
<1>5. ReadInv'
  BY <1>1, <1>2 DEF PageInv, ReadInv, ChunkInv
<1> QED BY <1>4, <1>5 DEF PageInv

\* Every page, honest or not, and every change keeps the invariant.
LEMMA NextPageInv == PageInv /\ [PagesNext]_pagesVars => PageInv'
<1> SUFFICES ASSUME PageInv, [PagesNext]_pagesVars PROVE PageInv'
  OBVIOUS
<1>1. CASE FetchHonest
  BY <1>1, PageRead DEF FetchHonest
<1>2. CASE FetchAny
  <2>1. PICK c \in Chunks, page \in Pages : FetchPage(c, page)
    BY <1>2 DEF FetchAny
  <2>2. page.data \subseteq Items /\ page.next \in Cursors /\ page.total \in 0 .. MaxItem
    BY PaginationAssumption DEF Pages, Items
  <2>3. PagesTypeOK'
    BY <2>1, <2>2, PageType DEF PageInv
  <2>4. ~honest /\ honest' = honest
    BY <1>2, <2>1 DEF FetchAny, FetchPage
  <2> QED BY <2>3, <2>4 DEF PageInv, ReadInv
<1>3. CASE FetchLimited
  BY <1>3, LimitedKeeps
<1>4. CASE \E i \in Items : Edit(i)
  BY <1>4, EditKeeps
<1>5. CASE UNCHANGED pagesVars
  <2>1. UNCHANGED <<items, honest, request, phase, cursor, expected, seen, got, length, stable, ever, edits>>
    BY <1>5 DEF pagesVars, chunkVars
  <2>2. Chunks' = Chunks /\ no_request(request)' = no_request(request) /\ \A d : selected(d)' = selected(d)
    BY <2>1, SameQuery
  <2>3. PagesTypeOK'
    BY <2>1, <2>2 DEF PageInv, PagesTypeOK
  <2> QED BY <2>1, <2>2, <2>3 DEF PageInv, ReadInv, ChunkInv
<1> QED BY <1>1, <1>2, <1>3, <1>4, <1>5 DEF PagesNext

\* PageInv holds in every state a read comes to.
LEMMA PageInvariant == PagesSpec => []PageInv
BY InitPageInv, NextPageInv, PTL DEF PagesSpec

\* Every variable of a read keeps its type, whatever the controller answers.
THEOREM PagesTypeCorrect == PagesSpec => []PagesTypeOK
<1>1. PageInv => PagesTypeOK
  BY DEF PageInv
<1> QED BY <1>1, PageInvariant, PTL

\* A read that is accepted has what stayed, and nothing that never was, however many
\* pages, chunks and changes there are.
THEOREM StableItemsReadHolds == PagesSpec => []StableItemsRead
<1>1. PageInv => StableItemsRead
  <2> SUFFICES ASSUME PageInv, honest, Merged, request.kind # "limited", ~no_request(request)
               PROVE  (stable \cap asked) \subseteq merged /\ merged \subseteq (ever \cap asked)
    BY DEF StableItemsRead
  <2>1. request \in Requests
    BY DEF PageInv, PagesTypeOK
  <2>2. \A c \in Chunks : got[c] \subseteq ever \cap selected(c) /\ stable \cap selected(c) \subseteq got[c]
    BY DEF PageInv, ReadInv, ChunkInv, Merged
  <2>3. \A c \in Chunks : selected(c) \subseteq asked
    BY <2>1, Covered
  <2>4. \A i \in asked : \E c \in Chunks : i \in selected(c)
    BY <2>1, Covered
  <2> QED BY <2>2, <2>3, <2>4 DEF merged
<1> QED BY <1>1, PageInvariant, PTL

----------------------------------------------------------------------------
(***************************************************************************)
(* Authorisation                                                           *)
(***************************************************************************)

\* The token is one of the sessions opened, and every session but the current
\* one was paid for by a dropped token: this makes LoginOncePerClear inductive.
TokenInv ==
  /\ token \in 0 .. issued
  /\ token = NoToken => issued <= clears
  /\ LoginOncePerClear

\* A task that is under way has a request left.
SentInv == \A t \in Tasks : pc[t] \notin {"done", "failed"} => sent[t] < MaxRequests

AuthInv == TypeOK /\ HeaderSet /\ OneLogin /\ TokenInv /\ SentInv

\* The client starts without a token and without a task in the lock.
LEMMA InitAuthInv == Init => AuthInv
BY AuthAssumption
   DEF Init, AuthInv, TypeOK, HeaderSet, OneLogin, TokenInv, SentInv, LoginOncePerClear, NoToken, Labels

\* Taking the first waiter leaves a sequence of tasks.
LEMMA TailType == ASSUME waiters \in Seq(Tasks), waiters # <<>>
                  PROVE  Tail(waiters) \in Seq(Tasks)
OBVIOUS

\* Every step of a task, of the controller and of the network keeps AuthInv.
LEMMA NextAuthInv == AuthInv /\ [Next]_vars => AuthInv'
<1> SUFFICES ASSUME AuthInv, [Next]_vars PROVE AuthInv'
  OBVIOUS
<1> USE AuthAssumption DEF AuthInv, NoToken, Labels, Goto, lockVars, serverVars
<1>1. ASSUME NEW t \in Tasks, Begin(t) PROVE AuthInv'
  <2>u. sent[t] < MaxRequests
    BY <1>1 DEF Begin, SentInv
  <2>1. CASE token # NoToken
    <3>1. header' = [header EXCEPT ![t] = token] /\ pc' = [pc EXCEPT ![t] = "sending"]
          /\ UNCHANGED <<token, holder, waiters, sent, issued, valid, expiries, clears, faults>>
      BY <1>1, <2>1 DEF Begin, SendWith
    <3> QED BY <2>u, <2>1, <3>1 DEF TypeOK, HeaderSet, OneLogin, TokenInv, SentInv, LoginOncePerClear
  <2>2. CASE token = NoToken /\ lock_free
    <3>1. holder' = t /\ pc' = [pc EXCEPT ![t] = "login"]
          /\ UNCHANGED <<token, header, waiters, sent, issued, valid, expiries, clears, faults>>
      BY <1>1, <2>2 DEF Begin
    <3>2. \A u \in Tasks : pc[u] # "login"
      BY <2>2 DEF lock_free, OneLogin
    <3> QED BY <2>u, <2>2, <3>1, <3>2 DEF TypeOK, HeaderSet, OneLogin, TokenInv, SentInv, LoginOncePerClear
  <2>3. CASE token = NoToken /\ ~lock_free
    <3>1. waiters' = Append(waiters, t) /\ pc' = [pc EXCEPT ![t] = "waiting"]
          /\ UNCHANGED <<token, header, holder, sent, issued, valid, expiries, clears, faults>>
      BY <1>1, <2>3 DEF Begin
    <3>2. waiters' \in Seq(Tasks)
      BY <3>1 DEF TypeOK
    <3> QED BY <2>u, <3>1, <3>2 DEF TypeOK, HeaderSet, OneLogin, TokenInv, SentInv, LoginOncePerClear
  <2> QED BY <2>1, <2>2, <2>3
<1>2. ASSUME NEW t \in Tasks, Enter(t) PROVE AuthInv'
  <2>u. sent[t] < MaxRequests
    BY <1>2 DEF Enter, SentInv
  <2>1. waiters' \in Seq(Tasks)
    BY <1>2, TailType DEF Enter, TypeOK
  <2>2. CASE token_missing
    <3>1. holder' = t /\ pc' = [pc EXCEPT ![t] = "login"]
          /\ UNCHANGED <<token, header, sent, issued, valid, expiries, clears, faults>>
      BY <1>2, <2>2 DEF Enter
    <3>2. \A u \in Tasks : pc[u] # "login"
      BY <1>2 DEF Enter, OneLogin
    <3> QED BY <2>u, <2>1, <2>2, <3>1, <3>2
            DEF token_missing, TypeOK, HeaderSet, OneLogin, TokenInv, SentInv, LoginOncePerClear
  <2>3. CASE ~token_missing
    <3>1. header' = [header EXCEPT ![t] = token] /\ pc' = [pc EXCEPT ![t] = "sending"]
          /\ UNCHANGED <<token, holder, sent, issued, valid, expiries, clears, faults>>
      BY <1>2, <2>3 DEF Enter, SendWith
    <3> QED BY <2>u, <2>1, <2>3, <3>1
            DEF token_missing, TypeOK, HeaderSet, OneLogin, TokenInv, SentInv, LoginOncePerClear
  <2> QED BY <2>2, <2>3
<1>3. ASSUME NEW t \in Tasks, Login(t) PROVE AuthInv'
  <2>u. sent[t] < MaxRequests
    BY <1>3 DEF Login, SentInv
  <2>1. /\ issued' = issued + 1 /\ token' = issued + 1 /\ valid' = valid \cup {issued + 1}
        /\ holder' = NoTask /\ header' = [header EXCEPT ![t] = issued + 1]
        /\ pc' = [pc EXCEPT ![t] = "sending"]
        /\ UNCHANGED <<waiters, sent, expiries, clears, faults>>
    BY <1>3 DEF Login, SendWith
  <2>2. token = NoToken /\ \A u \in Tasks : pc[u] = "login" => u = t
    BY <1>3 DEF Login, OneLogin
  <2>3. valid' \subseteq 1 .. issued'
    BY <2>1 DEF TypeOK
  <2>4. OneLogin' /\ HeaderSet'
    BY <2>1, <2>2 DEF TypeOK, OneLogin, HeaderSet
  <2> QED BY <2>u, <1>3, <2>1, <2>2, <2>3, <2>4 DEF Login, TypeOK, TokenInv, SentInv, LoginOncePerClear
<1>4. ASSUME NEW t \in Tasks, LoginFails(t) PROVE AuthInv'
  <2>1. \A u \in Tasks : pc[u] = "login" => u = t
    BY <1>4 DEF LoginFails, OneLogin
  <2> QED BY <1>4, <2>1
          DEF LoginFails, Fault, TypeOK, HeaderSet, OneLogin, TokenInv, SentInv, LoginOncePerClear
<1>5. ASSUME NEW t \in Tasks, Answer(t) PROVE AuthInv'
  <2>a. sent[t] \in 0 .. MaxRequests
    BY DEF TypeOK
  <2>b. sent[t] < MaxRequests
    BY <1>5 DEF Answer, SentInv
  <2>1. sent[t] \in Nat /\ sent[t] < MaxRequests
    BY <2>a, <2>b
  <2>2. sent' \in [Tasks -> 0 .. MaxRequests]
    BY <1>5, <2>1 DEF Answer, TypeOK
  <2>3. UNCHANGED <<token, holder, waiters, header, issued, valid, expiries, clears, faults>>
    BY <1>5 DEF Answer
  <2>4. CASE sent[t] + 1 = MaxRequests
    <3>1. pc' = [pc EXCEPT ![t] = "done"]
      BY <1>5, <2>4 DEF Answer
    <3> QED BY <1>5, <2>1, <2>2, <2>3, <3>1
            DEF Answer, TypeOK, HeaderSet, OneLogin, TokenInv, SentInv, LoginOncePerClear
  <2>5. CASE sent[t] + 1 # MaxRequests
    <3>1. pc' = [pc EXCEPT ![t] = "ready"]
      BY <1>5, <2>5 DEF Answer
    <3>2. SentInv'
      BY <1>5, <2>1, <2>5, <3>1 DEF Answer, TypeOK, SentInv
    <3> QED BY <2>2, <2>3, <3>1, <3>2 DEF TypeOK, HeaderSet, OneLogin, TokenInv, LoginOncePerClear
  <2> QED BY <2>4, <2>5
<1>6. ASSUME NEW t \in Tasks, Unauthorized(t) PROVE AuthInv'
  <2>1. faults' \in 0 .. MaxFaults
    BY <1>6 DEF Unauthorized, Fault, TypeOK
  <2>2. token' = NoToken /\ clears' = clears + 1 /\ pc' = [pc EXCEPT ![t] = "failed"]
        /\ UNCHANGED <<holder, waiters, header, sent, issued, valid, expiries>>
    BY <1>6 DEF Unauthorized
  <2> QED BY <2>1, <2>2 DEF TypeOK, HeaderSet, OneLogin, TokenInv, SentInv, LoginOncePerClear
<1>7. ASSUME NEW t \in Tasks, RequestFails(t) PROVE AuthInv'
  BY <1>7 DEF RequestFails, Fault, TypeOK, HeaderSet, OneLogin, TokenInv, SentInv, LoginOncePerClear
<1>8. ASSUME NEW s \in valid, Expire(s) PROVE AuthInv'
  BY <1>8 DEF Expire, TypeOK, HeaderSet, OneLogin, TokenInv, SentInv, LoginOncePerClear
<1>9. ASSUME UNCHANGED vars PROVE AuthInv'
  BY <1>9 DEF vars, TypeOK, HeaderSet, OneLogin, TokenInv, SentInv, LoginOncePerClear
<1> HIDE DEF AuthInv
<1> QED
  BY <1>1, <1>2, <1>3, <1>4, <1>5, <1>6, <1>7, <1>8, <1>9 DEF Next, Step

\* AuthInv holds in every state a client reaches.
LEMMA AuthInvariant == Spec => []AuthInv
BY InitAuthInv, NextAuthInv, PTL DEF Spec

\* Every variable keeps its type.
THEOREM AuthTypeCorrect == Spec => []TypeOK
<1>1. AuthInv => TypeOK
  BY DEF AuthInv
<1> QED BY <1>1, AuthInvariant, PTL

\* No request is ever sent without a session's token, for any number of tasks.
THEOREM HeaderSetHolds == Spec => []HeaderSet
<1>1. AuthInv => HeaderSet
  BY DEF AuthInv
<1> QED BY <1>1, AuthInvariant, PTL

\* Logins never overlap and never replace a token.
THEOREM OneLoginHolds == Spec => []OneLogin
<1>1. AuthInv => OneLogin
  BY DEF AuthInv
<1> QED BY <1>1, AuthInvariant, PTL

\* Any number of tasks that miss the token together log in once.
THEOREM LoginOncePerClearHolds == Spec => []LoginOncePerClear
<1>1. AuthInv => LoginOncePerClear
  BY DEF AuthInv, TokenInv
<1> QED BY <1>1, AuthInvariant, PTL

============================================================================
