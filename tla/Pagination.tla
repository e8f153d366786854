----------------------------- MODULE Pagination -----------------------------
(***************************************************************************)
(* How SDWANCspHttpClient reads a collection of the controller while it    *)
(* changes: services, address objects and policies page by page along      *)
(* cursors, filtered reads in chunks that run concurrently, zones and      *)
(* networks in one request that is repeated with a larger limit.           *)
(*                                                                         *)
(* An action is one request.  An item of the collection is a number, the   *)
(* controller serves items in ascending order, and a cursor is the last    *)
(* item of a page.                                                         *)
(***************************************************************************)
EXTENDS Integers, Sequences, FiniteSets, FiniteSetsExt, SequencesExt

CONSTANTS
  MaxItem,
  Keys,         \* what a filter names: parents, or the ids themselves
  KeysOf,       \* item -> the keys it is found under
  Requests,     \* the reads that are tried, see Request
  PageSize,     \* SERVICES_MAX_LIMIT and the like
  ChunkSize,    \* YAQL_FILTERS_LIMIT
  DefaultLimit, \* zones and networks sent when no limit is asked for
  MaxEdits      \* bound: changes of the collection

Items == 1 .. MaxItem

Request ==
  [kind: {"services", "limited"}] \cup [kind: {"addr_objects", "policies"}, keys: Seq(Keys)]

ASSUME PaginationAssumption ==
  /\ MaxItem \in Nat
  /\ KeysOf \in [Items -> SUBSET Keys]
  /\ Requests \subseteq Request
  /\ PageSize \in Nat \ {0}
  /\ ChunkSize \in Nat \ {0}
  /\ DefaultLimit \in Nat
  /\ MaxEdits \in Nat

None == 0

\* What stands for a cursor that was never given before.  The code has no limit on
\* the number of cursors; two names tell each from the one just before it.
Fresh == {-1, -2}

Cursors == {None} \cup Items \cup Fresh

VARIABLES
  items,     \* the collection on the controller (external)
  honest,    \* whether the controller's pages are those of its collection (external)
  request,   \* the read under way
  phase, cursor, expected, seen, got, length,   \* per chunk: the loop's variables
  stable,    \* items that were there all the time since the read began
  ever,      \* items that were there at some time since
  edits

chunkVars == <<cursor, expected, seen, got, length>>
pagesVars == <<items, honest, request, phase, chunkVars, stable, ever, edits>>

----------------------------------------------------------------------------
\* list(dict.fromkeys(...)): every key once, in the order of the first use.
first_uses(keys) == {n \in DOMAIN keys : \A m \in 1 .. n - 1 : keys[m] # keys[n]}

deduplicated(keys) ==
  [n \in 1 .. Cardinality(first_uses(keys)) |->
     keys[CHOOSE m \in first_uses(keys) : Cardinality({k \in first_uses(keys) : k < m}) = n - 1]]

\* Mutant of chunk: the last key of a full chunk is dropped.
chunk_short(keys, c) == SubSeq(keys, (c - 1) * ChunkSize + 1, c * ChunkSize - 1)

\* Chunk c of the deduplicated keys.
chunk(keys, c) == SubSeq(keys, (c - 1) * ChunkSize + 1, Min({c * ChunkSize, Len(keys)}))

\* A read without keys has one chunk, which is everything.
filtered(r) == r.kind \in {"addr_objects", "policies"}

NumChunks(r) ==
  IF ~filtered(r) \/ r.keys = <<>> THEN 1
  ELSE (Len(deduplicated(r.keys)) + ChunkSize - 1) \div ChunkSize

Chunks == 1 .. NumChunks(request)

\* The items the query of chunk c selects.
selected(c) ==
  {i \in Items : (filtered(request) /\ request.keys # <<>>)
                   => KeysOf[i] \cap Range(chunk(deduplicated(request.keys), c)) # {}}

\* The items that the whole read asks for.
asked ==
  {i \in Items : (filtered(request) /\ request.keys # <<>>)
                   => KeysOf[i] \cap Range(request.keys) # {}}

\* get_policies_by_ids([]) asks for nothing.
no_request(r) == r.kind = "policies" /\ r.keys = <<>>

----------------------------------------------------------------------------
PagesInit ==
  /\ items \in SUBSET Items
  /\ request \in Requests
  /\ honest \in BOOLEAN
  /\ ~honest => request.kind = "services" /\ items = {}
  /\ phase = [c \in Chunks |-> IF no_request(request) THEN "done" ELSE "fetch"]
  /\ cursor = [c \in Chunks |-> None]
  /\ expected = [c \in Chunks |-> -1]
  /\ seen = [c \in Chunks |-> {}]
  /\ got = [c \in Chunks |-> {}]
  /\ length = [c \in Chunks |-> 0]
  /\ stable = items
  /\ ever = items
  /\ edits = 0

\* The page the controller has after a cursor.
honest_page(c) ==
  LET later == {i \in items \cap selected(c) : i > cursor[c]}
      data == {i \in later : Cardinality({k \in later : k < i}) < PageSize}
  IN  [data |-> data, total |-> Cardinality(items \cap selected(c)),
       next |-> IF data = later THEN None ELSE Max(data)]

\* Any page; of what is not honest, only the number of items counts.  Its cursor is
\* one of a few that may come again, or a fresh one.
Pages == [data: {1 .. n : n \in 0 .. MaxItem}, total: 0 .. MaxItem, next: Cursors]

\* Mutant of keep_on: a cursor may come twice.
keep_on_always(c, page) == TRUE

\* The next cursor was not seen before.
keep_on(c, page) == page.next \notin seen[c]

\* meta.next_page is passed on as it is.
cursor_of(page) == page.next

\* One page of the loop of _fetch_all_services, _fetch_all_addr_objects and
\* _fetch_all_policies: every early return is an exception.
FetchPage(c, page) ==
  /\ request.kind # "limited"
  /\ phase[c] = "fetch"
  /\ LET total == IF expected[c] = -1 THEN page.total ELSE expected[c]
         len == length[c] + Cardinality(page.data)
         end == IF page.total # total THEN "failed"
                ELSE IF page.next = None THEN IF len = total THEN "done" ELSE "failed"
                ELSE IF keep_on(c, page) THEN "fetch"
                ELSE "failed"
     IN  /\ expected' = [expected EXCEPT ![c] = total]
         /\ got' = [got EXCEPT ![c] = @ \cup page.data]
         /\ length' = [length EXCEPT ![c] = Min({len, MaxItem + 1})]
         /\ seen' = [seen EXCEPT ![c] = @ \cup ({page.next} \ Fresh)]
         /\ cursor' = [cursor EXCEPT ![c] = cursor_of(page)]
         /\ phase' = [phase EXCEPT ![c] = end]
  /\ UNCHANGED <<items, honest, request, stable, ever, edits>>

\* The first n items of the collection.
first(n) == {i \in items : Cardinality({k \in items : k < i}) < n}

\* The total is larger than what was sent.
more(total, len) == total > len

\* _fetch_all_zones and _fetch_all_networks: the second request asks for as many
\* as the first one counted, and takes what it gets.
FetchLimited ==
  /\ request.kind = "limited" /\ honest
  /\ phase[1] \in {"fetch", "again"}
  /\ LET limit == IF phase[1] = "fetch" THEN DefaultLimit ELSE expected[1]
         total == Cardinality(items)
     IN  /\ got' = [got EXCEPT ![1] = first(limit)]
         /\ length' = [length EXCEPT ![1] = Cardinality(first(limit))]
         /\ expected' = [expected EXCEPT ![1] = total]
         /\ phase' = [phase EXCEPT ![1] = IF phase[1] = "fetch" /\ more(total, Cardinality(first(limit)))
                                    THEN "again" ELSE "done"]
  /\ UNCHANGED <<items, honest, request, cursor, seen, stable, ever, edits>>

\* Somebody adds or removes an item meanwhile.
Edit(i) ==
  /\ honest /\ edits < MaxEdits
  /\ edits' = edits + 1
  /\ items' = IF i \in items THEN items \ {i} ELSE items \cup {i}
  /\ stable' = stable \ {i}
  /\ ever' = ever \cup {i}
  /\ UNCHANGED <<honest, request, phase, chunkVars>>

FetchHonest == honest /\ \E c \in Chunks : \E page \in {honest_page(c)} : FetchPage(c, page)

FetchAny ==
  ~honest /\ \E c \in Chunks, page \in Pages :
    (page.next \in Fresh => page.next # cursor[c]) /\ FetchPage(c, page)

PagesNext == FetchHonest \/ FetchAny \/ FetchLimited \/ \E i \in Items : Edit(i)

PagesSpec == PagesInit /\ [][PagesNext]_pagesVars

\* Every request is answered or times out.  This is assumed where any answer may
\* come, the honest ones among them.
PagesFairSpec == PagesSpec /\ WF_pagesVars(FetchAny)

----------------------------------------------------------------------------
\* gather waits for all chunks; the lists are merged.
Merged == \A c \in Chunks : phase[c] = "done"

merged == UNION {got[c] : c \in Chunks}

\* Every variable has its type.
PagesTypeOK ==
  /\ items \subseteq Items
  /\ request \in Requests
  /\ honest \in BOOLEAN
  /\ phase \in [Chunks -> {"fetch", "again", "done", "failed"}]
  /\ cursor \in [Chunks -> Cursors]
  /\ expected \in [Chunks -> -1 .. MaxItem]
  /\ seen \in [Chunks -> SUBSET ({None} \cup Items)]
  /\ got \in [Chunks -> SUBSET Items]
  /\ length \in [Chunks -> 0 .. MaxItem + 1]
  /\ stable \subseteq items /\ items \subseteq ever /\ ever \subseteq Items
  /\ edits \in 0 .. MaxEdits

\* However the collection changes while it is read, a paged read that is
\* accepted has every asked item that was there all the time, and nothing that
\* never was.
StableItemsRead ==
  (honest /\ Merged /\ request.kind # "limited" /\ ~no_request(request))
    => (stable \cap asked) \subseteq merged /\ merged \subseteq (ever \cap asked)

\* Whatever the controller answers, the loop over its cursors ends, unless the
\* controller goes on for ever giving cursors it never gave before: "while True" of
\* _fetch_all_services asks for a further page as long as the cursor is new.
FetchEnds ==
  ~honest => \/ <>(\A c \in Chunks : phase[c] \in {"done", "failed"})
             \/ []<>(\E c \in Chunks : cursor[c] \in Fresh)

=============================================================================
