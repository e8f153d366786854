---------------------------- MODULE RuntimeCache ----------------------------
(***************************************************************************)
(* One namespace of InMemoryTTLStore: a cachetools TTLCache of entries     *)
(* with an expiry time, bounded in size, that evicts the least recently    *)
(* used entry.  Namespaces have separate caches and share nothing.         *)
(*                                                                         *)
(* Every operation runs under the store's lock and is atomic; no time      *)
(* passes within one.  Expired entries stay in memory until the next       *)
(* operation on the namespace removes them.                                *)
(***************************************************************************)
EXTENDS Integers, FiniteSets

CONSTANTS
  Keys, Values,
  None,         \* no entry
  TTL,          \* ttl_seconds, in clock ticks
  MaxEntries,   \* max_entries of a namespace
  MaxTime       \* bound: how far the clock runs

ASSUME CacheAssumption ==
  /\ IsFiniteSet(Keys)
  /\ TTL \in Nat \ {0}
  /\ MaxEntries \in Nat \ {0}
  /\ MaxTime \in Nat
  /\ None \notin Values

VARIABLES
  value,     \* the data of each key in memory, or None
  expires,   \* when the entry expires
  older,     \* pairs <<a, b>>: b was used after the last use of a
  now,       \* the clock
  reply,     \* what the last caller was answered, as a set
  deadline   \* bookkeeping: end of the lifetime the last write of the key began

vars == <<value, expires, older, now, reply, deadline>>

Stored == {k \in Keys : value[k] # None}

----------------------------------------------------------------------------
\* Mutant of unexpired: off by one, an entry outlives its expiry time.
unexpired_late(k) == value[k] # None /\ now <= expires[k]

\* TTLCache keeps an entry while the clock is before its expiry time.
unexpired(k) == value[k] # None /\ now < expires[k]

\* _get_cache: cache.expire() drops what has expired before every operation.
expire == [k \in Keys |-> IF unexpired(k) THEN value[k] ELSE None]

\* Mutant of is_lru: the most recently used entry is evicted.
is_mru(c, k) == c[k] # None /\ \A a \in Keys : c[a] # None => <<k, a>> \notin older

\* TTLCache.popitem removes the entry whose last use is the oldest.
is_lru(c, k) == c[k] # None /\ \A a \in Keys : c[a] # None => <<a, k>> \notin older

full(c) == Cardinality({k \in Keys : c[k] # None}) >= MaxEntries

\* cache[k] = v on cache c: a new key in a full cache evicts first.
store(c, k, v) ==
  [x \in Keys |-> IF x = k THEN v
                  ELSE IF c[k] = None /\ full(c) /\ is_lru(c, x) THEN None
                  ELSE c[x]]

\* Every hit and every write makes the key the most recently used one.
use(k) == older' = {q \in older : q[1] # k /\ q[2] # k} \cup {<<a, k>> : a \in Keys \ {k}}

\* _build_entry: expires_at.
expiry == now + TTL

\* A write (re)starts the lifetime of an entry.
write(c, k, v) ==
  /\ value' = store(c, k, v)
  /\ expires' = [expires EXCEPT ![k] = expiry]
  /\ deadline' = [deadline EXCEPT ![k] = now + TTL]
  /\ use(k)

----------------------------------------------------------------------------
Init ==
  /\ value = [k \in Keys |-> None]
  /\ expires = [k \in Keys |-> 0]
  /\ older = {}
  /\ now = 0
  /\ reply = {}
  /\ deadline = [k \in Keys |-> 0]

\* A miss only expires.
Miss(k) ==
  /\ ~unexpired(k)
  /\ value' = expire
  /\ reply' = {}
  /\ UNCHANGED <<expires, older, now, deadline>>

\* get(touch=True) rewrites the data it found.
GetTouch(k) ==
  /\ unexpired(k)
  /\ write(expire, k, value[k])
  /\ reply' = {value[k]}
  /\ UNCHANGED now

\* get(touch=False): a use, but no new lifetime.
GetOnly(k) ==
  /\ unexpired(k)
  /\ value' = expire
  /\ use(k)
  /\ reply' = {value[k]}
  /\ UNCHANGED <<expires, now, deadline>>

SetValue(k, v) ==
  /\ write(expire, k, v)
  /\ reply' = {}
  /\ UNCHANGED now

DeleteKey(k) ==
  /\ value' = [expire EXCEPT ![k] = None]
  /\ deadline' = [deadline EXCEPT ![k] = 0]
  /\ UNCHANGED <<expires, older, now, reply>>

TouchKey(k) ==
  /\ unexpired(k)
  /\ write(expire, k, value[k])
  /\ reply' = {k}
  /\ UNCHANGED now

\* get_meta reads through cache.get: the entry counts as used.
GetMeta(k) ==
  /\ value' = expire
  /\ IF unexpired(k) THEN use(k) ELSE UNCHANGED older
  /\ UNCHANGED <<expires, now, reply, deadline>>

ListKeys ==
  /\ value' = expire
  /\ reply' = {k \in Keys : unexpired(k)}
  /\ UNCHANGED <<expires, older, now, deadline>>

Tick ==
  /\ now < MaxTime
  /\ now' = now + 1
  /\ UNCHANGED <<value, expires, older, reply, deadline>>

\* The process restarts with an empty store.
Restart ==
  /\ value' = [k \in Keys |-> None]
  /\ older' = {}
  /\ deadline' = [k \in Keys |-> 0]
  /\ UNCHANGED <<expires, now, reply>>

Next ==
  \/ \E k \in Keys : \/ Miss(k) \/ GetTouch(k) \/ GetOnly(k) \/ DeleteKey(k)
                     \/ TouchKey(k) \/ GetMeta(k)
                     \/ \E v \in Values : SetValue(k, v)
  \/ ListKeys \/ Tick \/ Restart

Spec == Init /\ [][Next]_vars

----------------------------------------------------------------------------
\* Every variable has its type.
TypeOK ==
  /\ value \in [Keys -> Values \cup {None}]
  /\ expires \in [Keys -> Nat]
  /\ older \subseteq Keys \X Keys
  /\ now \in 0 .. MaxTime
  /\ reply \subseteq Values \cup Keys
  /\ deadline \in [Keys -> Nat]

\* "max_entries": no sequence of operations makes the namespace grow past its
\* bound, although expired entries linger until the next operation.
SizeBounded == Cardinality(Stored) <= MaxEntries

\* An entry written less than TTL ago is still there unless at least MaxEntries
\* other keys were used since its own last use: what mapping and execute need
\* of the store to keep the scope and the plan of a running job.
WorkingSetKept ==
  \A k \in Keys :
    (now < deadline[k] /\ Cardinality({b \in Keys : <<k, b>> \in older}) < MaxEntries)
      => value[k] # None /\ now < expires[k]

\* What a caller can see: entries past their expiry time are not there.
Visible == [k \in Keys |-> IF value[k] # None /\ now < expires[k] THEN value[k] ELSE None]

Abstract == INSTANCE LossyMap WITH m <- Visible

\* The store is a map that only loses entries: no expired, evicted or deleted
\* value is answered again, and every answer is the value stored last.
IsLossyMap == Abstract!Spec

============================================================================
