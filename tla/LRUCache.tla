------------------------------ MODULE LRUCache ------------------------------
(***************************************************************************)
(* LRUResultCache (domain_guard/cache.py): an OrderedDict with a TTL.      *)
(* Each method runs under the cache's lock and is one operator on the      *)
(* whole cache; the clock reading get() takes BEFORE the lock is an        *)
(* argument, since other threads may run between the two.                  *)
(*                                                                         *)
(* A cache is [entry, order]: entry[k] is Absent or [ts, value], and order *)
(* holds the cached keys, least recently touched first.                    *)
(***************************************************************************)
EXTENDS Integers, SequencesExt

CONSTANTS MaxSize, TTL, Absent

ASSUME CacheAssumption == MaxSize \in Nat \ {0} /\ TTL \in Nat

EmptyCache(Keys) == [entry |-> [k \in Keys |-> Absent], order |-> <<>>]

Without(order, k) == RemoveFirst(order, k)

MoveToEnd(order, k) == Append(Without(order, k), k)

Cached(cache) == {k \in DOMAIN cache.entry : cache.entry[k] # Absent}

Expired(cache, k, now) == now - cache.entry[k].ts > TTL

Hit(cache, k, now) == k \in Cached(cache) /\ ~Expired(cache, k, now)

(* The cache get(k) leaves: a hit is touched, an expired entry deleted. *)
\* Mutant of AfterGet: a hit renews the time stamp as well.
AfterGetRenewed(cache, k, now) ==
    IF Hit(cache, k, now)
    THEN [entry |-> [cache.entry EXCEPT ![k].ts = now],
          order |-> MoveToEnd(cache.order, k)]
    ELSE cache

\* Mutant of AfterGet: first in, first out; a hit moves nothing.
AfterGetFifo(cache, k, now) == cache

AfterGet(cache, k, now) ==
    CASE Hit(cache, k, now) ->
            [cache EXCEPT !.order = MoveToEnd(cache.order, k)]
      [] ~Hit(cache, k, now) /\ k \in Cached(cache) ->
            [entry |-> [cache.entry EXCEPT ![k] = Absent],
             order |-> Without(cache.order, k)]
      [] OTHER -> cache

(* How often `while len(self._store) > self.max_size` runs. *)
\* Mutant of Excess: `>=` for `>`, one entry too many is removed.
ExcessEarly(order) ==
    IF Len(order) >= MaxSize THEN Len(order) - MaxSize + 1 ELSE 0

\* Mutant of Excess: the size is compared before the new entry is stored.
ExcessLate(order) ==
    IF Len(order) > MaxSize THEN Len(order) - MaxSize - 1 ELSE 0

Excess(order) == IF Len(order) > MaxSize THEN Len(order) - MaxSize ELSE 0

(* The keys popitem(last=False) removes, and those it leaves. *)
Evicted(order) == {order[i] : i \in 1 .. Excess(order)}

Trim(order) == SubSeq(order, Excess(order) + 1, Len(order))

(* The cache set(k, value) leaves; now is read under the lock. *)
\* Mutant of AfterSet: setdefault(), a cached key keeps its value.
AfterSetDefault(cache, k, value, now) ==
    IF k \in Cached(cache)
    THEN [cache EXCEPT !.order = MoveToEnd(cache.order, k)]
    ELSE [entry |-> [cache.entry EXCEPT ![k] = [ts |-> now, value |-> value]],
          order |-> Trim(Append(cache.order, k))]

AfterSet(cache, k, value, now) ==
    LET order == MoveToEnd(cache.order, k)
    IN  [entry |-> [j \in DOMAIN cache.entry |->
                       CASE j \in Evicted(order) -> Absent
                         [] j = k /\ j \notin Evicted(order) ->
                               [ts |-> now, value |-> value]
                         [] OTHER -> cache.entry[j]],
         order |-> Trim(order)]
=============================================================================
