---------------------------- MODULE CacheThreads ----------------------------
(***************************************************************************)
(* LRUResultCache used by several threads at once, apart from the guard    *)
(* that owns it: any mix of get() and set() on any keys.  This is where    *)
(* the cache's own promises are checked: its size, the order in which it   *)
(* forgets, and that it implements ResultCache.                            *)
(***************************************************************************)
EXTENDS LRUCache, FiniteSets

CONSTANTS
    Threads,
    Keys,
    Values,
    MaxOps,         \* bound: calls of get() and set()
    MaxClock        \* bound: ticks of time.time()

ASSUME AbsentAssumption ==
    /\ Absent \notin [ts : Nat, value : Values]
    /\ Absent \notin Keys

VARIABLES
    clock,      \* time.time()
    cache,      \* _store
    hits,       \* _hits
    misses,     \* _misses
    reading,    \* the get() of each thread, between clock reading and lock
    answer,     \* what each thread's last get() returned
    latest,     \* history: the value of the last set() of each key
    touched,    \* history: keys in the order they were last touched
    ops         \* history: calls begun

vars == <<clock, cache, hits, misses, reading, answer, latest, touched, ops>>

Idle == [key |-> Absent, now |-> 0]

Init ==
    /\ clock = 0
    /\ cache = EmptyCache(Keys)
    /\ hits = 0 /\ misses = 0
    /\ reading = [t \in Threads |-> Idle]
    /\ answer = [t \in Threads |-> Absent]
    /\ latest = [k \in Keys |-> Absent]
    /\ touched = <<>>
    /\ ops = 0

(* get(k) reads the clock. *)
BeginGet(t, k) ==
    /\ reading[t] = Idle
    /\ ops < MaxOps
    /\ ops' = ops + 1
    /\ reading' = [reading EXCEPT ![t] = [key |-> k, now |-> clock]]
    /\ UNCHANGED <<clock, cache, hits, misses, answer, latest, touched>>

(* The locked part of get(). *)
EndGet(t) ==
    LET k == reading[t].key
        n == reading[t].now
    IN  /\ reading[t] # Idle
        /\ cache' = AfterGet(cache, k, n)
        /\ IF Hit(cache, k, n)
           THEN /\ answer' = [answer EXCEPT ![t] = cache.entry[k].value]
                /\ touched' = MoveToEnd(touched, k)
                /\ hits' = hits + 1
                /\ UNCHANGED misses
           ELSE /\ answer' = [answer EXCEPT ![t] = Absent]
                /\ touched' = IF k \in Cached(cache) THEN Without(touched, k)
                                                     ELSE touched
                /\ misses' = misses + 1
                /\ UNCHANGED hits
        /\ reading' = [reading EXCEPT ![t] = Idle]
        /\ UNCHANGED <<clock, latest, ops>>

(* set(k, v) does all of its work under the lock. *)
Set(t, k, v) ==
    /\ reading[t] = Idle
    /\ ops < MaxOps
    /\ ops' = ops + 1
    /\ cache' = AfterSet(cache, k, v, clock)
    /\ latest' = [latest EXCEPT ![k] = v]
    /\ touched' = MoveToEnd(touched, k)
    /\ UNCHANGED <<clock, hits, misses, reading, answer>>

Tick ==
    /\ clock < MaxClock
    /\ clock' = clock + 1
    /\ UNCHANGED <<cache, hits, misses, reading, answer, latest, touched, ops>>

(* Both bounds reached and no get() in progress. *)
Finished ==
    /\ ops = MaxOps /\ clock = MaxClock
    /\ \A t \in Threads : reading[t] = Idle
    /\ UNCHANGED vars

Next ==
    \/ Tick
    \/ \E t \in Threads :
          \/ \E k \in Keys : BeginGet(t, k) \/ \E v \in Values : Set(t, k, v)
          \/ EndGet(t)
    \/ Finished

Spec == Init /\ [][Next]_vars

-----------------------------------------------------------------------------
(* The dict and its order are one thing: the ordered keys are the cached   *)
(* keys, each once, and never more than max_size (cache.py:55-87).         *)
Shape ==
    /\ Cached(cache) = {cache.order[i] : i \in DOMAIN cache.order}
    /\ Cardinality(Cached(cache)) = Len(cache.order)
    /\ Len(cache.order) <= MaxSize

(* "LRU": what is cached is what was touched last, by a set() or by a hit: *)
(* the order is a suffix of the order in which keys that did not expire    *)
(* were touched, so an eviction never takes a key and spares one that was  *)
(* touched before it (cache.py:78, 85-87).                                 *)
ForgetsOldest == IsSuffix(cache.order, touched)

(* Nothing is forgotten early: an entry goes when it is older than the TTL *)
(* or when max_size other keys are cached (cache.py:74-76, 86).            *)
KeepsWhatFits ==
    [][\A k \in Cached(cache) :
          k \notin Cached(cache') =>
              \/ clock - cache.entry[k].ts > TTL
              \/ Cardinality(Cached(cache')) = MaxSize]_vars

(* The key each thread's get() was called with; Idle's is Absent. *)
Asked == [t \in Threads |-> reading[t].key]

Abstract == INSTANCE ResultCache WITH asked <- Asked

(* LRUResultCache implements ResultCache: a get(), whenever its thread got *)
(* the lock, returns nothing or the latest value of the key it was called  *)
(* with (cache.py:66-88).                                                  *)
ImplementsResultCache == Abstract!Spec
=============================================================================
