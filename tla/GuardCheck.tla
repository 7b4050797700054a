----------------------------- MODULE GuardCheck -----------------------------
(***************************************************************************)
(* One DomainGuard object (domain_guard/core.py) called by several worker  *)
(* threads: the cache lookup, the layer pipeline, the store and the two    *)
(* observers the sidecar attaches (metrics, then the decision log).        *)
(*                                                                         *)
(* Threads interleave wherever the code holds no lock: between the clock   *)
(* reading in cache.get and its lock, between any two layers, between      *)
(* cache.set and each observer.                                            *)
(***************************************************************************)
EXTENDS Layers, LRUCache, FiniteSets

CONSTANTS
    Workers,        \* threads of the server's pool
    Guards,         \* guard configurations; one is picked at construction
    Calls,          \* the requests the workers may be given
    LogSize,        \* DecisionLog(max_entries)
    MaxChecks,      \* bound: number of checks begun
    MaxClock        \* bound: ticks of time.time()

ASSUME GuardsAssumption ==
    \A g \in Guards : /\ g.mode \in {"enforce", "shadow"}
                      /\ g.caching \in BOOLEAN
                      /\ g.pipeline \in Seq(LayerTypes)

ASSUME WorkersAssumption == IsFiniteSet(Workers)

ASSUME CallsAssumption == Calls \subseteq Requests

ASSUME LogAssumption == LogSize \in Nat \ {0}

VARIABLES
    guard,      \* the configuration the object was built from
    clock,      \* time.time()
    cache,      \* LRUResultCache._store
    hits,       \* LRUResultCache._hits
    misses,     \* LRUResultCache._misses
    checks,     \* checks_total counter of MetricsCollector, by cache_hit
    log,        \* DecisionLog._buf, oldest first
    pc,         \* where each worker is in check()
    req,        \* its request
    now,        \* the clock it read at the start of cache.get
    at,         \* the layer it evaluates next
    res,        \* its result
    begun,      \* history: checks begun
    raised,     \* history: checks that ended in an exception
    storedAt    \* history: when each key was last written by cache.set

vars == <<guard, clock, cache, hits, misses, checks, log, pc, req, now, at,
          res, begun, raised, storedAt>>

-----------------------------------------------------------------------------
(* The cache key: guard name (fixed here), stripped message, and the two   *)
(* state fields of _STATE_FIELDS_FOR_SIG.  The digests are taken to be     *)
(* free of collisions.                                                     *)
SigFields == {"intent", "stage"}

\* Mutant of StateSignature: the intent is left out of the key.
StageSignature(state) ==
    IF state = None THEN None ELSE [f \in {"stage"} |-> Lookup(state, f)]

StateSignature(state) ==
    IF state = None THEN None
    ELSE [f \in SigFields |-> Lookup(state, f)]

\* "" is the signature of no truthy state.
ASSUME SignatureAssumption == \A s \in States : StateSignature(s) # None

Key(r) == <<Strip[r.msg], StateSignature(r.state)>>

Keys == {Key(r) : r \in Requests}

(* GuardResult, reduced to what callers branch on.  `for` is history: the  *)
(* request the pipeline was run on.                                        *)
Result(g, passed, layer, r) ==
    IF ~passed /\ g.mode = "shadow"
    THEN [passed |-> TRUE, layer |-> layer, shadow |-> TRUE,
          fallback |-> FALSE, hit |-> FALSE, for |-> r]
    ELSE [passed |-> passed, layer |-> layer, shadow |-> FALSE,
          fallback |-> ~passed, hit |-> FALSE, for |-> r]

AllDeferred(r) ==
    [passed |-> FALSE, layer |-> None, shadow |-> FALSE,
     fallback |-> TRUE, hit |-> FALSE, for |-> r]

Results == [passed : BOOLEAN, layer : LayerTypes \cup {None},
            shadow : BOOLEAN, fallback : BOOLEAN, hit : BOOLEAN,
            for : Requests]

-----------------------------------------------------------------------------
NoCall == [w \in Workers |-> None]

Init ==
    /\ guard \in Guards
    /\ clock = 0
    /\ cache = EmptyCache(Keys)
    /\ hits = 0 /\ misses = 0
    /\ checks = [hit \in BOOLEAN |-> 0]
    /\ log = <<>>
    /\ pc = [w \in Workers |-> "idle"]
    /\ req = NoCall
    /\ now = [w \in Workers |-> 0]
    /\ at = [w \in Workers |-> 1]
    /\ res = NoCall
    /\ begun = 0
    /\ raised = 0
    /\ storedAt = [k \in Keys |-> None]

(* check() starts; cache.get reads the clock.  Without a cache the         *)
(* pipeline starts at once.                                                *)
Begin(w, r) ==
    /\ pc[w] = "idle"
    /\ begun < MaxChecks
    /\ begun' = begun + 1
    /\ req' = [req EXCEPT ![w] = r]
    /\ now' = [now EXCEPT ![w] = clock]
    /\ pc' = [pc EXCEPT ![w] = IF guard.caching THEN "get" ELSE "layers"]
    /\ UNCHANGED <<guard, clock, cache, hits, misses, checks, log, at, res,
                   raised, storedAt>>

(* The copy of a cached result that a hit returns, marked as a hit. *)
\* Mutant of Served: the cached object is returned as it is.
ServedUnmarked(result) == result

Served(result) == [result EXCEPT !.hit = TRUE]

(* The locked part of cache.get. *)
CacheHit(w) ==
    /\ pc[w] = "get"
    /\ Hit(cache, Key(req[w]), now[w])
    /\ cache' = AfterGet(cache, Key(req[w]), now[w])
    /\ hits' = hits + 1
    /\ res' = [res EXCEPT ![w] = Served(cache.entry[Key(req[w])].value)]
    /\ pc' = [pc EXCEPT ![w] = "metrics"]
    /\ UNCHANGED <<guard, clock, misses, checks, log, req, now, at, begun,
                   raised, storedAt>>

CacheMiss(w) ==
    /\ pc[w] = "get"
    /\ ~Hit(cache, Key(req[w]), now[w])
    /\ cache' = AfterGet(cache, Key(req[w]), now[w])
    /\ misses' = misses + 1
    /\ pc' = [pc EXCEPT ![w] = "layers"]
    /\ UNCHANGED <<guard, clock, hits, checks, log, req, now, at, res, begun,
                   raised, storedAt>>

(* The loop over the layers: it is not over, and it goes on to the next. *)
LayersLeft(w) == at[w] <= Len(guard.pipeline)

\* Mutant of NextLayer: a layer that defers is asked again.
SameLayer(i) == i

NextLayer(i) == i + 1

Conclude(w, result) ==
    /\ res' = [res EXCEPT ![w] = result]
    /\ pc' = [pc EXCEPT ![w] = IF guard.caching THEN "set" ELSE "metrics"]
    /\ UNCHANGED <<guard, clock, cache, hits, misses, checks, log, req, now,
                   at, begun, raised, storedAt>>

Decide(w) ==
    /\ pc[w] = "layers"
    /\ LayersLeft(w)
    /\ LET layer == guard.pipeline[at[w]]
           outcomes == Outcomes(guard, layer, req[w])
       IN  \/ /\ "pass" \in outcomes
              /\ Conclude(w, Result(guard, TRUE, layer, req[w]))
           \/ /\ "block" \in outcomes
              /\ Conclude(w, Result(guard, FALSE, layer, req[w]))
           \/ /\ "defer" \in outcomes
              /\ at' = [at EXCEPT ![w] = NextLayer(at[w])]
              /\ UNCHANGED <<guard, clock, cache, hits, misses, checks, log,
                             pc, req, now, res, begun, raised, storedAt>>

(* The embedding provider raises: the exception leaves check(); nothing is *)
(* stored and no observer runs.                                            *)
LayerRaises(w) ==
    /\ pc[w] = "layers"
    /\ LayersLeft(w)
    /\ "raise" \in Outcomes(guard, guard.pipeline[at[w]], req[w])
    /\ raised' = raised + 1
    /\ pc' = [pc EXCEPT ![w] = "idle"]
    /\ req' = [req EXCEPT ![w] = None]
    /\ at' = [at EXCEPT ![w] = 1]
    /\ now' = [now EXCEPT ![w] = 0]
    /\ UNCHANGED <<guard, clock, cache, hits, misses, checks, log, res, begun,
                   storedAt>>

(* The loop ends without a verdict: fail closed. *)
FailClosed(w) ==
    /\ pc[w] = "layers"
    /\ ~LayersLeft(w)
    /\ Conclude(w, AllDeferred(req[w]))

(* _store_and_emit: cache.set, then _notify.  set() reads the clock under  *)
(* its lock, however long ago the check began.                             *)
\* Mutant of StoreTime: the reading of the lookup is reused.
LookupTime(w) == now[w]

StoreTime(w) == clock

CacheSet(w) ==
    /\ pc[w] = "set"
    /\ cache' = AfterSet(cache, Key(req[w]), res[w], StoreTime(w))
    /\ storedAt' = [storedAt EXCEPT ![Key(req[w])] = clock]
    /\ pc' = [pc EXCEPT ![w] = "metrics"]
    /\ UNCHANGED <<guard, clock, hits, misses, checks, log, req, now, at, res,
                   begun, raised>>

NotifyMetrics(w) ==
    /\ pc[w] = "metrics"
    /\ checks' = [checks EXCEPT ![res[w].hit] = @ + 1]
    /\ pc' = [pc EXCEPT ![w] = "log"]
    /\ UNCHANGED <<guard, clock, cache, hits, misses, log, req, now, at, res,
                   begun, raised, storedAt>>

(* DecisionLog.record: append to a deque(maxlen). *)
\* Mutant of Record: a deque without maxlen.
RecordUnbounded(buf, entry) == Append(buf, entry)

Record(buf, entry) ==
    IF Len(buf) < LogSize THEN Append(buf, entry) ELSE Append(Tail(buf), entry)

(* The last observer; check() returns. *)
NotifyLog(w) ==
    /\ pc[w] = "log"
    /\ log' = Record(log, [key |-> Key(req[w]), passed |-> res[w].passed,
                           hit |-> res[w].hit])
    /\ pc' = [pc EXCEPT ![w] = "idle"]
    /\ req' = [req EXCEPT ![w] = None]
    /\ now' = [now EXCEPT ![w] = 0]
    /\ at' = [at EXCEPT ![w] = 1]
    /\ res' = [res EXCEPT ![w] = None]
    /\ UNCHANGED <<guard, clock, cache, hits, misses, checks, begun, raised,
                   storedAt>>

Tick ==
    /\ clock < MaxClock
    /\ clock' = clock + 1
    /\ UNCHANGED <<guard, cache, hits, misses, checks, log, pc, req, now, at,
                   res, begun, raised, storedAt>>

Step(w) ==
    \/ CacheHit(w) \/ CacheMiss(w)
    \/ Decide(w) \/ LayerRaises(w) \/ FailClosed(w)
    \/ CacheSet(w) \/ NotifyMetrics(w) \/ NotifyLog(w)

(* Both bounds reached and every thread idle; any other state without a    *)
(* step would be a deadlock.                                               *)
Finished ==
    /\ \A w \in Workers : pc[w] = "idle"
    /\ begun = MaxChecks /\ clock = MaxClock
    /\ UNCHANGED vars

Next ==
    \/ Tick
    \/ \E w \in Workers : Step(w) \/ \E r \in Calls : Begin(w, r)
    \/ Finished

Spec == Init /\ [][Next]_vars

-----------------------------------------------------------------------------
(* Every variable but the cache's order; TypeOK adds the order. *)
ValueTypes ==
    /\ guard \in Guards
    /\ clock \in Nat
    /\ cache = [entry |-> cache.entry, order |-> cache.order]
    /\ cache.entry \in [Keys -> {Absent} \cup [ts : Nat, value : Results]]
    /\ hits \in Nat /\ misses \in Nat /\ begun \in Nat /\ raised \in Nat
    /\ checks \in [BOOLEAN -> Nat]
    /\ log \in Seq([key : Keys, passed : BOOLEAN, hit : BOOLEAN])
    /\ Len(log) <= LogSize
    /\ pc \in [Workers -> {"idle", "get", "layers", "set", "metrics", "log"}]
    /\ req \in [Workers -> Requests \cup {None}]
    /\ now \in [Workers -> Nat]
    /\ at \in [Workers -> Nat \ {0}]
    /\ res \in [Workers -> Results \cup {None}]
    /\ storedAt \in [Keys -> Nat \cup {None}]

TypeOK == ValueTypes /\ cache.order \in Seq(Keys)

(* What the documentation promises of the pipeline, said without a loop:   *)
(* a layer decides when it answers and every layer above it defers.        *)
Decided(g, x, r) ==
    \E i \in DOMAIN g.pipeline, v \in {"pass", "block"} :
        /\ Reached(g, i, r)
        /\ v \in Answers(g, i, r)
        /\ x.layer = g.pipeline[i]
        /\ x.passed <=> (v = "pass" \/ g.mode = "shadow")
        /\ x.shadow <=> (v = "block" /\ g.mode = "shadow")

Undecided(g, x, r) ==
    /\ Reached(g, Len(g.pipeline) + 1, r)
    /\ x.layer = None /\ ~x.passed /\ ~x.shadow

VerdictOK(g, x, r) ==
    /\ Decided(g, x, r) \/ Undecided(g, x, r)
    /\ x.fallback <=> ~x.passed

(* Whatever thread asks, and whether the pipeline ran or another request's *)
(* cached result was served, the result is one the pipeline could give for *)
(* THIS request: core.py:114-166 with the key of cache.py:35-39.           *)
VerdictSound ==
    \A w \in Workers :
        pc[w] \in {"set", "metrics", "log"} => VerdictOK(guard, res[w], req[w])

(* The three places that count checks agree at every moment: each lookup   *)
(* of the cache ends up once in the metrics, under the right cache_hit     *)
(* label, and once in the decision log, unless a layer raised; the only    *)
(* differences are the threads between two of the steps.                   *)
InFlight(states, hit) ==
    Cardinality({w \in Workers : /\ pc[w] \in states
                                 /\ (pc[w] # "layers" /\ res[w].hit) = hit})

Accounting ==
    /\ guard.caching =>
          /\ hits = checks[TRUE] + InFlight({"metrics"}, TRUE)
          /\ misses = checks[FALSE] + raised
                         + InFlight({"layers", "set", "metrics"}, FALSE)
    /\ LET answered == checks[TRUE] + checks[FALSE]
                          - InFlight({"log"}, TRUE) - InFlight({"log"}, FALSE)
       IN  Len(log) = IF answered < LogSize THEN answered ELSE LogSize

(* A hit never serves a result stored more than TTL before the lookup      *)
(* began, however often it was served in between: a hit refreshes an       *)
(* entry's recency, not its age (cache.py:66-80).  So the block a passing  *)
(* LLM outage leaves in the cache does not outlive the TTL.                *)
HitsAreFresh ==
    [][\A w \in Workers :
          (pc[w] = "get" /\ pc'[w] = "metrics")
              => now[w] - storedAt[Key(req[w])] <= TTL]_vars

(* The time stamp of a cached key never moves back, in whatever order slow *)
(* threads store their results (cache.py:82-87).                           *)
StampsAdvance ==
    [][\A k \in Keys :
          (cache.entry[k] # Absent /\ cache'.entry[k] # Absent)
              => cache.entry[k].ts <= cache'.entry[k].ts]_vars

-----------------------------------------------------------------------------
(* A statement of the documentation that the code does not meet:           *)
(* core.py:193, "In shadow mode, never actually block". *)
ShadowNeverBlocks ==
    guard.mode = "shadow" =>
        \A w \in Workers : pc[w] = "log" => res[w].passed
=============================================================================
