----------------------------- MODULE RedisCache -----------------------------
(***************************************************************************)
(* DomainGuard.check over a RedisResultCache (domain_guard/cache.py): the  *)
(* workers of several processes share one Redis.  A process may be         *)
(* restarted with another version of the guard's configuration and code,   *)
(* while Redis keeps what the old one wrote; the guard's name is part of   *)
(* the key, its configuration is not.                                      *)
(*                                                                         *)
(* A verdict stands for the version whose pipeline reached it.  What       *)
(* set() leaves out of the payload (debug) no reader of this code looks    *)
(* at.  Reading says what a version's get() makes of another's payload.    *)
(***************************************************************************)
EXTENDS RedisServer, FiniteSets

CONSTANTS
    Processes,
    Workers,
    Home,           \* the process of each worker
    Keys,
    Versions,       \* versions of configuration and code
    Reading,        \* what each version makes of the payloads of each
    TTL,            \* ttl_seconds
    MaxChecks,      \* bound: checks begun
    MaxRestarts,    \* bound: restarts
    MaxClock        \* bound: ticks of Redis's clock

(* A GuardResult; JSON that no GuardResult takes; or no JSON. *)
Readings == {"result", "fields", "bytes"}

ASSUME RedisCacheAssumption ==
    /\ IsFiniteSet(Workers) /\ Home \in [Workers -> Processes]
    /\ Reading \in [Versions -> [Versions -> Readings]]
    /\ TTL \in Nat \ {0}
    /\ Nil \notin Versions \cup Keys

VARIABLES
    clock,      \* Redis's clock
    db,         \* Redis: the entry of each key
    version,    \* what each process runs
    hits,       \* _hits and
    misses,     \* _misses of each process
    pc,         \* where each worker is in check()
    key,        \* the key it looks up
    raw,        \* what GET returned
    loaded,     \* the counter it read and is about to write back
    answer,     \* history: what its last get() returned, as of the GET
    latest,     \* history: what the last set() of each key was given
    begun,      \* history: checks begun
    restarts,   \* history: restarts
    gets,       \* history: GETs answered since each process started
    unreadable, \* history: those whose payload was JSON, but no GuardResult
    raced,      \* history: two workers of a process counted the same at once
    lastRun     \* history: when each version last ran anywhere

storeVars == <<clock, db, latest, version, lastRun, restarts>>
countVars == <<hits, misses, loaded, gets, unreadable, raced>>
workerVars == <<pc, key, raw, answer, begun>>
vars == <<storeVars, countVars, workerVars>>

Never == -TTL * TicksPerSecond

Init ==
    /\ clock = 0
    /\ db = [k \in Keys |-> Nil] /\ latest = db
    /\ \E v \in Versions :
          /\ version = [p \in Processes |-> v]
          /\ lastRun = [u \in Versions |-> IF u = v THEN 0 ELSE Never]
    /\ restarts = 0
    /\ hits = [p \in Processes |-> 0] /\ misses = hits
    /\ gets = hits /\ unreadable = hits
    /\ raced = [p \in Processes |-> FALSE]
    /\ loaded = [w \in Workers |-> 0]
    /\ pc = [w \in Workers |-> "idle"]
    /\ key = [w \in Workers |-> Nil] /\ raw = key /\ answer = key
    /\ begun = 0

Goto(w, place) == pc' = [pc EXCEPT ![w] = place]

-----------------------------------------------------------------------------
(* check() computes the key and calls get(). *)
Begin(w, k) ==
    /\ pc[w] = "idle"
    /\ begun < MaxChecks
    /\ begun' = begun + 1
    /\ key' = [key EXCEPT ![w] = k]
    /\ Goto(w, "get")
    /\ UNCHANGED <<storeVars, countVars, raw, answer>>

ReadAs(w, payload, readings) ==
    payload # Nil /\ Reading[version[Home[w]]][payload] \in readings

(* GuardResult can be built from it. *)
Readable(w, payload) == ReadAs(w, payload, {"result"})

(* json.loads(raw) succeeds. *)
Parsed(w, payload) == ReadAs(w, payload, {"result", "fields"})

Payload(k) == IF AsOf(db[k], clock) = Nil THEN Nil ELSE db[k].value

(* Redis executes GET. *)
Get(w) ==
    LET payload == Payload(key[w]) IN
    /\ pc[w] = "get"
    /\ raw' = [raw EXCEPT ![w] = payload]
    /\ answer' = [answer EXCEPT ![w] =
                     IF Readable(w, payload) THEN payload ELSE Nil]
    /\ gets' = [gets EXCEPT ![Home[w]] = @ + 1]
    /\ Goto(w, IF Parsed(w, payload) THEN "hit" ELSE "miss")
    /\ UNCHANGED <<storeVars, hits, misses, loaded, unreadable, raced, key,
                   begun>>

(* self._hits += 1 and self._misses += 1 are a read and a write, without a *)
(* lock.  What json.loads() accepts is counted as a hit before GuardResult *)
(* sees it, and once more as a miss when that raises.                      *)
Counting == {"store_hit", "store_miss"}

LoadCounter(w) ==
    LET p == Home[w] IN
    /\ \/ /\ pc[w] = "hit"
          /\ loaded' = [loaded EXCEPT ![w] = hits[p]]
          /\ Goto(w, "store_hit")
       \/ /\ pc[w] = "miss"
          /\ loaded' = [loaded EXCEPT ![w] = misses[p]]
          /\ Goto(w, "store_miss")
    /\ raced' = [raced EXCEPT ![p] =
                    @ \/ \E u \in Workers \ {w} :
                            Home[u] = p /\ pc[u] = pc'[w]]
    /\ UNCHANGED <<storeVars, hits, misses, gets, unreadable, key, raw, answer,
                   begun>>

\* Mutant of AfterHit: the except clause returns None and counts nothing.
AfterHitUncounted(w) ==
    IF Readable(w, raw[w])
    THEN Goto(w, "return") /\ UNCHANGED unreadable
    ELSE /\ Goto(w, "layers")
         /\ unreadable' = [unreadable EXCEPT ![Home[w]] = @ + 1]

AfterHit(w) ==
    IF Readable(w, raw[w])
    THEN Goto(w, "return") /\ UNCHANGED unreadable
    ELSE /\ Goto(w, "miss")
         /\ unreadable' = [unreadable EXCEPT ![Home[w]] = @ + 1]

StoreHit(w) ==
    /\ pc[w] = "store_hit"
    /\ hits' = [hits EXCEPT ![Home[w]] = loaded[w] + 1]
    /\ loaded' = [loaded EXCEPT ![w] = 0]
    /\ AfterHit(w)
    /\ UNCHANGED <<storeVars, misses, gets, raced, key, raw, answer, begun>>

StoreMiss(w) ==
    /\ pc[w] = "store_miss"
    /\ misses' = [misses EXCEPT ![Home[w]] = loaded[w] + 1]
    /\ loaded' = [loaded EXCEPT ![w] = 0]
    /\ Goto(w, "layers")
    /\ UNCHANGED <<storeVars, hits, gets, unreadable, raced, key, raw, answer,
                   begun>>

(* The pipeline reaches a verdict, or a layer raises. *)
Layers(w) ==
    /\ pc[w] = "layers"
    /\ Goto(w, "set") \/ Goto(w, "return")
    /\ UNCHANGED <<storeVars, countVars, key, raw, answer, begun>>

(* Redis executes SETEX; then the observers run, or set() raises because   *)
(* the answer is lost.  Both end the check.                                *)
\* Mutant of Written: SET without an expiry.
WrittenForGood(v, t) == [value |-> v, expires |-> NoTTL]

Written(v, t) == SetEx(v, TTL, t)

\* Mutant of Put: `prefix` for `prefix + key`, every key names one entry.
PutUnderPrefix(w) ==
    db' = [k \in Keys |-> Written(version[Home[w]], clock)]

Put(w) == db' = [db EXCEPT ![key[w]] = Written(version[Home[w]], clock)]

Set(w) ==
    /\ pc[w] = "set"
    /\ Put(w)
    /\ latest' = [latest EXCEPT ![key[w]] = version[Home[w]]]
    /\ Goto(w, "return")
    /\ UNCHANGED <<clock, version, lastRun, restarts, countVars, key, raw,
                   answer, begun>>

(* get() or set() raises: nothing in check() catches it, so a verdict the  *)
(* pipeline reached is lost with it.                                       *)
RedisFails(w) ==
    /\ pc[w] \in {"get", "set"}
    /\ Goto(w, "return")
    /\ UNCHANGED <<storeVars, countVars, key, raw, answer, begun>>

(* check() returns or raises. *)
Return(w) ==
    /\ pc[w] = "return"
    /\ Goto(w, "idle")
    /\ key' = [key EXCEPT ![w] = Nil]
    /\ raw' = [raw EXCEPT ![w] = Nil]
    /\ UNCHANGED <<storeVars, countVars, answer, begun>>

(* The process comes back, with the same version or another. *)
Restart(p, v) ==
    /\ restarts < MaxRestarts
    /\ restarts' = restarts + 1
    /\ version' = [version EXCEPT ![p] = v]
    /\ lastRun' = [lastRun EXCEPT ![v] = clock]
    /\ hits' = [hits EXCEPT ![p] = 0] /\ misses' = [misses EXCEPT ![p] = 0]
    /\ gets' = [gets EXCEPT ![p] = 0]
    /\ unreadable' = [unreadable EXCEPT ![p] = 0]
    /\ raced' = [raced EXCEPT ![p] = FALSE]
    /\ pc' = [w \in Workers |-> IF Home[w] = p THEN "idle" ELSE pc[w]]
    /\ key' = [w \in Workers |-> IF Home[w] = p THEN Nil ELSE key[w]]
    /\ raw' = [w \in Workers |-> IF Home[w] = p THEN Nil ELSE raw[w]]
    /\ UNCHANGED <<clock, db, latest, loaded, answer, begun>>

Tick ==
    /\ clock < MaxClock
    /\ clock' = clock + 1
    /\ lastRun' = [v \in Versions |-> IF \E p \in Processes : version[p] = v
                                      THEN clock + 1 ELSE lastRun[v]]
    /\ UNCHANGED <<db, latest, version, restarts, countVars, workerVars>>

Finished ==
    /\ begun = MaxChecks /\ clock = MaxClock
    /\ \A w \in Workers : pc[w] = "idle"
    /\ UNCHANGED vars

Step(w) ==
    \/ Get(w) \/ LoadCounter(w) \/ StoreHit(w) \/ StoreMiss(w)
    \/ Layers(w) \/ Set(w) \/ RedisFails(w) \/ Return(w)

Next ==
    \/ Tick
    \/ \E w \in Workers : Step(w) \/ \E k \in Keys : Begin(w, k)
    \/ \E p \in Processes, v \in Versions : Restart(p, v)
    \/ Finished

Spec == Init /\ [][Next]_vars

-----------------------------------------------------------------------------
TypeOK ==
    /\ clock \in Nat
    /\ db \in [Keys -> {Nil} \cup [value : Versions, expires : Nat]]
    /\ version \in [Processes -> Versions]
    /\ hits \in [Processes -> Nat] /\ misses \in [Processes -> Nat]
    /\ gets \in [Processes -> Nat] /\ unreadable \in [Processes -> Nat]
    /\ pc \in [Workers -> {"idle", "get", "hit", "miss", "store_hit",
                           "store_miss", "layers", "set", "return"}]
    /\ answer \in [Workers -> Versions \cup {Nil}]
    /\ \A w \in Workers : pc[w] # "idle" => key[w] \in Keys

(* A verdict of a configuration that no process runs any more is served    *)
(* for ttl_seconds at most, however often it is hit in between and         *)
(* whatever restarts: nothing but the expiry takes the old version's       *)
(* verdicts out of Redis, since the key does not name the version          *)
(* (cache.py:35-39, 137).                                                  *)
StaleVersionsFade ==
    [][\A w \in Workers :
          (pc[w] = "get" /\ pc'[w] = "hit")
              => clock - lastRun[raw'[w]] < TTL * TicksPerSecond]_vars

(* What stats() reports of a process: it never shows more hits than        *)
(* lookups, and as long as no two threads counted the same at once, hits   *)
(* and misses add up to the lookups, plus one more for each payload that   *)
(* is JSON but no GuardResult, which is counted on both sides; one that is *)
(* no JSON is a miss and nothing else (cache.py:121-131).                  *)
Uncounted(p) ==
    Cardinality({w \in Workers : Home[w] = p /\
                    pc[w] \in {"hit", "miss"} \cup Counting})

CountersAddUp ==
    \A p \in Processes :
        /\ hits[p] <= gets[p]
        /\ misses[p] <= gets[p]
        /\ ~raced[p] =>
              hits[p] + misses[p] + Uncounted(p) = gets[p] + unreadable[p]

(* The key of each worker's get(), until Redis has executed its GET. *)
Asked == [w \in Workers |-> IF pc[w] = "get" THEN key[w] ELSE Nil]

Abstract == INSTANCE ResultCache
    WITH Threads <- Workers, Values <- Versions, Absent <- Nil, asked <- Asked

(* Over any mix of processes, restarts, failures and expiries, a get()     *)
(* returns nothing or what the latest set() of the key it was called with  *)
(* wrote (cache.py:120-137).                                               *)
ImplementsResultCache == Abstract!Spec
=============================================================================
