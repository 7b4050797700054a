-------------------------- MODULE RedisCache_proofs --------------------------
(***************************************************************************)
(* Proofs about RedisCache, for any processes, workers, keys, versions and *)
(* TTL, and without regard to the bounds.                                  *)
(***************************************************************************)
EXTENDS RedisCache, FiniteSetTheorems, TLAPS

Life == TTL * TicksPerSecond

(* The parts of the state that TypeOK leaves open. *)
MoreTypes ==
    /\ raw \in [Workers -> Versions \cup {Nil}]
    /\ loaded \in [Workers -> Nat]
    /\ latest \in [Keys -> Versions \cup {Nil}]
    /\ lastRun \in [Versions -> Int]
    /\ key \in [Workers -> Keys \cup {Nil}]
    /\ raced \in [Processes -> BOOLEAN]

(* What Redis holds under a key is what the latest set() wrote there. *)
LatestKept == \A k \in Keys : db[k] # Nil => db[k].value = latest[k]

(* A running version runs now, none will have run, and no entry outlives   *)
(* the last moment of its version by more than the TTL.                    *)
VersionsAge ==
    /\ \A p \in Processes : lastRun[version[p]] = clock
    /\ \A v \in Versions : lastRun[v] <= clock
    /\ \A k \in Keys :
          db[k] # Nil => /\ db[k].expires # NoTTL
                         /\ db[k].expires <= lastRun[db[k].value] + Life

TypeInv == TypeOK /\ MoreTypes

IInv == TypeInv /\ LatestKept /\ VersionsAge

-----------------------------------------------------------------------------
LEMMA LifeIsPositive == Life \in Nat \ {0} /\ Never \in Int /\ Never <= 0
  <1>1. TTL \in Nat \ {0} /\ TicksPerSecond \in Nat \ {0}
    BY RedisCacheAssumption, ServerAssumption
  <1>2. \A a, b \in Nat \ {0} : a * b \in Nat \ {0} /\ -a * b \in Int /\ -a * b <= 0
    BY SMT
  <1> QED
    BY <1>1, <1>2 DEF Life, Never

(* What GET returns: nothing, or the latest value that is not expired.     *)
LEMMA PayloadIsLatest ==
    ASSUME IInv, NEW k \in Keys, Payload(k) # Nil
    PROVE  /\ Payload(k) \in Versions
           /\ Payload(k) = latest[k]
           /\ clock - lastRun[Payload(k)] < Life
  <1>1. db[k] # Nil /\ Payload(k) = db[k].value
    BY DEF Payload, AsOf
  <1>2. db[k] \in [value : Versions, expires : Nat]
    BY <1>1 DEF IInv, TypeInv, TypeOK
  <1>3. /\ db[k].expires # NoTTL
        /\ db[k].expires <= lastRun[db[k].value] + Life
    BY <1>1 DEF IInv, VersionsAge
  <1>4. ~(db[k].expires <= clock)
    BY <1>1, <1>3 DEF Payload, AsOf
  <1>5. clock \in Nat /\ lastRun[db[k].value] \in Int /\ Life \in Int
    BY <1>2, LifeIsPositive DEF IInv, TypeInv, TypeOK, MoreTypes
  <1>6. Payload(k) = latest[k]
    BY <1>1 DEF IInv, LatestKept
  <1>7. db[k].value \in Versions /\ db[k].expires \in Nat
    BY <1>2
  <1>8. clock - lastRun[db[k].value] < Life
    BY <1>3, <1>4, <1>5, <1>7
  <1> QED
    BY <1>1, <1>6, <1>7, <1>8

-----------------------------------------------------------------------------
LEMMA InitTypes == Init => IInv
  <1> SUFFICES ASSUME Init PROVE IInv
    OBVIOUS
  <1>1. Nil \notin Versions \cup Keys
    BY RedisCacheAssumption
  <1>2. TypeOK
    BY DEF Init, TypeOK
  <1>3. MoreTypes
    BY LifeIsPositive DEF Init, MoreTypes
  <1>4. LatestKept
    BY DEF Init, LatestKept
  <1>5. VersionsAge
    BY LifeIsPositive DEF Init, VersionsAge
  <1> QED
    BY <1>2, <1>3, <1>4, <1>5 DEF IInv, TypeInv

(* Steps that touch neither Redis nor the versions. *)
LEMMA StoreUnchanged ==
    ASSUME IInv, UNCHANGED storeVars
    PROVE  LatestKept' /\ VersionsAge'
  BY DEF IInv, LatestKept, VersionsAge, storeVars

LEMMA BeginStep ==
    ASSUME IInv, NEW w \in Workers, NEW k \in Keys, Begin(w, k)
    PROVE  IInv'
  <1>1. LatestKept' /\ VersionsAge'
    BY StoreUnchanged DEF Begin
  <1>2. TypeInv'
    BY DEF Begin, Goto, IInv, TypeInv, TypeOK, MoreTypes, storeVars, countVars
  <1> QED
    BY <1>1, <1>2 DEF IInv

LEMMA GetStep ==
    ASSUME IInv, NEW w \in Workers, Get(w)
    PROVE  IInv'
  <1>1. LatestKept' /\ VersionsAge'
    BY StoreUnchanged DEF Get
  <1>2. key[w] \in Keys
    BY DEF Get, IInv, TypeInv, TypeOK
  <1>3. Payload(key[w]) \in Versions \cup {Nil}
    BY <1>2, PayloadIsLatest
  <1>4. Home[w] \in Processes
    BY RedisCacheAssumption
  <1>5. TypeInv'
    BY <1>2, <1>3, <1>4
       DEF Get, Goto, IInv, TypeInv, TypeOK, MoreTypes, storeVars
  <1> QED
    BY <1>1, <1>5 DEF IInv

LEMMA CountSteps ==
    ASSUME IInv, NEW w \in Workers,
           LoadCounter(w) \/ StoreHit(w) \/ StoreMiss(w)
    PROVE  IInv'
  <1>1. LatestKept' /\ VersionsAge'
    BY StoreUnchanged DEF LoadCounter, StoreHit, StoreMiss
  <1>2. Home[w] \in Processes
    BY RedisCacheAssumption
  <1>3. CASE LoadCounter(w)
    <2>1. TypeInv'
      BY <1>2, <1>3
         DEF LoadCounter, Goto, IInv, TypeInv, TypeOK, MoreTypes, storeVars
    <2> QED
      BY <1>1, <2>1 DEF IInv
  <1>4. CASE StoreHit(w)
    <2>1. TypeInv'
      BY <1>2, <1>4
         DEF StoreHit, AfterHit, Goto, IInv, TypeInv, TypeOK, MoreTypes, storeVars
    <2> QED
      BY <1>1, <2>1 DEF IInv
  <1>5. CASE StoreMiss(w)
    <2>1. TypeInv'
      BY <1>2, <1>5
         DEF StoreMiss, Goto, IInv, TypeInv, TypeOK, MoreTypes, storeVars
    <2> QED
      BY <1>1, <2>1 DEF IInv
  <1> QED
    BY <1>3, <1>4, <1>5

LEMMA MoveSteps ==
    ASSUME IInv, NEW w \in Workers,
           Layers(w) \/ RedisFails(w) \/ Return(w)
    PROVE  IInv'
  <1>1. LatestKept' /\ VersionsAge'
    BY StoreUnchanged DEF Layers, RedisFails, Return
  <1>2. TypeInv'
    BY DEF Layers, RedisFails, Return, Goto, IInv, TypeInv, TypeOK, MoreTypes,
           storeVars, countVars
  <1> QED
    BY <1>1, <1>2 DEF IInv

LEMMA SetStep ==
    ASSUME IInv, NEW w \in Workers, Set(w)
    PROVE  IInv'
  <1> DEFINE k == key[w]
             v == version[Home[w]]
  <1>1. k \in Keys /\ v \in Versions /\ Home[w] \in Processes
    BY RedisCacheAssumption DEF Set, IInv, TypeInv, TypeOK
  <1>2. db' = [db EXCEPT ![k] = [value |-> v, expires |-> clock + Life]]
    BY DEF Set, Put, Written, SetEx, Life
  <1>3. Life \in Nat \ {0} /\ clock \in Nat
    BY LifeIsPositive DEF IInv, TypeInv, TypeOK
  <1>4. TypeInv'
    BY <1>1, <1>2, <1>3
       DEF Set, Goto, IInv, TypeInv, TypeOK, MoreTypes, countVars
  <1>5. LatestKept'
    BY <1>1, <1>2 DEF Set, IInv, LatestKept, TypeInv, TypeOK, MoreTypes
  <1>6. VersionsAge'
    <2>1. lastRun[v] = clock
      BY <1>1 DEF IInv, VersionsAge
    <2>2. clock' = clock /\ version' = version /\ lastRun' = lastRun
      BY DEF Set
    <2>3. \A j \in Keys :
             db'[j] # Nil => /\ db'[j].expires # NoTTL
                             /\ db'[j].expires <= lastRun[db'[j].value] + Life
      BY <1>1, <1>2, <1>3, <2>1
         DEF IInv, VersionsAge, TypeInv, TypeOK, NoTTL
    <2> QED
      BY <2>2, <2>3 DEF IInv, VersionsAge
  <1> QED
    BY <1>4, <1>5, <1>6 DEF IInv

LEMMA RestartStep ==
    ASSUME IInv, NEW p \in Processes, NEW v \in Versions, Restart(p, v)
    PROVE  IInv'
  <1>1. TypeInv'
    BY DEF Restart, IInv, TypeInv, TypeOK, MoreTypes
  <1>2. LatestKept'
    BY DEF Restart, IInv, LatestKept
  <1>3. VersionsAge'
    <2>1. clock' = clock /\ db' = db
      BY DEF Restart
    <2>2. \A u \in Versions : lastRun'[u] = IF u = v THEN clock ELSE lastRun[u]
      BY DEF Restart, IInv, TypeInv, MoreTypes
    <2>3. \A q \in Processes : lastRun'[version'[q]] = clock
      BY <2>2 DEF Restart, IInv, TypeInv, TypeOK, VersionsAge
    <2>4. \A u \in Versions : lastRun[u] <= lastRun'[u] /\ lastRun'[u] <= clock
      BY <2>2 DEF IInv, TypeInv, TypeOK, MoreTypes, VersionsAge
    <2>5. \A k \in Keys :
             db[k] # Nil => db[k].expires <= lastRun'[db[k].value] + Life
      <3> SUFFICES ASSUME NEW k \in Keys, db[k] # Nil
                   PROVE  db[k].expires <= lastRun'[db[k].value] + Life
        OBVIOUS
      <3>1. db[k] \in [value : Versions, expires : Nat]
        BY DEF IInv, TypeInv, TypeOK
      <3>2. db[k].expires <= lastRun[db[k].value] + Life
        BY DEF IInv, VersionsAge
      <3>3. /\ lastRun[db[k].value] \in Int /\ lastRun'[db[k].value] \in Int
            /\ Life \in Int
        BY <1>1, <3>1, LifeIsPositive DEF IInv, TypeInv, MoreTypes
      <3> QED
        BY <2>4, <3>1, <3>2, <3>3
    <2> QED
      BY <2>1, <2>3, <2>4, <2>5 DEF IInv, VersionsAge
  <1> QED
    BY <1>1, <1>2, <1>3 DEF IInv

LEMMA TickStep ==
    ASSUME IInv, Tick
    PROVE  IInv'
  <1>1. TypeInv'
    BY DEF Tick, IInv, TypeInv, TypeOK, MoreTypes, countVars, workerVars
  <1>2. LatestKept'
    BY DEF Tick, IInv, LatestKept
  <1>3. VersionsAge'
    <2>1. clock' = clock + 1 /\ db' = db /\ version' = version /\ clock \in Nat
      BY DEF Tick, IInv, TypeInv, TypeOK
    <2>2. \A v \in Versions : lastRun'[v] = IF \E p \in Processes : version[p] = v
                                            THEN clock + 1 ELSE lastRun[v]
      BY DEF Tick
    <2>3. \A v \in Versions : lastRun[v] <= lastRun'[v] /\ lastRun'[v] <= clock + 1
      BY <2>1, <2>2 DEF IInv, TypeInv, MoreTypes, VersionsAge
    <2>4. \A p \in Processes : lastRun'[version[p]] = clock + 1
      BY <2>2 DEF IInv, TypeInv, TypeOK
    <2>5. \A k \in Keys :
             db[k] # Nil => db[k].expires <= lastRun'[db[k].value] + Life
      <3> SUFFICES ASSUME NEW k \in Keys, db[k] # Nil
                   PROVE  db[k].expires <= lastRun'[db[k].value] + Life
        OBVIOUS
      <3>1. db[k] \in [value : Versions, expires : Nat]
        BY DEF IInv, TypeInv, TypeOK
      <3>2. db[k].expires <= lastRun[db[k].value] + Life
        BY DEF IInv, VersionsAge
      <3>3. /\ lastRun[db[k].value] \in Int /\ lastRun'[db[k].value] \in Int
            /\ Life \in Int
        BY <1>1, <3>1, LifeIsPositive DEF IInv, TypeInv, MoreTypes
      <3> QED
        BY <2>3, <3>1, <3>2, <3>3
    <2> QED
      BY <2>1, <2>3, <2>4, <2>5 DEF IInv, VersionsAge
  <1> QED
    BY <1>1, <1>2, <1>3 DEF IInv

LEMMA StutterStep ==
    ASSUME IInv, UNCHANGED vars
    PROVE  IInv'
  BY DEF IInv, TypeInv, TypeOK, MoreTypes, LatestKept, VersionsAge, vars,
         storeVars, countVars, workerVars

LEMMA Inductive == IInv /\ [Next]_vars => IInv'
  <1> SUFFICES ASSUME IInv, [Next]_vars PROVE IInv'
    OBVIOUS
  <1>1. CASE Tick
    BY <1>1, TickStep
  <1>2. ASSUME NEW w \in Workers, Step(w) PROVE IInv'
    BY <1>2, GetStep, CountSteps, MoveSteps, SetStep DEF Step
  <1>3. ASSUME NEW w \in Workers, NEW k \in Keys, Begin(w, k) PROVE IInv'
    BY <1>3, BeginStep
  <1>4. ASSUME NEW p \in Processes, NEW v \in Versions, Restart(p, v) PROVE IInv'
    BY <1>4, RestartStep
  <1>5. CASE UNCHANGED vars
    BY <1>5, StutterStep
  <1> QED
    BY <1>1, <1>2, <1>3, <1>4, <1>5 DEF Next, Finished

(* Entries in Redis are the latest of their keys, and no older than their  *)
(* TTL allows, at every moment (cache.py:101-149).                         *)
THEOREM Invariant == Spec => []IInv
  BY InitTypes, Inductive, PTL DEF Spec

(* The state stays in its types, in every interleaving of any number of    *)
(* workers and restarts.                                                   *)
THEOREM TypeCorrect == Spec => []TypeOK
  BY Invariant, PTL DEF IInv, TypeInv

-----------------------------------------------------------------------------
(* Verdicts of a version that runs nowhere any more are served for the TTL *)
(* at most (cache.py:35-39, 137).                                          *)
THEOREM StaleFade == Spec => StaleVersionsFade
  <1> DEFINE Fades == \A w \in Workers :
                         (pc[w] = "get" /\ pc'[w] = "hit")
                             => clock - lastRun[raw'[w]] < TTL * TicksPerSecond
  <1>1. ASSUME IInv, Next, NEW w \in Workers, pc[w] = "get", pc'[w] = "hit"
        PROVE  clock - lastRun[raw'[w]] < TTL * TicksPerSecond
    <2>1. Get(w)
      <3>1. ASSUME NEW u \in Workers, Step(u) PROVE u = w /\ Get(w)
        BY <1>1, <3>1
           DEF Step, Get, LoadCounter, StoreHit, StoreMiss, AfterHit, Layers,
               Set, RedisFails, Return, Goto, IInv, TypeInv, TypeOK
      <3>2. ASSUME NEW u \in Workers, NEW k \in Keys, Begin(u, k) PROVE FALSE
        BY <1>1, <3>2 DEF Begin, Goto, IInv, TypeInv, TypeOK
      <3>3. ASSUME NEW p \in Processes, NEW v \in Versions, Restart(p, v)
            PROVE  FALSE
        BY <1>1, <3>3 DEF Restart
      <3>4. ~Tick /\ ~Finished
        BY <1>1 DEF Tick, Finished, vars, workerVars
      <3> QED
        BY <1>1, <3>1, <3>2, <3>3, <3>4 DEF Next
    <2>2. key[w] \in Keys /\ raw'[w] = Payload(key[w])
      BY <1>1, <2>1 DEF Get, IInv, TypeInv, TypeOK, MoreTypes
    <2>3. Payload(key[w]) # Nil
      BY <1>1, <2>1 DEF Get, Goto, Parsed, ReadAs, IInv, TypeInv, TypeOK
    <2> QED
      BY <1>1, <2>2, <2>3, PayloadIsLatest DEF Life
  <1>2. IInv /\ [Next]_vars => [Fades]_vars
    BY <1>1
  <1> QED
    BY <1>2, Invariant, PTL DEF Spec, StaleVersionsFade

(* Over Redis, with any number of processes that restart and Redis calls   *)
(* that fail, a get() returns nothing or the latest set() of the key it    *)
(* was called with: RedisResultCache implements ResultCache                *)
(* (cache.py:120-137).                                                     *)
THEOREM Implements == Spec => ImplementsResultCache
  <1>1. Init => Abstract!Init
    BY DEF Init, Asked, Abstract!Init
  <1>2. ASSUME IInv, [Next]_vars
        PROVE  [Abstract!Next]_(Abstract!vars)
    <2>1. ASSUME NEW w \in Workers, Get(w)
          PROVE  Abstract!Next
      <3>1. /\ key[w] \in Keys /\ Asked[w] = key[w] /\ key[w] # Nil
            /\ Asked' = [Asked EXCEPT ![w] = Nil] /\ latest' = latest
        BY <1>2, <2>1, RedisCacheAssumption
           DEF Get, Goto, Asked, storeVars, IInv, TypeInv, TypeOK
      <3>2. Payload(key[w]) = Nil \/ Payload(key[w]) = latest[key[w]]
        BY <1>2, <3>1, PayloadIsLatest
      <3>3. \/ answer' = [answer EXCEPT ![w] = Nil]
            \/ answer' = [answer EXCEPT ![w] = latest[Asked[w]]]
        BY <2>1, <3>1, <3>2 DEF Get
      <3>4. Abstract!Answer(w)
        BY <3>1, <3>3 DEF Abstract!Answer
      <3> QED
        BY <3>4 DEF Abstract!Next
    <2>2. ASSUME NEW w \in Workers, Set(w)
          PROVE  Abstract!Next
      <3>1. key[w] \in Keys /\ version[Home[w]] \in Versions
        BY <1>2, <2>2, RedisCacheAssumption DEF Set, IInv, TypeInv, TypeOK
      <3>2. Asked' = Asked
        BY <1>2, <2>2 DEF Set, Goto, Asked, IInv, TypeInv, TypeOK
      <3>3. Abstract!Set(key[w], version[Home[w]])
        BY <2>2, <3>2 DEF Set, Abstract!Set
      <3> QED
        BY <3>1, <3>3 DEF Abstract!Next
    <2>3. ASSUME NEW w \in Workers, NEW k \in Keys, Begin(w, k)
          PROVE  Abstract!Next
      <3>1. /\ Asked[w] = Nil /\ Asked' = [Asked EXCEPT ![w] = k]
            /\ UNCHANGED <<latest, answer>>
        BY <1>2, <2>3
           DEF Begin, Goto, Asked, storeVars, IInv, TypeInv, TypeOK, MoreTypes
      <3>2. Abstract!Call(w, k)
        BY <3>1 DEF Abstract!Call
      <3> QED
        BY <3>2 DEF Abstract!Next
    <2>4. ASSUME NEW w \in Workers, RedisFails(w)
          PROVE  Abstract!Next
      <3>1. /\ Asked' = [v \in Workers |-> IF v \in {w} THEN Nil ELSE Asked[v]]
            /\ UNCHANGED <<latest, answer>>
        BY <1>2, <2>4
           DEF RedisFails, Goto, Asked, storeVars, IInv, TypeInv, TypeOK
      <3>2. Abstract!Abandon({w})
        BY <3>1 DEF Abstract!Abandon
      <3>3. {w} \in SUBSET Workers
        OBVIOUS
      <3> QED
        BY <3>2, <3>3 DEF Abstract!Next
    <2>5. ASSUME NEW p \in Processes, NEW v \in Versions, Restart(p, v)
          PROVE  Abstract!Next
      <3> DEFINE ts == {w \in Workers : Home[w] = p}
      <3>1. /\ Asked' = [w \in Workers |-> IF w \in ts THEN Nil ELSE Asked[w]]
            /\ UNCHANGED <<latest, answer>>
        BY <2>5 DEF Restart, Asked
      <3>2. ts \in SUBSET Workers
        OBVIOUS
      <3> HIDE DEF ts
      <3>3. Abstract!Abandon(ts)
        BY <3>1 DEF Abstract!Abandon
      <3> QED
        BY <3>2, <3>3 DEF Abstract!Next
    <2>6. ASSUME NEW w \in Workers,
                 \/ LoadCounter(w) \/ StoreHit(w) \/ StoreMiss(w)
                 \/ Layers(w) \/ Return(w)
          PROVE  UNCHANGED <<latest, Asked, answer>>
      <3>1. UNCHANGED <<latest, answer>>
        BY <2>6 DEF LoadCounter, StoreHit, StoreMiss, Layers, Return, storeVars
      <3>2. /\ pc[w] # "get" /\ pc'[w] # "get"
            /\ \A v \in Workers \ {w} : pc'[v] = pc[v] /\ key'[v] = key[v]
        BY <1>2, <2>6
           DEF LoadCounter, StoreHit, AfterHit, StoreMiss, Layers, Return, Goto,
               IInv, TypeInv, TypeOK, MoreTypes
      <3> QED
        BY <3>1, <3>2 DEF Asked
    <2>7. CASE Tick
      BY <2>7 DEF Tick, workerVars, Asked, Abstract!vars
    <2>8. CASE UNCHANGED vars
      BY <2>8 DEF vars, storeVars, workerVars, Asked, Abstract!vars
    <2>9. ASSUME NEW w \in Workers, Step(w)
          PROVE  Abstract!Next \/ UNCHANGED Abstract!vars
      BY <2>1, <2>2, <2>4, <2>6, <2>9 DEF Step, Abstract!vars
    <2> QED
      BY <1>2, <2>3, <2>5, <2>7, <2>8, <2>9 DEF Next, Finished
  <1> QED
    BY <1>1, <1>2, Invariant, PTL DEF Spec, ImplementsResultCache, Abstract!Spec

-----------------------------------------------------------------------------
(* The counters.  HitsDue and Uncounted count the threads of a process     *)
(* that have a hit, or a hit or a miss, still to store.                    *)
At(p, states) == Cardinality({w \in Workers : Home[w] = p /\ pc[w] \in states})

HitsDue(p) == At(p, {"hit", "store_hit"})

(* Lost updates only lose: what is stored, and what any thread is about to *)
(* store, leaves room for the threads still to count.                      *)
BoundedAt(p) == /\ hits[p] + HitsDue(p) <= gets[p]
                /\ misses[p] + Uncounted(p) <= gets[p]

BackedBy(w) ==
    /\ pc[w] = "store_hit" => loaded[w] + HitsDue(Home[w]) <= gets[Home[w]]
    /\ pc[w] = "store_miss" => loaded[w] + Uncounted(Home[w]) <= gets[Home[w]]

(* Without a race, a thread about to store read the present value, and is  *)
(* the only one of its process about to store that counter.                *)
UnracedBy(w) ==
    ~raced[Home[w]] =>
        /\ pc[w] = "store_hit" => loaded[w] = hits[Home[w]]
        /\ pc[w] = "store_miss" => loaded[w] = misses[Home[w]]
        /\ \A u \in Workers \ {w} :
              Home[u] = Home[w] /\ pc[w] \in Counting => pc[u] # pc[w]

ExactAt(p) ==
    ~raced[p] => hits[p] + misses[p] + Uncounted(p) = gets[p] + unreadable[p]

Counted ==
    /\ \A p \in Processes : BoundedAt(p) /\ ExactAt(p)
    /\ \A w \in Workers : BackedBy(w) /\ UnracedBy(w)

One(b) == IF b THEN 1 ELSE 0

LEMMA AtMoves ==
    ASSUME NEW w \in Workers, \A v \in Workers \ {w} : pc'[v] = pc[v],
           NEW p, NEW states
    PROVE  /\ At(p, states) \in Nat /\ At(p, states)' \in Nat
           /\ At(p, states)' = At(p, states)
                 - One(Home[w] = p /\ pc[w] \in states)
                 + One(Home[w] = p /\ pc'[w] \in states)
  <1> DEFINE A == {v \in Workers : Home[v] = p /\ pc[v] \in states}
             B == {v \in Workers : Home[v] = p /\ pc'[v] \in states}
             before == Home[w] = p /\ pc[w] \in states
             after == Home[w] = p /\ pc'[w] \in states
  <1>1. At(p, states) = Cardinality(A) /\ At(p, states)' = Cardinality(B)
    BY DEF At
  <1>2. /\ (w \in A <=> before) /\ (w \in B <=> after)
        /\ A \in SUBSET Workers /\ B \in SUBSET Workers
        /\ \A v \in Workers \ {w} : v \in A <=> v \in B
    OBVIOUS
  <1> HIDE DEF A, B, before, after
  <1>3. IsFiniteSet(A) /\ IsFiniteSet(B)
    BY <1>2, RedisCacheAssumption, FS_Subset
  <1>4. Cardinality(A) \in Nat /\ Cardinality(B) \in Nat
    BY <1>3, FS_CardinalityType
  <1>5. Cardinality(B) = Cardinality(A) - One(before) + One(after)
    <2>1. CASE before <=> after
      <3>1. A = B /\ One(before) = One(after) /\ One(before) \in Nat
        BY <1>2, <2>1 DEF One
      <3> QED
        BY <1>4, <3>1
    <2>2. CASE before /\ ~after
      <3>1. B = A \ {w} /\ w \in A /\ One(before) = 1 /\ One(after) = 0
        BY <1>2, <2>2 DEF One
      <3>2. Cardinality(B) = Cardinality(A) - 1
        BY <1>3, <3>1, FS_RemoveElement
      <3> QED
        BY <1>4, <3>1, <3>2
    <2>3. CASE ~before /\ after
      <3>1. B = A \cup {w} /\ w \notin A /\ One(before) = 0 /\ One(after) = 1
        BY <1>2, <2>3 DEF One
      <3>2. Cardinality(B) = Cardinality(A) + 1
        BY <1>3, <3>1, FS_AddElement
      <3> QED
        BY <1>4, <3>1, <3>2
    <2> QED
      BY <2>1, <2>2, <2>3
  <1> QED
    BY <1>1, <1>4, <1>5 DEF before, after

(* A step of one thread, seen by the two counts of its process and by      *)
(* those of the others.                                                    *)
Due(w) == One(pc[w] \in {"hit", "store_hit"})
Open(w) == One(pc[w] \in {"hit", "miss"} \cup Counting)

LEMMA CountsMove ==
    ASSUME NEW w \in Workers, \A v \in Workers \ {w} : pc'[v] = pc[v]
    PROVE  /\ \A p : /\ HitsDue(p) \in Nat /\ HitsDue(p)' \in Nat
                     /\ Uncounted(p) \in Nat /\ Uncounted(p)' \in Nat
           /\ \A p : p # Home[w] => HitsDue(p)' = HitsDue(p) /\ Uncounted(p)' = Uncounted(p)
           /\ HitsDue(Home[w])' = HitsDue(Home[w]) - Due(w) + Due(w)'
           /\ Uncounted(Home[w])' = Uncounted(Home[w]) - Open(w) + Open(w)'
  <1> DEFINE H == {"hit", "store_hit"}
             U == {"hit", "miss"} \cup Counting
  <1>1. \A p : /\ HitsDue(p) = At(p, H) /\ HitsDue(p)' = At(p, H)'
               /\ Uncounted(p) = At(p, U) /\ Uncounted(p)' = At(p, U)'
    BY DEF HitsDue, Uncounted, At
  <1>2. \A p : /\ At(p, H) \in Nat /\ At(p, H)' \in Nat
               /\ At(p, U) \in Nat /\ At(p, U)' \in Nat
    BY AtMoves
  <1>3. ASSUME NEW p, p # Home[w] PROVE At(p, H)' = At(p, H) /\ At(p, U)' = At(p, U)
    BY <1>3 DEF At
  <1>4. /\ At(Home[w], H)' = At(Home[w], H) - Due(w) + Due(w)'
        /\ At(Home[w], U)' = At(Home[w], U) - Open(w) + Open(w)'
    <2> DEFINE h == Home[w]
    <2>1. /\ At(h, H)' = At(h, H) - One(Home[w] = h /\ pc[w] \in H)
                               + One(Home[w] = h /\ pc'[w] \in H)
          /\ At(h, U)' = At(h, U) - One(Home[w] = h /\ pc[w] \in U)
                               + One(Home[w] = h /\ pc'[w] \in U)
      BY AtMoves
    <2>2. /\ One(Home[w] = h /\ pc[w] \in H) = Due(w)
          /\ One(Home[w] = h /\ pc'[w] \in H) = Due(w)'
          /\ One(Home[w] = h /\ pc[w] \in U) = Open(w)
          /\ One(Home[w] = h /\ pc'[w] \in U) = Open(w)'
      BY DEF One, Due, Open
    <2> QED
      BY <2>1, <2>2
  <1> QED
    BY <1>1, <1>2, <1>3, <1>4

LEMMA InitCounted == Init => Counted
  <1> SUFFICES ASSUME Init PROVE Counted
    OBVIOUS
  <1>1. /\ \A w \in Workers : pc[w] = "idle" /\ Home[w] \in Processes
        /\ \A p \in Processes : /\ hits[p] = 0 /\ misses[p] = 0 /\ gets[p] = 0
                                /\ unreadable[p] = 0
    BY RedisCacheAssumption DEF Init
  <1>2. ASSUME NEW p PROVE HitsDue(p) = 0 /\ Uncounted(p) = 0
    <2>1. /\ {w \in Workers : Home[w] = p /\ pc[w] \in {"hit", "store_hit"}} = {}
          /\ {w \in Workers : Home[w] = p /\ pc[w] \in {"hit", "miss"} \cup Counting} = {}
      BY <1>1 DEF Counting
    <2> QED
      BY <2>1, FS_EmptySet DEF HitsDue, Uncounted, At
  <1>3. \A p \in Processes : BoundedAt(p) /\ ExactAt(p)
    BY <1>1, <1>2 DEF BoundedAt, ExactAt
  <1>4. \A w \in Workers : BackedBy(w) /\ UnracedBy(w)
    BY <1>1 DEF BackedBy, UnracedBy, Counting
  <1> QED
    BY <1>3, <1>4 DEF Counted

(* Steps between two places where nothing is about to be counted. *)
LEMMA QuietCounted ==
    ASSUME IInv, Counted, NEW w \in Workers,
           \A v \in Workers \ {w} : pc'[v] = pc[v],
           pc[w] \in {"idle", "get", "layers", "set", "return"},
           pc'[w] \in {"idle", "get", "layers", "set", "return"},
           UNCHANGED countVars
    PROVE  Counted'
  <1>1. Due(w) = 0 /\ Due(w)' = 0 /\ Open(w) = 0 /\ Open(w)' = 0
    BY DEF Due, Open, One, Counting
  <1>2. \A p : HitsDue(p)' = HitsDue(p) /\ Uncounted(p)' = Uncounted(p)
    BY <1>1, CountsMove
  <1>3. \A p \in Processes : BoundedAt(p)' /\ ExactAt(p)'
    BY <1>2 DEF Counted, BoundedAt, ExactAt, countVars
  <1>4. \A v \in Workers : BackedBy(v)'
    BY <1>2 DEF Counted, BackedBy, countVars
  <1>5. \A v \in Workers : UnracedBy(v)'
    BY DEF Counted, UnracedBy, Counting, countVars
  <1> QED
    BY <1>3, <1>4, <1>5 DEF Counted

(* A step that counts for one process leaves the others as they are. *)
LEMMA CountedHere ==
    ASSUME IInv, Counted, NEW w \in Workers, NEW h, h = Home[w],
           \A v \in Workers \ {w} : pc'[v] = pc[v] /\ loaded'[v] = loaded[v],
           \A p \in Processes \ {h} :
              /\ hits'[p] = hits[p] /\ misses'[p] = misses[p] /\ gets'[p] = gets[p]
              /\ unreadable'[p] = unreadable[p] /\ raced'[p] = raced[p],
           BoundedAt(h)', ExactAt(h)',
           \A v \in Workers : Home[v] = h => BackedBy(v)' /\ UnracedBy(v)'
    PROVE  Counted'
  <1>1. h \in Processes /\ \A v \in Workers : Home[v] \in Processes
    BY RedisCacheAssumption
  <1>2. \A p : p # h => HitsDue(p)' = HitsDue(p) /\ Uncounted(p)' = Uncounted(p)
    BY CountsMove
  <1>3. ASSUME NEW p \in Processes, p # h PROVE BoundedAt(p)' /\ ExactAt(p)'
    BY <1>2, <1>3 DEF Counted, BoundedAt, ExactAt
  <1>4. ASSUME NEW v \in Workers, Home[v] # h PROVE BackedBy(v)'
    BY <1>1, <1>2, <1>4 DEF Counted, BackedBy
  <1>5. ASSUME NEW v \in Workers, Home[v] # h PROVE UnracedBy(v)'
    <2>1. \A u \in Workers : Home[u] = Home[v] => pc'[u] = pc[u]
      BY <1>5
    <2> QED
      BY <1>1, <1>5, <2>1 DEF Counted, UnracedBy
  <1> QED
    BY <1>3, <1>4, <1>5 DEF Counted

LEMMA CountTypes ==
    ASSUME IInv
    PROVE  /\ \A p \in Processes : /\ hits[p] \in Nat /\ misses[p] \in Nat
                                   /\ gets[p] \in Nat /\ unreadable[p] \in Nat
           /\ \A w \in Workers : loaded[w] \in Nat /\ Home[w] \in Processes
  BY RedisCacheAssumption DEF IInv, TypeInv, TypeOK, MoreTypes

LEMMA GetCounted ==
    ASSUME IInv, Counted, NEW w \in Workers, Get(w) PROVE Counted'
  <1> DEFINE h == Home[w]
             n == HitsDue(h)   n1 == HitsDue(h)'
             m == Uncounted(h) m1 == Uncounted(h)'
             g == gets[h]      g1 == gets'[h]
             i == hits[h]      j == misses[h]   e == unreadable[h]
  <1>1. /\ pc[w] = "get" /\ pc'[w] \in {"hit", "miss"} /\ h \in Processes
        /\ \A v \in Workers \ {w} : pc'[v] = pc[v]
        /\ UNCHANGED <<hits, misses, loaded, unreadable, raced>>
        /\ g1 = g + 1 /\ \A p \in Processes \ {h} : gets'[p] = gets[p]
    BY CountTypes DEF Get, Goto, IInv, TypeInv, TypeOK
  <1>2. Due(w) = 0 /\ Due(w)' \in {0, 1} /\ Open(w) = 0 /\ Open(w)' = 1
    BY <1>1 DEF Due, Open, One, Counting
  <1>3. n1 \in {n, n + 1} /\ m1 = m + 1 /\ n \in Nat /\ m \in Nat
    BY <1>1, <1>2, CountsMove
  <1>4. /\ i \in Nat /\ j \in Nat /\ g \in Nat /\ e \in Nat
        /\ i + n <= g /\ j + m <= g
        /\ ~raced[h] => i + j + m = g + e
    BY <1>1, CountTypes DEF Counted, BoundedAt, ExactAt
  <1>5. ASSUME NEW v \in Workers, Home[v] = h
        PROVE  BackedBy(v)' /\ UnracedBy(v)'
    <2> DEFINE l == loaded[v]
    <2>1. /\ pc[v] = "store_hit" => l + n <= g
          /\ pc[v] = "store_miss" => l + m <= g
          /\ l \in Nat
      BY <1>5, CountTypes DEF Counted, BackedBy
    <2>2. /\ pc'[v] = "store_hit" => pc[v] = "store_hit"
          /\ pc'[v] = "store_miss" => pc[v] = "store_miss"
      BY <1>1
    <2> HIDE DEF h, n, n1, m, m1, g, g1, i, j, e, l
    <2>3. /\ pc'[v] = "store_hit" => l + n1 <= g1
          /\ pc'[v] = "store_miss" => l + m1 <= g1
      BY <1>1, <1>3, <1>4, <2>1, <2>2
    <2>4. BackedBy(v)'
      BY <1>1, <1>5, <2>3 DEF BackedBy, n1, m1, g1, l, h
    <2>5. UnracedBy(v)'
      BY <1>1, <1>5 DEF Counted, UnracedBy, Counting, h
    <2> QED
      BY <2>4, <2>5
  <1> HIDE DEF h, n, n1, m, m1, g, g1, i, j, e
  <1>6. i + n1 <= g1 /\ j + m1 <= g1 /\ (~raced[h] => i + j + m1 = g1 + e)
    BY <1>1, <1>3, <1>4
  <1>7. BoundedAt(h)' /\ ExactAt(h)'
    BY <1>1, <1>6 DEF BoundedAt, ExactAt, n1, m1, g1, i, j, e
  <1>8. h = Home[w]
    BY DEF h
  <1> QED
    BY <1>1, <1>5, <1>7, <1>8, CountedHere

LEMMA LoadCounted ==
    ASSUME IInv, Counted, NEW w \in Workers, LoadCounter(w) PROVE Counted'
  <1> DEFINE h == Home[w]
  <1>1. /\ h \in Processes
        /\ \A v \in Workers \ {w} : pc'[v] = pc[v] /\ loaded'[v] = loaded[v]
        /\ UNCHANGED <<hits, misses, gets, unreadable>>
        /\ \A p \in Processes \ {h} : raced'[p] = raced[p]
        /\ ~raced'[h] => ~raced[h] /\ \A u \in Workers \ {w} :
                                         Home[u] = h => pc[u] # pc'[w]
        /\ \/ pc[w] = "hit" /\ pc'[w] = "store_hit" /\ loaded'[w] = hits[h]
           \/ pc[w] = "miss" /\ pc'[w] = "store_miss" /\ loaded'[w] = misses[h]
    BY CountTypes DEF LoadCounter, Goto, IInv, TypeInv, TypeOK, MoreTypes
  <1>2. Due(w)' = Due(w) /\ Open(w)' = Open(w) /\ Due(w) \in Nat /\ Open(w) \in Nat
    BY <1>1 DEF Due, Open, One, Counting
  <1>3. HitsDue(h)' = HitsDue(h) /\ Uncounted(h)' = Uncounted(h)
    BY <1>1, <1>2, CountsMove
  <1>4. BoundedAt(h)' /\ ExactAt(h)'
    BY <1>1, <1>3 DEF Counted, BoundedAt, ExactAt
  <1>5. ASSUME NEW v \in Workers, Home[v] = h
        PROVE  BackedBy(v)' /\ UnracedBy(v)'
    <2>1. CASE v = w
      <3>1. BackedBy(v)'
        BY <1>1, <1>3, <1>4, <2>1 DEF BackedBy, BoundedAt
      <3>2. UnracedBy(v)'
        BY <1>1, <2>1 DEF UnracedBy, Counting
      <3> QED
        BY <3>1, <3>2
    <2>2. CASE v # w
      <3>1. BackedBy(v)'
        BY <1>1, <1>3, <1>5, <2>2 DEF Counted, BackedBy
      <3>2. UnracedBy(v)'
        BY <1>1, <1>5, <2>2 DEF Counted, UnracedBy, Counting
      <3> QED
        BY <3>1, <3>2
    <2> QED
      BY <2>1, <2>2
  <1>6. h = Home[w]
    OBVIOUS
  <1> HIDE DEF h
  <1> QED
    BY <1>1, <1>4, <1>5, <1>6, CountedHere

LEMMA StoreHitCounted ==
    ASSUME IInv, Counted, NEW w \in Workers, StoreHit(w) PROVE Counted'
  <1> DEFINE h == Home[w]
             n == HitsDue(h)   n1 == HitsDue(h)'
             m == Uncounted(h) m1 == Uncounted(h)'
             g == gets[h]      i == hits[h]   i1 == hits'[h]   j == misses[h]
             e == unreadable[h]  e1 == unreadable'[h]
             l == loaded[w]
  <1>1. /\ h \in Processes /\ pc[w] = "store_hit"
        /\ \A v \in Workers \ {w} : pc'[v] = pc[v]
        /\ \A v \in Workers \ {w} : loaded'[v] = loaded[v]
        /\ UNCHANGED <<misses, gets, raced>>
        /\ i1 = l + 1
        /\ \A p \in Processes \ {h} : hits'[p] = hits[p] /\ unreadable'[p] = unreadable[p]
        /\ \/ pc'[w] = "return" /\ e1 = e
           \/ pc'[w] = "miss" /\ e1 = e + 1
    BY CountTypes DEF StoreHit, AfterHit, Goto, IInv, TypeInv, TypeOK, MoreTypes
  <1>2. /\ Due(w) = 1 /\ Due(w)' = 0 /\ Open(w) = 1
        /\ pc'[w] = "return" => Open(w)' = 0
        /\ pc'[w] = "miss" => Open(w)' = 1
    BY <1>1 DEF Due, Open, One, Counting
  <1>3. /\ n1 = n - 1 /\ n \in Nat /\ m \in Nat
        /\ \/ e1 = e /\ m1 = m - 1
           \/ e1 = e + 1 /\ m1 = m
    <2>1. n \in Nat /\ m \in Nat /\ n1 = n - Due(w) + Due(w)' /\ m1 = m - Open(w) + Open(w)'
      BY <1>1, CountsMove
    <2> HIDE DEF n, n1, m, m1, e, e1
    <2>2. CASE pc'[w] = "return" /\ e1 = e
      BY <1>2, <2>1, <2>2
    <2>3. CASE pc'[w] = "miss" /\ e1 = e + 1
      BY <1>2, <2>1, <2>3
    <2> QED
      BY <1>1, <2>2, <2>3
  <1>4. /\ i \in Nat /\ j \in Nat /\ g \in Nat /\ e \in Nat /\ l \in Nat
        /\ j + m <= g /\ l + n <= g
        /\ ~raced[h] => i + j + m = g + e /\ l = i
    <2>1. BoundedAt(h) /\ ExactAt(h) /\ BackedBy(w) /\ UnracedBy(w)
      BY <1>1 DEF Counted
    <2> QED
      BY <1>1, <2>1, CountTypes DEF BoundedAt, ExactAt, BackedBy, UnracedBy
  <1>5. ASSUME NEW v \in Workers, Home[v] = h
        PROVE  BackedBy(v)' /\ UnracedBy(v)'
    <2>1. CASE v = w
      BY <1>1, <2>1 DEF BackedBy, UnracedBy, Counting
    <2>2. CASE v # w
      <3> DEFINE k == loaded[v]
      <3>1. /\ pc[v] = "store_hit" => k + n <= g
            /\ pc[v] = "store_miss" => k + m <= g
            /\ k \in Nat
        BY <1>5, CountTypes DEF Counted, BackedBy
      <3> HIDE DEF h, n, n1, m, m1, g, i, i1, j, e, e1, l, k
      <3>2. /\ pc[v] = "store_hit" => k + n1 <= g
            /\ pc[v] = "store_miss" => k + m1 <= g
        BY <1>3, <1>4, <3>1
      <3>3. BackedBy(v)'
        BY <1>1, <1>5, <2>2, <3>2 DEF BackedBy, n1, m1, g, k, h
      <3>4. ~raced[h] => pc[v] # "store_hit"
        BY <1>1, <1>5, <2>2 DEF Counted, UnracedBy, Counting, h
      <3>5. UnracedBy(v)'
        BY <1>1, <1>5, <2>2, <3>4 DEF Counted, UnracedBy, Counting, h
      <3> QED
        BY <3>3, <3>5
    <2> QED
      BY <2>1, <2>2
  <1> HIDE DEF h, n, n1, m, m1, g, i, i1, j, e, e1, l
  <1>6. i1 + n1 <= g /\ j + m1 <= g /\ (~raced[h] => i1 + j + m1 = g + e1)
    BY <1>1, <1>3, <1>4
  <1>7. BoundedAt(h)' /\ ExactAt(h)'
    BY <1>1, <1>6 DEF BoundedAt, ExactAt, n1, m1, g, i1, j, e1
  <1>8. h = Home[w]
    BY DEF h
  <1> QED
    BY <1>1, <1>5, <1>7, <1>8, CountedHere

LEMMA StoreMissCounted ==
    ASSUME IInv, Counted, NEW w \in Workers, StoreMiss(w) PROVE Counted'
  <1> DEFINE h == Home[w]
             n == HitsDue(h)   n1 == HitsDue(h)'
             m == Uncounted(h) m1 == Uncounted(h)'
             g == gets[h]      i == hits[h]   j == misses[h]   j1 == misses'[h]
             e == unreadable[h]
             l == loaded[w]
  <1>1. /\ h \in Processes /\ pc[w] = "store_miss" /\ pc'[w] = "layers"
        /\ \A v \in Workers \ {w} : pc'[v] = pc[v]
        /\ \A v \in Workers \ {w} : loaded'[v] = loaded[v]
        /\ UNCHANGED <<hits, gets, raced, unreadable>>
        /\ j1 = l + 1
        /\ \A p \in Processes \ {h} : misses'[p] = misses[p]
    BY CountTypes DEF StoreMiss, Goto, IInv, TypeInv, TypeOK, MoreTypes
  <1>2. Due(w) = 0 /\ Due(w)' = 0 /\ Open(w) = 1 /\ Open(w)' = 0
    BY <1>1 DEF Due, Open, One, Counting
  <1>3. n1 = n /\ m1 = m - 1 /\ n \in Nat /\ m \in Nat
    BY <1>1, <1>2, CountsMove
  <1>4. /\ i \in Nat /\ j \in Nat /\ g \in Nat /\ e \in Nat /\ l \in Nat
        /\ i + n <= g /\ l + m <= g
        /\ ~raced[h] => i + j + m = g + e /\ l = j
    <2>1. BoundedAt(h) /\ ExactAt(h) /\ BackedBy(w) /\ UnracedBy(w)
      BY <1>1 DEF Counted
    <2> QED
      BY <1>1, <2>1, CountTypes DEF BoundedAt, ExactAt, BackedBy, UnracedBy
  <1>5. ASSUME NEW v \in Workers, Home[v] = h
        PROVE  BackedBy(v)' /\ UnracedBy(v)'
    <2>1. CASE v = w
      BY <1>1, <2>1 DEF BackedBy, UnracedBy, Counting
    <2>2. CASE v # w
      <3> DEFINE k == loaded[v]
      <3>1. /\ pc[v] = "store_hit" => k + n <= g
            /\ pc[v] = "store_miss" => k + m <= g
            /\ k \in Nat
        BY <1>5, CountTypes DEF Counted, BackedBy
      <3> HIDE DEF h, n, n1, m, m1, g, i, j, j1, e, l, k
      <3>2. /\ pc[v] = "store_hit" => k + n1 <= g
            /\ pc[v] = "store_miss" => k + m1 <= g
        BY <1>3, <1>4, <3>1
      <3>3. BackedBy(v)'
        BY <1>1, <1>5, <2>2, <3>2 DEF BackedBy, n1, m1, g, k, h
      <3>4. ~raced[h] => pc[v] # "store_miss"
        BY <1>1, <1>5, <2>2 DEF Counted, UnracedBy, Counting, h
      <3>5. UnracedBy(v)'
        BY <1>1, <1>5, <2>2, <3>4 DEF Counted, UnracedBy, Counting, h
      <3> QED
        BY <3>3, <3>5
    <2> QED
      BY <2>1, <2>2
  <1> HIDE DEF h, n, n1, m, m1, g, i, j, j1, e, l
  <1>6. i + n1 <= g /\ j1 + m1 <= g /\ (~raced[h] => i + j1 + m1 = g + e)
    BY <1>1, <1>3, <1>4
  <1>7. BoundedAt(h)' /\ ExactAt(h)'
    BY <1>1, <1>6 DEF BoundedAt, ExactAt, n1, m1, g, i, j1, e
  <1>8. h = Home[w]
    BY DEF h
  <1> QED
    BY <1>1, <1>5, <1>7, <1>8, CountedHere

(* The threads of a process that restarts are gone, and so are its counts. *)
LEMMA RestartCounted ==
    ASSUME IInv, Counted, NEW p \in Processes, NEW v \in Versions, Restart(p, v)
    PROVE  Counted'
  <1>1. /\ hits'[p] = 0 /\ misses'[p] = 0 /\ gets'[p] = 0 /\ unreadable'[p] = 0
        /\ \A q \in Processes \ {p} :
              /\ hits'[q] = hits[q] /\ misses'[q] = misses[q] /\ gets'[q] = gets[q]
              /\ unreadable'[q] = unreadable[q] /\ raced'[q] = raced[q]
        /\ \A w \in Workers : pc'[w] = IF Home[w] = p THEN "idle" ELSE pc[w]
        /\ loaded' = loaded
    BY DEF Restart, IInv, TypeInv, TypeOK, MoreTypes
  <1>2. HitsDue(p)' = 0 /\ Uncounted(p)' = 0
    <2>1. /\ {w \in Workers : Home[w] = p /\ pc'[w] \in {"hit", "store_hit"}} = {}
          /\ {w \in Workers : Home[w] = p /\ pc'[w] \in {"hit", "miss"} \cup Counting} = {}
      BY <1>1 DEF Counting
    <2> QED
      BY <2>1, FS_EmptySet DEF HitsDue, Uncounted, At
  <1>3. ASSUME NEW q, q # p PROVE HitsDue(q)' = HitsDue(q) /\ Uncounted(q)' = Uncounted(q)
    BY <1>1, <1>3 DEF HitsDue, Uncounted, At
  <1>4. BoundedAt(p)' /\ ExactAt(p)'
    BY <1>1, <1>2 DEF BoundedAt, ExactAt
  <1>5. ASSUME NEW q \in Processes, q # p PROVE BoundedAt(q)' /\ ExactAt(q)'
    BY <1>1, <1>3, <1>5 DEF Counted, BoundedAt, ExactAt
  <1>6. ASSUME NEW w \in Workers PROVE BackedBy(w)' /\ UnracedBy(w)'
    <2>1. CASE Home[w] = p
      BY <1>1, <2>1 DEF BackedBy, UnracedBy, Counting
    <2>2. CASE Home[w] # p
      <3>1. Home[w] \in Processes
        BY CountTypes
      <3>2. BackedBy(w)'
        BY <1>1, <1>3, <2>2, <3>1 DEF Counted, BackedBy
      <3>3. UnracedBy(w)'
        BY <1>1, <2>2, <3>1 DEF Counted, UnracedBy
      <3> QED
        BY <3>2, <3>3
    <2> QED
      BY <2>1, <2>2
  <1> QED
    BY <1>4, <1>5, <1>6 DEF Counted

LEMMA StillCounted ==
    ASSUME Counted, UNCHANGED <<countVars, pc>> PROVE Counted'
  BY DEF Counted, BoundedAt, ExactAt, BackedBy, UnracedBy, HitsDue, Uncounted, At,
         countVars

LEMMA CountedInductive == IInv /\ Counted /\ [Next]_vars => Counted'
  <1> SUFFICES ASSUME IInv, Counted, [Next]_vars PROVE Counted'
    OBVIOUS
  <1>1. ASSUME NEW w \in Workers,
               \/ Layers(w) \/ Set(w) \/ RedisFails(w) \/ Return(w)
               \/ \E k \in Keys : Begin(w, k)
        PROVE  Counted'
    <2>1. /\ pc[w] \in {"idle", "get", "layers", "set", "return"}
          /\ pc'[w] \in {"idle", "get", "layers", "set", "return"}
          /\ \A v \in Workers \ {w} : pc'[v] = pc[v]
          /\ UNCHANGED countVars
      BY <1>1 DEF Layers, Set, RedisFails, Return, Begin, Goto, IInv, TypeInv, TypeOK
    <2> QED
      BY <2>1, QuietCounted
  <1>2. ASSUME NEW w \in Workers, Step(w) PROVE Counted'
    BY <1>1, <1>2, GetCounted, LoadCounted, StoreHitCounted, StoreMissCounted DEF Step
  <1>3. Tick \/ UNCHANGED vars => Counted'
    BY StillCounted DEF Tick, vars, workerVars
  <1> QED
    BY <1>1, <1>2, <1>3, RestartCounted DEF Next, Finished

(* stats() never shows more hits or misses than lookups, however many      *)
(* updates are lost; without a race the two add up, with one more for each *)
(* payload that is JSON but no GuardResult (cache.py:118-134).             *)
THEOREM CountersBounded == Spec => []CountersAddUp
  <1>1. IInv /\ Counted => CountersAddUp
    <2> SUFFICES ASSUME IInv, Counted, NEW p \in Processes
                 PROVE  /\ hits[p] <= gets[p] /\ misses[p] <= gets[p]
                        /\ ~raced[p] =>
                              hits[p] + misses[p] + Uncounted(p) = gets[p] + unreadable[p]
      BY DEF CountersAddUp
    <2>1. HitsDue(p) \in Nat /\ Uncounted(p) \in Nat
      BY RedisCacheAssumption, FS_Subset, FS_CardinalityType DEF HitsDue, Uncounted, At
    <2> QED
      BY <2>1, CountTypes DEF Counted, BoundedAt, ExactAt
  <1> QED
    BY <1>1, InitCounted, CountedInductive, Invariant, PTL DEF Spec
=============================================================================
