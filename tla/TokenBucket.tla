---------------------------- MODULE TokenBucket ----------------------------
(***************************************************************************)
(* TokenBucketLimiter (domain_guard/ratelimit.py), shared by the worker    *)
(* threads of the sidecar.  take() reads time.time() and only then takes   *)
(* the lock, so two threads can update a bucket in the opposite order of   *)
(* their clock readings; the model keeps that gap as two actions.          *)
(*                                                                         *)
(* Tokens and time are integers: a unit of time is a clock tick and        *)
(* RefillRate is the number of tokens a tick is worth.                     *)
(***************************************************************************)
EXTENDS Integers, FiniteSets

CONSTANTS
    Workers,        \* threads of the server's pool
    Keys,           \* rate-limit keys: user:<id> or ip:<address>
    Capacity,       \* bucket size
    RefillRate,     \* refill_per_sec
    Costs,          \* the cost argument of take(); the sidecar uses 1
    NoBucket,       \* a key without a bucket
    MaxTakes,       \* bound: calls of take()
    MaxClock        \* bound: ticks of time.time()

ASSUME LimiterAssumption ==
    /\ Capacity \in Nat \ {0}
    /\ RefillRate \in Nat \ {0}
    /\ Costs \subseteq Nat
    /\ NoBucket \notin [tokens : Int, last : Int]

VARIABLES
    clock,      \* time.time()
    bucket,     \* _buckets: NoBucket, or tokens and the time they were counted
    allowed,    \* _allowed
    rejected,   \* _rejected
    pc,         \* "idle", or "locking": between the clock reading and the lock
    key, cost,  \* the arguments of each worker's call
    now,        \* the clock reading of each worker's call
    taken,      \* history: tokens granted to each key
    since,      \* history: when each key's bucket was created
    rewound,    \* history: by how much each bucket's time was moved back
    fullAt      \* history: the reset time promised by each key's last answer

vars == <<clock, bucket, allowed, rejected, pc, key, cost, now,
          taken, since, rewound, fullAt>>

-----------------------------------------------------------------------------
Init ==
    /\ clock = 0
    /\ bucket = [k \in Keys |-> NoBucket]
    /\ allowed = 0 /\ rejected = 0
    /\ pc = [w \in Workers |-> "idle"]
    /\ key \in [Workers -> Keys]
    /\ cost \in [Workers -> Costs]
    /\ now = [w \in Workers |-> 0]
    /\ taken = [k \in Keys |-> 0]
    /\ since = [k \in Keys |-> 0]
    /\ rewound = [k \in Keys |-> 0]
    /\ fullAt = [k \in Keys |-> 0]

(* take(key, cost) reads the clock. *)
Takes == allowed + rejected + Cardinality({w \in Workers : pc[w] # "idle"})

Call(w, k, c) ==
    /\ pc[w] = "idle"
    /\ Takes < MaxTakes
    /\ pc' = [pc EXCEPT ![w] = "locking"]
    /\ key' = [key EXCEPT ![w] = k]
    /\ cost' = [cost EXCEPT ![w] = c]
    /\ now' = [now EXCEPT ![w] = clock]
    /\ UNCHANGED <<clock, bucket, allowed, rejected, taken, since, rewound,
                   fullAt>>

(* The time a call stores with the tokens it leaves. *)
\* Mutant of Stamp: the bucket keeps the time it was found with.
StampForgotten(w) ==
    IF bucket[key[w]] = NoBucket THEN now[w] ELSE bucket[key[w]].last

Stamp(w) == now[w]

(* The bucket a call finds: the stored one, or a full one of this instant. *)
Found(w) ==
    IF bucket[key[w]] = NoBucket
    THEN [tokens |-> Capacity, last |-> now[w]]
    ELSE bucket[key[w]]

Elapsed(last, t) == IF t > last THEN t - last ELSE 0

\* Mutant of Refilled: min(capacity, ...) is left out.
RefilledUncapped(b, t) == b.tokens + Elapsed(b.last, t) * RefillRate

Refilled(b, t) ==
    LET sum == b.tokens + Elapsed(b.last, t) * RefillRate
    IN  IF sum > Capacity THEN Capacity ELSE sum

\* Mutant of Affordable: a token is enough, whatever the cost.
AffordableAny(tokens, c) == tokens >= 1

Affordable(tokens, c) == tokens >= c

(* reset_in, rounded up to a tick: when the bucket is full again. *)
\* Mutant of ResetIn: rounded down.
ResetInFloor(tokens) == (Capacity - tokens) \div RefillRate

ResetIn(tokens) == (Capacity - tokens + RefillRate - 1) \div RefillRate

(* The locked part of take(). *)
Settle(w, tokens) ==
    LET k == key[w] IN
    /\ bucket' = [bucket EXCEPT ![k] = [tokens |-> tokens, last |-> Stamp(w)]]
    /\ since' = [since EXCEPT ![k] = IF bucket[k] = NoBucket THEN now[w] ELSE @]
    /\ rewound' = [rewound EXCEPT ![k] = @ + Elapsed(now[w], Found(w).last)]
    /\ fullAt' = [fullAt EXCEPT ![k] = now[w] + ResetIn(tokens)]
    /\ pc' = [pc EXCEPT ![w] = "idle"]
    /\ UNCHANGED <<clock, key, cost, now>>

Allow(w) ==
    LET tokens == Refilled(Found(w), now[w]) IN
    /\ pc[w] = "locking"
    /\ Affordable(tokens, cost[w])
    /\ allowed' = allowed + 1
    /\ taken' = [taken EXCEPT ![key[w]] = @ + cost[w]]
    /\ Settle(w, tokens - cost[w])
    /\ UNCHANGED rejected

Reject(w) ==
    LET tokens == Refilled(Found(w), now[w]) IN
    /\ pc[w] = "locking"
    /\ ~Affordable(tokens, cost[w])
    /\ rejected' = rejected + 1
    /\ Settle(w, tokens)
    /\ UNCHANGED <<allowed, taken>>

Tick ==
    /\ clock < MaxClock
    /\ clock' = clock + 1
    /\ UNCHANGED <<bucket, allowed, rejected, pc, key, cost, now, taken, since,
                   rewound, fullAt>>

(* Both bounds reached and no call in progress. *)
Finished ==
    /\ Takes = MaxTakes /\ clock = MaxClock
    /\ \A w \in Workers : pc[w] = "idle"
    /\ UNCHANGED vars

Next ==
    \/ Tick
    \/ \E w \in Workers :
          \/ \E k \in Keys, c \in Costs : Call(w, k, c)
          \/ Allow(w) \/ Reject(w)
    \/ Finished

Spec == Init /\ [][Next]_vars

-----------------------------------------------------------------------------
TypeOK ==
    /\ clock \in Nat
    /\ bucket \in [Keys -> [tokens : Int, last : Int] \cup {NoBucket}]
    /\ allowed \in Nat /\ rejected \in Nat
    /\ pc \in [Workers -> {"idle", "locking"}]
    /\ key \in [Workers -> Keys]
    /\ cost \in [Workers -> Costs]
    /\ now \in [Workers -> Nat]
    /\ taken \in [Keys -> Nat]
    /\ since \in [Keys -> Nat]
    /\ rewound \in [Keys -> Nat]
    /\ fullAt \in [Keys -> Int]

Buckets == {k \in Keys : bucket[k] # NoBucket}

(* A bucket holds between none and `capacity` tokens, and its time is one  *)
(* that some call has read (ratelimit.py:37-38).                           *)
TokensInRange ==
    \A k \in Buckets : /\ bucket[k].tokens \in 0 .. Capacity
                       /\ bucket[k].last <= clock

(* What the limiter does guarantee when threads race: what a key was       *)
(* granted and still holds is at most its capacity and what the elapsed    *)
(* time is worth, where time by which a late writer moved the bucket back  *)
(* counts twice, since it is refilled twice (ratelimit.py:54-66).          *)
GrantBound ==
    \A k \in Buckets :
        taken[k] + bucket[k].tokens
            <= Capacity + RefillRate * (bucket[k].last - since[k] + rewound[k])

(* A caller told to wait for reset_in, alone on its key, is served when it *)
(* comes back then, if it does not ask for more than the capacity          *)
(* (ratelimit.py:67 and the Retry-After header of sidecar.py:322).         *)
ResetIsHonest ==
    [][\A w \in Workers :
          (/\ pc[w] = "locking" /\ pc'[w] = "idle"
           /\ key[w] \in Buckets
           /\ now[w] >= fullAt[key[w]]
           /\ cost[w] <= Capacity)
              => allowed' = allowed + 1]_vars

(* What ratelimit.py:35-38 promises, a bucket "holding up to `capacity`    *)
(* tokens, refilling at `refill_per_sec`", is kept for the keys whose      *)
(* calls took the lock in the order of their clock readings.  For others   *)
(* it is not: GrantBound says by how much they may exceed it.              *)
RateHoldsInOrder ==
    \A k \in Buckets :
        rewound[k] = 0 =>
            taken[k] <= Capacity + RefillRate * (clock - since[k])
=============================================================================
