------------------------- MODULE TokenBucket_proofs -------------------------
(***************************************************************************)
(* Proofs about TokenBucket, for any set of threads and keys, capacity,    *)
(* refill rate and costs, and without regard to the bounds.                *)
(***************************************************************************)
EXTENDS TokenBucket, TLAPS

(* Every clock reading is in the past. *)
ReadingsPast == \A w \in Workers : now[w] <= clock

(* A key without a bucket was granted nothing. *)
Untouched ==
    \A k \in Keys : bucket[k] = NoBucket => taken[k] = 0 /\ rewound[k] = 0

(* The inductive invariant.  GrantBound alone is not inductive: a refill   *)
(* must know that the bucket's tokens are in range, and a new bucket that  *)
(* its key has no history; that no bucket's time is in the future needs    *)
(* the same of every clock reading.                                        *)
IInv ==
    TypeOK /\ ReadingsPast /\ Untouched /\ TokensInRange /\ GrantBound

-----------------------------------------------------------------------------
(* What the refill does to a bucket: it adds no token beyond the capacity, *)
(* takes none away, and adds no more than the elapsed time is worth.       *)
LEMMA RefillFacts ==
    ASSUME NEW b \in [tokens : Int, last : Int], NEW t \in Nat,
           b.tokens \in 0 .. Capacity
    PROVE  /\ Refilled(b, t) \in b.tokens .. Capacity
           /\ Refilled(b, t) <= b.tokens + RefillRate * Elapsed(b.last, t)
           /\ Elapsed(b.last, t) \in Nat
  <1> DEFINE e == Elapsed(b.last, t)
  <1>1. e \in Nat
    BY DEF Elapsed
  <1>2. e * RefillRate \in Nat /\ e * RefillRate = RefillRate * e
    BY <1>1, LimiterAssumption
  <1> QED
    BY <1>1, <1>2, LimiterAssumption DEF Refilled

(* Time moved forward by one call and back by another adds up: what the    *)
(* bucket gains by the refill, the bound gains as well.                    *)
LEMMA RefillWithinBound ==
    ASSUME NEW g \in Int, NEW b \in [tokens : Int, last : Int], NEW t \in Nat,
           NEW s \in Int, NEW d \in Int,
           b.tokens \in 0 .. Capacity,
           g + b.tokens <= Capacity + RefillRate * (b.last - s + d)
    PROVE  g + Refilled(b, t)
               <= Capacity + RefillRate * (t - s + (d + Elapsed(t, b.last)))
  <1> DEFINE e == Elapsed(b.last, t)
             x == b.last - s + d
  <1>1. /\ Refilled(b, t) \in Int
        /\ Refilled(b, t) <= b.tokens + RefillRate * e
        /\ e \in Nat
    BY RefillFacts
  <1>2. t - s + (d + Elapsed(t, b.last)) = x + e
    BY DEF Elapsed
  <1>3. RefillRate * (x + e) = RefillRate * x + RefillRate * e
    BY <1>1, LimiterAssumption
  <1>4. RefillRate * x \in Int /\ RefillRate * e \in Int
    BY <1>1, LimiterAssumption
  <1> HIDE DEF e, x
  <1> QED
    BY <1>1, <1>2, <1>3, <1>4, LimiterAssumption DEF x

(* A later time is worth at least as many tokens. *)
LEMMA Monotone ==
    ASSUME NEW x \in Int, NEW y \in Int, x <= y
    PROVE  RefillRate * x <= RefillRate * y
  <1>1. PICK d \in Nat : y = x + d
    BY y - x \in Nat
  <1>2. RefillRate * (x + d) = RefillRate * x + RefillRate * d
    BY <1>1, LimiterAssumption
  <1>3. RefillRate * d \in Nat /\ RefillRate * x \in Int
    BY <1>1, LimiterAssumption
  <1> QED
    BY <1>1, <1>2, <1>3

-----------------------------------------------------------------------------
LEMMA InitIInv == Init => IInv
  BY LimiterAssumption
  DEF Init, IInv, TypeOK, ReadingsPast, Untouched, TokensInRange, GrantBound, Buckets

(* The tokens a call finds after the refill. *)
LEMMA RefillType ==
    ASSUME IInv, NEW w \in Workers
    PROVE  Refilled(Found(w), now[w]) \in Nat
  <1>1. /\ Found(w) \in [tokens : Int, last : Int]
        /\ Found(w).tokens \in 0 .. Capacity
        /\ now[w] \in Nat
    BY LimiterAssumption DEF IInv, TypeOK, TokensInRange, Buckets, Found
  <1> QED
    BY <1>1, RefillFacts, LimiterAssumption

(* What Allow and Reject share: c tokens of the refilled bucket are spent. *)
Spend(w, c) ==
    /\ c <= Refilled(Found(w), now[w])
    /\ Settle(w, Refilled(Found(w), now[w]) - c)
    /\ taken' = [taken EXCEPT ![key[w]] = taken[key[w]] + c]
    /\ allowed' \in Nat /\ rejected' \in Nat

(* Spending tokens that are there keeps the invariant. *)
LEMMA SpendIInv ==
    ASSUME IInv, NEW w \in Workers, NEW c \in Nat, Spend(w, c)
    PROVE  IInv'
  <1> DEFINE k == key[w]
             b == Found(w)
             t == now[w]
             r == Refilled(b, t)
  <1> USE LimiterAssumption DEF Spend
  <1>1. /\ k \in Keys /\ t \in Nat /\ t <= clock
        /\ b \in [tokens : Int, last : Int]
        /\ b.tokens \in 0 .. Capacity
    BY DEF IInv, TypeOK, ReadingsPast, TokensInRange, Buckets, Found
  <1>2. /\ r \in 0 .. Capacity
        /\ r - c \in 0 .. Capacity
        /\ Elapsed(t, b.last) \in Nat
    <2>1. r \in b.tokens .. Capacity
      BY <1>1, RefillFacts
    <2>2. Elapsed(t, b.last) \in Nat
      BY <1>1 DEF Elapsed
    <2> QED
      BY <1>1, <2>1, <2>2
  <1> HIDE DEF r
  <1>3. TypeOK'
    <2>1. ResetIn(r - c) \in Int
      BY <1>2 DEF ResetIn
    <2>2. Settle(w, r - c)
      BY DEF r
    <2> HIDE DEF b
    <2>3. bucket' = [bucket EXCEPT ![k] = [tokens |-> r - c, last |-> t]]
      BY <2>2 DEF Settle, Stamp
    <2>4. /\ since' \in [Keys -> Nat]
          /\ pc' \in [Workers -> {"idle", "locking"}]
          /\ fullAt' \in [Keys -> Int]
      BY <1>1, <2>1, <2>2 DEF Settle, IInv, TypeOK
    <2>5. rewound' \in [Keys -> Nat]
      BY <1>1, <1>2, <2>2 DEF Settle, IInv, TypeOK, b
    <2>6. taken' \in [Keys -> Nat]
      BY <1>1 DEF IInv, TypeOK
    <2> QED
      BY <1>1, <1>2, <2>2, <2>3, <2>4, <2>5, <2>6 DEF Settle, IInv, TypeOK
  <1>4. /\ bucket' = [bucket EXCEPT ![k] = [tokens |-> r - c, last |-> t]]
        /\ clock' = clock /\ now' = now
    BY DEF Settle, Stamp, r
  <1>5. ReadingsPast'
    BY <1>4 DEF IInv, ReadingsPast
  <1>6. TokensInRange'
    BY <1>1, <1>2, <1>4 DEF IInv, TypeOK, TokensInRange, Buckets
  <1>7. GrantBound'
    <2> SUFFICES ASSUME NEW j \in Keys, j \in Buckets'
                 PROVE  taken'[j] + bucket'[j].tokens
                          <= Capacity + RefillRate *
                               (bucket'[j].last - since'[j] + rewound'[j])
      BY DEF GrantBound, Buckets
    <2>1. CASE j # k
      BY <2>1, <1>1, <1>4 DEF Settle, IInv, TypeOK, GrantBound, Buckets
    <2>2. CASE j = k
      <3> DEFINE s == since'[k]
                 d == rewound[k]
      <3>1. /\ taken'[k] = taken[k] + c
            /\ rewound'[k] = d + Elapsed(t, b.last)
            /\ bucket'[k] = [tokens |-> r - c, last |-> t]
        BY <1>1, <1>4 DEF Settle, IInv, TypeOK
      <3>2. taken[k] \in Int /\ s \in Int /\ d \in Int
        BY <1>1, <1>3 DEF IInv, TypeOK
      <3>3. taken[k] + b.tokens <= Capacity + RefillRate * (b.last - s + d)
        <4>1. CASE bucket[k] = NoBucket
          <5>1. s = t /\ b = [tokens |-> Capacity, last |-> t]
            BY <1>1, <4>1 DEF Settle, IInv, TypeOK, Found
          <5>2. taken[k] = 0 /\ d = 0
            BY <1>1, <4>1 DEF IInv, Untouched
          <5>3. RefillRate * (t - t + 0) = 0
            BY <1>1
          <5> QED
            BY <5>1, <5>2, <5>3
        <4>2. CASE bucket[k] # NoBucket
          BY <1>1, <4>2
          DEF Settle, IInv, TypeOK, GrantBound, Buckets, Found
        <4> QED
          BY <4>1, <4>2
      <3>4. taken[k] + r
              <= Capacity + RefillRate * (t - s + (d + Elapsed(t, b.last)))
        BY <1>1, <3>2, <3>3, RefillWithinBound DEF r
      <3> QED
        BY <2>2, <3>1, <3>2, <3>4, <1>1, <1>2
    <2> QED
      BY <2>1, <2>2
  <1>8. Untouched'
    <2> SUFFICES ASSUME NEW j \in Keys, bucket'[j] = NoBucket
                 PROVE  taken'[j] = 0 /\ rewound'[j] = 0
      BY DEF Untouched
    <2>1. j # k
      BY <1>1, <1>2, <1>4 DEF IInv, TypeOK
    <2>2. bucket[j] = NoBucket /\ taken'[j] = taken[j]
      BY <1>1, <1>4, <2>1 DEF IInv, TypeOK
    <2>3. rewound'[j] = rewound[j]
      BY <2>1 DEF Settle, IInv, TypeOK
    <2> QED
      BY <2>2, <2>3 DEF IInv, Untouched
  <1> QED
    BY <1>3, <1>5, <1>6, <1>7, <1>8 DEF IInv

-----------------------------------------------------------------------------
(* Every step keeps the invariant. *)
LEMMA NextIInv == IInv /\ [Next]_vars => IInv'
  <1> SUFFICES ASSUME IInv, [Next]_vars PROVE IInv'
    OBVIOUS
  <1> USE LimiterAssumption
  <1>1. CASE Tick
    BY <1>1
    DEF Tick, IInv, TypeOK, ReadingsPast, Untouched, TokensInRange, GrantBound,
        Buckets
  <1>2. ASSUME NEW w \in Workers, NEW k \in Keys, NEW c \in Costs, Call(w, k, c)
        PROVE  IInv'
    <2>1. TypeOK' /\ ReadingsPast'
      BY <1>2 DEF Call, IInv, TypeOK, ReadingsPast
    <2> QED
      BY <1>2, <2>1
      DEF Call, IInv, Untouched, TokensInRange, GrantBound, Buckets
  <1>3. ASSUME NEW w \in Workers, Allow(w) PROVE IInv'
    <2>1. cost[w] \in Nat /\ Refilled(Found(w), now[w]) \in Nat
      BY RefillType DEF IInv, TypeOK
    <2>2. Spend(w, cost[w])
      BY <1>3, <2>1 DEF Allow, Affordable, Spend, IInv, TypeOK
    <2> QED
      BY <2>1, <2>2, SpendIInv
  <1>4. ASSUME NEW w \in Workers, Reject(w) PROVE IInv'
    <2> DEFINE r == Refilled(Found(w), now[w])
    <2>1. r \in Nat /\ Settle(w, r)
      BY <1>4, RefillType DEF Reject
    <2>2. taken' = [taken EXCEPT ![key[w]] = taken[key[w]] + 0]
      BY <1>4 DEF Reject, IInv, TypeOK
    <2>3. rejected' \in Nat /\ allowed' \in Nat
      BY <1>4 DEF Reject, IInv, TypeOK
    <2>4. r - 0 = r
      BY <2>1
    <2>5. 0 <= r /\ Settle(w, r - 0)
      <3> HIDE DEF r
      <3> QED
        BY <2>1, <2>4
    <2>6. Spend(w, 0)
      BY <2>2, <2>3, <2>5 DEF Spend
    <2> QED
      BY <2>6, SpendIInv
  <1>5. CASE UNCHANGED vars
    BY <1>5
    DEF vars, IInv, TypeOK, ReadingsPast, Untouched, TokensInRange, GrantBound,
        Buckets
  <1> QED
    BY <1>1, <1>2, <1>3, <1>4, <1>5 DEF Next, Finished

LEMMA Inductive == Spec => []IInv
  BY InitIInv, NextIInv, PTL DEF Spec

(* Every state of the limiter has the types of its fields. *)
THEOREM TypeCorrect == Spec => []TypeOK
  BY Inductive, PTL DEF IInv

(* No bucket of the limiter is ever overdrawn or overfull, whatever the    *)
(* threads' order at the lock (ratelimit.py:53-66).                        *)
THEOREM BucketsInRange == Spec => []TokensInRange
  BY Inductive, PTL DEF IInv

(* The limiter grants no more than the capacity and the refill, where the  *)
(* time a late thread moves a bucket back is refilled twice                *)
(* (ratelimit.py:54-66).                                                   *)
THEOREM GrantsBounded == Spec => []GrantBound
  BY Inductive, PTL DEF IInv

(* The documented rate does hold for every key on which no thread took the *)
(* lock later than one that read the clock after it (ratelimit.py:53-73).  *)
THEOREM RateInOrder == Spec => []RateHoldsInOrder
  <1>1. IInv => RateHoldsInOrder
    <2> SUFFICES ASSUME IInv, NEW k \in Buckets, rewound[k] = 0
                 PROVE  taken[k] <= Capacity + RefillRate * (clock - since[k])
      BY DEF RateHoldsInOrder
    <2> USE LimiterAssumption
    <2> DEFINE b == bucket[k]
               s == since[k]
    <2>1. /\ k \in Keys /\ b.last \in Int /\ b.tokens \in Nat
          /\ b.last <= clock /\ clock \in Int /\ s \in Int
          /\ taken[k] \in Int
      BY DEF IInv, TypeOK, TokensInRange, Buckets
    <2>2. taken[k] + b.tokens <= Capacity + RefillRate * (b.last - s + 0)
      BY DEF IInv, GrantBound
    <2>3. RefillRate * (b.last - s + 0) <= RefillRate * (clock - s)
      BY <2>1, Monotone
    <2>4. /\ RefillRate * (b.last - s + 0) \in Int
          /\ RefillRate * (clock - s) \in Int
      BY <2>1
    <2> HIDE DEF b, s
    <2> QED
      BY <2>1, <2>2, <2>3, <2>4 DEF b, s
  <1> QED
    BY <1>1, Inductive, PTL
-----------------------------------------------------------------------------
(* The reset time promised by a key's last answer follows from its bucket. *)
Promised ==
    \A k \in Buckets : fullAt[k] = bucket[k].last + ResetIn(bucket[k].tokens)

(* The reset time is rounded up: the ticks it names are worth at least the *)
(* tokens that are missing.                                                *)
LEMMA ResetFacts ==
    ASSUME NEW tokens \in 0 .. Capacity
    PROVE  /\ ResetIn(tokens) \in Nat
           /\ Capacity - tokens <= RefillRate * ResetIn(tokens)
  <1> USE LimiterAssumption
  <1> DEFINE x == Capacity - tokens + RefillRate - 1
             q == x \div RefillRate
  <1>1. x \in Nat /\ x = Capacity - tokens + RefillRate - 1
    OBVIOUS
  <1>2. x - RefillRate + 1 = Capacity - tokens
    BY <1>1
  <1> HIDE DEF x
  <1>3. q \in Nat /\ x < RefillRate * q + RefillRate
    BY <1>1
  <1>4. RefillRate * q \in Int
    BY <1>3
  <1>5. q = ResetIn(tokens)
    BY DEF ResetIn, x
  <1> HIDE DEF q
  <1>6. Capacity - tokens <= RefillRate * q
    BY <1>1, <1>2, <1>3, <1>4
  <1> QED
    BY <1>3, <1>5, <1>6

(* A bucket left alone until its reset time is full. *)
LEMMA FullAfterReset ==
    ASSUME NEW b \in [tokens : Int, last : Int], NEW t \in Nat,
           b.tokens \in 0 .. Capacity, t >= b.last + ResetIn(b.tokens)
    PROVE  Refilled(b, t) = Capacity
  <1> USE LimiterAssumption
  <1> DEFINE e == Elapsed(b.last, t)
             m == ResetIn(b.tokens)
  <1>1. m \in Nat /\ Capacity - b.tokens <= RefillRate * m
    BY ResetFacts
  <1>2. e \in Nat /\ m <= e
    <2>1. t - b.last >= m /\ e = IF t > b.last THEN t - b.last ELSE 0
      BY <1>1 DEF Elapsed
    <2> HIDE DEF e, m
    <2> QED
      BY <1>1, <2>1
  <1>3. RefillRate * m <= RefillRate * e
    BY <1>1, <1>2, Monotone
  <1>4. /\ RefillRate * m \in Int /\ RefillRate * e \in Int
        /\ e * RefillRate = RefillRate * e
    BY <1>1, <1>2
  <1>5. Refilled(b, t) = IF b.tokens + e * RefillRate > Capacity THEN Capacity
                         ELSE b.tokens + e * RefillRate
    BY DEF Refilled
  <1> HIDE DEF e, m
  <1> QED
    BY <1>1, <1>3, <1>4, <1>5

(* What every answer of take() does to the promise of its key. *)
LEMMA SettlePromised ==
    ASSUME IInv, Promised, NEW w \in Workers, NEW tokens \in Int, Settle(w, tokens)
    PROVE  Promised'
  <1>1. /\ key[w] \in Keys /\ now[w] \in Nat
        /\ bucket \in [Keys -> [tokens : Int, last : Int] \cup {NoBucket}]
        /\ fullAt \in [Keys -> Int]
    BY DEF IInv, TypeOK
  <1>2. /\ bucket' = [bucket EXCEPT ![key[w]] = [tokens |-> tokens, last |-> now[w]]]
        /\ fullAt' = [fullAt EXCEPT ![key[w]] = now[w] + ResetIn(tokens)]
    BY DEF Settle, Stamp
  <1>3. ASSUME NEW k \in Keys, bucket'[k] # NoBucket
        PROVE  fullAt'[k] = bucket'[k].last + ResetIn(bucket'[k].tokens)
    <2>1. CASE k = key[w]
      <3>1. /\ bucket'[k] = [tokens |-> tokens, last |-> now[w]]
            /\ fullAt'[k] = now[w] + ResetIn(tokens)
        BY <1>1, <1>2, <2>1
      <3> QED
        BY <3>1
    <2>2. CASE k # key[w]
      BY <1>1, <1>2, <1>3, <2>2 DEF Promised, Buckets
    <2> QED
      BY <2>1, <2>2
  <1> QED
    BY <1>3 DEF Promised, Buckets, ResetIn

LEMMA NextPromised == IInv /\ Promised /\ [Next]_vars => Promised'
  <1> SUFFICES ASSUME IInv, Promised, [Next]_vars PROVE Promised'
    OBVIOUS
  <1>1. ASSUME UNCHANGED <<bucket, fullAt>> PROVE Promised'
    BY <1>1 DEF Promised, Buckets, ResetIn
  <1>2. ASSUME NEW w \in Workers, Allow(w) \/ Reject(w) PROVE Promised'
    <2> DEFINE r == Refilled(Found(w), now[w])
    <2>1. r \in Int /\ r - cost[w] \in Int
      <3>1. r \in Nat
        BY RefillType
      <3> HIDE DEF r
      <3>2. cost[w] \in Costs
        BY DEF IInv, TypeOK
      <3>3. cost[w] \in Nat
        BY <3>2, LimiterAssumption, Zenon
      <3> QED
        BY <3>1, <3>3
    <2>2. Settle(w, r) \/ Settle(w, r - cost[w])
      BY <1>2 DEF Allow, Reject
    <2> QED
      BY <2>1, <2>2, SettlePromised
  <1> QED
    BY <1>1, <1>2 DEF Next, Tick, Call, Finished, vars

(* A caller alone on its key that comes back when it was told to is served *)
(* (ratelimit.py:67 and the Retry-After header of sidecar.py:322): the     *)
(* promise of the last answer is about the bucket it left, and rounding up *)
(* to a whole tick leaves no token missing.                                *)
THEOREM ResetHonest == Spec => ResetIsHonest
  <1>1. Init => Promised
    BY DEF Init, Promised, Buckets
  <1>2. IInv /\ Promised /\ [Next]_vars =>
           [\A w \in Workers :
              (/\ pc[w] = "locking" /\ pc'[w] = "idle"
               /\ key[w] \in Buckets
               /\ now[w] >= fullAt[key[w]]
               /\ cost[w] <= Capacity)
                  => allowed' = allowed + 1]_vars
    <2> SUFFICES ASSUME IInv, Promised, Next, NEW w \in Workers,
                        pc[w] = "locking", pc'[w] = "idle", key[w] \in Buckets,
                        now[w] >= fullAt[key[w]], cost[w] <= Capacity
                 PROVE  allowed' = allowed + 1
      OBVIOUS
    <2>1. PICK v \in Workers : Allow(v) \/ Reject(v)
      <3>1. ~Tick /\ ~Finished
        BY DEF Tick, Finished, vars
      <3>2. \A u \in Workers : \A k, c : ~Call(u, k, c)
        BY DEF Call, IInv, TypeOK
      <3> QED
        BY <3>1, <3>2 DEF Next
    <2>2. v = w
      <3>1. pc' = [pc EXCEPT ![v] = "idle"]
        BY <2>1 DEF Allow, Reject, Settle
      <3> QED
        BY <3>1 DEF IInv, TypeOK
    <2>3. /\ bucket[key[w]] \in [tokens : Int, last : Int]
          /\ bucket[key[w]].tokens \in 0 .. Capacity
          /\ Found(w) = bucket[key[w]] /\ now[w] \in Nat
      BY DEF IInv, TypeOK, TokensInRange, Buckets, Found
    <2>4. Refilled(Found(w), now[w]) = Capacity
      BY <2>3, FullAfterReset DEF Promised
    <2>5. ~Reject(w)
      BY <2>4, LimiterAssumption DEF Reject, Affordable, IInv, TypeOK
    <2> QED
      BY <2>1, <2>2, <2>5 DEF Allow
  <1> QED
    BY <1>1, <1>2, InitIInv, NextIInv, NextPromised, PTL DEF Spec, ResetIsHonest
=============================================================================
