---------------------------- MODULE FixedWindow ----------------------------
(***************************************************************************)
(* RedisRateLimiter.take (domain_guard/ratelimit.py) as operators on the   *)
(* counter of one key.  INCRBY, EXPIRE NX and TTL travel in one MULTI/EXEC *)
(* transaction, so no other instance sees the counter between them.        *)
(***************************************************************************)
EXTENDS RedisServer

CONSTANTS
    Limit,      \* calls per window
    Window      \* window_seconds

ASSUME WindowAssumption == Limit \in Nat \ {0} /\ Window \in Nat \ {0}

(* The counter after the transaction. *)
\* Mutant of AfterTake: PEXPIRE, the window in thousandths, here ticks.
AfterTakePExpire(entry, cost, t) ==
    LET counter == IncrBy(entry, cost, t)
    IN  IF counter.expires = NoTTL THEN [counter EXCEPT !.expires = t + Window]
                                   ELSE counter

AfterTake(entry, cost, t) ==
    ExpireNX(IncrBy(entry, cost, t), Window, t)

(* What the transaction answers; the result of EXPIRE is not looked at. *)
TakeReply(entry, cost, t) ==
    [count |-> AfterTake(entry, cost, t).value,
     ttl   |-> TTLReply(AfterTake(entry, cost, t), t)]

\* Mutant of Admits: the count is taken for the one before the call.
AdmitsOneMore(reply) == reply.count <= Limit + 1

Admits(reply) == reply.count <= Limit

(* reset_in: the TTL, or the whole window when TTL rounds to nothing. *)
ResetIn(reply) == IF reply.ttl > 0 THEN reply.ttl ELSE Window

(* The Retry-After header of a 429: int(reset_in) + 1. *)
\* Mutant of RetryAfter: reset_in itself.
RetryAtReset(reply) == ResetIn(reply)

RetryAfter(reply) == ResetIn(reply) + 1
=============================================================================
