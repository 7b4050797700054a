---------------------------- MODULE RedisServer ----------------------------
(***************************************************************************)
(* The Redis commands the sidecar's backends use, each on the entry of one *)
(* key: INCRBY and EXPIRE NX and TTL in the rate limiter, GET and SETEX in *)
(* the result cache.  Redis is not part of the repository; what is said of *)
(* it here is what the callers rely on.                                    *)
(*                                                                         *)
(* An entry is Nil or [value, expires]; an expired entry is as good as     *)
(* none.  Time runs in ticks, shorter than the seconds that EXPIRE takes   *)
(* and TTL returns.                                                        *)
(***************************************************************************)
EXTENDS Integers

CONSTANTS Nil, TicksPerSecond

ASSUME ServerAssumption ==
    /\ TicksPerSecond \in Nat \ {0}
    /\ Nil \notin [value : Int, expires : Int]

(* The deadline of an entry without one. *)
NoTTL == 0

AsOf(entry, t) ==
    IF entry # Nil /\ entry.expires # NoTTL /\ entry.expires <= t
    THEN Nil ELSE entry

IncrBy(entry, n, t) ==
    IF AsOf(entry, t) = Nil THEN [value |-> n, expires |-> NoTTL]
                            ELSE [entry EXCEPT !.value = @ + n]

Expire(entry, seconds, t) ==
    [entry EXCEPT !.expires = t + seconds * TicksPerSecond]

ExpireNX(entry, seconds, t) ==
    IF entry.expires = NoTTL THEN Expire(entry, seconds, t) ELSE entry

(* TTL answers in seconds, rounded to the nearest: 0 in the last half. *)
TTLReply(entry, t) ==
    IF entry.expires = NoTTL THEN -1
    ELSE (entry.expires - t + TicksPerSecond \div 2) \div TicksPerSecond

SetEx(value, seconds, t) ==
    [value |-> value, expires |-> t + seconds * TicksPerSecond]
=============================================================================
