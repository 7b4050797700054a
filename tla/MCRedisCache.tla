---------------------------- MODULE MCRedisCache ----------------------------
(***************************************************************************)
(* A small instance of RedisCache: two processes, one of them with two     *)
(* workers.  The new version reads the payloads of the old one, to which   *)
(* those of the new one are JSON with a field too many; a third version    *)
(* writes what neither takes for JSON, and reads nothing but its own.      *)
(***************************************************************************)
EXTENDS RedisCache, TLC

CONSTANTS p1, p2, a1, a2, b1, old, new, other

MCHome == a1 :> p1 @@ a2 :> p1 @@ b1 :> p2

MCReading ==
    [v \in Versions |-> [u \in Versions |->
        CASE v = u \/ <<v, u>> = <<new, old>> -> "result"
          [] <<v, u>> = <<old, new>> -> "fields"
          [] OTHER -> "bytes"]]

Symmetry == Permutations(Keys) \cup Permutations({a1, a2})
=============================================================================
