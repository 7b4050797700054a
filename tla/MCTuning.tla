------------------------------ MODULE MCTuning ------------------------------
(***************************************************************************)
(* A small instance of Tuning.  "in" and "near" are close to the domain,   *)
(* "odd" is closer to the out-of-domain examples, "far" is close to        *)
(* nothing, "spam" is blocked by the rule layer.                           *)
(***************************************************************************)
EXTENDS Tuning, TLC

MCMessages == {"in", "near", "odd", "far", "spam"}
MCStrip == [m \in MCMessages |-> m]
MCDomainSim == "in" :> 8 @@ "near" :> 5 @@ "odd" :> 6 @@ "far" :> 3 @@ "spam" :> 5
MCOodSim == "in" :> 2 @@ "near" :> 4 @@ "odd" :> 7 @@ "far" :> 0 @@ "spam" :> 5

MCGuard(pipeline, hasOod) ==
    [mode |-> "enforce", caching |-> FALSE, hasOod |-> hasOod,
     thr |-> [pass |-> 5, block |-> 4], when |-> <<>>, pipeline |-> pipeline]

MCConfigs ==
    {MCGuard(<<"context_bypass", "rule", "embedding">>, TRUE),
     MCGuard(<<"embedding", "rule">>, FALSE),
     MCGuard(<<"embedding", "llm_fallback">>, TRUE),
     MCGuard(<<"rule", "llm_fallback">>, TRUE),
     [MCGuard(<<"rule", "embedding">>, TRUE) EXCEPT !.mode = "shadow"]}

MCPassGrid == <<4, 5, 7, 9>>
MCBlockGrid == <<2, 4>>

MCSamples ==
    {s \in UNION {[1 .. n -> [msg : MCMessages, positive : BOOLEAN]] : n \in 0 .. 3} :
        \A i \in DOMAIN s \ {1} : s[i].positive => s[i - 1].positive}

MCRecords == [msg : {"near", "spam"}, state : {None},
              prev : {None, "pass", "block", "Blocked"}]
MCTraffics == UNION {[1 .. n -> MCRecords] : n \in 0 .. 2}
=============================================================================
