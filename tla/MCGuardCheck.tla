---------------------------- MODULE MCGuardCheck ----------------------------
(***************************************************************************)
(* Small instances of GuardCheck.  Three messages: "hi" and its padded     *)
(* copy "hi_", which strip() makes equal, and "spam", which the rule layer *)
(* blocks.  "hi" is ambiguous to the embedding layer, so it reaches the    *)
(* LLM.                                                                    *)
(***************************************************************************)
EXTENDS GuardCheck, TLC

MCMessages == {"hi", "hi_", "spam"}
MCStrip == [m \in MCMessages |-> IF m = "hi_" THEN "hi" ELSE m]
MCBlockHits == {"spam"}
MCAllowHits == {"spam"}
MCDomainSim == [m \in MCMessages |-> 6]
MCOodSim == [m \in MCMessages |-> 7]

(* Three session states: one with an intent, and two that differ only in a *)
(* field outside the signature.                                            *)
Booking  == [f \in {"intent", "stage"} |-> IF f = "intent" THEN "book" ELSE None]
Vip      == [f \in {"tier"} |-> "vip"]
Plain    == [f \in {"tier"} |-> "std"]
MCStates == {Booking, Vip, Plain}

Call(m, s) == [msg |-> m, state |-> s]

Base == [mode |-> "enforce", caching |-> TRUE, hasOod |-> TRUE,
         thr |-> [pass |-> 7, block |-> 5],
         when |-> [f \in {"intent"} |-> "not_null"],
         pipeline |-> <<"context_bypass", "rule", "llm_fallback">>]
Shadow  == [Base EXCEPT !.mode = "shadow"]
NoCache == [Base EXCEPT !.caching = FALSE,
                        !.pipeline = <<"context_bypass", "embedding">>]
Embed   == [Base EXCEPT !.hasOod = FALSE,
                        !.pipeline = <<"embedding", "llm_fallback">>]

MCGuards == {Base, Shadow, NoCache, Embed}
(* The first two share a cache key through strip(), the next two through   *)
(* the signature; the last differs from those in the intent only.          *)
MCCalls == {Call("hi", None), Call("hi_", None), Call("spam", Vip),
            Call("spam", Plain), Call("spam", Booking)}

ShadowGuards == {Shadow}
Symmetry == Permutations(Workers)

OneCall == {Call("hi", None)}
=============================================================================
