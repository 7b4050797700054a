-------------------------- MODULE MCCheckEndpoint --------------------------
(***************************************************************************)
(* A small instance of CheckEndpoint: one message, which the rule layer    *)
(* defers and the embedding layer passes unless it raises.               *)
(***************************************************************************)
EXTENDS CheckEndpoint, TLC

MCMessages == {"hi"}
MCStrip == [m \in MCMessages |-> m]
MCSim == [m \in MCMessages |-> 6]
MCGuards ==
    {[mode |-> "enforce", caching |-> FALSE, hasOod |-> FALSE,
      thr |-> [pass |-> 6, block |-> 5], when |-> <<>>,
      pipeline |-> <<"rule", "embedding">>]}
MCCalls == {[msg |-> "hi", state |-> None]}
=============================================================================
