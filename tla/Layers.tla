------------------------------- MODULE Layers -------------------------------
(***************************************************************************)
(* The four kinds of pipeline layer (domain_guard/layers/) as pure         *)
(* operators.  A request is a message and a session state; what a layer    *)
(* answers depends on its guard's configuration and on the request alone,  *)
(* except for the two remote providers: the embedding provider may raise,  *)
(* and the LLM may answer anything.                                        *)
(*                                                                         *)
(* A message is a model value.  What the layers can tell of it is given by *)
(* constants: which messages a block pattern matches, which hold an allow  *)
(* keyword, how close they are to the domain and the out-of-domain         *)
(* examples, and what str.strip() leaves of them.                          *)
(***************************************************************************)
EXTENDS Integers, Sequences

CONSTANTS
    Messages,       \* raw messages, before strip()
    Strip,          \* Strip[m]: the message without surrounding blanks
    BlockHits,      \* messages some block pattern of the rule layer matches
    AllowHits,      \* messages that contain an allow keyword
    DomainSim,      \* DomainSim[m]: best similarity to a domain example
    OodSim,         \* OodSim[m]: best similarity to an out-of-domain example
    States,         \* truthy session states: functions from fields to values
    None            \* Python's None; also the falsy states None and {}

ASSUME MessagesAssumption ==
    /\ Strip \in [Messages -> Messages]
    /\ BlockHits \subseteq Messages
    /\ AllowHits \subseteq Messages
    /\ DomainSim \in [Messages -> Int]
    /\ OodSim \in [Messages -> Int]

ASSUME StatesAssumption == None \notin States

Requests == [msg : Messages, state : States \cup {None}]

LayerTypes == {"context_bypass", "rule", "embedding", "llm_fallback"}

Verdicts == {"pass", "block", "defer"}

-----------------------------------------------------------------------------
(* context_bypass: pass when every condition of `when` holds of the state. *)

Lookup(state, field) ==
    IF field \in DOMAIN state THEN state[field] ELSE None

Matches(actual, expected) ==
    CASE expected = "not_null" -> actual # None
      [] expected = "null"     -> actual = None
      [] OTHER                 -> actual = expected

BypassVerdict(when, state) ==
    IF /\ DOMAIN when # {}
       /\ state # None
       /\ \A f \in DOMAIN when : Matches(Lookup(state, f), when[f])
    THEN "pass" ELSE "defer"

(* rule: the block list wins over the allow list. *)
RuleVerdict(msg) ==
    CASE msg \in BlockHits -> "block"
      [] msg \notin BlockHits /\ msg \in AllowHits -> "pass"
      [] OTHER -> "defer"

(* embedding: the out-of-domain examples win only by being closer than the *)
(* domain and past the pass threshold.  thr is a record [pass, block].     *)
EmbeddingVerdict(domain, ood, hasOod, thr) ==
    IF hasOod /\ ood > domain /\ ood >= thr.pass THEN "block"
    ELSE IF domain >= thr.pass THEN "pass"
    ELSE IF domain <= thr.block THEN "block"
    ELSE "defer"

(* llm_fallback: an exception and an answer that is neither PASS nor BLOCK *)
(* both defer.                                                             *)
LLMAnswers == {"PASS", "BLOCK", "unparseable", "exception"}

LLMVerdict(answer) ==
    CASE answer = "PASS"  -> "pass"
      [] answer = "BLOCK" -> "block"
      [] OTHER            -> "defer"

(* Layers that cannot tell two messages apart if strip() makes them equal: *)
(* what the cache key takes for granted of the patterns and the provider.  *)
StripInsensitive ==
    \A m, n \in Messages :
        Strip[m] = Strip[n] =>
            /\ m \in BlockHits <=> n \in BlockHits
            /\ m \in AllowHits <=> n \in AllowHits
            /\ DomainSim[m] = DomainSim[n]
            /\ OodSim[m] = OodSim[n]

(* Everything a call of decide() on layer type l may do: return a verdict, *)
(* or raise, when the embedding provider fails.                            *)
Outcomes(guard, l, r) ==
    CASE l = "context_bypass" -> {BypassVerdict(guard.when, r.state)}
      [] l = "rule"           -> {RuleVerdict(r.msg)}
      [] l = "embedding"      ->
            {EmbeddingVerdict(DomainSim[r.msg],
                              IF guard.hasOod THEN OodSim[r.msg] ELSE 0,
                              guard.hasOod, guard.thr), "raise"}
      [] OTHER                -> {LLMVerdict(a) : a \in LLMAnswers}

(* The i-th layer of a guard's pipeline, and when it is reached: every     *)
(* layer above it may defer.                                               *)
Answers(g, i, r) == Outcomes(g, g.pipeline[i], r)

Reached(g, i, r) == \A j \in 1 .. i - 1 : "defer" \in Answers(g, j, r)
=============================================================================
