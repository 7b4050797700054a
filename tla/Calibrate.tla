----------------------------- MODULE Calibrate -----------------------------
(***************************************************************************)
(* guard-cli calibrate (domain_guard/calibrate.py): labelled samples are   *)
(* run through the layers above the embedding layer, one by one; what they *)
(* leave over is judged again for every pair of thresholds on a grid, and  *)
(* the best pair is recommended.                                           *)
(*                                                                         *)
(* A rate is kept as the count above its fixed number of samples, and      *)
(* similarities and thresholds are integers in place of floats.            *)
(***************************************************************************)
EXTENDS Layers, FiniteSets

CONSTANTS
    Configs,        \* guard configurations
    SampleFiles,    \* the samples of a run: positives, then negatives
    PassGrid,       \* np.arange(0.40, 0.90, 0.02)
    BlockGrid       \* np.arange(0.20, 0.55, 0.05)

\* arange counts up.
ASSUME GridAssumption ==
    /\ PassGrid \in Seq(Int) /\ BlockGrid \in Seq(Int)
    /\ BlockGrid # <<>>
    /\ \A i \in DOMAIN BlockGrid : BlockGrid[1] <= BlockGrid[i]

ASSUME ConfigsAssumption ==
    \A g \in Configs :
        /\ DOMAIN g = {"mode", "caching", "hasOod", "thr", "when", "pipeline"}
        /\ g.mode \in {"enforce", "shadow"} /\ g.hasOod \in BOOLEAN
        /\ g.pipeline \in Seq(LayerTypes)

Samples == [msg : Messages, positive : BOOLEAN]

ASSUME SamplesAssumption == SampleFiles \subseteq Seq(Samples)

(* A cell of the grid and its counts. *)
Scores == [thr : [pass : Int, block : Int],
           correct : Nat, falseBlocks : Nat, falsePasses : Nat]

ASSUME ScoresAssumption == None \notin Scores

VARIABLES
    config,     \* the guard's configuration
    samples,    \* all samples
    stage,      \* "classify", "sweep", "reported" or "failed"
    sample,     \* the next sample to classify
    decided,    \* how many samples an earlier layer decided, by outcome
    sims,       \* the samples left to the embedding layer
    cell,       \* the next cell of the grid
    best        \* the best cell so far: its thresholds and its counts

calibrateVars == <<config, samples, stage, sample, decided, sims, cell, best>>

CalibrateInit ==
    /\ config \in Configs
    /\ samples \in SampleFiles
    /\ stage = "classify" /\ sample = 1
    /\ decided = [rule_pass |-> 0, rule_block |-> 0]
    /\ sims = <<>> /\ cell = 1 /\ best = None

Has(g, type) == \E i \in DOMAIN g.pipeline : g.pipeline[i] = type

-----------------------------------------------------------------------------
(* Without an embedding layer there is nothing to calibrate (ValueError).  *)
Refuse ==
    /\ stage = "classify"
    /\ ~Has(config, "embedding")
    /\ stage' = "failed"
    /\ UNCHANGED <<config, samples, sample, decided, sims, cell, best>>

(* A sample goes through the rule layer, wherever the pipeline has it.     *)
(* The context of a sample is empty, so context_bypass defers.             *)
Earlier(s) == IF Has(config, "rule") THEN RuleVerdict(s.msg) ELSE "defer"

Classifying ==
    /\ stage = "classify"
    /\ Has(config, "embedding")
    /\ sample \in DOMAIN samples

DecidedEarlier ==
    /\ Classifying
    /\ Earlier(samples[sample]) # "defer"
    /\ decided' = IF Earlier(samples[sample]) = "pass"
                  THEN [decided EXCEPT !.rule_pass = @ + 1]
                  ELSE [decided EXCEPT !.rule_block = @ + 1]
    /\ sample' = sample + 1
    /\ UNCHANGED <<config, samples, stage, sims, cell, best>>

Embed ==
    /\ Classifying
    /\ Earlier(samples[sample]) = "defer"
    /\ sims' = Append(sims, samples[sample])
    /\ sample' = sample + 1
    /\ UNCHANGED <<config, samples, stage, decided, cell, best>>

EmbedRaises ==
    /\ Classifying
    /\ Earlier(samples[sample]) = "defer"
    /\ stage' = "failed"
    /\ UNCHANGED <<config, samples, sample, decided, sims, cell, best>>

AllClassified ==
    /\ stage = "classify"
    /\ Has(config, "embedding")
    /\ sample > Len(samples)
    /\ stage' = "sweep"
    /\ UNCHANGED <<config, samples, sample, decided, sims, cell, best>>

-----------------------------------------------------------------------------
(* The copy of EmbeddingLayer.decide inside the sweep. *)
\* Mutant of SweepVerdict: the copy has lost the out-of-domain rule.
SweepVerdictNoOod(s, thr) ==
    IF DomainSim[s.msg] >= thr.pass THEN "pass"
    ELSE IF DomainSim[s.msg] <= thr.block THEN "block" ELSE "defer"

SweepVerdict(s, thr) ==
    LET d == DomainSim[s.msg]
        o == IF config.hasOod THEN OodSim[s.msg] ELSE 0
    IN  IF config.hasOod /\ o > d /\ o >= thr.pass THEN "block"
        ELSE IF d >= thr.pass THEN "pass"
        ELSE IF d <= thr.block THEN "block"
        ELSE "defer"

(* A deferred sample counts as blocked. *)
\* Mutant of EffectivePass: a deferred sample counts as passed.
PassUnlessBlocked(s, thr) == SweepVerdict(s, thr) # "block"

EffectivePass(s, thr) == SweepVerdict(s, thr) = "pass"

Positives == {i \in DOMAIN sims : sims[i].positive}
PassedAt(thr) == {i \in DOMAIN sims : EffectivePass(sims[i], thr)}

(* tp + tn, fn and fp of a cell. *)
Score(thr) ==
    LET passing == PassedAt(thr)
        blocked == DOMAIN sims \ passing
    IN  [thr |-> thr,
         correct |-> Cardinality(passing \cap Positives)
                        + Cardinality(blocked \ Positives),
         falseBlocks |-> Cardinality(blocked \cap Positives),
         falsePasses |-> Cardinality(passing \ Positives)]

(* The grid in the order of the two loops. *)
Cells == 1 .. Len(PassGrid) * Len(BlockGrid)

Cell(n) == [pass  |-> PassGrid[(n - 1) \div Len(BlockGrid) + 1],
            block |-> BlockGrid[((n - 1) % Len(BlockGrid)) + 1]]

Tried(n) == Cell(n).block < Cell(n).pass

(* Highest accuracy, ties broken by the lower false block rate; the first  *)
(* of equals stays.                                                        *)
\* Mutant of Better: the tie-break prefers more false blocks.
BetterBlocking(a, b) ==
    \/ a.correct > b.correct
    \/ a.correct = b.correct /\ a.falseBlocks > b.falseBlocks

Better(a, b) ==
    \/ a.correct > b.correct
    \/ a.correct = b.correct /\ a.falseBlocks < b.falseBlocks

Sweep ==
    /\ stage = "sweep"
    /\ cell \in Cells
    /\ cell' = cell + 1
    /\ best' = IF Tried(cell) /\ (best = None \/ Better(Score(Cell(cell)), best))
               THEN Score(Cell(cell)) ELSE best
    /\ UNCHANGED <<config, samples, stage, sample, decided, sims>>

(* The report; the assertion that the grid is not empty comes first. *)
Report ==
    /\ stage = "sweep"
    /\ cell \notin Cells
    /\ stage' = IF best = None THEN "failed" ELSE "reported"
    /\ UNCHANGED <<config, samples, sample, decided, sims, cell, best>>

CalibrateNext ==
    \/ Refuse \/ DecidedEarlier \/ Embed \/ EmbedRaises \/ AllClassified
    \/ Sweep \/ Report

CalibrateSpec == CalibrateInit /\ [][CalibrateNext]_calibrateVars

-----------------------------------------------------------------------------
CalibrateTypeOK ==
    /\ config \in Configs /\ samples \in SampleFiles
    /\ stage \in {"classify", "sweep", "reported", "failed"}
    /\ sample \in 1 .. Len(samples) + 1
    /\ decided \in [rule_pass : Nat, rule_block : Nat]
    /\ sims \in Seq(Samples) /\ Len(sims) < sample
    /\ cell \in 1 .. Len(PassGrid) * Len(BlockGrid) + 1
    /\ best \in Scores \cup {None}

(* The sweep's running best is the best of the cells visited: "find the    *)
(* best cuts" (README.md:102).  None of them judges more samples rightly,  *)
(* none that judges as many rightly blocks fewer in-domain samples, and of *)
(* those that equal it in both it is the first (calibrate.py:202-206).     *)
BestIsBest ==
    LET Visited == {n \in Cells : n < cell /\ Tried(n)} IN
    IF Visited = {} THEN best = None
    ELSE \E n \in Visited :
            /\ best = Score(Cell(n))
            /\ \A m \in Visited :
                  LET other == Score(Cell(m)) IN
                  /\ other.correct <= best.correct
                  /\ other.correct = best.correct =>
                        /\ other.falseBlocks >= best.falseBlocks
                        /\ other.falseBlocks = best.falseBlocks => n <= m

(* The recommended block threshold says nothing about the samples: a       *)
(* deferred sample counts as blocked, so the threshold cannot change a     *)
(* score, and the first one tried with the recommended pass threshold is   *)
(* the one reported (calibrate.py:175-176, 204).                           *)
BlockCutIsFirst ==
    best # None => /\ best.thr.block = BlockGrid[1]
                   /\ \A b \in {BlockGrid[i] : i \in DOMAIN BlockGrid} :
                        LET other == Score([best.thr EXCEPT !.block = b]) IN
                        /\ other.correct = best.correct
                        /\ other.falseBlocks = best.falseBlocks

(* The pipelines the report speaks about: the rule layer, if any, comes    *)
(* before the only embedding layer, which is the last one.                 *)
Simulated(g) ==
    /\ g.mode = "enforce"
    /\ \A i, j \in DOMAIN g.pipeline :
          g.pipeline[i] = "embedding" =>
              /\ g.pipeline[j] = "embedding" => i = j
              /\ g.pipeline[j] = "rule" => j < i
    /\ ~Has(g, "llm_fallback")
=============================================================================
