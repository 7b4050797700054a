------------------------------- MODULE Tuning -------------------------------
(***************************************************************************)
(* How docs/user-guide.md tells to tune a guard: calibrate on labelled     *)
(* samples, put the recommended thresholds into the configuration, replay  *)
(* traffic through the new configuration and the old one.  Composes        *)
(* Calibrate and Replay; what calibrate says of its samples is compared    *)
(* with what the guard then does with them.                                *)
(***************************************************************************)
EXTENDS Calibrate, Replay

CONSTANT Traffics       \* bound: traffic files replayed apart from samples

ASSUME TrafficsAssumption == Traffics \subseteq Seq(Records)

tuningVars == <<calibrateVars, replayVars>>

TuningInit == CalibrateInit /\ ReplayInit

CalibrateStep == CalibrateNext /\ UNCHANGED replayVars

(* The operator edits the threshold of the configuration. *)
Tuned == [config EXCEPT !.thr = best.thr]

SampleTraffic ==
    [i \in DOMAIN samples |-> [msg |-> samples[i].msg, state |-> None,
                               prev |-> None]]

ReplaySamples ==
    /\ stage = "reported" /\ phase = "idle"
    /\ StartReplay(Tuned, config, SampleTraffic)
    /\ UNCHANGED calibrateVars

(* Replay is also used on its own; once, where there are no samples, so    *)
(* that its states are not multiplied by those of a calibration.           *)
ReplayTraffic(base, records) ==
    /\ samples = <<>> /\ stage = "classify" /\ phase = "idle"
    /\ StartReplay(config, base, records)
    /\ UNCHANGED calibrateVars

ReplayGoesOn == ReplayStep /\ UNCHANGED calibrateVars

(* The tools end and leave a report or an error. *)
Ended ==
    /\ \/ phase \in {"done", "failed"}
       \/ stage = "failed"
       \/ stage = "reported" /\ samples = <<>>
    /\ UNCHANGED tuningVars

TuningNext ==
    \/ CalibrateStep \/ ReplaySamples \/ ReplayGoesOn
    \/ \E base \in Configs \cup {None}, records \in Traffics :
          ReplayTraffic(base, records)
    \/ Ended

TuningSpec == TuningInit /\ [][TuningNext]_tuningVars

-----------------------------------------------------------------------------
(* What became of the samples the earlier layers left over. *)
LeftOver == {i \in DOMAIN samples : Earlier(samples[i]) = "defer"}

Right(results) ==
    Cardinality({i \in LeftOver : results[i].passed = samples[i].positive})

SamplesReplayed == stage = "reported" /\ phase = "done"

(* The report's figures are those of the guard once it has the recommended *)
(* thresholds, although calibrate copies the embedding layer's rule and    *)
(* guesses at the rest of the pipeline - if the pipeline is of the kind it *)
(* guesses: the samples the rule layer decided, and of the others those    *)
(* judged rightly and those passed wrongly (calibrate.py:126-143, 164-189,  *)
(* embedding.py:44-93, core.py:114-166).                                   *)
ReportMatchesGuard ==
    (SamplesReplayed /\ Simulated(config)) =>
        LET passed == {i \in DOMAIN samples : newResults[i].passed} IN
        /\ Right(newResults) = best.correct
        /\ best.falsePasses =
              Cardinality({i \in LeftOver : ~samples[i].positive} \cap passed)
        /\ decided.rule_pass = Cardinality(passed \ LeftOver)
        /\ decided.rule_block = Cardinality(DOMAIN samples \ (LeftOver \cup passed))
=============================================================================
