------------------------------- MODULE Replay -------------------------------
(***************************************************************************)
(* guard-cli replay (domain_guard/replay.py): recorded traffic is checked  *)
(* by a new configuration, then by a baseline one if there is one, and the *)
(* decisions are compared with the baseline's or with those the traffic    *)
(* was labelled with.                                                      *)
(*                                                                         *)
(* A check is one step: nothing else uses the two guards, which have no    *)
(* cache.  What it may return is what GuardCheck's VerdictSound says.      *)
(***************************************************************************)
EXTENDS Layers, FiniteSets, SequencesExt

CONSTANT NoResult

\* A line of recorded traffic; its label may be any text, or missing.
Records == [msg : Messages, state : States \cup {None}, prev : STRING \cup {None}]

VARIABLES
    newGuard,       \* the configuration to evaluate
    baseGuard,      \* the baseline, or None
    traffic,        \* the records: message, state, previous_decision
    newResults,
    baseResults,    \* the results so far, in the order appended
    newPassed,
    basePassed,     \* ReplayStats.passed of each configuration
    line,           \* the position of the loop that runs
    phase,          \* "idle", "new", "base", "compare", "done" or "failed"
    flips,          \* the two lists of flipped records, or NoResult
    newOf,
    baseOf          \* history: the record each result is of

judged == <<newResults, newPassed, newOf, baseResults, basePassed, baseOf>>

replayVars == <<newGuard, baseGuard, traffic, judged, line, phase, flips>>

ReplayInit ==
    /\ newGuard = None /\ baseGuard = None /\ traffic = <<>>
    /\ newResults = <<>> /\ newPassed = 0 /\ newOf = <<>>
    /\ baseResults = <<>> /\ basePassed = 0 /\ baseOf = <<>>
    /\ line = 1 /\ phase = "idle" /\ flips = NoResult

Request(record) == [msg |-> record.msg, state |-> record.state]

(* The layers that may decide r with a verdict; what a check of r may      *)
(* return, and whether it may raise.                                       *)
DecidedAt(g, r, verdict) ==
    {i \in DOMAIN g.pipeline : Reached(g, i, r) /\ verdict \in Answers(g, i, r)}

Results(g, r) ==
    {[passed |-> TRUE, layer |-> g.pipeline[i]] : i \in DecidedAt(g, r, "pass")}
    \cup {[passed |-> g.mode = "shadow", layer |-> g.pipeline[i]] :
              i \in DecidedAt(g, r, "block")}
    \cup (IF Reached(g, Len(g.pipeline) + 1, r)
          THEN {[passed |-> FALSE, layer |-> None]} ELSE {})

MayRaise(g, r) ==
    \E i \in DOMAIN g.pipeline : Reached(g, i, r) /\ "raise" \in Answers(g, i, r)

-----------------------------------------------------------------------------
Replaying == phase \in {"new", "base", "compare"}

StartReplay(g, base, records) ==
    /\ ~Replaying
    /\ newGuard' = g /\ baseGuard' = base /\ traffic' = records
    /\ newResults' = <<>> /\ newPassed' = 0 /\ newOf' = <<>>
    /\ baseResults' = <<>> /\ basePassed' = 0 /\ baseOf' = <<>>
    /\ line' = 1
    /\ phase' = IF records = <<>> THEN "idle" ELSE "new"
    /\ flips' = NoResult

(* replay_one(): one loop over the records for each configuration. *)
Counted(passed, result) == passed + (IF result.passed THEN 1 ELSE 0)

CheckNew(result) ==
    /\ phase = "new" /\ line <= Len(traffic)
    /\ result \in Results(newGuard, Request(traffic[line]))
    /\ newResults' = Append(newResults, result)
    /\ newPassed' = Counted(newPassed, result)
    /\ newOf' = Append(newOf, line)
    /\ line' = line + 1
    /\ UNCHANGED <<newGuard, baseGuard, traffic, baseResults, basePassed, baseOf,
                   phase, flips>>

CheckBase(result) ==
    /\ phase = "base" /\ line <= Len(traffic)
    /\ result \in Results(baseGuard, Request(traffic[line]))
    /\ baseResults' = Append(baseResults, result)
    /\ basePassed' = Counted(basePassed, result)
    /\ baseOf' = Append(baseOf, line)
    /\ line' = line + 1
    /\ UNCHANGED <<newGuard, baseGuard, traffic, newResults, newPassed, newOf,
                   phase, flips>>

Raising ==
    /\ line <= Len(traffic)
    /\ \/ phase = "new" /\ MayRaise(newGuard, Request(traffic[line]))
       \/ phase = "base" /\ MayRaise(baseGuard, Request(traffic[line]))

\* Mutant of CheckRaises: the record is skipped and the replay goes on.
CheckSkipped ==
    /\ Raising
    /\ line' = line + 1
    /\ UNCHANGED <<newGuard, baseGuard, traffic, judged, phase, flips>>

(* The embedding provider raises: the replay ends without a report. *)
CheckRaises ==
    /\ Raising
    /\ phase' = "failed"
    /\ UNCHANGED <<newGuard, baseGuard, traffic, judged, line, flips>>

TurnToBaseline ==
    /\ phase = "new" /\ line > Len(traffic)
    /\ baseGuard # None
    /\ phase' = "base"
    /\ line' = 1
    /\ UNCHANGED <<newGuard, baseGuard, traffic, judged, flips>>

-----------------------------------------------------------------------------
(* The comparison walks the records and the results side by side.  Without *)
(* a baseline it needs a label that is "pass" or "block"; a record without *)
(* a label is left out, and any label but "pass" counts as a block.        *)
Labelled == {i \in DOMAIN traffic : traffic[i].prev \in {"pass", "block"}}

StartCompare ==
    /\ line > Len(traffic)
    /\ phase = (IF baseGuard = None THEN "new" ELSE "base")
    /\ IF baseGuard = None /\ Labelled = {}
       THEN phase' = "done" /\ UNCHANGED <<line, flips>>
       ELSE /\ phase' = "compare" /\ line' = 1
            /\ flips' = [toBlock |-> <<>>, toPass |-> <<>>]
    /\ UNCHANGED <<newGuard, baseGuard, traffic, judged>>

Compared(i) == baseGuard = None => traffic[i].prev # None

PassedThen(i) == IF baseGuard = None THEN traffic[i].prev = "pass" ELSE baseResults[i].passed

ToBlock(i) == Compared(i) /\ PassedThen(i) /\ ~newResults[i].passed

ToPass(i) == Compared(i) /\ ~PassedThen(i) /\ newResults[i].passed

(* zip() ends with the shortest of its lists. *)
Zipped ==
    /\ line \in DOMAIN traffic \cap DOMAIN newResults
    /\ baseGuard # None => line \in DOMAIN baseResults

Noted(list, flipped) == IF flipped THEN Append(list, line) ELSE list

Compare ==
    /\ phase = "compare" /\ Zipped
    /\ flips' = [toBlock |-> Noted(flips.toBlock, ToBlock(line)),
                 toPass |-> Noted(flips.toPass, ToPass(line))]
    /\ line' = line + 1
    /\ UNCHANGED <<newGuard, baseGuard, traffic, judged, phase>>

EndCompare ==
    /\ phase = "compare" /\ ~Zipped
    /\ phase' = "done"
    /\ UNCHANGED <<newGuard, baseGuard, traffic, judged, line, flips>>

ReplayStep ==
    \/ \E result \in [passed : BOOLEAN, layer : LayerTypes \cup {None}] :
          CheckNew(result) \/ CheckBase(result)
    \/ CheckRaises \/ TurnToBaseline
    \/ StartCompare \/ Compare \/ EndCompare

-----------------------------------------------------------------------------
(* The report lists a record as flipped, once, exactly when the decision   *)
(* on that very record changed: its own result from the new configuration, *)
(* against its own result from the baseline or its label; and the number   *)
(* of flips explains the difference of the two pass counts, so that a      *)
(* failed check never shifts the pairing (replay.py:86-90, 124-137,        *)
(* 159-175).                                                               *)
ResultIs(guardResults, of, i, passed) ==     \* the guard's own result on record i
    \E k \in DOMAIN guardResults : of[k] = i /\ (guardResults[k].passed <=> passed)

Before(i, passed) ==
    IF baseGuard # None THEN ResultIs(baseResults, baseOf, i, passed)
    ELSE traffic[i].prev # None /\ (traffic[i].prev = "pass" <=> passed)

ListsOnce(list, set) == ToSet(list) = set /\ Len(list) = Cardinality(set)

FlipsExact ==
    (phase = "done" /\ flips # NoResult) =>
        /\ ListsOnce(flips.toBlock,
              {i \in DOMAIN traffic : Before(i, TRUE) /\ ResultIs(newResults, newOf, i, FALSE)})
        /\ ListsOnce(flips.toPass,
              {i \in DOMAIN traffic : Before(i, FALSE) /\ ResultIs(newResults, newOf, i, TRUE)})
        /\ baseGuard # None =>
              Len(flips.toPass) - Len(flips.toBlock) = newPassed - basePassed
=============================================================================
