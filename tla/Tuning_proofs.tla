---------------------------- MODULE Tuning_proofs ----------------------------
(***************************************************************************)
(* The sweep of guard-cli calibrate finds the best cell, its report says   *)
(* what the guard then does, and guard-cli replay lists exactly the        *)
(* records whose own decision changed; for any grids, samples, traffic and *)
(* configurations.                                                         *)
(***************************************************************************)
EXTENDS Tuning, FiniteSetTheorems, SequenceTheorems, TLAPS

(* Nothing is judged before all samples are classified. *)
NotBefore == stage = "classify" => cell = 1

IInv == CalibrateTypeOK /\ NotBefore /\ BestIsBest

-----------------------------------------------------------------------------
LEMMA CellTypes ==
    ASSUME NEW n \in Cells
    PROVE  /\ Cell(n) \in [pass : Int, block : Int]
           /\ Cell(n).block \in {BlockGrid[i] : i \in DOMAIN BlockGrid}
  <1> DEFINE P == Len(PassGrid)
             B == Len(BlockGrid)
             q == (n - 1) \div B
             r == (n - 1) % B
  <1>1. P \in Nat /\ B \in Nat \ {0}
    BY GridAssumption
  <1>2. n - 1 \in Nat /\ n - 1 < P * B
    <2>1. P * B \in Nat
      BY <1>1
    <2> QED
      BY <2>1 DEF Cells
  <1>3. /\ q \in Nat /\ r \in 0 .. B - 1
        /\ q < P
    <2> HIDE DEF P, B
    <2>1. q \in Nat /\ r \in 0 .. B - 1
      BY <1>1, <1>2
    <2>2. B * q <= n - 1
      <3>1. \A a \in Nat, b \in Nat \ {0} : b * (a \div b) <= a
        OBVIOUS
      <3> QED
        BY <1>1, <1>2, <3>1
    <2>3. B * q < P * B
      BY <1>1, <1>2, <2>1, <2>2
    <2>4. q < P
      BY <1>1, <2>1, <2>3
    <2> QED
      BY <2>1, <2>4
  <1>4. q + 1 \in DOMAIN PassGrid /\ r + 1 \in DOMAIN BlockGrid
    BY <1>1, <1>3, GridAssumption
  <1> HIDE DEF q, r
  <1>5. PassGrid[q + 1] \in Int /\ BlockGrid[r + 1] \in Int
    BY <1>4, GridAssumption
  <1>6. Cell(n) = [pass |-> PassGrid[q + 1], block |-> BlockGrid[r + 1]]
    BY DEF Cell, q, r
  <1> QED
    BY <1>4, <1>5, <1>6

LEMMA ScoreTypes ==
    ASSUME sims \in Seq(Samples), NEW thr \in [pass : Int, block : Int]
    PROVE  /\ Score(thr) \in Scores
           /\ Score(thr).thr = thr
           /\ Score(thr).correct \in Int /\ Score(thr).falseBlocks \in Int
  <1>1. IsFiniteSet(DOMAIN sims)
    <2>1. DOMAIN sims = 1 .. Len(sims) /\ Len(sims) \in Nat
      OBVIOUS
    <2> QED
      BY <2>1, FS_Interval
  <1>2. ASSUME NEW S \in SUBSET (DOMAIN sims) PROVE Cardinality(S) \in Nat
    BY <1>1, FS_Subset, FS_CardinalityType
  <1> DEFINE passing == PassedAt(thr)
             blocked == DOMAIN sims \ passing
  <1>3. passing \in SUBSET (DOMAIN sims) /\ Positives \in SUBSET (DOMAIN sims)
    BY DEF PassedAt, Positives
  <1>4. Score(thr) = [thr |-> thr,
                      correct |-> Cardinality(passing \cap Positives)
                                     + Cardinality(blocked \ Positives),
                      falseBlocks |-> Cardinality(blocked \cap Positives),
                      falsePasses |-> Cardinality(passing \ Positives)]
    BY DEF Score
  <1> HIDE DEF passing
  <1>5. /\ Cardinality(passing \cap Positives) \in Nat
        /\ Cardinality(blocked \ Positives) \in Nat
        /\ Cardinality(blocked \cap Positives) \in Nat
        /\ Cardinality(passing \ Positives) \in Nat
    BY <1>2, <1>3
  <1> QED
    BY <1>4, <1>5 DEF Scores

(* Cell n is the best of the cells in V. *)
Wins(V, n) ==
    \A m \in V :
        LET other == Score(Cell(m)) IN
        /\ other.correct <= Score(Cell(n)).correct
        /\ other.correct = Score(Cell(n)).correct =>
              /\ other.falseBlocks >= Score(Cell(n)).falseBlocks
              /\ other.falseBlocks = Score(Cell(n)).falseBlocks => n <= m

LEMMA SweepFindsBest ==
    ASSUME IInv, Sweep
    PROVE  BestIsBest'
  <1> DEFINE S(n) == Score(Cell(n))
             V == {n \in Cells : n < cell /\ Tried(n)}
             W == {n \in Cells : n < cell + 1 /\ Tried(n)}
  <1>1. \A n \in Cells : /\ n \in Int /\ S(n) \in Scores
                         /\ S(n).correct \in Int /\ S(n).falseBlocks \in Int
    BY CellTypes, ScoreTypes DEF Cells, IInv, CalibrateTypeOK
  <1>2. cell \in Cells /\ cell' = cell + 1 /\ cell \in Int
    BY DEF Sweep, Cells
  <1>3. \A n : Score(Cell(n))' = S(n)
    BY DEF Sweep, Score, PassedAt, Positives, EffectivePass, SweepVerdict
  <1>4. IF V = {} THEN best = None ELSE \E n \in V : best = S(n) /\ Wins(V, n)
    BY DEF IInv, BestIsBest, Wins
  <1>5. /\ Tried(cell) => W = V \cup {cell}
        /\ ~Tried(cell) => W = V
    <2>1. \A n \in Cells : n < cell + 1 <=> n < cell \/ n = cell
      BY <1>2 DEF Cells
    <2> QED
      BY <1>2, <2>1
  <1>6. best' = IF Tried(cell) /\ (best = None \/ Better(S(cell), best))
                THEN S(cell) ELSE best
    BY DEF Sweep
  <1> HIDE DEF S, W, V
  <1>7. IF W = {} THEN best' = None ELSE \E n \in W : best' = S(n) /\ Wins(W, n)
    <2>1. CASE ~Tried(cell)
      BY <1>4, <1>5, <1>6, <2>1
    <2>2. CASE Tried(cell) /\ V = {}
      <3>1. best' = S(cell) /\ W = {cell}
        BY <1>4, <1>5, <1>6, <2>2
      <3>2. Wins(W, cell)
        BY <1>1, <1>2, <3>1 DEF Wins, S
      <3> QED
        BY <3>1, <3>2
    <2>3. CASE Tried(cell) /\ V # {}
      <3>1. PICK n \in V : best = S(n) /\ Wins(V, n)
        BY <1>4, <2>3
      <3>2. n \in Cells /\ n < cell /\ V \subseteq Cells /\ W = V \cup {cell}
        BY <1>5, <2>3 DEF V
      <3>3. best # None
        BY <1>1, <3>1, <3>2, ScoresAssumption
      <3>4. CASE Better(S(cell), S(n))
        <4>1. Wins(W, cell)
          <5> SUFFICES ASSUME NEW m \in W
                       PROVE  /\ S(m).correct <= S(cell).correct
                              /\ S(m).correct = S(cell).correct =>
                                    /\ S(m).falseBlocks >= S(cell).falseBlocks
                                    /\ S(m).falseBlocks = S(cell).falseBlocks
                                         => cell <= m
            BY DEF Wins, S
          <5>1. CASE m = cell
            BY <1>1, <1>2, <5>1
          <5>2. CASE m \in V
            <6>1. /\ S(m).correct <= S(n).correct
                  /\ S(m).correct = S(n).correct =>
                        S(m).falseBlocks >= S(n).falseBlocks
              BY <3>1, <5>2 DEF Wins, S
            <6> QED
              BY <1>1, <1>2, <3>2, <3>4, <5>2, <6>1 DEF Better
          <5> QED
            BY <3>2, <5>1, <5>2
        <4> QED
          BY <1>6, <2>3, <3>1, <3>2, <3>4, <4>1
      <3>5. CASE ~Better(S(cell), S(n))
        <4>1. Wins(W, n)
          <5> SUFFICES ASSUME NEW m \in W
                       PROVE  /\ S(m).correct <= S(n).correct
                              /\ S(m).correct = S(n).correct =>
                                    /\ S(m).falseBlocks >= S(n).falseBlocks
                                    /\ S(m).falseBlocks = S(n).falseBlocks
                                         => n <= m
            BY DEF Wins, S
          <5>1. CASE m = cell
            BY <1>1, <1>2, <3>2, <3>5, <5>1 DEF Better
          <5>2. CASE m \in V
            BY <3>1, <5>2 DEF Wins, S
          <5> QED
            BY <3>2, <5>1, <5>2
        <4> QED
          BY <1>6, <3>1, <3>2, <3>3, <3>5, <4>1
      <3> QED
        BY <3>4, <3>5
    <2> QED
      BY <2>1, <2>2, <2>3
  <1>8. CASE W = {}
    <2>1. best' = None
      BY <1>7, <1>8
    <2> QED
      BY <1>2, <1>8, <2>1 DEF BestIsBest, W
  <1>9. CASE W # {}
    <2>1. PICK n \in W : best' = S(n) /\ Wins(W, n)
      BY <1>7, <1>9
    <2>2. best' = Score(Cell(n))'
      BY <1>3, <2>1
    <2>3. \A m \in W :
             LET other == Score(Cell(m))' IN
             /\ other.correct <= best'.correct
             /\ other.correct = best'.correct =>
                   /\ other.falseBlocks >= best'.falseBlocks
                   /\ other.falseBlocks = best'.falseBlocks => n <= m
      BY <1>3, <2>1 DEF Wins, S
    <2> QED
      BY <1>2, <1>9, <2>1, <2>2, <2>3 DEF BestIsBest, W
  <1> QED
    BY <1>8, <1>9

(* The sweep comes after the classification, cell by cell. *)
LEMMA InitIInv == CalibrateInit => IInv
  <1> SUFFICES ASSUME CalibrateInit PROVE IInv
    OBVIOUS
  <1>1. samples \in Seq(Samples) /\ Len(samples) \in Nat
    BY SamplesAssumption DEF CalibrateInit
  <1>2. Len(PassGrid) * Len(BlockGrid) \in Nat
    BY GridAssumption
  <1>3. CalibrateTypeOK
    BY <1>1, <1>2 DEF CalibrateInit, CalibrateTypeOK
  <1>4. \A n \in Cells : ~(n < 1)
    BY <1>2 DEF Cells
  <1> QED
    BY <1>3, <1>4 DEF CalibrateInit, IInv, NotBefore, BestIsBest

LEMMA BestStays ==
    ASSUME BestIsBest, UNCHANGED <<config, sims, cell, best>>
    PROVE  BestIsBest'
  <1>1. \A n : Score(Cell(n))' = Score(Cell(n))
    BY DEF Score, PassedAt, Positives, EffectivePass, SweepVerdict
  <1> QED
    BY <1>1 DEF BestIsBest

LEMMA ClassifyIInv ==
    ASSUME IInv, stage = "classify", UNCHANGED <<cell, best>>,
           CalibrateTypeOK'
    PROVE  IInv'
  <1>1. \A n \in Cells : ~(n < 1)
    BY GridAssumption DEF Cells
  <1>2. cell = 1
    BY DEF IInv, NotBefore
  <1>3. best = None
    BY <1>1, <1>2 DEF IInv, BestIsBest
  <1>4. BestIsBest'
    BY <1>1, <1>2, <1>3 DEF BestIsBest
  <1> QED
    BY <1>2, <1>4 DEF IInv, NotBefore

LEMMA Inductive == IInv /\ [CalibrateNext]_calibrateVars => IInv'
  <1> SUFFICES ASSUME IInv, [CalibrateNext]_calibrateVars PROVE IInv'
    OBVIOUS
  <1> USE DEF IInv
  <1>0. samples \in Seq(Samples) /\ Len(samples) \in Nat
    BY SamplesAssumption DEF CalibrateTypeOK
  <1>1. CASE Refuse
    BY <1>1, ClassifyIInv DEF Refuse, CalibrateTypeOK
  <1>2. CASE DecidedEarlier
    <2>1. sample + 1 \in 1 .. Len(samples) + 1 /\ Len(sims) < sample + 1
      BY <1>0, <1>2 DEF DecidedEarlier, Classifying, CalibrateTypeOK
    <2>2. decided' \in [rule_pass : Nat, rule_block : Nat]
      <3>1. \/ decided' = [decided EXCEPT !.rule_pass = @ + 1]
            \/ decided' = [decided EXCEPT !.rule_block = @ + 1]
        BY <1>2 DEF DecidedEarlier
      <3> QED
        BY <3>1 DEF CalibrateTypeOK
    <2>3. CalibrateTypeOK'
      BY <1>2, <2>1, <2>2 DEF DecidedEarlier, CalibrateTypeOK
    <2> QED
      BY <1>2, <2>3, ClassifyIInv DEF DecidedEarlier, Classifying
  <1>3. CASE Embed
    <2>1. sample \in DOMAIN samples /\ samples[sample] \in Samples
      BY <1>0, <1>3 DEF Embed, Classifying
    <2>2. /\ sample + 1 \in 1 .. Len(samples) + 1
          /\ sims' \in Seq(Samples) /\ Len(sims') < sample + 1
      BY <1>0, <1>3, <2>1 DEF Embed, CalibrateTypeOK
    <2>3. CalibrateTypeOK'
      BY <1>3, <2>2 DEF Embed, CalibrateTypeOK
    <2> QED
      BY <1>3, <2>3, ClassifyIInv DEF Embed, Classifying
  <1>4. CASE EmbedRaises
    BY <1>4, ClassifyIInv DEF EmbedRaises, Classifying, CalibrateTypeOK
  <1>5. CASE AllClassified
    BY <1>5, ClassifyIInv DEF AllClassified, CalibrateTypeOK
  <1>6. CASE Sweep
    <2>1. BestIsBest'
      BY <1>6, SweepFindsBest
    <2>2. best' \in Scores \cup {None}
      BY <1>6, CellTypes, ScoreTypes DEF Sweep, CalibrateTypeOK
    <2>3. cell + 1 \in 1 .. Len(PassGrid) * Len(BlockGrid) + 1
      <3>1. Len(PassGrid) * Len(BlockGrid) \in Nat
        BY GridAssumption
      <3> QED
        BY <1>6, <3>1 DEF Sweep, Cells
    <2>4. CalibrateTypeOK'
      BY <1>6, <2>2, <2>3 DEF Sweep, CalibrateTypeOK
    <2> QED
      BY <1>6, <2>1, <2>4 DEF Sweep, NotBefore
  <1>7. CASE Report
    <2>1. CalibrateTypeOK'
      BY <1>7 DEF Report, CalibrateTypeOK
    <2>2. BestIsBest'
      BY <1>7, BestStays DEF Report
    <2> QED
      BY <1>7, <2>1, <2>2 DEF Report, NotBefore
  <1>8. CASE UNCHANGED calibrateVars
    <2>1. CalibrateTypeOK'
      BY <1>8 DEF calibrateVars, CalibrateTypeOK
    <2>2. BestIsBest'
      BY <1>8, BestStays DEF calibrateVars
    <2> QED
      BY <1>8, <2>1, <2>2 DEF calibrateVars, NotBefore
  <1> QED
    BY <1>1, <1>2, <1>3, <1>4, <1>5, <1>6, <1>7, <1>8 DEF CalibrateNext

-----------------------------------------------------------------------------
(* Every pass threshold is tried with the first block threshold first. *)
LEMMA FirstOfRow ==
    ASSUME NEW n \in Cells, Tried(n)
    PROVE  \E m \in Cells : /\ m <= n /\ Tried(m)
                            /\ Cell(m).pass = Cell(n).pass
                            /\ Cell(m).block = BlockGrid[1]
  <1> DEFINE P == Len(PassGrid)
             B == Len(BlockGrid)
             q == (n - 1) \div B
             m == q * B + 1
  <1>1. P \in Nat /\ B \in Nat \ {0} /\ P * B \in Nat
    BY GridAssumption
  <1>2. n \in Nat /\ n >= 1 /\ n <= P * B /\ n - 1 \in Nat
    BY <1>1 DEF Cells
  <1> HIDE DEF P, B
  <1>3. q \in Nat /\ q * B <= n - 1
    <2>1. \A a \in Nat, b \in Nat \ {0} : a \div b \in Nat /\ (a \div b) * b <= a
      OBVIOUS
    <2> QED
      BY <1>1, <1>2, <2>1
  <1> HIDE DEF q
  <1>4. m \in Cells /\ m <= n
    <2>1. q * B \in Nat
      BY <1>1, <1>3
    <2> QED
      BY <1>1, <1>2, <1>3, <2>1 DEF Cells, P, B
  <1>5. (m - 1) \div B = q /\ (m - 1) % B = 0
    <2>1. \A a \in Nat, b \in Nat \ {0} : (a * b) \div b = a
      OBVIOUS
    <2>2. \A a \in Nat, b \in Nat \ {0} : (a * b) % b = 0
      OBVIOUS
    <2>3. m - 1 = q * B
      <3>1. q * B \in Nat
        BY <1>1, <1>3
      <3> QED
        BY <3>1
    <2> QED
      BY <1>1, <1>3, <2>1, <2>2, <2>3
  <1>6. Cell(m).pass = Cell(n).pass /\ Cell(m).block = BlockGrid[1]
    BY <1>5 DEF Cell, q, B
  <1>7. BlockGrid[1] <= Cell(n).block
    BY CellTypes, GridAssumption
  <1>8. /\ Cell(n).pass \in Int /\ Cell(n).block \in Int
        /\ Cell(m).block \in Int
    BY <1>4, CellTypes
  <1>9. Tried(m)
    BY <1>6, <1>7, <1>8 DEF Tried
  <1> QED
    BY <1>4, <1>6, <1>9

(* The block threshold does not count. *)
LEMMA BlockCutIdle ==
    ASSUME NEW a, NEW b, a.pass = b.pass
    PROVE  /\ Score(a).correct = Score(b).correct
           /\ Score(a).falseBlocks = Score(b).falseBlocks
  <1>1. \A s : EffectivePass(s, a) <=> EffectivePass(s, b)
    BY DEF EffectivePass, SweepVerdict
  <1>2. PassedAt(a) = PassedAt(b)
    BY <1>1 DEF PassedAt
  <1> QED
    BY <1>2 DEF Score

(* What the sweep has found is the best of what it has visited, at every   *)
(* moment (calibrate.py:128-206).                                          *)
THEOREM Invariant == CalibrateSpec => []IInv
  BY InitIInv, Inductive, PTL DEF CalibrateSpec

(* The state stays in its types, for any samples and grids. *)
THEOREM TypeCorrect == CalibrateSpec => []CalibrateTypeOK
  BY Invariant, PTL DEF IInv

(* The running best is the best of the cells visited, the first of equals  *)
(* (calibrate.py:202-206).                                                 *)
THEOREM FindsBest == CalibrateSpec => []BestIsBest
  BY Invariant, PTL DEF IInv

(* The recommended block threshold is the first of the grid, whatever the  *)
(* samples are (calibrate.py:175-176, 204).                                *)
THEOREM RecommendsFirstBlock == CalibrateSpec => []BlockCutIsFirst
  <1>1. ASSUME IInv, best # None PROVE BlockCutIsFirst
    <2> DEFINE V == {n \in Cells : n < cell /\ Tried(n)}
    <2>1. V # {}
      BY <1>1 DEF IInv, BestIsBest
    <2>2. PICK n \in V :
             /\ best = Score(Cell(n))
             /\ \A m \in V :
                   LET other == Score(Cell(m)) IN
                   /\ other.correct <= best.correct
                   /\ other.correct = best.correct =>
                         /\ other.falseBlocks >= best.falseBlocks
                         /\ other.falseBlocks = best.falseBlocks => n <= m
      BY <1>1, <2>1 DEF IInv, BestIsBest
    <2>3. PICK m \in Cells : /\ m <= n /\ Tried(m)
                             /\ Cell(m).pass = Cell(n).pass
                             /\ Cell(m).block = BlockGrid[1]
      BY <2>2, FirstOfRow
    <2>4. m \in Int /\ n \in Int /\ cell \in Int
      BY <1>1, <2>2, <2>3 DEF Cells, IInv, CalibrateTypeOK
    <2>5. m \in V
      BY <2>2, <2>3, <2>4
    <2>6. /\ Score(Cell(m)).correct = best.correct
          /\ Score(Cell(m)).falseBlocks = best.falseBlocks
      BY <2>2, <2>3, BlockCutIdle
    <2>7. n = m
      BY <2>2, <2>3, <2>4, <2>5, <2>6
    <2>8. best.thr = Cell(n) /\ Cell(n) \in [pass : Int, block : Int]
      BY <1>1, <2>2, CellTypes, ScoreTypes DEF IInv, CalibrateTypeOK
    <2>9. best.thr.block = BlockGrid[1]
      BY <2>3, <2>7, <2>8
    <2>10. ASSUME NEW b
           PROVE  LET other == Score([best.thr EXCEPT !.block = b])
                  IN  /\ other.correct = best.correct
                      /\ other.falseBlocks = best.falseBlocks
      <3>1. [best.thr EXCEPT !.block = b].pass = Cell(n).pass
        BY <2>8
      <3> QED
        BY <2>2, <3>1, BlockCutIdle
    <2> QED
      BY <2>9, <2>10 DEF BlockCutIsFirst
  <1>2. IInv => BlockCutIsFirst
    BY <1>1 DEF BlockCutIsFirst
  <1> QED
    BY <1>2, Invariant, PTL

-----------------------------------------------------------------------------
(* The samples of a kind P that are left to the embedding layer so far are *)
(* as many as those among the samples seen that no earlier layer decides.  *)
Kept(P) == {k \in DOMAIN sims : sims[k] \in P}
Left(P) == {i \in LeftOver : i < sample /\ samples[i] \in P}

Leftovers ==
    \A P \in SUBSET Samples : Cardinality(Kept(P)) = Cardinality(Left(P))

Complete ==
    /\ stage \in {"sweep", "reported"} =>
          sample = Len(samples) + 1 /\ Has(config, "embedding")
    /\ stage = "reported" => best # None

(* The rule layer's share of the samples seen. *)
Ruled(verdict) ==
    {i \in DOMAIN samples : i < sample /\ Earlier(samples[i]) = verdict}

RuleCounts ==
    /\ decided.rule_pass = Cardinality(Ruled("pass"))
    /\ decided.rule_block = Cardinality(Ruled("block"))

Calibrated == IInv /\ Leftovers /\ RuleCounts /\ Complete

-----------------------------------------------------------------------------
LEMMA FiniteParts ==
    ASSUME NEW S, NEW s \in Seq(S), NEW T \in SUBSET (DOMAIN s)
    PROVE  IsFiniteSet(T) /\ Cardinality(T) \in Nat
  <1>1. IsFiniteSet(DOMAIN s)
    <2>1. DOMAIN s = 1 .. Len(s) /\ Len(s) \in Nat
      OBVIOUS
    <2> QED
      BY <2>1, FS_Interval
  <1> QED
    BY <1>1, FS_Subset, FS_CardinalityType

(* What is in one set but not in the other explains the difference. *)
LEMMA DifferencesBalance ==
    ASSUME NEW A, NEW B, IsFiniteSet(A), IsFiniteSet(B)
    PROVE  Cardinality(A \ B) - Cardinality(B \ A) = Cardinality(A) - Cardinality(B)
  <1>1. /\ Cardinality(A \ B) = Cardinality(A) - Cardinality(A \cap B)
        /\ Cardinality(B \ A) = Cardinality(B) - Cardinality(B \cap A)
    BY FS_Difference
  <1>2. Cardinality(B \cap A) = Cardinality(A \cap B)
    <2>1. A \cap B = B \cap A
      OBVIOUS
    <2> QED
      BY <2>1
  <1>3. Cardinality(A) \in Nat /\ Cardinality(B) \in Nat
    BY FS_CardinalityType
  <1>4. Cardinality(A \cap B) \in Nat
    BY FS_Intersection, FS_CardinalityType
  <1> QED
    BY <1>1, <1>2, <1>3, <1>4

LEMMA SamplesTyped ==
    ASSUME IInv
    PROVE  /\ samples \in Seq(Samples) /\ sims \in Seq(Samples)
           /\ DOMAIN samples = 1 .. Len(samples) /\ Len(samples) \in Nat
           /\ DOMAIN sims = 1 .. Len(sims) /\ Len(sims) \in Nat
           /\ sample \in 1 .. Len(samples) + 1
           /\ config \in Configs
  BY SamplesAssumption DEF IInv, CalibrateTypeOK

(* The next sample is left over, or not. *)
LEMMA EmbedKeeps ==
    ASSUME Calibrated, Embed
    PROVE  Leftovers'
  <1> DEFINE x == samples[sample]
             n == Len(sims) + 1
  <1>1. /\ samples \in Seq(Samples) /\ sims \in Seq(Samples)
        /\ DOMAIN samples = 1 .. Len(samples) /\ Len(samples) \in Nat
        /\ DOMAIN sims = 1 .. Len(sims) /\ Len(sims) \in Nat
        /\ sample \in 1 .. Len(samples)
    BY SamplesTyped DEF Calibrated, Embed, Classifying
  <1>2. /\ sims' = Append(sims, x) /\ sample' = sample + 1
        /\ UNCHANGED <<config, samples>> /\ Earlier(x) = "defer"
    BY DEF Embed
  <1>3. x \in Samples
    BY <1>1
  <1>4. LeftOver' = LeftOver /\ sample \in LeftOver /\ LeftOver \subseteq DOMAIN samples
    BY <1>1, <1>2 DEF LeftOver, Earlier
  <1>5. /\ DOMAIN sims' = 1 .. n /\ sims'[n] = x
        /\ \A k \in 1 .. Len(sims) : sims'[k] = sims[k]
    BY <1>1, <1>2, <1>3
  <1> HIDE DEF x
  <1> SUFFICES ASSUME NEW P \in SUBSET Samples
               PROVE  Cardinality(Kept(P)') = Cardinality(Left(P)')
    BY DEF Leftovers
  <1>6. Kept(P)' = IF x \in P THEN Kept(P) \cup {n} ELSE Kept(P)
    <2>1. Kept(P)' = {k \in 1 .. n : sims'[k] \in P}
      BY <1>5 DEF Kept
    <2>2. Kept(P) = {k \in 1 .. Len(sims) : sims[k] \in P}
      BY <1>1 DEF Kept
    <2>3. 1 .. n = (1 .. Len(sims)) \cup {n} /\ n \notin 1 .. Len(sims)
      BY <1>1
    <2> HIDE DEF n
    <2> QED
      BY <1>5, <2>1, <2>2, <2>3
  <1>7. Left(P)' = IF x \in P THEN Left(P) \cup {sample} ELSE Left(P)
    <2>1. \A i \in LeftOver : i < sample + 1 <=> i < sample \/ i = sample
      BY <1>1, <1>4
    <2> QED
      BY <1>2, <1>4, <2>1 DEF Left, x
  <1>8. n \notin Kept(P) /\ sample \notin Left(P)
    BY <1>1 DEF Kept, Left
  <1>9. /\ IsFiniteSet(Kept(P)) /\ IsFiniteSet(Left(P))
    <2>1. Kept(P) \in SUBSET (DOMAIN sims) /\ Left(P) \in SUBSET (DOMAIN samples)
      BY <1>4 DEF Kept, Left
    <2> QED
      BY <1>1, <2>1, FiniteParts
  <1>10. Cardinality(Kept(P)) = Cardinality(Left(P))
    BY DEF Calibrated, Leftovers
  <1> HIDE DEF n
  <1>11. /\ Cardinality(Kept(P) \cup {n}) = Cardinality(Kept(P)) + 1
         /\ Cardinality(Left(P) \cup {sample}) = Cardinality(Left(P)) + 1
    BY <1>8, <1>9, FS_AddElement
  <1> QED
    BY <1>6, <1>7, <1>10, <1>11

LEMMA DecidedKeeps ==
    ASSUME Calibrated, DecidedEarlier
    PROVE  Leftovers'
  <1>1. /\ DOMAIN samples = 1 .. Len(samples) /\ Len(samples) \in Nat
        /\ sample \in 1 .. Len(samples)
    BY SamplesTyped DEF Calibrated, DecidedEarlier, Classifying
  <1>2. /\ sample' = sample + 1 /\ UNCHANGED <<config, samples, sims>>
        /\ Earlier(samples[sample]) # "defer"
    BY DEF DecidedEarlier
  <1>3. LeftOver' = LeftOver /\ sample \notin LeftOver /\ LeftOver \subseteq DOMAIN samples
    BY <1>1, <1>2 DEF LeftOver, Earlier
  <1>4. \A i \in LeftOver : i < sample + 1 <=> i < sample
    BY <1>1, <1>3
  <1>5. \A P : Left(P)' = Left(P) /\ Kept(P)' = Kept(P)
    BY <1>2, <1>3, <1>4 DEF Left, Kept
  <1> QED
    BY <1>5 DEF Calibrated, Leftovers

(* A sample counts where the rule layer put it. *)
LEMMA RuleAnswers ==
    ASSUME NEW s
    PROVE  Earlier(s) \in Verdicts
  BY DEF Earlier, RuleVerdict, Verdicts

LEMMA RuledNext ==
    ASSUME IInv, sample \in DOMAIN samples, sample' = sample + 1,
           UNCHANGED <<config, samples>>, NEW v
    PROVE  /\ Earlier(samples[sample]) = v =>
                 Cardinality(Ruled(v)') = Cardinality(Ruled(v)) + 1
           /\ Earlier(samples[sample]) # v => Ruled(v)' = Ruled(v)
           /\ Cardinality(Ruled(v)) \in Nat
  <1>1. /\ samples \in Seq(Samples)
        /\ DOMAIN samples = 1 .. Len(samples) /\ Len(samples) \in Nat
    BY SamplesTyped
  <1>2. \A i \in DOMAIN samples : i < sample + 1 <=> i < sample \/ i = sample
    BY <1>1
  <1>3. Ruled(v)' = {i \in DOMAIN samples : i < sample + 1 /\ Earlier(samples[i]) = v}
    BY DEF Ruled, Earlier
  <1>4. IsFiniteSet(Ruled(v)) /\ Cardinality(Ruled(v)) \in Nat
    <2>1. Ruled(v) \in SUBSET (DOMAIN samples)
      BY DEF Ruled
    <2> QED
      BY <1>1, <2>1, FiniteParts
  <1>5. sample \notin Ruled(v)
    BY <1>1 DEF Ruled
  <1>6. CASE Earlier(samples[sample]) = v
    <2>1. Ruled(v)' = Ruled(v) \cup {sample}
      BY <1>2, <1>3, <1>6 DEF Ruled
    <2> QED
      BY <1>4, <1>5, <1>6, <2>1, FS_AddElement
  <1>7. CASE Earlier(samples[sample]) # v
    <2>1. Ruled(v)' = Ruled(v)
      BY <1>2, <1>3, <1>7 DEF Ruled
    <2> QED
      BY <1>4, <1>7, <2>1
  <1> QED
    BY <1>6, <1>7

LEMMA RuleCountsKept ==
    ASSUME Calibrated, [CalibrateNext]_calibrateVars
    PROVE  RuleCounts'
  <1>1. IInv /\ RuleCounts /\ decided \in [rule_pass : Nat, rule_block : Nat]
    BY DEF Calibrated, IInv, CalibrateTypeOK
  <1>2. CASE Embed
    <2>1. /\ sample \in DOMAIN samples /\ sample' = sample + 1 /\ decided' = decided
          /\ UNCHANGED <<config, samples>> /\ Earlier(samples[sample]) = "defer"
      BY <1>2 DEF Embed, Classifying
    <2>2. Ruled("pass")' = Ruled("pass") /\ Ruled("block")' = Ruled("block")
      BY <1>1, <2>1, RuledNext
    <2> QED
      BY <1>1, <2>1, <2>2 DEF RuleCounts
  <1>3. CASE DecidedEarlier
    <2> DEFINE v == Earlier(samples[sample])
    <2>1. /\ sample \in DOMAIN samples /\ sample' = sample + 1
          /\ UNCHANGED <<config, samples>>
          /\ decided' = IF v = "pass" THEN [decided EXCEPT !.rule_pass = @ + 1]
                        ELSE [decided EXCEPT !.rule_block = @ + 1]
          /\ v = "pass" \/ v = "block"
      BY <1>3, RuleAnswers DEF DecidedEarlier, Classifying, Verdicts
    <2>2. \A x : /\ v = x => Cardinality(Ruled(x)') = Cardinality(Ruled(x)) + 1
                 /\ v # x => Ruled(x)' = Ruled(x)
      BY <1>1, <2>1, RuledNext
    <2> HIDE DEF v
    <2>3. CASE v = "pass"
      <3>1. /\ decided'.rule_pass = decided.rule_pass + 1
            /\ decided'.rule_block = decided.rule_block
        BY <1>1, <2>1, <2>3
      <3>2. /\ Cardinality(Ruled("pass")') = Cardinality(Ruled("pass")) + 1
            /\ Ruled("block")' = Ruled("block")
        BY <2>2, <2>3
      <3> QED
        BY <1>1, <3>1, <3>2 DEF RuleCounts
    <2>4. CASE v = "block"
      <3>1. /\ decided'.rule_pass = decided.rule_pass
            /\ decided'.rule_block = decided.rule_block + 1
        BY <1>1, <2>1, <2>4
      <3>2. /\ Cardinality(Ruled("block")') = Cardinality(Ruled("block")) + 1
            /\ Ruled("pass")' = Ruled("pass")
        BY <2>2, <2>4
      <3> QED
        BY <1>1, <3>1, <3>2 DEF RuleCounts
    <2> QED
      BY <2>1, <2>3, <2>4
  <1>4. CASE ~Embed /\ ~DecidedEarlier
    <2>1. UNCHANGED <<config, samples, sample, decided>>
      BY <1>4 DEF CalibrateNext, calibrateVars, Refuse, EmbedRaises, AllClassified,
                  Sweep, Report
    <2>2. \A x : Ruled(x)' = Ruled(x)
      BY <2>1 DEF Ruled, Earlier
    <2> QED
      BY <1>1, <2>1, <2>2 DEF RuleCounts
  <1> QED
    BY <1>2, <1>3, <1>4

LEMMA OtherwiseKeeps ==
    ASSUME Leftovers, UNCHANGED <<config, samples, sims, sample>>
    PROVE  Leftovers'
  <1>1. LeftOver' = LeftOver
    BY DEF LeftOver, Earlier
  <1>2. \A P : Left(P)' = Left(P) /\ Kept(P)' = Kept(P)
    BY <1>1 DEF Left, Kept
  <1> QED
    BY <1>2 DEF Leftovers

LEMMA CalibratedKept == Calibrated /\ [CalibrateNext]_calibrateVars => Calibrated'
  <1> SUFFICES ASSUME Calibrated, [CalibrateNext]_calibrateVars PROVE Calibrated'
    OBVIOUS
  <1>1. IInv'
    BY Inductive DEF Calibrated
  <1>2. Leftovers'
    <2>1. ASSUME ~Embed, ~DecidedEarlier PROVE UNCHANGED <<config, samples, sims, sample>>
      BY <2>1 DEF CalibrateNext, calibrateVars, Refuse, EmbedRaises, AllClassified, Sweep, Report
    <2> QED
      BY <2>1, EmbedKeeps, DecidedKeeps, OtherwiseKeeps DEF Calibrated
  <1>3. Complete'
    <2>1. Complete
      BY DEF Calibrated
    <2>2. CASE AllClassified
      <3>1. sample = Len(samples) + 1
        BY <2>2, SamplesTyped DEF Calibrated, AllClassified
      <3>2. /\ stage' = "sweep" /\ Has(config, "embedding")
            /\ UNCHANGED <<config, samples, sample>>
        BY <2>2 DEF AllClassified
      <3> HIDE DEF Has
      <3>3. Has(config', "embedding")
        BY <3>2
      <3> QED
        BY <3>1, <3>2, <3>3 DEF Complete
    <2>3. CASE Sweep
      BY <2>1, <2>3 DEF Sweep, Complete, Has
    <2>4. CASE Report
      BY <2>1, <2>4 DEF Report, Complete, Has
    <2>5. CASE Refuse \/ DecidedEarlier \/ Embed \/ EmbedRaises
      <3>1. stage' \notin {"sweep", "reported"}
        BY <2>5 DEF Refuse, DecidedEarlier, Embed, EmbedRaises, Classifying
      <3> QED
        BY <3>1 DEF Complete
    <2>6. CASE UNCHANGED calibrateVars
      BY <2>1, <2>6 DEF calibrateVars, Complete, Has
    <2> QED
      BY <2>2, <2>3, <2>4, <2>5, <2>6 DEF CalibrateNext
  <1>4. RuleCounts'
    BY RuleCountsKept
  <1> QED
    BY <1>1, <1>2, <1>3, <1>4 DEF Calibrated

LEMMA InitCalibrated == CalibrateInit => Calibrated
  <1> SUFFICES ASSUME CalibrateInit PROVE Calibrated
    OBVIOUS
  <1>1. IInv
    BY InitIInv
  <1>2. \A P : Kept(P) = {} /\ Left(P) = {}
    <2>1. LeftOver \subseteq 1 .. Len(samples) /\ Len(samples) \in Nat /\ sample = 1
      BY <1>1, SamplesTyped DEF LeftOver, CalibrateInit
    <2>2. sims = <<>>
      BY DEF CalibrateInit
    <2>3. \A P : Kept(P) = {}
      BY <2>2 DEF Kept
    <2>4. \A i \in LeftOver : ~(i < sample)
      BY <2>1
    <2>5. \A P : Left(P) = {}
      BY <2>4 DEF Left
    <2> QED
      BY <2>3, <2>5
  <1>3. Complete
    BY DEF CalibrateInit, Complete
  <1>4. RuleCounts
    <2>1. \A i \in DOMAIN samples : ~(i < sample)
      BY <1>1, SamplesTyped DEF CalibrateInit
    <2>2. \A x : Ruled(x) = {}
      BY <2>1 DEF Ruled
    <2>3. decided.rule_pass = 0 /\ decided.rule_block = 0
      BY DEF CalibrateInit
    <2> QED
      BY <2>2, <2>3, FS_EmptySet DEF RuleCounts
  <1> QED
    BY <1>1, <1>2, <1>3, <1>4 DEF Calibrated, Leftovers

-----------------------------------------------------------------------------
(* A cell's counts, by kinds of samples. *)
Rightly(thr) == {s \in Samples : EffectivePass(s, thr) <=> s.positive}
Wrongly(thr) == {s \in Samples : EffectivePass(s, thr) /\ ~s.positive}

LEMMA ScoreCounts ==
    ASSUME sims \in Seq(Samples), NEW thr
    PROVE  /\ Score(thr).correct = Cardinality(Kept(Rightly(thr)))
           /\ Score(thr).falsePasses = Cardinality(Kept(Wrongly(thr)))
  <1> DEFINE passing == PassedAt(thr)
             blocked == DOMAIN sims \ passing
             A == passing \cap Positives
             B == blocked \ Positives
  <1>1. \A k \in DOMAIN sims : sims[k] \in Samples
    OBVIOUS
  <1>2. \A k \in DOMAIN sims : /\ k \in passing <=> EffectivePass(sims[k], thr)
                               /\ k \in Positives <=> sims[k].positive
    BY DEF PassedAt, Positives
  <1>3. passing \subseteq DOMAIN sims /\ Positives \subseteq DOMAIN sims
    BY DEF PassedAt, Positives
  <1>4. /\ Score(thr).correct = Cardinality(A) + Cardinality(B)
        /\ Score(thr).falsePasses = Cardinality(passing \ Positives)
    BY DEF Score
  <1> HIDE DEF passing
  <1>5. Kept(Rightly(thr)) = A \cup B /\ A \cap B = {}
    BY <1>1, <1>2, <1>3 DEF Kept, Rightly
  <1>6. Kept(Wrongly(thr)) = passing \ Positives
    BY <1>1, <1>2, <1>3 DEF Kept, Wrongly
  <1>7. IsFiniteSet(A) /\ IsFiniteSet(B) /\ Cardinality(A) \in Nat /\ Cardinality(B) \in Nat
    <2>1. A \in SUBSET (DOMAIN sims) /\ B \in SUBSET (DOMAIN sims)
      BY <1>3
    <2> HIDE DEF A, B
    <2> QED
      BY <2>1, FiniteParts
  <1> HIDE DEF A, B, blocked
  <1>8. Cardinality(A \cup B) = Cardinality(A) + Cardinality(B)
    <2>1. Cardinality(A \cup B) = Cardinality(A) + Cardinality(B) - Cardinality({})
      BY <1>5, <1>7, FS_Union
    <2> QED
      BY <1>7, <2>1, FS_EmptySet
  <1> QED
    BY <1>4, <1>5, <1>6, <1>8

-----------------------------------------------------------------------------
(* The guard with the recommended thresholds decides a sample that is left *)
(* over as the sweep did: no layer but the embedding layer has an opinion. *)
Judged(g, m) ==
    EmbeddingVerdict(DomainSim[m], IF g.hasOod THEN OodSim[m] ELSE 0, g.hasOod, g.thr)

LEMMA LayerAnswers ==
    ASSUME NEW g, Simulated(g), g.pipeline \in Seq(LayerTypes),
           NEW m, Has(g, "rule") => RuleVerdict(m) = "defer",
           NEW r, r = [msg |-> m, state |-> None],
           NEW i \in DOMAIN g.pipeline
    PROVE  /\ g.pipeline[i] = "embedding" => Answers(g, i, r) = {Judged(g, m), "raise"}
           /\ g.pipeline[i] # "embedding" => Answers(g, i, r) = {"defer"}
  <1>1. g.pipeline[i] \in LayerTypes
    OBVIOUS
  <1>2. g.pipeline[i] # "llm_fallback"
    BY DEF Simulated, Has
  <1>3. CASE g.pipeline[i] = "embedding"
    BY <1>3 DEF Answers, Outcomes, Judged
  <1>4. CASE g.pipeline[i] = "rule"
    BY <1>4 DEF Answers, Outcomes, Has
  <1>5. CASE g.pipeline[i] = "context_bypass"
    <2>1. BypassVerdict(g.when, r.state) = "defer"
      BY DEF BypassVerdict
    <2> QED
      BY <1>5, <2>1 DEF Answers, Outcomes
  <1> QED
    BY <1>1, <1>2, <1>3, <1>4, <1>5 DEF LayerTypes

LEMMA GuardDecides ==
    ASSUME NEW g, Simulated(g), g.pipeline \in Seq(LayerTypes), Has(g, "embedding"),
           NEW m, Has(g, "rule") => RuleVerdict(m) = "defer",
           NEW r, r = [msg |-> m, state |-> None],
           NEW result \in Results(g, r)
    PROVE  result.passed \in BOOLEAN /\ (result.passed <=> Judged(g, m) = "pass")
  <1>1. \A i \in DOMAIN g.pipeline :
           /\ g.pipeline[i] = "embedding" => Answers(g, i, r) = {Judged(g, m), "raise"}
           /\ g.pipeline[i] # "embedding" => Answers(g, i, r) = {"defer"}
    BY LayerAnswers
  <1>2. ASSUME NEW i \in DecidedAt(g, r, "pass") PROVE Judged(g, m) = "pass"
    BY <1>1, <1>2 DEF DecidedAt
  <1>3. ASSUME NEW i \in DecidedAt(g, r, "block") PROVE Judged(g, m) = "block"
    BY <1>1, <1>3 DEF DecidedAt
  <1>4. ASSUME Reached(g, Len(g.pipeline) + 1, r) PROVE Judged(g, m) = "defer"
    <2>1. PICK i \in DOMAIN g.pipeline : g.pipeline[i] = "embedding"
      BY DEF Has
    <2>2. i \in 1 .. (Len(g.pipeline) + 1) - 1
      OBVIOUS
    <2>3. "defer" \in Answers(g, i, r)
      BY <1>4, <2>2 DEF Reached
    <2> QED
      BY <1>1, <2>1, <2>3
  <1>5. g.mode = "enforce"
    BY DEF Simulated
  <1> DEFINE Goal == result.passed \in BOOLEAN /\ (result.passed <=> Judged(g, m) = "pass")
  <1>6. ASSUME NEW i \in DecidedAt(g, r, "pass"),
               result = [passed |-> TRUE, layer |-> g.pipeline[i]]
        PROVE  Goal
    BY <1>2, <1>6
  <1>7. ASSUME NEW i \in DecidedAt(g, r, "block"),
               result = [passed |-> FALSE, layer |-> g.pipeline[i]]
        PROVE  Goal
    BY <1>3, <1>7
  <1>8. ASSUME Reached(g, Len(g.pipeline) + 1, r),
               result = [passed |-> FALSE, layer |-> None]
        PROVE  Goal
    BY <1>4, <1>8
  <1>9. \/ \E i \in DecidedAt(g, r, "pass") :
              result = [passed |-> TRUE, layer |-> g.pipeline[i]]
        \/ \E i \in DecidedAt(g, r, "block") :
              result = [passed |-> FALSE, layer |-> g.pipeline[i]]
        \/ /\ Reached(g, Len(g.pipeline) + 1, r)
           /\ result = [passed |-> FALSE, layer |-> None]
    BY <1>5 DEF Results
  <1> HIDE DEF Goal
  <1>10. Goal
    BY <1>6, <1>7, <1>8, <1>9
  <1> QED
    BY <1>10 DEF Goal

(* One that the rule layer decides, it decides for the guard, too: the     *)
(* embedding layer comes later.                                            *)
LEMMA RuleDecides ==
    ASSUME NEW g, Simulated(g), g.pipeline \in Seq(LayerTypes),
           Has(g, "rule"), Has(g, "embedding"),
           NEW m, RuleVerdict(m) \in {"pass", "block"},
           NEW r, r = [msg |-> m, state |-> None],
           NEW result \in Results(g, r)
    PROVE  result.passed \in BOOLEAN /\ (result.passed <=> RuleVerdict(m) = "pass")
  <1> DEFINE v == RuleVerdict(m)
             Goal == result.passed \in BOOLEAN /\ (result.passed <=> v = "pass")
  <1>1. PICK k \in DOMAIN g.pipeline : g.pipeline[k] = "rule"
    BY DEF Has
  <1>2. /\ DOMAIN g.pipeline = 1 .. Len(g.pipeline) /\ Len(g.pipeline) \in Nat
        /\ \A i \in DOMAIN g.pipeline : g.pipeline[i] \in LayerTypes
    OBVIOUS
  <1>3. Answers(g, k, r) = {v} /\ v # "defer"
    BY <1>1 DEF Answers, Outcomes
  (* What is reached stands no later than the rule layer. *)
  <1>4. ASSUME NEW i \in 1 .. Len(g.pipeline) + 1, Reached(g, i, r)
        PROVE  i <= k
    <2>1. CASE i > k
      <3>1. k \in 1 .. i - 1
        BY <1>1, <1>2, <2>1
      <3> QED
        BY <1>3, <1>4, <3>1 DEF Reached
    <2> QED
      BY <1>1, <1>2, <2>1
  <1>5. ASSUME NEW i \in DOMAIN g.pipeline, i <= k,
               NEW x \in {"pass", "block"}, x \in Answers(g, i, r)
        PROVE  x = v
    <2>1. g.pipeline[i] # "embedding"
      <3>1. g.pipeline[i] = "embedding" => k < i
        BY <1>1 DEF Simulated
      <3> QED
        BY <1>1, <1>2, <1>5, <3>1
    <2>2. g.pipeline[i] # "llm_fallback"
      BY DEF Simulated, Has
    <2>3. CASE g.pipeline[i] = "rule"
      BY <1>5, <2>3 DEF Answers, Outcomes
    <2>4. CASE g.pipeline[i] = "context_bypass"
      <3>1. BypassVerdict(g.when, r.state) = "defer"
        BY DEF BypassVerdict
      <3> QED
        BY <1>5, <2>4, <3>1 DEF Answers, Outcomes
    <2> QED
      BY <1>2, <2>1, <2>2, <2>3, <2>4 DEF LayerTypes
  <1> HIDE DEF v
  <1>6. ASSUME NEW x \in {"pass", "block"}, NEW i \in DecidedAt(g, r, x)
        PROVE  v = x
    <2>1. i \in DOMAIN g.pipeline /\ Reached(g, i, r) /\ x \in Answers(g, i, r)
      BY <1>6 DEF DecidedAt
    <2>2. i <= k
      BY <1>2, <1>4, <2>1
    <2> QED
      BY <1>5, <2>1, <2>2
  <1>7. ~Reached(g, Len(g.pipeline) + 1, r)
    <2>1. Len(g.pipeline) + 1 \in 1 .. Len(g.pipeline) + 1 /\ ~(Len(g.pipeline) + 1 <= k)
      BY <1>1, <1>2
    <2> QED
      BY <1>4, <2>1
  <1>8. g.mode = "enforce"
    BY DEF Simulated
  <1>9. \/ \E i \in DecidedAt(g, r, "pass") :
              result = [passed |-> TRUE, layer |-> g.pipeline[i]]
        \/ \E i \in DecidedAt(g, r, "block") :
              result = [passed |-> FALSE, layer |-> g.pipeline[i]]
    BY <1>7, <1>8 DEF Results
  <1>10. ASSUME NEW i \in DecidedAt(g, r, "pass"),
                result = [passed |-> TRUE, layer |-> g.pipeline[i]]
         PROVE  Goal
    <2>1. v = "pass"
      BY <1>6
    <2> QED
      BY <1>10, <2>1
  <1>11. ASSUME NEW i \in DecidedAt(g, r, "block"),
                result = [passed |-> FALSE, layer |-> g.pipeline[i]]
         PROVE  Goal
    <2>1. v = "block"
      BY <1>6
    <2> QED
      BY <1>11, <2>1
  <1> HIDE DEF Goal
  <1>12. Goal
    BY <1>9, <1>10, <1>11
  <1> QED
    BY <1>12 DEF Goal, v

LEMMA TunedIs ==
    ASSUME Calibrated, stage = "reported", Simulated(config)
    PROVE  /\ Tuned.pipeline = config.pipeline /\ Tuned.mode = config.mode
           /\ Tuned.hasOod = config.hasOod /\ Tuned.thr = best.thr
           /\ config.pipeline \in Seq(LayerTypes)
           /\ Simulated(Tuned) /\ Has(Tuned, "embedding")
           /\ Has(Tuned, "rule") <=> Has(config, "rule")
  <1>1. /\ config \in Configs /\ Has(config, "embedding")
        /\ DOMAIN config = {"mode", "caching", "hasOod", "thr", "when", "pipeline"}
        /\ config.pipeline \in Seq(LayerTypes)
    BY SamplesTyped, ConfigsAssumption DEF Calibrated, Complete
  <1>2. /\ Tuned.pipeline = config.pipeline /\ Tuned.mode = config.mode
        /\ Tuned.hasOod = config.hasOod /\ Tuned.thr = best.thr
    BY <1>1 DEF Tuned
  <1> QED
    BY <1>1, <1>2 DEF Simulated, Has

LEMMA TunedFollowsRule ==
    ASSUME Calibrated, stage = "reported", Simulated(config),
           NEW i \in DOMAIN samples \ LeftOver,
           NEW result \in Results(Tuned, [msg |-> samples[i].msg, state |-> None])
    PROVE  /\ result.passed \in BOOLEAN
           /\ Earlier(samples[i]) \in {"pass", "block"}
           /\ result.passed <=> Earlier(samples[i]) = "pass"
  <1> DEFINE m == samples[i].msg
  <1>1. Earlier(samples[i]) \in {"pass", "block"}
    BY RuleAnswers DEF LeftOver, Verdicts
  <1>2. Has(config, "rule") /\ Earlier(samples[i]) = RuleVerdict(m)
    BY <1>1 DEF Earlier
  <1>3. /\ Tuned.pipeline \in Seq(LayerTypes) /\ Simulated(Tuned)
        /\ Has(Tuned, "rule") /\ Has(Tuned, "embedding")
    BY <1>2, TunedIs
  <1>4. result.passed \in BOOLEAN /\ (result.passed <=> RuleVerdict(m) = "pass")
    BY <1>1, <1>2, <1>3, RuleDecides
  <1> QED
    BY <1>1, <1>2, <1>4

LEMMA TunedDecides ==
    ASSUME Calibrated, stage = "reported", Simulated(config),
           NEW i \in LeftOver,
           NEW result \in Results(Tuned, [msg |-> samples[i].msg, state |-> None])
    PROVE  /\ result.passed \in BOOLEAN
           /\ result.passed <=> EffectivePass(samples[i], best.thr)
  <1> DEFINE m == samples[i].msg
             g == Tuned
  <1>1. /\ g.pipeline = config.pipeline /\ g.hasOod = config.hasOod /\ g.thr = best.thr
        /\ config.pipeline \in Seq(LayerTypes)
    BY TunedIs
  <1>2. /\ Simulated(g) /\ Has(g, "embedding")
        /\ Has(g, "rule") <=> Has(config, "rule")
    BY TunedIs
  <1>4. Has(config, "rule") => RuleVerdict(m) = "defer"
    BY DEF LeftOver, Earlier
  <1> HIDE DEF g
  <1>5. result.passed \in BOOLEAN /\ (result.passed <=> Judged(g, m) = "pass")
    BY <1>1, <1>2, <1>4, GuardDecides DEF g
  <1>6. Judged(g, m) = SweepVerdict(samples[i], best.thr)
    BY <1>1 DEF Judged, SweepVerdict, EmbeddingVerdict
  <1> QED
    BY <1>5, <1>6 DEF EffectivePass

-----------------------------------------------------------------------------
(* What a replay has so far. *)
Decisions == [passed : BOOLEAN, layer : LayerTypes \cup {None}]

Sized ==
    /\ traffic \in Seq(Records)
    /\ newResults \in Seq(Decisions) /\ Len(newResults) <= Len(traffic)
    /\ baseResults \in Seq(Decisions) /\ Len(baseResults) <= Len(traffic)

Judgements ==
    \A i \in DOMAIN newResults : newResults[i] \in Results(newGuard, Request(traffic[i]))

(* Result k is that of record k, and the passes are counted. *)
Passing(results) == {i \in DOMAIN results : results[i].passed}

Own(results, passed, of) ==
    /\ of = [k \in 1 .. Len(results) |-> k]
    /\ passed = Cardinality(Passing(results))

Owned == Own(newResults, newPassed, newOf) /\ Own(baseResults, basePassed, baseOf)

(* Where the loops are. *)
Loops ==
    /\ phase = "new" => line = Len(newResults) + 1 /\ baseResults = <<>>
    /\ phase = "base" => /\ baseGuard # None /\ Len(newResults) = Len(traffic)
                         /\ line = Len(baseResults) + 1
    /\ phase \in {"compare", "done"} =>
          /\ Len(newResults) = Len(traffic)
          /\ baseGuard # None => Len(baseResults) = Len(traffic)
    /\ phase = "compare" => line \in 1 .. Len(traffic) + 1

(* The flips among the first n records, each noted once. *)
ToBlocks(n) == {i \in 1 .. n : ToBlock(i)}
ToPasses(n) == {i \in 1 .. n : ToPass(i)}

NotedOf(list, set) == list \in Seq(Nat) /\ ListsOnce(list, set)

FlipsOf(n) == NotedOf(flips.toBlock, ToBlocks(n)) /\ NotedOf(flips.toPass, ToPasses(n))

Reports ==
    /\ phase \in {"new", "base"} => flips = NoResult
    /\ phase = "compare" => FlipsOf(line - 1)
    /\ phase = "done" => flips = NoResult \/ FlipsOf(Len(traffic))

Checked == Sized /\ Judgements /\ Owned /\ Loops /\ Reports

LEMMA NothingOwned == Own(<<>>, 0, <<>>)
  <1>1. Passing(<<>>) = {}
    BY DEF Passing
  <1>2. <<>> = [k \in 1 .. Len(<<>>) |-> k]
    OBVIOUS
  <1> QED
    BY <1>1, <1>2, FS_EmptySet DEF Own

LEMMA StartChecked ==
    ASSUME NEW g, NEW base, NEW records \in Seq(Records), StartReplay(g, base, records)
    PROVE  Checked'
  <1>1. /\ traffic' = records /\ newResults' = <<>> /\ baseResults' = <<>>
        /\ newPassed' = 0 /\ basePassed' = 0 /\ newOf' = <<>> /\ baseOf' = <<>>
        /\ phase' \in {"idle", "new"} /\ line' = 1 /\ flips' = NoResult
    BY DEF StartReplay
  <1>2. Sized'
    BY <1>1 DEF Sized
  <1>3. Judgements'
    BY <1>1 DEF Judgements
  <1>4. Owned'
    BY <1>1, NothingOwned DEF Owned, Own, Passing
  <1>5. Loops' /\ Reports'
    BY <1>1 DEF Loops, Reports
  <1> QED
    BY <1>2, <1>3, <1>4, <1>5 DEF Checked

LEMMA OneMoreResult ==
    ASSUME NEW s \in Seq(Decisions), NEW x \in Decisions, NEW n \in Nat, Len(s) < n
    PROVE  /\ Append(s, x) \in Seq(Decisions) /\ Len(Append(s, x)) <= n
           /\ DOMAIN Append(s, x) = 1 .. Len(s) + 1 /\ DOMAIN s = 1 .. Len(s)
           /\ \A i \in 1 .. Len(s) : Append(s, x)[i] = s[i]
           /\ Append(s, x)[Len(s) + 1] = x /\ Len(s) \in Nat
  OBVIOUS

(* The result of the record the loop is at is one more of its own. *)
LEMMA OwnOneMore ==
    ASSUME NEW s \in Seq(Decisions), NEW passed, NEW of, NEW x \in Decisions,
           Own(s, passed, of)
    PROVE  Own(Append(s, x), Counted(passed, x), Append(of, Len(s) + 1))
  <1> DEFINE n == Len(s)
             t == Append(s, x)
  <1>1. /\ n \in Nat /\ DOMAIN s = 1 .. n /\ DOMAIN t = 1 .. n + 1 /\ Len(t) = n + 1
        /\ \A k \in 1 .. n : t[k] = s[k]
        /\ t[n + 1] = x
    OBVIOUS
  <1>2. of \in Seq(Nat) /\ Len(of) = n /\ \A k \in 1 .. n : of[k] = k
    <2>1. of = [k \in 1 .. n |-> k]
      BY DEF Own
    <2>2. of \in [1 .. n -> Nat]
      BY <1>1, <2>1
    <2> QED
      BY <1>1, <2>1, <2>2, SeqDef
  <1>3. Append(of, n + 1) = [k \in 1 .. n + 1 |-> k]
    <2>1. /\ DOMAIN Append(of, n + 1) = 1 .. n + 1
          /\ Append(of, n + 1) \in Seq(Nat)
          /\ \A k \in 1 .. n : Append(of, n + 1)[k] = of[k]
          /\ Append(of, n + 1)[n + 1] = n + 1
      BY <1>1, <1>2
    <2>2. \A k \in 1 .. n + 1 : Append(of, n + 1)[k] = k
      BY <1>1, <1>2, <2>1
    <2> QED
      BY <2>1, <2>2
  <1>4. IsFiniteSet(Passing(s)) /\ Cardinality(Passing(s)) \in Nat
    <2>1. Passing(s) \in SUBSET (DOMAIN s)
      BY DEF Passing
    <2> QED
      BY <2>1, FiniteParts
  <1>5. x.passed \in BOOLEAN /\ n + 1 \notin Passing(s)
    BY <1>1 DEF Decisions, Passing
  <1> HIDE DEF t, n
  <1>6. Passing(t) = IF x.passed THEN Passing(s) \cup {n + 1} ELSE Passing(s)
    <2>1. \A k : k \in 1 .. n + 1 <=> k \in 1 .. n \/ k = n + 1
      BY <1>1
    <2>2. n + 1 \notin 1 .. n
      BY <1>1
    <2>3. \A k : k \in Passing(t) <=> k \in Passing(s) \/ (k = n + 1 /\ x.passed)
      BY <1>1, <2>1, <2>2, Zenon DEF Passing
    <2> QED
      BY <1>5, <2>3
  <1>7. Cardinality(Passing(t)) = Counted(passed, x)
    <2>1. passed = Cardinality(Passing(s))
      BY DEF Own
    <2>2. CASE x.passed
      <3>1. Cardinality(Passing(t)) = Cardinality(Passing(s)) + 1
        BY <1>4, <1>5, <1>6, <2>2, FS_AddElement
      <3> QED
        BY <2>1, <2>2, <3>1 DEF Counted
    <2>3. CASE ~x.passed
      BY <1>4, <1>6, <2>1, <2>3 DEF Counted
    <2> QED
      BY <2>2, <2>3
  <1>8. Len(t) = n + 1
    BY <1>1
  <1> QED
    BY <1>3, <1>7, <1>8 DEF Own, t, n

LEMMA CheckNewChecked ==
    ASSUME Checked, NEW result \in Decisions, CheckNew(result)
    PROVE  Checked'
  <1>1. /\ phase = "new" /\ phase' = "new" /\ newResults' = Append(newResults, result)
        /\ line <= Len(traffic) /\ line' = line + 1
        /\ result \in Results(newGuard, Request(traffic[line]))
        /\ newPassed' = Counted(newPassed, result) /\ newOf' = Append(newOf, line)
        /\ UNCHANGED <<newGuard, traffic, baseResults, basePassed, baseOf, flips>>
    BY DEF CheckNew
  <1>2. /\ newResults \in Seq(Decisions) /\ Len(traffic) \in Nat
        /\ line = Len(newResults) + 1
    BY <1>1 DEF Checked, Sized, Loops
  <1>3. /\ newResults' \in Seq(Decisions) /\ Len(newResults') <= Len(traffic)
        /\ DOMAIN newResults' = 1 .. Len(newResults) + 1
        /\ DOMAIN newResults = 1 .. Len(newResults)
        /\ \A i \in 1 .. Len(newResults) : newResults'[i] = newResults[i]
        /\ newResults'[Len(newResults) + 1] = result /\ Len(newResults) \in Nat
    <2>1. Len(newResults) < Len(traffic) /\ Len(newResults) \in Nat
      BY <1>1, <1>2
    <2> QED
      BY <1>1, <1>2, <2>1, OneMoreResult
  <1>4. Sized'
    BY <1>1, <1>3 DEF Checked, Sized
  <1>5. Judgements'
    <2> DEFINE May(record) == Results(newGuard, Request(record))
    <2>1. ASSUME NEW i \in DOMAIN newResults'
          PROVE  newResults'[i] \in May(traffic[i])
      <3>1. CASE i \in 1 .. Len(newResults)
        BY <1>3, <3>1 DEF Checked, Judgements
      <3>2. CASE i = Len(newResults) + 1
        BY <1>1, <1>2, <1>3, <3>2
      <3> QED
        BY <1>3, <2>1, <3>1, <3>2
    <2>2. \A record : May(record)' = May(record)
      BY <1>1 DEF Results, DecidedAt, Reached, Answers, Request
    <2>3. (\A i \in DOMAIN newResults : newResults[i] \in May(traffic[i]))'
      <3> HIDE DEF May
      <3> QED
        BY <1>1, <2>1, <2>2
    <2> QED
      BY <2>3 DEF Judgements
  <1>6. Owned'
    <2>1. Own(newResults, newPassed, newOf) /\ Own(baseResults, basePassed, baseOf)
      BY DEF Checked, Owned
    <2>2. Own(Append(newResults, result), Counted(newPassed, result), Append(newOf, line))
      BY <1>2, <2>1, OwnOneMore
    <2> QED
      BY <1>1, <2>1, <2>2 DEF Owned, Own, Passing
  <1>7. Loops' /\ Reports'
    <2>1. Len(newResults') = Len(newResults) + 1
      BY <1>3
    <2>2. baseResults = <<>> /\ flips = NoResult
      BY <1>1 DEF Checked, Loops, Reports
    <2> QED
      BY <1>1, <1>2, <2>1, <2>2 DEF Loops, Reports
  <1> QED
    BY <1>4, <1>5, <1>6, <1>7 DEF Checked

LEMMA CheckBaseChecked ==
    ASSUME Checked, NEW result \in Decisions, CheckBase(result)
    PROVE  Checked'
  <1>1. /\ phase = "base" /\ phase' = "base" /\ baseResults' = Append(baseResults, result)
        /\ line <= Len(traffic) /\ line' = line + 1
        /\ basePassed' = Counted(basePassed, result) /\ baseOf' = Append(baseOf, line)
        /\ UNCHANGED <<newGuard, baseGuard, traffic, newResults, newPassed, newOf,
                     flips>>
    BY DEF CheckBase
  <1>2. /\ baseResults \in Seq(Decisions) /\ Len(traffic) \in Nat
        /\ line = Len(baseResults) + 1
    BY <1>1 DEF Checked, Sized, Loops
  <1>3. /\ baseResults' \in Seq(Decisions) /\ Len(baseResults') <= Len(traffic)
        /\ Len(baseResults') = Len(baseResults) + 1
    <2>1. Len(baseResults) < Len(traffic) /\ Len(baseResults) \in Nat
      BY <1>1, <1>2
    <2>2. /\ Append(baseResults, result) \in Seq(Decisions)
          /\ Len(Append(baseResults, result)) <= Len(traffic)
      BY <1>2, <2>1, OneMoreResult
    <2>3. Len(Append(baseResults, result)) = Len(baseResults) + 1
      BY <1>2
    <2> QED
      BY <1>1, <2>2, <2>3
  <1>4. Sized'
    BY <1>1, <1>3 DEF Checked, Sized
  <1>5. Judgements'
    BY <1>1 DEF Checked, Judgements
  <1>6. Owned'
    <2>1. Own(newResults, newPassed, newOf) /\ Own(baseResults, basePassed, baseOf)
      BY DEF Checked, Owned
    <2>2. Own(Append(baseResults, result), Counted(basePassed, result), Append(baseOf, line))
      BY <1>2, <2>1, OwnOneMore
    <2> QED
      BY <1>1, <2>1, <2>2 DEF Owned, Own, Passing
  <1>7. Loops' /\ Reports'
    BY <1>1, <1>2, <1>3 DEF Checked, Loops, Reports
  <1> QED
    BY <1>4, <1>5, <1>6, <1>7 DEF Checked

(* Steps that leave the results alone. *)
LEMMA ResultsStay ==
    ASSUME Checked, UNCHANGED <<newGuard, baseGuard, traffic, judged>>
    PROVE  /\ Sized' /\ Judgements' /\ Owned'
           /\ \A i : ToBlock(i)' <=> ToBlock(i)
           /\ \A i : ToPass(i)' <=> ToPass(i)
  <1>1. UNCHANGED <<newGuard, baseGuard, traffic, newResults, newPassed, newOf,
                    baseResults, basePassed, baseOf>>
    BY DEF judged
  <1>2. Sized' /\ Judgements' /\ Owned'
    BY <1>1 DEF Checked, Sized, Judgements, Owned, Own, Passing
  <1>3. \A i : (ToBlock(i)' <=> ToBlock(i)) /\ (ToPass(i)' <=> ToPass(i))
    BY <1>1 DEF ToBlock, ToPass, Compared, PassedThen
  <1> QED
    BY <1>2, <1>3

LEMMA TurnChecked ==
    ASSUME Checked, CheckRaises \/ TurnToBaseline
    PROVE  Checked'
  <1>1. UNCHANGED <<newGuard, baseGuard, traffic, judged>>
    BY DEF CheckRaises, TurnToBaseline
  <1>2. CASE CheckRaises
    BY <1>1, <1>2, ResultsStay DEF CheckRaises, Checked, Loops, Reports
  <1>3. CASE TurnToBaseline
    <2>1. /\ phase = "new" /\ phase' = "base" /\ line' = 1 /\ baseGuard # None
          /\ line > Len(traffic) /\ line = Len(newResults) + 1
          /\ Len(newResults) \in Nat /\ Len(traffic) \in Nat
          /\ Len(newResults) <= Len(traffic)
      BY <1>3 DEF TurnToBaseline, Checked, Sized, Loops
    <2>2. Len(newResults) = Len(traffic)
      BY <2>1
    <2>3. Len(baseResults) = 0 /\ flips = NoResult
      BY <2>1 DEF Checked, Loops, Reports
    <2>4. UNCHANGED <<newResults, baseResults, traffic, baseGuard, flips>>
      BY <1>3 DEF TurnToBaseline, judged
    <2>5. Loops' /\ Reports'
      BY <2>1, <2>2, <2>3, <2>4 DEF Loops, Reports
    <2> QED
      BY <1>1, <2>5, ResultsStay DEF Checked
  <1> QED
    BY <1>2, <1>3

LEMMA NothingNoted ==
    /\ ToBlocks(0) = {} /\ ToPasses(0) = {}
    /\ NotedOf(<<>>, {})
  BY FS_EmptySet DEF ToBlocks, ToPasses, NotedOf, ListsOnce, ToSet

LEMMA OneMoreElement ==
    ASSUME NEW S, NEW s \in Seq(S), NEW x \in S
    PROVE  ToSet(Append(s, x)) = ToSet(s) \cup {x}
  <1> DEFINE t == Append(s, x)
  <1>1. /\ Len(s) \in Nat /\ DOMAIN s = 1 .. Len(s) /\ DOMAIN t = 1 .. Len(s) + 1
        /\ \A i \in 1 .. Len(s) : t[i] = s[i]
        /\ t[Len(s) + 1] = x
    OBVIOUS
  <1>2. \A i : i \in 1 .. Len(s) + 1 <=> i \in 1 .. Len(s) \/ i = Len(s) + 1
    BY <1>1
  <1> HIDE DEF t
  <1>3. \A y : y \in ToSet(t) <=> y \in ToSet(s) \/ y = x
    BY <1>1, <1>2, Zenon DEF ToSet
  <1> QED
    BY <1>3 DEF t

LEMMA NotedMore ==
    ASSUME NEW list, NEW set, NEW n \in Nat, IsFiniteSet(set), NotedOf(list, set),
           n \notin set
    PROVE  NotedOf(Append(list, n), set \cup {n})
  <1>1. /\ list \in Seq(Nat) /\ ToSet(list) = set /\ Len(list) = Cardinality(set)
    BY DEF NotedOf, ListsOnce
  <1>2. /\ Append(list, n) \in Seq(Nat) /\ Len(Append(list, n)) = Len(list) + 1
    BY <1>1
  <1>3. ToSet(Append(list, n)) = set \cup {n}
    BY <1>1, OneMoreElement
  <1>4. Cardinality(set \cup {n}) = Cardinality(set) + 1
    BY FS_AddElement
  <1> QED
    BY <1>1, <1>2, <1>3, <1>4 DEF NotedOf, ListsOnce

LEMMA StartCompareChecked == ASSUME Checked, StartCompare PROVE Checked'
  <1>1. UNCHANGED <<newGuard, baseGuard, traffic, judged>>
    BY DEF StartCompare
  <1>2. /\ line > Len(traffic) /\ Len(traffic) \in Nat
        /\ Len(newResults) \in Nat /\ Len(newResults) <= Len(traffic)
        /\ Len(baseResults) \in Nat /\ Len(baseResults) <= Len(traffic)
        /\ phase = (IF baseGuard = None THEN "new" ELSE "base")
    BY DEF StartCompare, Checked, Sized
  <1>3. /\ Len(newResults) = Len(traffic)
        /\ baseGuard # None => Len(baseResults) = Len(traffic)
    BY <1>2 DEF Checked, Loops
  <1>4. /\ UNCHANGED <<newResults, baseResults, traffic, baseGuard>>
    BY <1>1 DEF judged
  <1>5. Loops'
    BY <1>2, <1>3, <1>4 DEF StartCompare, Loops
  <1>6. Reports'
    <2>1. CASE phase' = "done"
      <3>1. flips' = flips /\ phase = "new"
        BY <1>2, <2>1 DEF StartCompare
      <3>2. flips' = NoResult
        BY <3>1 DEF Checked, Reports
      <3> QED
        BY <2>1, <3>2 DEF Reports
    <2>2. CASE phase' = "compare"
      <3>1. line' = 1 /\ flips' = [toBlock |-> <<>>, toPass |-> <<>>]
        BY <2>2 DEF StartCompare
      <3>2. FlipsOf(line - 1)'
        <4>1. ToBlocks(0)' = {} /\ ToPasses(0)' = {}
          BY DEF ToBlocks, ToPasses
        <4>2. NotedOf(<<>>, {})
          BY NothingNoted
        <4>3. ToBlocks(line - 1)' = {} /\ ToPasses(line - 1)' = {}
          BY <3>1 DEF ToBlocks, ToPasses
        <4> QED
          BY <3>1, <4>2, <4>3 DEF FlipsOf, NotedOf, ListsOnce
      <3> QED
        BY <2>2, <3>2 DEF Reports
    <2> QED
      BY <2>1, <2>2 DEF StartCompare
  <1> QED
    BY <1>1, <1>5, <1>6, ResultsStay DEF Checked

(* One more record compared. *)
LEMMA NotedNext ==
    ASSUME NEW list, NEW n \in Nat \ {0}, NEW flipped \in BOOLEAN, NEW S, NEW T,
           IsFiniteSet(S), NotedOf(list, S), n \notin S,
           T = IF flipped THEN S \cup {n} ELSE S
    PROVE  NotedOf(IF flipped THEN Append(list, n) ELSE list, T)
  BY NotedMore

LEMMA CompareChecked == ASSUME Checked, Compare PROVE Checked'
  <1>1. UNCHANGED <<newGuard, baseGuard, traffic, judged>>
    BY DEF Compare
  <1>2. /\ phase = "compare" /\ phase' = "compare" /\ line' = line + 1
        /\ flips' = [toBlock |-> Noted(flips.toBlock, ToBlock(line)),
                     toPass |-> Noted(flips.toPass, ToPass(line))]
        /\ line \in 1 .. Len(traffic) /\ Len(traffic) \in Nat
        /\ FlipsOf(line - 1)
    BY DEF Compare, Zipped, Checked, Sized, Reports
  <1>3. UNCHANGED <<newResults, baseResults, traffic, baseGuard>>
    BY <1>1 DEF judged
  <1>4. Loops'
    BY <1>2, <1>3 DEF Checked, Loops
  <1>5. FlipsOf(line - 1)'
    <2>1. ToBlock(line) \in BOOLEAN /\ ToPass(line) \in BOOLEAN
      BY DEF ToBlock, ToPass
    <2>2. /\ IsFiniteSet(ToBlocks(line - 1)) /\ IsFiniteSet(ToPasses(line - 1))
          /\ line \notin ToBlocks(line - 1) /\ line \notin ToPasses(line - 1)
      <3>1. IsFiniteSet(1 .. line - 1) /\ line \notin 1 .. line - 1
        <4>1. 1 \in Int /\ line - 1 \in Int
          BY <1>2
        <4> QED
          BY <1>2, <4>1, FS_Interval
      <3>2. ToBlocks(line - 1) \in SUBSET (1 .. line - 1)
            /\ ToPasses(line - 1) \in SUBSET (1 .. line - 1)
        BY DEF ToBlocks, ToPasses
      <3> QED
        BY <3>1, <3>2, FS_Subset
    <2>3. \A i : i \in 1 .. line <=> i \in 1 .. line - 1 \/ i = line
      BY <1>2
    <2>4. ToBlocks(line) = IF ToBlock(line) THEN ToBlocks(line - 1) \cup {line}
                           ELSE ToBlocks(line - 1)
      BY <2>3 DEF ToBlocks
    <2>5. ToPasses(line) = IF ToPass(line) THEN ToPasses(line - 1) \cup {line}
                           ELSE ToPasses(line - 1)
      BY <2>3 DEF ToPasses
    <2>6. line \in Nat \ {0}
      BY <1>2
    <2>7. NotedOf(flips.toBlock, ToBlocks(line - 1)) /\ NotedOf(flips.toPass, ToPasses(line - 1))
      BY <1>2 DEF FlipsOf
    <2>8. NotedOf(flips'.toBlock, ToBlocks(line))
      <3> DEFINE f == ToBlock(line)
                 S == ToBlocks(line - 1)
                 T == ToBlocks(line)
      <3>1. flips'.toBlock = IF f THEN Append(flips.toBlock, line) ELSE flips.toBlock
        BY <1>2 DEF Noted
      <3>2. /\ f \in BOOLEAN /\ IsFiniteSet(S) /\ line \notin S
            /\ T = IF f THEN S \cup {line} ELSE S
            /\ NotedOf(flips.toBlock, S)
        BY <2>1, <2>2, <2>4, <2>7
      <3> HIDE DEF f, S, T
      <3>3. NotedOf(IF f THEN Append(flips.toBlock, line) ELSE flips.toBlock, T)
        BY <2>6, <3>2, NotedNext
      <3> QED
        BY <3>1, <3>3 DEF T
    <2>9. NotedOf(flips'.toPass, ToPasses(line))
      <3> DEFINE f == ToPass(line)
                 S == ToPasses(line - 1)
                 T == ToPasses(line)
      <3>1. flips'.toPass = IF f THEN Append(flips.toPass, line) ELSE flips.toPass
        BY <1>2 DEF Noted
      <3>2. /\ f \in BOOLEAN /\ IsFiniteSet(S) /\ line \notin S
            /\ T = IF f THEN S \cup {line} ELSE S
            /\ NotedOf(flips.toPass, S)
        BY <2>1, <2>2, <2>5, <2>7
      <3> HIDE DEF f, S, T
      <3>3. NotedOf(IF f THEN Append(flips.toPass, line) ELSE flips.toPass, T)
        BY <2>6, <3>2, NotedNext
      <3> QED
        BY <3>1, <3>3 DEF T
    <2>10. ToBlocks(line - 1)' = ToBlocks(line) /\ ToPasses(line - 1)' = ToPasses(line)
      <3>1. line' - 1 = line
        BY <1>2
      <3>2. /\ \A i : ToBlock(i)' <=> ToBlock(i)
            /\ \A i : ToPass(i)' <=> ToPass(i)
        BY <1>1, ResultsStay
      <3> QED
        BY <3>1, <3>2, Zenon DEF ToBlocks, ToPasses
    <2> QED
      BY <2>8, <2>9, <2>10 DEF FlipsOf, NotedOf, ListsOnce
  <1>6. Reports'
    BY <1>2, <1>5 DEF Reports
  <1> QED
    BY <1>1, <1>4, <1>6, ResultsStay DEF Checked

LEMMA EndCompareChecked == ASSUME Checked, EndCompare PROVE Checked'
  <1>1. UNCHANGED <<newGuard, baseGuard, traffic, judged, flips>>
    BY DEF EndCompare
  <1>2. /\ phase = "compare" /\ phase' = "done" /\ FlipsOf(line - 1)
        /\ Len(newResults) = Len(traffic) /\ Len(traffic) \in Nat
        /\ baseGuard # None => Len(baseResults) = Len(traffic)
        /\ line \in 1 .. Len(traffic) + 1
    BY DEF EndCompare, Checked, Sized, Loops, Reports
  <1>3. line - 1 = Len(traffic)
    <2>1. /\ DOMAIN traffic = 1 .. Len(traffic)
          /\ DOMAIN newResults = 1 .. Len(traffic)
          /\ baseGuard # None => DOMAIN baseResults = 1 .. Len(traffic)
      BY <1>2 DEF Checked, Sized
    <2>2. line \notin 1 .. Len(traffic)
      BY <2>1 DEF EndCompare, Zipped
    <2> QED
      BY <1>2, <2>2
  <1>4. UNCHANGED <<newResults, baseResults, traffic, baseGuard>>
    BY <1>1 DEF judged
  <1>5. Loops'
    BY <1>2, <1>4 DEF Loops
  <1>6. FlipsOf(Len(traffic))'
    <2>1. FlipsOf(Len(traffic))
      BY <1>2, <1>3
    <2>2. /\ \A i : ToBlock(i)' <=> ToBlock(i)
          /\ \A i : ToPass(i)' <=> ToPass(i)
      BY <1>1, ResultsStay
    <2>3. /\ ToBlocks(Len(traffic))' = ToBlocks(Len(traffic))
          /\ ToPasses(Len(traffic))' = ToPasses(Len(traffic))
      BY <1>4, <2>2, Zenon DEF ToBlocks, ToPasses
    <2> QED
      BY <1>1, <2>1, <2>3 DEF FlipsOf, NotedOf, ListsOnce
  <1>7. Reports'
    BY <1>2, <1>6 DEF Reports
  <1> QED
    BY <1>1, <1>5, <1>7, ResultsStay DEF Checked

LEMMA StutterChecked == ASSUME Checked, UNCHANGED replayVars PROVE Checked'
  <1>1. UNCHANGED <<newGuard, baseGuard, traffic, judged, line, phase, flips>>
    BY DEF replayVars
  <1>2. UNCHANGED <<newResults, baseResults>>
    BY <1>1 DEF judged
  <1>3. Loops'
    BY <1>1, <1>2 DEF Checked, Loops
  <1>4. Reports'
    <2>1. \A n : ToBlocks(n)' = ToBlocks(n) /\ ToPasses(n)' = ToPasses(n)
      <3>1. /\ \A i : ToBlock(i)' <=> ToBlock(i)
            /\ \A i : ToPass(i)' <=> ToPass(i)
        BY <1>1, ResultsStay
      <3> QED
        BY <3>1, Zenon DEF ToBlocks, ToPasses
    <2>2. /\ FlipsOf(line - 1) => FlipsOf(line - 1)'
          /\ FlipsOf(Len(traffic)) => FlipsOf(Len(traffic))'
      <3>1. /\ ToBlocks(line - 1)' = ToBlocks(line - 1)
            /\ ToPasses(line - 1)' = ToPasses(line - 1)
            /\ ToBlocks(Len(traffic))' = ToBlocks(Len(traffic))
            /\ ToPasses(Len(traffic))' = ToPasses(Len(traffic))
        BY <1>1, <2>1
      <3> QED
        BY <1>1, <3>1 DEF FlipsOf, NotedOf, ListsOnce
    <2> QED
      BY <1>1, <2>2 DEF Checked, Reports
  <1> QED
    BY <1>1, <1>3, <1>4, ResultsStay DEF Checked

LEMMA StepChecked ==
    ASSUME Checked, ReplayStep
    PROVE  Checked'
  BY CheckNewChecked, CheckBaseChecked, TurnChecked, StartCompareChecked, CompareChecked,
     EndCompareChecked DEF ReplayStep, Decisions

(* The flips of a finished report. *)
LEMMA OwnResult ==
    ASSUME NEW s \in Seq(Decisions), NEW passed, NEW of, Own(s, passed, of),
           NEW i, NEW b \in BOOLEAN
    PROVE  ResultIs(s, of, i, b) <=> i \in DOMAIN s /\ (s[i].passed <=> b)
  <1>1. DOMAIN s = 1 .. Len(s) /\ \A k \in DOMAIN s : of[k] = k
    BY DEF Own
  <1> QED
    BY <1>1, Zenon DEF ResultIs

LEMMA CheckedFlips == Checked => FlipsExact
  <1> SUFFICES ASSUME Checked, phase = "done", flips # NoResult
               PROVE  /\ ListsOnce(flips.toBlock, {i \in DOMAIN traffic :
                            Before(i, TRUE) /\ ResultIs(newResults, newOf, i, FALSE)})
                      /\ ListsOnce(flips.toPass, {i \in DOMAIN traffic :
                            Before(i, FALSE) /\ ResultIs(newResults, newOf, i, TRUE)})
                      /\ baseGuard # None =>
                            Len(flips.toPass) - Len(flips.toBlock) = newPassed - basePassed
    BY DEF FlipsExact
  <1>1. /\ traffic \in Seq(Records) /\ newResults \in Seq(Decisions)
        /\ baseResults \in Seq(Decisions)
        /\ Own(newResults, newPassed, newOf) /\ Own(baseResults, basePassed, baseOf)
        /\ FlipsOf(Len(traffic))
    BY DEF Checked, Sized, Owned, Reports
  <1>2. /\ DOMAIN traffic = 1 .. Len(traffic) /\ DOMAIN newResults = DOMAIN traffic
        /\ baseGuard # None => DOMAIN baseResults = DOMAIN traffic
    BY <1>1 DEF Checked, Loops
  <1>3. \A i, b : b \in BOOLEAN =>
           (ResultIs(newResults, newOf, i, b) <=>
               i \in DOMAIN newResults /\ (newResults[i].passed <=> b))
    BY <1>1, OwnResult
  <1>4. \A i, b : b \in BOOLEAN =>
           (ResultIs(baseResults, baseOf, i, b) <=>
               i \in DOMAIN baseResults /\ (baseResults[i].passed <=> b))
    BY <1>1, OwnResult
  <1>5. ASSUME NEW i \in DOMAIN traffic
        PROVE  /\ ToBlock(i) <=> Before(i, TRUE) /\ ResultIs(newResults, newOf, i, FALSE)
               /\ ToPass(i) <=> Before(i, FALSE) /\ ResultIs(newResults, newOf, i, TRUE)
    <2>1. /\ ResultIs(newResults, newOf, i, FALSE) <=> ~newResults[i].passed
          /\ ResultIs(newResults, newOf, i, TRUE) <=> newResults[i].passed
      BY <1>2, <1>3
    <2>2. CASE baseGuard = None
      BY <2>1, <2>2 DEF ToBlock, ToPass, Compared, PassedThen, Before
    <2>3. CASE baseGuard # None
      <3>1. /\ ResultIs(baseResults, baseOf, i, FALSE) <=> ~baseResults[i].passed
            /\ ResultIs(baseResults, baseOf, i, TRUE) <=> baseResults[i].passed
        BY <1>2, <1>4, <2>3
      <3> QED
        BY <2>1, <2>3, <3>1 DEF ToBlock, ToPass, Compared, PassedThen, Before
    <2> QED
      BY <2>2, <2>3
  <1>6. /\ ToBlocks(Len(traffic)) = {i \in DOMAIN traffic :
              Before(i, TRUE) /\ ResultIs(newResults, newOf, i, FALSE)}
        /\ ToPasses(Len(traffic)) = {i \in DOMAIN traffic :
              Before(i, FALSE) /\ ResultIs(newResults, newOf, i, TRUE)}
    BY <1>2, <1>5, Zenon DEF ToBlocks, ToPasses
  <1>7. /\ ListsOnce(flips.toBlock, ToBlocks(Len(traffic)))
        /\ ListsOnce(flips.toPass, ToPasses(Len(traffic)))
    BY <1>1 DEF FlipsOf, NotedOf
  <1>8. ASSUME baseGuard # None
        PROVE  Len(flips.toPass) - Len(flips.toBlock) = newPassed - basePassed
    <2> DEFINE A == Passing(newResults)
               B == Passing(baseResults)
    <2>1. ToBlocks(Len(traffic)) = B \ A /\ ToPasses(Len(traffic)) = A \ B
      <3>1. \A i \in DOMAIN traffic : /\ ToBlock(i) <=> i \in B /\ i \notin A
                                      /\ ToPass(i) <=> i \in A /\ i \notin B
        BY <1>2, <1>8 DEF ToBlock, ToPass, Compared, PassedThen, Passing
      <3>2. A \subseteq DOMAIN traffic /\ B \subseteq DOMAIN traffic
        BY <1>2, <1>8 DEF Passing
      <3> HIDE DEF A, B
      <3> QED
        BY <1>2, <3>1, <3>2, Zenon DEF ToBlocks, ToPasses
    <2>2. IsFiniteSet(A) /\ IsFiniteSet(B)
      <3>1. A \in SUBSET (DOMAIN newResults) /\ B \in SUBSET (DOMAIN baseResults)
        BY DEF Passing
      <3> QED
        BY <1>1, <3>1, FiniteParts
    <2>3. newPassed = Cardinality(A) /\ basePassed = Cardinality(B)
      BY <1>1 DEF Own
    <2>4. Len(flips.toPass) = Cardinality(A \ B) /\ Len(flips.toBlock) = Cardinality(B \ A)
      BY <1>7, <2>1 DEF ListsOnce
    <2>5. Cardinality(A \ B) - Cardinality(B \ A) = Cardinality(A) - Cardinality(B)
      BY <2>2, DifferencesBalance
    <2> QED
      BY <2>3, <2>4, <2>5
  <1> QED
    BY <1>6, <1>7, <1>8

-----------------------------------------------------------------------------
(* A replay that runs after a calibration with samples is that of the      *)
(* samples through the recommended configuration.                          *)
Follows ==
    \/ phase = "idle" \/ samples = <<>>
    \/ stage = "reported" /\ newGuard = Tuned /\ traffic = SampleTraffic

TuningInv == Calibrated /\ Checked /\ Follows

LEMMA TuningStepsCalibrate == [TuningNext]_tuningVars => [CalibrateNext]_calibrateVars
  BY DEF TuningNext, tuningVars, CalibrateStep, ReplaySamples, ReplayTraffic,
         ReplayGoesOn, Ended

LEMMA SampleTrafficTyped == IInv => SampleTraffic \in Seq(Records)
  <1> SUFFICES ASSUME IInv PROVE SampleTraffic \in Seq(Records)
    OBVIOUS
  <1>1. /\ samples \in Seq(Samples) /\ DOMAIN samples = 1 .. Len(samples)
        /\ Len(samples) \in Nat
    BY SamplesTyped
  <1>2. \A i \in 1 .. Len(samples) : samples[i].msg \in Messages
    <2>1. \A i \in 1 .. Len(samples) : samples[i] \in Samples
      BY <1>1
    <2> QED
      BY <2>1 DEF Samples
  <1>3. \A i \in 1 .. Len(samples) :
           [msg |-> samples[i].msg, state |-> None, prev |-> None] \in Records
    BY <1>2 DEF Records
  <1>4. SampleTraffic = [i \in 1 .. Len(samples) |->
                           [msg |-> samples[i].msg, state |-> None, prev |-> None]]
    BY <1>1 DEF SampleTraffic
  <1> QED
    BY <1>1, <1>3, <1>4

LEMMA TuningInductive == TuningInv /\ [TuningNext]_tuningVars => TuningInv'
  <1> SUFFICES ASSUME TuningInv, [TuningNext]_tuningVars PROVE TuningInv'
    OBVIOUS
  <1>1. Calibrated'
    BY TuningStepsCalibrate, CalibratedKept DEF TuningInv
  <1>2. CASE CalibrateStep
    <2>1. CalibrateNext /\ UNCHANGED replayVars
      BY <1>2 DEF CalibrateStep
    <2>2. Checked'
      BY <2>1, StutterChecked DEF TuningInv
    <2>3. stage # "reported" /\ samples' = samples
      BY <2>1 DEF CalibrateNext, Refuse, DecidedEarlier, Embed, EmbedRaises, Classifying,
                  AllClassified, Sweep, Report
    <2>4. Follows'
      BY <2>1, <2>3 DEF TuningInv, Follows, replayVars
    <2> QED
      BY <1>1, <2>2, <2>4 DEF TuningInv
  <1>3. CASE ReplaySamples
    <2>1. /\ StartReplay(Tuned, config, SampleTraffic) /\ UNCHANGED calibrateVars
          /\ stage = "reported"
      BY <1>3 DEF ReplaySamples
    <2>2. Checked'
      BY <2>1, StartChecked, SampleTrafficTyped DEF TuningInv, Calibrated
    <2>3. Follows'
      BY <2>1 DEF StartReplay, Follows, Tuned, SampleTraffic, calibrateVars
    <2> QED
      BY <1>1, <2>2, <2>3 DEF TuningInv
  <1>4. ASSUME NEW base, NEW records \in Traffics, ReplayTraffic(base, records)
        PROVE  TuningInv'
    <2>1. /\ StartReplay(config, base, records) /\ UNCHANGED calibrateVars
          /\ samples = <<>>
      BY <1>4 DEF ReplayTraffic
    <2>2. Checked'
      BY <2>1, StartChecked, TrafficsAssumption
    <2>3. Follows'
      BY <2>1 DEF Follows, calibrateVars
    <2> QED
      BY <1>1, <2>2, <2>3 DEF TuningInv
  <1>5. CASE ReplayGoesOn
    <2>1. ReplayStep /\ UNCHANGED calibrateVars
      BY <1>5 DEF ReplayGoesOn
    <2>2. Checked'
      BY <2>1, StepChecked DEF TuningInv
    <2>3. phase # "idle" /\ UNCHANGED <<newGuard, traffic>>
      BY <2>1 DEF ReplayStep, CheckNew, CheckBase, CheckRaises, Raising, TurnToBaseline,
                  StartCompare, Compare, EndCompare
    <2>4. Follows'
      BY <2>1, <2>3 DEF TuningInv, Follows, calibrateVars, Tuned, SampleTraffic
    <2> QED
      BY <1>1, <2>2, <2>4 DEF TuningInv
  <1>6. CASE UNCHANGED tuningVars
    <2>1. UNCHANGED replayVars /\ UNCHANGED calibrateVars
      BY <1>6 DEF tuningVars
    <2>2. Checked'
      BY <2>1, StutterChecked DEF TuningInv
    <2>3. Follows'
      BY <2>1 DEF TuningInv, Follows, replayVars, calibrateVars, Tuned, SampleTraffic
    <2> QED
      BY <1>1, <2>2, <2>3 DEF TuningInv
  <1> QED
    BY <1>2, <1>3, <1>4, <1>5, <1>6 DEF TuningNext, Ended

(* Calibration's counts are those of its samples, the replay's lists those *)
(* of its guards, and the replayed samples the calibrated ones, at every   *)
(* moment (calibrate.py:101-238, replay.py:83-185).                        *)
THEOREM TuningInvariant == TuningSpec => []TuningInv
  <1>1. TuningInit => TuningInv
    <2> SUFFICES ASSUME TuningInit PROVE TuningInv
      OBVIOUS
    <2>1. Calibrated
      BY InitCalibrated DEF TuningInit
    <2>2. Checked
      BY NothingOwned DEF TuningInit, ReplayInit, Checked, Sized, Judgements, Owned, Loops,
                          Reports
    <2>3. Follows
      BY DEF TuningInit, ReplayInit, Follows
    <2> QED
      BY <2>1, <2>2, <2>3 DEF TuningInv
  <1> QED
    BY <1>1, TuningInductive, PTL DEF TuningSpec

LEMMA FollowsReport == TuningInv => ReportMatchesGuard
  <1> SUFFICES ASSUME TuningInv, SamplesReplayed, Simulated(config)
               PROVE  LET passed == {i \in DOMAIN samples : newResults[i].passed} IN
                      /\ Right(newResults) = best.correct
                      /\ best.falsePasses =
                            Cardinality({i \in LeftOver : ~samples[i].positive} \cap passed)
                      /\ decided.rule_pass = Cardinality(passed \ LeftOver)
                      /\ decided.rule_block =
                            Cardinality(DOMAIN samples \ (LeftOver \cup passed))
    BY DEF ReportMatchesGuard
  <1> DEFINE thr == best.thr
             passed == {i \in DOMAIN samples : newResults[i].passed}
  <1>1. /\ stage = "reported" /\ phase = "done" /\ Calibrated /\ Checked /\ Follows
    BY DEF SamplesReplayed, TuningInv
  <1>2. /\ samples \in Seq(Samples) /\ sims \in Seq(Samples)
        /\ DOMAIN samples = 1 .. Len(samples) /\ Len(samples) \in Nat
        /\ sample = Len(samples) + 1 /\ best # None
    BY <1>1, SamplesTyped DEF Calibrated, Complete
  (* best is the score of its own thresholds. *)
  <1>3. best.correct = Score(thr).correct /\ best.falsePasses = Score(thr).falsePasses
    <2> DEFINE V == {n \in Cells : n < cell /\ Tried(n)}
    <2>1. \E n \in V : best = Score(Cell(n))
      BY <1>1, <1>2 DEF Calibrated, IInv, BestIsBest
    <2>2. PICK n \in Cells : best = Score(Cell(n))
      BY <2>1
    <2>3. Score(Cell(n)).thr = Cell(n)
      BY DEF Score
    <2> QED
      BY <2>2, <2>3
  <1>4. /\ best.correct = Cardinality(Kept(Rightly(thr)))
        /\ best.falsePasses = Cardinality(Kept(Wrongly(thr)))
    BY <1>2, <1>3, ScoreCounts
  <1>5. /\ best.correct = Cardinality(Left(Rightly(thr)))
        /\ best.falsePasses = Cardinality(Left(Wrongly(thr)))
    <2>1. Rightly(thr) \in SUBSET Samples /\ Wrongly(thr) \in SUBSET Samples
      BY DEF Rightly, Wrongly
    <2> QED
      BY <1>1, <1>4, <2>1 DEF Calibrated, Leftovers
  <1>6. ASSUME NEW i \in DOMAIN samples
        PROVE  /\ i \in 1 .. Len(samples) /\ i < sample /\ samples[i] \in Samples
               /\ samples[i].positive \in BOOLEAN
               /\ newResults[i] \in Results(Tuned, [msg |-> samples[i].msg, state |-> None])
    <2>1. i \in 1 .. Len(samples) /\ samples[i] \in Samples
      BY <1>2
    <2>2. newGuard = Tuned /\ traffic = SampleTraffic
      BY <1>1, <1>2, <2>1 DEF Follows
    <2>3. Len(traffic) = Len(samples) /\ traffic[i].msg = samples[i].msg
          /\ traffic[i].state = None
      BY <1>2, <2>1, <2>2 DEF SampleTraffic
    <2>4. i \in DOMAIN newResults
      BY <1>1, <2>1, <2>3 DEF Checked, Sized, Loops
    <2>5. newResults[i] \in Results(Tuned, [msg |-> samples[i].msg, state |-> None])
      BY <1>1, <2>2, <2>3, <2>4 DEF Checked, Judgements, Request
    <2>6. i < sample /\ samples[i].positive \in BOOLEAN
      BY <1>2, <2>1 DEF Samples
    <2> QED
      BY <2>1, <2>5, <2>6
  <1>7. ASSUME NEW i \in LeftOver
        PROVE  /\ i \in DOMAIN samples /\ newResults[i].passed \in BOOLEAN
               /\ newResults[i].passed <=> EffectivePass(samples[i], thr)
    <2>1. i \in DOMAIN samples
      BY DEF LeftOver
    <2> QED
      BY <1>1, <1>6, <2>1, TunedDecides
  <1>8. ASSUME NEW i \in DOMAIN samples \ LeftOver
        PROVE  /\ Earlier(samples[i]) \in {"pass", "block"}
               /\ newResults[i].passed \in BOOLEAN
               /\ newResults[i].passed <=> Earlier(samples[i]) = "pass"
    BY <1>1, <1>6, TunedFollowsRule
  <1> HIDE DEF thr
  <1>9. Left(Rightly(thr)) = {i \in LeftOver : newResults[i].passed = samples[i].positive}
    BY <1>6, <1>7 DEF Left, Rightly
  <1>10. Left(Wrongly(thr)) = {i \in LeftOver : ~samples[i].positive} \cap passed
    BY <1>6, <1>7 DEF Left, Wrongly
  <1>11. /\ Ruled("pass") = passed \ LeftOver
         /\ Ruled("block") = DOMAIN samples \ (LeftOver \cup passed)
    <2>1. \A i \in LeftOver : Earlier(samples[i]) = "defer"
      BY DEF LeftOver
    <2> QED
      BY <1>6, <1>8, <2>1 DEF Ruled
  <1>12. /\ decided.rule_pass = Cardinality(Ruled("pass"))
         /\ decided.rule_block = Cardinality(Ruled("block"))
    BY <1>1 DEF Calibrated, RuleCounts
  <1> QED
    BY <1>5, <1>9, <1>10, <1>11, <1>12 DEF Right

(* Tuning takes no step that calibration by itself does not: what is       *)
(* proved of CalibrateSpec holds of it.                                    *)
THEOREM TuningCalibrates == TuningSpec => CalibrateSpec
  <1>1. TuningInit => CalibrateInit
    BY DEF TuningInit
  <1> QED
    BY <1>1, TuningStepsCalibrate, PTL DEF TuningSpec, CalibrateSpec

(* The thresholds that get into the configuration are the best, with the   *)
(* first block threshold of the grid (calibrate.py:175-176, 202-206).      *)
THEOREM TunedBest == TuningSpec => [](BestIsBest /\ BlockCutIsFirst)
  BY TuningCalibrates, FindsBest, RecommendsFirstBlock, PTL

(* The report's figures are those of the guard with the recommended        *)
(* thresholds (calibrate.py:126-189, embedding.py:44-93, core.py:114-166). *)
THEOREM ReportHolds == TuningSpec => []ReportMatchesGuard
  BY TuningInvariant, FollowsReport, PTL

(* A finished report lists exactly the records whose own decision changed, *)
(* each once and in the right list, against a baseline's own result on the *)
(* same record or its label, and the flips explain the difference of the   *)
(* pass counts, for any traffic, configurations and answers of the layers  *)
(* (replay.py:86-90, 124-137, 159-175).                                    *)
THEOREM FlipsAreOwn == TuningSpec => []FlipsExact
  <1>1. TuningInv => FlipsExact
    BY CheckedFlips DEF TuningInv
  <1> QED
    BY <1>1, TuningInvariant, PTL
=============================================================================
