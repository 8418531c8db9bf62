--------------------------- MODULE TriageScoring ---------------------------
(***************************************************************************)
(* The scoring engine of the triage service: TriageEngine.score of         *)
(* agentguard/scoring/engine.py on the sub-scores of stages 2 to 5.        *)
(*                                                                         *)
(* The engine computes with floats in [0, 1].  Here a sub-score is a whole *)
(* number of hundredths and every other quantity is an exact integer:      *)
(* base is scaled by 10^4, and R by 3 * 10^7, the least common scale of    *)
(* gamma * (k - 1) / k for k in 0..4.  Every intermediate value stays      *)
(* below 2^31, so the formulas can be evaluated as they stand.             *)
(***************************************************************************)
EXTENDS Integers

None == -1                       \* Python's None: the stage was unavailable
Score == {None} \cup 0..100      \* Optional[float] of one stage

StageScores == [s2 : Score, s3 : Score, s4 : Score, s5 : Score]

\* The sub-scores of a call no stage has judged yet.
NoScores == [s2 |-> None, s3 |-> None, s4 |-> None, s5 |-> None]

(***************************************************************************)
(* Constants of the engine, in the scales above.                           *)
(***************************************************************************)
TauC         == 50               \* a stage votes from 0.5 on
ShortCircuit == 95               \* S2 alone blocks from 0.95 on
BaseOne      == 10000            \* base = 1.0
One          == 30000000         \* R = 1.0
ThresholdAllow == 7500000        \* R = 0.25
ThresholdBlock == 25500000       \* R = 0.85

Eff(x)  == IF x = None THEN 0 ELSE x
Vote(x) == IF x # None /\ x >= TauC THEN 1 ELSE 0
VotingScore(x) == IF Vote(x) = 1 THEN x ELSE 0

\* Faulty variant: the weights of the available stages are renormalised.
RenormalizedBase(sc) ==
  LET w == (IF sc.s2 # None THEN 35 ELSE 0) + (IF sc.s3 # None THEN 30 ELSE 0)
             + (IF sc.s4 # None THEN 20 ELSE 0) + (IF sc.s5 # None THEN 15 ELSE 0)
  IN  IF w = 0 THEN 0
      ELSE (100 * (35 * Eff(sc.s2) + 30 * Eff(sc.s3) + 20 * Eff(sc.s4) + 15 * Eff(sc.s5))) \div w

Base(sc) == 35 * Eff(sc.s2) + 30 * Eff(sc.s3) + 20 * Eff(sc.s4) + 15 * Eff(sc.s5)

\* k: the number of voting stages.
VoteCount(sc) == Vote(sc.s2) + Vote(sc.s3) + Vote(sc.s4) + Vote(sc.s5)

VoteSum(sc) == VotingScore(sc.s2) + VotingScore(sc.s3)
                 + VotingScore(sc.s4) + VotingScore(sc.s5)

\* 30 * gamma * max(0, k - 1) / k: the mean of the votes is their sum over k.
Gain(k) == IF k <= 1 THEN 0 ELSE IF k = 2 THEN 6 ELSE IF k = 3 THEN 8 ELSE 9

\* Faulty variant: a_bar is the mean of the available stages, not of the votes.
MeanOfAvailable(sc) ==
  LET n == (IF sc.s2 # None THEN 1 ELSE 0) + (IF sc.s3 # None THEN 1 ELSE 0)
             + (IF sc.s4 # None THEN 1 ELSE 0) + (IF sc.s5 # None THEN 1 ELSE 0)
      k == VoteCount(sc)
  IN  IF k <= 1 THEN 0
      ELSE (12 * (k - 1) * (Eff(sc.s2) + Eff(sc.s3) + Eff(sc.s4) + Eff(sc.s5))) \div n

\* gamma * max(0, k - 1) * a_bar, scaled by 3000.
Corroboration(sc) == Gain(VoteCount(sc)) * VoteSum(sc)

\* base + bonus before the cap, and the composite score R.
Uncapped(sc) == 3000 * Base(sc) + Corroboration(sc) * (BaseOne - Base(sc))
R(sc) == IF Uncapped(sc) > One THEN One ELSE Uncapped(sc)

(***************************************************************************)
(* Verdict and route.                                                      *)
(***************************************************************************)
Blocking == {"block", "block_short_circuit", "block_stage1"}
Verdicts == Blocking \cup {"allow", "grey_band"}
Routes   == {"fast_path", "sandbox_async", "hold_sync", "blocked", "stage1_gate"}
Reversibility == {"reversible", "irreversible", "none"}

CompositeVerdict(sc) ==
  IF R(sc) > ThresholdBlock THEN "block"
  ELSE IF R(sc) >= ThresholdAllow THEN "grey_band"
  ELSE "allow"

Verdict(sc) == IF Eff(sc.s2) >= ShortCircuit THEN "block_short_circuit"
                                             ELSE CompositeVerdict(sc)

Route(verdict, rev) ==
  IF verdict = "allow" THEN "fast_path"
  ELSE IF verdict = "block_stage1" THEN "stage1_gate"
  ELSE IF verdict # "grey_band" THEN "blocked"
  ELSE IF rev = "irreversible" THEN "hold_sync" ELSE "sandbox_async"

\* How much a verdict restrains the caller.
Severity(verdict) == IF verdict = "allow" THEN 0
                     ELSE IF verdict = "grey_band" THEN 1 ELSE 2

\* Degraded(sc, s): the sub-scores had stage s been unavailable.
Degraded(sc, s) == [sc EXCEPT ![s] = None]
============================================================================
