--------------------------- MODULE TriageProofs ---------------------------
(***************************************************************************)
(* Safety of the scoring engine, for every tuple of sub-scores, and of the *)
(* triage pipeline around it, for any requests, tools, kill chains,        *)
(* window and stage answers, and every schedule of the event loop.         *)
(***************************************************************************)
EXTENDS TriagePipeline, FiniteSetTheorems, TLAPS

(***************************************************************************)
(* What the scoring engine guarantees for every tuple of sub-scores.       *)
(***************************************************************************)
(* The verdict of the engine is always one of the three composite verdicts   *)
(* or the short-circuit: it never answers for stage 1.                       *)
LEMMA VerdictType ==
  ASSUME NEW sc \in StageScores
  PROVE  Verdict(sc) \in {"block", "grey_band", "allow", "block_short_circuit"}
  BY DEF Verdict, CompositeVerdict

(* A stage that does not vote contributes to neither the count nor the sum.  *)
LEMMA VoteType ==
  ASSUME NEW x \in Score
  PROVE  /\ Eff(x) \in 0..100 /\ Vote(x) \in 0..1 /\ VotingScore(x) \in 0..100
         /\ Vote(x) = 0 <=> (x = None \/ x < TauC)
         /\ Vote(x) = 0 => (VotingScore(x) = 0 /\ Eff(x) < TauC)
  BY DEF Score, None, Eff, Vote, VotingScore, TauC

(* The range of base, and of the parts of the corroboration bonus.           *)
LEMMA ScoreType ==
  ASSUME NEW sc \in StageScores
  PROVE  /\ Base(sc) \in Int /\ 0 <= Base(sc) /\ Base(sc) <= 10000
         /\ VoteCount(sc) \in 0..4
         /\ VoteSum(sc) \in 0..400
         /\ Gain(VoteCount(sc)) \in {0, 6, 8, 9}
         /\ Corroboration(sc) \in Nat
         /\ R(sc) \in Int
  <1>1. /\ Base(sc) \in Int /\ 0 <= Base(sc) /\ Base(sc) <= 10000
        /\ VoteCount(sc) \in 0..4 /\ VoteSum(sc) \in 0..400
    <2> DEFINE e2 == Eff(sc.s2)  e3 == Eff(sc.s3)  e4 == Eff(sc.s4)  e5 == Eff(sc.s5)
               v2 == Vote(sc.s2) v3 == Vote(sc.s3) v4 == Vote(sc.s4) v5 == Vote(sc.s5)
               x2 == VotingScore(sc.s2)  x3 == VotingScore(sc.s3)
               x4 == VotingScore(sc.s4)  x5 == VotingScore(sc.s5)
    <2>1. /\ Base(sc) = 35 * e2 + 30 * e3 + 20 * e4 + 15 * e5
          /\ VoteCount(sc) = v2 + v3 + v4 + v5
          /\ VoteSum(sc) = x2 + x3 + x4 + x5
      BY DEF Base, VoteCount, VoteSum
    <2>2. /\ e2 \in 0..100 /\ e3 \in 0..100 /\ e4 \in 0..100 /\ e5 \in 0..100
          /\ v2 \in 0..1 /\ v3 \in 0..1 /\ v4 \in 0..1 /\ v5 \in 0..1
          /\ x2 \in 0..100 /\ x3 \in 0..100 /\ x4 \in 0..100 /\ x5 \in 0..100
      BY VoteType DEF StageScores
    <2> HIDE DEF e2, e3, e4, e5, v2, v3, v4, v5, x2, x3, x4, x5
    <2> QED BY <2>1, <2>2, SMT
  <1>2. Gain(VoteCount(sc)) \in {0, 6, 8, 9}
    BY <1>1 DEF Gain
  <1>3. Corroboration(sc) \in Nat
    BY <1>1, <1>2 DEF Corroboration
  <1>4. R(sc) \in Int
    BY <1>1, <1>3, SMT DEF R, Uncapped, One, BaseOne
  <1> QED BY <1>1, <1>2, <1>3, <1>4

(* One vote is not enough (README.md:74): with at most one stage at 0.5 or   *)
(* above, the composite score stays below the block threshold.               *)
THEOREM TwoVotesToBlock ==
  ASSUME NEW sc \in StageScores, CompositeVerdict(sc) = "block"
  PROVE  VoteCount(sc) >= 2
  <1> SUFFICES ASSUME VoteCount(sc) <= 1 PROVE FALSE
    BY ScoreType
  <1>1. Corroboration(sc) = 0
    BY ScoreType DEF Gain, Corroboration
  <1>2. R(sc) <= 3000 * Base(sc)
    BY <1>1, ScoreType, SMT DEF R, Uncapped, One, BaseOne
  <1>3. Base(sc) <= 8500
    <2> DEFINE e2 == Eff(sc.s2)  e3 == Eff(sc.s3)  e4 == Eff(sc.s4)  e5 == Eff(sc.s5)
               v2 == Vote(sc.s2) v3 == Vote(sc.s3) v4 == Vote(sc.s4) v5 == Vote(sc.s5)
    <2>1. /\ Base(sc) = 35 * e2 + 30 * e3 + 20 * e4 + 15 * e5
          /\ v2 + v3 + v4 + v5 <= 1
      BY DEF Base, VoteCount
    <2>2. /\ e2 \in 0..100 /\ e3 \in 0..100 /\ e4 \in 0..100 /\ e5 \in 0..100
          /\ v2 \in 0..1 /\ v3 \in 0..1 /\ v4 \in 0..1 /\ v5 \in 0..1
          /\ v2 = 0 => e2 < 50
          /\ v3 = 0 => e3 < 50
          /\ v4 = 0 => e4 < 50
          /\ v5 = 0 => e5 < 50
      BY VoteType DEF StageScores, TauC
    <2> HIDE DEF e2, e3, e4, e5, v2, v3, v4, v5
    <2> QED BY <2>1, <2>2, SMT
  <1>4. ~(R(sc) > ThresholdBlock)
    BY <1>2, <1>3, ScoreType, SMT DEF ThresholdBlock
  <1> QED BY <1>4 DEF CompositeVerdict

-----------------------------------------------------------------------------
(* The composite score is monotone in base and in the corroboration.         *)

(* The formula of R on plain numbers: b is base, c the corroboration.        *)
LEMMA CappedMonotone ==
  ASSUME NEW b \in Int, NEW bl \in Int, NEW c \in Nat, NEW cl \in Nat,
         0 <= bl, bl <= b, b <= 10000, cl <= c
  PROVE  LET low == 3000 * bl + cl * (10000 - bl)
             high == 3000 * b + c * (10000 - b)
         IN  low <= high \/ high >= 30000000
  <1>1. CASE c >= 3000
    <2>1. 3000 * (10000 - b) <= c * (10000 - b)
      BY <1>1, SMT
    <2> QED BY <2>1, SMT
  <1>2. CASE c < 3000
    <2>1. cl * (10000 - bl) <= c * (10000 - bl)
      BY SMT
    <2>2. c * (b - bl) <= 3000 * (b - bl)
      BY <1>2, SMT
    <2>3. c * (10000 - bl) = c * (10000 - b) + c * (b - bl)
      BY SMT
    <2> QED BY <2>1, <2>2, <2>3, SMT
  <1> QED BY <1>1, <1>2

LEMMA ScoreMonotone ==
  ASSUME NEW sc \in StageScores, NEW low \in StageScores,
         Base(low) <= Base(sc), Corroboration(low) <= Corroboration(sc)
  PROVE  R(low) <= R(sc)
  <1> DEFINE b == Base(sc)  c == Corroboration(sc)
             bl == Base(low)  cl == Corroboration(low)
  <1>1. b \in Int /\ bl \in Int /\ 0 <= bl /\ bl <= b /\ b <= 10000
          /\ c \in Nat /\ cl \in Nat /\ cl <= c
    BY ScoreType
  <1>2. /\ R(low) = IF 3000 * bl + cl * (10000 - bl) > 30000000
                    THEN 30000000 ELSE 3000 * bl + cl * (10000 - bl)
        /\ R(sc) = IF 3000 * b + c * (10000 - b) > 30000000
                   THEN 30000000 ELSE 3000 * b + c * (10000 - b)
    BY SMT DEF R, Uncapped, One, BaseOne
  <1> HIDE DEF b, c, bl, cl
  <1>3. \/ 3000 * bl + cl * (10000 - bl) <= 3000 * b + c * (10000 - b)
        \/ 3000 * b + c * (10000 - b) >= 30000000
    BY <1>1, CappedMonotone, SMT
  <1> QED BY <1>1, <1>2, <1>3, SMT

(* Losing one stage lowers every part of the score.                          *)
LEMMA DegradedParts ==
  ASSUME NEW sc \in StageScores, NEW s \in {"s2", "s3", "s4", "s5"}
  PROVE  LET low == Degraded(sc, s)
         IN  /\ low \in StageScores
             /\ Base(low) <= Base(sc)
             /\ VoteCount(low) <= VoteCount(sc)
             /\ VoteSum(low) <= VoteSum(sc)
             /\ Eff(low.s2) <= Eff(sc.s2)
  <1> DEFINE low == Degraded(sc, s)
             e2 == Eff(sc.s2)  e3 == Eff(sc.s3)  e4 == Eff(sc.s4)  e5 == Eff(sc.s5)
             v2 == Vote(sc.s2) v3 == Vote(sc.s3) v4 == Vote(sc.s4) v5 == Vote(sc.s5)
             x2 == VotingScore(sc.s2)  x3 == VotingScore(sc.s3)
             x4 == VotingScore(sc.s4)  x5 == VotingScore(sc.s5)
             f2 == Eff(low.s2)  f3 == Eff(low.s3)  f4 == Eff(low.s4)  f5 == Eff(low.s5)
             w2 == Vote(low.s2) w3 == Vote(low.s3) w4 == Vote(low.s4) w5 == Vote(low.s5)
             y2 == VotingScore(low.s2)  y3 == VotingScore(low.s3)
             y4 == VotingScore(low.s4)  y5 == VotingScore(low.s5)
  <1>1. low \in StageScores
    BY DEF Degraded, StageScores, Score, None
  <1>2. /\ e2 \in 0..100 /\ e3 \in 0..100 /\ e4 \in 0..100 /\ e5 \in 0..100
        /\ v2 \in 0..1 /\ v3 \in 0..1 /\ v4 \in 0..1 /\ v5 \in 0..1
        /\ x2 \in 0..100 /\ x3 \in 0..100 /\ x4 \in 0..100 /\ x5 \in 0..100
    BY VoteType DEF StageScores
  <1>3. /\ (f2 = e2 /\ w2 = v2 /\ y2 = x2) \/ (f2 = 0 /\ w2 = 0 /\ y2 = 0)
        /\ (f3 = e3 /\ w3 = v3 /\ y3 = x3) \/ (f3 = 0 /\ w3 = 0 /\ y3 = 0)
        /\ (f4 = e4 /\ w4 = v4 /\ y4 = x4) \/ (f4 = 0 /\ w4 = 0 /\ y4 = 0)
        /\ (f5 = e5 /\ w5 = v5 /\ y5 = x5) \/ (f5 = 0 /\ w5 = 0 /\ y5 = 0)
    <2>1. Eff(None) = 0 /\ Vote(None) = 0 /\ VotingScore(None) = 0
      BY DEF Eff, Vote, VotingScore
    <2>2. /\ low.s2 = sc.s2 \/ low.s2 = None
          /\ low.s3 = sc.s3 \/ low.s3 = None
          /\ low.s4 = sc.s4 \/ low.s4 = None
          /\ low.s5 = sc.s5 \/ low.s5 = None
      BY DEF Degraded, StageScores
    <2> QED BY <2>1, <2>2, Zenon
  <1>4. /\ Base(sc) = 35 * e2 + 30 * e3 + 20 * e4 + 15 * e5
        /\ VoteCount(sc) = v2 + v3 + v4 + v5
        /\ VoteSum(sc) = x2 + x3 + x4 + x5
        /\ Base(low) = 35 * f2 + 30 * f3 + 20 * f4 + 15 * f5
        /\ VoteCount(low) = w2 + w3 + w4 + w5
        /\ VoteSum(low) = y2 + y3 + y4 + y5
    BY DEF Base, VoteCount, VoteSum
  <1> HIDE DEF e2, e3, e4, e5, v2, v3, v4, v5, x2, x3, x4, x5
  <1>5. /\ Base(low) <= Base(sc)
        /\ VoteCount(low) <= VoteCount(sc)
        /\ VoteSum(low) <= VoteSum(sc)
        /\ f2 <= e2
    <2> HIDE DEF f2, f3, f4, f5, w2, w3, w4, w5, y2, y3, y4, y5
    <2>1. f2 \in 0..e2 /\ f3 \in 0..e3 /\ f4 \in 0..e4 /\ f5 \in 0..e5
      BY <1>2, <1>3
    <2>2. w2 \in 0..v2 /\ w3 \in 0..v3 /\ w4 \in 0..v4 /\ w5 \in 0..v5
      BY <1>2, <1>3
    <2>3. y2 \in 0..x2 /\ y3 \in 0..x3 /\ y4 \in 0..x4 /\ y5 \in 0..x5
      BY <1>2, <1>3
    <2> HIDE DEF low
    <2>4. Base(low) <= Base(sc)
      BY <1>2, <1>4, <2>1, SMT
    <2>5. VoteCount(low) <= VoteCount(sc)
      BY <1>2, <1>4, <2>2, SMT
    <2>6. VoteSum(low) <= VoteSum(sc)
      BY <1>2, <1>4, <2>3, SMT
    <2> QED BY <1>2, <2>1, <2>4, <2>5, <2>6
  <1> QED BY <1>1, <1>5 DEF e2

(* An unavailable stage never raises R (scoring/model.py:34-36).             *)
THEOREM DegradedScore ==
  ASSUME NEW sc \in StageScores, NEW s \in {"s2", "s3", "s4", "s5"}
  PROVE  R(Degraded(sc, s)) <= R(sc)
  <1> DEFINE low == Degraded(sc, s)
  <1>1. low \in StageScores /\ Base(low) <= Base(sc)
    BY DegradedParts
  <1>2. Corroboration(low) <= Corroboration(sc)
    <2> DEFINE k == VoteCount(sc)  n == VoteSum(sc)
               kl == VoteCount(low)  nl == VoteSum(low)
    <2>1. k \in 0..4 /\ kl \in 0..4 /\ n \in 0..400 /\ nl \in 0..400
            /\ kl <= k /\ nl <= n
      BY <1>1, ScoreType, DegradedParts
    <2>2. Corroboration(sc) = Gain(k) * n /\ Corroboration(low) = Gain(kl) * nl
      BY DEF Corroboration
    <2> DEFINE g == Gain(k)  gl == Gain(kl)
    <2>3. g \in Nat /\ gl \in Nat /\ gl <= g
      <3> HIDE DEF k, kl, n, nl
      <3> QED BY <2>1, SMT DEF Gain
    <2> HIDE DEF k, n, kl, nl, g, gl, low
    <2>4. gl * nl <= gl * n /\ gl * n <= g * n
      BY <2>1, <2>3, SMT
    <2> QED BY <2>1, <2>2, <2>3, <2>4, SMT DEF g, gl
  <1> QED BY <1>1, <1>2, ScoreMonotone

THEOREM DegradedVerdict ==
  ASSUME NEW sc \in StageScores, NEW s \in {"s2", "s3", "s4", "s5"}
  PROVE  Severity(Verdict(Degraded(sc, s))) <= Severity(Verdict(sc))
  <1> DEFINE low == Degraded(sc, s)
             f2 == Eff(low.s2)  e2 == Eff(sc.s2)
  <1>1. /\ R(low) <= R(sc) /\ R(low) \in Int /\ R(sc) \in Int
    <2>1. low \in StageScores
      BY DegradedParts
    <2> QED BY <2>1, DegradedScore, ScoreType
  <1>2. f2 <= e2 /\ f2 \in 0..100 /\ e2 \in 0..100
    BY DegradedParts, VoteType DEF StageScores
  <1>3. /\ Verdict(low) = IF f2 >= ShortCircuit THEN "block_short_circuit"
                                                ELSE CompositeVerdict(low)
        /\ Verdict(sc) = IF e2 >= ShortCircuit THEN "block_short_circuit"
                                               ELSE CompositeVerdict(sc)
    BY DEF Verdict
  <1> HIDE DEF low, e2, f2
  <1>4. Severity(CompositeVerdict(low)) <= Severity(CompositeVerdict(sc))
    <2> DEFINE rl == R(low)  rs == R(sc)
    <2>1. /\ CompositeVerdict(low) = IF rl > 25500000 THEN "block"
                                     ELSE IF rl >= 7500000 THEN "grey_band" ELSE "allow"
          /\ CompositeVerdict(sc) = IF rs > 25500000 THEN "block"
                                    ELSE IF rs >= 7500000 THEN "grey_band" ELSE "allow"
      BY SMT DEF CompositeVerdict, ThresholdBlock, ThresholdAllow
    <2>2. rl \in Int /\ rs \in Int /\ rl <= rs
      BY <1>1
    <2>3. Severity("block") = 2 /\ Severity("grey_band") = 1 /\ Severity("allow") = 0
      BY DEF Severity
    <2> HIDE DEF rl, rs
    <2> QED BY <2>1, <2>2, <2>3, SMT
  <1>5. Severity(CompositeVerdict(low)) <= 2 /\ Severity("block_short_circuit") = 2
    BY DEF CompositeVerdict, Severity
  <1> QED BY <1>2, <1>3, <1>4, <1>5 DEF ShortCircuit, low

(***************************************************************************)
(* The pipeline around it.                                                 *)
(***************************************************************************)

(* The tasks and answers are well typed; this part does not depend on the    *)
(* contents of the event queue.                                              *)
LEMMA TypeInit == Init => TypeOK
  BY DEF Init, TypeOK, NoResult, NoScores, StageScores, Score, None, Verdicts, TaskState,
         Tasks, Scored

(* The event queue stays a queue of steps.                                   *)
LEMMA QueueType ==
  ASSUME ready \in Seq(Requests \X Tasks), NEW r \in Requests
  PROVE  /\ ready # <<>> => Tail(ready) \in Seq(Requests \X Tasks)
         /\ \A t \in Tasks : Append(ready, <<r, t>>) \in Seq(Requests \X Tasks)
         /\ \A t \in Tasks : ready # <<>> =>
              Tail(ready) \o <<<<r, t>>>> \in Seq(Requests \X Tasks)
         /\ ready # <<>> =>
              Tail(ready) \o <<<<r, "s2">>, <<r, "s3">>, <<r, "s4">>, <<r, "s5">>>>
                \in Seq(Requests \X Tasks)
  BY DEF Tasks, Scored

(* What a returning stage does to the typed state.                           *)
LEMMA ReturnType ==
  ASSUME TypeOK, NEW r \in Requests, NEW s \in Scored, NEW x \in Score,
         ready # <<>>, Return(r, s, x), UNCHANGED stage5
  PROVE  TypeOK'
  <1>1. task' \in [Requests -> [Scored -> TaskState]]
    BY DEF TypeOK, Return, TaskState
  <1>2. out' \in [Requests -> StageScores]
    <2>0. out[r] \in StageScores
      BY DEF TypeOK
    <2>1. [out[r] EXCEPT ![s] = x] \in StageScores
      BY <2>0 DEF StageScores, Scored
    <2>2. out' = [out EXCEPT ![r] = [out[r] EXCEPT ![s] = x]]
      BY DEF Return
    <2> QED BY <2>1, <2>2 DEF TypeOK
  <1>3. ready' \in Seq(Requests \X Tasks)
    <2>1. ready' = Tail(ready) \o <<<<r, "ev">>>> \/ ready' = Tail(ready) \o << >>
      BY DEF Return
    <2>2. "ev" \in Tasks /\ ready \in Seq(Requests \X Tasks)
      BY DEF Tasks, TypeOK
    <2>3. Tail(ready) \in Seq(Requests \X Tasks)
            /\ Tail(ready) \o <<<<r, "ev">>>> \in Seq(Requests \X Tasks)
      BY <2>2, QueueType
    <2>4. Tail(ready) \o << >> = Tail(ready)
      BY <2>3
    <2> QED BY <2>1, <2>3, <2>4
  <1> QED BY <1>1, <1>2, <1>3 DEF TypeOK, Return, stage5

(* What stage 3 makes of a decision of the policy is a sub-score.            *)
LEMMA PolicyType ==
  ASSUME NEW role, NEW t
  PROVE  PolicyScore(role, t) \in Score
  <1>1. Risk(t) \in {75, 80, 40, 50, 20, 0}
    BY DEF Risk
  <1> QED BY <1>1 DEF PolicyScore, Score, Denial

LEMMA OpaScores ==
  ASSUME NEW r \in Requests
  PROVE  {PolicyScore(caller[r].role, tool[r])} \cup OpaFaults \subseteq Score
  <1>1. PolicyScore(caller[r].role, tool[r]) \in Score
    BY PolicyType
  <1>2. OpaFaults \subseteq Score
    BY PipelineAssumption DEF Score, None, Denial
  <1> QED BY <1>1, <1>2

LEMMA BehavioralType ==
  ASSUME NEW r \in Requests
  PROVE  BehavioralScore(r) \in Score
  <1>1. BehavioralScore(r) \in {80, 90, 65, 5}
    BY Zenon DEF BehavioralScore
  <1> QED BY <1>1 DEF Score

LEMMA LoopType ==
  ASSUME TypeOK, NEW r \in Requests, LoopStep(r)
  PROVE  TypeOK'
  <1>1. CASE Stage1Rejects(r)
    <2>1. ready' \in Seq(Requests \X Tasks)
      BY <1>1, QueueType DEF TypeOK, Stage1Rejects, Next1
    <2>2. result' \in [Requests -> [verdict : Verdicts \cup {"none"}, scores : StageScores]]
      <3>1. [verdict |-> "block_stage1", scores |-> NoScores]
              \in [verdict : Verdicts \cup {"none"}, scores : StageScores]
        BY DEF Verdicts, Blocking, NoScores, StageScores, Score, None
      <3> QED BY <1>1, <3>1 DEF TypeOK, Stage1Rejects
    <2> QED BY <1>1, <2>1, <2>2 DEF TypeOK, Stage1Rejects, stage5
  <1>2. CASE CreateTasks(r)
    <2>1. ready' \in Seq(Requests \X Tasks)
      BY <1>2, QueueType DEF TypeOK, CreateTasks, Next1
    <2>2. task' \in [Requests -> [Scored -> TaskState]]
      BY <1>2 DEF TypeOK, CreateTasks, TaskState
    <2> QED BY <1>2, <2>1, <2>2 DEF TypeOK, CreateTasks, stage5, Scored
  <1>3. CASE RunStage2(r)
    BY <1>3, ReturnType, PipelineAssumption DEF RunStage2, Next1, Scored
  <1>4. CASE RunStage3(r)
    <2>1. ready' \in Seq(Requests \X Tasks)
      BY <1>4, QueueType DEF TypeOK, RunStage3, Next1
    <2>2. task' \in [Requests -> [Scored -> TaskState]]
      BY <1>4 DEF TypeOK, RunStage3, TaskState, Scored
    <2> QED BY <1>4, <2>1, <2>2 DEF TypeOK, RunStage3, stage5
  <1>5. CASE Stage3Returns(r)
    <2>1. PICK x \in Score : Return(r, "s3", x)
      BY <1>5, OpaScores DEF Stage3Returns
    <2> QED BY <1>5, <2>1, ReturnType DEF Stage3Returns, Next1, Scored
  <1>6. CASE RunStage4(r)
    BY <1>6, ReturnType, PipelineAssumption DEF RunStage4, Next1, Scored
  <1>7. CASE Stage5Suspended(r)
    BY <1>7, ReturnType DEF Stage5Suspended, Next1, Scored, Score, None
  <1>8. CASE StartStage5(r)
    <2>1. ready' \in Seq(Requests \X Tasks)
      BY <1>8, QueueType DEF TypeOK, StartStage5, Next1
    <2>2. task' \in [Requests -> [Scored -> TaskState]]
      BY <1>8 DEF TypeOK, StartStage5, TaskState, Scored
    <2>3. stamped' \in Seq(Requests)
      BY <1>8 DEF TypeOK, StartStage5
    <2>4. /\ hop' \in [Requests -> 0..3]
          /\ job' \in [Requests -> {"none", "flying", "failed", "orphan"}]
      BY <1>8 DEF TypeOK, StartStage5
    <2>5. UNCHANGED <<redis, ev, result, caller, tool, out, timed, recorded, seen, flooded, before>>
      BY <1>8 DEF StartStage5
    <2> QED BY <2>1, <2>2, <2>3, <2>4, <2>5 DEF TypeOK
  <1>9. CASE Stage5GivesUp(r)
    BY <1>9, ReturnType DEF Stage5GivesUp, Next1, Scored, Score, None
  <1>10. CASE Stage5Continues(r)
    <2>1. ready' \in Seq(Requests \X Tasks)
      BY <1>10, QueueType DEF TypeOK, Stage5Continues, Next1
    <2>2. task' \in [Requests -> [Scored -> TaskState]]
      BY <1>10 DEF TypeOK, Stage5Continues, TaskState, Scored
    <2>3. hop' \in [Requests -> 0..3]
      <3>1. hop[r] \in 0..3 /\ hop[r] < 3
        BY <1>10 DEF TypeOK, Stage5Continues
      <3>2. hop' = [hop EXCEPT ![r] = hop[r] + 1]
        BY <1>10 DEF Stage5Continues
      <3>3. hop[r] + 1 \in 0..3
        BY <3>1
      <3> QED BY <3>2, <3>3 DEF TypeOK
    <2> QED BY <1>10, <2>1, <2>2, <2>3 DEF TypeOK, Stage5Continues
  <1>11. CASE Stage5Scores(r)
    <2>1. PICK x \in Score : x = BehavioralScore(r)
      BY BehavioralType
    <2>2. Return(r, "s5", x)
      BY <1>11, <2>1 DEF Stage5Scores
    <2> QED BY <1>11, <2>2, ReturnType DEF Stage5Scores, Next1, Scored
  <1>12. CASE \E s \in Scored : Unwind(r, s)
    BY <1>12, QueueType DEF TypeOK, Unwind, Next1, stage5
  <1>13. CASE ShortCircuits(r)
    <2> DEFINE sc == [NoScores EXCEPT !.s2 = out[r].s2]
    <2>1. ready' \in Seq(Requests \X Tasks)
      BY <1>13, QueueType DEF TypeOK, ShortCircuits, Next1
    <2>2. task' \in [Requests -> [Scored -> TaskState]]
      BY <1>13 DEF TypeOK, ShortCircuits, TaskState
    <2>3. out[r].s2 \in Score
      BY DEF TypeOK, StageScores
    <2>4. sc \in StageScores
      BY <2>3 DEF NoScores, StageScores, Score, None
    <2>5. Verdict(sc) \in Verdicts
      BY <2>4, VerdictType DEF Verdicts, Blocking
    <2>6. result' \in [Requests -> [verdict : Verdicts \cup {"none"}, scores : StageScores]]
      BY <1>13, <2>4, <2>5 DEF TypeOK, ShortCircuits
    <2>7. job' \in [Requests -> {"none", "flying", "failed", "orphan"}]
      BY <1>13 DEF TypeOK, ShortCircuits, Abandoned
    <2> QED BY <1>13, <2>1, <2>2, <2>6, <2>7 DEF TypeOK, ShortCircuits
  <1>14. CASE AwaitNext(r)
    BY <1>14, QueueType DEF TypeOK, AwaitNext, Next1, stage5, Scored
  <1>15. CASE CompositeScores(r)
    <2>1. out[r] \in StageScores
      BY DEF TypeOK
    <2>2. Verdict(out[r]) \in Verdicts
      BY <2>1, VerdictType DEF Verdicts, Blocking
    <2> QED BY <1>15, <2>1, <2>2, QueueType DEF TypeOK, CompositeScores, Next1, stage5
  <1> QED BY <1>1, <1>2, <1>3, <1>4, <1>5, <1>6, <1>7, <1>8, <1>9, <1>10, <1>11,
             <1>12, <1>13, <1>14, <1>15 DEF LoopStep

(* Every step of the service keeps the type.                                 *)
LEMMA TypeStep == TypeOK /\ [Next]_vars => TypeOK'
  <1> SUFFICES ASSUME TypeOK, [Next]_vars PROVE TypeOK'
    OBVIOUS
  <1>1. CASE UNCHANGED vars
    BY <1>1 DEF TypeOK, vars, loop, stage5
  <1>2. ASSUME NEW r \in Requests, Arrive(r) PROVE TypeOK'
    <2>1. ready' \in Seq(Requests \X Tasks)
      BY <1>2, QueueType DEF TypeOK, Arrive, Tasks
    <2>2. before' \in [Requests -> SUBSET Requests]
      BY <1>2 DEF TypeOK, Arrive, Answered
    <2> QED BY <1>2, <2>1, <2>2 DEF TypeOK, Arrive, stage5
  <1>3. ASSUME NEW r \in Requests, LoopStep(r) PROVE TypeOK'
    BY <1>3, LoopType
  <1>4. ASSUME NEW r \in Requests, OpaReplies(r) PROVE TypeOK'
    <2>1. ready' \in Seq(Requests \X Tasks)
      BY <1>4, QueueType DEF TypeOK, OpaReplies, Tasks, Scored
    <2>2. task' \in [Requests -> [Scored -> TaskState]]
      BY <1>4 DEF TypeOK, OpaReplies, TaskState, Scored
    <2> QED BY <1>4, <2>1, <2>2 DEF TypeOK, OpaReplies, stage5
  <1>5. ASSUME NEW r \in Requests, RedisReplies(r) PROVE TypeOK'
    <2>1. ready' \in Seq(Requests \X Tasks)
      BY <1>5, QueueType DEF TypeOK, RedisReplies, Tasks, Scored
    <2>2. task' \in [Requests -> [Scored -> TaskState]]
      BY <1>5 DEF TypeOK, RedisReplies, TaskState, Scored
    <2>3. /\ recorded' \in SUBSET Requests
          /\ seen' \in [Requests -> SUBSET Requests]
          /\ flooded' \in [Requests -> BOOLEAN]
      BY <1>5 DEF TypeOK, RedisReplies, RoundTrip
    <2> QED BY <1>5, <2>1, <2>2, <2>3 DEF TypeOK, RedisReplies
  <1>6. ASSUME NEW r \in Requests, RedisFails(r) PROVE TypeOK'
    <2>1. ready' \in Seq(Requests \X Tasks)
      BY <1>6, QueueType DEF TypeOK, RedisFails, Tasks, Scored
    <2>2. task' \in [Requests -> [Scored -> TaskState]]
      BY <1>6 DEF TypeOK, RedisFails, TaskState, Scored
    <2>3. recorded' \in SUBSET Requests
      BY <1>6 DEF TypeOK, RedisFails
    <2> QED BY <1>6, <2>1, <2>2, <2>3 DEF TypeOK, RedisFails
  <1>7. ASSUME NEW r \in Requests, OrphanRecords(r) PROVE TypeOK'
    BY <1>7 DEF TypeOK, OrphanRecords, loop
  <1>8. ASSUME NEW r \in Requests, Stage5Timer(r) PROVE TypeOK'
    <2>1. ready' \in Seq(Requests \X Tasks)
      BY <1>8, QueueType DEF TypeOK, Stage5Timer, Tasks, Scored
    <2>2. task' \in [Requests -> [Scored -> TaskState]]
      BY <1>8 DEF TypeOK, Stage5Timer, TaskState, Scored
    <2>3. job' \in [Requests -> {"none", "flying", "failed", "orphan"}]
      BY <1>8 DEF TypeOK, Stage5Timer, Abandoned
    <2> QED BY <1>8, <2>1, <2>2, <2>3 DEF TypeOK, Stage5Timer
  <1> QED BY <1>1, <1>2, <1>3, <1>4, <1>5, <1>6, <1>7, <1>8 DEF Next, Redis

THEOREM TypeCorrect == Spec => []TypeOK
  BY TypeInit, TypeStep, PTL DEF Spec

-----------------------------------------------------------------------------
(* Composite blocks.                                                         *)

(* Two votes are cast by two different stages.                               *)
LEMMA TwoVoters ==
  ASSUME NEW sc \in StageScores, VoteCount(sc) >= 2
  PROVE  \E s, t \in Voters(sc) : s # t
  <1> DEFINE v2 == Vote(sc.s2) v3 == Vote(sc.s3) v4 == Vote(sc.s4) v5 == Vote(sc.s5)
  <1>1. v2 \in 0..1 /\ v3 \in 0..1 /\ v4 \in 0..1 /\ v5 \in 0..1
    BY VoteType DEF StageScores
  <1>2. v2 + v3 + v4 + v5 >= 2
    BY DEF VoteCount
  <1>3. /\ v2 = 1 => "s2" \in Voters(sc)
        /\ v3 = 1 => "s3" \in Voters(sc)
        /\ v4 = 1 => "s4" \in Voters(sc)
        /\ v5 = 1 => "s5" \in Voters(sc)
    BY DEF Vote, Voters, Scored
  <1> HIDE DEF v2, v3, v4, v5
  <1>4. \/ v2 = 1 /\ v3 = 1
        \/ v2 = 1 /\ v4 = 1
        \/ v2 = 1 /\ v5 = 1
        \/ v3 = 1 /\ v4 = 1
        \/ v3 = 1 /\ v5 = 1
        \/ v4 = 1 /\ v5 = 1
    BY <1>1, <1>2, SMT
  <1> QED BY <1>3, <1>4

(* What the composite invariants rest on: an answer carries the verdict of   *)
(* the sub-scores it reports; a sub-score exists only for a finished stage,  *)
(* and none before the tasks are created, so a stage never returns twice.    *)
AnswerInv ==
  \A r \in Requests :
    /\ result[r] # NoResult /\ result[r].verdict # "block_stage1" =>
         result[r].verdict = Verdict(result[r].scores)
    /\ ev[r] \in {"idle", "queued"} =>
         out[r] = NoScores /\ \A s \in Scored : task[r][s] = "none"
    /\ out[r].s2 # None => task[r].s2 = "done"
    /\ result[r].verdict = "block_short_circuit" => out[r].s2 >= ShortCircuit

LEMMA AnswerInit == Init => AnswerInv
  BY DEF Init, AnswerInv, NoResult, NoScores

(* A step that returns no sub-score and gives no answer.                     *)
LEMMA AnswerQuiet ==
  ASSUME AnswerInv, UNCHANGED <<out, result>>,
         \A q \in Requests : ev'[q] \in {"idle", "queued"} =>
           ev[q] \in {"idle", "queued"} /\ task'[q] = task[q],
         \A q \in Requests : task[q].s2 = "done" => task'[q].s2 = "done"
  PROVE  AnswerInv'
  BY DEF AnswerInv

(* A returning stage returns for the first time.                             *)
LEMMA AnswerReturn ==
  ASSUME TypeOK, AnswerInv, NEW r \in Requests, NEW s \in Scored, NEW x \in Score,
         task[r][s] \in {"ready", "replied"}, Return(r, s, x)
  PROVE  AnswerInv'
  <1>1. ev[r] \notin {"idle", "queued"}
    BY DEF AnswerInv
  <1>2. /\ result' = result /\ ev' = ev
        /\ \A q \in Requests \ {r} : task'[q] = task[q] /\ out'[q] = out[q]
    BY DEF Return, TypeOK
  <1>3. CASE s = "s2"
    <2>1. task'[r].s2 = "done"
      BY <1>3 DEF Return, TypeOK, Scored
    <2>2. task[r].s2 # "done"
      BY <1>3
    <2>3. result[r].verdict # "block_short_circuit"
      BY <2>2, SMT DEF AnswerInv, ShortCircuit, None
    <2> QED BY <1>1, <1>2, <2>1, <2>3 DEF AnswerInv
  <1>4. CASE s # "s2"
    <2>1. task'[r].s2 = task[r].s2 /\ out'[r].s2 = out[r].s2
      BY <1>4 DEF Return, TypeOK, Scored, StageScores
    <2> QED BY <1>1, <1>2, <2>1 DEF AnswerInv
  <1> QED BY <1>3, <1>4

(* The verdict of an answer that no stage but stage 2 contributed to.        *)
LEMMA ShortCircuitVerdict ==
  ASSUME NEW x \in Score, x >= ShortCircuit
  PROVE  Verdict([NoScores EXCEPT !.s2 = x]) = "block_short_circuit"
  BY DEF Verdict, NoScores, Eff, Score, None, ShortCircuit

LEMMA AnswerStep == TypeOK /\ AnswerInv /\ [Next]_vars => AnswerInv'
  <1> SUFFICES ASSUME TypeOK, AnswerInv, [Next]_vars PROVE AnswerInv'
    OBVIOUS
  <1>1. CASE UNCHANGED vars
    BY <1>1 DEF AnswerInv, vars, loop
  <1>2. ASSUME NEW r \in Requests, Arrive(r) PROVE AnswerInv'
    BY <1>2, AnswerQuiet DEF Arrive, TypeOK
  <1>3. ASSUME NEW r \in Requests, OpaReplies(r) PROVE AnswerInv'
    BY <1>3 DEF OpaReplies, TypeOK, AnswerInv, Scored
  <1>4. ASSUME NEW r \in Requests, Redis(r) PROVE AnswerInv'
    <2>1. CASE RedisReplies(r)
      BY <2>1 DEF RedisReplies, TypeOK, AnswerInv, Scored
    <2>2. CASE RedisFails(r)
      BY <2>2 DEF RedisFails, TypeOK, AnswerInv, Scored
    <2>3. CASE OrphanRecords(r)
      BY <2>3 DEF OrphanRecords, loop, TypeOK, AnswerInv, Scored
    <2> QED BY <1>4, <2>1, <2>2, <2>3 DEF Redis
  <1>5. ASSUME NEW r \in Requests, Stage5Timer(r) PROVE AnswerInv'
    BY <1>5 DEF Stage5Timer, TypeOK, AnswerInv, Scored
  <1>6. ASSUME NEW r \in Requests, LoopStep(r) PROVE AnswerInv'
    <2>1. CASE Stage1Rejects(r)
      BY <2>1 DEF Stage1Rejects, TypeOK, AnswerInv
    <2>2. CASE CreateTasks(r)
      BY <2>2 DEF CreateTasks, TypeOK, AnswerInv, NoScores, Scored
    <2>3. CASE RunStage2(r)
      BY <2>3, AnswerReturn, PipelineAssumption DEF RunStage2, Scored
    <2>4. CASE RunStage3(r)
      BY <2>4 DEF RunStage3, TypeOK, AnswerInv, Scored
    <2>5. CASE Stage3Returns(r)
      <3>1. PICK x \in Score : Return(r, "s3", x)
        BY <2>5, OpaScores DEF Stage3Returns
      <3> QED BY <2>5, <3>1, AnswerReturn DEF Stage3Returns, Scored
    <2>6. CASE RunStage4(r)
      BY <2>6, AnswerReturn, PipelineAssumption DEF RunStage4, Scored
    <2>7. CASE Stage5Suspended(r)
      BY <2>7, AnswerReturn DEF Stage5Suspended, Scored, Score, None
    <2>8. CASE StartStage5(r)
      BY <2>8 DEF StartStage5, TypeOK, AnswerInv, Scored
    <2>9. CASE Stage5GivesUp(r)
      BY <2>9, AnswerReturn DEF Stage5GivesUp, Scored, Score, None
    <2>10. CASE Stage5Continues(r)
      BY <2>10 DEF Stage5Continues, TypeOK, AnswerInv, Scored
    <2>11. CASE Stage5Scores(r)
      <3>1. PICK x \in Score : x = BehavioralScore(r)
        BY BehavioralType
      <3> QED BY <2>11, <3>1, AnswerReturn DEF Stage5Scores, Scored
    <2>12. CASE \E s \in Scored : Unwind(r, s)
      BY <2>12 DEF Unwind, AnswerInv
    <2>13. CASE ShortCircuits(r)
      <3>1. out[r].s2 \in Score
        BY DEF TypeOK, StageScores
      <3>2. result' = [result EXCEPT ![r] =
                        [verdict |-> "block_short_circuit",
                         scores |-> [NoScores EXCEPT !.s2 = out[r].s2]]]
        BY <2>13, <3>1, ShortCircuitVerdict DEF ShortCircuits
      <3>3. \A q \in Requests : task[q].s2 = "done" => task'[q].s2 = "done"
        BY <2>13 DEF ShortCircuits, TypeOK, Scored
      <3>4. Verdict([NoScores EXCEPT !.s2 = out[r].s2]) = "block_short_circuit"
        BY <2>13, <3>1, ShortCircuitVerdict DEF ShortCircuits
      <3> QED BY <2>13, <3>2, <3>3, <3>4 DEF ShortCircuits, TypeOK, AnswerInv
    <2>14. CASE AwaitNext(r)
      BY <2>14 DEF AwaitNext, TypeOK, AnswerInv, Scored
    <2>15. CASE CompositeScores(r)
      <3>1. Verdict(out[r]) = "block_short_circuit" => out[r].s2 >= ShortCircuit
        BY SMT DEF Verdict, CompositeVerdict, Eff, ShortCircuit
      <3> QED BY <2>15, <3>1 DEF CompositeScores, TypeOK, AnswerInv
    <2> QED BY <1>6, <2>1, <2>2, <2>3, <2>4, <2>5, <2>6, <2>7, <2>8, <2>9, <2>10,
               <2>11, <2>12, <2>13, <2>14, <2>15 DEF LoopStep
  <1> QED BY <1>1, <1>2, <1>3, <1>4, <1>5, <1>6 DEF Next

LEMMA AnswerCorrect == Spec => []AnswerInv
  BY TypeCorrect, AnswerInit, AnswerStep, PTL DEF Spec

(* README.md:74 for every schedule: no composite block without two voters,   *)
(* and the only single-signal block is a Stage 2 score of 0.95 or more.      *)
THEOREM CompositeBlocksCorroborated == Spec => []CompositeNeedsTwoVoters
  <1>1. TypeOK /\ AnswerInv => CompositeNeedsTwoVoters
    <2> SUFFICES ASSUME TypeOK, AnswerInv, NEW r \in Requests
                 PROVE  /\ result[r].verdict = "block" =>
                              \E s, t \in Voters(result[r].scores) : s # t
                        /\ result[r].verdict = "block_short_circuit" =>
                              out[r].s2 >= ShortCircuit
      BY DEF CompositeNeedsTwoVoters
    <2>1. ASSUME result[r].verdict = "block"
          PROVE  \E s, t \in Voters(result[r].scores) : s # t
      <3> DEFINE sc == result[r].scores
      <3>1. sc \in StageScores
        BY DEF TypeOK
      <3>2. Verdict(sc) = "block"
        BY <2>1 DEF AnswerInv, NoResult
      <3>3. CompositeVerdict(sc) = "block"
        BY <3>2 DEF Verdict
      <3>4. VoteCount(sc) >= 2
        BY <3>1, <3>3, TwoVotesToBlock
      <3> QED BY <3>1, <3>4, TwoVoters
    <2> QED BY <2>1 DEF AnswerInv
  <1> QED BY <1>1, TypeCorrect, AnswerCorrect, PTL

(* scoring/model.py:34-36 for every schedule and every score.                *)
THEOREM DegradationSafe == Spec => []DegradationNeverEscalates
  <1>1. TypeOK /\ AnswerInv => DegradationNeverEscalates
    <2> SUFFICES ASSUME TypeOK, AnswerInv, NEW r \in Answered, NEW s \in Scored,
                        result[r].verdict # "block_stage1"
                 PROVE  Severity(Verdict(Degraded(result[r].scores, s)))
                          <= Severity(result[r].verdict)
      BY DEF DegradationNeverEscalates
    <2>1. r \in Requests /\ result[r] # NoResult
      BY DEF Answered
    <2>2. result[r].verdict = Verdict(result[r].scores)
      BY <2>1 DEF AnswerInv
    <2>3. result[r].scores \in StageScores
      BY <2>1 DEF TypeOK
    <2> QED BY <2>2, <2>3, DegradedVerdict DEF Scored
  <1> QED BY <1>1, TypeCorrect, AnswerCorrect, PTL

-----------------------------------------------------------------------------
(* The gate of stage 1.                                                      *)

(* The registry is within the policy: what stage 1 lets pass, the role may.  *)
LEMMA TablesAgree ==
  ASSUME NEW c, NEW t, Identified(c, t), t # NoName
  PROVE  t \in RoleTools(c.role)
  <1>1. /\ c.agent \in Registered /\ RegisteredRole(c.agent) = c.role
        /\ t \in Envelope(c.agent)
    BY DEF Identified
  <1>2. CASE c.agent = "financeflow-research"
    <2>1. c.role = "research"
      BY <1>1, <1>2 DEF RegisteredRole
    <2> QED BY <1>1, <1>2, <2>1 DEF Envelope, RoleTools
  <1>3. CASE c.agent = "financeflow-data"
    <2>1. c.role = "data"
      BY <1>1, <1>3 DEF RegisteredRole
    <2> QED BY <1>1, <1>3, <2>1 DEF Envelope, RoleTools
  <1>4. CASE c.agent = "financeflow-admin"
    <2>1. c.role = "admin"
      BY <1>1, <1>4 DEF RegisteredRole
    <2> QED BY <1>1, <1>4, <2>1 DEF Envelope, RoleTools
  <1> QED BY <1>1, <1>2, <1>3, <1>4 DEF Registered

(* A call that is not identified never gets past the gate: no task, no       *)
(* thread, no entry, and no answer but that of stage 1.                      *)
GateInv ==
  \A r \in Requests : ~Identified(caller[r], tool[r]) =>
    /\ ev[r] \in {"idle", "queued", "done"}
    /\ \A s \in Scored : task[r][s] = "none"
    /\ job[r] = "none"
    /\ result[r].verdict \in {"none", "block_stage1"}
    /\ r \notin recorded

LEMMA GateInit == Init => GateInv
  BY DEF Init, GateInv, NoResult

(* A step on behalf of a call that is identified leaves the others alone.    *)
LEMMA GateFrame ==
  ASSUME GateInv, NEW r \in Requests, Identified(caller[r], tool[r]),
         UNCHANGED <<caller, tool>>,
         \A q \in Requests \ {r} :
           /\ ev'[q] = ev[q] /\ task'[q] = task[q] /\ job'[q] = job[q]
           /\ result'[q] = result[q] /\ (q \in recorded' => q \in recorded)
  PROVE  GateInv'
  BY DEF GateInv

(* A task or a thread at work, or a stage awaited, is of an identified call. *)
LEMMA GateWork ==
  ASSUME GateInv, NEW r \in Requests,
         \/ \E s \in Scored : task[r][s] # "none"
         \/ job[r] # "none"
         \/ ev[r] \in Scored
  PROVE  Identified(caller[r], tool[r])
  BY DEF GateInv, Scored

LEMMA GateStep == TypeOK /\ GateInv /\ [Next]_vars => GateInv'
  <1> SUFFICES ASSUME TypeOK, GateInv, [Next]_vars PROVE GateInv'
    OBVIOUS
  <1>1. CASE UNCHANGED vars
    BY <1>1 DEF GateInv, vars, loop, stage5
  <1>2. ASSUME NEW r \in Requests, Arrive(r) PROVE GateInv'
    BY <1>2 DEF Arrive, GateInv, TypeOK, stage5
  <1>3. ASSUME NEW r \in Requests, OpaReplies(r) PROVE GateInv'
    <2>1. Identified(caller[r], tool[r])
      BY <1>3, GateWork DEF OpaReplies, Scored
    <2> QED BY <1>3, <2>1, GateFrame DEF OpaReplies, TypeOK, stage5
  <1>4. ASSUME NEW r \in Requests, Redis(r) PROVE GateInv'
    <2>1. Identified(caller[r], tool[r])
      BY <1>4, GateWork DEF Redis, RedisReplies, RedisFails, OrphanRecords
    <2>2. CASE RedisReplies(r)
      BY <2>1, <2>2, GateFrame DEF RedisReplies, RoundTrip, TypeOK
    <2>3. CASE RedisFails(r)
      BY <2>1, <2>3, GateFrame DEF RedisFails, TypeOK
    <2>4. CASE OrphanRecords(r)
      BY <2>1, <2>4, GateFrame DEF OrphanRecords, loop, TypeOK
    <2> QED BY <1>4, <2>2, <2>3, <2>4 DEF Redis
  <1>5. ASSUME NEW r \in Requests, Stage5Timer(r) PROVE GateInv'
    <2>1. Identified(caller[r], tool[r])
      BY <1>5, GateWork DEF Stage5Timer, Scored
    <2> QED BY <1>5, <2>1, GateFrame DEF Stage5Timer, TypeOK
  <1>6. ASSUME NEW r \in Requests, LoopStep(r) PROVE GateInv'
    <2>1. CASE Stage1Rejects(r)
      BY <2>1 DEF Stage1Rejects, GateInv, TypeOK, stage5
    <2>2. CASE CreateTasks(r)
      BY <2>2, GateFrame DEF CreateTasks, TypeOK, stage5
    <2>3. ASSUME NEW s \in Scored, NEW x, task[r][s] # "none", Return(r, s, x),
                 UNCHANGED stage5
          PROVE  GateInv'
      <3>1. Identified(caller[r], tool[r])
        BY <2>3, GateWork
      <3> QED BY <2>3, <3>1, GateFrame DEF Return, TypeOK, stage5
    <2>4. CASE RunStage2(r)
      BY <2>3, <2>4 DEF RunStage2, Scored
    <2>5. CASE RunStage3(r)
      <3>1. Identified(caller[r], tool[r])
        BY <2>5, GateWork DEF RunStage3, Scored
      <3> QED BY <2>5, <3>1, GateFrame DEF RunStage3, TypeOK, stage5
    <2>6. CASE Stage3Returns(r)
      BY <2>3, <2>6 DEF Stage3Returns, Scored
    <2>7. CASE RunStage4(r)
      BY <2>3, <2>7 DEF RunStage4, Scored
    <2>8. CASE Stage5Suspended(r)
      BY <2>3, <2>8 DEF Stage5Suspended, Scored
    <2>9. CASE StartStage5(r) \/ Stage5Continues(r)
      <3>1. Identified(caller[r], tool[r])
        BY <2>9, GateWork DEF StartStage5, Stage5Continues, Scored
      <3> QED BY <2>9, <3>1, GateFrame DEF StartStage5, Stage5Continues, TypeOK
    <2>10. CASE Stage5GivesUp(r)
      BY <2>3, <2>10 DEF Stage5GivesUp, Scored
    <2>11. CASE Stage5Scores(r)
      BY <2>3, <2>11 DEF Stage5Scores, Scored
    <2>12. CASE \E s \in Scored : Unwind(r, s)
      BY <2>12 DEF Unwind, GateInv, stage5
    <2>13. CASE ShortCircuits(r) \/ AwaitNext(r) \/ CompositeScores(r)
      <3>1. Identified(caller[r], tool[r])
        BY <2>13, GateWork DEF ShortCircuits, AwaitNext, CompositeScores, Scored
      <3> QED BY <2>13, <3>1, GateFrame
              DEF ShortCircuits, AwaitNext, CompositeScores, TypeOK, stage5
    <2> QED BY <1>6, <2>1, <2>2, <2>4, <2>5, <2>6, <2>7, <2>8, <2>9, <2>10, <2>11,
               <2>12, <2>13 DEF LoopStep
  <1> QED BY <1>1, <1>2, <1>3, <1>4, <1>5, <1>6 DEF Next

(* What the role policy denies is not allowed and not recorded: the registry *)
(* is within the policy and its gate holds, whatever OPA answers.            *)
THEOREM DenialHolds == Spec => []DeniedIsNeverAllowed
  <1>1. TypeOK /\ GateInv => DeniedIsNeverAllowed
    <2> SUFFICES ASSUME TypeOK, GateInv, NEW r \in Requests,
                        tool[r] \notin RoleTools(caller[r].role)
                 PROVE  result[r].verdict # "allow" /\ r \notin recorded
      BY DEF DeniedIsNeverAllowed
    <2>1. tool[r] # NoName
      BY PipelineAssumption DEF TypeOK
    <2>2. ~Identified(caller[r], tool[r])
      BY <2>1, TablesAgree
    <2> QED BY <2>2 DEF GateInv
  <1> QED BY <1>1, TypeCorrect, GateInit, GateStep, PTL DEF Spec

-----------------------------------------------------------------------------
(* What the engine is given.                                                 *)

\* Step e is in the queue q, and in it once at most.
Queued(q, e) == \E i \in DOMAIN q : q[i] = e
Once(q, e)   == \A i, j \in DOMAIN q : q[i] = e /\ q[j] = e => i = j

LEMMA AppendQueue ==
  ASSUME NEW S, NEW q \in Seq(S), NEW x \in S, NEW e
  PROVE  /\ Queued(Append(q, x), e) <=> Queued(q, e) \/ x = e
         /\ Once(q, e) /\ (x # e \/ ~Queued(q, e)) => Once(Append(q, x), e)
<1>1. DOMAIN Append(q, x) = 1..(Len(q) + 1) /\ DOMAIN q = 1..Len(q) /\ Len(q) \in Nat
  OBVIOUS
<1>2. \A i \in 1..Len(q) : Append(q, x)[i] = q[i]
  OBVIOUS
<1>3. Append(q, x)[Len(q) + 1] = x
  OBVIOUS
<1>4. \A i \in 1..(Len(q) + 1) : i \in 1..Len(q) \/ i = Len(q) + 1
  BY <1>1
<1>5. Queued(Append(q, x), e) <=> Queued(q, e) \/ x = e
  <2>1. Len(q) + 1 \in 1..(Len(q) + 1) /\ \A i \in 1..Len(q) : i \in 1..(Len(q) + 1)
    BY <1>1
  <2>2. QED
    BY <1>1, <1>2, <1>3, <1>4, <2>1 DEF Queued
<1>6. Once(q, e) /\ (x # e \/ ~Queued(q, e)) => Once(Append(q, x), e)
  BY <1>1, <1>2, <1>3, <1>4 DEF Once, Queued
<1>7. QED
  BY <1>5, <1>6

LEMMA TailQueue ==
  ASSUME NEW S, NEW q \in Seq(S), q # <<>>, NEW e
  PROVE  /\ Queued(Tail(q), e) => Queued(q, e)
         /\ Once(q, e) => Once(Tail(q), e)
         /\ Once(q, e) /\ Head(q) = e => ~Queued(Tail(q), e)
         /\ Head(q) = e => Queued(q, e)
<1>1. /\ DOMAIN q = 1..Len(q) /\ Len(q) \in Nat \ {0} /\ DOMAIN Tail(q) = 1..(Len(q) - 1)
      /\ Head(q) = q[1]
  OBVIOUS
<1>2. \A i \in 1..(Len(q) - 1) : Tail(q)[i] = q[i + 1] /\ i + 1 \in 1..Len(q) /\ i + 1 # 1
  BY <1>1
<1>3. \A i, j \in 1..(Len(q) - 1) : i + 1 = j + 1 => i = j
  BY <1>1
<1>4. 1 \in 1..Len(q)
  BY <1>1
<1>5. Queued(Tail(q), e) => Queued(q, e)
  BY <1>1, <1>2 DEF Queued
<1>6. Once(q, e) => Once(Tail(q), e)
  BY <1>1, <1>2, <1>3 DEF Once
<1>7. Once(q, e) /\ Head(q) = e => ~Queued(Tail(q), e)
  BY <1>1, <1>2, <1>4 DEF Once, Queued
<1>8. Head(q) = e => Queued(q, e)
  BY <1>1, <1>4 DEF Queued
<1>9. QED
  BY <1>5, <1>6, <1>7, <1>8

\* The event queue after a step that wakes no evaluate(), and after one that
\* wakes that of r.
Wakes(r) ==
  \A q \in Requests :
    /\ Once(ready, <<q, "ev">>) /\ (q # r \/ ~Queued(ready, <<q, "ev">>)) => Once(ready', <<q, "ev">>)
    /\ Queued(ready', <<q, "ev">>) => q = r \/ Queued(ready, <<q, "ev">>)

WakesNone ==
  \A q \in Requests :
    /\ Once(ready, <<q, "ev">>) => Once(ready', <<q, "ev">>)
    /\ Queued(ready', <<q, "ev">>) => Queued(ready, <<q, "ev">>)

LEMMA FourQueued ==
  ASSUME NEW S, NEW q \in Seq(S), NEW a \in S, NEW b \in S, NEW c \in S, NEW d \in S, NEW e,
         e # a, e # b, e # c, e # d
  PROVE  /\ Queued(q \o <<a, b, c, d>>, e) => Queued(q, e)
         /\ Once(q, e) => Once(q \o <<a, b, c, d>>, e)
<1> DEFINE p == q \o <<a, b, c, d>>
<1>1. /\ Len(q) \in Nat /\ DOMAIN q = 1..Len(q) /\ DOMAIN p = 1..(Len(q) + 4)
      /\ \A i \in 1..Len(q) : p[i] = q[i]
      /\ p[Len(q) + 1] = a /\ p[Len(q) + 2] = b /\ p[Len(q) + 3] = c /\ p[Len(q) + 4] = d
  OBVIOUS
<1> HIDE DEF p
<1>2. ASSUME NEW i \in DOMAIN p, p[i] = e
      PROVE  i \in DOMAIN q /\ q[i] = e
  <2>1. i \in 1..Len(q) \/ i = Len(q) + 1 \/ i = Len(q) + 2 \/ i = Len(q) + 3 \/ i = Len(q) + 4
    BY <1>1, <1>2
  <2>2. QED
    BY <1>1, <1>2, <2>1
<1>3. Queued(p, e) => Queued(q, e)
  BY <1>2 DEF Queued
<1>4. Once(q, e) => Once(p, e)
  BY <1>2 DEF Once
<1>5. QED
  BY <1>3, <1>4 DEF p

\* The four stages are queued behind the rest.
LEMMA StagesQueued ==
  ASSUME TypeOK, NEW r \in Requests, Next1(r, "ev"),
         ready' = Tail(ready) \o <<<<r, "s2">>, <<r, "s3">>, <<r, "s4">>, <<r, "s5">>>>
  PROVE  WakesNone /\ (Once(ready, <<r, "ev">>) => ~Queued(ready', <<r, "ev">>))
<1> DEFINE S == Requests \X Tasks
<1>1. /\ ready \in Seq(S) /\ Tail(ready) \in Seq(S) /\ ready # <<>> /\ Head(ready) = <<r, "ev">>
      /\ <<r, "s2">> \in S /\ <<r, "s3">> \in S /\ <<r, "s4">> \in S /\ <<r, "s5">> \in S
  BY DEF TypeOK, Next1, Tasks, Scored
<1> HIDE DEF S
<1>2. PICK q \in Seq(S) : q = Tail(ready)
  BY <1>1
<1>3. PICK a \in S, b \in S, c \in S, d \in S :
        a = <<r, "s2">> /\ b = <<r, "s3">> /\ c = <<r, "s4">> /\ d = <<r, "s5">>
  BY <1>1
<1>4. ready' = q \o <<a, b, c, d>>
  BY <1>2, <1>3
<1>5. ASSUME NEW p \in Requests
      PROVE  /\ Queued(ready', <<p, "ev">>) => Queued(q, <<p, "ev">>)
             /\ Once(q, <<p, "ev">>) => Once(ready', <<p, "ev">>)
  <2>1. PICK e : e = <<p, "ev">>
    OBVIOUS
  <2>2. e # a /\ e # b /\ e # c /\ e # d
    BY <1>3, <2>1
  <2>3. /\ Queued(q \o <<a, b, c, d>>, e) => Queued(q, e)
        /\ Once(q, e) => Once(q \o <<a, b, c, d>>, e)
    BY <2>2, FourQueued
  <2>4. QED
    BY <1>4, <2>1, <2>3
<1>6. ASSUME NEW p \in Requests
      PROVE  /\ Queued(q, <<p, "ev">>) => Queued(ready, <<p, "ev">>)
             /\ Once(ready, <<p, "ev">>) => Once(q, <<p, "ev">>)
             /\ Once(ready, <<p, "ev">>) /\ p = r => ~Queued(q, <<p, "ev">>)
  BY <1>1, <1>2, TailQueue
<1>7. QED
  BY <1>5, <1>6 DEF WakesNone

\* A step leaves the queue and another one may follow it.
LEMMA StepQueued ==
  ASSUME TypeOK, NEW r \in Requests, NEW t \in Tasks
  PROVE  /\ t # "ev" /\ ready' = Append(ready, <<r, t>>) => WakesNone
         /\ ready' = Append(ready, <<r, "ev">>) => Wakes(r)
         /\ ready # <<>> /\ ready' = Tail(ready) => WakesNone
         /\ Next1(r, "ev") /\ ready' = Tail(ready) /\ Once(ready, <<r, "ev">>)
              => ~Queued(ready', <<r, "ev">>)
         /\ ready # <<>> /\ ready' = Append(Tail(ready), <<r, "ev">>) => Wakes(r)
<1> DEFINE S == Requests \X Tasks
<1>1. ready \in Seq(S) /\ <<r, t>> \in S /\ <<r, "ev">> \in S /\ (ready # <<>> => Tail(ready) \in Seq(S))
  BY DEF TypeOK, Tasks
<1> HIDE DEF S
<1>2. ASSUME t # "ev", ready' = Append(ready, <<r, t>>) PROVE WakesNone
  <2>1. \A p \in Requests : <<r, t>> # <<p, "ev">>
    BY <1>2
  <2>2. QED
    BY <1>1, <1>2, <2>1, AppendQueue DEF WakesNone
<1>3. ASSUME ready' = Append(ready, <<r, "ev">>) PROVE Wakes(r)
  <2>1. ASSUME NEW p \in Requests
        PROVE  /\ Once(ready, <<p, "ev">>) /\ (p # r \/ ~Queued(ready, <<p, "ev">>)) => Once(ready', <<p, "ev">>)
               /\ Queued(ready', <<p, "ev">>) => p = r \/ Queued(ready, <<p, "ev">>)
    <3>1. <<r, "ev">> = <<p, "ev">> <=> p = r
      OBVIOUS
    <3>2. QED
      BY <1>1, <1>3, <3>1, AppendQueue
  <2>2. QED
    BY <2>1 DEF Wakes
<1>4. ASSUME ready # <<>>, ready' = Tail(ready) PROVE WakesNone
  BY <1>1, <1>4, TailQueue DEF WakesNone
<1>5. ASSUME Next1(r, "ev"), ready' = Tail(ready), Once(ready, <<r, "ev">>)
      PROVE  ~Queued(ready', <<r, "ev">>)
  BY <1>1, <1>5, TailQueue DEF Next1
<1>6. ASSUME ready # <<>>, ready' = Append(Tail(ready), <<r, "ev">>) PROVE Wakes(r)
  <2>1. PICK q \in Seq(S) : q = Tail(ready)
    BY <1>1, <1>6
  <2>2. ASSUME NEW p \in Requests
        PROVE  /\ Once(ready, <<p, "ev">>) /\ (p # r \/ ~Queued(ready, <<p, "ev">>)) => Once(ready', <<p, "ev">>)
               /\ Queued(ready', <<p, "ev">>) => p = r \/ Queued(ready, <<p, "ev">>)
    <3>1. <<r, "ev">> = <<p, "ev">> <=> p = r
      OBVIOUS
    <3>2. /\ Queued(q, <<p, "ev">>) => Queued(ready, <<p, "ev">>)
          /\ Once(ready, <<p, "ev">>) => Once(q, <<p, "ev">>)
      BY <1>1, <1>6, <2>1, TailQueue
    <3>3. /\ Queued(ready', <<p, "ev">>) <=> Queued(q, <<p, "ev">>) \/ p = r
          /\ Once(q, <<p, "ev">>) /\ (p # r \/ ~Queued(q, <<p, "ev">>)) => Once(ready', <<p, "ev">>)
      BY <1>1, <1>6, <2>1, <3>1, AppendQueue
    <3>4. QED
      BY <3>2, <3>3
  <2>3. QED
    BY <2>2 DEF Wakes
<1>7. QED
  BY <1>2, <1>3, <1>4, <1>5, <1>6

(* Why evaluate() never reads a stage that has not returned: the step that   *)
(* wakes it is queued once, and only when the stage it awaits is done.       *)
WakeInv ==
  \A r \in Requests :
    /\ Once(ready, <<r, "ev">>)
    /\ ev[r] = "idle" => ~Queued(ready, <<r, "ev">>)
    /\ ev[r] \in Scored /\ Queued(ready, <<r, "ev">>) => task[r][ev[r]] = "done"
    /\ ev[r] \in {"s3", "s4", "s5"} => task[r].s2 = "done"
    /\ ev[r] # "done" => result[r] = NoResult
    /\ result[r].verdict \notin {"none", "block_stage1", "block_short_circuit"} =>
         (\A s \in Scored : task[r][s] = "done") /\ result[r].scores = out[r]

LEMMA WakeInit == Init => WakeInv
<1> SUFFICES ASSUME Init PROVE WakeInv
  OBVIOUS
<1>1. ready = <<>> /\ \A r \in Requests : ev[r] = "idle" /\ result[r] = NoResult
  BY DEF Init
<1>2. \A e : ~Queued(<<>>, e) /\ Once(<<>>, e)
  BY DEF Queued, Once
<1>3. QED
  BY <1>1, <1>2 DEF WakeInv, NoResult, Scored

(* A step on behalf of r that wakes no evaluate(), and loses no finished     *)
(* stage.                                                                    *)
LEMMA WakeQuiet ==
  ASSUME WakeInv, WakesNone, UNCHANGED <<ev, result, out>>,
         \A q \in Requests, s \in Scored : task[q][s] = "done" => task'[q][s] = "done"
  PROVE  WakeInv'
  BY DEF WakeInv, WakesNone, Scored

(* A stage that returns wakes evaluate() when it is the one awaited.         *)
LEMMA WakeReturn ==
  ASSUME TypeOK, WakeInv, NEW r \in Requests, NEW s \in Scored, NEW x, ready # <<>>,
         task[r][s] \in {"ready", "replied"}, Return(r, s, x)
  PROVE  WakeInv'
<1>1. /\ task'[r][s] = "done"
      /\ \A t \in Scored : task[r][t] = "done" => task'[r][t] = "done"
      /\ \A q \in Requests \ {r} : task'[q] = task[q] /\ out'[q] = out[q]
      /\ ev' = ev /\ result' = result
  BY DEF Return, TypeOK
<1>2. result[r].verdict \in {"none", "block_stage1", "block_short_circuit"}
  BY DEF WakeInv
<1>3. ready \in Seq(Requests \X Tasks) /\ Tail(ready) \in Seq(Requests \X Tasks)
  BY DEF TypeOK
<1>4. \A q \in Requests :
        /\ ev'[q] \in {"s3", "s4", "s5"} => task'[q].s2 = "done"
        /\ ev'[q] # "done" => result'[q] = NoResult
        /\ result'[q].verdict \notin {"none", "block_stage1", "block_short_circuit"} =>
             (\A t \in Scored : task'[q][t] = "done") /\ result'[q].scores = out'[q]
  <2>1. \A q \in Requests : ev'[q] \in {"s3", "s4", "s5"} => task'[q].s2 = "done"
    <3>1. \A q \in Requests : task[q].s2 = "done" => task'[q].s2 = "done"
      BY <1>1 DEF Scored
    <3>2. QED
      BY <1>1, <3>1 DEF WakeInv
  <2>2. \A q \in Requests : ev'[q] # "done" => result'[q] = NoResult
    BY <1>1 DEF WakeInv
  <2>3. ASSUME NEW q \in Requests,
               result'[q].verdict \notin {"none", "block_stage1", "block_short_circuit"}
        PROVE  (\A t \in Scored : task'[q][t] = "done") /\ result'[q].scores = out'[q]
    <3>1. q # r /\ result'[q] = result[q]
      BY <1>1, <1>2, <2>3
    <3>2. (\A t \in Scored : task[q][t] = "done") /\ result[q].scores = out[q]
      BY <2>3, <3>1 DEF WakeInv
    <3>3. task'[q] = task[q] /\ out'[q] = out[q]
      BY <1>1, <3>1
    <3>4. QED
      BY <3>1, <3>2, <3>3
  <2>4. QED
    BY <2>1, <2>2, <2>3
<1>5. CASE ev[r] = s
  <2>1. ready' = Append(Tail(ready), <<r, "ev">>)
    <3>1. <<r, "ev">> \in Requests \X Tasks
      BY DEF Tasks
    <3>2. ready' = Tail(ready) \o <<<<r, "ev">>>>
      BY <1>5 DEF Return
    <3>3. QED
      BY <1>3, <3>1, <3>2
  <2>2. Wakes(r)
    BY <2>1, StepQueued DEF Tasks
  <2>3. ~Queued(ready, <<r, "ev">>)
    BY <1>5 DEF WakeInv
  <2>4. \A q \in Requests : Once(ready, <<q, "ev">>)'
    BY <2>2, <2>3 DEF WakeInv, Wakes
  <2>5. \A q \in Requests : ev'[q] = "idle" => ~Queued(ready', <<q, "ev">>)
    BY <1>1, <1>5, <2>2 DEF WakeInv, Wakes, Scored
  <2>6. \A q \in Requests : ev'[q] \in Scored /\ Queued(ready', <<q, "ev">>) => task'[q][ev'[q]] = "done"
    BY <1>1, <1>5, <2>2 DEF WakeInv, Wakes
  <2>7. QED
    BY <1>4, <2>4, <2>5, <2>6 DEF WakeInv
<1>6. CASE ev[r] # s
  <2>1. ready' = Tail(ready)
    <3>1. ready' = Tail(ready) \o <<>>
      BY <1>6 DEF Return
    <3>2. QED
      BY <1>3, <3>1
  <2>2. WakesNone
    BY <2>1, StepQueued DEF Tasks
  <2>3. \A q \in Requests : ev'[q] \in Scored /\ Queued(ready', <<q, "ev">>) => task'[q][ev'[q]] = "done"
    BY <1>1, <1>6, <2>2 DEF WakeInv, WakesNone
  <2>4. QED
    BY <1>1, <1>4, <2>2, <2>3 DEF WakeInv, WakesNone
<1>7. QED
  BY <1>5, <1>6

(* evaluate() runs: the step that woke it has left the queue, and it awaits  *)
(* a stage, or has an answer.                                                *)
LEMMA WakeMoves ==
  ASSUME TypeOK, WakeInv, NEW r \in Requests, WakesNone, ~Queued(ready', <<r, "ev">>),
         UNCHANGED out,
         \A q \in Requests \ {r} :
           ev'[q] = ev[q] /\ task'[q] = task[q] /\ result'[q] = result[q],
         ev'[r] \in {"s3", "s4", "s5"} => task'[r].s2 = "done",
         ev'[r] # "done" => result'[r] = NoResult,
         \/ result'[r].verdict \in {"none", "block_stage1", "block_short_circuit"}
         \/ (\A s \in Scored : task'[r][s] = "done") /\ result'[r].scores = out[r]
  PROVE  WakeInv'
<1>1. ASSUME NEW q \in Requests \ {r}
      PROVE  /\ Once(ready, <<q, "ev">>)'
             /\ ev'[q] = "idle" => ~Queued(ready', <<q, "ev">>)
             /\ ev'[q] \in Scored /\ Queued(ready', <<q, "ev">>) => task'[q][ev'[q]] = "done"
             /\ ev'[q] \in {"s3", "s4", "s5"} => task'[q].s2 = "done"
             /\ ev'[q] # "done" => result'[q] = NoResult
             /\ result'[q].verdict \notin {"none", "block_stage1", "block_short_circuit"} =>
                  (\A s \in Scored : task'[q][s] = "done") /\ result'[q].scores = out'[q]
  BY DEF WakeInv, WakesNone
<1>2. Once(ready, <<r, "ev">>)'
  BY DEF WakeInv, WakesNone
<1>3. QED
  BY <1>1, <1>2 DEF WakeInv

(* evaluate() awaits a stage in turn: once it runs, stage 2 is done.         *)
LEMMA Awoken ==
  ASSUME TypeOK, WakeInv, NEW r \in Requests, ev[r] \in Scored, Next1(r, "ev")
  PROVE  task[r].s2 = "done"
<1>1. ready # <<>> /\ ready \in Seq(Requests \X Tasks)
  BY DEF Next1, TypeOK
<1>2. Queued(ready, <<r, "ev">>)
  BY <1>1, TailQueue DEF Next1
<1>3. QED
  BY <1>2 DEF WakeInv, Scored

LEMMA WakeStep == TypeOK /\ AnswerInv /\ WakeInv /\ [Next]_vars => WakeInv'
<1> SUFFICES ASSUME TypeOK, AnswerInv, WakeInv, [Next]_vars PROVE WakeInv'
  OBVIOUS
<1>1. CASE UNCHANGED vars
  BY <1>1 DEF WakeInv, vars, loop
<1>2. ASSUME NEW r \in Requests, Arrive(r) PROVE WakeInv'
  <2>1. Wakes(r)
    BY <1>2, StepQueued DEF Arrive, Tasks
  <2>2. ev[r] = "idle" /\ ~Queued(ready, <<r, "ev">>) /\ ev'[r] = "queued"
    BY <1>2 DEF Arrive, WakeInv, TypeOK
  <2>3. (\A q \in Requests \ {r} : ev'[q] = ev[q]) /\ UNCHANGED <<task, result, out>>
    BY <1>2 DEF Arrive, TypeOK
  <2>4. \A q \in Requests : Once(ready, <<q, "ev">>)'
    BY <2>1, <2>2 DEF WakeInv, Wakes
  <2>5. QED
    BY <2>1, <2>2, <2>3, <2>4 DEF WakeInv, Wakes, Scored
<1>3. ASSUME NEW r \in Requests, OpaReplies(r) PROVE WakeInv'
  <2>1. WakesNone
    BY <1>3, StepQueued DEF OpaReplies, Tasks, Scored
  <2>2. QED
    BY <1>3, <2>1, WakeQuiet DEF OpaReplies, TypeOK
<1>4. ASSUME NEW r \in Requests, Redis(r) PROVE WakeInv'
  <2>1. CASE RedisReplies(r)
    <3>1. WakesNone
      BY <2>1, StepQueued DEF RedisReplies, Tasks, Scored
    <3>2. QED
      BY <2>1, <3>1, WakeQuiet DEF RedisReplies, TypeOK
  <2>2. CASE RedisFails(r)
    <3>1. WakesNone
      BY <2>2, StepQueued DEF RedisFails, Tasks, Scored
    <3>2. QED
      BY <2>2, <3>1, WakeQuiet DEF RedisFails, TypeOK
  <2>3. CASE OrphanRecords(r)
    BY <2>3 DEF OrphanRecords, loop, WakeInv
  <2>4. QED
    BY <1>4, <2>1, <2>2, <2>3 DEF Redis
<1>5. ASSUME NEW r \in Requests, Stage5Timer(r) PROVE WakeInv'
  <2>1. WakesNone
    BY <1>5, StepQueued DEF Stage5Timer, Tasks, Scored, WakesNone
  <2>2. QED
    BY <1>5, <2>1, WakeQuiet DEF Stage5Timer, TypeOK
<1>6. ASSUME NEW r \in Requests, LoopStep(r) PROVE WakeInv'
  <2>1. ready # <<>>
    BY <1>6 DEF LoopStep, Stage1Rejects, CreateTasks, RunStage2, RunStage3, Stage3Returns, RunStage4,
                Stage5Suspended, StartStage5, Stage5GivesUp, Stage5Continues, Stage5Scores, Unwind,
                ShortCircuits, AwaitNext, CompositeScores, Next1
  <2>2. ready' = Tail(ready) => WakesNone
    BY <2>1, StepQueued DEF Tasks
  <2>3. Next1(r, "ev") /\ ready' = Tail(ready) => ~Queued(ready', <<r, "ev">>)
    BY StepQueued DEF WakeInv, Tasks
  <2>4. CASE Stage1Rejects(r)
    <3>1. result'[r].verdict = "block_stage1" /\ ev'[r] = "done"
      BY <2>4 DEF Stage1Rejects, TypeOK
    <3>2. QED
      BY <2>2, <2>3, <2>4, <3>1, WakeMoves DEF Stage1Rejects, TypeOK
  <2>5. CASE CreateTasks(r)
    <3>1. WakesNone /\ ~Queued(ready', <<r, "ev">>)
      BY <2>5, StagesQueued DEF CreateTasks, WakeInv
    <3>2. ev'[r] = "s2" /\ ev[r] = "queued"
      BY <2>5 DEF CreateTasks, TypeOK
    <3>3. result'[r] = NoResult
      BY <2>5, <3>2 DEF CreateTasks, WakeInv
    <3>4. /\ UNCHANGED <<result, out>>
          /\ \A q \in Requests \ {r} : ev'[q] = ev[q] /\ task'[q] = task[q]
      BY <2>5 DEF CreateTasks, TypeOK
    <3>5. result'[r].verdict = "none"
      BY <3>3 DEF NoResult
    <3>6. QED
      BY <3>1, <3>2, <3>3, <3>4, <3>5, WakeMoves
  <2>6. CASE RunStage2(r)
    BY <2>1, <2>6, WakeReturn DEF RunStage2, Scored
  <2>7. CASE RunStage3(r)
    BY <2>2, <2>7, WakeQuiet DEF RunStage3, TypeOK
  <2>8. CASE Stage3Returns(r)
    BY <2>1, <2>8, WakeReturn DEF Stage3Returns, Scored
  <2>9. CASE RunStage4(r)
    BY <2>1, <2>9, WakeReturn DEF RunStage4, Scored
  <2>10. CASE Stage5Suspended(r)
    BY <2>1, <2>10, WakeReturn DEF Stage5Suspended, Scored
  <2>11. CASE StartStage5(r)
    BY <2>2, <2>11, WakeQuiet DEF StartStage5, TypeOK
  <2>12. CASE Stage5GivesUp(r)
    BY <2>1, <2>12, WakeReturn DEF Stage5GivesUp, Scored
  <2>13. CASE Stage5Continues(r)
    BY <2>2, <2>13, WakeQuiet DEF Stage5Continues, TypeOK
  <2>14. CASE Stage5Scores(r)
    BY <2>1, <2>14, WakeReturn DEF Stage5Scores, Scored
  <2>15. CASE \E s \in Scored : Unwind(r, s)
    BY <2>2, <2>15, WakeQuiet DEF Unwind
  <2>16. CASE ShortCircuits(r)
    <3>1. ev'[r] = "done" /\ ready' = Tail(ready) /\ UNCHANGED out
      BY <2>16 DEF ShortCircuits, TypeOK
    <3>2. out[r].s2 \in Score /\ out[r].s2 >= ShortCircuit
      BY <2>16 DEF ShortCircuits, TypeOK, StageScores
    <3>3. result'[r].verdict = "block_short_circuit"
      BY <2>16, <3>2, ShortCircuitVerdict DEF ShortCircuits, TypeOK
    <3>4. \A q \in Requests \ {r} : ev'[q] = ev[q] /\ task'[q] = task[q] /\ result'[q] = result[q]
      BY <2>16 DEF ShortCircuits, TypeOK
    <3>5. ~Queued(ready', <<r, "ev">>)
      BY <2>3, <2>16, <3>1 DEF ShortCircuits
    <3>6. QED
      BY <2>2, <3>1, <3>3, <3>4, <3>5, WakeMoves
  <2>17. CASE AwaitNext(r)
    <3>1. ev'[r] \in Scored /\ ev[r] # "done"
      BY <2>17 DEF AwaitNext, TypeOK, Scored
    <3>2. task'[r].s2 = "done"
      BY <2>17, Awoken DEF AwaitNext
    <3>3. result'[r] = NoResult
      BY <2>17, <3>1 DEF AwaitNext, WakeInv
    <3>4. QED
      BY <2>2, <2>3, <2>17, <3>2, <3>3, WakeMoves DEF AwaitNext, TypeOK, NoResult
  <2>18. CASE CompositeScores(r)
    <3>1. task[r].s2 = "done"
      BY <2>18, Awoken DEF CompositeScores
    <3>2. \A s \in Scored : task'[r][s] = "done"
      BY <2>18, <3>1 DEF CompositeScores, Unfinished, Scored
    <3>3. result'[r].scores = out[r] /\ ev'[r] = "done" /\ ready' = Tail(ready) /\ UNCHANGED out
      BY <2>18 DEF CompositeScores, TypeOK
    <3>4. \A q \in Requests \ {r} : ev'[q] = ev[q] /\ task'[q] = task[q] /\ result'[q] = result[q]
      BY <2>18 DEF CompositeScores, TypeOK
    <3>5. ~Queued(ready', <<r, "ev">>)
      BY <2>3, <2>18, <3>3 DEF CompositeScores
    <3>6. QED
      BY <2>2, <3>2, <3>3, <3>4, <3>5, WakeMoves
  <2>19. QED
    BY <1>6, <2>4, <2>5, <2>6, <2>7, <2>8, <2>9, <2>10, <2>11, <2>12, <2>13, <2>14, <2>15, <2>16,
       <2>17, <2>18 DEF LoopStep
<1>7. QED
  BY <1>1, <1>2, <1>3, <1>4, <1>5, <1>6 DEF Next

LEMMA WakeCorrect == Spec => []WakeInv
  BY TypeCorrect, AnswerCorrect, WakeInit, WakeStep, PTL DEF Spec

(* The engine is given exactly what the four stages returned, for every      *)
(* order in which they finish, time out or fail.                             *)
THEOREM EveryStageUsed == Spec => []AnswerUsesEveryStage
<1>1. TypeOK /\ AnswerInv /\ WakeInv => AnswerUsesEveryStage
  <2> SUFFICES ASSUME TypeOK, AnswerInv, WakeInv, NEW r \in Answered,
                      result[r].verdict \notin {"block_stage1", "block_short_circuit"}
               PROVE  (\A s \in Scored : task[r][s] = "done") /\ result[r].scores = out[r]
    BY DEF AnswerUsesEveryStage
  <2>1. r \in Requests /\ result[r] # NoResult /\ result[r].scores \in StageScores
    BY DEF Answered, TypeOK
  <2>2. result[r].verdict = Verdict(result[r].scores)
    BY <2>1 DEF AnswerInv
  <2>3. result[r].verdict # "none"
    BY <2>1, <2>2, VerdictType
  <2>4. QED
    BY <2>1, <2>3 DEF WakeInv
<1>2. QED
  BY <1>1, TypeCorrect, AnswerCorrect, WakeCorrect, PTL

-----------------------------------------------------------------------------
(* What stage 5 sees of the session.                                         *)

\* Stage 5 of r has come back from round trip n.
Made(r, n) == hop[r] > n \/ (hop[r] = n /\ task[r].s5 = "replied" /\ ~timed[r] /\ job[r] # "failed")

\* The calls of the past of r that stage 5 scored.
Past(r) == {q \in before[r] : out[q].s5 # None}

\* The calls that stage 5 has stamped.
Stamped == {stamped[i] : i \in DOMAIN stamped}

\* What a step on behalf of another request leaves of q.
Same(q) ==
  /\ result'[q] = result[q] /\ out'[q] = out[q] /\ before'[q] = before[q]
  /\ hop'[q] = hop[q] /\ task'[q] = task[q] /\ job'[q] = job[q]
  /\ timed'[q] = timed[q] /\ seen'[q] = seen[q]

(* A step touches one request only, but for the session's history.           *)
LEMMA OthersSame ==
  ASSUME TypeOK, NEW r \in Requests,
         Arrive(r) \/ LoopStep(r) \/ OpaReplies(r) \/ Redis(r) \/ Stage5Timer(r)
  PROVE  /\ \A q \in Requests \ {r} : Same(q)
         /\ UNCHANGED <<caller, tool>>
         /\ recorded' = recorded \/ recorded' = recorded \cup {r}
         /\ stamped' = stamped \/ StartStage5(r)
<1>1. CASE Arrive(r)
  BY <1>1 DEF Arrive, TypeOK, Same, stage5
<1>2. CASE OpaReplies(r)
  BY <1>2 DEF OpaReplies, TypeOK, Same, stage5
<1>3. CASE RedisReplies(r)
  BY <1>3 DEF RedisReplies, RoundTrip, TypeOK, Same
<1>4. CASE RedisFails(r)
  BY <1>4 DEF RedisFails, TypeOK, Same
<1>5. CASE OrphanRecords(r)
  BY <1>5 DEF OrphanRecords, loop, TypeOK, Same
<1>6. CASE Stage5Timer(r)
  BY <1>6 DEF Stage5Timer, TypeOK, Same
<1>7. ASSUME NEW s \in Scored, NEW x, Return(r, s, x), UNCHANGED stage5
      PROVE  /\ \A q \in Requests \ {r} : Same(q)
             /\ UNCHANGED <<caller, tool, recorded, stamped>>
  BY <1>7 DEF Return, TypeOK, Same, stage5
<1>8. CASE LoopStep(r)
  <2>1. CASE Stage1Rejects(r)
    BY <2>1 DEF Stage1Rejects, TypeOK, Same, stage5
  <2>2. CASE CreateTasks(r)
    BY <2>2 DEF CreateTasks, TypeOK, Same, stage5
  <2>3. CASE RunStage2(r) \/ Stage3Returns(r) \/ RunStage4(r) \/ Stage5Suspended(r)
             \/ Stage5GivesUp(r) \/ Stage5Scores(r)
    BY <1>7, <2>3 DEF RunStage2, Stage3Returns, RunStage4, Stage5Suspended, Stage5GivesUp,
                      Stage5Scores, Scored
  <2>4. CASE RunStage3(r)
    BY <2>4 DEF RunStage3, TypeOK, Same, stage5
  <2>5. CASE StartStage5(r)
    BY <2>5 DEF StartStage5, TypeOK, Same
  <2>6. CASE Stage5Continues(r)
    BY <2>6 DEF Stage5Continues, TypeOK, Same
  <2>7. CASE \E s \in Scored : Unwind(r, s)
    BY <2>7 DEF Unwind, Same, stage5
  <2>8. CASE ShortCircuits(r)
    BY <2>8 DEF ShortCircuits, TypeOK, Same
  <2>9. CASE AwaitNext(r) \/ CompositeScores(r)
    BY <2>9 DEF AwaitNext, CompositeScores, TypeOK, Same, stage5
  <2>10. QED
    BY <1>8, <2>1, <2>2, <2>3, <2>4, <2>5, <2>6, <2>7, <2>8, <2>9 DEF LoopStep
<1>9. QED
  BY <1>1, <1>2, <1>3, <1>4, <1>5, <1>6, <1>8 DEF Redis

LEMMA StampedGrows ==
  ASSUME TypeOK, NEW r \in Requests, stamped' = Append(stamped, r)
  PROVE  /\ Stamped' = Stamped \cup {r}
         /\ Len(stamped) \in Nat /\ DOMAIN stamped = 1..Len(stamped)
         /\ DOMAIN stamped' = 1..(Len(stamped) + 1)
         /\ \A i \in DOMAIN stamped : stamped'[i] = stamped[i]
         /\ stamped'[Len(stamped) + 1] = r
<1>1. /\ Len(stamped) \in Nat /\ DOMAIN stamped = 1..Len(stamped)
      /\ DOMAIN stamped' = 1..(Len(stamped) + 1)
      /\ \A i \in DOMAIN stamped : stamped'[i] = stamped[i]
      /\ stamped'[Len(stamped) + 1] = r
  BY DEF TypeOK
<1>2. \A i \in DOMAIN stamped' : i \in DOMAIN stamped \/ i = Len(stamped) + 1
  BY <1>1
<1>3. Len(stamped) + 1 \in DOMAIN stamped' /\ \A i \in DOMAIN stamped : i \in DOMAIN stamped'
  BY <1>1
<1>4. Stamped' = Stamped \cup {r}
  BY <1>1, <1>2, <1>3 DEF Stamped
<1>5. QED
  BY <1>1, <1>4

(* Where stage 5 of r is: an answered call has no stage left to run, and a   *)
(* score for its behaviour took all three round trips, the recording first.  *)
RoundOf(r) ==
  /\ result[r] # NoResult => \A s \in Scored : task[r][s] \in {"none", "done", "cancelled"}
  /\ task[r].s5 \in {"none", "ready"} => hop[r] = 0
  /\ task[r].s5 \in {"waiting", "replied"} => hop[r] > 0
  /\ hop[r] > 0 <=> r \in Stamped
  /\ out[r].s5 # None => hop[r] = 3 /\ task[r].s5 = "done"
  /\ Made(r, 1) => r \in recorded

RoundInv == \A r \in Requests : RoundOf(r)

LEMMA RoundInit == Init => RoundInv
<1> SUFFICES ASSUME Init, NEW r \in Requests PROVE RoundOf(r)
  BY DEF RoundInv
<1>1. /\ result[r] = NoResult /\ hop[r] = 0 /\ out[r] = NoScores /\ task[r].s5 = "none"
      /\ stamped = <<>>
  BY DEF Init, Scored
<1>2. out[r].s5 = None
  BY <1>1 DEF NoScores
<1>3. r \notin Stamped
  BY <1>1 DEF Stamped
<1>4. ~Made(r, 1)
  BY <1>1 DEF Made
<1>5. QED
  BY <1>1, <1>2, <1>3, <1>4 DEF RoundOf

LEMMA RoundFrame ==
  ASSUME RoundInv, NEW r \in Requests, \A q \in Requests \ {r} : Same(q), RoundOf(r)',
         recorded' = recorded \/ recorded' = recorded \cup {r},
         Stamped' = Stamped \/ Stamped' = Stamped \cup {r}
  PROVE  RoundInv'
<1> SUFFICES ASSUME NEW q \in Requests \ {r} PROVE RoundOf(q)'
  BY DEF RoundInv
<1>1. RoundOf(q) /\ Same(q)
  BY DEF RoundInv
<1>2. (q \in Stamped' <=> q \in Stamped) /\ (q \in recorded' <=> q \in recorded)
  OBVIOUS
<1>3. Made(q, 1)' <=> Made(q, 1)
  BY <1>1 DEF Made, Same
<1>4. QED
  BY <1>1, <1>2, <1>3 DEF RoundOf, Same

(* A returning stage returns before the answer.                              *)
LEMMA RoundReturn ==
  ASSUME TypeOK, RoundInv, NEW r \in Requests, NEW s \in Scored, NEW x,
         task[r][s] \in {"ready", "replied"}, Return(r, s, x), UNCHANGED stage5,
         s = "s5" => x = None \/ hop[r] = 3
  PROVE  RoundOf(r)' /\ result'[r] = NoResult
<1>1. RoundOf(r)
  BY DEF RoundInv
<1>2. result'[r] = NoResult /\ result[r] = NoResult
  BY <1>1 DEF RoundOf, Return
<1>3. /\ UNCHANGED <<hop, job, timed, stamped, recorded>> /\ Stamped' = Stamped
      /\ task'[r][s] = "done" /\ out'[r].s5 = IF s = "s5" THEN x ELSE out[r].s5
      /\ task'[r].s5 = IF s = "s5" THEN "done" ELSE task[r].s5
  BY DEF Return, TypeOK, stage5, Stamped, Scored, StageScores
<1>4. Made(r, 1)' => Made(r, 1)
  BY <1>3 DEF Made
<1>5. QED
  BY <1>1, <1>2, <1>3, <1>4 DEF RoundOf

LEMMA RoundLoop ==
  ASSUME TypeOK, AnswerInv, WakeInv, RoundInv, NEW r \in Requests, LoopStep(r)
  PROVE  RoundOf(r)' /\ (Stamped' = Stamped \/ Stamped' = Stamped \cup {r})
<1>0. RoundOf(r)
  BY DEF RoundInv
<1>1. stamped' = stamped => Stamped' = Stamped
  BY DEF Stamped
<1>2. CASE Stage1Rejects(r)
  <2>1. UNCHANGED <<task, out, hop, job, timed, stamped, recorded>> /\ Stamped' = Stamped
    BY <1>1, <1>2 DEF Stage1Rejects, stage5
  <2>2. \A s \in Scored : task[r][s] = "none"
    BY <1>2 DEF Stage1Rejects, AnswerInv
  <2>3. Made(r, 1)' <=> Made(r, 1)
    BY <2>1 DEF Made
  <2>4. QED
    BY <1>0, <2>1, <2>2, <2>3 DEF RoundOf
<1>3. CASE CreateTasks(r)
  <2>1. UNCHANGED <<result, out, hop, job, timed, stamped, recorded>> /\ Stamped' = Stamped
    BY <1>1, <1>3 DEF CreateTasks, stage5
  <2>2. task[r].s5 = "none" /\ result[r] = NoResult /\ task'[r].s5 = "ready"
    BY <1>3 DEF CreateTasks, AnswerInv, WakeInv, Scored, TypeOK
  <2>3. Made(r, 1)' => Made(r, 1)
    BY <2>1, <2>2 DEF Made
  <2>4. QED
    BY <1>0, <2>1, <2>2, <2>3 DEF RoundOf
<1>4. CASE RunStage2(r) \/ Stage3Returns(r) \/ RunStage4(r) \/ Stage5Suspended(r)
           \/ Stage5GivesUp(r) \/ Stage5Scores(r)
  <2>1. RoundOf(r)'
    BY <1>4, RoundReturn DEF RunStage2, Stage3Returns, RunStage4, Stage5Suspended, Stage5GivesUp,
                             Stage5Scores, Scored
  <2>2. stamped' = stamped
    BY <1>4 DEF RunStage2, Stage3Returns, RunStage4, Stage5Suspended, Stage5GivesUp, Stage5Scores,
                stage5
  <2>3. QED
    BY <1>1, <2>1, <2>2
<1>5. CASE RunStage3(r)
  <2>1. UNCHANGED <<result, out, hop, job, timed, stamped, recorded>> /\ Stamped' = Stamped
    BY <1>1, <1>5 DEF RunStage3, stage5
  <2>2. result[r] = NoResult /\ task'[r].s5 = task[r].s5
    BY <1>0, <1>5 DEF RunStage3, RoundOf, TypeOK, Scored
  <2>3. Made(r, 1)' <=> Made(r, 1)
    BY <2>1, <2>2 DEF Made
  <2>4. QED
    BY <1>0, <2>1, <2>2, <2>3 DEF RoundOf
<1>6. CASE StartStage5(r)
  <2>1. UNCHANGED <<result, out, recorded>> /\ Stamped' = Stamped \cup {r}
    BY <1>6, StampedGrows DEF StartStage5
  <2>2. hop'[r] = 1 /\ task'[r].s5 = "waiting" /\ result[r] = NoResult /\ out[r].s5 = None
    BY <1>0, <1>6 DEF StartStage5, RoundOf, TypeOK, Scored
  <2>3. ~Made(r, 1)'
    BY <2>2 DEF Made
  <2>4. QED
    BY <2>1, <2>2, <2>3 DEF RoundOf
<1>7. CASE Stage5Continues(r)
  <2>1. UNCHANGED <<result, out, stamped, recorded>> /\ Stamped' = Stamped
    BY <1>1, <1>7 DEF Stage5Continues
  <2>2. /\ hop'[r] = hop[r] + 1 /\ task'[r].s5 = "waiting" /\ hop[r] \in 0..3
        /\ task[r].s5 = "replied" /\ ~timed[r] /\ job[r] # "failed"
    BY <1>7 DEF Stage5Continues, TypeOK, Scored
  <2>3. result[r] = NoResult /\ out[r].s5 = None
    BY <1>0, <2>2 DEF RoundOf, Scored
  <2>4. hop[r] > 0 => Made(r, 1)
    BY <2>2 DEF Made
  <2>5. hop[r] > 0
    BY <1>0, <2>2 DEF RoundOf
  <2>6. QED
    BY <1>0, <2>1, <2>2, <2>3, <2>4, <2>5 DEF RoundOf
<1>8. CASE \E s \in Scored : Unwind(r, s)
  <2>1. UNCHANGED <<result, task, out, hop, job, timed, stamped, recorded>> /\ Stamped' = Stamped
    BY <1>1, <1>8 DEF Unwind, stage5
  <2>2. Made(r, 1)' <=> Made(r, 1)
    BY <2>1 DEF Made
  <2>3. QED
    BY <1>0, <2>1, <2>2 DEF RoundOf
<1>9. CASE ShortCircuits(r)
  <2>1. UNCHANGED <<out, hop, stamped, recorded>> /\ Stamped' = Stamped
    BY <1>1, <1>9 DEF ShortCircuits
  <2>2. \A s \in Scored : task'[r][s] = IF task[r][s] = "done" THEN "done" ELSE "cancelled"
    BY <1>9 DEF ShortCircuits, TypeOK
  <2>3. Made(r, 1)' => Made(r, 1)
    BY <2>1, <2>2 DEF Made, Scored
  <2>4. QED
    BY <1>0, <2>1, <2>2, <2>3 DEF RoundOf, Scored
<1>10. CASE AwaitNext(r)
  <2>1. UNCHANGED <<result, task, out, hop, job, timed, stamped, recorded>> /\ Stamped' = Stamped
    BY <1>1, <1>10 DEF AwaitNext, stage5
  <2>2. Made(r, 1)' <=> Made(r, 1)
    BY <2>1 DEF Made
  <2>3. QED
    BY <1>0, <2>1, <2>2 DEF RoundOf
<1>11. CASE CompositeScores(r)
  <2>1. UNCHANGED <<task, out, hop, job, timed, stamped, recorded>> /\ Stamped' = Stamped
    BY <1>1, <1>11 DEF CompositeScores, stage5
  <2>2. Made(r, 1)' <=> Made(r, 1)
    BY <2>1 DEF Made
  <2>3. \A s \in Scored : task[r][s] = "done"
    BY <1>11, Awoken DEF CompositeScores, Unfinished, Scored
  <2>4. QED
    BY <1>0, <2>1, <2>2, <2>3 DEF RoundOf
<1>12. QED
  BY <1>2, <1>3, <1>4, <1>5, <1>6, <1>7, <1>8, <1>9, <1>10, <1>11 DEF LoopStep

LEMMA RoundStep ==
  ASSUME TypeOK, AnswerInv, WakeInv, RoundInv, [Next]_vars
  PROVE  RoundInv'
<1>1. CASE UNCHANGED vars
  BY <1>1 DEF RoundInv, RoundOf, Stamped, Made, vars, loop, stage5
<1>2. ASSUME NEW r \in Requests,
             RoundOf(r)', Stamped' = Stamped \/ Stamped' = Stamped \cup {r},
             Arrive(r) \/ LoopStep(r) \/ OpaReplies(r) \/ Redis(r) \/ Stage5Timer(r)
      PROVE  RoundInv'
  <2>1. /\ \A q \in Requests \ {r} : Same(q)
        /\ recorded' = recorded \/ recorded' = recorded \cup {r}
    BY <1>2, OthersSame
  <2>2. QED
    BY <1>2, <2>1, RoundFrame
<1>3. ASSUME NEW r \in Requests, LoopStep(r) PROVE RoundInv'
  BY <1>2, <1>3, RoundLoop
<1>4. ASSUME NEW r \in Requests, Arrive(r) PROVE RoundInv'
  <2>1. UNCHANGED <<result, task, out, hop, job, timed, stamped, recorded>> /\ Stamped' = Stamped
    BY <1>4 DEF Arrive, stage5, Stamped
  <2>2. Made(r, 1)' <=> Made(r, 1)
    BY <2>1 DEF Made
  <2>3. RoundOf(r)'
    BY <2>1, <2>2 DEF RoundInv, RoundOf
  <2>4. QED
    BY <1>2, <1>4, <2>1, <2>3
<1>5. ASSUME NEW r \in Requests, OpaReplies(r) PROVE RoundInv'
  <2>1. UNCHANGED <<result, out, hop, job, timed, stamped, recorded>> /\ Stamped' = Stamped
    BY <1>5 DEF OpaReplies, stage5, Stamped
  <2>2. RoundOf(r)
    BY DEF RoundInv
  <2>3. result[r] = NoResult /\ task'[r].s5 = task[r].s5
    BY <1>5, <2>2 DEF OpaReplies, RoundOf, TypeOK, Scored
  <2>4. Made(r, 1)' <=> Made(r, 1)
    BY <2>1, <2>3 DEF Made
  <2>5. RoundOf(r)'
    BY <2>1, <2>2, <2>3, <2>4 DEF RoundOf
  <2>6. QED
    BY <1>2, <1>5, <2>1, <2>5
<1>6. ASSUME NEW r \in Requests, Stage5Timer(r) PROVE RoundInv'
  <2>1. UNCHANGED <<result, out, hop, stamped, recorded>> /\ Stamped' = Stamped
    BY <1>6 DEF Stage5Timer, Stamped
  <2>2. RoundOf(r)
    BY DEF RoundInv
  <2>3. /\ result[r] = NoResult /\ out[r].s5 = None /\ hop[r] > 0
        /\ task'[r].s5 = "replied" /\ timed'[r]
    BY <1>6, <2>2 DEF Stage5Timer, RoundOf, TypeOK, Scored
  <2>4. Made(r, 1)' => Made(r, 1)
    BY <2>1, <2>3 DEF Made
  <2>5. RoundOf(r)'
    BY <2>1, <2>2, <2>3, <2>4 DEF RoundOf
  <2>6. QED
    BY <1>2, <1>6, <2>1, <2>5
<1>7. ASSUME NEW r \in Requests, Redis(r) PROVE RoundInv'
  <2>1. UNCHANGED <<result, out, hop, stamped, timed>> /\ Stamped' = Stamped
    BY <1>7 DEF Redis, RedisReplies, RedisFails, OrphanRecords, loop, Stamped
  <2>2. RoundOf(r)
    BY DEF RoundInv
  <2>3. recorded \subseteq recorded'
    BY <1>7, OthersSame
  <2>4. CASE RedisReplies(r)
    <3>1. /\ result[r] = NoResult /\ out[r].s5 = None /\ hop[r] > 0 /\ task'[r].s5 = "replied"
      BY <2>2, <2>4 DEF RedisReplies, RoundOf, TypeOK, Scored
    <3>2. hop[r] = 1 => r \in recorded'
      BY <2>4 DEF RedisReplies, RoundTrip
    <3>3. hop[r] > 1 => Made(r, 1)
      BY DEF Made
    <3>4. Made(r, 1)' => r \in recorded'
      BY <2>1, <2>2, <2>3, <3>2, <3>3 DEF Made, RoundOf
    <3>5. QED
      BY <1>2, <1>7, <2>1, <2>2, <3>1, <3>4 DEF RoundOf
  <2>5. CASE RedisFails(r)
    <3>1. /\ result[r] = NoResult /\ out[r].s5 = None /\ hop[r] > 0 /\ task'[r].s5 = "replied"
          /\ job'[r] = "failed"
      BY <2>2, <2>5 DEF RedisFails, RoundOf, TypeOK, Scored
    <3>2. Made(r, 1)' => Made(r, 1)
      BY <2>1, <3>1 DEF Made
    <3>3. QED
      BY <1>2, <1>7, <2>1, <2>2, <2>3, <3>1, <3>2 DEF RoundOf
  <2>6. CASE OrphanRecords(r)
    <3>1. UNCHANGED task /\ job[r] # "failed"
      BY <2>6 DEF OrphanRecords, loop
    <3>2. Made(r, 1)' => Made(r, 1)
      BY <2>1, <3>1 DEF Made
    <3>3. QED
      BY <1>2, <1>7, <2>1, <2>2, <2>3, <3>1, <3>2 DEF RoundOf
  <2>7. QED
    BY <1>7, <2>4, <2>5, <2>6 DEF Redis
<1>8. QED
  BY <1>1, <1>3, <1>4, <1>5, <1>6, <1>7 DEF Next

\* What a step does to the past of q, and to what stage 5 of q makes of it.
PastStep(q) ==
  /\ result[q] # NoResult => result'[q] # NoResult /\ out'[q] = out[q] /\ before'[q] = before[q]
  /\ \/ before'[q] = before[q]
     \/ before'[q] = Answered /\ hop[q] = 0 /\ hop'[q] = 0 /\ out'[q] = NoScores
  /\ Made(q, 2)' => seen'[q] = recorded \/ (Made(q, 2) /\ seen'[q] = seen[q])
  /\ out'[q].s5 \in {out[q].s5, None} \/ Stage5Scores(q)
  /\ out'[q].s5 # out[q].s5 => result[q] = NoResult

LEMMA PastSame ==
  ASSUME NEW q \in Requests, Same(q)
  PROVE  PastStep(q)
<1>1. Made(q, 2)' => Made(q, 2)
  BY DEF Made, Same
<1>2. QED
  BY <1>1 DEF PastStep, Same

(* A step on behalf of r that returns no sub-score.                          *)
LEMMA PastQuiet ==
  ASSUME NEW r \in Requests, UNCHANGED <<out, before, seen, hop>>,
         result[r] # NoResult => result'[r] # NoResult,
         Made(r, 2)' => Made(r, 2)
  PROVE  PastStep(r)
  BY DEF PastStep

LEMMA PastReturn ==
  ASSUME TypeOK, RoundInv, NEW r \in Requests, NEW s \in Scored, NEW x,
         task[r][s] \in {"ready", "replied"}, Return(r, s, x), UNCHANGED stage5,
         s = "s5" => x = None \/ Stage5Scores(r)
  PROVE  PastStep(r)
<1>1. UNCHANGED <<before, hop, seen, job, timed>>
  BY DEF Return, stage5
<1>2. result[r] = NoResult
  BY DEF RoundInv, RoundOf
<1>3. out'[r].s5 = IF s = "s5" THEN x ELSE out[r].s5
  BY DEF Return, TypeOK, Scored, StageScores
<1>4. task'[r].s5 = IF s = "s5" THEN "done" ELSE task[r].s5
  BY DEF Return, TypeOK, Scored
<1>5. Made(r, 2)' => Made(r, 2)
  BY <1>1, <1>4 DEF Made
<1>6. out'[r].s5 \in {out[r].s5, None} \/ Stage5Scores(r)
  BY <1>3
<1>7. before'[r] = before[r] /\ seen'[r] = seen[r]
  BY <1>1
<1>8. QED
  BY <1>2, <1>5, <1>6, <1>7 DEF PastStep

LEMMA PastLoop ==
  ASSUME TypeOK, RoundInv, NEW r \in Requests, LoopStep(r)
  PROVE  PastStep(r)
<1>1. CASE Stage1Rejects(r)
  <2>1. UNCHANGED <<out, before, seen, hop, task, job, timed>>
    BY <1>1 DEF Stage1Rejects, stage5
  <2>2. Made(r, 2)' => Made(r, 2)
    BY <2>1 DEF Made
  <2>3. result'[r] # NoResult
    BY <1>1 DEF Stage1Rejects, TypeOK, NoResult
  <2>4. QED
    BY <2>1, <2>2, <2>3, PastQuiet
<1>2. CASE RunStage2(r) \/ Stage3Returns(r) \/ RunStage4(r) \/ Stage5Suspended(r)
           \/ Stage5GivesUp(r) \/ Stage5Scores(r)
  BY <1>2, PastReturn DEF RunStage2, Stage3Returns, RunStage4, Stage5Suspended, Stage5GivesUp,
                          Stage5Scores, Scored
<1>3. CASE CreateTasks(r) \/ RunStage3(r)
  <2>1. UNCHANGED <<out, before, seen, hop, job, timed, result>>
    BY <1>3 DEF CreateTasks, RunStage3, stage5
  <2>2. task'[r].s5 \in {task[r].s5, "ready"}
    BY <1>3 DEF CreateTasks, RunStage3, TypeOK, Scored
  <2>3. Made(r, 2)' => Made(r, 2)
    BY <2>1, <2>2 DEF Made
  <2>4. QED
    BY <2>1, <2>3, PastQuiet
<1>4. CASE StartStage5(r)
  <2>1. UNCHANGED <<out, before, seen, result>> /\ hop'[r] = 1
    BY <1>4 DEF StartStage5, TypeOK
  <2>2. ~Made(r, 2)'
    BY <2>1 DEF Made
  <2>3. QED
    BY <2>1, <2>2 DEF PastStep
<1>5. CASE Stage5Continues(r)
  <2>1. UNCHANGED <<out, before, seen, result>>
    BY <1>5 DEF Stage5Continues
  <2>2. /\ hop'[r] = hop[r] + 1 /\ task'[r].s5 = "waiting" /\ hop[r] \in 0..3
        /\ task[r].s5 = "replied" /\ ~timed[r] /\ job[r] # "failed"
    BY <1>5 DEF Stage5Continues, TypeOK, Scored
  <2>3. Made(r, 2)' => Made(r, 2)
    BY <2>2 DEF Made
  <2>4. QED
    BY <2>1, <2>3 DEF PastStep
<1>6. CASE \E s \in Scored : Unwind(r, s)
  <2>1. UNCHANGED <<out, before, seen, hop, job, timed, result, task>>
    BY <1>6 DEF Unwind, stage5
  <2>2. Made(r, 2)' => Made(r, 2)
    BY <2>1 DEF Made
  <2>3. QED
    BY <2>1, <2>2, PastQuiet
<1>7. CASE ShortCircuits(r)
  <2>1. UNCHANGED <<out, before, seen, hop>>
    BY <1>7 DEF ShortCircuits
  <2>2. task'[r].s5 \in {"done", "cancelled"}
    BY <1>7 DEF ShortCircuits, TypeOK, Scored
  <2>3. Made(r, 2)' => Made(r, 2)
    BY <2>1, <2>2 DEF Made
  <2>4. out[r].s2 \in Score /\ out[r].s2 >= ShortCircuit
    BY <1>7 DEF ShortCircuits, TypeOK, StageScores
  <2>5. result'[r].verdict = "block_short_circuit"
    BY <1>7, <2>4, ShortCircuitVerdict DEF ShortCircuits, TypeOK
  <2>6. QED
    BY <2>1, <2>3, <2>5, PastQuiet DEF NoResult
<1>8. CASE AwaitNext(r)
  <2>1. UNCHANGED <<out, before, seen, hop, job, timed, result, task>>
    BY <1>8 DEF AwaitNext, stage5
  <2>2. Made(r, 2)' => Made(r, 2)
    BY <2>1 DEF Made
  <2>3. QED
    BY <2>1, <2>2, PastQuiet
<1>9. CASE CompositeScores(r)
  <2>1. UNCHANGED <<out, before, seen, hop, job, timed, task>>
    BY <1>9 DEF CompositeScores, stage5
  <2>2. Made(r, 2)' => Made(r, 2)
    BY <2>1 DEF Made
  <2>3. out[r] \in StageScores /\ result'[r].verdict = Verdict(out[r])
    BY <1>9 DEF CompositeScores, TypeOK
  <2>4. result'[r].verdict # "none"
    BY <2>3, VerdictType
  <2>5. QED
    BY <2>1, <2>2, <2>4, PastQuiet DEF NoResult
<1>10. QED
  BY <1>1, <1>2, <1>3, <1>4, <1>5, <1>6, <1>7, <1>8, <1>9 DEF LoopStep

LEMMA PastEach ==
  ASSUME TypeOK, AnswerInv, WakeInv, RoundInv, [Next]_vars
  PROVE  /\ \A q \in Requests : PastStep(q)
         /\ UNCHANGED <<caller, tool>>
         /\ stamped' = stamped \/ \E r \in Requests : result[r] = NoResult /\ stamped' = Append(stamped, r)
<1>1. CASE UNCHANGED vars
  <2>1. \A q \in Requests : Same(q)
    BY <1>1 DEF vars, loop, stage5, Same
  <2>2. QED
    BY <1>1, <2>1, PastSame DEF vars, stage5
<1>2. ASSUME NEW r \in Requests, PastStep(r),
             Arrive(r) \/ LoopStep(r) \/ OpaReplies(r) \/ Redis(r) \/ Stage5Timer(r)
      PROVE  /\ \A q \in Requests : PastStep(q)
             /\ UNCHANGED <<caller, tool>>
             /\ stamped' = stamped \/ \E p \in Requests : result[p] = NoResult /\ stamped' = Append(stamped, p)
  <2>1. /\ \A q \in Requests \ {r} : Same(q)
        /\ UNCHANGED <<caller, tool>>
        /\ stamped' = stamped \/ StartStage5(r)
    BY <1>2, OthersSame
  <2>2. StartStage5(r) => result[r] = NoResult /\ stamped' = Append(stamped, r)
    BY DEF StartStage5, RoundInv, RoundOf, Scored
  <2>3. QED
    BY <1>2, <2>1, <2>2, PastSame
<1>3. ASSUME NEW r \in Requests, Arrive(r) PROVE PastStep(r)
  <2>1. UNCHANGED <<result, out, seen, hop, task, job, timed>> /\ before'[r] = Answered
    BY <1>3 DEF Arrive, stage5, TypeOK
  <2>2. out[r] = NoScores /\ task[r].s5 = "none" /\ result[r] = NoResult
    BY <1>3 DEF Arrive, AnswerInv, WakeInv, Scored
  <2>3. hop[r] = 0
    BY <2>2 DEF RoundInv, RoundOf
  <2>4. ~Made(r, 2)'
    BY <2>1, <2>3 DEF Made
  <2>5. QED
    BY <2>1, <2>2, <2>3, <2>4 DEF PastStep
<1>4. ASSUME NEW r \in Requests, OpaReplies(r) PROVE PastStep(r)
  <2>1. UNCHANGED <<result, out, before, seen, hop, job, timed>> /\ task'[r].s5 = task[r].s5
    BY <1>4 DEF OpaReplies, stage5, TypeOK, Scored
  <2>2. Made(r, 2)' => Made(r, 2)
    BY <2>1 DEF Made
  <2>3. QED
    BY <2>1, <2>2, PastQuiet
<1>5. ASSUME NEW r \in Requests, Stage5Timer(r) PROVE PastStep(r)
  <2>1. UNCHANGED <<result, out, before, seen, hop>> /\ timed'[r]
    BY <1>5 DEF Stage5Timer, TypeOK
  <2>2. Made(r, 2)' => Made(r, 2)
    BY <2>1 DEF Made
  <2>3. QED
    BY <2>1, <2>2, PastQuiet
<1>6. ASSUME NEW r \in Requests, Redis(r) PROVE PastStep(r)
  <2>1. CASE RedisReplies(r)
    <3>1. UNCHANGED <<result, out, before, hop, timed>>
      BY <2>1 DEF RedisReplies
    <3>2. (hop[r] = 2 /\ seen'[r] = recorded) \/ (hop[r] # 2 /\ seen'[r] = seen[r])
      <4>1. \/ hop[r] = 2 /\ seen' = [seen EXCEPT ![r] = recorded]
            \/ hop[r] \in {1, 3} /\ seen' = seen
        BY <2>1 DEF RedisReplies, RoundTrip
      <4>2. QED
        BY <4>1 DEF TypeOK
    <3>3. Made(r, 2)' => hop[r] = 2 \/ Made(r, 2)
      BY <3>1 DEF Made
    <3>4. QED
      BY <3>1, <3>2, <3>3 DEF PastStep
  <2>2. CASE RedisFails(r)
    <3>1. UNCHANGED <<result, out, before, seen, hop>> /\ job'[r] = "failed"
      BY <2>2 DEF RedisFails, TypeOK
    <3>2. Made(r, 2)' => Made(r, 2)
      BY <3>1 DEF Made
    <3>3. QED
      BY <3>1, <3>2, PastQuiet
  <2>3. CASE OrphanRecords(r)
    <3>1. UNCHANGED <<result, out, before, seen, hop, timed, task>> /\ job[r] # "failed"
      BY <2>3 DEF OrphanRecords, loop
    <3>2. Made(r, 2)' => Made(r, 2)
      BY <3>1 DEF Made
    <3>3. QED
      BY <3>1, <3>2, PastQuiet
  <2>4. QED
    BY <1>6, <2>1, <2>2, <2>3 DEF Redis
<1>7. ASSUME NEW r \in Requests, LoopStep(r) PROVE PastStep(r)
  BY <1>7, PastLoop
<1>8. QED
  BY <1>1, <1>2, <1>3, <1>4, <1>5, <1>6, <1>7 DEF Next

(* Why a call sees its past: the scored calls of its past were recorded      *)
(* before they were answered, so before it was stamped and read the history. *)
HistoryInv ==
  /\ IsFiniteSet(Stamped)
  /\ \A r \in Requests : before[r] \subseteq Answered
  /\ \A r \in Requests : Made(r, 2) => Past(r) \subseteq seen[r]
  /\ \A i, j \in DOMAIN stamped : stamped[i] \in Past(stamped[j]) => i < j

LEMMA HistoryInit == Init => HistoryInv
<1> SUFFICES ASSUME Init PROVE HistoryInv
  OBVIOUS
<1>1. Stamped = {} /\ stamped = <<>>
  BY DEF Init, Stamped
<1>2. \A r \in Requests : before[r] = {} /\ ~Made(r, 2)
  BY DEF Init, Made
<1>3. QED
  BY <1>1, <1>2, FS_EmptySet DEF HistoryInv

(* The past of a call that has arrived is settled.                           *)
LEMMA PastSettled ==
  ASSUME HistoryInv, NEW r \in Requests, \A q \in Requests : PastStep(q), before'[r] = before[r]
  PROVE  Past(r)' = Past(r)
<1>1. \A q \in before[r] : q \in Requests /\ out'[q] = out[q]
  BY DEF HistoryInv, Answered, PastStep
<1>2. QED
  BY <1>1 DEF Past

(* A call that arrives has not reached stage 5.                              *)
LEMMA PastArrives ==
  ASSUME RoundInv', NEW r \in Requests, PastStep(r), before'[r] # before[r]
  PROVE  ~Made(r, 2)' /\ r \notin Stamped' /\ out'[r].s5 = None
<1>1. hop'[r] = 0 /\ out'[r] = NoScores
  BY DEF PastStep
<1>2. ~Made(r, 2)'
  BY <1>1 DEF Made
<1>3. r \notin Stamped'
  BY <1>1 DEF RoundInv, RoundOf
<1>4. QED
  BY <1>1, <1>2, <1>3 DEF NoScores

LEMMA HistoryStep ==
  ASSUME TypeOK, TypeOK', AnswerInv, WakeInv, RoundInv, RoundInv', HistoryInv, [Next]_vars
  PROVE  HistoryInv'
<1>1. \A q \in Requests : PastStep(q)
  BY PastEach
<1>2. stamped' = stamped \/ \E r \in Requests : result[r] = NoResult /\ stamped' = Append(stamped, r)
  BY PastEach
<1>3. IsFiniteSet(Stamped')
  <2>1. CASE stamped' = stamped
    BY <2>1 DEF HistoryInv, Stamped
  <2>2. ASSUME NEW r \in Requests, stamped' = Append(stamped, r) PROVE IsFiniteSet(Stamped')
    BY <2>2, StampedGrows, FS_AddElement DEF HistoryInv
  <2>3. QED
    BY <1>2, <2>1, <2>2
<1>4. ASSUME NEW r \in Requests PROVE before'[r] \subseteq Answered'
  <2>1. Answered \subseteq Answered'
    BY <1>1 DEF Answered, PastStep
  <2>2. before'[r] \subseteq Answered
    BY <1>1 DEF PastStep, HistoryInv
  <2>3. QED
    BY <2>1, <2>2
<1>5. ASSUME NEW r \in Requests, Made(r, 2)' PROVE Past(r)' \subseteq seen'[r]
  <2>1. before'[r] = before[r]
    BY <1>1, <1>5, PastArrives
  <2>2. Past(r)' = Past(r)
    BY <1>1, <2>1, PastSettled
  <2>3. CASE seen'[r] = recorded
    <3>1. ASSUME NEW q \in Past(r) PROVE q \in recorded
      <4>1. q \in Requests /\ out[q].s5 # None
        BY <3>1 DEF Past, HistoryInv, Answered
      <4>2. Made(q, 1)
        BY <4>1 DEF RoundInv, RoundOf, Made
      <4>3. QED
        BY <4>1, <4>2 DEF RoundInv, RoundOf
    <3>2. QED
      BY <2>2, <2>3, <3>1
  <2>4. CASE Made(r, 2) /\ seen'[r] = seen[r]
    BY <2>2, <2>4 DEF HistoryInv
  <2>5. QED
    BY <1>1, <1>5, <2>3, <2>4 DEF PastStep
<1>6. ASSUME NEW i \in DOMAIN stamped', NEW j \in DOMAIN stamped', stamped'[i] \in Past(stamped[j])'
      PROVE  i < j
  <2>1. PICK p \in Requests : p = stamped'[j]
    BY DEF TypeOK
  <2>2. p \in Stamped'
    BY <2>1 DEF Stamped
  <2>3. before'[p] = before[p]
    BY <1>1, <2>2, PastArrives
  <2>4. Past(p)' = Past(p)
    BY <1>1, <2>3, PastSettled
  <2>5. stamped'[i] \in Past(p)
    BY <1>6, <2>1, <2>4 DEF Past
  <2>6. stamped'[i] \in Answered
    BY <2>5 DEF Past, HistoryInv
  <2>7. CASE stamped' = stamped
    BY <1>6, <2>1, <2>5, <2>7 DEF HistoryInv
  <2>8. ASSUME NEW r \in Requests, result[r] = NoResult, stamped' = Append(stamped, r) PROVE i < j
    <3>1. /\ Len(stamped) \in Nat /\ DOMAIN stamped = 1..Len(stamped)
          /\ DOMAIN stamped' = 1..(Len(stamped) + 1)
          /\ \A k \in DOMAIN stamped : stamped'[k] = stamped[k]
          /\ stamped'[Len(stamped) + 1] = r
      BY <2>8, StampedGrows
    <3>2. r \notin Answered
      BY <2>8 DEF Answered
    <3>3. i \in DOMAIN stamped /\ stamped'[i] = stamped[i]
      BY <2>6, <3>1, <3>2
    <3>4. CASE j = Len(stamped) + 1
      BY <3>1, <3>3, <3>4
    <3>5. CASE j # Len(stamped) + 1
      <4>1. j \in DOMAIN stamped /\ stamped[j] = p
        BY <2>1, <3>1, <3>5
      <4>2. QED
        BY <2>5, <3>3, <4>1 DEF HistoryInv
    <3>6. QED
      BY <3>4, <3>5
  <2>9. QED
    BY <1>2, <2>7, <2>8
<1>7. QED
  BY <1>3, <1>4, <1>5, <1>6 DEF HistoryInv

LEMMA HistoryCorrect == Spec => [](RoundInv /\ HistoryInv)
<1>1. TypeOK /\ TypeOK' /\ AnswerInv /\ WakeInv /\ RoundInv /\ HistoryInv /\ [Next]_vars
        => RoundInv' /\ HistoryInv'
  BY RoundStep, HistoryStep
<1>2. QED
  BY <1>1, TypeCorrect, AnswerCorrect, WakeCorrect, RoundInit, HistoryInit, PTL DEF Spec

\* The calls of chain but the last were made, one after the other, and not
\* pushed out of the window, before r arrived.
MadeBefore(chain, call) ==
  \A i \in DOMAIN call :
    /\ tool[call[i]] \in chain[i] /\ out[call[i]].s5 # None
    /\ Cardinality(Later(call[i])) < RecentWindow
    /\ \A j \in DOMAIN call : j < i => call[j] \in before[call[i]]

\* Stage 5 flags r when it scores it.
FlagInv ==
  \A r \in Requests, chain \in Chains :
    ( /\ out[r].s5 # None /\ tool[r] \in chain[Len(chain)]
      /\ \E call \in [1..(Len(chain) - 1) -> before[r]] : MadeBefore(chain, call) )
    => out[r].s5 >= TauC

(* Calls are never stamped before a call that was.                           *)
LEMMA LaterGrows ==
  ASSUME TypeOK, IsFiniteSet(Stamped'), NEW q \in Requests,
         stamped' = stamped \/ \E r \in Requests : stamped' = Append(stamped, r)
  PROVE  Cardinality(Later(q)) <= Cardinality(Later(q)')
<1>1. Later(q) \subseteq Later(q)'
  <2>1. CASE stamped' = stamped
    BY <2>1 DEF Later
  <2>2. ASSUME NEW r \in Requests, stamped' = Append(stamped, r) PROVE Later(q) \subseteq Later(q)'
    <3>1. \A i \in DOMAIN stamped : i \in DOMAIN stamped' /\ stamped'[i] = stamped[i]
      BY <2>2, StampedGrows
    <3>2. QED
      BY <3>1 DEF Later
  <2>3. QED
    BY <2>1, <2>2
<1>2. Later(q)' \subseteq Stamped'
  BY DEF Later, Stamped
<1>3. IsFiniteSet(Later(q)')
  BY <1>2, FS_Subset
<1>4. QED
  BY <1>1, <1>3, FS_Subset

(* A call of the chain that is not pushed out is among the last ones read.   *)
LEMMA SeenRecently ==
  ASSUME TypeOK, HistoryInv, NEW r \in Requests, Made(r, 2), NEW q \in Past(r),
         Cardinality(Later(q)) < RecentWindow
  PROVE  q \in LastSeen(r, RecentWindow)
<1>1. q \in seen[r]
  BY DEF HistoryInv
<1>2. IsFiniteSet(Later(q))
  <2>1. Later(q) \subseteq Stamped
    BY DEF Later, Stamped
  <2>2. QED
    BY <2>1, FS_Subset DEF HistoryInv
<1>3. Cardinality(Later(q) \cap seen[r]) <= Cardinality(Later(q))
  BY <1>2, FS_Subset
<1>4. Cardinality(Later(q)) \in Nat /\ Cardinality(Later(q) \cap seen[r]) \in Nat
  BY <1>2, FS_Subset, FS_CardinalityType
<1>5. Cardinality(Later(q) \cap seen[r]) < RecentWindow
  BY <1>3, <1>4, PipelineAssumption
<1>6. QED
  BY <1>1, <1>5 DEF LastSeen

(* The calls of a chain made before r, and r, are a subsequence of what      *)
(* stage 5 of r looks at.                                                    *)
LEMMA ChainSeen ==
  ASSUME TypeOK, RoundInv, HistoryInv, NEW r \in Requests, Made(r, 2),
         NEW chain \in Chains, tool[r] \in chain[Len(chain)],
         NEW call \in [1..(Len(chain) - 1) -> before[r]], MadeBefore(chain, call)
  PROVE  SequencePresent(r, chain)
<1> DEFINE n == Len(chain)
           current == Len(stamped) + 1
           recent == {i \in DOMAIN stamped : stamped[i] \in LastSeen(r, RecentWindow)}
           at == [i \in 1..n |-> IF i = n THEN current
                                 ELSE CHOOSE k \in recent : stamped[k] = call[i]]
<1>1. n \in Nat /\ DOMAIN chain = 1..n
  BY PipelineAssumption
<1>2. current \in Nat /\ \A k \in recent : k \in DOMAIN stamped /\ k \in Nat /\ k < current
  BY DEF TypeOK
<1>3. \A i \in 1..(n - 1) : call[i] \in Past(r) /\ Cardinality(Later(call[i])) < RecentWindow
  BY DEF MadeBefore, Past
<1>4. \A i \in 1..(n - 1) : \E k \in recent : stamped[k] = call[i]
  <2> SUFFICES ASSUME NEW i \in 1..(n - 1) PROVE \E k \in recent : stamped[k] = call[i]
    OBVIOUS
  <2>1. call[i] \in LastSeen(r, RecentWindow)
    BY <1>3, SeenRecently
  <2>2. call[i] \in Requests /\ out[call[i]].s5 # None
    BY <1>3 DEF Past, HistoryInv, Answered
  <2>3. call[i] \in Stamped
    BY <2>2 DEF RoundInv, RoundOf
  <2>4. QED
    BY <2>1, <2>3 DEF Stamped
<1> HIDE DEF recent, current, n
<1>5. \A i \in 1..n : i = n \/ i \in 1..(n - 1)
  BY <1>1
<1>6. \A i \in 1..(n - 1) : i # n /\ i \in 1..n
  BY <1>1
<1>7. \A i \in 1..(n - 1) : at[i] \in recent /\ stamped[at[i]] = call[i]
  BY <1>4, <1>6
<1>8. n \in 1..n => at[n] = current
  OBVIOUS
<1> HIDE DEF at
<1>9. at \in [1..n -> recent \cup {current}]
  <2>1. \A i \in 1..n : at[i] \in recent \cup {current}
    BY <1>5, <1>7, <1>8
  <2>2. QED
    BY <2>1 DEF at
<1>10. ASSUME NEW i \in 1..n, NEW j \in 1..n, i < j
       PROVE  at[i] < at[j]
  <2>1. i \in 1..(n - 1)
    BY <1>1, <1>10
  <2>2. CASE j = n
    BY <1>2, <1>7, <1>8, <2>1, <2>2
  <2>3. CASE j # n
    <3>1. j \in 1..(n - 1)
      BY <1>5, <2>3
    <3>2. call[i] \in before[call[j]] /\ out[call[i]].s5 # None
      BY <1>10, <2>1, <3>1 DEF MadeBefore, n
    <3>3. stamped[at[i]] \in Past(stamped[at[j]])
      BY <1>7, <2>1, <3>1, <3>2 DEF Past
    <3>4. at[i] \in DOMAIN stamped /\ at[j] \in DOMAIN stamped
      BY <1>2, <1>7, <2>1, <3>1
    <3>5. QED
      BY <3>3, <3>4 DEF HistoryInv
  <2>4. QED
    BY <2>2, <2>3
<1>11. ASSUME NEW i \in 1..n
       PROVE  (IF at[i] = current THEN tool[r] ELSE tool[stamped[at[i]]]) \in chain[i]
  <2>1. CASE i = n
    BY <1>8, <2>1 DEF n
  <2>2. CASE i # n
    <3>1. i \in 1..(n - 1)
      BY <1>5, <2>2
    <3>2. at[i] # current /\ stamped[at[i]] = call[i]
      BY <1>2, <1>7, <3>1
    <3>3. tool[call[i]] \in chain[i]
      BY <3>1 DEF MadeBefore, n
    <3>4. QED
      BY <3>2, <3>3
  <2>3. QED
    BY <2>1, <2>2
<1>12. QED
  BY <1>1, <1>9, <1>10, <1>11 DEF SequencePresent, recent, current

LEMMA FlagInit == Init => FlagInv
  BY DEF Init, FlagInv, NoScores

LEMMA FlagStep ==
  ASSUME TypeOK, AnswerInv, WakeInv, RoundInv, RoundInv', HistoryInv, HistoryInv', FlagInv, [Next]_vars
  PROVE  FlagInv'
<1>1. /\ \A q \in Requests : PastStep(q)
      /\ UNCHANGED tool
      /\ stamped' = stamped \/ \E r \in Requests : stamped' = Append(stamped, r)
  BY PastEach
<1> SUFFICES ASSUME NEW r \in Requests, NEW chain \in Chains,
                    out'[r].s5 # None, tool'[r] \in chain[Len(chain)],
                    NEW call \in [1..(Len(chain) - 1) -> before'[r]], MadeBefore(chain, call)'
             PROVE  out'[r].s5 >= TauC
  BY DEF FlagInv
<1>2. before'[r] = before[r]
  BY <1>1, PastArrives
<1>3. MadeBefore(chain, call)
  <2> SUFFICES ASSUME NEW i \in DOMAIN call
               PROVE  /\ tool[call[i]] \in chain[i] /\ out[call[i]].s5 # None
                      /\ Cardinality(Later(call[i])) < RecentWindow
                      /\ \A j \in DOMAIN call : j < i => call[j] \in before[call[i]]
    BY DEF MadeBefore
  <2>1. PICK q \in Requests : q = call[i] /\ result[q] # NoResult
    BY <1>2 DEF HistoryInv, Answered
  <2>2. out'[q] = out[q] /\ before'[q] = before[q]
    BY <1>1, <2>1 DEF PastStep
  <2>3. /\ tool'[q] \in chain[i] /\ out'[q].s5 # None
        /\ Cardinality(Later(q)') < RecentWindow
        /\ \A j \in DOMAIN call : j < i => call[j] \in before'[q]
    BY <2>1 DEF MadeBefore, Later
  <2>4. Cardinality(Later(q)) <= Cardinality(Later(q)')
    BY <1>1, LaterGrows DEF HistoryInv
  <2>5. Cardinality(Later(q)) \in Nat /\ Cardinality(Later(q)') \in Nat
    <3>1. Later(q) \subseteq Stamped /\ Later(q)' \subseteq Stamped'
      BY DEF Later, Stamped
    <3>2. IsFiniteSet(Later(q)) /\ IsFiniteSet(Later(q)')
      BY <3>1, FS_Subset DEF HistoryInv
    <3>3. QED
      BY <3>2, FS_CardinalityType
  <2>6. Cardinality(Later(q)) < RecentWindow
    BY <2>3, <2>4, <2>5, PipelineAssumption
  <2>7. QED
    BY <1>1, <2>1, <2>2, <2>3, <2>6
<1>4. tool[r] \in chain[Len(chain)] /\ call \in [1..(Len(chain) - 1) -> before[r]]
  BY <1>1, <1>2
<1>5. CASE out'[r].s5 = out[r].s5
  BY <1>3, <1>4, <1>5 DEF FlagInv
<1>6. CASE Stage5Scores(r)
  <2>1. Made(r, 2)
    BY <1>6 DEF Stage5Scores, Made
  <2>2. SequencePresent(r, chain)
    BY <1>3, <1>4, <2>1, ChainSeen
  <2>3. BehavioralScore(r) \in {80, 90}
    BY <2>2, Zenon DEF BehavioralScore
  <2>4. out'[r].s5 = BehavioralScore(r)
    BY <1>6 DEF Stage5Scores, Return, TypeOK, Scored, StageScores
  <2>5. QED
    BY <2>3, <2>4 DEF TauC
<1>7. QED
  BY <1>1, <1>5, <1>6 DEF PastStep

(* A kill chain spread over answered calls is flagged when it is completed,  *)
(* for any chains, window, requests and interleaving.                        *)
THEOREM CompletedChainCorrect == Spec => []CompletedChainIsFlagged
<1>1. /\ TypeOK /\ AnswerInv /\ WakeInv /\ RoundInv /\ RoundInv' /\ HistoryInv /\ HistoryInv'
      /\ FlagInv /\ [Next]_vars
      => FlagInv'
  BY FlagStep
<1>2. FlagInv => CompletedChainIsFlagged
  <2> SUFFICES ASSUME FlagInv, NEW r \in Answered, NEW chain \in Chains,
                      out[r].s5 # None, tool[r] \in chain[Len(chain)],
                      NEW call \in [1..(Len(chain) - 1) -> before[r]],
                      \A i \in DOMAIN call :
                        /\ tool[call[i]] \in chain[i] /\ out[call[i]].s5 # None
                        /\ Cardinality(Later(call[i])) < RecentWindow
                        /\ \A j \in DOMAIN call : j < i => call[j] \in before[call[i]]
               PROVE  out[r].s5 >= TauC
    BY DEF CompletedChainIsFlagged
  <2>1. MadeBefore(chain, call)
    BY DEF MadeBefore
  <2>2. QED
    BY <2>1 DEF FlagInv, Answered
<1>3. QED
  BY <1>1, <1>2, TypeCorrect, AnswerCorrect, WakeCorrect, HistoryCorrect, FlagInit, PTL DEF Spec
============================================================================
