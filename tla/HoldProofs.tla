---------------------------- MODULE HoldProofs ----------------------------
(***************************************************************************)
(* The analyst hold queue is proved correct for any holds, analysts,       *)
(* timeouts, period and lateness of the reaper.                            *)
(***************************************************************************)
EXTENDS HoldQueue, TLAPS

Record == [status : {"absent", "pending", "expired"} \cup Decisions,
           created_at : Nat, timeout : Nat, resolved_at : Nat]

LEMMA HoldsInit == Init => TypeOK
  BY QueueAssumption DEF Init, TypeOK, NoHold, Decisions

LEMMA TypeStep == TypeOK /\ [Next]_vars => TypeOK'
  <1> SUFFICES ASSUME TypeOK, [Next]_vars PROVE TypeOK'
    OBVIOUS
  <1> USE DEF TypeOK
  <1>1. ASSUME NEW h \in Holds, NEW t \in Timeouts, Submit(h, t) PROVE TypeOK'
    <2>1. [status |-> "pending", created_at |-> now, timeout |-> t, resolved_at |-> 0] \in Record
      BY QueueAssumption DEF Record
    <2> QED BY <1>1, <2>1 DEF Submit, Record
  <1>2. ASSUME NEW a \in Analysts, Dashboard(a) PROVE TypeOK'
    BY <1>2 DEF Dashboard
  <1>3. ASSUME NEW a \in Analysts, NEW h \in Holds, ResolveFails(a, h) PROVE TypeOK'
    BY <1>3 DEF ResolveFails
  <1>4. ASSUME NEW a \in Analysts, NEW h \in Holds, NEW d \in Decisions, Resolve(a, h, d)
        PROVE  TypeOK'
    <2>1. holds' = [holds EXCEPT ![h] = [holds[h] EXCEPT !.status = d, !.resolved_at = now]]
      BY <1>4 DEF Resolve
    <2>2. holds[h] \in Record
      BY DEF Record
    <2>3. [holds[h] EXCEPT !.status = d, !.resolved_at = now] \in Record
      BY <2>2 DEF Record
    <2> QED BY <1>4, <2>1, <2>3 DEF Resolve, Record
  <1>5. CASE ExpireStale
    <2>1. holds' \in [Holds -> Record]
      BY <1>5 DEF ExpireStale, Record
    <2>2. wake' \in Nat
      <3>1. wake' = now + Period /\ now \in Nat
        BY <1>5 DEF ExpireStale
      <3> QED BY <3>1, QueueAssumption
    <2>3. UNCHANGED <<up, posted, now, page, answered>>
      BY <1>5 DEF ExpireStale
    <2> QED BY <2>1, <2>2, <2>3 DEF Record
  <1>6. CASE Crash
    BY <1>6 DEF Crash, NoHold
  <1>7. CASE Restart
    BY <1>7, QueueAssumption DEF Restart
  <1>8. CASE Tick
    BY <1>8 DEF Tick
  <1>9. CASE UNCHANGED vars
    BY <1>9 DEF vars
  <1> QED BY <1>1, <1>2, <1>3, <1>4, <1>5, <1>6, <1>7, <1>8, <1>9 DEF Next

THEOREM TypeCorrect == Spec => []TypeOK
  BY HoldsInit, TypeStep, PTL DEF Spec

-----------------------------------------------------------------------------
(* Promptness.                                                               *)

(* The reaper's next wake-up bounds the clock, and every hold that its last  *)
(* pass left pending falls due after that pass; a service that is down holds *)
(* nothing.                                                                  *)
ReaperInv ==
  /\ up => now <= wake + Slack
  /\ \A h \in Holds :
       Pending(h) => up /\ wake <= holds[h].created_at + holds[h].timeout + Period
  /\ wake <= now + Period

LEMMA ReaperStep == TypeOK /\ ReaperInv /\ [Next]_vars => ReaperInv'
  <1> SUFFICES ASSUME TypeOK, ReaperInv, [Next]_vars PROVE ReaperInv'
    OBVIOUS
  <1> USE QueueAssumption DEF TypeOK, ReaperInv, Pending
  <1>1. ASSUME NEW h \in Holds, NEW t \in Timeouts, Submit(h, t) PROVE ReaperInv'
    BY <1>1 DEF Submit
  <1>2. ASSUME NEW a \in Analysts, Dashboard(a) PROVE ReaperInv'
    BY <1>2 DEF Dashboard
  <1>3. ASSUME NEW a \in Analysts, NEW h \in Holds, ResolveFails(a, h) PROVE ReaperInv'
    BY <1>3 DEF ResolveFails
  <1>4. ASSUME NEW a \in Analysts, NEW h \in Holds, NEW d \in Decisions, Resolve(a, h, d)
        PROVE  ReaperInv'
    BY <1>4 DEF Resolve, Decisions
  <1>5. CASE ExpireStale
    <2>1. up /\ up' = up /\ now' = now /\ wake' = now + Period
      BY <1>5 DEF ExpireStale
    <2>2. ASSUME NEW h \in Holds, holds'[h].status = "pending"
          PROVE  holds'[h] = holds[h] /\ now < holds[h].created_at + holds[h].timeout
      <3>1. holds'[h] = IF Pending(h) /\ IsExpired(h)
                          THEN [holds[h] EXCEPT !.status = "expired", !.resolved_at = now]
                          ELSE holds[h]
        BY <1>5 DEF ExpireStale
      <3>2. holds'[h] = holds[h] /\ ~IsExpired(h)
        BY <2>2, <3>1
      <3> QED BY <3>2 DEF IsExpired
    <2> QED BY <2>1, <2>2
  <1>6. CASE Crash
    BY <1>6 DEF Crash, NoHold
  <1>7. CASE Restart
    BY <1>7 DEF Restart
  <1>8. CASE Tick
    BY <1>8 DEF Tick
  <1>9. CASE UNCHANGED vars
    BY <1>9 DEF vars
  <1> QED BY <1>1, <1>2, <1>3, <1>4, <1>5, <1>6, <1>7, <1>8, <1>9 DEF Next

(* No hold outlives its time by more than one period and the lateness.       *)
THEOREM PromptExpiry == Spec => []ExpiryIsPrompt
  <1>1. Init => ReaperInv
    BY QueueAssumption DEF Init, ReaperInv, Pending, NoHold
  <1>2. TypeOK /\ ReaperInv => ExpiryIsPrompt
    BY QueueAssumption DEF TypeOK, ReaperInv, ExpiryIsPrompt
  <1> QED BY <1>1, <1>2, ReaperStep, TypeCorrect, PTL DEF Spec

-----------------------------------------------------------------------------
(* Decisions.                                                                *)

(* Ids are not reused, so a decided hold never becomes pending again.        *)
DecisionInv ==
  /\ DecisionStands
  /\ \A x \in answered : x[2] \in posted
  /\ \A h \in Holds : holds[h].status # "absent" => h \in posted

LEMMA DecisionStep == TypeOK /\ DecisionInv /\ [Next]_vars => DecisionInv'
  <1> SUFFICES ASSUME TypeOK, DecisionInv, [Next]_vars PROVE DecisionInv'
    OBVIOUS
  <1> USE DEF TypeOK, DecisionInv, DecisionStands
  <1>1. ASSUME NEW h \in Holds, NEW t \in Timeouts, Submit(h, t) PROVE DecisionInv'
    BY <1>1 DEF Submit
  <1>2. ASSUME NEW a \in Analysts, Dashboard(a) PROVE DecisionInv'
    BY <1>2 DEF Dashboard
  <1>3. ASSUME NEW a \in Analysts, NEW h \in Holds, ResolveFails(a, h) PROVE DecisionInv'
    BY <1>3 DEF ResolveFails
  <1>4. ASSUME NEW a \in Analysts, NEW h \in Holds, NEW d \in Decisions, Resolve(a, h, d)
        PROVE  DecisionInv'
    <2>1. \A x \in answered : x[2] # h
      BY <1>4 DEF Resolve, Pending, Decisions
    <2>2. /\ \A g \in Holds \ {h} : holds'[g] = holds[g]
          /\ holds'[h].status = d
      BY <1>4 DEF Resolve
    <2>3. answered' = answered \cup {<<a, h, d>>} /\ posted' = posted /\ h \in posted
      BY <1>4 DEF Resolve, Pending
    <2> QED BY <2>1, <2>2, <2>3 DEF Decisions
  <1>5. CASE ExpireStale
    BY <1>5 DEF ExpireStale, Pending, Decisions
  <1>6. CASE Crash
    BY <1>6 DEF Crash, NoHold
  <1>7. CASE Restart
    BY <1>7 DEF Restart
  <1>8. CASE Tick
    BY <1>8 DEF Tick
  <1>9. CASE UNCHANGED vars
    BY <1>9 DEF vars
  <1> QED BY <1>1, <1>2, <1>3, <1>4, <1>5, <1>6, <1>7, <1>8, <1>9 DEF Next

LEMMA DecisionCorrect == Spec => []DecisionInv
  <1>1. Init => DecisionInv
    BY DEF Init, DecisionInv, DecisionStands, NoHold
  <1> QED BY <1>1, DecisionStep, TypeCorrect, PTL DEF Spec

(* A decision answered to one analyst is the only one, and it stands.        *)
THEOREM DecidedOnce == Spec => []DecisionStands
  BY DecisionCorrect, PTL DEF DecisionInv

-----------------------------------------------------------------------------
(* Refinement.                                                               *)

(* Every step of the queue is a step of the life cycle, or none.             *)
LEMMA LifecycleStep ==
  TypeOK /\ DecisionInv /\ [Next]_vars => [LC!LNext]_(LC!lvars)
  <1> SUFFICES ASSUME TypeOK, DecisionInv, [Next]_vars PROVE [LC!LNext]_(LC!lvars)
    OBVIOUS
  <1> USE DEF TypeOK
  <1>1. ASSUME NEW h \in Holds, NEW t \in Timeouts, Submit(h, t) PROVE LC!Place(h, t)
    BY <1>1, QueueAssumption DEF Submit, LC!Place, DecisionInv
  <1>2. ASSUME NEW a \in Analysts, Dashboard(a) PROVE UNCHANGED LC!lvars
    BY <1>2 DEF Dashboard, LC!lvars
  <1>3. ASSUME NEW a \in Analysts, NEW h \in Holds, ResolveFails(a, h)
        PROVE  UNCHANGED LC!lvars
    BY <1>3 DEF ResolveFails, LC!lvars
  <1>4. ASSUME NEW a \in Analysts, NEW h \in Holds, NEW d \in Decisions, Resolve(a, h, d)
        PROVE  LC!Decide(h, d)
    BY <1>4 DEF Resolve, Pending, LC!Decide
  <1>5. ASSUME ExpireStale PROVE \E S \in SUBSET Holds : LC!Expire(S)
    <2>0. PICK S \in SUBSET Holds : S = {h \in Holds : Pending(h) /\ IsExpired(h)}
      OBVIOUS
    <2>1. \A h \in Holds :
            holds'[h] = IF h \in S
                          THEN [holds[h] EXCEPT !.status = "expired", !.resolved_at = now]
                          ELSE holds[h]
      BY <1>5, <2>0 DEF ExpireStale
    <2>2. \A h \in S : holds[h].status = "pending"
                       /\ holds[h].created_at + holds[h].timeout <= now
      BY <2>0 DEF Pending, IsExpired
    <2>3. now' = now
      BY <1>5 DEF ExpireStale
    <2>4. \A h \in Holds :
            /\ holds'[h].status = IF h \in S THEN "expired" ELSE holds[h].status
            /\ holds'[h].created_at = holds[h].created_at
            /\ holds'[h].timeout = holds[h].timeout
      BY <2>1
    <2>5. LC!Expire(S)
      BY <2>2, <2>3, <2>4 DEF LC!Expire
    <2> QED BY <2>5
  <1>6. ASSUME Crash PROVE LC!Forget
    BY <1>6 DEF Crash, NoHold, LC!Forget
  <1>7. ASSUME Restart PROVE UNCHANGED LC!lvars
    BY <1>7 DEF Restart, LC!lvars
  <1>8. ASSUME Tick PROVE LC!Passes
    BY <1>8 DEF Tick, LC!Passes
  <1>9. ASSUME UNCHANGED vars PROVE UNCHANGED LC!lvars
    BY <1>9 DEF vars, LC!lvars
  <1> QED BY <1>1, <1>2, <1>3, <1>4, <1>5, <1>6, <1>7, <1>8, <1>9
          DEF Next, LC!LNext, Decisions, LC!Decisions

(* The queue implements the life cycle of its header.                        *)
THEOREM LifecycleImplemented == Spec => ImplementsLifecycle
  <1>1. Init => LC!LInit
    BY DEF Init, NoHold, LC!LInit
  <1> QED BY <1>1, LifecycleStep, TypeCorrect, DecisionCorrect, PTL
          DEF Spec, ImplementsLifecycle, LC!Lifecycle
============================================================================
