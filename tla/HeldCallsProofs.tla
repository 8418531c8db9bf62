-------------------------- MODULE HeldCallsProofs --------------------------
(***************************************************************************)
(* Theorems about HeldCalls, for any number of calls, any thresholds and   *)
(* amounts, and any settings of the flag.                                  *)
(***************************************************************************)
EXTENDS HeldCalls, TLAPS

(***************************************************************************)
(* The type invariant, one step per action.                                *)
(***************************************************************************)
LEMMA InitTypeOK == Init => TypeOK
  BY HookAssumption, SMT DEF Init, LInit, TypeOK, Calls, Statuses

LEMMA NextTypeOK == TypeOK /\ [Next]_vars => TypeOK'
<1> SUFFICES ASSUME TypeOK, [Next]_vars PROVE TypeOK'
  OBVIOUS
<1> USE DEF TypeOK, Calls, Becomes
<1>1. ASSUME NEW c \in Calls, OnToolStart(c) PROVE TypeOK'
  BY <1>1, SMT DEF OnToolStart, lvars
<1>2. ASSUME NEW c \in Calls, TriageRaises(c) PROVE TypeOK'
  BY <1>2, SMT DEF TriageRaises, lvars
<1>3. ASSUME NEW c \in Calls, Posts(c) PROVE TypeOK'
  BY <1>3, SMT DEF Posts, lvars
<1>4. ASSUME NEW c \in Calls, Raises(c) PROVE TypeOK'
  BY <1>4, SMT DEF Raises, lvars
<1>5. ASSUME NEW c \in Calls, RunsTool(c) PROVE TypeOK'
  BY <1>5, SMT DEF RunsTool, lvars
<1>6. ASSUME NEW c \in Calls, OnToolEnd(c) PROVE TypeOK'
  BY <1>6, SMT DEF OnToolEnd, lvars
<1>7. ASSUME NEW c \in Calls, NEW v \in {"block", "grey_band", "allow"}, TriageReturns(c, v)
      PROVE TypeOK'
  <2>1. RouteOf(v, tool[c]) \in {"none", "other", "sandbox_async", "hold_sync"}
    BY SMT DEF RouteOf
  <2>2. Enforced(v, route'[c]) \in {"run", "refused", "holding"}
    BY SMT DEF Enforced
  <2>3. QED
    BY <1>7, <2>1, <2>2, SMT DEF TriageReturns, lvars
<1>8. ASSUME NEW c \in Calls, NEW t \in Timeouts, Serves(c, t) PROVE TypeOK'
  BY <1>8, HookAssumption, SMT DEF Serves, Place, Statuses
<1>9. CASE SetEnforcement
  BY <1>9, HookAssumption, SMT DEF SetEnforcement, lvars
<1>10. CASE Analysts
  <2>1. CASE (\E h \in Holds, d \in Decisions : Decide(h, d)) /\ UNCHANGED post
    BY <1>10, <2>1, SMT DEF Analysts, Decide, Statuses, Decisions
  <2>2. CASE (\E h \in Holds : status[h] = "pending" /\ Expire({h})) /\ UNCHANGED post
    BY <1>10, <2>2, SMT DEF Analysts, Expire, Statuses
  <2>3. CASE Forget /\ post' = [c \in Calls |-> IF post[c] = "sent" THEN "lost" ELSE post[c]]
    BY <1>10, <2>3, SMT DEF Analysts, Forget, Statuses
  <2>4. CASE Passes /\ UNCHANGED post
    BY <1>10, <2>4, SMT DEF Analysts, Passes
  <2>5. QED
    <3>1. CASE clock < Horizon /\ Passes /\ UNCHANGED post
      BY <2>4, <3>1
    <3>2. QED
      BY <1>10, <2>1, <2>2, <2>3, <3>1, Zenon DEF Analysts
<1>11. CASE UNCHANGED vars
  BY <1>11, SMT DEF vars, lvars, hook
<1>12. QED
  BY <1>1, <1>2, <1>3, <1>4, <1>5, <1>6, <1>7, <1>8, <1>9, <1>10, <1>11, SMT DEF Next

(* Every call, post and hold has its type: the handler's bookkeeping and the *)
(* queue's agree on what there is (hooks.py, analyst/queue.py).              *)
THEOREM TypeCorrect == Spec => []TypeOK
<1>1. Init => TypeOK
  BY InitTypeOK
<1>2. TypeOK /\ [Next]_vars => TypeOK'
  BY NextTypeOK
<1>3. QED
  BY <1>1, <1>2, PTL DEF Spec

(***************************************************************************)
(* OnlyClearedCallsRun is not inductive: it speaks of calls that have run. *)
(* HookInv carries the clearance of a call that is about to run, and, for  *)
(* one in triage, why it was let through the intent gate and that the flag *)
(* cannot be off without having been noted; and it says that a call that   *)
(* was put to the analysts is held or refused.                             *)
(***************************************************************************)
Cleared(c) ==
  \/ off[c]
  \/ declared[c] /\ ~wired
  \/ declared[c] /\ verdict[c] = "allow"
  \/ /\ declared[c] /\ verdict[c] = "grey_band"
     /\ GreybandRoute(tool[c], worth[c]) \in {"sandbox_async", "cheap_gate_allow"}

HookInv ==
  \A c \in Calls :
    /\ post[c] # "none" => pc[c] \in {"holding", "refused"}
    /\ pc[c] = "triage" => (declared[c] \/ off[c]) /\ (~enforcement => off[c])
    /\ pc[c] \in {"run", "scan", "ended", "quarantined"} => Cleared(c)

LEMMA HookInvSuffices == HookInv => OnlyClearedCallsRun
  BY SMT DEF HookInv, Cleared, OnlyClearedCallsRun, Ran

LEMMA InitHookInv == Init => HookInv
  BY SMT DEF Init, HookInv

\* A call the flag and the verdict let run is cleared: the table of the hooks
\* calls nothing reversible that the router would hold.
LEMMA EnforcedIsCleared ==
  ASSUME NEW v, NEW t, NEW w, Enforced(v, RouteOf(v, t)) = "run", enforcement,
         v \in {"block", "grey_band", "allow"}
  PROVE  \/ v = "allow"
         \/ v = "grey_band" /\ GreybandRoute(t, w) = "sandbox_async"
<1>1. v # "block"
  BY SMT DEF Enforced
<1>2. CASE v = "grey_band"
  <2>1. RouteOf(v, t) # "hold_sync"
    BY <1>2, SMT DEF Enforced
  <2>2. t = "reader"
    BY <1>2, <2>1, SMT DEF RouteOf, Reversibility
  <2>3. QED
    BY <1>2, <2>2, SMT DEF GreybandRoute, Classify
<1>3. QED
  BY <1>1, <1>2, SMT

LEMMA NextHookInv == TypeOK /\ HookInv /\ [Next]_vars => HookInv'
<1> SUFFICES ASSUME TypeOK, HookInv, [Next]_vars PROVE HookInv'
  OBVIOUS
<1> USE DEF TypeOK, HookInv, Calls, Cleared, Becomes
<1> HIDE DEF GreybandRoute
<1>1. ASSUME NEW c \in Calls, OnToolStart(c) PROVE HookInv'
  <2>1. /\ pc[c] = "idle"
        /\ pc' = [pc EXCEPT ![c] = IF ~declared[c] /\ enforcement THEN "refused"
                                   ELSE IF wired THEN "triage" ELSE "run"]
        /\ off' = [off EXCEPT ![c] = ~enforcement]
        /\ UNCHANGED <<wired, enforcement, tool, worth, declared, verdict, post>>
    BY <1>1 DEF OnToolStart
  <2>2. ASSUME NEW d \in Calls
        PROVE /\ post'[d] = post[d] /\ verdict'[d] = verdict[d]
              /\ declared'[d] = declared[d] /\ tool'[d] = tool[d] /\ worth'[d] = worth[d]
    BY <2>1
  <2>3. ASSUME NEW d \in Calls, d # c
        PROVE pc'[d] = pc[d] /\ off'[d] = off[d]
    BY <2>1, <2>3
  <2>4. /\ pc'[c] = IF ~declared[c] /\ enforcement THEN "refused"
                    ELSE IF wired THEN "triage" ELSE "run"
        /\ off'[c] = ~enforcement
    BY <2>1
  <2>5. post[c] = "none"
    BY <2>1
  <2>6. pc'[c] \in {"run", "scan", "ended", "quarantined"} => Cleared(c)'
    BY <2>1, <2>4, Zenon
  <2>7. pc'[c] = "triage" => (declared'[c] \/ off'[c]) /\ (~enforcement' => off'[c])
    BY <2>1, <2>4, Zenon
  <2>8. QED
    BY <2>1, <2>2, <2>3, <2>5, <2>6, <2>7, SMT
<1>2. ASSUME NEW c \in Calls, TriageRaises(c) PROVE HookInv'
  BY <1>2, SMT DEF TriageRaises
<1>3. ASSUME NEW c \in Calls, Posts(c) PROVE HookInv'
  BY <1>3, SMT DEF Posts
<1>4. ASSUME NEW c \in Calls, Raises(c) PROVE HookInv'
  BY <1>4, SMT DEF Raises
<1>5. ASSUME NEW c \in Calls, RunsTool(c) PROVE HookInv'
  BY <1>5, SMT DEF RunsTool
<1>6. ASSUME NEW c \in Calls, OnToolEnd(c) PROVE HookInv'
  BY <1>6, SMT DEF OnToolEnd
<1>7. ASSUME NEW c \in Calls, NEW v \in {"block", "grey_band", "allow"}, TriageReturns(c, v)
      PROVE HookInv'
  <2>1. /\ pc[c] = "triage" /\ route'[c] = RouteOf(v, tool[c])
        /\ pc' = [pc EXCEPT ![c] = Enforced(v, RouteOf(v, tool[c]))]
        /\ verdict' = [verdict EXCEPT ![c] = v]
    BY <1>7, SMT DEF TriageReturns
  <2>2. Enforced(v, RouteOf(v, tool[c])) \in {"run", "refused", "holding"}
    BY SMT DEF Enforced
  <2>3. UNCHANGED <<post, off, declared, wired, enforcement, tool, worth>>
    BY <1>7 DEF TriageReturns
  <2>4. Enforced(v, RouteOf(v, tool[c])) = "run" => Cleared(c)'
    <3>1. CASE enforcement
      BY <2>1, <2>3, <3>1, EnforcedIsCleared, SMT
    <3>2. CASE ~enforcement
      BY <2>1, <2>3, <3>2, SMT
    <3>3. QED
      BY <3>1, <3>2
  <2>5. QED
    BY <2>1, <2>2, <2>3, <2>4, SMT
<1>8. ASSUME NEW c \in Calls, NEW t \in Timeouts, Serves(c, t) PROVE HookInv'
  BY <1>8, SMT DEF Serves
<1>9. CASE SetEnforcement
  BY <1>9, SMT DEF SetEnforcement
<1>10. CASE Analysts
  BY <1>10, SMT DEF Analysts
<1>11. CASE UNCHANGED vars
  BY <1>11, SMT DEF vars, hook
<1>12. QED
  BY <1>1, <1>2, <1>3, <1>4, <1>5, <1>6, <1>7, <1>8, <1>9, <1>10, <1>11, SMT DEF Next

(* Nothing runs that was not cleared, and nothing that was put to the        *)
(* analysts, whatever they decide and whenever the flag is set (hooks.py     *)
(* on_tool_start, _enforce_or_observe, _trigger_hold; router.py route).      *)
THEOREM ClearedOnly == Spec => []OnlyClearedCallsRun
<1>1. Init => TypeOK /\ HookInv
  BY InitTypeOK, InitHookInv
<1>2. TypeOK /\ HookInv /\ [Next]_vars => TypeOK' /\ HookInv'
  BY NextTypeOK, NextHookInv
<1>3. HookInv => OnlyClearedCallsRun
  BY HookInvSuffices
<1>4. QED
  BY <1>1, <1>2, <1>3, PTL DEF Spec
=============================================================================
