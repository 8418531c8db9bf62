----------------------------- MODULE HeldCalls -----------------------------
(***************************************************************************)
(* The LangChain handler of the gateway (agentguard/gateway/hooks.py) and  *)
(* the holds it posts to the analysts, whose queue is taken as what        *)
(* HoldLifecycle promises.  The grey-band router (agentguard/greyband/     *)
(* router.py) decides about the same calls from tables of its own.         *)
(*                                                                         *)
(* Each call runs its two hooks in a thread of its own; the handler and    *)
(* its enforcement flag are shared.  A hook that raises ends the call.     *)
(***************************************************************************)
EXTENDS HoldLifecycle

CONSTANTS
  AutoAllow, AutoBlock,   \* CHEAP_GATE_AUTO_*_THRESHOLD, in dollars
  Values,                 \* operation_value_usd; 0 is "not applicable"
  MaxFlips,               \* bound: how often the enforcement flag is set
  Horizon                 \* bound: the clock stops here

ASSUME HookAssumption ==
  /\ AutoAllow \in Nat /\ AutoBlock \in Nat /\ AutoAllow < AutoBlock
  /\ Values \subseteq Nat /\ Timeouts \subseteq Nat
  /\ MaxFlips \in Nat /\ Horizon \in Nat

\* What the tables say of a tool: listed as reversible, as irreversible, or
\* not at all.
Tools == {"reader", "writer", "unlisted"}

VARIABLES
  wired,         \* a triage pipeline was passed to the handler
  enforcement,   \* the handler's flag
  tool, worth,   \* of each call: what it calls, and for how many dollars
  declared,      \* the tool is in the agent's envelope
  pc,            \* where the call is, or how it ended
  verdict, route,  \* what triage returned
  post,          \* the POST /holds of the call
  flips,
  off            \* history variable: the flag was off during the pre-hook

hook == <<wired, enforcement, tool, worth, declared, pc, verdict, route, post, flips, off>>
vars == <<lvars, hook>>

Calls == Holds     \* the hold of a call has the call's name

Init ==
  /\ LInit
  /\ wired \in BOOLEAN /\ enforcement \in BOOLEAN
  /\ tool \in [Calls -> Tools] /\ worth \in [Calls -> Values]
  /\ declared \in [Calls -> BOOLEAN]
  /\ pc = [c \in Calls |-> "idle"]
  /\ verdict = [c \in Calls |-> "none"]
  /\ route = [c \in Calls |-> "none"]
  /\ post = [c \in Calls |-> "none"]
  /\ flips = 0
  /\ off = [c \in Calls |-> FALSE]

Becomes(c, where) == pc' = [pc EXCEPT ![c] = where]

-----------------------------------------------------------------------------
(* The router, for a handler that enforces.                                  *)

Classify(t) == IF t = "reader" THEN "reversible" ELSE "irreversible"

CheapGate(v) == IF v <= AutoAllow THEN "cheap_gate_allow"
                ELSE IF v >= AutoBlock THEN "cheap_gate_block" ELSE "hold_sync"

GreybandRoute(t, v) ==
  IF Classify(t) = "reversible" THEN "sandbox_async"
  ELSE IF v > 0 THEN CheapGate(v) ELSE "hold_sync"

-----------------------------------------------------------------------------
(* The pre-hook.                                                             *)

\* Faulty variant: only the tools listed as irreversible are.
ReversibilityByDefault(t) == IF t = "writer" THEN "irreversible" ELSE "reversible"

\* _get_reversibility
Reversibility(t) == IF t = "reader" THEN "reversible" ELSE "irreversible"

\* Faulty variant: an unlisted tool gets a route of its own.
RouteByTable(v, t) ==
  IF v # "grey_band" THEN "other"
  ELSE IF t = "unlisted" THEN "unknown"
  ELSE IF t = "reader" THEN "sandbox_async" ELSE "hold_sync"

\* The route the pipeline returns; those of the other verdicts are not read.
RouteOf(v, t) ==
  IF v # "grey_band" THEN "other"
  ELSE IF Reversibility(t) = "irreversible" THEN "hold_sync" ELSE "sandbox_async"

\* on_tool_start up to the pipeline: the intent gate.
OnToolStart(c) ==
  /\ pc[c] = "idle"
  /\ Becomes(c, IF ~declared[c] /\ enforcement THEN "refused"
                ELSE IF wired THEN "triage" ELSE "run")
  /\ off' = [off EXCEPT ![c] = ~enforcement]
  /\ UNCHANGED <<lvars, wired, enforcement, tool, worth, declared, verdict, route, post, flips>>

\* _enforce_or_observe, with the flag as it is by now.
Enforced(v, r) ==
  IF ~enforcement \/ v = "allow" THEN "run"
  ELSE IF v = "block" THEN "refused"
  ELSE IF r = "hold_sync" THEN "holding" ELSE "run"

TriageReturns(c, v) ==
  /\ pc[c] = "triage"
  /\ verdict' = [verdict EXCEPT ![c] = v]
  /\ route' = [route EXCEPT ![c] = RouteOf(v, tool[c])]
  /\ Becomes(c, Enforced(v, route'[c]))
  /\ UNCHANGED <<lvars, wired, enforcement, tool, worth, declared, post, flips, off>>

TriageRaises(c) ==
  /\ pc[c] = "triage"
  /\ Becomes(c, IF enforcement THEN "refused" ELSE "run")
  /\ UNCHANGED <<lvars, wired, enforcement, tool, worth, declared, verdict, route, post, flips, off>>

\* _trigger_hold posts the hold, or finds no analyst service.
Posts(c) ==
  /\ pc[c] = "holding" /\ post[c] = "none"
  /\ \E there \in BOOLEAN : post' = [post EXCEPT ![c] = IF there THEN "sent" ELSE "lost"]
  /\ UNCHANGED <<lvars, wired, enforcement, tool, worth, declared, pc, verdict, route, flips, off>>

\* The analyst service serves the POST, perhaps after the hook gave up on it.
Serves(c, t) ==
  /\ post[c] = "sent"
  /\ Place(c, t)
  /\ post' = [post EXCEPT ![c] = "served"]
  /\ UNCHANGED <<wired, enforcement, tool, worth, declared, pc, verdict, route, flips, off>>

\* Faulty variant: a call approved by the time the POST returns goes through.
RaisesUnlessApproved(c) ==
  /\ pc[c] = "holding" /\ post[c] # "none"
  /\ Becomes(c, IF status[c] = "approved" THEN "run" ELSE "refused")
  /\ UNCHANGED <<lvars, wired, enforcement, tool, worth, declared, verdict, route, post, flips, off>>

\* Whatever became of the POST within 2 s, the hook raises.
Raises(c) ==
  /\ pc[c] = "holding" /\ post[c] # "none"
  /\ Becomes(c, "refused")
  /\ UNCHANGED <<lvars, wired, enforcement, tool, worth, declared, verdict, route, post, flips, off>>

-----------------------------------------------------------------------------
RunsTool(c) ==
  /\ pc[c] = "run"
  /\ Becomes(c, "scan")
  /\ UNCHANGED <<lvars, wired, enforcement, tool, worth, declared, verdict, route, post, flips, off>>

\* on_tool_end
OnToolEnd(c) ==
  /\ pc[c] = "scan"
  /\ \E clean \in BOOLEAN : Becomes(c, IF clean \/ ~enforcement THEN "ended" ELSE "quarantined")
  /\ UNCHANGED <<lvars, wired, enforcement, tool, worth, declared, verdict, route, post, flips, off>>

\* The setter of enforcement, from any thread.
SetEnforcement ==
  /\ flips < MaxFlips
  /\ flips' = flips + 1
  /\ enforcement' = ~enforcement
  /\ off' = [c \in Calls |-> off[c] \/ (pc[c] = "triage" /\ enforcement)]
  /\ UNCHANGED <<lvars, wired, tool, worth, declared, pc, verdict, route, post>>

\* The analysts' side: decisions, expiry, a restart that forgets the holds and
\* breaks the connections, and time.
Analysts ==
  /\ \/ (\E h \in Holds, d \in Decisions : Decide(h, d)) /\ UNCHANGED post
     \/ (\E h \in Holds : status[h] = "pending" /\ Expire({h})) /\ UNCHANGED post
     \/ Forget /\ post' = [c \in Calls |-> IF post[c] = "sent" THEN "lost" ELSE post[c]]
     \/ clock < Horizon /\ Passes /\ UNCHANGED post
  /\ UNCHANGED <<wired, enforcement, tool, worth, declared, pc, verdict, route, flips, off>>

Next ==
  \/ \E c \in Calls :
       \/ OnToolStart(c) \/ TriageRaises(c) \/ Posts(c) \/ Raises(c)
       \/ RunsTool(c) \/ OnToolEnd(c)
       \/ \E v \in {"block", "grey_band", "allow"} : TriageReturns(c, v)
       \/ \E t \in Timeouts : Serves(c, t)
  \/ SetEnforcement
  \/ Analysts

Spec == Init /\ [][Next]_vars

-----------------------------------------------------------------------------
Ran(c) == pc[c] \in {"scan", "ended", "quarantined"}

(* Type invariant of the handler, its calls and their posts.                 *)
TypeOK ==
  /\ wired \in BOOLEAN /\ enforcement \in BOOLEAN
  /\ tool \in [Calls -> Tools] /\ worth \in [Calls -> Values]
  /\ declared \in [Calls -> BOOLEAN]
  /\ pc \in [Calls -> {"idle", "triage", "holding", "run", "scan",
                      "ended", "refused", "quarantined"}]
  /\ verdict \in [Calls -> {"none", "block", "grey_band", "allow"}]
  /\ route \in [Calls -> {"none", "other", "sandbox_async", "hold_sync"}]
  /\ post \in [Calls -> {"none", "sent", "served", "lost"}]
  /\ flips \in 0..MaxFlips
  /\ off \in [Calls -> BOOLEAN]
  /\ status \in [Holds -> Statuses] /\ due \in [Holds -> Nat] /\ clock \in Nat

(* Unless the flag was off at some moment of its pre-hook, a call runs only  *)
(* inside the agent's envelope and, where triage is wired, on "allow" or on  *)
(* a grey-band verdict of a call the router, with tables of its own, would   *)
(* neither hold nor block; and a call that ran was never put to an analyst,  *)
(* who may decide before the hook has heard of its POST (hooks.py            *)
(* on_tool_start, _enforce_or_observe, _trigger_hold; router.py route).      *)
OnlyClearedCallsRun ==
  \A c \in Calls : Ran(c) =>
    /\ post[c] = "none"
    /\ \/ off[c]
       \/ declared[c] /\ ~wired
       \/ declared[c] /\ verdict[c] = "allow"
       \/ /\ declared[c] /\ verdict[c] = "grey_band"
          /\ GreybandRoute(tool[c], worth[c]) \in {"sandbox_async", "cheap_gate_allow"}
=============================================================================
