----------------------------- MODULE ProxyFlow -----------------------------
(***************************************************************************)
(* The TLS proxy: the request and response hooks of the mitmproxy addon    *)
(* (agentguard/proxy/addon.py) and the handler of /v1/proxy/check they     *)
(* call (agentguard/gateway/service.py).                                   *)
(*                                                                         *)
(* Every hook has a thread of its own.  It waits for the gateway at most   *)
(* 5 s, the handler for the triage service up to 10 s, so an answer may    *)
(* come too late.  mitmproxy itself is external: it forwards a request     *)
(* whose hook sets no response, and one whose hook raised.                 *)
(***************************************************************************)
EXTENDS Integers, SequencesExt

CONSTANTS
  Flows,        \* requests that pass the proxy
  MaxFlips,     \* bound: how often the toggle is moved
  MaxCrashes    \* bound: how often the gateway dies

ASSUME ProxyAssumption == MaxFlips \in Nat /\ MaxCrashes \in Nat

(***************************************************************************)
(* What the hook sees in a request: a host that is not on the allowlist;   *)
(* no agent and no tool; a body that is JSON but no object, on which       *)
(* parse_envelope raises; a tool that is no string, for which the gateway  *)
(* answers 422; a call of an agent.                                        *)
(***************************************************************************)
Kinds == {"foreign", "plain", "unreadable", "malformed", "call"}

VARIABLES
  default,   \* AGENTGUARD_ENFORCEMENT in the environment of the proxy
  toggle,    \* the toggle file, which only the gateway reads
  up,        \* the gateway runs
  kind,      \* kind[f]: what the request is
  fate,      \* fate[f]: where the flow is, or what became of it
  handler,   \* handler[f]: the gateway's handler of its check
  reply,     \* reply[f]: what the gateway answered
  feed,      \* _decisions: <<flow, verdict>>
  flips, crashes,
  on         \* history variable: enforcement was on while f was being checked

proxy   == <<default, kind, fate>>
gateway == <<toggle, up, handler, reply, feed, flips, crashes>>
vars    == <<proxy, gateway, on>>

Init ==
  /\ default \in BOOLEAN /\ toggle \in BOOLEAN
  /\ up = TRUE
  /\ kind = [f \in Flows |-> "none"]
  /\ fate = [f \in Flows |-> "none"]
  /\ handler = [f \in Flows |-> "none"]
  /\ reply = [f \in Flows |-> "none"]
  /\ feed = <<>>
  /\ flips = 0 /\ crashes = 0
  /\ on = [f \in Flows |-> FALSE]

Asking(f)   == fate[f] = "asking"
InTriage(f) == up /\ handler[f] = "triage"

Becomes(f, end) == fate' = [fate EXCEPT ![f] = end]

-----------------------------------------------------------------------------
OnAllowlist(k) == k # "foreign"
IsAsked(k)     == k \in {"malformed", "call"}

\* The request hook, and its POST if it makes one; a gateway that is down
\* refuses the connection.
Request(f, k) ==
  /\ fate[f] = "none"
  /\ kind' = [kind EXCEPT ![f] = k]
  /\ Becomes(f, IF ~ OnAllowlist(k) THEN "blocked"
                ELSE IF IsAsked(k) THEN "asking" ELSE "forwarded")
  /\ handler' = [handler EXCEPT ![f] = IF IsAsked(k) /\ ~up THEN "lost" ELSE "none"]
  /\ on' = [on EXCEPT ![f] = toggle]
  /\ UNCHANGED <<default, toggle, up, reply, feed, flips, crashes>>

\* Faulty variant: a gateway that does not answer is taken for one that passes.
NoVerdictPasses(f) ==
  /\ Asking(f)
  /\ Becomes(f, "forwarded")
  /\ UNCHANGED <<default, kind, gateway, on>>

\* Faulty variant: the call has no timeout.
NoVerdictWhenDown(f) ==
  /\ Asking(f) /\ ~up
  /\ Becomes(f, IF default THEN "blocked" ELSE "forwarded")
  /\ UNCHANGED <<default, kind, gateway, on>>

\* The call fails, or takes longer than 5 s.
NoVerdict(f) ==
  /\ Asking(f)
  /\ Becomes(f, IF default THEN "blocked" ELSE "forwarded")
  /\ UNCHANGED <<default, kind, gateway, on>>

\* Faulty variant: whatever is no plain "allow" is blocked.
VerdictReadStrictly(f) ==
  /\ Asking(f) /\ up /\ reply[f] # "none"
  /\ Becomes(f, IF reply[f] = "allow" THEN "forwarded" ELSE "blocked")
  /\ UNCHANGED <<default, kind, gateway, on>>

\* The answer is read; one without an action counts as "allow".
Verdict(f) ==
  /\ Asking(f) /\ up /\ reply[f] # "none"
  /\ Becomes(f, IF reply[f] = "block" THEN "blocked" ELSE "forwarded")
  /\ UNCHANGED <<default, kind, gateway, on>>

\* The response hook; a body of another type, or an empty one, is not scanned.
Response(f, scanned, findings) ==
  /\ fate[f] = "forwarded"
  /\ Becomes(f, IF scanned /\ findings /\ default THEN "quarantined" ELSE "delivered")
  /\ UNCHANGED <<default, kind, gateway, on>>

-----------------------------------------------------------------------------
Answers(f, r) ==
  /\ handler' = [handler EXCEPT ![f] = "answered"]
  /\ reply' = [reply EXCEPT ![f] = r]

Unanswered(f) == up /\ Asking(f) /\ handler[f] = "none"

\* POST /v1/proxy/check: 422, dormant, or refused by the intent gate.
Rejects(f) ==
  /\ Unanswered(f) /\ kind[f] = "malformed"
  /\ Answers(f, "invalid")
  /\ UNCHANGED <<proxy, toggle, up, feed, flips, crashes, on>>

Bypasses(f) ==
  /\ Unanswered(f) /\ kind[f] = "call" /\ ~toggle
  /\ Answers(f, "bypassed")
  /\ UNCHANGED <<proxy, toggle, up, feed, flips, crashes, on>>

\* Faulty variant: what the intent gate refuses is in the feed too.
IntentDeniesOnRecord(f) ==
  /\ Unanswered(f) /\ kind[f] = "call" /\ toggle
  /\ feed' = Append(feed, <<f, "denied">>)
  /\ Answers(f, "block")
  /\ UNCHANGED <<proxy, toggle, up, flips, crashes, on>>

IntentDenies(f) ==
  /\ Unanswered(f) /\ kind[f] = "call" /\ toggle
  /\ Answers(f, "block")
  /\ UNCHANGED <<proxy, toggle, up, feed, flips, crashes, on>>

CallsTriage(f) ==
  /\ Unanswered(f) /\ kind[f] = "call" /\ toggle
  /\ handler' = [handler EXCEPT ![f] = "triage"]
  /\ UNCHANGED <<proxy, toggle, up, reply, feed, flips, crashes, on>>

\* Faulty variant: the toggle is read again when the verdict is there.
VerdictArrivesReread(f, v) ==
  /\ InTriage(f)
  /\ feed' = Append(feed, <<f, v>>)
  /\ Answers(f, IF v = "block" /\ ~toggle THEN "allow" ELSE v)
  /\ UNCHANGED <<proxy, toggle, up, flips, crashes, on>>

\* The verdict is recorded and answered, also when nobody waits any more.
VerdictArrives(f, v) ==
  /\ InTriage(f)
  /\ feed' = Append(feed, <<f, v>>)
  /\ Answers(f, v)
  /\ UNCHANGED <<proxy, toggle, up, flips, crashes, on>>

\* Triage fails or takes longer than 10 s: blocked, nothing recorded.
TriageFails(f) ==
  /\ InTriage(f)
  /\ Answers(f, "block")
  /\ UNCHANGED <<proxy, toggle, up, feed, flips, crashes, on>>

SetEnforcement ==
  /\ up /\ flips < MaxFlips
  /\ toggle' = ~toggle
  /\ flips' = flips + 1
  /\ on' = [f \in Flows |-> on[f] \/ (Asking(f) /\ ~toggle)]
  /\ UNCHANGED <<proxy, up, handler, reply, feed, crashes>>

\* The process dies, with its handlers and the feed.
Crash ==
  /\ up /\ crashes < MaxCrashes
  /\ up' = FALSE
  /\ crashes' = crashes + 1
  /\ feed' = <<>>
  /\ handler' = [f \in Flows |-> IF Asking(f) \/ handler[f] = "triage" THEN "lost"
                                 ELSE handler[f]]
  /\ reply' = [f \in Flows |-> IF Asking(f) THEN "none" ELSE reply[f]]
  /\ UNCHANGED <<proxy, toggle, flips, on>>

Restart ==
  /\ ~up
  /\ up' = TRUE
  /\ UNCHANGED <<proxy, toggle, handler, reply, feed, flips, crashes, on>>

-----------------------------------------------------------------------------
Next ==
  \/ \E f \in Flows :
       \/ \E k \in Kinds : Request(f, k)
       \/ NoVerdict(f) \/ Verdict(f)
       \/ \E scanned, findings \in BOOLEAN : Response(f, scanned, findings)
       \/ Rejects(f) \/ Bypasses(f) \/ IntentDenies(f) \/ CallsTriage(f)
       \/ \E v \in {"allow", "block"} : VerdictArrives(f, v)
       \/ TriageFails(f)
  \/ SetEnforcement \/ Crash \/ Restart

(* The proxy's client times out; nothing is assumed of anyone else.          *)
Spec == Init /\ [][Next]_vars /\ \A f \in Flows : WF_vars(NoVerdict(f))

-----------------------------------------------------------------------------
(* Type invariant of the flows, the handlers and the feed.                   *)
TypeOK ==
  /\ default \in BOOLEAN /\ toggle \in BOOLEAN /\ up \in BOOLEAN
  /\ kind \in [Flows -> Kinds \cup {"none"}]
  /\ fate \in [Flows -> {"none", "asking", "blocked", "forwarded", "quarantined", "delivered"}]
  /\ handler \in [Flows -> {"none", "triage", "answered", "lost"}]
  /\ reply \in [Flows -> {"none", "invalid", "bypassed", "allow", "block"}]
  /\ feed \in Seq(Flows \X {"allow", "block"})
  /\ flips \in 0..MaxFlips /\ crashes \in 0..MaxCrashes
  /\ on \in [Flows -> BOOLEAN]

Passed(f) == fate[f] \in {"forwarded", "quarantined", "delivered"}

(* With enforcement the default of the proxy, a call goes out only if the    *)
(* gateway said so, whatever was slow, crashed or switched (addon.py 91-124).*)
NothingSlipsThrough ==
  default => \A f \in Flows : Passed(f) /\ kind[f] = "call" => reply[f] \in {"allow", "bypassed"}

(* A call the feed shows as blocked did not go out, although enforcement may *)
(* have gone off since and the proxy may have stopped waiting (addon.py      *)
(* 91-124 with service.py 236-327).                                          *)
FeedIsObeyed ==
  \A f \in Flows : default /\ <<f, "block">> \in ToSet(feed) => ~ Passed(f)

(* With both switches off throughout, no call to an allowed host is blocked  *)
(* or quarantined, although the gateway may be down (addon.py 93-154).       *)
OffLetsCallsPass ==
  \A f \in Flows :
    ~ default /\ ~ on[f] /\ OnAllowlist(kind[f]) => fate[f] \notin {"blocked", "quarantined"}

(* Every call is blocked or let through, however long triage takes or the    *)
(* gateway is away (addon.py 167-175).                                       *)
EveryCallIsDecided == \A f \in Flows : Asking(f) ~> ~ Asking(f)

============================================================================
