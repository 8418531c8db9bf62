-------------------------- MODULE GuardedSessions --------------------------
(***************************************************************************)
(* The sessions the gateway guards: the chat agent (financeflow/web/       *)
(* chat.py), the web demo (web/app.py, demo_run) and the scripted          *)
(* scenarios behind the LangChain callback (integration/demo.py and        *)
(* gateway_callback.py).  Each asks /check before a tool runs and          *)
(* /v1/posthook/scan about its output.                                     *)
(***************************************************************************)
EXTENDS Gateway

CONSTANTS Tools, Sandboxed    \* Sandboxed: _SANDBOXED_TOOLS

ASSUME ToolsAssumption == Sandboxed \subseteq Tools

Kinds == {"chat", "demo", "callback"}

VARIABLES
  kind,      \* kind[s]
  guard,     \* guard[s]: the enforcement flag the client itself holds
  pc,        \* pc[s]
  step,      \* step[s]: the number of the current tool call
  tool,      \* tool[c]
  ran,       \* ran[c]: where the tool has run: nowhere, in the app, contained
  dirty,     \* dirty[c]: its output holds something post_hook would find
  shown,     \* shown[c]: what the agent got to see of it
  blocked    \* outcome["blocked"]: the last tool refused (chat)

client == <<kind, guard, pc, step, tool, ran, dirty, shown, blocked>>
vars == <<gateway, client>>

NoTool == "none"

Init ==
  /\ GatewayInit
  /\ kind \in [Sessions -> Kinds]
  /\ guard \in [Sessions -> BOOLEAN]
  /\ pc = [s \in Sessions |-> "start"]
  /\ step = [s \in Sessions |-> 0]
  /\ tool = [c \in Calls |-> NoTool]
  /\ ran = [c \in Calls |-> "no"]
  /\ dirty = [c \in Calls |-> FALSE]
  /\ shown = [c \in Calls |-> "none"]
  /\ blocked = [s \in Sessions |-> NoTool]

Current(s) == <<s, step[s]>>
Active == {Current(s) : s \in {q \in Sessions : pc[q] \in {"checking", "run", "scan"}}}

\* Faulty variant: the chat waits no longer than the callback.
ImpatientTimeout(k) == IF k = "demo" THEN 2 ELSE 1

\* The clients' timeouts for /check: 5 s, 8 s and 20 s in units of 4 s.
CheckTimeout(k) == IF k = "callback" THEN 1 ELSE IF k = "demo" THEN 2 ELSE 5

-----------------------------------------------------------------------------
\* The chat reads the toggle once per message; guarded if it cannot.
Starts(s) ==
  /\ pc[s] = "start"
  /\ guard' = [guard EXCEPT ![s] = IF kind[s] # "chat" THEN @ ELSE up => toggle]
  /\ pc' = [pc EXCEPT ![s] = "idle"]
  /\ UNCHANGED <<gateway, kind, step, tool, ran, dirty, shown, blocked>>

\* The next tool call.  An unguarded chat does not ask.
BeginsCall(s, t) ==
  /\ pc[s] = "idle" /\ step[s] < Steps
  /\ step' = [step EXCEPT ![s] = @ + 1]
  /\ tool' = [tool EXCEPT ![<<s, step[s] + 1>>] = t]
  /\ IF kind[s] = "chat" /\ ~guard[s]
       THEN pc' = [pc EXCEPT ![s] = "run"] /\ UNCHANGED gateway
       ELSE pc' = [pc EXCEPT ![s] = "checking"] /\ Post(<<s, step[s] + 1>>)
  /\ UNCHANGED <<kind, guard, ran, dirty, shown, blocked>>

\* Faulty variant: the script reports the refusal and takes its next step.
ReportsRefusal(s) == pc' = [pc EXCEPT ![s] = "idle"]

\* A refused call ends a script; the chat agent is told and goes on.
Refused(s) == pc' = [pc EXCEPT ![s] = IF kind[s] = "chat" THEN "idle" ELSE "ended"]

\* 403
ReadsRefusal(s) ==
  /\ pc[s] = "checking" /\ check[Current(s)] = "answered"
  /\ reply[Current(s)] \in Refusals
  /\ IF guard[s] THEN Refused(s) ELSE pc' = [pc EXCEPT ![s] = "run"]
  /\ blocked' = [blocked EXCEPT ![s] = IF kind[s] = "chat" THEN tool[Current(s)] ELSE @]
  /\ Close(Current(s))
  /\ UNCHANGED <<kind, guard, step, tool, ran, dirty, shown>>

\* Any other status, 503 included.
ReadsPass(s) ==
  /\ pc[s] = "checking" /\ check[Current(s)] = "answered"
  /\ reply[Current(s)] \notin Refusals
  /\ pc' = [pc EXCEPT ![s] = "run"]
  /\ Close(Current(s))
  /\ UNCHANGED <<kind, guard, step, tool, ran, dirty, shown, blocked>>

\* Faulty variant: a refused or broken connection is not caught.
GivesUpOnTimeout(s) ==
  check[Current(s)] = "triage" /\ age[Current(s)] >= CheckTimeout(kind[s])

GivesUp(s) ==
  \/ check[Current(s)] = "broken"
  \/ check[Current(s)] = "triage" /\ age[Current(s)] >= CheckTimeout(kind[s])

\* Faulty variant: nobody fails closed.
AlwaysFailsOpen(s) == TRUE

\* Who runs the tool although no answer came: the chat, and whoever does not
\* enforce.
FailsOpen(s) == kind[s] = "chat" \/ ~guard[s]

\* No answer.
CheckFails(s) ==
  /\ pc[s] = "checking" /\ GivesUp(s)
  /\ IF FailsOpen(s) THEN pc' = [pc EXCEPT ![s] = "run"] ELSE Refused(s)
  /\ Close(Current(s))
  /\ UNCHANGED <<kind, guard, step, tool, ran, dirty, shown, blocked>>

Contained(s) == kind[s] = "chat" /\ guard[s] /\ tool[Current(s)] \in Sandboxed

\* What the agent is shown of an output nobody scans.
Unscanned(s) ==
  /\ shown' = [shown EXCEPT ![Current(s)] = "raw"]
  /\ pc' = [pc EXCEPT ![s] = "idle"]

\* What PostHookProcessor.scan would find in the output of c: credentials,
\* secrets of high entropy, injections.
Outputs(c, findings) == dirty' = [dirty EXCEPT ![c] = findings]

\* The tool runs in the application.
RunsTool(s) ==
  /\ pc[s] = "run" /\ ~Contained(s)
  /\ ran' = [ran EXCEPT ![Current(s)] = "app"]
  /\ \E findings \in BOOLEAN : Outputs(Current(s), findings)
  /\ IF kind[s] = "chat" /\ ~guard[s]
       THEN Unscanned(s)
       ELSE pc' = [pc EXCEPT ![s] = "scan"] /\ UNCHANGED shown
  /\ UNCHANGED <<gateway, kind, guard, step, tool, blocked>>

\* POST /v1/sandbox/execute with enforcement on: promoted output may be dirty,
\* the text that replaces any other outcome is not.
RunsContained(s) ==
  /\ pc[s] = "run" /\ Contained(s) /\ up /\ toggle
  /\ \E verdict \in {"promoted", "killed", "blocked"} :
       /\ ran' = [ran EXCEPT ![Current(s)] = IF verdict = "blocked" THEN "no" ELSE "container"]
       /\ \E findings \in BOOLEAN : Outputs(Current(s), findings /\ verdict = "promoted")
  /\ Record("sandbox", Current(s))
  /\ pc' = [pc EXCEPT ![s] = "scan"]
  /\ UNCHANGED <<toggle, up, check, age, reply, flips, crashes, off, outage>>
  /\ UNCHANGED <<kind, guard, step, tool, shown, blocked>>

\* With enforcement off by now the app runs the code itself.
SandboxBypassed(s) ==
  /\ pc[s] = "run" /\ Contained(s) /\ up /\ ~toggle
  /\ ran' = [ran EXCEPT ![Current(s)] = "app"]
  /\ \E findings \in BOOLEAN : Outputs(Current(s), findings)
  /\ pc' = [pc EXCEPT ![s] = "scan"]
  /\ UNCHANGED <<gateway, kind, guard, step, tool, shown, blocked>>

\* The sandbox fails, before or after the code ran, or the gateway cannot be
\* reached: an error text stands in.
SandboxFails(s) ==
  /\ pc[s] = "run" /\ Contained(s) /\ (up => toggle)
  /\ \E where \in {"no", "container"} :
       /\ where = "container" => up
       /\ ran' = [ran EXCEPT ![Current(s)] = where]
  /\ pc' = [pc EXCEPT ![s] = "scan"]
  /\ UNCHANGED <<gateway, kind, guard, step, tool, dirty, shown, blocked>>

\* POST /v1/posthook/scan with enforcement on.
Scans(s) ==
  /\ pc[s] = "scan" /\ up /\ toggle
  /\ Record("post_hook", Current(s))
  /\ LET caught == dirty[Current(s)] /\ guard[s]
     IN  /\ shown' = [shown EXCEPT ![Current(s)] = IF caught THEN "quarantined" ELSE "raw"]
         /\ IF caught THEN Refused(s) ELSE pc' = [pc EXCEPT ![s] = "idle"]
  /\ UNCHANGED <<toggle, up, check, age, reply, flips, crashes, off, outage>>
  /\ UNCHANGED <<kind, guard, step, tool, ran, dirty, blocked>>

\* Faulty variant: a scan may be skipped at any time.
ScanSkippedAnyTime(s) ==
  /\ pc[s] = "scan"
  /\ Unscanned(s)
  /\ UNCHANGED <<gateway, kind, guard, step, tool, ran, dirty, blocked>>

\* Dormant or dead gateway: the scan is best-effort.
ScanSkipped(s) ==
  /\ pc[s] = "scan" /\ ~(up /\ toggle)
  /\ Unscanned(s)
  /\ UNCHANGED <<gateway, kind, guard, step, tool, ran, dirty, blocked>>

\* The agent is done, or the script has no step left.
Ends(s) ==
  /\ pc[s] = "idle" /\ (kind[s] = "chat" \/ step[s] = Steps)
  /\ pc' = [pc EXCEPT ![s] = "ended"]
  /\ UNCHANGED <<gateway, kind, guard, step, tool, ran, dirty, shown, blocked>>

-----------------------------------------------------------------------------
Session(s) ==
  \/ Starts(s) \/ (\E t \in Tools : BeginsCall(s, t))
  \/ ReadsRefusal(s) \/ ReadsPass(s) \/ CheckFails(s)
  \/ RunsTool(s) \/ RunsContained(s) \/ SandboxBypassed(s) \/ SandboxFails(s)
  \/ Scans(s) \/ ScanSkipped(s) \/ Ends(s)

Waiting(s) == pc[s] = "checking" /\ check[Current(s)] = "triage"

\* Time passes while someone waits for the triage service, and never beyond a
\* timeout: everything else happens at once.
Tick ==
  /\ \E c \in Calls : InTriage(c)
  /\ \A c \in Calls : check[c] \in {"none", "triage", "orphan", "closed"}
  /\ \A c \in Calls : InTriage(c) => age[c] < TriageTimeout
  /\ \A s \in Sessions : Waiting(s) => age[Current(s)] < CheckTimeout(kind[s])
  /\ age' = [c \in Calls |-> IF InTriage(c) THEN age[c] + 1 ELSE age[c]]
  /\ UNCHANGED <<toggle, up, check, reply, feed, flips, crashes, off, outage, client>>

Next ==
  \/ \E s \in Sessions : Session(s)
  \/ \E c \in Calls : Handler(c) /\ UNCHANGED client
  \/ (SetEnforcement(Active) \/ Crash(Active) \/ Restart) /\ UNCHANGED client
  \/ Tick

(***************************************************************************)
(* Clients and handlers run, and a timeout that is due fires.  Triage owes *)
(* no answer, and nobody has to move the toggle or restart the gateway.    *)
(***************************************************************************)
Fairness ==
  /\ \A s \in Sessions : WF_vars(Session(s))
  /\ \A c \in Calls : WF_vars((Received(c) \/ TriageTimesOut(c)) /\ UNCHANGED client)
  /\ WF_vars(Tick)

Spec == Init /\ [][Next]_vars /\ Fairness

-----------------------------------------------------------------------------
\* The calls of the sessions that enforce what the gateway says.
Guarded == {c \in Calls : pc[c[1]] # "start" /\ guard[c[1]]}
Ran(c) == ran[c] # "no"
OnRecord(type, c) == \E i \in DOMAIN feed : feed[i] = <<type, c>>

(* A call the gateway refused with 403 has not run and never will, whoever   *)
(* gave up waiting before the answer came: the gateway's 10 s for triage fit *)
(* into the chat's 20 s, and the scripts, which wait 5 s and 8 s, fail       *)
(* closed.  What is left is a refusal lost with the gateway's process        *)
(* (service.py gateway_check, chat.py _wrap_tool, gateway_callback.py        *)
(* on_tool_start, app.py demo_run).                                          *)
RefusedNeverRuns ==
  \A c \in Guarded : reply[c] \in Refusals /\ Ran(c) =>
    kind[c[1]] = "chat" /\ outage[c]

(* A guarded call that ran was allowed by triage, or the toggle was off or   *)
(* the gateway or triage was out at some moment between its check and its    *)
(* scan: slowness alone lets nothing through (the same code, and the toggle  *)
(* read by gateway_check and sandbox_execute).                               *)
SlownessLetsNothingThrough ==
  \A c \in Guarded : Ran(c) =>
    reply[c] \in {"allow", "grey_band"} \/ off[c] \/ outage[c]

(* While the gateway lives, the feed of /admin/status shows the verdict of   *)
(* every guarded call that ran, until the ring buffer, which is never longer *)
(* than it may be, pushes it out (service.py _record, maxlen=200).           *)
ExecutedIsOnRecord ==
  /\ Len(feed) <= MaxFeed
  /\ \A c \in Guarded :
       Ran(c) /\ ~off[c] /\ ~outage[c] /\ crashes = 0 /\ Len(feed) < MaxFeed
         => OnRecord("pre_hook", c)

(* An agent that enforces never sees output the post hook would quarantine,  *)
(* unless the toggle was off or the gateway or triage out during the call    *)
(* (service.py posthook_scan; chat.py 445-466, gateway_callback.py           *)
(* on_tool_end, app.py 441-467).                                             *)
QuarantineHolds ==
  \A c \in Guarded : dirty[c] /\ shown[c] = "raw" => off[c] \/ outage[c]

(* A guarded script runs nothing after the first of its calls that was       *)
(* refused, got no answer or was quarantined, though the later calls were    *)
(* never put to the gateway (demo.py run_scenario "kill chain stopped",      *)
(* app.py demo_run "kill_chain_stopped").                                    *)
KillChainStops ==
  \A c \in Guarded : \A d \in Calls :
    /\ kind[c[1]] # "chat" /\ d[1] = c[1] /\ d[2] > c[2]
    /\ Ran(d)
    => Ran(c) /\ shown[c] = "raw" /\ reply[c] \in Passes \cup {"unavailable"}

(* Every session ends, whatever the gateway, triage and the toggle do        *)
(* (timeouts and except clauses of the three clients).                       *)
EverySessionEnds == \A s \in Sessions : <>(pc[s] = "ended")
============================================================================
