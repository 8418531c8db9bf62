------------------------------ MODULE Gateway ------------------------------
(***************************************************************************)
(* The cognitive gateway (agentguard/gateway/service.py): the enforcement  *)
(* toggle, the /check handlers in progress and the feed of recent          *)
(* decisions.                                                              *)
(*                                                                         *)
(* A handler runs from one await to the next in one action; it awaits only *)
(* the triage service.  Transport and handlers take no time against the    *)
(* timeouts; the triage service may take up to the gateway's own timeout.  *)
(***************************************************************************)
EXTENDS Integers, SequencesExt

CONSTANTS
  Sessions,     \* runs of an agent or of a scripted scenario
  Steps,        \* bound: tool calls of a session
  MaxFeed,      \* size of the ring buffer _decisions (200)
  MaxFlips,     \* bound: how often the toggle is moved
  MaxCrashes    \* bound: how often the gateway dies

ASSUME GatewayAssumption ==
  /\ Steps \in Nat \ {0} /\ MaxFeed \in Nat \ {0}
  /\ MaxFlips \in Nat /\ MaxCrashes \in Nat

Calls == Sessions \X (1..Steps)

(***************************************************************************)
(* The timeouts of the HTTP clients, in units of 4 s: 10 s for the         *)
(* gateway's call of /triage.                                              *)
(***************************************************************************)
TriageTimeout == 3

TriageVerdicts == {"allow", "grey_band", "block"}
Refusals == {"denied", "block"}                 \* answered 403
Passes   == {"allow", "grey_band", "bypassed"}  \* answered 200
Replies  == Refusals \cup Passes \cup {"unavailable"}    \* 503

VARIABLES
  toggle,    \* the toggle file: enforcement is on
  up,        \* the gateway runs
  check,     \* check[c]: where the POST /check of call c is
  age,       \* age[c]: how long triage has had it
  reply,     \* reply[c]: what the gateway answered
  feed,      \* _decisions, newest first: <<type, call>>
  flips, crashes,
  off,       \* history variable: the toggle was off while c was in progress
  outage     \* history variable: c met a dead gateway or a failed triage

gateway == <<toggle, up, check, age, reply, feed, flips, crashes, off, outage>>

GatewayInit ==
  /\ toggle \in BOOLEAN
  /\ up = TRUE
  /\ check = [c \in Calls |-> "none"]
  /\ age = [c \in Calls |-> 0]
  /\ reply = [c \in Calls |-> "none"]
  /\ feed = <<>>
  /\ flips = 0 /\ crashes = 0
  /\ off = [c \in Calls |-> FALSE]
  /\ outage = [c \in Calls |-> FALSE]

\* Faulty variant: a deque without a maximal length.
RecordForever(type, c) == feed' = <<<<type, c>>>> \o feed

\* appendleft on a deque with a maximal length.
Record(type, c) ==
  feed' = LET longer == <<<<type, c>>>> \o feed
          IN  SubSeq(longer, 1, IF Len(longer) > MaxFeed THEN MaxFeed ELSE Len(longer))

\* An orphan's client has given up; its handler goes on by itself.
InTriage(c) == up /\ check[c] \in {"triage", "orphan"}

Answer(c, r) ==
  /\ check' = [check EXCEPT ![c] = IF @ = "orphan" THEN "closed" ELSE "answered"]
  /\ reply' = [reply EXCEPT ![c] = r]
  /\ age' = [age EXCEPT ![c] = 0]

\* Dormant, or refused by the intent gate: answered at once, nothing recorded.
Bypasses(c) ==
  /\ up /\ check[c] = "sent" /\ ~toggle
  /\ Answer(c, "bypassed")
  /\ UNCHANGED <<toggle, up, feed, flips, crashes, off, outage>>

IntentDenies(c) ==
  /\ up /\ check[c] = "sent" /\ toggle
  /\ Answer(c, "denied")
  /\ UNCHANGED <<toggle, up, feed, flips, crashes, off, outage>>

\* The intent gate passes: the handler awaits the triage service.
CallsTriage(c) ==
  /\ up /\ check[c] = "sent" /\ toggle
  /\ check' = [check EXCEPT ![c] = "triage"]
  /\ UNCHANGED <<toggle, up, age, reply, feed, flips, crashes, off, outage>>

\* Faulty variant: only blocks are recorded.
VerdictUnrecorded(c, v) ==
  /\ InTriage(c)
  /\ IF v = "block" THEN Record("pre_hook", c) ELSE UNCHANGED feed
  /\ Answer(c, v)
  /\ UNCHANGED <<toggle, up, flips, crashes, off, outage>>

\* Triage answers: the decision is recorded, then sent to the client.
VerdictArrives(c, v) ==
  /\ InTriage(c)
  /\ Record("pre_hook", c)
  /\ Answer(c, v)
  /\ UNCHANGED <<toggle, up, flips, crashes, off, outage>>

\* Triage fails, or takes too long: 503, nothing recorded.
TriageFails(c) ==
  /\ InTriage(c)
  /\ Answer(c, "unavailable")
  /\ outage' = [outage EXCEPT ![c] = TRUE]
  /\ UNCHANGED <<toggle, up, feed, flips, crashes, off>>

\* POST /admin/toggle
SetEnforcement(active) ==
  /\ up /\ flips < MaxFlips
  /\ toggle' = ~toggle
  /\ flips' = flips + 1
  /\ off' = [c \in Calls |-> off[c] \/ (c \in active /\ toggle)]
  /\ UNCHANGED <<up, check, age, reply, feed, crashes, outage>>

\* The process dies: the feed is gone and every open connection breaks.
Crash(active) ==
  /\ up /\ crashes < MaxCrashes
  /\ up' = FALSE
  /\ crashes' = crashes + 1
  /\ feed' = <<>>
  /\ check' = [c \in Calls |->
       IF check[c] \in {"sent", "triage", "answered"} THEN "broken"
       ELSE IF check[c] = "orphan" THEN "closed" ELSE check[c]]
  /\ outage' = [c \in Calls |-> outage[c] \/ c \in active]
  /\ age' = [c \in Calls |-> 0]
  /\ UNCHANGED <<toggle, reply, flips, off>>

Restart ==
  /\ ~up
  /\ up' = TRUE
  /\ UNCHANGED <<toggle, check, age, reply, feed, flips, crashes, off, outage>>

\* A client begins call c with a POST /check; without a gateway the connection
\* is refused.
Post(c) ==
  /\ check' = [check EXCEPT ![c] = IF up THEN "sent" ELSE "broken"]
  /\ off' = [off EXCEPT ![c] = ~toggle]
  /\ outage' = [outage EXCEPT ![c] = ~up]
  /\ UNCHANGED <<toggle, up, age, reply, feed, flips, crashes>>

\* The client has read the reply or gives up.
Close(c) ==
  /\ check' = [check EXCEPT ![c] = IF @ = "triage" THEN "orphan" ELSE "closed"]
  /\ UNCHANGED <<toggle, up, age, reply, feed, flips, crashes, off, outage>>

Received(c) == Bypasses(c) \/ IntentDenies(c) \/ CallsTriage(c)

TriageTimesOut(c) == age[c] >= TriageTimeout /\ TriageFails(c)

Handler(c) ==
  Received(c) \/ TriageFails(c) \/ \E v \in TriageVerdicts : VerdictArrives(c, v)
============================================================================
