----------------------------- MODULE HoldQueue -----------------------------
(***************************************************************************)
(* The analyst hold queue (agentguard/analyst/queue.py and service.py):    *)
(* holds posted by the gateway hooks, analysts who decide from a page they *)
(* loaded earlier, the reaper that expires what nobody decided, and a      *)
(* service that loses its memory when it restarts.                         *)
(*                                                                         *)
(* The service is one asyncio loop and no critical section of HoldQueue    *)
(* awaits inside the lock, so each of its operations is one action.        *)
(***************************************************************************)
EXTENDS Integers

CONSTANTS
  Holds,      \* hold ids: uuid4 of each POST /holds, never reused
  Analysts,   \* browsers showing the dashboard
  Timeouts,   \* values of timeout_seconds
  Period,     \* the reaper's sleep (5 s)
  Slack,      \* how late the loop may serve the reaper's timer
  LastPost,   \* bound: no hold is posted later
  Horizon     \* bound: the clock stops here

ASSUME QueueAssumption ==
  /\ Timeouts \subseteq Nat
  /\ Period \in Nat \ {0} /\ Slack \in Nat
  /\ LastPost \in Nat /\ Horizon \in Nat

Decisions == {"approved", "rejected"}

NoHold == [status |-> "absent", created_at |-> 0, timeout |-> 0, resolved_at |-> 0]

VARIABLES
  up,         \* the analyst service runs
  holds,      \* _holds
  posted,     \* ids of the POSTs served so far
  now,        \* time.monotonic, in units of the model
  wake,       \* when the reaper's sleep is over
  page,       \* page[a]: the pending holds on a's dashboard
  answered    \* history variable: decisions answered 200, <<analyst, hold, decision>>

vars == <<up, holds, posted, now, wake, page, answered>>

Init ==
  /\ up = TRUE
  /\ holds = [h \in Holds |-> NoHold]
  /\ posted = {}
  /\ now = 0
  /\ wake = Period
  /\ page = [a \in Analysts |-> {}]
  /\ answered = {}

Pending(h) == holds[h].status = "pending"

\* elapsed_seconds >= timeout_seconds
IsExpired(h) == now - holds[h].created_at >= holds[h].timeout

\* Faulty variant: a hold without a timeout stores -1.
SubmitUnbounded(h, t) ==
  /\ up /\ h \notin posted /\ now <= LastPost
  /\ posted' = posted \cup {h}
  /\ holds' = [holds EXCEPT ![h] = [status |-> "pending", created_at |-> now,
                                    timeout |-> -1, resolved_at |-> 0]]
  /\ UNCHANGED <<up, now, wake, page, answered>>

\* POST /holds: submit()
Submit(h, t) ==
  /\ up /\ h \notin posted /\ now <= LastPost
  /\ posted' = posted \cup {h}
  /\ holds' = [holds EXCEPT ![h] = [status |-> "pending", created_at |-> now,
                                    timeout |-> t, resolved_at |-> 0]]
  /\ UNCHANGED <<up, now, wake, page, answered>>

\* GET /: the dashboard shows buttons for the pending holds.
Dashboard(a) ==
  /\ up
  /\ page' = [page EXCEPT ![a] = {h \in Holds : Pending(h)}]
  /\ UNCHANGED <<up, holds, posted, now, wake, answered>>

\* Faulty variant: the status is not looked at again.
ResolveAnyway(a, h, decision) ==
  /\ up /\ h \in page[a]
  /\ holds[h].status # "absent"
  /\ holds' = [holds EXCEPT ![h].status = decision, ![h].resolved_at = now]
  /\ answered' = answered \cup {<<a, h, decision>>}
  /\ page' = [page EXCEPT ![a] = @ \ {h}]
  /\ UNCHANGED <<up, posted, now, wake>>

\* POST /holds/{id}/approve or /reject: resolve(), for a hold on the page
Resolve(a, h, decision) ==
  /\ up /\ h \in page[a]
  /\ Pending(h)
  /\ holds' = [holds EXCEPT ![h].status = decision, ![h].resolved_at = now]
  /\ answered' = answered \cup {<<a, h, decision>>}
  /\ page' = [page EXCEPT ![a] = @ \ {h}]
  /\ UNCHANGED <<up, posted, now, wake>>

\* The same for a hold that is gone or decided: 404.
ResolveFails(a, h) ==
  /\ up /\ h \in page[a]
  /\ ~Pending(h)
  /\ page' = [page EXCEPT ![a] = @ \ {h}]
  /\ UNCHANGED <<up, holds, posted, now, wake, answered>>

\* Faulty variant: one hold at a time.
ExpireFirst ==
  /\ up /\ now >= wake
  /\ LET stale == {h \in Holds : Pending(h) /\ IsExpired(h)}
     IN  \/ stale = {} /\ UNCHANGED holds
         \/ \E h \in stale : holds' = [holds EXCEPT ![h].status = "expired",
                                                    ![h].resolved_at = now]
  /\ wake' = now + Period
  /\ UNCHANGED <<up, posted, now, page, answered>>

\* Faulty variant: is_expired is not asked.
ExpireAll ==
  /\ up /\ now >= wake
  /\ holds' = [h \in Holds |->
       IF Pending(h)
         THEN [holds[h] EXCEPT !.status = "expired", !.resolved_at = now]
         ELSE holds[h]]
  /\ wake' = now + Period
  /\ UNCHANGED <<up, posted, now, page, answered>>

\* Faulty variant: the reaper runs once.
ExpireOnce ==
  /\ up /\ now >= wake
  /\ holds' = [h \in Holds |->
       IF Pending(h) /\ IsExpired(h)
         THEN [holds[h] EXCEPT !.status = "expired", !.resolved_at = now]
         ELSE holds[h]]
  /\ wake' = Horizon + 1
  /\ UNCHANGED <<up, posted, now, page, answered>>

\* The reaper: expire_stale(), then sleep again.
ExpireStale ==
  /\ up /\ now >= wake
  /\ holds' = [h \in Holds |->
       IF Pending(h) /\ IsExpired(h)
         THEN [holds[h] EXCEPT !.status = "expired", !.resolved_at = now]
         ELSE holds[h]]
  /\ wake' = now + Period
  /\ UNCHANGED <<up, posted, now, page, answered>>

Crash ==
  /\ up
  /\ up' = FALSE
  /\ holds' = [h \in Holds |-> NoHold]
  /\ UNCHANGED <<posted, now, wake, page, answered>>

Restart ==
  /\ ~up
  /\ up' = TRUE
  /\ wake' = now + Period
  /\ UNCHANGED <<holds, posted, now, page, answered>>

\* A running loop serves the reaper's timer at most Slack late.
Tick ==
  /\ now < Horizon
  /\ up => now < wake + Slack
  /\ now' = now + 1
  /\ UNCHANGED <<up, holds, posted, wake, page, answered>>

Next ==
  \/ \E h \in Holds, t \in Timeouts : Submit(h, t)
  \/ \E a \in Analysts : Dashboard(a)
  \/ \E a \in Analysts, h \in Holds :
       ResolveFails(a, h) \/ \E d \in Decisions : Resolve(a, h, d)
  \/ ExpireStale \/ Crash \/ Restart \/ Tick

(* Time passes and the loop runs the reaper; no analyst has to decide, and   *)
(* nobody has to restart the service.                                        *)
Spec == Init /\ [][Next]_vars /\ WF_vars(Tick) /\ WF_vars(ExpireStale)

-----------------------------------------------------------------------------
(* Properties.                                                               *)

(* Type invariant of the queue and its clients.                              *)
TypeOK ==
  /\ up \in BOOLEAN
  /\ holds \in [Holds -> [status : {"absent", "pending", "expired"} \cup Decisions,
                         created_at : Nat, timeout : Nat, resolved_at : Nat]]
  /\ posted \subseteq Holds
  /\ now \in Nat /\ wake \in Nat
  /\ page \in [Analysts -> SUBSET Holds]
  /\ answered \subseteq Analysts \X Holds \X Decisions

(* A hold is decided once: of all the clicks on stale dashboards, before and *)
(* after restarts, one is answered 200, and the reaper never overrides it.   *)
DecisionStands ==
  \A x \in answered :
    /\ \A y \in answered : x[2] = y[2] => x = y
    /\ holds[x[2]].status \in {x[3], "absent"}

(* A hold whose time is over does not stay pending: the reaper gets to it    *)
(* within one period and its own lateness, whatever was posted meanwhile.    *)
ExpiryIsPrompt ==
  \A h \in Holds :
    up /\ Pending(h) => now <= holds[h].created_at + holds[h].timeout + Period + Slack

(* Every pending hold is decided, expires, or is lost in a crash.            *)
NothingPendsForever == \A h \in Holds : Pending(h) ~> ~Pending(h)

(* The queue implements the life cycle: decided at most once, expired only   *)
(* when its time is over, approved never after it expired.                   *)
LC == INSTANCE HoldLifecycle WITH
        status <- [h \in Holds |-> holds[h].status],
        due    <- [h \in Holds |-> holds[h].created_at + holds[h].timeout],
        clock  <- now
ImplementsLifecycle == LC!Lifecycle
=============================================================================
