--------------------------- MODULE TriagePipeline ---------------------------
(***************************************************************************)
(* The triage service (agentguard/triage/pipeline.py with the stages of    *)
(* agentguard/stages/): the evaluation of concurrent requests of one       *)
(* session on one asyncio event loop.                                      *)
(*                                                                         *)
(* The loop is the FIFO queue "ready" of steps <<request, task>>.  A step  *)
(* runs from one suspension to the next, so what a coroutine does without  *)
(* awaiting is one action.  OPA, Redis and the timers act on their own and *)
(* append the step that resumes the waiting task.                          *)
(***************************************************************************)
EXTENDS Policy, SequencesExt

CONSTANTS
  Requests,      \* the calls sent to /triage, each evaluated once
  Callers,       \* who may send them: records of an agent and a role
  Tools,         \* tool names
  Chains,        \* RECON_SEQUENCES: each element, a part of a name, is the set of
                 \* the tools it occurs in
  RecentWindow,  \* how many recorded calls the kill-chain check looks at (10)
  PriorWindow,   \* how many recorded calls the escalation check looks at (5)
  S2Scores, S4Scores,  \* what stages 2 and 4 may answer
  OpaFaults      \* what stage 3 may answer without a decision: None when OPA fails,
                 \* Denial when it has no policies loaded

ASSUME PipelineAssumption ==
  /\ S2Scores \subseteq Score /\ S4Scores \subseteq Score /\ OpaFaults \subseteq {None, Denial}
  /\ RecentWindow \in Nat \ {0} /\ PriorWindow \in Nat \ {0}
  /\ NoName \notin Tools /\ Chains \subseteq Seq(SUBSET Tools)

\* The names stage 5 compares tools with, whole.
READ_TOOLS  == {"get_account", "query_transactions", "read_customer_pii", "run_report",
                "fetch_market_data", "compress_data"}
WRITE_TOOLS == {"transfer_funds", "send_email", "post_external", "execute_code"}

Scored == {"s2", "s3", "s4", "s5"}
Tasks  == Scored \cup {"ev"}              \* "ev": the evaluate() coroutine
TaskState == {"none", "ready", "waiting", "replied", "done", "cancelled"}

VARIABLES
  redis,     \* there is a Redis client (a failed ping at start-up leaves it in place)
  ready,     \* the event loop's queue of steps to run
  caller,    \* caller[r]: the agent that sends request r and the role it claims
  tool,      \* tool[r]: the tool request r calls
  ev,        \* what evaluate() of r is doing: the stage it awaits, or a phase
  task,      \* task[r][s]: the asyncio task of stage s
  out,       \* out[r]: the sub-scores the stages of r have returned
  result,    \* result[r]: what /triage answered
  hop,       \* hop[r]: the Redis round trip stage 5 of r is at (0: none yet)
  job,       \* job[r]: the thread that runs it
  timed,     \* timed[r]: the 3 ms timer of stage 5 has fired
  stamped,   \* requests in the order of the now_ms stage 5 gave them
  recorded,  \* requests whose entry is in the session's sorted set
  seen,      \* seen[r]: the recorded requests stage 5 of r read
  flooded,   \* flooded[r]: the rate count it read exceeds RATE_LIMIT_MAX
  before     \* history variable: the requests answered before r arrived

loop  == <<redis, ready, ev, task, result>>
stage5 == <<hop, job, timed, stamped, recorded, seen, flooded>>
vars == <<loop, caller, tool, out, stage5, before>>

NoResult == [verdict |-> "none", scores |-> NoScores]

Init ==
  /\ redis \in BOOLEAN
  /\ ready = <<>>
  /\ caller \in [Requests -> Callers]
  /\ tool \in [Requests -> Tools]
  /\ ev = [r \in Requests |-> "idle"]
  /\ task = [r \in Requests |-> [s \in Scored |-> "none"]]
  /\ out = [r \in Requests |-> NoScores]
  /\ result = [r \in Requests |-> NoResult]
  /\ hop = [r \in Requests |-> 0]
  /\ job = [r \in Requests |-> "none"]
  /\ timed = [r \in Requests |-> FALSE]
  /\ stamped = <<>>
  /\ recorded = {}
  /\ seen = [r \in Requests |-> {}]
  /\ flooded = [r \in Requests |-> FALSE]
  /\ before = [r \in Requests |-> {}]

-----------------------------------------------------------------------------
(* The event loop.                                                           *)

Next1(r, t) == ready # <<>> /\ Head(ready) = <<r, t>>

Answered == {q \in Requests : result[q] # NoResult}

\* POST /triage: the server schedules the handler's coroutine.
Arrive(r) ==
  /\ ev[r] = "idle"
  /\ ev' = [ev EXCEPT ![r] = "queued"]
  /\ ready' = Append(ready, <<r, "ev">>)
  /\ before' = [before EXCEPT ![r] = Answered]
  /\ UNCHANGED <<redis, task, result, caller, tool, out, stage5>>

\* Faulty variant: the behavioral stage is started before the gate decides.
Stage1RejectsLate(r) ==
  /\ Next1(r, "ev") /\ ev[r] = "queued" /\ ~Identified(caller[r], tool[r])
  /\ ready' = Append(Tail(ready), <<r, "s5">>)
  /\ task' = [task EXCEPT ![r].s5 = "ready"]
  /\ ev' = [ev EXCEPT ![r] = "done"]
  /\ result' = [result EXCEPT ![r] = [verdict |-> "block_stage1", scores |-> NoScores]]
  /\ UNCHANGED <<redis, caller, tool, out, stage5, before>>

\* Stage 1 rejects the caller: the answer is final and no task is created.
Stage1Rejects(r) ==
  /\ Next1(r, "ev") /\ ev[r] = "queued" /\ ~Identified(caller[r], tool[r])
  /\ ready' = Tail(ready)
  /\ ev' = [ev EXCEPT ![r] = "done"]
  /\ result' = [result EXCEPT ![r] = [verdict |-> "block_stage1", scores |-> NoScores]]
  /\ UNCHANGED <<redis, task, caller, tool, out, stage5, before>>

\* Stage 1 passes: the four tasks are created in order and stage 2 awaited.
CreateTasks(r) ==
  /\ Next1(r, "ev") /\ ev[r] = "queued" /\ Identified(caller[r], tool[r])
  /\ ready' = Tail(ready) \o <<<<r, "s2">>, <<r, "s3">>, <<r, "s4">>, <<r, "s5">>>>
  /\ task' = [task EXCEPT ![r] = [s \in Scored |-> "ready"]]
  /\ ev' = [ev EXCEPT ![r] = "s2"]
  /\ UNCHANGED <<redis, result, caller, tool, out, stage5, before>>

\* Task s of r returns x; evaluate() is woken when it awaits s.
Return(r, s, x) ==
  /\ task' = [task EXCEPT ![r][s] = "done"]
  /\ out' = [out EXCEPT ![r][s] = x]
  /\ ready' = Tail(ready) \o (IF ev[r] = s THEN <<<<r, "ev">>>> ELSE <<>>)
  /\ UNCHANGED <<redis, ev, result, caller, tool, before>>

-----------------------------------------------------------------------------
(* The stages.                                                               *)

\* Stage 2 scans the payload without suspending.
RunStage2(r) ==
  /\ Next1(r, "s2") /\ task[r].s2 = "ready"
  /\ \E x \in S2Scores : Return(r, "s2", x)
  /\ UNCHANGED stage5

\* Stage 3 posts the call to OPA and suspends.
RunStage3(r) ==
  /\ Next1(r, "s3") /\ task[r].s3 = "ready"
  /\ task' = [task EXCEPT ![r].s3 = "waiting"]
  /\ ready' = Tail(ready)
  /\ UNCHANGED <<redis, ev, result, caller, tool, out, stage5, before>>

\* OPA answers, fails, or the client's 2 s run out: the task can resume.
OpaReplies(r) ==
  /\ task[r].s3 = "waiting"
  /\ task' = [task EXCEPT ![r].s3 = "replied"]
  /\ ready' = Append(ready, <<r, "s3">>)
  /\ UNCHANGED <<redis, ev, result, caller, tool, out, stage5, before>>

Stage3Returns(r) ==
  /\ Next1(r, "s3") /\ task[r].s3 = "replied"
  /\ \E x \in {PolicyScore(caller[r].role, tool[r])} \cup OpaFaults : Return(r, "s3", x)
  /\ UNCHANGED stage5

\* Stage 4 embeds and queries synchronously: the loop runs nothing else.
RunStage4(r) ==
  /\ Next1(r, "s4") /\ task[r].s4 = "ready"
  /\ \E x \in S4Scores : Return(r, "s4", x)
  /\ UNCHANGED stage5

\* Without a Redis client stage 5 is unavailable.
Stage5Suspended(r) ==
  /\ Next1(r, "s5") /\ task[r].s5 = "ready" /\ ~redis
  /\ Return(r, "s5", None)
  /\ UNCHANGED stage5

\* Stage 5 stamps the call and hands the recording to a thread.
StartStage5(r) ==
  /\ Next1(r, "s5") /\ task[r].s5 = "ready" /\ redis
  /\ stamped' = Append(stamped, r)
  /\ hop' = [hop EXCEPT ![r] = 1]
  /\ job' = [job EXCEPT ![r] = "flying"]
  /\ task' = [task EXCEPT ![r].s5 = "waiting"]
  /\ ready' = Tail(ready)
  /\ UNCHANGED <<redis, ev, result, caller, tool, out, timed, recorded, seen, flooded, before>>

\* The effect of round trip hop[r]: record the call, read the history, count
\* the agent's calls of the last minute (its other sessions count as well, so
\* either outcome is possible).
RoundTrip(r) ==
  \/ /\ hop[r] = 1
     /\ recorded' = recorded \cup {r}
     /\ UNCHANGED <<seen, flooded>>
  \/ /\ hop[r] = 2
     /\ seen' = [seen EXCEPT ![r] = recorded]
     /\ UNCHANGED <<recorded, flooded>>
  \/ /\ hop[r] = 3
     /\ \E b \in BOOLEAN : flooded' = [flooded EXCEPT ![r] = b]
     /\ UNCHANGED <<recorded, seen>>

\* The thread's Redis call completes while stage 5 waits for it.
RedisReplies(r) ==
  /\ job[r] = "flying" /\ task[r].s5 = "waiting"
  /\ RoundTrip(r)
  /\ job' = [job EXCEPT ![r] = "none"]
  /\ task' = [task EXCEPT ![r].s5 = "replied"]
  /\ ready' = Append(ready, <<r, "s5">>)
  /\ UNCHANGED <<redis, ev, result, caller, tool, out, hop, timed, stamped, before>>

\* It raises: the recording may have reached Redis all the same.
RedisFails(r) ==
  /\ job[r] = "flying" /\ task[r].s5 = "waiting"
  /\ recorded' = recorded \/ (hop[r] = 1 /\ recorded' = recorded \cup {r})
  /\ job' = [job EXCEPT ![r] = "failed"]
  /\ task' = [task EXCEPT ![r].s5 = "replied"]
  /\ ready' = Append(ready, <<r, "s5">>)
  /\ UNCHANGED <<redis, ev, result, caller, tool, out, hop, timed, stamped, seen, flooded, before>>

\* A thread whose coroutine is gone still runs, unless it had not started.
Abandoned(r) == IF job[r] = "flying" /\ hop[r] = 1 THEN "orphan" ELSE "none"

\* Faulty variant: the timer cancels the analysis without waking the stage.
Stage5TimerLost(r) ==
  /\ task[r].s5 \in {"waiting", "replied"} /\ ~timed[r]
  /\ timed' = [timed EXCEPT ![r] = TRUE]
  /\ job' = [job EXCEPT ![r] = Abandoned(r)]
  /\ task' = [task EXCEPT ![r].s5 = "replied"]
  /\ UNCHANGED <<redis, ready, ev, result, caller, tool, out, hop, stamped, recorded, seen, flooded, before>>

\* wait_for's 3 ms are over before the analysis is.
Stage5Timer(r) ==
  /\ task[r].s5 \in {"waiting", "replied"} /\ ~timed[r]
  /\ timed' = [timed EXCEPT ![r] = TRUE]
  /\ job' = [job EXCEPT ![r] = Abandoned(r)]
  /\ task' = [task EXCEPT ![r].s5 = "replied"]
  /\ ready' = IF task[r].s5 = "waiting" THEN Append(ready, <<r, "s5">>) ELSE ready
  /\ UNCHANGED <<redis, ev, result, caller, tool, out, hop, stamped, recorded, seen, flooded, before>>

OrphanRecords(r) ==
  /\ job[r] = "orphan"
  /\ job' = [job EXCEPT ![r] = "none"]
  /\ recorded' = recorded \/ recorded' = recorded \cup {r}
  /\ UNCHANGED <<loop, caller, tool, out, hop, timed, stamped, seen, flooded, before>>

\* Requests stamped after q.
Later(q) == {p \in Requests :
               \E i, j \in DOMAIN stamped : i < j /\ stamped[i] = q /\ stamped[j] = p}

\* Faulty variant: off by one, the oldest call of the window is dropped.
LastButOldest(r, n) == {q \in seen[r] : Cardinality(Later(q) \cap seen[r]) < n - 1}

\* The last n of the calls stage 5 of r read of the session's sorted set.
LastSeen(r, n) == {q \in seen[r] : Cardinality(Later(q) \cap seen[r]) < n}

\* A subsequence of the last calls read, and once more the current one, has
\* the parts of chain in its names.
SequencePresent(r, chain) ==
  LET recent  == {i \in DOMAIN stamped : stamped[i] \in LastSeen(r, RecentWindow)}
      current == Len(stamped) + 1
  IN  \E at \in [DOMAIN chain -> recent \cup {current}] :
        /\ \A i, j \in DOMAIN chain : i < j => at[i] < at[j]
        /\ \A i \in DOMAIN chain :
             (IF at[i] = current THEN tool[r] ELSE tool[stamped[at[i]]]) \in chain[i]

\* The last calls read, the current one among them unless later ones pushed it
\* out, were all reads, and the current one writes: by whole names, so never of
\* a tool in the registry, whose names end in _tool.
Escalates(r) ==
  LET prior == {tool[q] : q \in LastSeen(r, PriorWindow)}
  IN  prior # {} /\ prior \subseteq READ_TOOLS /\ tool[r] \in WRITE_TOOLS

BehavioralScore(r) ==
  IF flooded[r] THEN 80
  ELSE IF \E chain \in Chains : SequencePresent(r, chain) THEN 90
  ELSE IF Escalates(r) THEN 65
  ELSE 5

\* Stage 5 resumes: it times out, fails, starts the next round trip or scores.
Stage5GivesUp(r) ==
  /\ Next1(r, "s5") /\ task[r].s5 = "replied"
  /\ timed[r] \/ job[r] = "failed"
  /\ Return(r, "s5", None)
  /\ UNCHANGED stage5

\* Faulty variant: no end to the round trips.
Stage5KeepsGoing(r) ==
  /\ Next1(r, "s5") /\ task[r].s5 = "replied" /\ ~timed[r] /\ job[r] # "failed"
  /\ hop' = [hop EXCEPT ![r] = @ + 1]
  /\ job' = [job EXCEPT ![r] = "flying"]
  /\ task' = [task EXCEPT ![r].s5 = "waiting"]
  /\ ready' = Tail(ready)
  /\ UNCHANGED <<redis, ev, result, caller, tool, out, timed, stamped, recorded, seen, flooded, before>>

Stage5Continues(r) ==
  /\ Next1(r, "s5") /\ task[r].s5 = "replied" /\ ~timed[r] /\ job[r] # "failed"
  /\ hop[r] < 3
  /\ hop' = [hop EXCEPT ![r] = @ + 1]
  /\ job' = [job EXCEPT ![r] = "flying"]
  /\ task' = [task EXCEPT ![r].s5 = "waiting"]
  /\ ready' = Tail(ready)
  /\ UNCHANGED <<redis, ev, result, caller, tool, out, timed, stamped, recorded, seen, flooded, before>>

Stage5Scores(r) ==
  /\ Next1(r, "s5") /\ task[r].s5 = "replied" /\ ~timed[r] /\ job[r] # "failed"
  /\ hop[r] = 3
  /\ Return(r, "s5", BehavioralScore(r))
  /\ UNCHANGED stage5

\* A task cancelled while its step was queued: the step only unwinds it.
Unwind(r, s) ==
  /\ Next1(r, s) /\ task[r][s] = "cancelled"
  /\ ready' = Tail(ready)
  /\ UNCHANGED <<redis, ev, task, result, caller, tool, out, stage5, before>>

-----------------------------------------------------------------------------
(* evaluate() after stage 1.                                                 *)

\* Stage 2 is certain: the unfinished tasks are cancelled and the call blocked.
ShortCircuits(r) ==
  /\ Next1(r, "ev") /\ ev[r] = "s2" /\ out[r].s2 >= ShortCircuit
  /\ task' = [task EXCEPT ![r] =
                [s \in Scored |-> IF @[s] = "done" THEN "done" ELSE "cancelled"]]
  /\ job' = [job EXCEPT ![r] = Abandoned(r)]
  /\ result' = [result EXCEPT ![r] =
                  LET sc == [NoScores EXCEPT !.s2 = out[r].s2]
                  IN  [verdict |-> Verdict(sc), scores |-> sc]]
  /\ ev' = [ev EXCEPT ![r] = "done"]
  /\ ready' = Tail(ready)
  /\ UNCHANGED <<redis, caller, tool, out, hop, timed, stamped, recorded, seen, flooded, before>>

\* Faulty variant: the behavioral stage is not waited for.
UnfinishedButS5(r) == {s \in {"s3", "s4"} : task[r][s] # "done"}

\* Awaiting a finished task does not suspend: evaluate() goes on to the first
\* unfinished one.
Unfinished(r) == {s \in {"s3", "s4", "s5"} : task[r][s] # "done"}

AwaitNext(r) ==
  /\ Next1(r, "ev") /\ ev[r] \in Scored /\ ~(ev[r] = "s2" /\ out[r].s2 >= ShortCircuit)
  /\ Unfinished(r) # {}
  /\ ev' = [ev EXCEPT ![r] = IF "s3" \in Unfinished(r) THEN "s3"
                             ELSE IF "s4" \in Unfinished(r) THEN "s4" ELSE "s5"]
  /\ ready' = Tail(ready)
  /\ UNCHANGED <<redis, task, result, caller, tool, out, stage5, before>>

CompositeScores(r) ==
  /\ Next1(r, "ev") /\ ev[r] \in Scored /\ ~(ev[r] = "s2" /\ out[r].s2 >= ShortCircuit)
  /\ Unfinished(r) = {}
  /\ result' = [result EXCEPT ![r] = [verdict |-> Verdict(out[r]), scores |-> out[r]]]
  /\ ev' = [ev EXCEPT ![r] = "done"]
  /\ ready' = Tail(ready)
  /\ UNCHANGED <<redis, task, caller, tool, out, stage5, before>>

-----------------------------------------------------------------------------
LoopStep(r) ==
  \/ Stage1Rejects(r) \/ CreateTasks(r)
  \/ RunStage2(r) \/ RunStage3(r) \/ Stage3Returns(r) \/ RunStage4(r)
  \/ Stage5Suspended(r) \/ StartStage5(r) \/ Stage5GivesUp(r)
  \/ Stage5Continues(r) \/ Stage5Scores(r)
  \/ \E s \in Scored : Unwind(r, s)
  \/ ShortCircuits(r) \/ AwaitNext(r) \/ CompositeScores(r)

Redis(r) == RedisReplies(r) \/ RedisFails(r) \/ OrphanRecords(r)

Next == \E r \in Requests :
          Arrive(r) \/ LoopStep(r) \/ OpaReplies(r) \/ Redis(r) \/ Stage5Timer(r)

(***************************************************************************)
(* The loop runs every queued step; OPA's client gives up after 2 s and    *)
(* stage 5 after 3 ms, so each wait ends.  Nobody has to send a request,   *)
(* and Redis owes no answer.                                               *)
(***************************************************************************)
Fairness ==
  /\ WF_vars(\E r \in Requests : LoopStep(r))
  /\ \A r \in Requests : WF_vars(OpaReplies(r)) /\ WF_vars(Stage5Timer(r))

Spec == Init /\ [][Next]_vars /\ Fairness

-----------------------------------------------------------------------------
(* Properties.                                                               *)

(* Type invariant of the event loop, the stages and the session history.     *)
TypeOK ==
  /\ redis \in BOOLEAN
  /\ ready \in Seq(Requests \X Tasks)
  /\ caller \in [Requests -> Callers]
  /\ tool \in [Requests -> Tools]
  /\ ev \in [Requests -> {"idle", "queued", "done"} \cup Scored]
  /\ task \in [Requests -> [Scored -> TaskState]]
  /\ out \in [Requests -> StageScores]
  /\ result \in [Requests -> [verdict : Verdicts \cup {"none"}, scores : StageScores]]
  /\ hop \in [Requests -> 0..3]
  /\ job \in [Requests -> {"none", "flying", "failed", "orphan"}]
  /\ timed \in [Requests -> BOOLEAN]
  /\ stamped \in Seq(Requests)
  /\ recorded \in SUBSET Requests
  /\ seen \in [Requests -> SUBSET Requests]
  /\ flooded \in [Requests -> BOOLEAN]
  /\ before \in [Requests -> SUBSET Requests]

Voters(sc) == {s \in Scored : sc[s] >= TauC}

(* The headline invariant of README.md:74: a composite block takes at least  *)
(* two voting stages, and the only single-signal block is Stage 2 at 0.95.   *)
(* It must survive every order in which the stages return, time out or are   *)
(* cancelled, since those decide which sub-scores reach the engine.          *)
CompositeNeedsTwoVoters ==
  \A r \in Requests :
    /\ result[r].verdict = "block" =>
         \E s, t \in Voters(result[r].scores) : s # t
    /\ result[r].verdict = "block_short_circuit" =>
         out[r].s2 >= ShortCircuit

(* scoring/model.py:34-36: an unavailable stage never raises R, so the       *)
(* verdict of an answered call would not have been more severe had any one   *)
(* of its stages timed out or failed.                                        *)
DegradationNeverEscalates ==
  \A r \in Answered, s \in Scored :
    result[r].verdict # "block_stage1" =>
      Severity(Verdict(Degraded(result[r].scores, s))) <= Severity(result[r].verdict)

(* No output is lost between the loop's steps: the engine is given exactly   *)
(* what the four stages returned, never a stage that has not finished yet.   *)
AnswerUsesEveryStage ==
  \A r \in Answered :
    result[r].verdict \notin {"block_stage1", "block_short_circuit"} =>
      /\ \A s \in Scored : task[r][s] = "done"
      /\ result[r].scores = out[r]

(* Stage 5 exists to see a chain that spreads over calls (README.md:8): when *)
(* every earlier call of a chain was answered, with its behaviour scored,    *)
(* before the call that completes the chain arrived, that call is flagged,   *)
(* whatever other calls of the session run beside it, unless they push the   *)
(* earlier ones out of the window or stage 5 itself is unavailable.          *)
CompletedChainIsFlagged ==
  \A r \in Answered, chain \in Chains :
    ( /\ result[r].verdict \notin {"block_stage1", "block_short_circuit"}
      /\ out[r].s5 # None
      /\ tool[r] \in chain[Len(chain)]
      /\ \E call \in [1..(Len(chain) - 1) -> before[r]] :
           /\ \A i \in DOMAIN call :
                /\ tool[call[i]] \in chain[i] /\ out[call[i]].s5 # None
                /\ Cardinality(Later(call[i])) < RecentWindow
                /\ \A j \in DOMAIN call : j < i => call[j] \in before[call[i]] )
    => out[r].s5 >= TauC

(* What the role policy denies is not allowed and leaves no trace in the     *)
(* session's history, also while OPA is down or has no policies loaded.      *)
(* Stage 3 cannot see to it: its denial alone weighs 0.225 at the tools'     *)
(* risk, below the 0.25 of ALLOW.  It is the gate of stage 1, with its own   *)
(* copy of the table ("matches their declared tool envelopes exactly",       *)
(* agent_registry.py:58), that must.                                         *)
DeniedIsNeverAllowed ==
  \A r \in Requests :
    tool[r] \notin RoleTools(caller[r].role) =>
      result[r].verdict # "allow" /\ r \notin recorded

(* Every call sent to /triage is answered, whatever OPA and Redis do.        *)
EveryCallIsAnswered ==
  \A r \in Requests : ev[r] = "queued" ~> ev[r] = "done"

-----------------------------------------------------------------------------
(* Statements of the repository that the service does not live up to.        *)

\* The registered tools that only read, and those that write or execute.
Reads  == {"get_account_tool", "query_transactions_tool", "read_customer_pii_tool",
           "run_report_tool", "fetch_market_data_tool", "compress_data_tool"}
Writes == ToolNames \ Reads

(* stages/stage5_behavioral.py:8 lists scope escalation, read-only to write  *)
(* or execute, among what stage 5 detects: a write whose session has only    *)
(* read before it, its own calls answered, is flagged.                       *)
EscalationIsFlagged ==
  \A r \in Answered :
    ( /\ result[r].verdict \notin {"block_stage1", "block_short_circuit"}
      /\ out[r].s5 # None /\ tool[r] \in Writes
      /\ recorded \ {r} # {} /\ recorded \ {r} \subseteq before[r]
      /\ \A q \in recorded \ {r} : tool[q] \in Reads /\ out[q].s5 # None )
    => out[r].s5 >= TauC
=============================================================================
