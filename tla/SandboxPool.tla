---------------------------- MODULE SandboxPool ----------------------------
(***************************************************************************)
(* The sandbox of the gateway (agentguard/sandbox/pool.py, executor.py,    *)
(* manager.py, and _get_sandbox of gateway/service.py): jobs that run in   *)
(* single-use containers, taken from a pre-warmed pool per tier or started *)
(* on demand, and the tasks that replenish the pools.                      *)
(*                                                                         *)
(* A coroutine runs from one await to the next in one action.  What it     *)
(* awaits are calls of Docker, which end in any order and may fail.        *)
(***************************************************************************)
EXTENDS Integers, FiniteSets, SequencesExt

CONSTANTS
  Jobs,         \* requests of /v1/sandbox/execute with enforcement on
  Containers,   \* container ids, given out in order
  PoolSize      \* POOL_SIZE (2)

ASSUME PoolAssumption == Containers \subseteq Nat /\ PoolSize \in Nat \ {0}

Tiers == {"docker", "gvisor"}
NoBox == -1

VARIABLES
  client,    \* there is a Docker client
  kvm,       \* AGENTGUARD_SANDBOX_MODE = gvisor
  floor,     \* floor[j]: requires_gvisor_floor
  mgr,       \* the SandboxManager: "none", the tier being warmed, or "ready"
  warmed,    \* how many starts of that tier have ended
  pool,      \* pool[t]: the queue of warm containers
  life,      \* life[c]: "none", "alive", "stuck" (removal failed) or "removed"
  runtime,   \* runtime[c]: the tier c was started with
  pc,        \* pc[j]: what the handler of j awaits
  box,       \* box[j]: the container of j
  verdict,   \* verdict[j]: promote_or_kill
  answer,    \* answer[j]: the verdict sent to the client
  rep,       \* rep[j]: the replenish task created when j ended
  spare,     \* spare[j]: the container that task has to kill
  used,      \* history variable: used[c], the jobs that got c
  failed     \* history variable: failed[t], starts for pool[t] that failed

manager == <<client, kvm, floor, mgr, warmed>>
docker  == <<life, runtime>>
job     == <<pc, box, verdict, answer>>
refill  == <<rep, spare>>
vars == <<manager, pool, docker, job, refill, used, failed>>

Init ==
  /\ client \in BOOLEAN /\ kvm \in BOOLEAN
  /\ floor \in [Jobs -> BOOLEAN]
  /\ mgr = "none" /\ warmed = 0
  /\ pool = [t \in Tiers |-> <<>>]
  /\ life = [c \in Containers |-> "none"]
  /\ runtime = [c \in Containers |-> "none"]
  /\ pc = [j \in Jobs |-> "idle"]
  /\ box = [j \in Jobs |-> NoBox]
  /\ verdict = [j \in Jobs |-> "none"]
  /\ answer = [j \in Jobs |-> "none"]
  /\ rep = [j \in Jobs |-> "none"]
  /\ spare = [j \in Jobs |-> NoBox]
  /\ used = [c \in Containers |-> {}]
  /\ failed = [t \in Tiers |-> 0]

\* Faulty variant: every job runs with the executor of the docker pool.
DefaultTier(j) == "docker"

\* The tier whose pool j uses; run_sandboxed refuses a floor it cannot meet.
TierOf(j) == IF floor[j] THEN "gvisor" ELSE "docker"
Blocked(j) == floor[j] /\ ~kvm

\* Docker starts a container nobody has seen before.
Fresh(c) == life[c] = "none" /\ \A d \in Containers : life[d] = "none" => c <= d
Starts(c, t) ==
  /\ Fresh(c)
  /\ life' = [life EXCEPT ![c] = "alive"]
  /\ runtime' = [runtime EXCEPT ![c] = t]

-----------------------------------------------------------------------------
(* The manager, built and initialized under a lock by the first job.         *)

Arrives(j) ==
  /\ pc[j] = "idle"
  /\ pc' = [pc EXCEPT ![j] = "manager"]
  /\ mgr' = IF mgr # "none" THEN mgr ELSE IF client THEN "docker" ELSE "ready"
  /\ UNCHANGED <<client, kvm, floor, warmed, pool, docker, box, verdict, answer>>
  /\ UNCHANGED <<refill, used, failed>>

\* Faulty variant: a failed start ends the initialization for good.
WarmOrRaise ==
  IF pool'[mgr] = pool[mgr] THEN mgr' = "none" /\ warmed' = 0
  ELSE IF warmed + 1 < PoolSize THEN mgr' = mgr /\ warmed' = warmed + 1
  ELSE /\ mgr' = IF mgr = "docker" /\ kvm THEN "gvisor" ELSE "ready"
       /\ warmed' = 0

\* PoolSize starts for each tier, one after the other, whatever fails.
WarmNext ==
  IF warmed + 1 < PoolSize THEN mgr' = mgr /\ warmed' = warmed + 1
  ELSE /\ mgr' = IF mgr = "docker" /\ kvm THEN "gvisor" ELSE "ready"
       /\ warmed' = 0

Warms ==
  /\ mgr \in Tiers
  /\ \/ \E c \in Containers :
          /\ Starts(c, mgr)
          /\ pool' = [pool EXCEPT ![mgr] = Append(@, c)]
          /\ UNCHANGED failed
     \/ /\ failed' = [failed EXCEPT ![mgr] = @ + 1]
        /\ UNCHANGED <<docker, pool>>
  /\ WarmNext
  /\ UNCHANGED <<client, kvm, floor, job, refill, used>>

-----------------------------------------------------------------------------
(* One job: run_sandboxed and execute.                                       *)

Runs(j, c) ==
  /\ box' = [box EXCEPT ![j] = c]
  /\ used' = [used EXCEPT ![c] = @ \cup {j}]
  /\ pc' = [pc EXCEPT ![j] = "exec"]

Refuses(j, v) ==
  /\ answer' = [answer EXCEPT ![j] = v]
  /\ pc' = [pc EXCEPT ![j] = "done"]

\* The floor cannot be met, or there is no Docker at all.
Declines(j) ==
  /\ pc[j] = "manager" /\ mgr = "ready"
  /\ Blocked(j) \/ ~client
  /\ Refuses(j, IF Blocked(j) THEN "blocked" ELSE "error")
  /\ UNCHANGED <<manager, pool, docker, box, verdict, refill, used, failed>>

\* checkout: a warm container, or the start of another.
ChecksOut(j) ==
  /\ pc[j] = "manager" /\ mgr = "ready" /\ client /\ ~Blocked(j)
  /\ IF pool[TierOf(j)] # <<>>
       THEN /\ Runs(j, Head(pool[TierOf(j)]))
            /\ pool' = [pool EXCEPT ![TierOf(j)] = Tail(@)]
       ELSE /\ pc' = [pc EXCEPT ![j] = "checkout"]
            /\ UNCHANGED <<box, used, pool>>
  /\ UNCHANGED <<manager, docker, verdict, answer, refill, failed>>

StartsForJob(j) ==
  /\ pc[j] \in {"checkout", "ondemand"}
  /\ \E c \in Containers : Starts(c, TierOf(j)) /\ Runs(j, c)
  /\ UNCHANGED <<manager, pool, verdict, answer, refill, failed>>

\* The pool could not start one: the executor tries once more itself.
TriesAgain(j) ==
  /\ pc[j] = "checkout"
  /\ pc' = [pc EXCEPT ![j] = "ondemand"]
  /\ UNCHANGED <<manager, pool, docker, box, verdict, answer, refill, used, failed>>

NoContainer(j) ==
  /\ pc[j] = "ondemand"
  /\ Refuses(j, "error")
  /\ rep' = [rep EXCEPT ![j] = "queued"]
  /\ UNCHANGED <<manager, pool, docker, box, verdict, spare, used, failed>>

\* What two snapshots show of the container; one that fails counts as no
\* change at all.
Suspicious(dirty, snapshot) == dirty /\ snapshot

\* The execution ends: well, with an error exit, after 30 s, or with an
\* exception of Docker.
PromoteOrKill(end, dirty, snapshot) ==
  IF Suspicious(dirty, snapshot) \/ end = "failed" THEN "killed" ELSE "promoted"

Ends(j) ==
  /\ pc[j] = "exec"
  /\ \E end \in {"ok", "failed", "timeout", "raised"}, dirty, snapshot \in BOOLEAN :
       verdict' = [verdict EXCEPT ![j] = PromoteOrKill(end, dirty, snapshot)]
  /\ pc' = [pc EXCEPT ![j] = "remove"]
  /\ UNCHANGED <<manager, pool, docker, box, answer, refill, used, failed>>

Gone == {"removed", "stuck"}

\* Faulty variant: a container that was promoted goes back to its pool.
ReturnsPromoted(j) ==
  /\ pc[j] = "remove"
  /\ IF verdict[j] = "promoted" /\ Len(pool[TierOf(j)]) < PoolSize
       THEN pool' = [pool EXCEPT ![TierOf(j)] = Append(@, box[j])] /\ UNCHANGED life
       ELSE /\ \E l \in Gone : life' = [life EXCEPT ![box[j]] = l]
            /\ UNCHANGED pool
  /\ Refuses(j, verdict[j])
  /\ rep' = [rep EXCEPT ![j] = "queued"]
  /\ UNCHANGED <<manager, runtime, box, verdict, spare, used, failed>>

\* The container is removed, or Docker fails and nobody hears of it; the
\* replenish task is created and the verdict sent.
Removes(j) ==
  /\ pc[j] = "remove"
  /\ \E l \in Gone : life' = [life EXCEPT ![box[j]] = l]
  /\ Refuses(j, verdict[j])
  /\ rep' = [rep EXCEPT ![j] = "queued"]
  /\ UNCHANGED <<manager, pool, runtime, box, verdict, spare, used, failed>>

-----------------------------------------------------------------------------
(* The replenish task of a job.                                              *)

\* Faulty variant: off by one.
NeedsTwo(t) == Len(pool[t]) + 1 < PoolSize

NeedsOne(t) == Len(pool[t]) < PoolSize

Replenishes(j) ==
  /\ rep[j] = "queued"
  /\ rep' = [rep EXCEPT ![j] = IF NeedsOne(TierOf(j)) THEN "starting" ELSE "done"]
  /\ UNCHANGED <<manager, pool, docker, job, spare, used, failed>>

\* Faulty variant: a container the queue has no room for is forgotten.
PutsOrForgets(j) ==
  /\ rep[j] = "starting"
  /\ \E c \in Containers :
       /\ Starts(c, TierOf(j))
       /\ pool' = [pool EXCEPT ![TierOf(j)] = IF NeedsOne(TierOf(j)) THEN Append(@, c) ELSE @]
  /\ rep' = [rep EXCEPT ![j] = "done"]
  /\ UNCHANGED <<manager, job, spare, used, failed>>

\* Faulty variant: the queue has no maximal size.
PutsUnchecked(j) ==
  /\ rep[j] = "starting"
  /\ \E c \in Containers :
       /\ Starts(c, TierOf(j))
       /\ pool' = [pool EXCEPT ![TierOf(j)] = Append(@, c)]
  /\ rep' = [rep EXCEPT ![j] = "done"]
  /\ UNCHANGED <<manager, job, spare, used, failed>>

Puts(j) ==
  /\ rep[j] = "starting"
  /\ \E c \in Containers :
       /\ Starts(c, TierOf(j))
       /\ IF Len(pool[TierOf(j)]) < PoolSize
            THEN /\ pool' = [pool EXCEPT ![TierOf(j)] = Append(@, c)]
                 /\ rep' = [rep EXCEPT ![j] = "done"]
                 /\ UNCHANGED spare
            ELSE /\ rep' = [rep EXCEPT ![j] = "killing"]
                 /\ spare' = [spare EXCEPT ![j] = c]
                 /\ UNCHANGED pool
  /\ UNCHANGED <<manager, job, used, failed>>

StartFails(j) ==
  /\ rep[j] = "starting"
  /\ rep' = [rep EXCEPT ![j] = "done"]
  /\ failed' = [failed EXCEPT ![TierOf(j)] = @ + 1]
  /\ UNCHANGED <<manager, pool, docker, job, spare, used>>

KillsSpare(j) ==
  /\ rep[j] = "killing"
  /\ \E l \in Gone : life' = [life EXCEPT ![spare[j]] = l]
  /\ rep' = [rep EXCEPT ![j] = "done"]
  /\ UNCHANGED <<manager, pool, runtime, job, spare, used, failed>>

-----------------------------------------------------------------------------
Handler(j) ==
  \/ Declines(j) \/ ChecksOut(j) \/ StartsForJob(j) \/ TriesAgain(j)
  \/ NoContainer(j) \/ Ends(j) \/ Removes(j)

Replenisher(j) == Replenishes(j) \/ Puts(j) \/ StartFails(j) \/ KillsSpare(j)

Next == Warms \/ \E j \in Jobs : Arrives(j) \/ Handler(j) \/ Replenisher(j)

(* Every call of Docker ends, by its own timeout or the executor's 30 s, and *)
(* the loop resumes whoever awaited it.                                      *)
Fairness ==
  /\ WF_vars(Warms)
  /\ \A j \in Jobs : WF_vars(Handler(j)) /\ WF_vars(Replenisher(j))

Spec == Init /\ [][Next]_vars /\ Fairness

-----------------------------------------------------------------------------
Pooled(t) == ToSet(pool[t])
Holds(j)  == pc[j] \in {"exec", "remove"}

(* Nobody loses a container: one that is alive is warm in the pool of its    *)
(* runtime, held by a job that will remove it, or held by a replenish task   *)
(* that found the queue full and will kill it; and a job that requires the   *)
(* gVisor floor never holds one of the weaker runtime, whichever pool or     *)
(* start it got it from (executor.py 118-124 and 198-207, pool.py 89-97,     *)
(* manager.py 93-99).                                                        *)
NoneForgotten ==
  \A c \in Containers : life[c] = "alive" =>
    \/ \E t \in Tiers : c \in Pooled(t) /\ runtime[c] = t
    \/ \E j \in Jobs : Holds(j) /\ box[j] = c /\ (floor[j] => runtime[c] = "gvisor")
    \/ \E j \in Jobs : rep[j] = "killing" /\ spare[j] = c

(* A pool is refilled, and never overfilled, however checkouts and replenish *)
(* tasks interleave: what it lacks is no more than the jobs that hold a      *)
(* container, the replenish tasks under way and the starts that failed; with *)
(* none of these it is full (pool.py 80-97: the size is looked at before the *)
(* start is awaited).                                                        *)
Outstanding(t) ==
  {j \in Jobs : TierOf(j) = t /\ (Holds(j) \/ rep[j] \in {"queued", "starting"})}
PoolRecovers ==
  mgr = "ready" /\ client =>
    \A t \in Tiers : (t = "gvisor" => kvm) =>
      PoolSize - Len(pool[t]) \in 0..(Cardinality(Outstanding(t)) + failed[t])

(* The pool implements the promise: containers are single-use and every job  *)
(* is answered once, and as run only when it had a container.                *)
Promised == INSTANCE SingleUse WITH
  life <- [c \in Containers |->
             IF life[c] = "none" THEN "none"
             ELSE IF life[c] = "removed" THEN "gone"
             ELSE IF used[c] = {} THEN "fresh" ELSE "used"],
  owner <- used
ImplementsSingleUse == Promised!Promise

(* Every job that arrives is answered, whatever fails.                       *)
EveryJobAnswered == \A j \in Jobs : pc[j] = "manager" ~> answer[j] # "none"
============================================================================
