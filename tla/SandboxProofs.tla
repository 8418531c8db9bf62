--------------------------- MODULE SandboxProofs ---------------------------
(***************************************************************************)
(* Safety of the sandbox, for any jobs, any containers and any size of the *)
(* pools, and its promise of single-use containers.                        *)
(***************************************************************************)
EXTENDS SandboxPool, FiniteSetTheorems, TLAPS

(* Types of all variables.                                                   *)
SandboxType ==
  /\ client \in BOOLEAN /\ kvm \in BOOLEAN /\ floor \in [Jobs -> BOOLEAN]
  /\ mgr \in Tiers \cup {"none", "ready"} /\ warmed \in Nat
  /\ pool \in [Tiers -> Seq(Containers)]
  /\ life \in [Containers -> {"none", "alive", "stuck", "removed"}]
  /\ runtime \in [Containers -> Tiers \cup {"none"}]
  /\ pc \in [Jobs -> {"idle", "manager", "checkout", "ondemand", "exec", "remove", "done"}]
  /\ box \in [Jobs -> Containers \cup {NoBox}]
  /\ verdict \in [Jobs -> {"none", "promoted", "killed"}]
  /\ answer \in [Jobs -> {"none", "promoted", "killed", "blocked", "error"}]
  /\ rep \in [Jobs -> {"none", "queued", "starting", "killing", "done"}]
  /\ spare \in [Jobs -> Containers \cup {NoBox}]
  /\ used \in [Containers -> SUBSET Jobs]
  /\ failed \in [Tiers -> Nat]

\* c runs, was started with t, and the jobs in js got it.
Is(c, t, js) == life[c] = "alive" /\ runtime[c] = t /\ used[c] = js

Becomes(c, t, js) == life'[c] = "alive" /\ runtime'[c] = t /\ used'[c] = js

(* A warm container runs with the runtime of its pool, nobody has used it,   *)
(* and it is queued once.                                                    *)
WarmInv ==
  \A t \in Tiers : \A i \in DOMAIN pool[t] :
    /\ Is(pool[t][i], t, {})
    /\ \A k \in DOMAIN pool[t] : k # i => pool[t][k] # pool[t][i]

(* A job holds a container of its own tier that no other job ever had.       *)
HeldInv ==
  \A j \in Jobs : Holds(j) => box[j] \in Containers /\ Is(box[j], TierOf(j), {j})

(* A container to be killed is unused, not queued, and one task's alone.     *)
SpareInv ==
  \A j \in Jobs : rep[j] = "killing" =>
    /\ spare[j] \in Containers /\ Is(spare[j], TierOf(j), {})
    /\ \A t \in Tiers : \A i \in DOMAIN pool[t] : pool[t][i] # spare[j]
    /\ \A k \in Jobs : rep[k] = "killing" /\ k # j => spare[k] # spare[j]

(* A job that has not run got no container and no answer, and its replenish  *)
(* task comes last; a container that was not started was not used.           *)
JobInv ==
  /\ \A j \in Jobs :
       /\ pc[j] # "done" => answer[j] = "none" /\ rep[j] = "none"
       /\ pc[j] \in {"idle", "manager", "checkout", "ondemand"} => \A c \in Containers : j \notin used[c]
       /\ pc[j] = "remove" => verdict[j] \in {"promoted", "killed"}
  /\ \A c \in Containers : life[c] = "none" => used[c] = {}

(* While the pools are warmed no job runs, and every start that has ended    *)
(* was put into its pool or has failed.                                      *)
WarmingInv ==
  /\ mgr # "ready" => \A j \in Jobs : pc[j] \in {"idle", "manager"}
  /\ mgr = "none" => /\ warmed = 0
                     /\ \A t \in Tiers : Len(pool[t]) + failed[t] = 0
  /\ mgr = "docker" => /\ Len(pool["docker"]) + failed["docker"] = warmed
                       /\ Len(pool["gvisor"]) + failed["gvisor"] = 0
  /\ mgr = "gvisor" => /\ kvm
                       /\ Len(pool["docker"]) + failed["docker"] = PoolSize
                       /\ Len(pool["gvisor"]) + failed["gvisor"] = warmed
  /\ mgr \in Tiers => client /\ warmed < PoolSize

(* What a pool lacks is on its way: finitely many jobs and tasks.            *)
CountInv ==
  /\ \A t \in Tiers : IsFiniteSet(Outstanding(t))
  /\ PoolRecovers

SandboxInv ==
  SandboxType /\ WarmInv /\ HeldInv /\ SpareInv /\ JobInv /\ NoneForgotten /\ WarmingInv /\ CountInv

-----------------------------------------------------------------------------
\* What the queue of a pool holds after one more container is put into it.
LEMMA AppendFacts ==
  ASSUME NEW S, NEW q \in Seq(S), NEW c \in S
  PROVE  /\ Append(q, c) \in Seq(S) /\ Len(Append(q, c)) = Len(q) + 1
         /\ DOMAIN Append(q, c) = DOMAIN q \cup {Len(q) + 1} /\ Len(q) + 1 \notin DOMAIN q
         /\ Append(q, c)[Len(q) + 1] = c
         /\ \A i \in DOMAIN q : Append(q, c)[i] = q[i]
  OBVIOUS

\* What it holds after the first is taken: the others, one place further up.
LEMMA TailFacts ==
  ASSUME NEW S, NEW q \in Seq(S), q # <<>>
  PROVE  /\ Tail(q) \in Seq(S) /\ Len(Tail(q)) = Len(q) - 1 /\ Len(q) > 0
         /\ Head(q) \in S /\ 1 \in DOMAIN q /\ q[1] = Head(q)
         /\ \A i \in DOMAIN Tail(q) : i + 1 \in DOMAIN q /\ i + 1 # 1 /\ Tail(q)[i] = q[i + 1]
         /\ \A i, k \in DOMAIN Tail(q) : i # k => i + 1 # k + 1
         /\ \A i \in DOMAIN q : i = 1 \/ (i - 1 \in DOMAIN Tail(q) /\ Tail(q)[i - 1] = q[i])
  OBVIOUS

\* A started container is nobody's yet.
LEMMA StartsFacts ==
  ASSUME SandboxInv, NEW c \in Containers, NEW t \in Tiers, Starts(c, t)
  PROVE  /\ life[c] = "none" /\ used[c] = {} /\ life'[c] = "alive" /\ runtime'[c] = t
         /\ \A d \in Containers : d # c => life'[d] = life[d] /\ runtime'[d] = runtime[d]
         /\ \A u \in Tiers : \A i \in DOMAIN pool[u] : pool[u][i] # c
         /\ \A j \in Jobs : Holds(j) => box[j] # c
         /\ \A j \in Jobs : rep[j] = "killing" => spare[j] # c
         /\ life' \in [Containers -> {"none", "alive", "stuck", "removed"}]
         /\ runtime' \in [Containers -> Tiers \cup {"none"}]
  BY DEF SandboxInv, SandboxType, WarmInv, HeldInv, SpareInv, JobInv, Is, Starts, Fresh

\* Every job has a tier.
LEMMA TierFacts ==
  /\ \A j \in Jobs : TierOf(j) \in Tiers
  /\ "docker" \in Tiers /\ "gvisor" \in Tiers
  BY DEF TierOf, Tiers

LEMMA InitSandbox == Init => SandboxInv
<1> SUFFICES ASSUME Init PROVE SandboxInv
  OBVIOUS
<1>1. SandboxType
  BY DEF Init, SandboxType
<1>2. WarmInv /\ HeldInv /\ SpareInv /\ JobInv /\ NoneForgotten
  BY DEF Init, WarmInv, HeldInv, SpareInv, JobInv, NoneForgotten, Holds
<1>3. WarmingInv
  BY TierFacts DEF Init, WarmingInv, Tiers
<1>4. CountInv
  <2>1. \A t \in Tiers : Outstanding(t) = {}
    BY DEF Init, Outstanding, Holds
  <2>2. QED
    BY <2>1, FS_EmptySet DEF CountInv, PoolRecovers, Init
<1>5. QED
  BY <1>1, <1>2, <1>3, <1>4 DEF SandboxInv

LEMMA TypeNext == SandboxInv /\ [Next]_vars => SandboxType'
<1> SUFFICES ASSUME SandboxInv, [Next]_vars PROVE SandboxType'
  OBVIOUS
<1>1. SandboxType
  BY DEF SandboxInv
<1> USE TierFacts DEF manager, docker, job, refill
<1>2. CASE Warms
  <2>1. UNCHANGED <<client, kvm, floor, job, refill, used>> /\ mgr \in Tiers
    BY <1>2 DEF Warms
  <2>2. mgr' \in Tiers \cup {"none", "ready"} /\ warmed' \in Nat
    BY <1>1, <1>2 DEF Warms, WarmNext, SandboxType
  <2>3. CASE \E c \in Containers :
               /\ Starts(c, mgr)
               /\ pool' = [pool EXCEPT ![mgr] = Append(@, c)]
               /\ UNCHANGED failed
    <3>1. PICK c \in Containers :
               /\ Starts(c, mgr)
               /\ pool' = [pool EXCEPT ![mgr] = Append(@, c)]
               /\ UNCHANGED failed
      BY <2>3
    <3>2. Append(pool[mgr], c) \in Seq(Containers)
      BY <1>1, <2>1, AppendFacts DEF SandboxType
    <3>3. pool' \in [Tiers -> Seq(Containers)]
      BY <1>1, <3>1, <3>2 DEF SandboxType
    <3>4. QED
      BY <1>1, <2>1, <2>2, <3>1, <3>3, StartsFacts DEF SandboxType
  <2>4. CASE failed' = [failed EXCEPT ![mgr] = @ + 1] /\ UNCHANGED <<docker, pool>>
    BY <1>1, <2>1, <2>2, <2>4 DEF SandboxType
  <2>5. QED
    BY <1>2, <2>3, <2>4 DEF Warms
<1>3. ASSUME NEW j \in Jobs, Arrives(j) PROVE SandboxType'
  BY <1>1, <1>3 DEF Arrives, SandboxType
<1>4. ASSUME NEW j \in Jobs, Declines(j) PROVE SandboxType'
  BY <1>1, <1>4 DEF Declines, Refuses, SandboxType
<1>5. ASSUME NEW j \in Jobs, ChecksOut(j) PROVE SandboxType'
  <2>1. CASE pool[TierOf(j)] # <<>>
    <3>1. Tail(pool[TierOf(j)]) \in Seq(Containers) /\ Head(pool[TierOf(j)]) \in Containers
      BY <1>1, <2>1, TailFacts DEF SandboxType
    <3>2. pool' = [pool EXCEPT ![TierOf(j)] = Tail(@)] /\ Runs(j, Head(pool[TierOf(j)]))
          /\ UNCHANGED <<manager, docker, verdict, answer, refill, failed>>
      BY <1>5, <2>1 DEF ChecksOut
    <3>3. QED
      BY <1>1, <3>1, <3>2 DEF Runs, SandboxType
  <2>2. CASE pool[TierOf(j)] = <<>>
    BY <1>1, <1>5, <2>2 DEF ChecksOut, SandboxType
  <2>3. QED
    BY <2>1, <2>2
<1>6. ASSUME NEW j \in Jobs, StartsForJob(j) PROVE SandboxType'
  <2>1. PICK c \in Containers : Starts(c, TierOf(j)) /\ Runs(j, c)
    BY <1>6 DEF StartsForJob
  <2>2. UNCHANGED <<manager, pool, verdict, answer, refill, failed>>
    BY <1>6 DEF StartsForJob
  <2>3. QED
    BY <1>1, <2>1, <2>2, StartsFacts DEF Runs, SandboxType
<1>7. ASSUME NEW j \in Jobs, TriesAgain(j) \/ NoContainer(j) PROVE SandboxType'
  <2>1. CASE TriesAgain(j)
    BY <1>1, <2>1 DEF TriesAgain, SandboxType
  <2>2. CASE NoContainer(j)
    BY <1>1, <2>2 DEF NoContainer, Refuses, SandboxType
  <2>3. QED
    BY <1>7, <2>1, <2>2
<1>8. ASSUME NEW j \in Jobs, Ends(j) PROVE SandboxType'
  BY <1>1, <1>8 DEF Ends, PromoteOrKill, SandboxType
<1>9. ASSUME NEW j \in Jobs, Removes(j) PROVE SandboxType'
  <2>1. life' \in [Containers -> {"none", "alive", "stuck", "removed"}]
    BY <1>1, <1>9 DEF Removes, Gone, SandboxType
  <2>2. /\ answer' = [answer EXCEPT ![j] = verdict[j]] /\ pc' = [pc EXCEPT ![j] = "done"]
        /\ rep' = [rep EXCEPT ![j] = "queued"]
        /\ UNCHANGED <<manager, pool, runtime, box, verdict, spare, used, failed>>
    BY <1>9 DEF Removes, Refuses
  <2>3. QED
    BY <1>1, <2>1, <2>2 DEF SandboxType
<1>10. ASSUME NEW j \in Jobs, Replenishes(j) \/ StartFails(j) PROVE SandboxType'
  <2>1. CASE Replenishes(j)
    BY <1>1, <2>1 DEF Replenishes, SandboxType
  <2>2. CASE StartFails(j)
    BY <1>1, <2>2 DEF StartFails, SandboxType
  <2>3. QED
    BY <1>10, <2>1, <2>2
<1>11. ASSUME NEW j \in Jobs, Puts(j) PROVE SandboxType'
  <2>1. PICK c \in Containers :
          /\ Starts(c, TierOf(j))
          /\ \/ /\ pool' = [pool EXCEPT ![TierOf(j)] = Append(@, c)]
                /\ rep' = [rep EXCEPT ![j] = "done"]
                /\ UNCHANGED spare
             \/ /\ rep' = [rep EXCEPT ![j] = "killing"]
                /\ spare' = [spare EXCEPT ![j] = c]
                /\ UNCHANGED pool
    BY <1>11 DEF Puts
  <2>2. UNCHANGED <<manager, job, used, failed>>
    BY <1>11 DEF Puts
  <2>3. Append(pool[TierOf(j)], c) \in Seq(Containers)
    BY <1>1, AppendFacts DEF SandboxType
  <2>4. pool' \in [Tiers -> Seq(Containers)]
    BY <1>1, <2>1, <2>3 DEF SandboxType
  <2>5. /\ rep' \in [Jobs -> {"none", "queued", "starting", "killing", "done"}]
        /\ spare' \in [Jobs -> Containers \cup {NoBox}]
    <3>1. CASE rep' = [rep EXCEPT ![j] = "done"] /\ UNCHANGED spare
      BY <1>1, <3>1 DEF SandboxType
    <3>2. CASE rep' = [rep EXCEPT ![j] = "killing"] /\ spare' = [spare EXCEPT ![j] = c]
      BY <1>1, <3>2 DEF SandboxType
    <3>3. QED
      BY <2>1, <3>1, <3>2
  <2>6. QED
    BY <1>1, <2>1, <2>2, <2>4, <2>5, StartsFacts DEF SandboxType
<1>12. ASSUME NEW j \in Jobs, KillsSpare(j) PROVE SandboxType'
  <2>1. life' \in [Containers -> {"none", "alive", "stuck", "removed"}]
    BY <1>1, <1>12 DEF KillsSpare, Gone, SandboxType
  <2>2. /\ rep' = [rep EXCEPT ![j] = "done"]
        /\ UNCHANGED <<manager, pool, runtime, job, spare, used, failed>>
    BY <1>12, <2>1 DEF KillsSpare
  <2>3. QED
    BY <1>1, <2>1, <2>2 DEF SandboxType
<1>13. CASE UNCHANGED vars
  BY <1>1, <1>13 DEF vars, SandboxType
<1>14. QED
  BY <1>2, <1>3, <1>4, <1>5, <1>6, <1>7, <1>8, <1>9, <1>10, <1>11, <1>12, <1>13
  DEF Next, Handler, Replenisher

\* The steps of the sandbox that put a container into a pool.
LEMMA PutFacts ==
  ASSUME SandboxInv, NEW c \in Containers, NEW t \in Tiers, Starts(c, t),
         pool' = [pool EXCEPT ![t] = Append(@, c)], UNCHANGED used
  PROVE  /\ WarmInv'
         /\ Pooled(t)' = Pooled(t) \cup {c} /\ Len(pool'[t]) = Len(pool[t]) + 1
         /\ \A u \in Tiers : u # t => pool'[u] = pool[u]
         /\ \A u \in Tiers : \A i \in DOMAIN pool'[u] :
              pool'[u][i] = c \/ \E k \in DOMAIN pool[u] : pool[u][k] = pool'[u][i]
<1>1. SandboxType /\ WarmInv
  BY DEF SandboxInv
<1>2. pool[t] \in Seq(Containers) /\ pool'[t] = Append(pool[t], c)
      /\ \A u \in Tiers : u # t => pool'[u] = pool[u]
  BY <1>1 DEF SandboxType
<1> DEFINE n == Len(pool[t]) + 1
<1>3. /\ DOMAIN pool'[t] = DOMAIN pool[t] \cup {n} /\ n \notin DOMAIN pool[t]
      /\ pool'[t][n] = c /\ \A i \in DOMAIN pool[t] : pool'[t][i] = pool[t][i]
      /\ Len(pool'[t]) = Len(pool[t]) + 1
  BY <1>2, AppendFacts
<1> HIDE DEF n
<1>4. \A u \in Tiers : \A i \in DOMAIN pool[u] :
        pool[u][i] # c /\ pool[u][i] \in Containers /\ Becomes(pool[u][i], u, {})
  <2> SUFFICES ASSUME NEW u \in Tiers, NEW i \in DOMAIN pool[u]
               PROVE  pool[u][i] # c /\ pool[u][i] \in Containers /\ Becomes(pool[u][i], u, {})
    OBVIOUS
  <2>1. pool[u][i] # c
    BY StartsFacts
  <2>2. pool[u][i] \in Containers
    BY <1>1 DEF SandboxType
  <2>3. Is(pool[u][i], u, {})
    BY <1>1 DEF WarmInv
  <2>4. QED
    BY <2>1, <2>2, <2>3, StartsFacts DEF Is, Becomes
<1>5. Becomes(c, t, {})
  BY StartsFacts DEF Becomes
<1>6. WarmInv'
  <2> SUFFICES ASSUME NEW u \in Tiers, NEW i \in DOMAIN pool'[u]
               PROVE  /\ Becomes(pool'[u][i], u, {})
                      /\ \A k \in DOMAIN pool'[u] : k # i => pool'[u][k] # pool'[u][i]
    BY DEF WarmInv, Is, Becomes
  <2>1. CASE u # t
    BY <1>1, <1>2, <1>4, <2>1 DEF WarmInv, Is, Becomes
  <2>2. CASE u = t
    BY <1>1, <1>3, <1>4, <1>5, <2>2 DEF WarmInv, Is, Becomes
  <2>3. QED
    BY <2>1, <2>2
<1>7. Pooled(t)' = Pooled(t) \cup {c}
  BY <1>3 DEF Pooled, ToSet
<1>8. QED
  BY <1>2, <1>3, <1>6, <1>7

\* The step that takes one out.
LEMMA TakeFacts ==
  ASSUME SandboxInv, NEW j \in Jobs, NEW t \in Tiers, pool[t] # <<>>,
         pool' = [pool EXCEPT ![t] = Tail(@)], Runs(j, Head(pool[t])), UNCHANGED docker
  PROVE  /\ WarmInv' /\ Head(pool[t]) \in Containers /\ Is(Head(pool[t]), t, {})
         /\ Pooled(t) = Pooled(t)' \cup {Head(pool[t])} /\ Len(pool'[t]) = Len(pool[t]) - 1
         /\ \A u \in Tiers : u # t => pool'[u] = pool[u]
         /\ \A u \in Tiers : \A i \in DOMAIN pool'[u] :
              \E k \in DOMAIN pool[u] : pool[u][k] = pool'[u][i]
<1> DEFINE c == Head(pool[t])
<1>1. SandboxType /\ WarmInv
  BY DEF SandboxInv
<1>2. pool[t] \in Seq(Containers) /\ pool'[t] = Tail(pool[t])
      /\ \A u \in Tiers : u # t => pool'[u] = pool[u]
  BY <1>1 DEF SandboxType
<1>3. /\ c \in Containers /\ 1 \in DOMAIN pool[t] /\ pool[t][1] = c
      /\ \A i \in DOMAIN pool'[t] :
           i + 1 \in DOMAIN pool[t] /\ i + 1 # 1 /\ pool'[t][i] = pool[t][i + 1]
      /\ \A i, k \in DOMAIN pool'[t] : i # k => i + 1 # k + 1
      /\ \A i \in DOMAIN pool[t] : i = 1 \/ (i - 1 \in DOMAIN pool'[t] /\ pool'[t][i - 1] = pool[t][i])
      /\ Len(pool'[t]) = Len(pool[t]) - 1
  <2> DEFINE q == pool[t]
             r == pool'[t]
  <2>1. q \in Seq(Containers) /\ q # <<>> /\ r = Tail(q)
    BY <1>2
  <2> HIDE DEF q, r
  <2>2. /\ 1 \in DOMAIN q /\ q[1] = Head(q) /\ Head(q) \in Containers
        /\ \A i \in DOMAIN r : i + 1 \in DOMAIN q /\ i + 1 # 1 /\ r[i] = q[i + 1]
        /\ \A i, k \in DOMAIN r : i # k => i + 1 # k + 1
        /\ \A i \in DOMAIN q : i = 1 \/ (i - 1 \in DOMAIN r /\ r[i - 1] = q[i])
        /\ Len(r) = Len(q) - 1
    BY <2>1, TailFacts, Zenon
  <2>3. QED
    BY <2>2 DEF q, r
<1>4. Is(c, t, {})
  BY <1>1, <1>3 DEF WarmInv
<1> HIDE DEF c
<1>5. \A d \in Containers : d # c => used'[d] = used[d]
  BY <1>1 DEF Runs, SandboxType, c
<1>6. \A u \in Tiers : \A i \in DOMAIN pool[u] :
        pool[u][i] # c => Becomes(pool[u][i], u, {})
  <2> SUFFICES ASSUME NEW u \in Tiers, NEW i \in DOMAIN pool[u], pool[u][i] # c
               PROVE  Becomes(pool[u][i], u, {})
    OBVIOUS
  <2>1. pool[u][i] \in Containers
    BY <1>1 DEF SandboxType
  <2>2. QED
    BY <1>1, <1>5, <2>1 DEF WarmInv, Is, Becomes, docker
<1>7. WarmInv'
  <2> SUFFICES ASSUME NEW u \in Tiers, NEW i \in DOMAIN pool'[u]
               PROVE  /\ Becomes(pool'[u][i], u, {})
                      /\ \A k \in DOMAIN pool'[u] : k # i => pool'[u][k] # pool'[u][i]
    BY DEF WarmInv, Is, Becomes
  <2>1. CASE u # t
    <3>1. pool'[u] = pool[u] /\ pool[u][i] # c
      BY <1>1, <1>2, <1>4, <2>1 DEF WarmInv, Is, Becomes
    <3>2. Becomes(pool'[u][i], u, {})
      BY <1>6, <3>1
    <3>3. \A k \in DOMAIN pool[u] : k # i => pool[u][k] # pool[u][i]
      BY <1>1, <3>1 DEF WarmInv
    <3>4. QED
      BY <3>1, <3>2, <3>3
  <2>2. CASE u = t
    <3>1. i + 1 \in DOMAIN pool[t] /\ i + 1 # 1 /\ pool'[t][i] = pool[t][i + 1]
      BY <1>3, <2>2
    <3>2. pool[t][i + 1] # c
      BY <1>1, <1>3, <3>1 DEF WarmInv
    <3>3. \A k \in DOMAIN pool'[t] : k # i => pool'[t][k] # pool'[t][i]
      BY <1>1, <1>3, <2>2, <3>1 DEF WarmInv
    <3>4. QED
      BY <1>6, <2>2, <3>1, <3>2, <3>3 DEF Becomes
  <2>3. QED
    BY <2>1, <2>2
<1>8. Pooled(t) = Pooled(t)' \cup {c}
  <2>1. ASSUME NEW d \in Pooled(t) PROVE d \in Pooled(t)' \cup {c}
    <3>1. PICK i \in DOMAIN pool[t] : pool[t][i] = d
      BY DEF Pooled, ToSet
    <3>2. QED
      BY <1>3, <3>1 DEF Pooled, ToSet
  <2>2. ASSUME NEW d \in Pooled(t)' PROVE d \in Pooled(t)
    <3>1. PICK i \in DOMAIN pool'[t] : pool'[t][i] = d
      BY DEF Pooled, ToSet
    <3>2. QED
      BY <1>3, <3>1 DEF Pooled, ToSet
  <2>3. c \in Pooled(t)
    BY <1>3 DEF Pooled, ToSet
  <2>4. QED
    BY <2>1, <2>2, <2>3
<1>9. QED
  BY <1>2, <1>3, <1>4, <1>7, <1>8 DEF c

-----------------------------------------------------------------------------
(* What a step does with the containers: it leaves them where they are, puts *)
(* a new one into a pool, leaves a new one to a task that will kill it, takes *)
(* one from a pool for a job, gives a new one to a job, removes that of a    *)
(* job, or kills that of a task.                                             *)
Killing(j) == rep[j] = "killing"

SameHolders == UNCHANGED box /\ \A k \in Jobs : Holds(k)' <=> Holds(k)
SameSpares  == UNCHANGED spare /\ \A k \in Jobs : Killing(k)' <=> Killing(k)
NewHolder(j, c) ==
  /\ Runs(j, c) /\ pc[j] \in {"manager", "checkout", "ondemand"}
  /\ \A k \in Jobs : Holds(k)' <=> (Holds(k) \/ k = j)

Quiet == UNCHANGED <<pool, docker, used>> /\ SameHolders /\ SameSpares
PutsWarm(c, t) ==
  /\ Starts(c, t) /\ pool' = [pool EXCEPT ![t] = Append(@, c)] /\ UNCHANGED used
  /\ SameHolders /\ SameSpares
LeavesSpare(j, c) ==
  /\ Starts(c, TierOf(j)) /\ UNCHANGED <<pool, used>> /\ SameHolders
  /\ rep[j] = "starting" /\ spare' = [spare EXCEPT ![j] = c]
  /\ \A k \in Jobs : Killing(k)' <=> (Killing(k) \/ k = j)
TakesWarm(j) ==
  /\ pool[TierOf(j)] # <<>> /\ pool' = [pool EXCEPT ![TierOf(j)] = Tail(@)]
  /\ NewHolder(j, Head(pool[TierOf(j)])) /\ UNCHANGED docker /\ SameSpares
GetsNew(j, c) ==
  /\ Starts(c, TierOf(j)) /\ NewHolder(j, c) /\ UNCHANGED pool /\ SameSpares
Drops(c) == life' \in {[life EXCEPT ![c] = l] : l \in Gone} /\ UNCHANGED <<pool, runtime, used>>
DropsBox(j) ==
  /\ Holds(j) /\ Drops(box[j]) /\ UNCHANGED box /\ SameSpares
  /\ \A k \in Jobs : Holds(k)' <=> (Holds(k) /\ k # j)
DropsSpare(j) ==
  /\ Killing(j) /\ Drops(spare[j]) /\ UNCHANGED spare /\ SameHolders
  /\ \A k \in Jobs : Killing(k)' <=> (Killing(k) /\ k # j)

LEMMA StepKinds ==
  ASSUME SandboxInv, [Next]_vars
  PROVE  /\ UNCHANGED floor
         /\ \/ Quiet
            \/ \E c \in Containers, t \in Tiers : PutsWarm(c, t)
            \/ \E j \in Jobs, c \in Containers : LeavesSpare(j, c) \/ GetsNew(j, c)
            \/ \E j \in Jobs : TakesWarm(j) \/ DropsBox(j) \/ DropsSpare(j)
<1>1. SandboxType /\ JobInv
  BY DEF SandboxInv
<1> USE DEF manager, docker, job, refill, Quiet, SameHolders, SameSpares, Holds, Killing, SandboxType
<1>2. UNCHANGED floor
  BY DEF Next, Warms, Arrives, Handler, Declines, ChecksOut, StartsForJob, TriesAgain, NoContainer, Ends,
         Removes, Replenisher, Replenishes, Puts, StartFails, KillsSpare, vars
<1>3. CASE Warms
  BY <1>1, <1>3 DEF Warms, PutsWarm
<1>4. ASSUME NEW j \in Jobs, Arrives(j) \/ Declines(j) \/ TriesAgain(j) PROVE Quiet
  <2>1. /\ UNCHANGED <<pool, docker, used, box, refill>>
        /\ pc[j] \in {"idle", "manager", "checkout"}
        /\ pc' \in {[pc EXCEPT ![j] = p] : p \in {"manager", "done", "ondemand"}}
    BY <1>4 DEF Arrives, Declines, Refuses, TriesAgain
  <2>2. QED
    BY <1>1, <2>1
<1>5. ASSUME NEW j \in Jobs, ChecksOut(j) PROVE Quiet \/ TakesWarm(j)
  <2>1. CASE pool[TierOf(j)] # <<>>
    BY <1>1, <1>5, <2>1 DEF ChecksOut, TakesWarm, NewHolder, Runs
  <2>2. CASE pool[TierOf(j)] = <<>>
    BY <1>1, <1>5, <2>2 DEF ChecksOut
  <2>3. QED
    BY <2>1, <2>2
<1>6. ASSUME NEW j \in Jobs, StartsForJob(j) PROVE \E c \in Containers : GetsNew(j, c)
  BY <1>1, <1>6 DEF StartsForJob, GetsNew, NewHolder, Runs
<1>7. ASSUME NEW j \in Jobs, NoContainer(j) PROVE Quiet
  BY <1>1, <1>7 DEF NoContainer, Refuses, JobInv
<1>8. ASSUME NEW j \in Jobs, Ends(j) PROVE Quiet
  BY <1>1, <1>8 DEF Ends
<1>9. ASSUME NEW j \in Jobs, Removes(j) PROVE DropsBox(j)
  BY <1>1, <1>9 DEF Removes, Refuses, DropsBox, Drops, JobInv
<1>10. ASSUME NEW j \in Jobs, Replenishes(j) \/ StartFails(j) PROVE Quiet
  <2>1. /\ UNCHANGED <<pool, docker, job, spare, used>> /\ rep[j] \in {"queued", "starting"}
        /\ rep' \in {[rep EXCEPT ![j] = r] : r \in {"starting", "done"}}
    BY <1>10 DEF Replenishes, StartFails
  <2>2. QED
    BY <1>1, <2>1
<1>11. ASSUME NEW j \in Jobs, Puts(j)
       PROVE  \E c \in Containers : PutsWarm(c, TierOf(j)) \/ LeavesSpare(j, c)
  <2>1. PICK c \in Containers :
          /\ Starts(c, TierOf(j))
          /\ IF Len(pool[TierOf(j)]) < PoolSize
               THEN /\ pool' = [pool EXCEPT ![TierOf(j)] = Append(@, c)]
                    /\ rep' = [rep EXCEPT ![j] = "done"]
                    /\ UNCHANGED spare
               ELSE /\ rep' = [rep EXCEPT ![j] = "killing"]
                    /\ spare' = [spare EXCEPT ![j] = c]
                    /\ UNCHANGED pool
    BY <1>11 DEF Puts
  <2>2. rep[j] = "starting" /\ UNCHANGED <<job, used>>
    BY <1>11 DEF Puts
  <2>3. CASE Len(pool[TierOf(j)]) < PoolSize
    <3>1. PutsWarm(c, TierOf(j))
      BY <1>1, <2>1, <2>2, <2>3 DEF PutsWarm
    <3>2. QED
      BY <3>1
  <2>4. CASE ~(Len(pool[TierOf(j)]) < PoolSize)
    <3>1. LeavesSpare(j, c)
      BY <1>1, <2>1, <2>2, <2>4 DEF LeavesSpare
    <3>2. QED
      BY <3>1
  <2>5. QED
    BY <2>3, <2>4
<1>12. ASSUME NEW j \in Jobs, KillsSpare(j) PROVE DropsSpare(j)
  BY <1>1, <1>12 DEF KillsSpare, DropsSpare, Drops
<1>13. CASE UNCHANGED vars
  BY <1>13 DEF vars
<1> HIDE DEF Quiet, SameHolders, SameSpares, SandboxType
<1>14. QED
  BY <1>2, <1>3, <1>4, <1>5, <1>6, <1>7, <1>8, <1>9, <1>10, <1>11, <1>12, <1>13, TierFacts
  DEF Next, Handler, Replenisher

\* What a step leaves of a container that it does not touch.
LEMMA DropFacts ==
  ASSUME SandboxInv, NEW c \in Containers, Drops(c)
  PROVE  /\ UNCHANGED <<pool, runtime, used>> /\ life'[c] # "alive"
         /\ \A d \in Containers : d # c => life'[d] = life[d]
  BY DEF Drops, Gone, SandboxInv, SandboxType

LEMMA HolderFacts ==
  ASSUME SandboxInv, NEW j \in Jobs, NEW c \in Containers, NewHolder(j, c)
  PROVE  /\ ~Holds(j) /\ box'[j] = c /\ used'[c] = used[c] \cup {j}
         /\ \A k \in Jobs : (Holds(k)' <=> (Holds(k) \/ k = j)) /\ (k # j => box'[k] = box[k])
         /\ \A d \in Containers : d # c => used'[d] = used[d]
  BY DEF NewHolder, Runs, Holds, SandboxInv, SandboxType

LEMMA HeldNext == SandboxInv /\ [Next]_vars => HeldInv'
<1> SUFFICES ASSUME SandboxInv, [Next]_vars PROVE HeldInv'
  OBVIOUS
<1>1. SandboxType /\ HeldInv /\ UNCHANGED floor
  BY StepKinds DEF SandboxInv
<1>2. ASSUME NEW j \in Jobs PROVE TierOf(j)' = TierOf(j)
  BY <1>1 DEF TierOf
\* The holders stay and what they hold is not touched.
<1>3. ASSUME SameHolders,
             \A c \in Containers : (\E j \in Jobs : Holds(j) /\ box[j] = c) =>
               life'[c] = life[c] /\ runtime'[c] = runtime[c] /\ used'[c] = used[c]
      PROVE  HeldInv'
  BY <1>1, <1>2, <1>3 DEF SameHolders, HeldInv, Is
<1>4. CASE Quiet
  BY <1>3, <1>4 DEF Quiet, docker
<1>5. ASSUME NEW c \in Containers, NEW t \in Tiers, PutsWarm(c, t) PROVE HeldInv'
  BY <1>3, <1>5, StartsFacts DEF PutsWarm
<1>6. ASSUME NEW j \in Jobs, NEW c \in Containers, LeavesSpare(j, c) PROVE HeldInv'
  BY <1>3, <1>6, StartsFacts, TierFacts DEF LeavesSpare
<1>7. ASSUME NEW j \in Jobs, NEW c \in Containers, GetsNew(j, c) PROVE HeldInv'
  <2>1. /\ life'[c] = "alive" /\ runtime'[c] = TierOf(j) /\ used[c] = {}
        /\ \A d \in Containers : d # c => life'[d] = life[d] /\ runtime'[d] = runtime[d]
        /\ \A k \in Jobs : Holds(k) => box[k] # c
    BY <1>7, StartsFacts, TierFacts DEF GetsNew
  <2>2. /\ box'[j] = c /\ used'[c] = used[c] \cup {j}
        /\ \A k \in Jobs : (Holds(k)' <=> (Holds(k) \/ k = j)) /\ (k # j => box'[k] = box[k])
        /\ \A d \in Containers : d # c => used'[d] = used[d]
    BY <1>7, HolderFacts DEF GetsNew
  <2>3. QED
    BY <1>1, <1>2, <2>1, <2>2 DEF HeldInv, Is
<1>8. ASSUME NEW j \in Jobs, TakesWarm(j) PROVE HeldInv'
  <2> DEFINE c == Head(pool[TierOf(j)])
  <2>1. c \in Containers /\ Is(c, TierOf(j), {}) /\ UNCHANGED <<life, runtime>>
    BY <1>8, TakeFacts, TierFacts DEF TakesWarm, NewHolder, docker
  <2>2. NewHolder(j, c)
    BY <1>8 DEF TakesWarm
  <2> HIDE DEF c
  <2>3. /\ box'[j] = c /\ used'[c] = used[c] \cup {j}
        /\ \A k \in Jobs : (Holds(k)' <=> (Holds(k) \/ k = j)) /\ (k # j => box'[k] = box[k])
        /\ \A d \in Containers : d # c => used'[d] = used[d]
    BY <2>1, <2>2, HolderFacts
  <2>4. ASSUME NEW k \in Jobs, Holds(k) PROVE box[k] # c
    BY <1>1, <2>1, <2>4 DEF HeldInv, Is
  <2>5. QED
    BY <1>1, <1>2, <2>1, <2>3, <2>4 DEF HeldInv, Is
<1>9. ASSUME NEW j \in Jobs, DropsBox(j) PROVE HeldInv'
  <2>1. box[j] \in Containers /\ Is(box[j], TierOf(j), {j})
    BY <1>1, <1>9 DEF DropsBox, HeldInv
  <2>2. /\ UNCHANGED <<runtime, used, box>>
        /\ \A d \in Containers : d # box[j] => life'[d] = life[d]
        /\ \A k \in Jobs : Holds(k)' <=> (Holds(k) /\ k # j)
    BY <1>9, <2>1, DropFacts DEF DropsBox
  <2>3. QED
    BY <1>1, <1>2, <2>1, <2>2 DEF HeldInv, Is
<1>10. ASSUME NEW j \in Jobs, DropsSpare(j) PROVE HeldInv'
  <2>1. spare[j] \in Containers /\ Is(spare[j], TierOf(j), {})
    BY <1>10 DEF DropsSpare, Killing, SandboxInv, SpareInv
  <2>2. /\ UNCHANGED <<runtime, used>> /\ SameHolders
        /\ \A d \in Containers : d # spare[j] => life'[d] = life[d]
    BY <1>10, <2>1, DropFacts DEF DropsSpare
  <2>3. QED
    BY <1>1, <1>3, <2>1, <2>2 DEF HeldInv, Is
<1>11. QED
  BY <1>4, <1>5, <1>6, <1>7, <1>8, <1>9, <1>10, StepKinds

LEMMA PoolsNext == SandboxInv /\ [Next]_vars => WarmInv'
<1> SUFFICES ASSUME SandboxInv, [Next]_vars PROVE WarmInv'
  OBVIOUS
<1>1. SandboxType /\ WarmInv
  BY DEF SandboxInv
<1>2. \A t \in Tiers : \A i \in DOMAIN pool[t] : pool[t][i] \in Containers
  BY <1>1 DEF SandboxType
\* The pools stay and what is in them is not touched.
<1>3. ASSUME UNCHANGED pool,
             \A c \in Containers : (\E t \in Tiers : \E i \in DOMAIN pool[t] : pool[t][i] = c) =>
               life'[c] = life[c] /\ runtime'[c] = runtime[c] /\ used'[c] = used[c]
      PROVE  WarmInv'
  BY <1>1, <1>2, <1>3 DEF WarmInv, Is
<1>4. CASE Quiet
  BY <1>3, <1>4 DEF Quiet, docker
<1>5. ASSUME NEW c \in Containers, NEW t \in Tiers, PutsWarm(c, t) PROVE WarmInv'
  BY <1>5, PutFacts DEF PutsWarm
<1>6. ASSUME NEW j \in Jobs, NEW c \in Containers, LeavesSpare(j, c) PROVE WarmInv'
  BY <1>3, <1>6, StartsFacts, TierFacts DEF LeavesSpare
<1>7. ASSUME NEW j \in Jobs, NEW c \in Containers, GetsNew(j, c) PROVE WarmInv'
  <2>1. /\ \A d \in Containers : d # c => life'[d] = life[d] /\ runtime'[d] = runtime[d]
        /\ \A u \in Tiers : \A i \in DOMAIN pool[u] : pool[u][i] # c
    BY <1>7, StartsFacts, TierFacts DEF GetsNew
  <2>2. \A d \in Containers : d # c => used'[d] = used[d]
    BY <1>7, HolderFacts DEF GetsNew
  <2>3. QED
    BY <1>3, <1>7, <2>1, <2>2 DEF GetsNew
<1>8. ASSUME NEW j \in Jobs, TakesWarm(j) PROVE WarmInv'
  BY <1>8, TakeFacts, TierFacts DEF TakesWarm, NewHolder
<1>9. ASSUME NEW j \in Jobs, DropsBox(j) PROVE WarmInv'
  <2>1. box[j] \in Containers /\ Is(box[j], TierOf(j), {j})
    BY <1>9 DEF DropsBox, SandboxInv, HeldInv
  <2>2. UNCHANGED <<pool, runtime, used>> /\ \A d \in Containers : d # box[j] => life'[d] = life[d]
    BY <1>9, <2>1, DropFacts DEF DropsBox
  <2>3. \A t \in Tiers : \A i \in DOMAIN pool[t] : pool[t][i] # box[j]
    BY <1>1, <2>1 DEF WarmInv, Is
  <2>4. QED
    BY <1>3, <2>2, <2>3
<1>10. ASSUME NEW j \in Jobs, DropsSpare(j) PROVE WarmInv'
  <2>1. /\ spare[j] \in Containers
        /\ \A t \in Tiers : \A i \in DOMAIN pool[t] : pool[t][i] # spare[j]
    BY <1>10 DEF DropsSpare, Killing, SandboxInv, SpareInv
  <2>2. UNCHANGED <<pool, runtime, used>> /\ \A d \in Containers : d # spare[j] => life'[d] = life[d]
    BY <1>10, <2>1, DropFacts DEF DropsSpare
  <2>3. QED
    BY <1>3, <2>1, <2>2
<1>11. QED
  BY <1>4, <1>5, <1>6, <1>7, <1>8, <1>9, <1>10, StepKinds

LEMMA SpareNext == SandboxInv /\ [Next]_vars => SpareInv'
<1> SUFFICES ASSUME SandboxInv, [Next]_vars PROVE SpareInv'
  OBVIOUS
<1>1. SandboxType /\ SpareInv /\ UNCHANGED floor
  BY StepKinds DEF SandboxInv
<1>2. ASSUME NEW j \in Jobs PROVE TierOf(j)' = TierOf(j)
  BY <1>1 DEF TierOf
\* The spares stay, are not touched and are put into no pool.
<1>3. ASSUME SameSpares,
             \A c \in Containers : (\E j \in Jobs : Killing(j) /\ spare[j] = c) =>
               /\ life'[c] = life[c] /\ runtime'[c] = runtime[c] /\ used'[c] = used[c]
               /\ \A t \in Tiers : \A i \in DOMAIN pool'[t] : pool'[t][i] # c
      PROVE  SpareInv'
  BY <1>1, <1>2, <1>3 DEF SameSpares, SpareInv, Killing, Is
<1>4. CASE Quiet
  BY <1>1, <1>3, <1>4 DEF Quiet, docker, SpareInv, Killing
<1>5. ASSUME NEW c \in Containers, NEW t \in Tiers, PutsWarm(c, t) PROVE SpareInv'
  <2>1. /\ \A d \in Containers : d # c => life'[d] = life[d] /\ runtime'[d] = runtime[d]
        /\ \A j \in Jobs : Killing(j) => spare[j] # c
    BY <1>5, StartsFacts DEF PutsWarm, Killing
  <2>2. \A u \in Tiers : \A i \in DOMAIN pool'[u] :
          pool'[u][i] = c \/ \E k \in DOMAIN pool[u] : pool[u][k] = pool'[u][i]
    BY <1>5, PutFacts DEF PutsWarm
  <2>3. QED
    BY <1>1, <1>3, <1>5, <2>1, <2>2 DEF PutsWarm, SpareInv, Killing
<1>6. ASSUME NEW j \in Jobs, NEW c \in Containers, LeavesSpare(j, c) PROVE SpareInv'
  <2>1. /\ life'[c] = "alive" /\ runtime'[c] = TierOf(j) /\ used[c] = {}
        /\ \A d \in Containers : d # c => life'[d] = life[d] /\ runtime'[d] = runtime[d]
        /\ \A u \in Tiers : \A i \in DOMAIN pool[u] : pool[u][i] # c
        /\ \A k \in Jobs : Killing(k) => spare[k] # c
    BY <1>6, StartsFacts, TierFacts DEF LeavesSpare, Killing
  <2>2. /\ UNCHANGED <<pool, used>> /\ spare'[j] = c /\ ~Killing(j)
        /\ \A k \in Jobs : (k # j => spare'[k] = spare[k]) /\ (Killing(k)' <=> (Killing(k) \/ k = j))
    BY <1>1, <1>6 DEF LeavesSpare, Killing, SandboxType
  <2>3. QED
    BY <1>1, <1>2, <2>1, <2>2 DEF SpareInv, Killing, Is
<1>7. ASSUME NEW j \in Jobs, NEW c \in Containers, GetsNew(j, c) PROVE SpareInv'
  <2>1. /\ \A d \in Containers : d # c => life'[d] = life[d] /\ runtime'[d] = runtime[d]
        /\ \A k \in Jobs : Killing(k) => spare[k] # c
    BY <1>7, StartsFacts, TierFacts DEF GetsNew, Killing
  <2>2. \A d \in Containers : d # c => used'[d] = used[d]
    BY <1>7, HolderFacts DEF GetsNew
  <2>3. QED
    BY <1>1, <1>3, <1>7, <2>1, <2>2 DEF GetsNew, SpareInv, Killing
<1>8. ASSUME NEW j \in Jobs, TakesWarm(j) PROVE SpareInv'
  <2> DEFINE c == Head(pool[TierOf(j)])
  <2>1. /\ c \in Containers /\ UNCHANGED <<life, runtime>> /\ SameSpares
        /\ \A u \in Tiers : \A i \in DOMAIN pool'[u] :
              \E k \in DOMAIN pool[u] : pool[u][k] = pool'[u][i]
    BY <1>8, TakeFacts, TierFacts DEF TakesWarm, NewHolder, docker
  <2>2. NewHolder(j, c)
    BY <1>8 DEF TakesWarm
  <2>3. \A k \in Jobs : Killing(k) => spare[k] # c
    <3>1. pool[TierOf(j)] \in Seq(Containers) /\ pool[TierOf(j)] # <<>>
      BY <1>1, <1>8, TierFacts DEF TakesWarm, SandboxType
    <3>2. 1 \in DOMAIN pool[TierOf(j)] /\ pool[TierOf(j)][1] = c
      BY <3>1, TailFacts
    <3>3. QED
      BY <1>1, <3>2, TierFacts DEF SpareInv, Killing
  <2> HIDE DEF c
  <2>4. \A d \in Containers : d # c => used'[d] = used[d]
    BY <2>1, <2>2, HolderFacts
  <2>5. QED
    BY <1>1, <1>3, <2>1, <2>3, <2>4 DEF SpareInv, Killing
<1>9. ASSUME NEW j \in Jobs, DropsBox(j) PROVE SpareInv'
  <2>1. box[j] \in Containers /\ Is(box[j], TierOf(j), {j})
    BY <1>9 DEF DropsBox, SandboxInv, HeldInv
  <2>2. UNCHANGED <<pool, runtime, used>> /\ \A d \in Containers : d # box[j] => life'[d] = life[d]
    BY <1>9, <2>1, DropFacts DEF DropsBox
  <2>3. \A k \in Jobs : Killing(k) => spare[k] # box[j]
    BY <1>1, <2>1 DEF SpareInv, Killing, Is
  <2>4. QED
    BY <1>1, <1>3, <1>9, <2>2, <2>3 DEF DropsBox, SpareInv, Killing
<1>10. ASSUME NEW j \in Jobs, DropsSpare(j) PROVE SpareInv'
  <2>1. spare[j] \in Containers
    BY <1>1, <1>10 DEF DropsSpare, Killing, SpareInv
  <2>2. /\ UNCHANGED <<pool, runtime, used, spare>>
        /\ \A d \in Containers : d # spare[j] => life'[d] = life[d]
        /\ \A k \in Jobs : Killing(k)' <=> (Killing(k) /\ k # j)
    BY <1>10, <2>1, DropFacts DEF DropsSpare
  <2>3. QED
    BY <1>1, <1>2, <1>10, <2>2 DEF DropsSpare, SpareInv, Killing, Is
<1>11. QED
  BY <1>4, <1>5, <1>6, <1>7, <1>8, <1>9, <1>10, StepKinds

LEMMA NoneForgottenNext == SandboxInv /\ [Next]_vars => NoneForgotten'
<1> SUFFICES ASSUME SandboxInv, [Next]_vars PROVE NoneForgotten'
  OBVIOUS
<1> SUFFICES ASSUME NEW d \in Containers, life'[d] = "alive"
             PROVE  \/ \E t \in Tiers : d \in Pooled(t)' /\ runtime'[d] = t
                    \/ \E j \in Jobs : Holds(j)' /\ box'[j] = d /\ (floor'[j] => runtime'[d] = "gvisor")
                    \/ \E j \in Jobs : Killing(j)' /\ spare'[j] = d
  BY DEF NoneForgotten, Killing
<1> DEFINE InPool == \E t \in Tiers : d \in Pooled(t) /\ runtime[d] = t
           InBox  == \E j \in Jobs : Holds(j) /\ box[j] = d /\ (floor[j] => runtime[d] = "gvisor")
           IsSpare == \E j \in Jobs : Killing(j) /\ spare[j] = d
           InPoolNext == \E t \in Tiers : d \in Pooled(t)' /\ runtime'[d] = t
           InBoxNext ==
             \E j \in Jobs : Holds(j)' /\ box'[j] = d /\ (floor'[j] => runtime'[d] = "gvisor")
           IsSpareNext == \E j \in Jobs : Killing(j)' /\ spare'[j] = d
<1>1. SandboxType /\ UNCHANGED floor
  BY StepKinds DEF SandboxInv
<1>2. life[d] = "alive" => InPool \/ InBox \/ IsSpare
  BY DEF SandboxInv, NoneForgotten, Killing
<1>3. CASE Quiet
  BY <1>1, <1>2, <1>3 DEF Quiet, docker, SameHolders, SameSpares, Pooled
<1>4. ASSUME NEW c \in Containers, NEW t \in Tiers, PutsWarm(c, t)
      PROVE  InPoolNext \/ InBoxNext \/ IsSpareNext
  <2>1. /\ runtime'[c] = t
        /\ \A e \in Containers : e # c => life'[e] = life[e] /\ runtime'[e] = runtime[e]
    BY <1>4, StartsFacts DEF PutsWarm
  <2>2. /\ Pooled(t)' = Pooled(t) \cup {c}
        /\ \A u \in Tiers : u # t => Pooled(u)' = Pooled(u)
    BY <1>4, PutFacts DEF PutsWarm, Pooled
  <2>3. CASE d = c
    BY <2>1, <2>2, <2>3
  <2>4. CASE d # c
    BY <1>1, <1>2, <1>4, <2>1, <2>2, <2>4 DEF PutsWarm, SameHolders, SameSpares
  <2>5. QED
    BY <2>3, <2>4
<1>5. ASSUME NEW j \in Jobs, NEW c \in Containers, LeavesSpare(j, c)
      PROVE  InPoolNext \/ InBoxNext \/ IsSpareNext
  <2>1. \A e \in Containers : e # c => life'[e] = life[e] /\ runtime'[e] = runtime[e]
    BY <1>5, StartsFacts, TierFacts DEF LeavesSpare
  <2>2. /\ spare'[j] = c /\ ~Killing(j)
        /\ \A k \in Jobs : (k # j => spare'[k] = spare[k]) /\ (Killing(k)' <=> (Killing(k) \/ k = j))
    BY <1>1, <1>5 DEF LeavesSpare, Killing, SandboxType
  <2>3. SameHolders /\ \A u \in Tiers : Pooled(u)' = Pooled(u)
    BY <1>5 DEF LeavesSpare, Pooled
  <2>4. CASE d = c
    BY <2>2, <2>4
  <2>5. CASE d # c
    BY <1>1, <1>2, <2>1, <2>2, <2>3, <2>5 DEF SameHolders
  <2>6. QED
    BY <2>4, <2>5
<1>6. ASSUME NEW j \in Jobs, NEW c \in Containers, GetsNew(j, c)
      PROVE  InPoolNext \/ InBoxNext \/ IsSpareNext
  <2>1. /\ runtime'[c] = TierOf(j)
        /\ \A e \in Containers : e # c => life'[e] = life[e] /\ runtime'[e] = runtime[e]
    BY <1>6, StartsFacts, TierFacts DEF GetsNew
  <2>2. /\ box'[j] = c /\ ~Holds(j)
        /\ \A k \in Jobs : (Holds(k)' <=> (Holds(k) \/ k = j)) /\ (k # j => box'[k] = box[k])
    BY <1>6, HolderFacts DEF GetsNew
  <2>3. SameSpares /\ \A u \in Tiers : Pooled(u)' = Pooled(u)
    BY <1>6 DEF GetsNew, Pooled
  <2>4. CASE d = c
    BY <1>1, <2>1, <2>2, <2>4 DEF TierOf
  <2>5. CASE d # c
    BY <1>1, <1>2, <2>1, <2>2, <2>3, <2>5 DEF SameSpares
  <2>6. QED
    BY <2>4, <2>5
<1>7. ASSUME NEW j \in Jobs, TakesWarm(j) PROVE InPoolNext \/ InBoxNext \/ IsSpareNext
  <2> DEFINE c == Head(pool[TierOf(j)])
  <2>1. /\ c \in Containers /\ Is(c, TierOf(j), {}) /\ UNCHANGED <<life, runtime>> /\ SameSpares
        /\ Pooled(TierOf(j)) = Pooled(TierOf(j))' \cup {c}
        /\ \A u \in Tiers : u # TierOf(j) => pool'[u] = pool[u]
    <3>1. Pooled(TierOf(j))' = ToSet(pool'[TierOf(j)]) /\ TierOf(j)' = TierOf(j)
      BY <1>1 DEF Pooled, TierOf
    <3>2. QED
      BY <1>7, <3>1, TakeFacts, TierFacts DEF TakesWarm, NewHolder, docker, Pooled
  <2>2. NewHolder(j, c)
    BY <1>7 DEF TakesWarm
  <2> HIDE DEF c
  <2>3. /\ box'[j] = c /\ ~Holds(j)
        /\ \A k \in Jobs : (Holds(k)' <=> (Holds(k) \/ k = j)) /\ (k # j => box'[k] = box[k])
    BY <2>1, <2>2, HolderFacts
  <2>4. CASE d = c
    BY <1>1, <2>1, <2>3, <2>4 DEF TierOf, Is
  <2>5. CASE d # c
    <3>1. \A u \in Tiers : d \in Pooled(u) => d \in Pooled(u)'
      BY <1>1, <2>1, <2>5 DEF Pooled, TierOf
    <3>2. QED
      BY <1>1, <1>2, <2>1, <2>3, <2>5, <3>1 DEF SameSpares
  <2>6. QED
    BY <2>4, <2>5
<1>8. ASSUME NEW j \in Jobs, DropsBox(j) PROVE InPoolNext \/ InBoxNext \/ IsSpareNext
  <2>1. box[j] \in Containers
    BY <1>8 DEF DropsBox, SandboxInv, HeldInv
  <2>2. /\ UNCHANGED <<pool, runtime, used>> /\ life'[box[j]] # "alive"
        /\ \A e \in Containers : e # box[j] => life'[e] = life[e]
    BY <1>8, <2>1, DropFacts DEF DropsBox
  <2>3. /\ UNCHANGED box /\ SameSpares /\ \A k \in Jobs : Holds(k)' <=> (Holds(k) /\ k # j)
    BY <1>8 DEF DropsBox
  <2>4. QED
    BY <1>1, <1>2, <2>2, <2>3 DEF SameSpares, Pooled
<1>9. ASSUME NEW j \in Jobs, DropsSpare(j) PROVE InPoolNext \/ InBoxNext \/ IsSpareNext
  <2>1. spare[j] \in Containers
    BY <1>9 DEF DropsSpare, Killing, SandboxInv, SpareInv
  <2>2. /\ UNCHANGED <<pool, runtime, used>> /\ life'[spare[j]] # "alive"
        /\ \A e \in Containers : e # spare[j] => life'[e] = life[e]
    BY <1>9, <2>1, DropFacts DEF DropsSpare
  <2>3. /\ UNCHANGED spare /\ SameHolders /\ \A k \in Jobs : Killing(k)' <=> (Killing(k) /\ k # j)
    BY <1>9 DEF DropsSpare
  <2>4. QED
    BY <1>1, <1>2, <2>2, <2>3 DEF SameHolders, Pooled
<1>10. QED
  BY <1>3, <1>4, <1>5, <1>6, <1>7, <1>8, <1>9, StepKinds

LEMMA JobNext == SandboxInv /\ [Next]_vars => JobInv'
<1> SUFFICES ASSUME SandboxInv, [Next]_vars PROVE JobInv'
  OBVIOUS
<1>1. SandboxType /\ JobInv
  BY DEF SandboxInv
<1> DEFINE Early == {"idle", "manager", "checkout", "ondemand"}
<1> USE DEF manager, docker, job, refill
\* Nothing happens to job k, and it gets no container.
<1>2. ASSUME NEW k \in Jobs, pc'[k] = pc[k], answer'[k] = answer[k], rep'[k] = rep[k], verdict'[k] = verdict[k],
             \A c \in Containers : k \in used'[c] => k \in used[c]
      PROVE  /\ pc'[k] # "done" => answer'[k] = "none" /\ rep'[k] = "none"
             /\ pc'[k] \in Early => \A c \in Containers : k \notin used'[c]
             /\ pc'[k] = "remove" => verdict'[k] \in {"promoted", "killed"}
  BY <1>1, <1>2 DEF JobInv
\* A container that is started is unused.
<1>3. \A c \in Containers : life'[c] = "none" => used'[c] = {}
  <2>1. CASE Quiet
    BY <1>1, <2>1 DEF Quiet, JobInv
  <2>2. ASSUME NEW c \in Containers, NEW t \in Tiers, Starts(c, t),
               \A d \in Containers : d # c => used'[d] = used[d]
        PROVE  \A d \in Containers : life'[d] = "none" => used'[d] = {}
    BY <1>1, <2>2, StartsFacts DEF JobInv
  <2>3. ASSUME NEW c \in Containers, Drops(c)
        PROVE  \A d \in Containers : life'[d] = "none" => used'[d] = {}
    BY <1>1, <2>3 DEF Drops, Gone, SandboxType, JobInv
  <2>4. ASSUME NEW j \in Jobs, NEW c \in Containers, LeavesSpare(j, c) \/ GetsNew(j, c)
        PROVE  \A d \in Containers : life'[d] = "none" => used'[d] = {}
    <3>1. \A d \in Containers : d # c => used'[d] = used[d]
      BY <2>4, HolderFacts DEF LeavesSpare, GetsNew
    <3>2. QED
      BY <2>2, <2>4, <3>1, TierFacts DEF LeavesSpare, GetsNew
  <2>5. ASSUME NEW j \in Jobs, TakesWarm(j)
        PROVE  \A d \in Containers : life'[d] = "none" => used'[d] = {}
    <3> DEFINE c == Head(pool[TierOf(j)])
    <3>1. c \in Containers /\ Is(c, TierOf(j), {}) /\ UNCHANGED life /\ NewHolder(j, c)
      BY <2>5, TakeFacts, TierFacts DEF TakesWarm, NewHolder
    <3> HIDE DEF c
    <3>2. \A d \in Containers : d # c => used'[d] = used[d]
      BY <3>1, HolderFacts
    <3>3. QED
      BY <1>1, <3>1, <3>2 DEF JobInv, Is
  <2>6. ASSUME NEW j \in Jobs, DropsBox(j) \/ DropsSpare(j)
        PROVE  \A d \in Containers : life'[d] = "none" => used'[d] = {}
    BY <2>3, <2>6 DEF DropsBox, DropsSpare, Killing, SandboxInv, HeldInv, SpareInv
  <2>7. QED
    BY <2>1, <2>2, <2>4, <2>5, <2>6, StepKinds DEF PutsWarm
\* A step of job j.
<1>4. ASSUME NEW j \in Jobs,
             \A k \in Jobs : k # j =>
               /\ pc'[k] = pc[k] /\ answer'[k] = answer[k] /\ rep'[k] = rep[k] /\ verdict'[k] = verdict[k]
               /\ \A c \in Containers : k \in used'[c] => k \in used[c],
             pc'[j] # "done" => answer'[j] = "none" /\ rep'[j] = "none",
             pc'[j] \in Early => \A c \in Containers : j \notin used'[c],
             pc'[j] = "remove" => verdict'[j] \in {"promoted", "killed"}
      PROVE  JobInv'
  BY <1>2, <1>3, <1>4 DEF JobInv
<1>5. CASE Warms \/ UNCHANGED vars
  <2>1. UNCHANGED <<pc, answer, rep, verdict, used>>
    BY <1>5 DEF Warms, vars
  <2>2. QED
    BY <1>1, <1>3, <2>1 DEF JobInv
<1>6. ASSUME NEW j \in Jobs, Arrives(j) \/ TriesAgain(j) PROVE JobInv'
  <2>1. /\ UNCHANGED <<answer, rep, verdict, used>> /\ pc[j] \in {"idle", "checkout"}
        /\ pc' \in {[pc EXCEPT ![j] = p] : p \in {"manager", "ondemand"}}
    BY <1>6 DEF Arrives, TriesAgain
  <2>2. pc'[j] \in {"manager", "ondemand"} /\ \A k \in Jobs : k # j => pc'[k] = pc[k]
    BY <1>1, <2>1 DEF SandboxType
  <2>3. answer[j] = "none" /\ rep[j] = "none" /\ \A c \in Containers : j \notin used[c]
    BY <1>1, <2>1 DEF JobInv
  <2>4. QED
    BY <1>4, <2>1, <2>2, <2>3
<1>7. ASSUME NEW j \in Jobs, Declines(j) \/ NoContainer(j) \/ Removes(j) PROVE JobInv'
  <2>1. /\ pc' = [pc EXCEPT ![j] = "done"] /\ UNCHANGED <<verdict, used>>
        /\ \E v : answer' = [answer EXCEPT ![j] = v]
        /\ rep' = rep \/ rep' = [rep EXCEPT ![j] = "queued"]
    BY <1>7 DEF Declines, NoContainer, Removes, Refuses
  <2>2. QED
    BY <1>1, <1>4, <2>1 DEF SandboxType
<1>8. ASSUME NEW j \in Jobs, ChecksOut(j) \/ StartsForJob(j) PROVE JobInv'
  <2>1. pc[j] \in Early /\ UNCHANGED <<verdict, answer, rep>>
    BY <1>8 DEF ChecksOut, StartsForJob
  <2>2. CASE pc' = [pc EXCEPT ![j] = "checkout"] /\ UNCHANGED used
    BY <1>1, <1>4, <2>1, <2>2 DEF SandboxType, JobInv
  <2>3. CASE \E c : Runs(j, c)
    <3>1. PICK c : pc' = [pc EXCEPT ![j] = "exec"] /\ used' = [used EXCEPT ![c] = @ \cup {j}]
      BY <2>3 DEF Runs
    <3>2. \A k \in Jobs : k # j => \A e \in Containers : k \in used'[e] => k \in used[e]
      BY <1>1, <3>1 DEF SandboxType
    <3>3. QED
      BY <1>1, <1>4, <2>1, <3>1, <3>2 DEF SandboxType, JobInv
  <2>4. QED
    BY <1>8, <2>2, <2>3 DEF ChecksOut, StartsForJob
<1>9. ASSUME NEW j \in Jobs, Ends(j) PROVE JobInv'
  <2>1. verdict'[j] \in {"promoted", "killed"}
    BY <1>1, <1>9 DEF Ends, PromoteOrKill, SandboxType
  <2>2. /\ pc[j] = "exec" /\ pc' = [pc EXCEPT ![j] = "remove"] /\ UNCHANGED <<answer, rep, used>>
        /\ \A k \in Jobs : k # j => verdict'[k] = verdict[k]
    BY <1>1, <1>9 DEF Ends, SandboxType
  <2>3. pc'[j] = "remove" /\ \A k \in Jobs : k # j => pc'[k] = pc[k]
    BY <1>1, <2>2 DEF SandboxType
  <2>4. answer[j] = "none" /\ rep[j] = "none"
    BY <1>1, <2>2 DEF JobInv
  <2>5. QED
    BY <1>4, <2>1, <2>2, <2>3, <2>4
<1>10. ASSUME NEW j \in Jobs, Replenisher(j) PROVE JobInv'
  <2>1. /\ rep[j] \in {"queued", "starting", "killing"} /\ UNCHANGED <<pc, answer, verdict, used>>
        /\ \E r : rep' = [rep EXCEPT ![j] = r]
    BY <1>10 DEF Replenisher, Replenishes, Puts, StartFails, KillsSpare
  <2>2. pc[j] = "done"
    BY <1>1, <2>1 DEF JobInv
  <2>3. QED
    BY <1>1, <1>4, <2>1, <2>2 DEF SandboxType
<1>11. QED
  BY <1>5, <1>6, <1>7, <1>8, <1>9, <1>10 DEF Next, Handler

-----------------------------------------------------------------------------
\* Before the pools are warm no job gets beyond waiting for them.
LEMMA BeforeReady ==
  ASSUME SandboxInv, [Next]_vars, mgr # "ready"
  PROVE  Warms \/ (\E j \in Jobs : Arrives(j)) \/ UNCHANGED vars
<1>1. \A j \in Jobs : pc[j] \in {"idle", "manager"} /\ rep[j] = "none"
  BY DEF SandboxInv, WarmingInv, JobInv
<1>2. ASSUME NEW j \in Jobs PROVE ~Handler(j)
  BY <1>1 DEF Handler, Declines, ChecksOut, StartsForJob, TriesAgain, NoContainer, Ends, Removes
<1>3. ASSUME NEW j \in Jobs PROVE ~Replenisher(j)
  BY <1>1 DEF Replenisher, Replenishes, Puts, StartFails, KillsSpare
<1>4. QED
  BY <1>2, <1>3 DEF Next

\* A start for the pool being warmed ends.
LEMMA WarmsFacts ==
  ASSUME SandboxInv, Warms
  PROVE  /\ Len(pool'[mgr]) + failed'[mgr] = Len(pool[mgr]) + failed[mgr] + 1
         /\ \A t \in Tiers : t # mgr => pool'[t] = pool[t] /\ failed'[t] = failed[t]
<1>1. SandboxType /\ mgr \in Tiers /\ UNCHANGED used
  BY DEF SandboxInv, Warms, SandboxType
<1>2. ASSUME NEW c \in Containers, Starts(c, mgr), pool' = [pool EXCEPT ![mgr] = Append(@, c)],
             UNCHANGED failed
      PROVE  /\ Len(pool'[mgr]) + failed'[mgr] = Len(pool[mgr]) + failed[mgr] + 1
             /\ \A t \in Tiers : t # mgr => pool'[t] = pool[t] /\ failed'[t] = failed[t]
  <2>1. /\ Len(pool'[mgr]) = Len(pool[mgr]) + 1
        /\ \A t \in Tiers : t # mgr => pool'[t] = pool[t]
    BY <1>1, <1>2, PutFacts
  <2>2. Len(pool[mgr]) \in Nat /\ failed[mgr] \in Nat
    BY <1>1 DEF SandboxType
  <2>3. QED
    BY <1>2, <2>1, <2>2
<1>3. CASE failed' = [failed EXCEPT ![mgr] = @ + 1] /\ UNCHANGED pool
  <2>1. Len(pool[mgr]) \in Nat /\ failed[mgr] \in Nat
    BY <1>1 DEF SandboxType
  <2>2. failed'[mgr] = failed[mgr] + 1 /\ \A t \in Tiers : t # mgr => failed'[t] = failed[t]
    BY <1>1, <1>3 DEF SandboxType
  <2>3. QED
    BY <1>3, <2>1, <2>2
<1>4. QED
  BY <1>2, <1>3 DEF Warms

LEMMA WarmingNext == SandboxInv /\ [Next]_vars => WarmingInv'
<1> SUFFICES ASSUME SandboxInv, [Next]_vars PROVE WarmingInv'
  OBVIOUS
<1>1. SandboxType /\ WarmingInv
  BY DEF SandboxInv
<1>2. CASE mgr = "ready"
  <2>1. mgr' = "ready"
    BY <1>2 DEF Next, Warms, Arrives, Handler, Declines, ChecksOut, StartsForJob, TriesAgain, NoContainer,
                Ends, Removes, Replenisher, Replenishes, Puts, StartFails, KillsSpare, vars, manager, Tiers
  <2>2. QED
    BY <2>1 DEF WarmingInv, Tiers
<1>3. ASSUME NEW j \in Jobs, Arrives(j), mgr # "ready" PROVE WarmingInv'
  <2>1. UNCHANGED <<client, kvm, warmed, pool, failed>>
    BY <1>3 DEF Arrives
  <2>2. \A k \in Jobs : pc'[k] \in {"idle", "manager"}
    BY <1>1, <1>3 DEF Arrives, WarmingInv, SandboxType
  <2>3. CASE mgr # "none"
    BY <1>1, <1>3, <2>1, <2>2, <2>3 DEF Arrives, WarmingInv
  <2>4. CASE mgr = "none" /\ client
    <3>1. mgr' = "docker" /\ warmed = 0 /\ \A t \in Tiers : Len(pool[t]) + failed[t] = 0
      BY <1>1, <1>3, <2>4 DEF Arrives, WarmingInv
    <3>2. QED
      BY <2>1, <2>2, <2>4, <3>1, PoolAssumption, TierFacts DEF WarmingInv
  <2>5. CASE mgr = "none" /\ ~client
    <3>1. mgr' = "ready"
      BY <1>3, <2>5 DEF Arrives
    <3>2. QED
      BY <3>1 DEF WarmingInv, Tiers
  <2>6. QED
    BY <2>3, <2>4, <2>5
<1>4. CASE Warms
  <2>1. mgr \in Tiers /\ mgr # "ready" /\ client /\ warmed < PoolSize /\ UNCHANGED <<client, kvm, pc>>
    BY <1>1, <1>4 DEF Warms, WarmingInv, Tiers, job
  <2>2. Len(pool[mgr]) + failed[mgr] = warmed
    BY <1>1, <2>1 DEF WarmingInv, Tiers
  <2>3. Len(pool'[mgr]) + failed'[mgr] = warmed + 1
    BY <1>4, <2>2, WarmsFacts
  <2>4. \A t \in Tiers : t # mgr => Len(pool'[t]) + failed'[t] = Len(pool[t]) + failed[t]
    BY <1>4, WarmsFacts
  <2>5. CASE warmed + 1 < PoolSize
    <3>1. mgr' = mgr /\ warmed' = warmed + 1
      BY <1>4, <2>5 DEF Warms, WarmNext
    <3>2. QED
      BY <1>1, <2>1, <2>3, <2>4, <2>5, <3>1, TierFacts DEF WarmingInv, Tiers
  <2>6. CASE ~(warmed + 1 < PoolSize)
    <3>1. warmed + 1 = PoolSize /\ warmed' = 0
          /\ mgr' = IF mgr = "docker" /\ kvm THEN "gvisor" ELSE "ready"
      BY <1>1, <1>4, <2>1, <2>6, PoolAssumption DEF Warms, WarmNext, SandboxType
    <3>2. QED
      BY <1>1, <2>1, <2>3, <2>4, <3>1, TierFacts, PoolAssumption DEF WarmingInv, Tiers
  <2>7. QED
    BY <2>5, <2>6
<1>5. CASE UNCHANGED vars
  BY <1>1, <1>5 DEF vars, manager, job, WarmingInv
<1>6. QED
  BY <1>2, <1>3, <1>4, <1>5, BeforeReady

-----------------------------------------------------------------------------
\* A job that still has its container, or whose replenish task is under way.
Pending(j) == Holds(j) \/ rep[j] \in {"queued", "starting"}

\* What a step of job j takes from the pool of its tier is on its way
\* afterwards, and what was on its way has arrived, has failed or is not needed.
Balanced(j, u) ==
  \/ /\ Pending(j)' <=> Pending(j)
     /\ Len(pool'[u]) = Len(pool[u]) /\ failed'[u] = failed[u]
  \/ /\ Pending(j)' /\ ~Pending(j)
     /\ Len(pool'[u]) \in {Len(pool[u]), Len(pool[u]) - 1} /\ failed'[u] = failed[u]
  \/ /\ Pending(j) /\ ~Pending(j)'
     /\ \/ Len(pool'[u]) = Len(pool[u]) /\ failed'[u] = failed[u] + 1
        \/ Len(pool'[u]) = Len(pool[u]) + 1 /\ failed'[u] = failed[u] /\ Len(pool[u]) < PoolSize
        \/ Len(pool'[u]) = Len(pool[u]) /\ failed'[u] = failed[u] /\ Len(pool[u]) >= PoolSize

\* The jobs of S that use the pool of t.
Using(S, t) == {k \in S : TierOf(k) = t}

\* How many they are when the pending jobs S become R by a step of job j.
LEMMA UsingCount ==
  ASSUME NEW S, NEW R, S \subseteq Jobs, R \subseteq Jobs, NEW j \in Jobs, NEW u, u = TierOf(j),
         \A k \in Jobs : k # j => (k \in R <=> k \in S),
         \A t \in Tiers : IsFiniteSet(Using(S, t))
  PROVE  /\ \A t \in Tiers : /\ IsFiniteSet(Using(R, t))
                             /\ Cardinality(Using(R, t)) \in Nat /\ Cardinality(Using(S, t)) \in Nat
                             /\ t # u => Using(R, t) = Using(S, t)
         /\ (j \in R <=> j \in S) => Using(R, u) = Using(S, u)
         /\ j \in R /\ j \notin S => Cardinality(Using(R, u)) = Cardinality(Using(S, u)) + 1
         /\ j \in S /\ j \notin R => Cardinality(Using(R, u)) = Cardinality(Using(S, u)) - 1
<1>1. u \in Tiers
  BY TierFacts
<1>2. \A t \in Tiers : t # u => Using(R, t) = Using(S, t)
  BY DEF Using
<1>3. (j \in R <=> j \in S) => Using(R, u) = Using(S, u)
  BY DEF Using
<1>4. j \in R /\ j \notin S => Using(R, u) = Using(S, u) \cup {j} /\ j \notin Using(S, u)
  BY DEF Using
<1>5. j \in S /\ j \notin R => Using(R, u) = Using(S, u) \ {j} /\ j \in Using(S, u)
  BY DEF Using
<1>6. \A t \in Tiers : IsFiniteSet(Using(R, t))
  BY <1>1, <1>2, <1>3, <1>4, <1>5, FS_AddElement, FS_RemoveElement
<1>7. QED
  BY <1>1, <1>2, <1>3, <1>4, <1>5, <1>6, FS_AddElement, FS_RemoveElement, FS_CardinalityType

\* A balanced step of one job, when the pools are warm, keeps the account.
LEMMA BalancedCount ==
  ASSUME SandboxType, SandboxType', CountInv,
         NEW j \in Jobs, NEW u \in Tiers, u = TierOf(j), mgr = "ready",
         UNCHANGED <<client, kvm, floor>>,
         \A k \in Jobs : k # j => (Pending(k)' <=> Pending(k)),
         \A t \in Tiers : t # u => pool'[t] = pool[t] /\ failed'[t] = failed[t],
         Balanced(j, u)
  PROVE  CountInv'
<1>1. PICK S, R : S = {k \in Jobs : Pending(k)} /\ R = {k \in Jobs : Pending(k)'}
  OBVIOUS
<1>2. \A t \in Tiers : Outstanding(t) = Using(S, t)
  BY <1>1 DEF Outstanding, Pending, Using
<1>3. \A t \in Tiers : {k \in Jobs : TierOf(k)' = t /\ Pending(k)'} = Using(R, t)
  BY <1>1 DEF TierOf, Using
<1>4. /\ S \subseteq Jobs /\ R \subseteq Jobs /\ (\A k \in Jobs : k # j => (k \in R <=> k \in S))
      /\ (j \in S <=> Pending(j)) /\ (j \in R <=> Pending(j)')
  BY <1>1
<1>5. \A t \in Tiers : IsFiniteSet(Using(S, t))
  BY <1>2 DEF CountInv
<1>6. /\ \A t \in Tiers : /\ IsFiniteSet(Using(R, t))
                          /\ Cardinality(Using(R, t)) \in Nat /\ Cardinality(Using(S, t)) \in Nat
                          /\ t # u => Using(R, t) = Using(S, t)
      /\ (j \in R <=> j \in S) => Using(R, u) = Using(S, u)
      /\ j \in R /\ j \notin S => Cardinality(Using(R, u)) = Cardinality(Using(S, u)) + 1
      /\ j \in S /\ j \notin R => Cardinality(Using(R, u)) = Cardinality(Using(S, u)) - 1
  BY <1>4, <1>5, UsingCount
<1>7. client => \A t \in Tiers : (t = "gvisor" => kvm) =>
        PoolSize - Len(pool[t]) \in 0..(Cardinality(Using(S, t)) + failed[t])
  BY <1>2 DEF CountInv, PoolRecovers
<1>8. \A t \in Tiers : /\ pool[t] \in Seq(Containers) /\ pool'[t] \in Seq(Containers)
                       /\ failed[t] \in Nat /\ failed'[t] \in Nat
  BY DEF SandboxType
<1>9. ASSUME client, NEW t \in Tiers, t = "gvisor" => kvm
      PROVE  PoolSize - Len(pool'[t]) \in 0..(Cardinality(Using(R, t)) + failed'[t])
  <2>1. PoolSize - Len(pool[t]) \in 0..(Cardinality(Using(S, t)) + failed[t])
    BY <1>7, <1>9
  <2>2. CASE t # u
    <3>1. pool'[t] = pool[t] /\ failed'[t] = failed[t]
      BY <2>2
    <3>2. Using(R, t) = Using(S, t)
      BY <1>6, <2>2, Zenon
    <3>3. QED
      BY <2>1, <3>1, <3>2
  <2>3. CASE t = u
    <3> DEFINE a == Len(pool[u])
               b == Len(pool'[u])
               m == Cardinality(Using(S, u))
               n == Cardinality(Using(R, u))
               x == failed[u]
               y == failed'[u]
    <3>1. a \in Nat /\ b \in Nat /\ m \in Nat /\ n \in Nat /\ x \in Nat /\ y \in Nat /\ PoolSize \in Nat
      <4>1. a \in Nat /\ b \in Nat /\ x \in Nat /\ y \in Nat /\ PoolSize \in Nat
        BY <1>8, PoolAssumption
      <4>2. m \in Nat /\ n \in Nat
        BY <1>6, Zenon
      <4>3. QED
        BY <4>1, <4>2
    <3>2. PoolSize - a \in 0..(m + x)
      BY <2>1, <2>3
    <3>3. \/ n = m /\ b = a /\ y = x
          \/ n = m + 1 /\ b \in {a, a - 1} /\ y = x
          \/ n = m - 1 /\ b = a /\ y = x + 1
          \/ n = m - 1 /\ b = a + 1 /\ y = x /\ a < PoolSize
          \/ n = m - 1 /\ b = a /\ y = x /\ a >= PoolSize
      BY <1>4, <1>6 DEF Balanced
    <3> HIDE DEF a, b, m, n, x, y
    <3>4. PoolSize - b \in 0..(n + y)
      BY <3>1, <3>2, <3>3
    <3>5. QED
      BY <2>3, <3>4 DEF b, n, y
  <2>4. QED
    BY <2>2, <2>3
<1>10. \A t \in Tiers : Outstanding(t)' = Using(R, t)
  BY <1>3 DEF Outstanding, Pending
<1>11. (\A t \in Tiers : IsFiniteSet(Outstanding(t)))'
  BY <1>6, <1>10, Zenon
<1>12. PoolRecovers'
  BY <1>9, <1>10 DEF PoolRecovers
<1>13. QED
  BY <1>11, <1>12 DEF CountInv

LEMMA CountNext == SandboxInv /\ [Next]_vars => CountInv'
<1> SUFFICES ASSUME SandboxInv, [Next]_vars PROVE CountInv'
  OBVIOUS
<1>1. SandboxType /\ JobInv /\ WarmingInv /\ SandboxType' /\ WarmingInv'
  BY TypeNext, WarmingNext DEF SandboxInv
<1>2. \A t \in Tiers : IsFiniteSet(Outstanding(t)) /\ Cardinality(Outstanding(t)) \in Nat
  BY FS_CardinalityType DEF SandboxInv, CountInv
<1>3. \A t \in Tiers : /\ Len(pool[t]) \in Nat /\ Len(pool'[t]) \in Nat
                       /\ failed[t] \in Nat /\ failed'[t] \in Nat
  BY <1>1 DEF SandboxType
\* The jobs and tasks that count stay the same, and so does what they wait for.
<1>4. ASSUME \A t \in Tiers : Outstanding(t)' = Outstanding(t),
             UNCHANGED <<client, kvm, pool, failed>>, mgr' = "ready" => mgr = "ready"
      PROVE  CountInv'
  BY <1>2, <1>4 DEF SandboxInv, CountInv, PoolRecovers
<1>5. ASSUME UNCHANGED <<floor, pc, rep>>, NEW t \in Tiers PROVE Outstanding(t)' = Outstanding(t)
  BY <1>5 DEF Outstanding, TierOf, Holds
<1>6. CASE UNCHANGED vars
  BY <1>4, <1>5, <1>6 DEF vars, manager, job, refill
<1>7. CASE Warms
  <2>1. \A t \in Tiers : IsFiniteSet(Outstanding(t)') /\ Cardinality(Outstanding(t)') \in Nat
    BY <1>2, <1>5, <1>7 DEF Warms, job, refill
  <2>2. mgr \in Tiers /\ client' = client /\ kvm' = kvm /\ WarmNext
    BY <1>7 DEF Warms
  <2>3. ASSUME mgr' = "ready", NEW t \in Tiers, t = "gvisor" => kvm
        PROVE  Len(pool'[t]) + failed'[t] = PoolSize
    <3>1. warmed + 1 = PoolSize /\ (mgr = "gvisor" \/ ~kvm)
      BY <1>1, <2>2, <2>3, PoolAssumption DEF WarmNext, WarmingInv, SandboxType, Tiers
    <3>2. CASE t = mgr
      BY <1>1, <1>7, <2>2, <3>1, <3>2, WarmsFacts DEF WarmingInv, Tiers
    <3>3. CASE t # mgr
      <4>1. t = "docker" /\ mgr = "gvisor"
        BY <2>2, <2>3, <3>1, <3>3 DEF Tiers
      <4>2. Len(pool[t]) + failed[t] = PoolSize
        BY <1>1, <4>1 DEF WarmingInv
      <4>3. QED
        BY <1>7, <3>3, <4>2, WarmsFacts
    <3>4. QED
      BY <3>2, <3>3
  <2>4. QED
    BY <1>3, <2>1, <2>2, <2>3, PoolAssumption DEF CountInv, PoolRecovers
<1>8. ASSUME NEW j \in Jobs, Arrives(j) PROVE CountInv'
  <2>1. UNCHANGED <<client, kvm, floor, pool, rep, failed>> /\ pc[j] = "idle" /\ pc' = [pc EXCEPT ![j] = "manager"]
    BY <1>8 DEF Arrives, refill
  <2>2. \A t \in Tiers : Outstanding(t)' = Outstanding(t)
    BY <1>1, <2>1 DEF Outstanding, TierOf, Holds, SandboxType
  <2>3. client => mgr' = mgr \/ mgr' = "docker"
    BY <1>8 DEF Arrives
  <2>4. QED
    BY <1>2, <2>1, <2>2, <2>3 DEF SandboxInv, CountInv, PoolRecovers
\* A step of one job when the pools are warm.
<1>9. ASSUME NEW j \in Jobs, NEW u \in Tiers, u = TierOf(j), mgr = "ready",
             UNCHANGED <<client, kvm, floor>>,
             \A k \in Jobs : k # j => (Pending(k)' <=> Pending(k)),
             \A t \in Tiers : t # u => pool'[t] = pool[t] /\ failed'[t] = failed[t],
             Balanced(j, u)
      PROVE  CountInv'
  BY <1>1, <1>9, BalancedCount DEF SandboxInv
<1>10. ASSUME NEW j \in Jobs, mgr = "ready", Handler(j) \/ Replenisher(j) PROVE CountInv'
  <2> DEFINE u == TierOf(j)
  <2>1. u \in Tiers /\ UNCHANGED <<client, kvm, floor>>
    BY <1>10, TierFacts DEF Handler, Declines, ChecksOut, StartsForJob, TriesAgain, NoContainer, Ends, Removes,
       Replenisher, Replenishes, Puts, StartFails, KillsSpare, manager
  <2>2. \A k \in Jobs : k # j => (Pending(k)' <=> Pending(k))
    <3>1. (\E p : pc' = [pc EXCEPT ![j] = p]) \/ UNCHANGED pc
      BY <1>10 DEF Handler, Declines, ChecksOut, StartsForJob, TriesAgain, NoContainer, Ends, Removes,
         Replenisher, Replenishes, Puts, StartFails, KillsSpare, Runs, Refuses, job
    <3>2. (\E r : rep' = [rep EXCEPT ![j] = r]) \/ UNCHANGED rep
      BY <1>10 DEF Handler, Declines, ChecksOut, StartsForJob, TriesAgain, NoContainer, Ends, Removes,
         Replenisher, Replenishes, Puts, StartFails, KillsSpare, refill
    <3>3. \A k \in Jobs : k # j => pc'[k] = pc[k] /\ rep'[k] = rep[k]
      BY <1>1, <3>1, <3>2 DEF SandboxType
    <3>4. QED
      BY <3>3 DEF Pending, Holds
  <2> HIDE DEF u
  <2>3. CASE Declines(j) \/ TriesAgain(j) \/ Ends(j) \/ Removes(j) \/ KillsSpare(j)
    <3>1. UNCHANGED <<pool, failed>>
      BY <2>3 DEF Declines, TriesAgain, Ends, Removes, KillsSpare
    <3>2. Pending(j)' <=> Pending(j)
      BY <1>1, <2>3
      DEF Declines, Refuses, TriesAgain, Ends, Removes, KillsSpare, Pending, Holds, SandboxType, JobInv,
          job, refill
    <3>3. QED
      BY <1>9, <1>10, <2>1, <2>2, <3>1, <3>2 DEF u, Balanced
  <2>4. CASE ChecksOut(j)
    <3>1. rep[j] = "none" /\ pc[j] = "manager" /\ UNCHANGED <<rep, failed>>
      BY <1>1, <2>4 DEF ChecksOut, JobInv, refill
    <3>2. CASE pool[u] # <<>>
      <4>2. pool' = [pool EXCEPT ![u] = Tail(@)] /\ pc' = [pc EXCEPT ![j] = "exec"]
        BY <2>4, <3>2 DEF ChecksOut, Runs, u
      <4>3. Len(pool'[u]) = Len(pool[u]) - 1 /\ \A t \in Tiers : t # u => pool'[t] = pool[t]
        <5>1. pool[u] \in Seq(Containers) /\ pool'[u] = Tail(pool[u])
          BY <1>1, <2>1, <4>2 DEF SandboxType
        <5>2. Len(pool'[u]) = Len(pool[u]) - 1
          BY <3>2, <5>1, TailFacts
        <5>3. QED
          BY <1>1, <4>2, <5>2 DEF SandboxType
      <4>4. Pending(j)' /\ ~Pending(j)
        BY <1>1, <3>1, <4>2 DEF Pending, Holds, SandboxType
      <4>5. QED
        BY <1>9, <1>10, <2>1, <2>2, <3>1, <4>3, <4>4 DEF u, Balanced
    <3>3. CASE pool[u] = <<>>
      <4>1. UNCHANGED pool /\ pc' = [pc EXCEPT ![j] = "checkout"]
        BY <2>4, <3>3 DEF ChecksOut, u
      <4>2. Pending(j)' <=> Pending(j)
        BY <1>1, <3>1, <4>1 DEF Pending, Holds, SandboxType
      <4>3. QED
        BY <1>9, <1>10, <2>1, <2>2, <3>1, <4>1, <4>2 DEF u, Balanced
    <3>4. QED
      BY <3>2, <3>3
  <2>5. CASE StartsForJob(j)
    <3>1. UNCHANGED <<pool, failed, rep>> /\ pc[j] \in {"checkout", "ondemand"} /\ pc' = [pc EXCEPT ![j] = "exec"]
      BY <2>5 DEF StartsForJob, Runs, refill
    <3>2. Pending(j)' /\ ~Pending(j)
      <4>1. rep[j] = "none"
        BY <1>1, <3>1 DEF JobInv
      <4>2. QED
        BY <1>1, <3>1, <4>1 DEF Pending, Holds, SandboxType
    <3>3. QED
      BY <1>9, <1>10, <2>1, <2>2, <3>1, <3>2 DEF u, Balanced
  <2>6. CASE NoContainer(j)
    <3>1. UNCHANGED <<pool, failed>> /\ pc[j] = "ondemand" /\ rep' = [rep EXCEPT ![j] = "queued"]
      BY <2>6 DEF NoContainer
    <3>2. Pending(j)' /\ ~Pending(j)
      <4>1. rep[j] = "none"
        BY <1>1, <3>1 DEF JobInv
      <4>2. QED
        BY <1>1, <3>1, <4>1 DEF Pending, Holds, SandboxType
    <3>3. QED
      BY <1>9, <1>10, <2>1, <2>2, <3>1, <3>2 DEF u, Balanced
  <2>7. CASE Replenishes(j)
    <3>1. /\ UNCHANGED <<pool, failed, pc>> /\ rep[j] = "queued"
          /\ rep' = [rep EXCEPT ![j] = IF Len(pool[u]) < PoolSize THEN "starting" ELSE "done"]
      BY <2>7 DEF Replenishes, NeedsOne, job, u
    <3>2. pc[j] = "done"
      BY <1>1, <3>1 DEF JobInv
    <3>3. CASE Len(pool[u]) < PoolSize
      <4>1. Pending(j)' <=> Pending(j)
        BY <1>1, <3>1, <3>2, <3>3 DEF Pending, Holds, SandboxType
      <4>2. QED
        BY <1>9, <1>10, <2>1, <2>2, <3>1, <4>1 DEF u, Balanced
    <3>4. CASE ~(Len(pool[u]) < PoolSize)
      <4>1. Pending(j) /\ ~Pending(j)'
        BY <1>1, <3>1, <3>2, <3>4 DEF Pending, Holds, SandboxType
      <4>2. Len(pool[u]) >= PoolSize
        BY <1>3, <2>1, <3>4, PoolAssumption
      <4>3. QED
        BY <1>9, <1>10, <2>1, <2>2, <3>1, <4>1, <4>2 DEF u, Balanced
    <3>5. QED
      BY <3>3, <3>4
  <2>8. CASE StartFails(j)
    <3>1. /\ UNCHANGED <<pool, pc>> /\ rep[j] = "starting" /\ rep' = [rep EXCEPT ![j] = "done"]
          /\ failed' = [failed EXCEPT ![u] = @ + 1]
      BY <2>8 DEF StartFails, job, u
    <3>2. failed'[u] = failed[u] + 1 /\ \A t \in Tiers : t # u => failed'[t] = failed[t]
      BY <1>1, <2>1, <3>1 DEF SandboxType
    <3>3. Pending(j) /\ ~Pending(j)'
      <4>1. pc[j] = "done"
        BY <1>1, <3>1 DEF JobInv
      <4>2. QED
        BY <1>1, <3>1, <4>1 DEF Pending, Holds, SandboxType
    <3>4. QED
      BY <1>9, <1>10, <2>1, <2>2, <3>1, <3>2, <3>3 DEF u, Balanced
  <2>9. CASE Puts(j)
    <3>1. rep[j] = "starting" /\ UNCHANGED <<pc, used, failed>> /\ rep'[j] \in {"done", "killing"}
      BY <1>1, <2>9 DEF Puts, job, SandboxType
    <3>2. Pending(j) /\ ~Pending(j)'
      <4>1. pc[j] = "done"
        BY <1>1, <3>1 DEF JobInv
      <4>2. QED
        BY <1>1, <3>1, <4>1 DEF Pending, Holds, SandboxType
    <3>3. CASE Len(pool[u]) < PoolSize
      <4>1. PICK c \in Containers : Starts(c, u) /\ pool' = [pool EXCEPT ![u] = Append(@, c)]
        BY <2>9, <3>3 DEF Puts, u
      <4>2. Len(pool'[u]) = Len(pool[u]) + 1 /\ \A t \in Tiers : t # u => pool'[t] = pool[t]
        BY <2>1, <3>1, <4>1, PutFacts
      <4>3. QED
        BY <1>9, <1>10, <2>1, <2>2, <3>1, <3>2, <3>3, <4>2 DEF u, Balanced
    <3>4. CASE ~(Len(pool[u]) < PoolSize)
      <4>1. UNCHANGED pool
        BY <2>9, <3>4 DEF Puts, u
      <4>2. Len(pool[u]) >= PoolSize
        BY <1>3, <2>1, <3>4, PoolAssumption
      <4>3. QED
        BY <1>9, <1>10, <2>1, <2>2, <3>1, <3>2, <4>1, <4>2 DEF u, Balanced
    <3>5. QED
      BY <3>3, <3>4
  <2>10. QED
    BY <1>10, <2>3, <2>4, <2>5, <2>6, <2>7, <2>8, <2>9 DEF Handler, Replenisher
<1>11. QED
  BY <1>6, <1>7, <1>8, <1>10, BeforeReady DEF Next

LEMMA NextSandbox == SandboxInv /\ [Next]_vars => SandboxInv'
  BY TypeNext, PoolsNext, HeldNext, SpareNext, JobNext, NoneForgottenNext, WarmingNext, CountNext
  DEF SandboxInv

(* In every reachable state, for any number of jobs, each container is in    *)
(* one place: warm in one pool, held by the one job that ever got it, or     *)
(* about to be killed; and each pool's account is complete (executor.py      *)
(* 118-207, pool.py 58-131, manager.py 40-99).                               *)
THEOREM SandboxCorrect == Spec => []SandboxInv
<1>1. Init => SandboxInv
  BY InitSandbox
<1>2. SandboxInv /\ [Next]_vars => SandboxInv'
  BY NextSandbox
<1>3. QED
  BY <1>1, <1>2, PTL DEF Spec

(* The variables of the sandbox keep their types.                            *)
THEOREM SandboxTypeCorrect == Spec => []SandboxType
<1>1. SandboxInv => SandboxType
  BY DEF SandboxInv
<1>2. QED
  BY <1>1, SandboxCorrect, PTL

(* No container that is alive is forgotten, and a job that needs the gVisor  *)
(* floor never holds one of the weaker runtime (executor.py 118-124 and      *)
(* 198-207, pool.py 89-97, manager.py 93-99).                                *)
THEOREM NoneForgottenCorrect == Spec => []NoneForgotten
<1>1. SandboxInv => NoneForgotten
  BY DEF SandboxInv
<1>2. QED
  BY <1>1, SandboxCorrect, PTL

(* A pool lacks no more than what is under way or has failed, and is never   *)
(* overfilled (pool.py 80-97).                                               *)
THEOREM PoolRecoversCorrect == Spec => []PoolRecovers
<1>1. SandboxInv => PoolRecovers
  BY DEF SandboxInv, CountInv
<1>2. QED
  BY <1>1, SandboxCorrect, PTL

-----------------------------------------------------------------------------
\* The life of the containers as the promise sees it.
Phase ==
  [c \in Containers |->
     IF life[c] = "none" THEN "none"
     ELSE IF life[c] = "removed" THEN "gone"
     ELSE IF used[c] = {} THEN "fresh" ELSE "used"]

\* What becomes of it when a step touches one container only.
LEMMA PhaseFacts ==
  ASSUME NEW c \in Containers,
         \A d \in Containers : d # c => life'[d] = life[d] /\ used'[d] = used[d]
  PROVE  Phase' = [Phase EXCEPT ![c] = Phase'[c]]
<1>1. \A d \in Containers : d # c => Phase'[d] = Phase[d]
  BY DEF Phase
<1>2. Phase = [d \in Containers |-> Phase[d]] /\ Phase' = [d \in Containers |-> Phase'[d]]
  BY DEF Phase
<1>3. QED
  BY <1>1, <1>2

\* A job that is not answered yet and has no container.
LEMMA NotYetFacts ==
  ASSUME SandboxInv, NEW j \in Jobs, pc[j] \in {"manager", "checkout", "ondemand"}
  PROVE  answer[j] = "none" /\ ~Promised!HasOne(j)
  BY DEF SandboxInv, JobInv, Promised!HasOne

\* Every step of the sandbox is a step of the promise, or none.
LEMMA SingleUseStep ==
  SandboxInv /\ [Next]_vars => [Promised!UNext]_<<Phase, used, answer>>
<1> SUFFICES ASSUME SandboxInv, [Next]_vars
             PROVE  Promised!UNext \/ UNCHANGED <<Phase, used, answer>>
  OBVIOUS
<1>1. SandboxType /\ HeldInv /\ SpareInv
  BY DEF SandboxInv
<1>2. ASSUME NEW c \in Containers, NEW t \in Tiers, Starts(c, t), UNCHANGED <<used, answer>>
      PROVE  Promised!UNext
  <2>1. Phase[c] = "none" /\ Phase'[c] = "fresh"
    BY <1>2, StartsFacts DEF Phase
  <2>2. Phase' = [Phase EXCEPT ![c] = "fresh"]
    BY <1>2, <2>1, StartsFacts, PhaseFacts
  <2>3. Promised!Start(c)
    BY <1>2, <2>1, <2>2 DEF Promised!Start, Phase
  <2>4. QED
    BY <2>3 DEF Promised!UNext
<1>3. ASSUME UNCHANGED <<life, used, answer>> PROVE UNCHANGED <<Phase, used, answer>>
  BY <1>3 DEF Phase
<1>4. CASE Warms
  <2>1. UNCHANGED <<used, answer>> /\ mgr \in Tiers
        /\ ((\E c \in Containers : Starts(c, mgr)) \/ UNCHANGED life)
    BY <1>4 DEF Warms, job, docker
  <2>2. QED
    BY <1>2, <1>3, <2>1
<1>5. ASSUME NEW j \in Jobs, Arrives(j) \/ TriesAgain(j) \/ Ends(j) \/ Replenishes(j) \/ StartFails(j)
      PROVE  UNCHANGED <<life, used, answer>>
  BY <1>5 DEF Arrives, TriesAgain, Ends, Replenishes, StartFails, docker, job
<1>6. ASSUME NEW j \in Jobs, Declines(j) \/ NoContainer(j) PROVE Promised!UNext
  <2>1. PICK v \in {"blocked", "error"} :
          answer' = [answer EXCEPT ![j] = v] /\ pc[j] \in {"manager", "ondemand"} /\ UNCHANGED <<life, used>>
    BY <1>6 DEF Declines, NoContainer, Refuses, docker
  <2>2. answer[j] = "none" /\ ~Promised!HasOne(j)
    BY <2>1, NotYetFacts
  <2>3. UNCHANGED <<Phase, used>>
    BY <2>1 DEF Phase
  <2>4. Promised!Refuse(j, v)
    BY <2>1, <2>2, <2>3 DEF Promised!Refuse, Promised!Refused, Phase
  <2>5. QED
    BY <2>4 DEF Promised!UNext, Promised!Refused
\* A container nobody used is given to a job that had none.
<1>7. ASSUME NEW j \in Jobs, NEW c \in Containers, pc[j] \in {"manager", "checkout", "ondemand"},
             Runs(j, c), UNCHANGED answer, used[c] = {}, life[c] \in {"none", "alive"}, life'[c] = "alive",
             \A d \in Containers : d # c => life'[d] = life[d]
      PROVE  Promised!UNext
  <2>1. used' = [used EXCEPT ![c] = {j}]
    BY <1>1, <1>7 DEF Runs, SandboxType
  <2>2. Phase[c] \in {"none", "fresh"} /\ Phase'[c] = "used"
    <3>1. used'[c] = {j}
      BY <1>1, <2>1 DEF SandboxType
    <3>2. QED
      BY <1>7, <3>1 DEF Phase
  <2>3. Phase' = [Phase EXCEPT ![c] = "used"]
    BY <1>1, <1>7, <2>1, <2>2, PhaseFacts DEF SandboxType
  <2>4. Promised!Give(c, j)
    BY <1>7, <2>1, <2>2, <2>3, NotYetFacts DEF Promised!Give, Phase
  <2>5. QED
    BY <2>4 DEF Promised!UNext
<1>8. ASSUME NEW j \in Jobs, ChecksOut(j) PROVE Promised!UNext \/ UNCHANGED <<life, used, answer>>
  <2>1. CASE pool[TierOf(j)] = <<>>
    BY <1>8, <2>1 DEF ChecksOut, docker
  <2>2. CASE pool[TierOf(j)] # <<>>
    <3> DEFINE t == TierOf(j)
               c == Head(pool[t])
    <3>1. Runs(j, c) /\ pool' = [pool EXCEPT ![t] = Tail(@)] /\ pc[j] = "manager" /\ UNCHANGED <<docker, answer>>
      BY <1>8, <2>2 DEF ChecksOut
    <3>2. c \in Containers /\ Is(c, t, {})
      BY <2>2, <3>1, TakeFacts, TierFacts
    <3>3. QED
      BY <1>7, <3>1, <3>2 DEF Is, docker
  <2>3. QED
    BY <2>1, <2>2
<1>9. ASSUME NEW j \in Jobs, StartsForJob(j) PROVE Promised!UNext
  <2>1. PICK c \in Containers : Starts(c, TierOf(j)) /\ Runs(j, c)
    BY <1>9 DEF StartsForJob
  <2>2. pc[j] \in {"checkout", "ondemand"} /\ UNCHANGED answer
    BY <1>9 DEF StartsForJob
  <2>3. QED
    BY <1>7, <2>1, <2>2, StartsFacts, TierFacts
<1>10. ASSUME NEW j \in Jobs, Removes(j) PROVE Promised!UNext
  <2>1. PICK c \in Containers, v \in {"promoted", "killed"} :
          c = box[j] /\ v = verdict[j] /\ life[c] = "alive" /\ used[c] = {j} /\ answer[j] = "none"
    BY <1>1, <1>10 DEF Removes, HeldInv, Holds, Is, SandboxInv, JobInv
  <2>2. PICK l \in Gone : life' = [life EXCEPT ![c] = l]
    BY <1>10, <2>1 DEF Removes
  <2>3. answer' = [answer EXCEPT ![j] = v] /\ used' = used
    BY <1>10, <2>1 DEF Removes, Refuses
  <2>4. life'[c] = l /\ \A d \in Containers : d # c => life'[d] = life[d]
    BY <1>1, <2>1, <2>2 DEF SandboxType
  <2>5. Phase[c] = "used" /\ Phase'[c] = IF l = "removed" THEN "gone" ELSE "used"
    BY <2>1, <2>2, <2>3, <2>4 DEF Phase, Gone
  <2>6. Phase' = [Phase EXCEPT ![c] = Phase'[c]]
    BY <2>1, <2>3, <2>4, PhaseFacts
  <2>7. Phase' = Phase \/ Phase' = [Phase EXCEPT ![c] = "gone"]
    <3>1. Phase = [Phase EXCEPT ![c] = "used"]
      BY <2>1, <2>5 DEF Phase
    <3>2. QED
      BY <2>5, <2>6, <3>1
  <2>8. Promised!Finish(c, j, v)
    BY <2>1, <2>3, <2>5, <2>7 DEF Promised!Finish, Promised!Ran, Phase
  <2>9. QED
    BY <2>1, <2>8 DEF Promised!UNext, Promised!Ran
<1>11. ASSUME NEW j \in Jobs, Puts(j) PROVE Promised!UNext
  <2>1. UNCHANGED <<used, answer>> /\ \E c \in Containers : Starts(c, TierOf(j))
    BY <1>11 DEF Puts, job
  <2>2. QED
    BY <1>2, <2>1, TierFacts
<1>12. ASSUME NEW j \in Jobs, KillsSpare(j) PROVE Promised!UNext \/ UNCHANGED <<Phase, used, answer>>
  <2>1. PICK c \in Containers : c = spare[j] /\ life[c] = "alive" /\ used[c] = {}
    BY <1>1, <1>12 DEF KillsSpare, SpareInv, Is
  <2>2. PICK l \in Gone : life' = [life EXCEPT ![c] = l]
    BY <1>12, <2>1 DEF KillsSpare
  <2>3. UNCHANGED <<used, answer>>
    BY <1>12 DEF KillsSpare, job
  <2>4. life'[c] = l /\ \A d \in Containers : d # c => life'[d] = life[d]
    BY <1>1, <2>1, <2>2 DEF SandboxType
  <2>5. Phase[c] = "fresh" /\ Phase'[c] = IF l = "removed" THEN "gone" ELSE "fresh"
    BY <2>1, <2>2, <2>3, <2>4 DEF Phase, Gone
  <2>6. Phase' = [Phase EXCEPT ![c] = Phase'[c]]
    BY <2>1, <2>3, <2>4, PhaseFacts
  <2>7. Phase' = Phase \/ Phase' = [Phase EXCEPT ![c] = "gone"]
    <3>1. Phase = [Phase EXCEPT ![c] = "fresh"]
      BY <2>1, <2>5 DEF Phase
    <3>2. QED
      BY <2>5, <2>6, <3>1
  <2>8. CASE Phase' = [Phase EXCEPT ![c] = "gone"]
    <3>1. Promised!Discard(c)
      BY <2>1, <2>3, <2>5, <2>8 DEF Promised!Discard, Phase
    <3>2. QED
      BY <2>1, <3>1 DEF Promised!UNext
  <2>9. QED
    BY <2>3, <2>7, <2>8
<1>13. CASE UNCHANGED vars
  BY <1>3, <1>13 DEF vars, docker, job
<1>14. QED
  BY <1>3, <1>4, <1>5, <1>6, <1>8, <1>9, <1>10, <1>11, <1>12, <1>13 DEF Next, Handler, Replenisher

(* The pool, the executor and the manager implement the promise of           *)
(* single-use containers: a container is given to one job in its life and    *)
(* never comes back, a job gets at most one, and is told once that it was    *)
(* run and only when it had one (executor.py 118-207, pool.py 58-131).       *)
THEOREM SingleUseImplemented == Spec => ImplementsSingleUse
<1>1. Init => Promised!UInit
  BY DEF Init, Promised!UInit
<1>2. SandboxInv /\ [Next]_vars => [Promised!UNext]_<<Phase, used, answer>>
  BY SingleUseStep
<1>3. QED
  BY <1>1, <1>2, SandboxCorrect, PTL DEF Spec, ImplementsSingleUse, Promised!Promise, Phase
============================================================================
