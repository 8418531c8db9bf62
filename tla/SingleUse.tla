----------------------------- MODULE SingleUse -----------------------------
(***************************************************************************)
(* What the sandbox promises of its containers and jobs: a container is    *)
(* given to one job in its life and never comes back, a job gets at most   *)
(* one container, and a job that was run is told so exactly once.          *)
(***************************************************************************)
CONSTANTS Jobs, Containers

VARIABLES
  life,     \* life[c]: "none", "fresh", "used" or "gone"
  owner,    \* owner[c]: the jobs c was given to
  answer    \* answer[j]: the verdict of j

Ran     == {"promoted", "killed"}
Refused == {"blocked", "error"}

UInit ==
  /\ life = [c \in Containers |-> "none"]
  /\ owner = [c \in Containers |-> {}]
  /\ answer = [j \in Jobs |-> "none"]

HasOne(j) == \E c \in Containers : j \in owner[c]

Start(c) ==
  /\ life[c] = "none"
  /\ life' = [life EXCEPT ![c] = "fresh"]
  /\ UNCHANGED <<owner, answer>>

Give(c, j) ==
  /\ life[c] \in {"none", "fresh"}
  /\ answer[j] = "none" /\ ~HasOne(j)
  /\ life' = [life EXCEPT ![c] = "used"]
  /\ owner' = [owner EXCEPT ![c] = {j}]
  /\ UNCHANGED answer

Discard(c) ==
  /\ life[c] = "fresh"
  /\ life' = [life EXCEPT ![c] = "gone"]
  /\ UNCHANGED <<owner, answer>>

Refuse(j, v) ==
  /\ answer[j] = "none" /\ ~HasOne(j) /\ v \in Refused
  /\ answer' = [answer EXCEPT ![j] = v]
  /\ UNCHANGED <<life, owner>>

\* The container of a job that is answered goes, unless Docker keeps it.
Finish(c, j, v) ==
  /\ answer[j] = "none" /\ life[c] = "used" /\ owner[c] = {j} /\ v \in Ran
  /\ answer' = [answer EXCEPT ![j] = v]
  /\ life' = life \/ life' = [life EXCEPT ![c] = "gone"]
  /\ UNCHANGED owner

UNext ==
  \/ \E c \in Containers : Start(c) \/ Discard(c)
  \/ \E j \in Jobs, v \in Refused : Refuse(j, v)
  \/ \E c \in Containers, j \in Jobs : Give(c, j) \/ \E v \in Ran : Finish(c, j, v)

Promise == UInit /\ [][UNext]_<<life, owner, answer>>
============================================================================
