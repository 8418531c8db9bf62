--------------------------- MODULE HoldLifecycle ---------------------------
(***************************************************************************)
(* What the analyst queue promises of a hold (the life cycle in the header *)
(* of agentguard/analyst/queue.py): it is decided at most once, it expires *)
(* only when its time is over, and an expired hold is never approved.      *)
(***************************************************************************)
EXTENDS Integers

CONSTANTS Holds, Timeouts

Decisions == {"approved", "rejected"}
Statuses  == {"absent", "pending", "expired"} \cup Decisions

VARIABLES
  status,   \* status[h]
  due,      \* due[h]: when the time of h is over
  clock

lvars == <<status, due, clock>>

LInit ==
  /\ status = [h \in Holds |-> "absent"]
  /\ due = [h \in Holds |-> 0]
  /\ clock = 0

Place(h, t) ==
  /\ status[h] = "absent"
  /\ status' = [status EXCEPT ![h] = "pending"]
  /\ due' = [due EXCEPT ![h] = clock + t]
  /\ UNCHANGED clock

Decide(h, d) ==
  /\ status[h] = "pending"
  /\ status' = [status EXCEPT ![h] = d]
  /\ UNCHANGED <<due, clock>>

\* Any holds whose time is over may expire together.
Expire(S) ==
  /\ \A h \in S : status[h] = "pending" /\ due[h] <= clock
  /\ status' = [h \in Holds |-> IF h \in S THEN "expired" ELSE status[h]]
  /\ UNCHANGED <<due, clock>>

\* The queue is in memory: a crash forgets every hold.
Forget ==
  /\ status' = [h \in Holds |-> "absent"]
  /\ due' = [h \in Holds |-> 0]
  /\ UNCHANGED clock

Passes == clock' = clock + 1 /\ UNCHANGED <<status, due>>

LNext ==
  \/ \E h \in Holds, t \in Timeouts : Place(h, t)
  \/ \E h \in Holds, d \in Decisions : Decide(h, d)
  \/ \E S \in SUBSET Holds : Expire(S)
  \/ Forget
  \/ Passes

Lifecycle == LInit /\ [][LNext]_lvars
============================================================================
