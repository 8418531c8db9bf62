----------------------------- MODULE Transfers -----------------------------
(***************************************************************************)
(* transfer_funds_tool (financeflow/tools/financial_tools.py): transfers   *)
(* made at the same time by the threads of the chat and the processes of   *)
(* the web application and the runner, which share one SQLite file.        *)
(*                                                                         *)
(* A session reads its two accounts outside any transaction and writes     *)
(* what it computed from them in one: pysqlite opens a transaction at the  *)
(* first UPDATE, which takes the lock of the file or waits for it, and a   *)
(* transaction that is not committed leaves nothing behind.                *)
(***************************************************************************)
EXTENDS Integers, FiniteSetsExt

CONSTANTS
  Threads,    \* calls of the tool, each in its own thread and session
  Accounts,   \* rows of the table accounts
  Names,      \* what a caller may pass as an account
  Amounts,    \* the amounts callers ask for
  Opening     \* the balance every account is seeded with

ASSUME TransfersAssumption ==
  /\ Accounts \subseteq Names /\ Amounts \subseteq Int /\ Opening \in Nat
  /\ "none" \notin Threads

NoBalance == -1

VARIABLES
  balance,   \* balance[a], as committed
  journal,   \* the rows of the table transactions: <<thread, account, change>>
  lock,      \* who holds the write lock of the file
  pc,        \* what thread t does next
  order,     \* order[t]: the arguments of its call
  src, dst,  \* the balances it has read
  reply,     \* what the tool returned
  met        \* history variable: met[t], the threads at work at the same time

file   == <<balance, journal, lock>>
thread == <<pc, order, src, dst, reply>>
vars   == <<file, thread, met>>

NoOrder == [from |-> "none", to |-> "none", amount |-> 0]

Init ==
  /\ balance = [a \in Accounts |-> Opening]
  /\ journal = {}
  /\ lock = "none"
  /\ pc = [t \in Threads |-> "idle"]
  /\ order = [t \in Threads |-> NoOrder]
  /\ src = [t \in Threads |-> NoBalance]
  /\ dst = [t \in Threads |-> NoBalance]
  /\ reply = [t \in Threads |-> "none"]
  /\ met = [t \in Threads |-> {}]

From(t) == order[t].from
To(t)   == order[t].to

\* SELECT: the balance in the row, if there is one.
RowOf(name) == IF name \in Accounts THEN balance[name] ELSE NoBalance

Returns(t, answer) ==
  /\ reply' = [reply EXCEPT ![t] = answer]
  /\ pc' = [pc EXCEPT ![t] = "done"]

-----------------------------------------------------------------------------
\* The tool is called; an amount that is not positive is refused at once.
Call(t, from, to, amount) ==
  /\ pc[t] = "idle"
  /\ order' = [order EXCEPT ![t] = [from |-> from, to |-> to, amount |-> amount]]
  /\ IF amount <= 0 THEN Returns(t, "refused")
     ELSE pc' = [pc EXCEPT ![t] = "source"] /\ UNCHANGED reply
  /\ UNCHANGED <<file, src, dst, met>>

AtWork == {t \in Threads : pc[t] \in {"target", "commit", "writing"}}

ReadsSource(t) ==
  /\ pc[t] = "source"
  /\ src' = [src EXCEPT ![t] = RowOf(From(t))]
  /\ pc' = [pc EXCEPT ![t] = "target"]
  /\ met' = [u \in Threads |->
               IF u = t THEN AtWork ELSE IF u \in AtWork THEN met[u] \cup {t} ELSE met[u]]
  /\ UNCHANGED <<file, order, dst, reply>>

\* Faulty variant: the balance is not looked at.
UnknownOnly(t, target) ==
  {from \in {From(t)} : src[t] = NoBalance \/ target = NoBalance \/ from = To(t)}

\* Faulty variant: the other account is not looked for.
SourceOnly(t, target) == {from \in {From(t)} : from = To(t) \/ src[t] < order[t].amount}

\* Why the transfer is refused: an unknown account, the same one twice, or too
\* little money.
Objections(t, target) ==
  {from \in {From(t)} : \/ src[t] = NoBalance \/ target = NoBalance
                        \/ from = To(t) \/ src[t] < order[t].amount}

ReadsTarget(t) ==
  /\ pc[t] = "target"
  /\ dst' = [dst EXCEPT ![t] = RowOf(To(t))]
  /\ IF Objections(t, RowOf(To(t))) # {} THEN Returns(t, "refused")
     ELSE pc' = [pc EXCEPT ![t] = "commit"] /\ UNCHANGED reply
  /\ UNCHANGED <<file, order, src, met>>

\* commit() flushes: the first UPDATE opens a transaction with the lock.
Locks(t) ==
  /\ pc[t] = "commit" /\ lock = "none"
  /\ lock' = t
  /\ pc' = [pc EXCEPT ![t] = "writing"]
  /\ UNCHANGED <<balance, journal, order, src, dst, reply, met>>

\* Faulty variant: without transactions the debit has been written by then.
GivesUpHalfway(t) ==
  /\ pc[t] = "commit" /\ lock # "none"
  /\ balance' = [balance EXCEPT ![From(t)] = src[t] - order[t].amount]
  /\ Returns(t, "error")
  /\ UNCHANGED <<journal, lock, order, src, dst, met>>

\* "database is locked" after 5 s of waiting; the tool raises.  (The reads of
\* a session hold no lock between them and wait for no RESERVED one.)
GivesUp(t) ==
  /\ pc[t] = "commit" /\ lock # "none"
  /\ Returns(t, "error")
  /\ UNCHANGED <<file, order, src, dst, met>>

\* Faulty variant: only the debit is entered in the journal.
CommitsOneEntry(t) ==
  /\ pc[t] = "writing"
  /\ balance' = [balance EXCEPT ![From(t)] = src[t] - order[t].amount,
                                ![To(t)] = dst[t] + order[t].amount]
  /\ journal' = journal \cup {<<t, From(t), -order[t].amount>>}
  /\ lock' = "none"
  /\ pc' = [pc EXCEPT ![t] = "committed"]
  /\ UNCHANGED <<order, src, dst, reply, met>>

\* Both accounts and both entries of the journal, or nothing.
Commits(t) ==
  /\ pc[t] = "writing"
  /\ balance' = [balance EXCEPT ![From(t)] = src[t] - order[t].amount,
                                ![To(t)] = dst[t] + order[t].amount]
  /\ journal' = journal \cup {<<t, From(t), -order[t].amount>>, <<t, To(t), order[t].amount>>}
  /\ lock' = "none"
  /\ pc' = [pc EXCEPT ![t] = "committed"]
  /\ UNCHANGED <<order, src, dst, reply, met>>

Reports(t) ==
  /\ pc[t] = "committed"
  /\ Returns(t, "executed")
  /\ UNCHANGED <<file, order, src, dst, met>>

\* The process dies: SQLite rolls back what is not committed.
Dies(t) ==
  /\ pc[t] \notin {"idle", "done", "dead"}
  /\ pc' = [pc EXCEPT ![t] = "dead"]
  /\ lock' = IF lock = t THEN "none" ELSE lock
  /\ UNCHANGED <<balance, journal, order, src, dst, reply, met>>

-----------------------------------------------------------------------------
Next ==
  \E t \in Threads :
    \/ \E from, to \in Names, amount \in Amounts : Call(t, from, to, amount)
    \/ ReadsSource(t) \/ ReadsTarget(t) \/ Locks(t) \/ GivesUp(t)
    \/ Commits(t) \/ Reports(t) \/ Dies(t)

Spec == Init /\ [][Next]_vars

-----------------------------------------------------------------------------
(* Type invariant of the file, the sessions and the log.                     *)
TypeOK ==
  /\ balance \in [Accounts -> Int]
  /\ journal \subseteq Threads \X Accounts \X Int
  /\ lock \in Threads \cup {"none"}
  /\ pc \in [Threads -> {"idle", "source", "target", "commit", "writing",
                         "committed", "done", "dead"}]
  /\ order \in [Threads -> [from : Names \cup {"none"}, to : Names \cup {"none"},
                            amount : Int]]
  /\ src \in [Threads -> Int] /\ dst \in [Threads -> Int]
  /\ reply \in [Threads -> {"none", "refused", "error", "executed"}]
  /\ met \in [Threads -> SUBSET Threads]

(* What the transactions table says a should hold.                           *)
Books(a) == Opening + MapThenSumSet(LAMBDA e : e[3], {e \in journal : e[2] = a})

(* No account is ever overdrawn, although the balance that is checked may be *)
(* out of date when the transfer is written (financial_tools.py 60-65).      *)
NeverOverdrawn == \A a \in Accounts : balance[a] >= 0

(* The table of accounts agrees with the table of transactions, whatever     *)
(* failed, gave up or died half-way, unless two transfers of the account     *)
(* were made at the same time (financial_tools.py 38-82).                    *)
Touched(t) == {e[2] : e \in {x \in journal : x[1] = t}}
LostOnlyByOverlap ==
  \A a \in Accounts :
    balance[a] # Books(a) =>
      \E t, u \in Threads : u \in met[t] /\ a \in Touched(t) \cap Touched(u)

(* What the tool answers is true of the books: "executed" is booked on both  *)
(* accounts, an error or a refusal has left nothing (41-102).                *)
AnswersAreBooked ==
  \A t \in Threads :
    /\ reply[t] = "executed" => Touched(t) = {From(t), To(t)}
    /\ reply[t] \in {"refused", "error"} => Touched(t) = {}

-----------------------------------------------------------------------------
(* What the repository says of the tool and the code does not do.            *)

(* "Once executed, it cannot be undone" (financial_tools.py 22): the balance *)
(* shows every transfer of the journal.  A concurrent one undoes it.         *)
ExecutedIsNotUndone == \A a \in Accounts : balance[a] = Books(a)
============================================================================
