-------------------------- MODULE TransfersProofs --------------------------
(***************************************************************************)
(* What holds of transfers for any callers, accounts and amounts: no       *)
(* account is overdrawn, the answers are true of the books, and what is    *)
(* lost is lost by an overlap.                                             *)
(***************************************************************************)
EXTENDS Transfers, FiniteSetTheorems, WellFoundedInduction, TLAPS

(* The strengthening of NeverOverdrawn: what a call has established by the   *)
(* time it gets somewhere.  The balance it checked may be out of date, so    *)
(* the invariant is about the copies it works with.                          *)
Positive(t)  == pc[t] \in {"source", "target", "commit", "writing"} => order[t].amount > 0
Known(t)     == pc[t] = "target" /\ src[t] # NoBalance => From(t) \in Accounts
Covered(t)   == pc[t] \in {"commit", "writing"} =>
                  /\ From(t) \in Accounts /\ To(t) \in Accounts
                  /\ src[t] >= order[t].amount /\ dst[t] >= 0

TransferInv == TypeOK /\ NeverOverdrawn /\ \A t \in Threads : Positive(t) /\ Known(t) /\ Covered(t)

(* Opening the books is sound.                                               *)
LEMMA TransferInit == Init => TransferInv
  BY TransfersAssumption, SMT
  DEF Init, TransferInv, TypeOK, NeverOverdrawn, Positive, Known, Covered, NoOrder, NoBalance

(* Every step of every call preserves it.                                    *)
LEMMA TransferStep == TransferInv /\ [Next]_vars => TransferInv'
<1> SUFFICES ASSUME TransferInv, [Next]_vars PROVE TransferInv'
  OBVIOUS
<1> USE TransfersAssumption DEF NoBalance
<1>1. CASE UNCHANGED vars
  BY <1>1, SMT DEF TransferInv, TypeOK, NeverOverdrawn, Positive, Known, Covered, From, To,
                   vars, file, thread
<1>2. ASSUME NEW t \in Threads, NEW from \in Names, NEW to \in Names, NEW amount \in Amounts,
             Call(t, from, to, amount)
      PROVE  TransferInv'
  <2>1. /\ UNCHANGED <<balance, journal, lock, src, dst, met>>
        /\ order' = [order EXCEPT ![t] = [from |-> from, to |-> to, amount |-> amount]]
        /\ \/ /\ amount > 0 /\ pc' = [pc EXCEPT ![t] = "source"] /\ reply' = reply
           \/ pc' = [pc EXCEPT ![t] = "done"] /\ reply' = [reply EXCEPT ![t] = "refused"]
    BY <1>2, SMT DEF Call, Returns, file
  <2>2. order' \in [Threads -> [from : Names \cup {"none"}, to : Names \cup {"none"}, amount : Int]]
    BY <2>1, SMT DEF TransferInv, TypeOK
  <2>3. /\ order'[t].amount = amount
        /\ \A u \in Threads : u # t => order'[u] = order[u]
    BY <2>1, SMT DEF TransferInv, TypeOK
  <2>4. /\ pc' \in [Threads -> {"idle", "source", "target", "commit", "writing",
                                "committed", "done", "dead"}]
        /\ reply' \in [Threads -> {"none", "refused", "error", "executed"}]
        /\ \A u \in Threads : u # t => pc'[u] = pc[u]
        /\ pc'[t] = "done" \/ (pc'[t] = "source" /\ amount > 0)
    <3>1. CASE amount > 0 /\ pc' = [pc EXCEPT ![t] = "source"] /\ reply' = reply
      BY <3>1, SMT DEF TransferInv, TypeOK
    <3>2. CASE pc' = [pc EXCEPT ![t] = "done"] /\ reply' = [reply EXCEPT ![t] = "refused"]
      BY <3>2, SMT DEF TransferInv, TypeOK
    <3> QED
      BY <2>1, <3>1, <3>2
  <2>5. TypeOK' /\ NeverOverdrawn'
    BY <2>1, <2>2, <2>4, SMT DEF TransferInv, TypeOK, NeverOverdrawn
  <2>6. \A u \in Threads : Positive(u)' /\ Known(u)' /\ Covered(u)'
    BY <2>1, <2>3, <2>4, amount \in Int, SMT DEF TransferInv, Positive, Known, Covered, From, To
  <2> QED
    BY <2>5, <2>6 DEF TransferInv
<1>3. ASSUME NEW t \in Threads, ReadsSource(t) PROVE TransferInv'
  BY <1>3, SMT DEF TransferInv, TypeOK, NeverOverdrawn, Positive, Known, Covered, From, To,
                   ReadsSource, RowOf, AtWork, file
<1>4. ASSUME NEW t \in Threads, ReadsTarget(t) PROVE TransferInv'
  <2>1. CASE Objections(t, RowOf(To(t))) # {}
    <3>1. RowOf(To(t)) \in Int
      BY SMT DEF TransferInv, TypeOK, RowOf
    <3>2. /\ UNCHANGED <<balance, journal, lock, order, src, met>>
          /\ dst' \in [Threads -> Int] /\ \A u \in Threads : u # t => dst'[u] = dst[u]
          /\ pc' = [pc EXCEPT ![t] = "done"] /\ reply' = [reply EXCEPT ![t] = "refused"]
      BY <1>4, <2>1, <3>1, SMT DEF TransferInv, TypeOK, ReadsTarget, Returns, file
    <3> QED
      BY <3>2, SMT DEF TransferInv, TypeOK, NeverOverdrawn, Positive, Known, Covered, From, To
  <2>2. CASE Objections(t, RowOf(To(t))) = {}
    <3>1. /\ src[t] # NoBalance /\ RowOf(To(t)) # NoBalance
          /\ ~ (src[t] < order[t].amount)
      BY <2>2 DEF Objections
    <3>2. From(t) \in Accounts /\ To(t) \in Accounts /\ RowOf(To(t)) >= 0
      BY <1>4, <3>1, SMT DEF TransferInv, TypeOK, NeverOverdrawn, Known, ReadsTarget, RowOf
    <3>3. src[t] >= order[t].amount
      BY <3>1, SMT DEF TransferInv, TypeOK
    <3> QED
      BY <1>4, <2>2, <3>2, <3>3, SMT DEF TransferInv, TypeOK, NeverOverdrawn, Positive, Known,
                                         Covered, From, To, ReadsTarget, file, RowOf
  <2> QED
    BY <2>1, <2>2
<1>5. ASSUME NEW t \in Threads, Locks(t) \/ GivesUp(t) \/ Reports(t) \/ Dies(t)
      PROVE  TransferInv'
  <2>1. UNCHANGED <<balance, journal, order, src, dst, met>>
    BY <1>5 DEF Locks, GivesUp, Reports, Dies, file
  <2>2. /\ lock' \in Threads \cup {"none"}
        /\ reply' \in [Threads -> {"none", "refused", "error", "executed"}]
    <3>1. lock' \in {lock, t, "none"}
      BY <1>5, SMT DEF Locks, GivesUp, Reports, Dies, file
    <3>2. reply' = reply \/ \E answer \in {"error", "executed"} :
                              reply' = [reply EXCEPT ![t] = answer]
      BY <1>5, SMT DEF Locks, GivesUp, Reports, Dies, Returns
    <3> QED
      BY <3>1, <3>2, SMT DEF TransferInv, TypeOK
  <2>3. /\ pc' \in [Threads -> {"idle", "source", "target", "commit", "writing",
                                "committed", "done", "dead"}]
        /\ \A u \in Threads : u # t => pc'[u] = pc[u]
        /\ pc'[t] \in {"done", "dead"} \/ (pc[t] = "commit" /\ pc'[t] = "writing")
    BY <1>5, SMT DEF TransferInv, TypeOK, Locks, GivesUp, Reports, Dies, Returns
  <2>4. TypeOK' /\ NeverOverdrawn'
    BY <2>1, <2>2, <2>3, SMT DEF TransferInv, TypeOK, NeverOverdrawn
  <2>5. \A u \in Threads : Positive(u)' /\ Known(u)' /\ Covered(u)'
    BY <2>1, <2>3, SMT DEF TransferInv, Positive, Known, Covered, From, To
  <2> QED
    BY <2>4, <2>5 DEF TransferInv
<1>6. ASSUME NEW t \in Threads, Commits(t) PROVE TransferInv'
  <2>1. /\ From(t) \in Accounts /\ To(t) \in Accounts
        /\ src[t] - order[t].amount \in Nat /\ dst[t] + order[t].amount \in Nat
    BY <1>6, SMT DEF TransferInv, TypeOK, Positive, Covered, Commits
  <2>2. /\ balance' \in [Accounts -> Int] /\ NeverOverdrawn'
        /\ journal' \subseteq Threads \X Accounts \X Int
    BY <1>6, <2>1, SMT DEF TransferInv, TypeOK, NeverOverdrawn, Commits
  <2> QED
    BY <1>6, <2>2, SMT DEF TransferInv, TypeOK, Positive, Known, Covered, From, To, Commits
<1> QED
  BY <1>1, <1>2, <1>3, <1>4, <1>5, <1>6 DEF Next

(* The type invariant of the accounts, the journal and the calls             *)
(* (financial_tools.py 17-102) for any callers, accounts and amounts.        *)
THEOREM TypeCorrect == Spec => []TypeOK
<1>1. TransferInv => TypeOK
  BY DEF TransferInv
<1> QED
  BY TransferInit, TransferStep, <1>1, PTL DEF Spec

(* No account is ever overdrawn, whatever transfers overlap, give up or die, *)
(* although the balance checked may be out of date (60-83).                  *)
THEOREM Solvent == Spec => []NeverOverdrawn
<1>1. TransferInv => NeverOverdrawn
  BY DEF TransferInv
<1> QED
  BY TransferInit, TransferStep, <1>1, PTL DEF Spec

-----------------------------------------------------------------------------
(* The strengthening of AnswersAreBooked: a call has entries in the journal  *)
(* once it has committed, for its own two accounts, and never before.        *)
Unwritten(t) == pc[t] \in {"idle", "source", "target", "commit", "writing"}
Entered(t) ==
  /\ Unwritten(t) => Touched(t) = {} /\ reply[t] = "none"
  /\ pc[t] = "committed" => Touched(t) = {From(t), To(t)} /\ reply[t] = "none"

BooksInv == AnswersAreBooked /\ \A t \in Threads : Entered(t)

(* An empty journal has no entry of anyone.                                  *)
LEMMA BooksInit == Init => BooksInv
  BY SMT DEF Init, BooksInv, AnswersAreBooked, Entered, Unwritten, Touched

(* Every step preserves it: only a commit writes, and what it writes is of   *)
(* the call that commits.                                                    *)
LEMMA BooksStep == TransferInv /\ BooksInv /\ [Next]_vars => BooksInv'
<1> SUFFICES ASSUME TransferInv, BooksInv, [Next]_vars PROVE BooksInv'
  OBVIOUS
<1> DEFINE Told(t) == /\ reply[t] = "executed" => Touched(t) = {From(t), To(t)}
                      /\ reply[t] \in {"refused", "error"} => Touched(t) = {}
<1>0. ASSUME \A u \in Threads : Told(u)' /\ Entered(u)' PROVE BooksInv'
  BY <1>0 DEF BooksInv, AnswersAreBooked
<1>1. CASE UNCHANGED vars
  BY <1>1, <1>0 DEF BooksInv, AnswersAreBooked, Entered, Unwritten, Touched, From, To,
                    vars, file, thread
<1>2. ASSUME NEW t \in Threads, NEW from \in Names, NEW to \in Names, NEW amount \in Amounts,
             Call(t, from, to, amount)
      PROVE  BooksInv'
  <2>1. \A u \in Threads : Touched(u)' = Touched(u)
    BY <1>2 DEF Call, file, Touched
  <2> QED
    BY <1>0, <1>2, <2>1, SMT DEF BooksInv, AnswersAreBooked, TransferInv, TypeOK, Entered,
                                 Unwritten, From, To, Call, Returns
<1>3. ASSUME NEW t \in Threads, \/ ReadsSource(t) \/ ReadsTarget(t) \/ Locks(t)
                                \/ GivesUp(t) \/ Reports(t) \/ Dies(t)
      PROVE  BooksInv'
  <2>1. \A u \in Threads : Touched(u)' = Touched(u)
    BY <1>3 DEF ReadsSource, ReadsTarget, Locks, GivesUp, Reports, Dies, file, Touched
  <2>2. order' = order
    BY <1>3 DEF ReadsSource, ReadsTarget, Locks, GivesUp, Reports, Dies
  <2> QED
    BY <1>0, <1>3, <2>1, <2>2, SMT DEF BooksInv, AnswersAreBooked, TransferInv, TypeOK, Entered,
                 Unwritten, From, To, ReadsSource, ReadsTarget, Locks, GivesUp, Reports, Dies,
                 Returns
<1>4. ASSUME NEW t \in Threads, Commits(t) PROVE BooksInv'
  <2>1. Touched(t)' = {From(t), To(t)}
    <3>1. Touched(t) = {}
      BY <1>4 DEF Commits, BooksInv, Entered, Unwritten
    <3>2. journal' = journal \cup {<<t, From(t), -order[t].amount>>, <<t, To(t), order[t].amount>>}
      BY <1>4 DEF Commits
    <3>3. \A x \in journal : x[1] # t
      BY <3>1 DEF Touched
    <3>4. {x \in journal' : x[1] = t}
            = {<<t, From(t), -order[t].amount>>, <<t, To(t), order[t].amount>>}
      <4>1. <<t, From(t), -order[t].amount>>[1] = t /\ <<t, To(t), order[t].amount>>[1] = t
        OBVIOUS
      <4> QED
        BY <3>2, <3>3, <4>1
    <3>5. /\ <<t, From(t), -order[t].amount>>[2] = From(t)
          /\ <<t, To(t), order[t].amount>>[2] = To(t)
      OBVIOUS
    <3>6. Touched(t)' = {e[2] : e \in {<<t, From(t), -order[t].amount>>,
                                       <<t, To(t), order[t].amount>>}}
      BY <3>4 DEF Touched
    <3> QED
      BY <3>5, <3>6
  <2>2. \A u \in Threads : u # t => Touched(u)' = Touched(u)
    <3> SUFFICES ASSUME NEW u \in Threads, u # t PROVE Touched(u)' = Touched(u)
      OBVIOUS
    <3>1. {x \in journal' : x[1] = u} = {x \in journal : x[1] = u}
      BY <1>4 DEF Commits
    <3> QED
      BY <3>1 DEF Touched
  <2> QED
    BY <1>0, <1>4, <2>1, <2>2, SMT DEF BooksInv, AnswersAreBooked, TransferInv, TypeOK, Entered,
                                       Unwritten, From, To, Commits
<1> QED
  BY <1>1, <1>2, <1>3, <1>4 DEF Next

(* What the tool answers is true of the books: "executed" is booked on both  *)
(* accounts, a refusal or an error has left nothing (41-102).                *)
THEOREM TruthfulAnswers == Spec => []AnswersAreBooked
<1>1. BooksInv => AnswersAreBooked
  BY DEF BooksInv
<1> QED
  BY TransferInit, TransferStep, BooksInit, BooksStep, <1>1, PTL DEF Spec

-----------------------------------------------------------------------------
(* The sum over the journal.  MapThenSumSet of the community modules is a    *)
(* recursive function on the subsets of a set: that it exists, and that the  *)
(* order does not matter, is shown by looking at a smallest counterexample.  *)
Pick(s) == CHOOSE e \in s : TRUE

SumsUp(f, S) ==
  f = [s \in SUBSET S |-> IF s = {} THEN 0 ELSE Pick(s)[3] + f[s \ {Pick(s)}]]

Total(S) == MapThenSumSet(LAMBDA e : e[3], S)

\* The definition of the sum, unfolded.
LEMMA TotalDef ==
  ASSUME NEW S
  PROVE  Total(S) = (CHOOSE f : SumsUp(f, S))[S]
  BY DEF Total, MapThenSumSet, MapThenFoldSet, SumsUp, Pick

\* Induction on finite sets, for a set of counterexamples.
LEMMA SmallestSet ==
  ASSUME NEW S, IsFiniteSet(S), NEW Bad \in SUBSET (SUBSET S), Bad # {}
  PROVE  \E s \in Bad : \A t \in Bad : t \subseteq s => t = s
<1>1. Bad \subseteq FiniteSubsetsOf(S)
  BY FS_Subset DEF FiniteSubsetsOf
<1>2. PICK s \in Bad : \A t \in Bad : <<t, s>> \notin StrictSubsetOrdering(S)
  BY <1>1, WFMin, FS_StrictSubsetOrderingWellFounded
<1>3. QED
  BY <1>2 DEF StrictSubsetOrdering
\* A finite set of entries with a change each.
Entries(S) == IsFiniteSet(S) /\ \A e \in S : e[3] \in Int

\* What is picked is in the set.
LEMMA PickIn == \A s : s # {} => Pick(s) \in s
  BY DEF Pick

\* Two functions that sum up agree where both are defined.
LEMMA SumsAgree ==
  ASSUME NEW S, IsFiniteSet(S), NEW T \in SUBSET S, NEW f, NEW g, SumsUp(f, S), SumsUp(g, T)
  PROVE  \A s \in SUBSET T : f[s] = g[s]
<1> DEFINE Bad == {s \in SUBSET T : f[s] # g[s]}
<1> SUFFICES ASSUME Bad # {} PROVE FALSE
  OBVIOUS
<1>1. PICK s \in Bad : \A t \in Bad : t \subseteq s => t = s
  <2>1. IsFiniteSet(T)
    BY FS_Subset
  <2> HIDE DEF Bad
  <2>2. Bad \in SUBSET (SUBSET T)
    BY DEF Bad
  <2>3. QED
    BY <2>1, <2>2, SmallestSet
<1>2. s \in SUBSET T /\ s \in SUBSET S /\ f[s] # g[s]
  OBVIOUS
<1>3. /\ f[s] = IF s = {} THEN 0 ELSE Pick(s)[3] + f[s \ {Pick(s)}]
      /\ g[s] = IF s = {} THEN 0 ELSE Pick(s)[3] + g[s \ {Pick(s)}]
  BY <1>2 DEF SumsUp
<1>4. s # {}
  BY <1>2, <1>3
<1>5. PICK p : p = Pick(s) /\ p \in s
  BY <1>4, PickIn
<1>6. s \ {p} \notin Bad
  BY <1>1, <1>5
<1>7. f[s \ {p}] = g[s \ {p}]
  BY <1>2, <1>6
<1>8. QED
  BY <1>2, <1>3, <1>4, <1>5, <1>7

\* There is one: it is put together of those for smaller sets.
LEMMA SumsExist ==
  ASSUME NEW S, Entries(S)
  PROVE  \E f \in [SUBSET S -> Int] : SumsUp(f, S)
<1> DEFINE Sums(s) == {f \in [SUBSET s -> Int] : SumsUp(f, s)}
           Bad == {s \in SUBSET S : Sums(s) = {}}
<1> SUFFICES ASSUME Bad # {} PROVE FALSE
  OBVIOUS
<1>1. PICK s \in Bad : \A t \in Bad : t \subseteq s => t = s
  <2> HIDE DEF Bad
  <2>1. Bad \in SUBSET (SUBSET S)
    BY DEF Bad
  <2>2. QED
    BY <2>1, SmallestSet DEF Entries
<1>2. s \in SUBSET S /\ Sums(s) = {} /\ IsFiniteSet(s)
  BY FS_Subset DEF Entries
<1> DEFINE h == [t \in (SUBSET s) \ {s} |-> CHOOSE f \in Sums(t) : TRUE]
           Rest(t) == t \ {Pick(t)}
           f == [t \in SUBSET s |-> IF t = {} THEN 0 ELSE Pick(t)[3] + h[Rest(t)][Rest(t)]]
<1>3. \A t \in (SUBSET s) \ {s} : h[t] \in Sums(t)
  BY <1>1, <1>2
<1>4. \A t \in (SUBSET s) \ {{}} : Rest(t) \in (SUBSET s) \ {s} /\ Pick(t) \in t
  BY PickIn
<1> HIDE DEF h, Sums, Bad, Rest
<1>5. \A t \in (SUBSET s) \ {s} : SumsUp(h[t], t) /\ h[t] \in [SUBSET t -> Int]
  BY <1>3 DEF Sums
<1>6. f \in [SUBSET s -> Int]
  <2>1. \A t \in (SUBSET s) \ {{}} : Pick(t)[3] \in Int
    BY <1>2, <1>4 DEF Entries
  <2>2. \A t \in (SUBSET s) \ {{}} : h[Rest(t)][Rest(t)] \in Int
    BY <1>4, <1>5
  <2>3. QED
    BY <2>1, <2>2
<1> HIDE DEF f
<1>7. \A t \in (SUBSET s) \ {s} : f[t] = h[t][t]
  <2> SUFFICES ASSUME NEW t \in (SUBSET s) \ {s} PROVE f[t] = h[t][t]
    OBVIOUS
  <2>1. h[t][t] = IF t = {} THEN 0 ELSE Pick(t)[3] + h[t][Rest(t)]
    BY <1>5 DEF SumsUp, Rest
  <2>2. CASE t = {}
    BY <2>1, <2>2 DEF f
  <2>3. CASE t # {}
    <3>1. PICK r : r = Rest(t) /\ r \in (SUBSET s) \ {s} /\ r \in SUBSET t
      <4>1. t \in (SUBSET s) \ {{}}
        BY <2>3
      <4>2. Rest(t) \in (SUBSET s) \ {s}
        BY <1>4, <4>1
      <4>3. Rest(t) \in SUBSET t
        BY DEF Rest
      <4>4. QED
        BY <4>2, <4>3
    <3>2. PICK f1, f2 : f1 = h[t] /\ f2 = h[r]
      OBVIOUS
    <3>3. h[t][r] = h[r][r]
      <4>1. IsFiniteSet(t) /\ SumsUp(f1, t) /\ SumsUp(f2, r)
        BY <1>2, <1>5, <3>1, <3>2, FS_Subset
      <4>2. f1[r] = f2[r]
        BY <3>1, <4>1, SumsAgree
      <4>3. QED
        BY <3>2, <4>2
    <3>4. f[t] = Pick(t)[3] + h[r][r]
      BY <2>3, <3>1 DEF f
    <3>5. QED
      BY <2>1, <2>3, <3>1, <3>3, <3>4
  <2>4. QED
    BY <2>2, <2>3
<1>8. SumsUp(f, s)
  <2>1. f = [t \in SUBSET s |-> IF t = {} THEN 0 ELSE Pick(t)[3] + f[t \ {Pick(t)}]]
    BY <1>4, <1>7 DEF f, Rest
  <2>2. QED
    BY <2>1 DEF SumsUp
<1>9. f \in Sums(s)
  BY <1>6, <1>8 DEF Sums
<1>10. QED
  BY <1>2, <1>9

\* The sum over S is the last entry of any function that sums up.
LEMMA TotalSums ==
  ASSUME NEW S, Entries(S), NEW T \in SUBSET S
  PROVE  /\ Total(T) \in Int
         /\ T = {} => Total(T) = 0
         /\ T # {} => Total(T) = Pick(T)[3] + Total(T \ {Pick(T)})
<1>1. PICK f \in [SUBSET S -> Int] : SumsUp(f, S)
  BY SumsExist
<1>2. \A t \in SUBSET S : Total(t) = f[t]
  <2> SUFFICES ASSUME NEW t \in SUBSET S PROVE Total(t) = f[t]
    OBVIOUS
  <2>1. Entries(t) /\ IsFiniteSet(S)
    BY FS_Subset DEF Entries
  <2>2. \E g : SumsUp(g, t)
    BY <2>1, SumsExist
  <2>3. PICK g : g = (CHOOSE x : SumsUp(x, t)) /\ SumsUp(g, t)
    BY <2>2
  <2>4. f[t] = g[t]
    BY <1>1, <2>1, <2>3, SumsAgree
  <2>5. QED
    BY <2>3, <2>4, TotalDef
<1>3. f[T] = IF T = {} THEN 0 ELSE Pick(T)[3] + f[T \ {Pick(T)}]
  BY <1>1 DEF SumsUp
<1>4. Total(T) = f[T] /\ Total(T \ {Pick(T)}) = f[T \ {Pick(T)}] /\ f[T] \in Int
  BY <1>1, <1>2
<1>5. QED
  BY <1>3, <1>4

\* The order in which a sum is taken does not matter.
LEMMA TotalWithout ==
  ASSUME NEW S, Entries(S)
  PROVE  \A T \in SUBSET S : \A e \in T : Total(T) = e[3] + Total(T \ {e})
<1> DEFINE Bad == {T \in SUBSET S : \E e \in T : Total(T) # e[3] + Total(T \ {e})}
<1> SUFFICES ASSUME Bad # {} PROVE FALSE
  OBVIOUS
<1>1. PICK T \in Bad : \A t \in Bad : t \subseteq T => t = T
  <2> HIDE DEF Bad
  <2>1. Bad \in SUBSET (SUBSET S)
    BY DEF Bad
  <2>2. QED
    BY <2>1, SmallestSet DEF Entries
<1>2. PICK e \in T : Total(T) # e[3] + Total(T \ {e})
  OBVIOUS
<1>3. T \in SUBSET S
  OBVIOUS
<1>4. PICK p : p = Pick(T) /\ p \in T
  BY PickIn
<1>5. \A t \in SUBSET T : t # T => \A x \in t : Total(t) = x[3] + Total(t \ {x})
  BY <1>1, <1>3
<1> HIDE DEF Bad
<1>6. Total(T) = p[3] + Total(T \ {p})
  BY <1>3, <1>4, TotalSums
<1>7. p # e
  BY <1>2, <1>6
<1>8. Total(T \ {p}) = e[3] + Total((T \ {p}) \ {e})
  BY <1>4, <1>5, <1>7
<1>9. Total(T \ {e}) = p[3] + Total((T \ {e}) \ {p})
  BY <1>4, <1>5, <1>7
<1>10. (T \ {e}) \ {p} = (T \ {p}) \ {e}
  OBVIOUS
<1>11. PICK x : x = Total((T \ {p}) \ {e})
  OBVIOUS
<1>12. e[3] \in Int /\ p[3] \in Int /\ x \in Int
  BY <1>3, <1>4, <1>11, TotalSums DEF Entries
<1>13. Total(T) = p[3] + (e[3] + x) /\ Total(T \ {e}) = p[3] + x
  BY <1>6, <1>8, <1>9, <1>10, <1>11
<1>14. QED
  BY <1>2, <1>12, <1>13

\* What one more entry makes of a sum.
LEMMA TotalGrows ==
  ASSUME NEW S, Entries(S), NEW e, e \notin S, e[3] \in Int
  PROVE  Entries(S \cup {e}) /\ Total(S \cup {e}) = e[3] + Total(S) /\ Total(S) \in Int
<1>1. Entries(S \cup {e})
  BY FS_AddElement DEF Entries
<1>2. Total(S \cup {e}) = e[3] + Total((S \cup {e}) \ {e})
  BY <1>1, TotalWithout
<1>3. (S \cup {e}) \ {e} = S
  OBVIOUS
<1>4. Total(S) \in Int
  BY TotalSums
<1>5. QED
  BY <1>1, <1>2, <1>3, <1>4

-----------------------------------------------------------------------------
(* The strengthening of LostOnlyByOverlap.  Calls at work have met; what a   *)
(* call has read of an account is what the row still holds, unless a call it *)
(* has met has written to the account since.                                 *)
Fresh(t, a, b) == b # balance[a] => \E u \in met[t] : a \in Touched(u)

MeetInv ==
  /\ IsFiniteSet(journal)
  /\ \A t, u \in AtWork : t # u => u \in met[t]
  /\ \A t \in AtWork : From(t) \in Accounts => Fresh(t, From(t), src[t])
  /\ \A t \in Threads : pc[t] \in {"commit", "writing"} =>
       From(t) # To(t) /\ Fresh(t, To(t), dst[t])

LossInv == MeetInv /\ LostOnlyByOverlap

Rows(a) == {e \in journal : e[2] = a}

\* What the table of transactions says is a sum over the rows of the account.
LEMMA BooksTotal ==
  ASSUME NEW a
  PROVE  Books(a) = Opening + Total(Rows(a)) /\ Books(a)' = Opening + Total(Rows(a)')
<1>1. Books(a) = Opening + Total(Rows(a))
  BY DEF Books, Total, Rows
<1>2. Books(a)' = Opening + Total(Rows(a)')
  BY DEF Books, Total, Rows, MapThenSumSet, MapThenFoldSet
<1>3. QED
  BY <1>1, <1>2

LEMMA RowEntries ==
  ASSUME TypeOK, MeetInv, NEW a
  PROVE  Entries(Rows(a))
<1>1. Rows(a) \in SUBSET journal
  BY DEF Rows
<1>2. IsFiniteSet(Rows(a))
  BY <1>1, FS_Subset DEF MeetInv
<1>3. \A e \in journal : e[3] \in Int
  BY DEF TypeOK
<1>4. QED
  BY <1>1, <1>2, <1>3 DEF Entries

LEMMA LossInit == Init => LossInv
<1> SUFFICES ASSUME Init PROVE LossInv
  OBVIOUS
<1>1. MeetInv
  BY FS_EmptySet DEF Init, MeetInv, AtWork
<1>2. ASSUME NEW a \in Accounts PROVE balance[a] = Books(a)
  <2>1. Rows(a) = {} /\ Entries({})
    BY FS_EmptySet DEF Init, Rows, Entries
  <2>2. Total({}) = 0
    BY <2>1, TotalSums
  <2>3. QED
    BY <2>1, <2>2, BooksTotal, TransfersAssumption DEF Init
<1>3. QED
  BY <1>1, <1>2 DEF LossInv, LostOnlyByOverlap

\* A step that writes nothing, in which calls only meet.
LEMMA NothingWritten ==
  ASSUME BooksInv, LostOnlyByOverlap, balance' = balance, journal' = journal,
         \A t \in Threads : Unwritten(t) \/ met[t] \subseteq met'[t]
  PROVE  LostOnlyByOverlap'
<1>1. \A t : Touched(t)' = Touched(t)
  BY DEF Touched
<1>2. \A a : Books(a)' = Books(a)
  <2>1. \A a : Rows(a)' = Rows(a)
    BY DEF Rows
  <2>2. QED
    BY <2>1, BooksTotal
<1>3. \A t \in Threads : Touched(t) # {} => met[t] \subseteq met'[t]
  BY DEF BooksInv, Entered
<1> SUFFICES ASSUME NEW a \in Accounts, balance'[a] # Books(a)'
             PROVE  \E t, u \in Threads : u \in met'[t] /\ a \in Touched(t)' \cap Touched(u)'
  BY DEF LostOnlyByOverlap
<1>4. PICK t \in Threads, u \in Threads : u \in met[t] /\ a \in Touched(t) \cap Touched(u)
  BY <1>2 DEF LostOnlyByOverlap
<1>5. QED
  BY <1>1, <1>3, <1>4

\* A step that writes nothing, in which nobody gets to work or reads.
LEMMA LessAtWork ==
  ASSUME MeetInv, UNCHANGED <<balance, journal, met>>,
         \A t \in AtWork' : t \in AtWork /\ order'[t] = order[t] /\ src'[t] = src[t],
         \A t \in Threads : pc'[t] \in {"commit", "writing"} =>
           pc[t] \in {"commit", "writing"} /\ dst'[t] = dst[t]
  PROVE  MeetInv'
<1>1. \A t : Touched(t)' = Touched(t)
  BY DEF Touched
<1>2. \A t \in AtWork' : From(t)' = From(t) /\ To(t)' = To(t)
  BY DEF From, To
<1>3. \A t \in AtWork' : From(t)' \in Accounts => Fresh(t, From(t), src[t])'
  BY <1>1, <1>2 DEF MeetInv, Fresh
<1>4. ASSUME NEW t \in Threads, pc'[t] \in {"commit", "writing"}
      PROVE  From(t)' # To(t)' /\ Fresh(t, To(t), dst[t])'
  <2>1. t \in AtWork'
    BY <1>4 DEF AtWork
  <2>2. QED
    BY <1>1, <1>2, <1>4, <2>1 DEF MeetInv, Fresh
<1>5. \A t, u \in AtWork' : t # u => u \in met'[t]
  BY DEF MeetInv
<1>6. QED
  BY <1>3, <1>4, <1>5 DEF MeetInv

\* A call that reads its first balance meets all that are at work.
LEMMA MeetsAtSource ==
  ASSUME TypeOK, MeetInv, NEW t \in Threads, ReadsSource(t)
  PROVE  MeetInv' /\ \A u \in Threads : Unwritten(u) \/ met[u] \subseteq met'[u]
<1>1. /\ pc[t] = "source" /\ pc'[t] = "target" /\ src'[t] = RowOf(From(t))
      /\ \A u \in Threads \ {t} : pc'[u] = pc[u] /\ src'[u] = src[u]
      /\ UNCHANGED <<balance, journal, order, dst>>
  BY DEF ReadsSource, TypeOK, file
<1>2. /\ met'[t] = AtWork
      /\ \A u \in AtWork : u # t => met'[u] = met[u] \cup {t}
      /\ \A u \in Threads : u # t => met[u] \subseteq met'[u]
  <2>1. /\ t \notin AtWork /\ AtWork \subseteq Threads
        /\ met' = [u \in Threads |-> IF u = t THEN AtWork
                                    ELSE IF u \in AtWork THEN met[u] \cup {t} ELSE met[u]]
    BY <1>1 DEF ReadsSource, AtWork
  <2>2. QED
    BY <2>1
<1>3. AtWork' = AtWork \cup {t} /\ t \notin AtWork
  BY <1>1 DEF AtWork
<1>4. \A u : Touched(u)' = Touched(u) /\ From(u)' = From(u) /\ To(u)' = To(u)
  BY <1>1 DEF Touched, From, To
<1>5. \A u, v \in AtWork' : u # v => v \in met'[u]
  BY <1>2, <1>3 DEF MeetInv
<1>6. ASSUME NEW u \in AtWork', From(u)' \in Accounts
      PROVE  Fresh(u, From(u), src[u])'
  <2>1. CASE u = t
    BY <1>1, <1>4, <1>6, <2>1 DEF Fresh, RowOf
  <2>2. CASE u # t
    <3>1. u \in AtWork /\ u \in Threads
      BY <1>3, <2>2 DEF AtWork
    <3>2. QED
      BY <1>1, <1>2, <1>4, <1>6, <2>2, <3>1 DEF MeetInv, Fresh
  <2>3. QED
    BY <2>1, <2>2
<1>7. ASSUME NEW u \in Threads, pc'[u] \in {"commit", "writing"}
      PROVE  From(u)' # To(u)' /\ Fresh(u, To(u), dst[u])'
  <2>1. u # t /\ pc[u] \in {"commit", "writing"} /\ u \in AtWork
    BY <1>1, <1>7 DEF AtWork
  <2>2. QED
    BY <1>1, <1>2, <1>4, <2>1 DEF MeetInv, Fresh
<1>8. MeetInv'
  BY <1>1, <1>5, <1>6, <1>7 DEF MeetInv
<1>9. QED
  BY <1>1, <1>2, <1>8 DEF Unwritten

\* A call that goes on to its commit has just read its second balance.
LEMMA MeetsAtTarget ==
  ASSUME TypeOK, MeetInv, NEW t \in Threads, ReadsTarget(t)
  PROVE  MeetInv'
<1>1. /\ pc[t] = "target" /\ dst'[t] = RowOf(To(t))
      /\ \A u \in Threads \ {t} : pc'[u] = pc[u] /\ dst'[u] = dst[u]
      /\ UNCHANGED <<balance, journal, order, src, met>>
  BY DEF ReadsTarget, Returns, TypeOK, file
<1>2. pc'[t] = "done" \/ (pc'[t] = "commit" /\ Objections(t, RowOf(To(t))) = {})
  BY DEF ReadsTarget, Returns, TypeOK
<1>3. \A u : Touched(u)' = Touched(u) /\ From(u)' = From(u) /\ To(u)' = To(u)
  BY <1>1 DEF Touched, From, To
<1>4. AtWork' \subseteq AtWork
  BY <1>1, <1>2 DEF AtWork
<1>5. ASSUME NEW u \in Threads, pc'[u] \in {"commit", "writing"}
      PROVE  From(u)' # To(u)' /\ Fresh(u, To(u), dst[u])'
  <2>1. CASE u = t
    <3>1. From(t) # To(t) /\ RowOf(To(t)) # NoBalance
      BY <1>2, <1>5, <2>1 DEF Objections
    <3>2. dst'[t] = balance[To(t)]
      BY <1>1, <3>1 DEF RowOf
    <3>3. QED
      BY <1>1, <1>3, <2>1, <3>1, <3>2 DEF Fresh
  <2>2. CASE u # t
    BY <1>1, <1>3, <1>5, <2>2 DEF MeetInv, Fresh
  <2>3. QED
    BY <2>1, <2>2
<1>6. \A u \in AtWork' : From(u)' \in Accounts => Fresh(u, From(u), src[u])'
  BY <1>1, <1>3, <1>4 DEF MeetInv, Fresh
<1>7. QED
  BY <1>1, <1>4, <1>5, <1>6 DEF MeetInv

\* Of two more rows the one of an account adds its change to what the rows say.
LEMMA RowBooked ==
  ASSUME TypeOK, MeetInv, NEW a, NEW e, NEW x, journal' = journal \cup {e, x}, e \notin journal,
         e[2] = a, x[2] # a, e[3] \in Int
  PROVE  Books(a)' = Books(a) + e[3] /\ Books(a) \in Int
<1>1. Rows(a)' = Rows(a) \cup {e} /\ e \notin Rows(a)
  BY DEF Rows
<1>2. Entries(Rows(a))
  BY RowEntries
<1>3. Total(Rows(a) \cup {e}) = e[3] + Total(Rows(a)) /\ Total(Rows(a)) \in Int
  BY <1>1, <1>2, TotalGrows
<1>4. PICK old, new : old = Total(Rows(a)) /\ new = Total(Rows(a)')
  OBVIOUS
<1>5. Books(a) = Opening + old /\ Books(a)' = Opening + new
  BY <1>4, BooksTotal
<1>6. new = e[3] + old /\ old \in Int
  BY <1>1, <1>3, <1>4
<1>7. QED
  BY <1>5, <1>6, TransfersAssumption

\* What a commit writes it has read, unless it has met who wrote since; and
\* whoever is at work has met it.
LEMMA CommitMeets ==
  ASSUME TransferInv, BooksInv, LossInv, NEW t \in Threads, Commits(t)
  PROVE  MeetInv' /\ LostOnlyByOverlap'
<1> DEFINE F == From(t)
           T == To(t)
           d == order[t].amount
           e1 == <<t, F, -d>>
           e2 == <<t, T, d>>
<1>1. /\ TypeOK /\ MeetInv /\ LostOnlyByOverlap
      /\ pc[t] = "writing" /\ t \in AtWork
      /\ UNCHANGED <<order, src, dst, met>>
      /\ balance' = [balance EXCEPT ![F] = src[t] - d, ![T] = dst[t] + d]
      /\ journal' = journal \cup {e1, e2}
      /\ \A u \in Threads \ {t} : pc'[u] = pc[u]
      /\ pc'[t] = "committed"
  BY DEF Commits, TransferInv, LossInv, TypeOK, AtWork
<1>2. F \in Accounts /\ T \in Accounts /\ F # T /\ d \in Int
  BY <1>1 DEF TransferInv, Covered, MeetInv, TypeOK
<1>3. /\ src[t] \in Int /\ dst[t] \in Int /\ Fresh(t, F, src[t]) /\ Fresh(t, T, dst[t])
      /\ met[t] \subseteq Threads
  BY <1>1, <1>2 DEF MeetInv, TypeOK
<1>4. \A x \in journal : x[1] # t
  BY <1>1 DEF BooksInv, Entered, Unwritten, Touched
<1>5. F \in Touched(t)' /\ T \in Touched(t)'
  <2>1. e1[1] = t /\ e1[2] = F /\ e2[1] = t /\ e2[2] = T
    OBVIOUS
  <2>2. e1 \in journal' /\ e2 \in journal'
    BY <1>1
  <2> HIDE DEF e1, e2
  <2>3. QED
    BY <2>1, <2>2 DEF Touched
<1>6. \A u : Touched(u) \subseteq Touched(u)'
  BY <1>1 DEF Touched
<1>7. \A u : From(u)' = From(u) /\ To(u)' = To(u)
  BY <1>1 DEF From, To
<1>8. /\ balance'[F] = src[t] - d /\ balance'[T] = dst[t] + d
      /\ \A a \in Accounts \ {F, T} : balance'[a] = balance[a]
  BY <1>1, <1>2 DEF TypeOK
<1>9. AtWork' = AtWork \ {t}
  BY <1>1 DEF AtWork
<1>10. ASSUME NEW u \in AtWork', NEW a \in Accounts, NEW b, Fresh(u, a, b)
       PROVE  Fresh(u, a, b)'
  <2>1. CASE a \in {F, T}
    <3>1. t \in met[u]
      BY <1>1, <1>9 DEF MeetInv
    <3>2. QED
      BY <1>1, <1>5, <2>1, <3>1 DEF Fresh
  <2>2. CASE a \notin {F, T}
    BY <1>1, <1>6, <1>8, <1>10, <2>2 DEF Fresh
  <2>3. QED
    BY <2>1, <2>2
<1>11. MeetInv'
  <2>1. IsFiniteSet(journal')
    <3>1. IsFiniteSet(journal \cup {e1})
      BY <1>1, FS_AddElement DEF MeetInv
    <3>2. IsFiniteSet((journal \cup {e1}) \cup {e2})
      BY <3>1, FS_AddElement
    <3>3. journal' = (journal \cup {e1}) \cup {e2}
      BY <1>1
    <3>4. QED
      BY <3>2, <3>3
  <2>2. \A v, u \in AtWork' : v # u => u \in met'[v]
    BY <1>1, <1>9 DEF MeetInv
  <2>3. ASSUME NEW u \in AtWork', From(u)' \in Accounts
        PROVE  Fresh(u, From(u), src[u])'
    <3>1. Fresh(u, From(u), src[u])
      BY <1>1, <1>7, <1>9, <2>3 DEF MeetInv
    <3>2. QED
      BY <1>1, <1>7, <1>10, <2>3, <3>1 DEF Fresh
  <2>4. ASSUME NEW u \in Threads, pc'[u] \in {"commit", "writing"}
        PROVE  From(u)' # To(u)' /\ Fresh(u, To(u), dst[u])'
    <3>1. u # t /\ pc[u] \in {"commit", "writing"} /\ u \in AtWork'
      BY <1>1, <2>4 DEF AtWork
    <3>2. From(u) # To(u) /\ Fresh(u, To(u), dst[u]) /\ To(u) \in Accounts
      BY <1>1, <3>1 DEF MeetInv, TransferInv, Covered
    <3>3. QED
      BY <1>1, <1>7, <1>10, <3>1, <3>2 DEF Fresh
  <2>5. QED
    BY <2>1, <2>2, <2>3, <2>4 DEF MeetInv
<1>12. ASSUME NEW a \in {F, T}, NEW b \in Int, NEW c \in Int, Fresh(t, a, b), balance'[a] = b + c,
              Books(a)' = Books(a) + c, balance'[a] # Books(a)'
       PROVE  \E v, u \in Threads : u \in met'[v] /\ a \in Touched(v)' \cap Touched(u)'
  <2>1. CASE b # balance[a]
    <3>1. PICK u \in met[t] : a \in Touched(u)
      BY <1>12, <2>1 DEF Fresh
    <3>2. QED
      BY <1>1, <1>3, <1>5, <1>6, <3>1
  <2>2. CASE b = balance[a]
    <3>1. balance[a] # Books(a)
      BY <1>12, <2>2
    <3>2. PICK v \in Threads, u \in Threads : u \in met[v] /\ a \in Touched(v) \cap Touched(u)
      BY <1>1, <1>2, <3>1 DEF LostOnlyByOverlap
    <3>3. QED
      BY <1>1, <1>6, <3>2
  <2>3. QED
    BY <2>1, <2>2
<1>13. PICK e, x, c, from, to :
         /\ e = e1 /\ x = e2 /\ c = -d /\ from = F /\ to = T
         /\ e[1] = t /\ e[2] = from /\ e[3] = c /\ x[1] = t /\ x[2] = to /\ x[3] = d
  <2>1. e1[1] = t /\ e1[2] = F /\ e1[3] = -d
    BY <1>2
  <2>2. e2[1] = t /\ e2[2] = T /\ e2[3] = d
    BY <1>2
  <2> HIDE DEF e1, e2, d, F, T
  <2>3. QED
    BY <2>1, <2>2
<1>14. Books(from)' = Books(from) + c /\ Books(to)' = Books(to) + d /\ c \in Int
  <2>1. journal' = journal \cup {e, x} /\ journal' = journal \cup {x, e}
    BY <1>1, <1>13
  <2>2. e \notin journal /\ x \notin journal /\ from # to /\ c \in Int
    BY <1>2, <1>4, <1>13
  <2> HIDE DEF e1, e2, d, F, T
  <2>3. Books(from)' = Books(from) + c
    BY <1>1, <1>13, <2>1, <2>2, RowBooked
  <2>4. Books(to)' = Books(to) + d
    BY <1>1, <1>2, <1>13, <2>1, <2>2, RowBooked
  <2>5. QED
    BY <2>2, <2>3, <2>4
<1>15. ASSUME NEW a \in Accounts, balance'[a] # Books(a)'
       PROVE  \E v, u \in Threads : u \in met'[v] /\ a \in Touched(v)' \cap Touched(u)'
  <2>1. CASE a = F
    <3>1. balance'[F] = src[t] + c
      BY <1>2, <1>3, <1>8, <1>13
    <3> HIDE DEF d, F, T, e1, e2
    <3>2. QED
      BY <1>3, <1>12, <1>13, <1>14, <1>15, <2>1, <3>1
  <2>2. CASE a = T
    <3> HIDE DEF d, F, T, e1, e2
    <3>1. QED
      BY <1>2, <1>3, <1>8, <1>12, <1>13, <1>14, <1>15, <2>2
  <2>3. CASE a \notin {F, T}
    <3>1. Rows(a)' = Rows(a)
      BY <1>1, <2>3 DEF Rows
    <3>2. balance[a] # Books(a)
      BY <1>8, <1>15, <2>3, <3>1, BooksTotal
    <3>3. PICK v \in Threads, u \in Threads : u \in met[v] /\ a \in Touched(v) \cap Touched(u)
      BY <1>1, <3>2 DEF LostOnlyByOverlap
    <3>4. QED
      BY <1>1, <1>6, <3>3
  <2>4. QED
    BY <2>1, <2>2, <2>3
<1>16. QED
  BY <1>11, <1>15 DEF LostOnlyByOverlap

LEMMA LossStep == TransferInv /\ BooksInv /\ LossInv /\ [Next]_vars => LossInv'
<1> SUFFICES ASSUME TransferInv, BooksInv, LossInv, [Next]_vars PROVE LossInv'
  OBVIOUS
<1>1. TypeOK /\ MeetInv /\ LostOnlyByOverlap
  BY DEF TransferInv, LossInv
<1>2. ASSUME UNCHANGED <<balance, journal, met>>,
             \A t \in AtWork' : t \in AtWork /\ order'[t] = order[t] /\ src'[t] = src[t],
             \A t \in Threads : pc'[t] \in {"commit", "writing"} =>
               pc[t] \in {"commit", "writing"} /\ dst'[t] = dst[t]
      PROVE  LossInv'
  BY <1>1, <1>2, LessAtWork, NothingWritten DEF LossInv
<1>3. CASE UNCHANGED vars
  BY <1>2, <1>3 DEF vars, file, thread, AtWork
<1>4. ASSUME NEW t \in Threads, NEW from \in Names, NEW to \in Names, NEW amount \in Amounts,
             Call(t, from, to, amount)
      PROVE  LossInv'
  <2>1. /\ UNCHANGED <<balance, journal, met, src, dst>> /\ pc[t] = "idle" /\ pc'[t] \in {"source", "done"}
        /\ \A u \in Threads \ {t} : pc'[u] = pc[u] /\ order'[u] = order[u]
    BY <1>1, <1>4 DEF Call, Returns, file, TypeOK
  <2>2. QED
    BY <1>2, <2>1 DEF AtWork
<1>5. ASSUME NEW t \in Threads, \/ Locks(t) \/ GivesUp(t) \/ Reports(t) \/ Dies(t)
      PROVE  LossInv'
  <2>1. /\ UNCHANGED <<balance, journal, met, order, src, dst>>
        /\ \A u \in Threads \ {t} : pc'[u] = pc[u]
        /\ pc'[t] \in {"done", "dead"} \/ (pc[t] = "commit" /\ pc'[t] = "writing")
    BY <1>1, <1>5 DEF Locks, GivesUp, Reports, Dies, Returns, file, TypeOK
  <2>2. QED
    BY <1>2, <2>1 DEF AtWork
<1>6. ASSUME NEW t \in Threads, ReadsSource(t)
      PROVE  LossInv'
  <2>1. balance' = balance /\ journal' = journal
    BY <1>6 DEF ReadsSource, file
  <2>2. QED
    BY <1>1, <1>6, <2>1, MeetsAtSource, NothingWritten DEF LossInv
<1>7. ASSUME NEW t \in Threads, ReadsTarget(t)
      PROVE  LossInv'
  <2>1. balance' = balance /\ journal' = journal /\ met' = met
    BY <1>7 DEF ReadsTarget, file
  <2>2. QED
    BY <1>1, <1>7, <2>1, MeetsAtTarget, NothingWritten DEF LossInv
<1>8. ASSUME NEW t \in Threads, Commits(t)
      PROVE  LossInv'
  BY <1>8, CommitMeets DEF LossInv
<1>9. QED
  BY <1>3, <1>4, <1>5, <1>6, <1>7, <1>8 DEF Next

(* Accounts and journal part only where two calls that touched the account   *)
(* had met, for any callers, accounts and amounts (38-82).                   *)
THEOREM LossNeedsOverlap == Spec => []LostOnlyByOverlap
<1>1. LossInv => LostOnlyByOverlap
  BY DEF LossInv
<1> QED
  BY TransferInit, TransferStep, BooksInit, BooksStep, LossInit, LossStep, <1>1, PTL DEF Spec
============================================================================
