---------------------------- MODULE WebProofs -----------------------------
(***************************************************************************)
(* Theorems about the two sides of the web demo: what the chat does with a *)
(* message on the server, for any messages, tools and answers, and what    *)
(* the page shows of it in the browser, for any number of inputs.  The two *)
(* specifications have no variable in common.                              *)
(***************************************************************************)
EXTENDS ChatTurn, WebPage, SequenceTheorems, FiniteSetTheorems, TLAPS

Places == {"called", "asking", "ran", "back"}
Outputs ==
  Deliveries \cup {"none", "data", "nothing", "raised", "executed", "unlogged", "unreachable",
                   "unheard", "refused", "quarantined"}
Events == Answers \cup {"status", "token", "tool_result", "tool_blocked", "error", "done"}

(* Types of all variables; what is kept per call is there for each call.     *)
ChatType ==
  /\ smtp \in BOOLEAN /\ guard \in [Turns -> BOOLEAN]
  /\ pc \in [Turns -> {"new", "thinking", "finally", "over"}]
  /\ tokens \in [Turns -> Nat] /\ calls \in [Turns -> Nat] /\ since \in [Turns -> Nat \ {0}]
  /\ DOMAIN tool = Turns /\ DOMAIN at = Turns /\ DOMAIN body = Turns
  /\ DOMAIN told = Turns /\ DOMAIN output = Turns
  /\ \A m \in Turns :
       /\ tool[m] \in [Made(m) -> Tools] /\ at[m] \in [Made(m) -> Places]
       /\ body[m] \in [Made(m) -> SUBSET Made(m)] /\ told[m] \in [Made(m) -> SUBSET Made(m)]
       /\ output[m] \in [Made(m) -> Outputs]
  /\ blocked \in [Turns -> BOOLEAN] /\ last \in [Turns -> Outputs]
  /\ fetched \in [Turns -> SUBSET Nat] /\ \A m \in Turns : fetched[m] \subseteq Made(m)
  /\ emitted \in [Turns -> Seq(Events)] /\ ready \in [Turns -> Seq(Events)]
  /\ queue \in [Turns -> Seq(Events)] /\ shown \in [Turns -> Seq(Events)]
  /\ stream \in [Turns -> {"closed", "open", "done", "gone"}]
  /\ taken \in SUBSET (Turns \X Nat) /\ captureLog \in SUBSET (Turns \X Nat)
  /\ log \in SUBSET (Turns \X Nat \X Deliveries)

\* The data of the calls in fs is what the agent was given.
AreData(m, fs) == \A f \in fs : at[m][f] = "back" /\ output[m][f] = "data"

(* While the model works no thread of a tool does, and only the calls of its *)
(* last message ever do; a call carries data the agent was given, and the    *)
(* gateway was told what it carries.                                         *)
CallInv ==
  \A m \in Turns :
    /\ pc[m] # "thinking" => \A c \in Made(m) : at[m][c] = "back"
    /\ pc[m] = "new" => calls[m] = 0
    /\ calls[m] = 0 \/ since[m] <= calls[m]
    /\ AreData(m, fetched[m])
    /\ \A c \in Made(m) :
         /\ at[m][c] # "back" => since[m] <= c
         /\ at[m][c] \in {"called", "asking"} <=> output[m][c] = "none"
         /\ at[m][c] = "ran" => output[m][c] \notin {"refused", "quarantined"}
         /\ at[m][c] = "ran" /\ tool[m][c] = "fetch" => output[m][c] \in {"data", "nothing"}
         /\ at[m][c] # "called" => told[m][c] = body[m][c]
         /\ AreData(m, body[m][c])

\* The tool of the call has run.
Ran(m, c) == c \in Made(m) /\ at[m][c] \in {"ran", "back"}

(* Only a call that ran left anything, and its delivery is in the log.       *)
LogInv ==
  /\ \A e \in taken \cup captureLog : Ran(e[1], e[2])
  /\ \A r \in log : Ran(r[1], r[2])
  /\ \A m \in Turns : \A c \in Made(m) :
       output[m][c] \in Deliveries => <<m, c, output[m][c]>> \in log
  /\ LogsAreTrue

\* A call of the model's last message was logged as d.
Delivered(m, d) == \E c \in since[m]..calls[m] : <<m, c, d>> \in log

\* The answer, or the error in its place.
Says(m) == emitted[m][IF pc[m] = "over" THEN Len(emitted[m]) - 1 ELSE Len(emitted[m])]

(* "blocked" is set as soon as a call was refused and no sooner; "last" is a *)
(* delivery of a call of the last message, unless every call of it that came *)
(* back was refused; and the answer is grounded in these.                    *)
GroundInv ==
  \A m \in Turns :
    /\ blocked[m] <=> \E c \in Made(m) : output[m][c] = "refused"
    /\ last[m] \in Deliveries =>
         /\ calls[m] # 0
         /\ \/ Delivered(m, last[m])
            \/ \A c \in since[m]..calls[m] : at[m][c] = "back" => output[m][c] = "refused"
    /\ pc[m] \in {"finally", "over"} =>
         /\ Says(m) \in Deliveries => ~blocked[m] /\ Delivered(m, Says(m))
         /\ Says(m) = "blocked" => blocked[m]

(* What was emitted is shown, queued or ready, in this order; "done" is the  *)
(* last of it, after the answer or the error.                                *)
StreamInv ==
  \A m \in Turns :
    /\ IF stream[m] = "gone" THEN IsPrefix(shown[m], emitted[m])
       ELSE shown[m] \o queue[m] \o ready[m] = emitted[m]
    /\ stream[m] = "closed" <=> pc[m] = "new"
    /\ pc[m] = "new" => emitted[m] = <<>>
    /\ \A i \in DOMAIN emitted[m] : emitted[m][i] = "done" <=> pc[m] = "over" /\ i = Len(emitted[m])
    /\ pc[m] = "finally" => Len(emitted[m]) >= 1 /\ Says(m) \in Answers \cup {"error"}
    /\ pc[m] = "over" => Len(emitted[m]) >= 2 /\ Says(m) \in Answers \cup {"error"}
    /\ stream[m] = "done" => pc[m] = "over" /\ shown[m] = emitted[m]

ChatInv == ChatType /\ CallInv /\ LogInv /\ GroundInv /\ StreamInv

-----------------------------------------------------------------------------
\* What the calls made so far and those of one more message are together.
LEMMA ConcatFacts ==
  ASSUME NEW S, NEW k \in Nat, NEW n \in Nat, NEW f \in [1..k -> S], NEW g \in [1..n -> S],
         NEW h, h = f \o g
  PROVE  /\ h \in [1..(k + n) -> S]
         /\ \A i \in 1..k : h[i] = f[i]
         /\ \A i \in 1..(k + n) : i \notin 1..k => i - k \in 1..n /\ h[i] = g[i - k]
<1>1. f \in Seq(S) /\ Len(f) = k /\ g \in Seq(S) /\ Len(g) = n
  OBVIOUS
<1>2. h \in Seq(S) /\ Len(h) = k + n
  BY <1>1, ConcatProperties
<1>3. h \in [1..(k + n) -> S]
  BY <1>2, LenProperties
<1>4. \A i \in 1..k : h[i] = f[i]
  BY <1>1
<1>5. \A i \in 1..(k + n) : i \notin 1..k => i - k \in 1..n /\ h[i] = g[i - k]
  BY <1>1
<1>6. QED
  BY <1>3, <1>4, <1>5

\* The same for what is kept of the calls of each turn, when those of m grow.
Grows(F, G, m, k, n, S, g) ==
  /\ DOMAIN F = Turns /\ F[m] \in [1..k -> S]
  /\ g \in [1..n -> S] /\ G = [F EXCEPT ![m] = @ \o g]

Grown(F, G, m, k, n, S, g) ==
  /\ G[m] \in [1..(k + n) -> S]
  /\ \A i \in 1..k : G[m][i] = F[m][i]
  /\ \A i \in 1..(k + n) : i \notin 1..k => i - k \in 1..n /\ G[m][i] = g[i - k]

LEMMA GrowFacts ==
  ASSUME NEW F, NEW G, NEW m \in Turns, NEW S, NEW k \in Nat, NEW n \in Nat, NEW g, Grows(F, G, m, k, n, S, g)
  PROVE  Grown(F, G, m, k, n, S, g)
<1>1. PICK f, h : f = F[m] /\ h = G[m]
  OBVIOUS
<1>2. f \in [1..k -> S] /\ g \in [1..n -> S] /\ h = f \o g
  BY <1>1 DEF Grows
<1>3. h \in [1..(k + n) -> S]
  BY <1>2, ConcatFacts
<1>4. \A i \in 1..k : h[i] = f[i]
  BY <1>2, ConcatFacts
<1>5. \A i \in 1..(k + n) : i \notin 1..k => i - k \in 1..n /\ h[i] = g[i - k]
  BY <1>2, ConcatFacts
<1>6. QED
  BY <1>1, <1>3, <1>4, <1>5 DEF Grown

\* The queues between a thread and the browser: appending, sending.
LEMMA QueueFacts ==
  ASSUME NEW S, NEW s \in Seq(S), NEW q \in Seq(S), NEW r \in Seq(S)
  PROVE  /\ \A x \in S : s \o q \o Append(r, x) = Append(s \o q \o r, x)
         /\ q # <<>> => Append(s, Head(q)) \o Tail(q) \o r = s \o q \o r
         /\ IsPrefix(s, s \o q \o r)
<1>1. ASSUME NEW x \in S PROVE s \o q \o Append(r, x) = Append(s \o q \o r, x)
  OBVIOUS
<1>2. ASSUME q # <<>> PROVE Append(s, Head(q)) \o Tail(q) \o r = s \o q \o r
  BY <1>2
<1>3. IsPrefix(s, s \o q \o r)
  BY DEF IsPrefix
<1>4. QED
  BY <1>1, <1>2, <1>3

\* The first of the events that are ready is put into the queue.
LEMMA PutFacts ==
  ASSUME NEW s \in Seq(Events), NEW q \in Seq(Events), NEW r \in Seq(Events), r # <<>>
  PROVE  s \o Append(q, Head(r)) \o Tail(r) = s \o q \o r
<1> DEFINE l == s \o Append(q, Head(r)) \o Tail(r)
           g == s \o q \o r
<1>1. l \in Seq(Events) /\ g \in Seq(Events) /\ Len(l) = Len(s) + Len(q) + Len(r) /\ Len(g) = Len(l)
  OBVIOUS
<1>2. ASSUME NEW i \in 1..Len(l) PROVE l[i] = g[i]
  <2>1. i \in 1..(Len(s) + Len(q) + Len(r))
    BY <1>1
  <2>2. CASE i <= Len(s)
    BY <2>1, <2>2
  <2>3. CASE i > Len(s) /\ i <= Len(s) + Len(q)
    BY <2>1, <2>3
  <2>4. CASE i > Len(s) + Len(q)
    BY <2>1, <2>4
  <2>5. QED
    BY <2>1, <2>2, <2>3, <2>4
<1> HIDE DEF l, g
<1>3. l = g
  BY <1>1, <1>2, SeqEqual
<1>4. QED
  BY <1>3 DEF l, g

\* What was shown stays the beginning of what is emitted.
LEMMA PrefixFacts ==
  ASSUME NEW S, NEW s \in Seq(S), NEW t \in Seq(S), NEW x \in S, IsPrefix(s, t)
  PROVE  IsPrefix(s, Append(t, x))
  BY DEF IsPrefix

LEMMA InitChat == Init => ChatInv
<1> SUFFICES ASSUME Init PROVE ChatInv
  OBVIOUS
<1> USE DEF Init, Each
<1>1. \A m \in Turns : Made(m) = {}
  BY DEF Made
<1>2. ChatType
  BY <1>1 DEF ChatType, Outputs
<1>3. CallInv
  BY <1>1 DEF CallInv, AreData
<1>4. LogInv
  BY <1>1 DEF LogInv, LogsAreTrue
<1>5. GroundInv
  BY <1>1 DEF GroundInv, Deliveries
<1>6. StreamInv
  BY DEF StreamInv
<1>7. QED
  BY <1>2, <1>3, <1>4, <1>5, <1>6 DEF ChatInv

-----------------------------------------------------------------------------
\* A step of one turn, its agent, the thread of one of its calls, or the loop.
Agent(m) == Opens(m) \/ Thinks(m) \/ AnswersUser(m) \/ Fails(m) \/ Finally(m)
Loop(m)  == Puts(m) \/ Yields(m) \/ TimesOut(m) \/ Leaves(m)

\* The other turns do not notice.
SameTurn(k) ==
  /\ pc'[k] = pc[k] /\ calls'[k] = calls[k] /\ since'[k] = since[k] /\ tool'[k] = tool[k]
  /\ at'[k] = at[k] /\ body'[k] = body[k] /\ told'[k] = told[k] /\ output'[k] = output[k]
  /\ blocked'[k] = blocked[k] /\ last'[k] = last[k] /\ fetched'[k] = fetched[k]
  /\ emitted'[k] = emitted[k] /\ ready'[k] = ready[k] /\ queue'[k] = queue[k]
  /\ shown'[k] = shown[k] /\ stream'[k] = stream[k]

LEMMA NextKinds ==
  ASSUME Next
  PROVE  \E m \in Turns : Agent(m) \/ Acts(m) \/ (\E c \in Calls : Thread(m, c)) \/ Loop(m)
  BY DEF Next, Agent, Loop

LEMMA AgentFrame ==
  ASSUME ChatType, NEW m \in Turns, Agent(m)
  PROVE  /\ \A k \in Turns : k # m => SameTurn(k)
         /\ UNCHANGED <<smtp, guard, calls, since, tool, at, work, outcome, outside>>
<1> USE DEF ChatType, SameTurn, model, work, outcome, loop, outside, Goes, Emits
<1>1. CASE Opens(m)
  BY <1>1 DEF Opens
<1>2. CASE Thinks(m)
  BY <1>2 DEF Thinks
<1>3. CASE AnswersUser(m)
  BY <1>3 DEF AnswersUser
<1>4. CASE Fails(m)
  BY <1>4 DEF Fails
<1>5. CASE Finally(m)
  BY <1>5 DEF Finally
<1>6. QED
  BY <1>1, <1>2, <1>3, <1>4, <1>5 DEF Agent

LEMMA LoopFrame ==
  ASSUME ChatType, NEW m \in Turns, Loop(m)
  PROVE  /\ \A k \in Turns : k # m => SameTurn(k)
         /\ UNCHANGED <<smtp, guard, pc, model, at, work, outcome, emitted, outside>>
<1> USE DEF ChatType, SameTurn, model, work, outcome, threads, outside, Ends
<1>1. CASE Puts(m)
  BY <1>1 DEF Puts
<1>2. CASE Yields(m)
  BY <1>2 DEF Yields
<1>3. CASE TimesOut(m)
  BY <1>3 DEF TimesOut
<1>4. CASE Leaves(m)
  BY <1>4 DEF Leaves
<1>5. QED
  BY <1>1, <1>2, <1>3, <1>4 DEF Loop

LEMMA ActsFrame ==
  ASSUME ChatType, NEW m \in Turns, Acts(m)
  PROVE  /\ \A k \in Turns : k # m => SameTurn(k)
         /\ UNCHANGED <<smtp, guard, pc, tokens, outcome, emitted, loop, outside>>
  BY DEF Acts, ActsWith, ChatType, SameTurn, outcome, loop, outside

LEMMA ThreadFrame ==
  ASSUME ChatType, NEW m \in Turns, NEW c \in Calls, Thread(m, c)
  PROVE  /\ \A k \in Turns : k # m => SameTurn(k)
         /\ UNCHANGED <<smtp, guard, pc, model>>
<1> USE DEF ChatType, SameTurn, model, work, outcome, loop, outside, Moves, Emits, Returns
<1>1. CASE Asks(m, c)
  BY <1>1 DEF Asks
<1>2. CASE IsRefused(m, c)
  BY <1>2 DEF IsRefused
<1>3. CASE Fetches(m, c)
  BY <1>3 DEF Fetches
<1>4. CASE Sends(m, c)
  BY <1>4 DEF Sends
<1>5. CASE Posts(m, c)
  BY <1>5 DEF Posts
<1>6. CASE Reports(m, c)
  BY <1>6 DEF Reports
<1>7. QED
  BY <1>1, <1>2, <1>3, <1>4, <1>5, <1>6 DEF Thread

-----------------------------------------------------------------------------
\* An emitted event of the threads, and what becomes of it.
LEMMA EmitTypes ==
  ASSUME ChatType, NEW m \in Turns, NEW e \in Events, Emits(m, e)
  PROVE  /\ emitted' \in [Turns -> Seq(Events)] /\ ready' \in [Turns -> Seq(Events)]
         /\ queue' \in [Turns -> Seq(Events)] /\ shown' \in [Turns -> Seq(Events)]
         /\ stream' \in [Turns -> {"closed", "open", "done", "gone"}]
<1>1. Append(emitted[m], e) \in Seq(Events) /\ Append(ready[m], e) \in Seq(Events)
  BY DEF ChatType
<1>2. QED
  BY <1>1 DEF ChatType, Emits

\* The types of the calls of a turn that made no more of them.
LEMMA CallTypes ==
  ASSUME ChatType, NEW m \in Turns, \A k \in Turns : k # m => SameTurn(k),
         UNCHANGED <<calls, since, tokens, tool>>,
         DOMAIN at' = Turns, DOMAIN body' = Turns, DOMAIN told' = Turns, DOMAIN output' = Turns,
         at'[m] \in [Made(m) -> Places], output'[m] \in [Made(m) -> Outputs],
         body'[m] \in [Made(m) -> SUBSET Made(m)], told'[m] \in [Made(m) -> SUBSET Made(m)],
         fetched' \in [Turns -> SUBSET Nat], fetched'[m] \subseteq Made(m)
  PROVE  /\ calls' \in [Turns -> Nat] /\ since' \in [Turns -> Nat \ {0}] /\ tokens' \in [Turns -> Nat]
         /\ DOMAIN tool' = Turns /\ DOMAIN at' = Turns /\ DOMAIN body' = Turns
         /\ DOMAIN told' = Turns /\ DOMAIN output' = Turns
         /\ \A k \in Turns :
              /\ tool'[k] \in [1..calls'[k] -> Tools] /\ at'[k] \in [1..calls'[k] -> Places]
              /\ body'[k] \in [1..calls'[k] -> SUBSET (1..calls'[k])]
              /\ told'[k] \in [1..calls'[k] -> SUBSET (1..calls'[k])]
              /\ output'[k] \in [1..calls'[k] -> Outputs]
         /\ fetched' \in [Turns -> SUBSET Nat] /\ \A k \in Turns : fetched'[k] \subseteq 1..calls'[k]
<1>1. calls' = calls /\ tool' = tool
  OBVIOUS
<1>2. ASSUME NEW k \in Turns
      PROVE  /\ tool'[k] \in [1..calls'[k] -> Tools] /\ at'[k] \in [1..calls'[k] -> Places]
             /\ body'[k] \in [1..calls'[k] -> SUBSET (1..calls'[k])]
             /\ told'[k] \in [1..calls'[k] -> SUBSET (1..calls'[k])]
             /\ output'[k] \in [1..calls'[k] -> Outputs]
             /\ fetched'[k] \subseteq 1..calls'[k]
  <2>1. CASE k = m
    BY <1>1, <2>1 DEF ChatType, Made
  <2>2. CASE k # m
    BY <1>1, <2>2 DEF ChatType, Made, SameTurn
  <2>3. QED
    BY <2>1, <2>2
<1>3. QED
  BY <1>1, <1>2 DEF ChatType

LEMMA TypeAgent ==
  ASSUME ChatType, NEW m \in Turns, Agent(m)
  PROVE  ChatType'
<1>1. UNCHANGED <<smtp, guard, calls, since, tool, at, work, outcome, outside>>
  BY AgentFrame
<1>2. /\ \A k \in Turns : Made(k)' = Made(k)
      /\ tool' = tool /\ at' = at /\ body' = body /\ told' = told /\ output' = output
      /\ blocked' = blocked /\ last' = last /\ fetched' = fetched
      /\ taken' = taken /\ log' = log /\ captureLog' = captureLog
  BY <1>1 DEF Made, work, outcome, outside
<1>3. /\ pc' \in [Turns -> {"new", "thinking", "finally", "over"}] /\ tokens' \in [Turns -> Nat]
      /\ emitted' \in [Turns -> Seq(Events)] /\ ready' \in [Turns -> Seq(Events)]
      /\ queue' \in [Turns -> Seq(Events)] /\ shown' \in [Turns -> Seq(Events)]
      /\ stream' \in [Turns -> {"closed", "open", "done", "gone"}]
  <2>1. CASE Opens(m)
    <3>1. <<"status">> \in Seq(Events)
      BY DEF Events
    <3>2. QED
      BY <2>1, <3>1 DEF Opens, Goes, ChatType, model
  <2>2. CASE Thinks(m)
    <3>1. "token" \in Events
      BY DEF Events
    <3>2. Emits(m, "token") /\ tokens' = [tokens EXCEPT ![m] = @ + 1] /\ UNCHANGED pc
      BY <2>2 DEF Thinks
    <3>3. tokens' \in [Turns -> Nat] /\ pc' \in [Turns -> {"new", "thinking", "finally", "over"}]
      BY <3>2 DEF ChatType
    <3>4. QED
      BY <3>1, <3>2, <3>3, EmitTypes
  <2>3. CASE AnswersUser(m) \/ Fails(m) \/ Finally(m)
    <3>1. \E e \in Events : Emits(m, e)
      <4>1. GroundedAnswer(m) \in Events /\ "error" \in Events /\ "done" \in Events
        BY DEF GroundedAnswer, Events, Answers, Deliveries
      <4>2. QED
        BY <2>3, <4>1 DEF AnswersUser, Fails, Finally
    <3>2. (\E p \in {"finally", "over"} : pc' = [pc EXCEPT ![m] = p]) /\ UNCHANGED tokens
      BY <2>3 DEF AnswersUser, Fails, Finally, Goes, model
    <3>3. tokens' \in [Turns -> Nat] /\ pc' \in [Turns -> {"new", "thinking", "finally", "over"}]
      BY <3>2 DEF ChatType
    <3>4. QED
      BY <3>1, <3>3, EmitTypes
  <2>4. QED
    BY <2>1, <2>2, <2>3 DEF Agent
<1>4. QED
  BY <1>1, <1>2, <1>3 DEF ChatType

LEMMA TypeLoop ==
  ASSUME ChatType, NEW m \in Turns, Loop(m)
  PROVE  ChatType'
<1>1. UNCHANGED <<smtp, guard, pc, model, at, work, outcome, emitted, outside>>
  BY LoopFrame
<1>2. /\ ready' \in [Turns -> Seq(Events)]
      /\ queue' \in [Turns -> Seq(Events)] /\ shown' \in [Turns -> Seq(Events)]
      /\ stream' \in [Turns -> {"closed", "open", "done", "gone"}]
  <2>1. ready[m] \in Seq(Events) /\ queue[m] \in Seq(Events) /\ shown[m] \in Seq(Events)
    BY DEF ChatType
  <2>2. CASE Puts(m)
    <3>1. Append(queue[m], Head(ready[m])) \in Seq(Events) /\ Tail(ready[m]) \in Seq(Events)
      BY <2>1, <2>2 DEF Puts
    <3>2. QED
      BY <2>2, <3>1 DEF Puts, ChatType
  <2>3. CASE Yields(m)
    <3>1. Append(shown[m], Head(queue[m])) \in Seq(Events) /\ Tail(queue[m]) \in Seq(Events)
      BY <2>1, <2>3 DEF Yields
    <3>2. QED
      BY <2>3, <3>1 DEF Yields, ChatType
  <2>4. CASE TimesOut(m) \/ Leaves(m)
    <3>1. <<>> \in Seq(Events)
      OBVIOUS
    <3>2. /\ stream' = [stream EXCEPT ![m] = "gone"] /\ shown' = shown
          /\ ready' = [ready EXCEPT ![m] = <<>>] /\ queue' = [queue EXCEPT ![m] = <<>>]
      BY <2>4 DEF TimesOut, Leaves, Ends
    <3>3. QED
      BY <3>1, <3>2 DEF ChatType
  <2>5. QED
    BY <2>2, <2>3, <2>4 DEF Loop
<1>3. QED
  BY <1>1, <1>2 DEF ChatType, Made, model, work, outcome, outside

\* The calls of a turn after a message with n more.
LEMMA ActsFacts ==
  ASSUME ChatType, NEW m \in Turns, Acts(m)
  PROVE  \E n \in Nat \ {0} :
           /\ Thinking(m) /\ calls'[m] = calls[m] + n /\ since'[m] = calls[m] + 1
           /\ calls' \in [Turns -> Nat] /\ since' \in [Turns -> Nat \ {0}]
           /\ tool'[m] \in [Made(m)' -> Tools] /\ at'[m] \in [Made(m)' -> Places]
           /\ body'[m] \in [Made(m)' -> SUBSET Made(m)'] /\ told'[m] \in [Made(m)' -> SUBSET Made(m)']
           /\ output'[m] \in [Made(m)' -> Outputs]
           /\ \A c \in Made(m) : /\ at'[m][c] = at[m][c] /\ body'[m][c] = body[m][c]
                                 /\ told'[m][c] = told[m][c] /\ output'[m][c] = output[m][c]
           /\ \A c \in Made(m)' : c \notin Made(m) =>
                /\ calls[m] < c /\ at'[m][c] = "called" /\ output'[m][c] = "none"
                /\ body'[m][c] \subseteq Known(m)
<1>1. PICK n \in Calls : ActsWith(m, n)
  BY DEF Acts
<1>2. PICK k \in Nat : k = calls[m]
  BY DEF ChatType
<1>3. PICK kinds \in [1..n -> Tools], written \in [1..n -> SUBSET Known(m)] :
        tool' = [tool EXCEPT ![m] = @ \o kinds] /\ body' = [body EXCEPT ![m] = @ \o written]
  BY <1>1 DEF ActsWith
<1>4. PICK called, empty, none :
        /\ called = [i \in 1..n |-> "called"] /\ empty = [i \in 1..n |-> {}]
        /\ none = [i \in 1..n |-> "none"]
  OBVIOUS
<1>5. /\ Thinking(m) /\ calls' = [calls EXCEPT ![m] = @ + n] /\ since' = [since EXCEPT ![m] = k + 1]
      /\ at' = [at EXCEPT ![m] = @ \o called] /\ told' = [told EXCEPT ![m] = @ \o empty]
      /\ output' = [output EXCEPT ![m] = @ \o none]
  BY <1>1, <1>2, <1>4 DEF ActsWith
<1>6. n \in Nat \ {0}
  BY TurnAssumption DEF Calls
<1>7. /\ calls'[m] = k + n /\ since'[m] = k + 1
      /\ calls' \in [Turns -> Nat] /\ since' \in [Turns -> Nat \ {0}]
  <2>1. k + n \in Nat /\ k + 1 \in Nat \ {0}
    BY <1>6
  <2>2. calls \in [Turns -> Nat] /\ since \in [Turns -> Nat \ {0}]
    BY DEF ChatType
  <2>3. calls'[m] = k + n /\ calls' \in [Turns -> Nat]
    BY <1>2, <1>5, <2>1, <2>2
  <2>4. since'[m] = k + 1 /\ since' \in [Turns -> Nat \ {0}]
    BY <1>5, <2>1, <2>2
  <2>5. QED
    BY <2>3, <2>4
<1> DEFINE old == 1..k
           new == 1..(k + n)
<1>8. /\ Made(m) = old /\ Made(m)' = new /\ old \subseteq new /\ Known(m) \subseteq new
      /\ \A c \in new : c \notin old => k < c
  BY <1>2, <1>6, <1>7 DEF Made, Known
<1>9. /\ tool[m] \in [old -> Tools] /\ at[m] \in [old -> Places] /\ body[m] \in [old -> SUBSET new]
      /\ told[m] \in [old -> SUBSET new] /\ output[m] \in [old -> Outputs]
      /\ DOMAIN tool = Turns /\ DOMAIN at = Turns /\ DOMAIN body = Turns
      /\ DOMAIN told = Turns /\ DOMAIN output = Turns
  <2>1. /\ body[m] \in [old -> SUBSET old] /\ told[m] \in [old -> SUBSET old]
        /\ tool[m] \in [old -> Tools] /\ at[m] \in [old -> Places] /\ output[m] \in [old -> Outputs]
        /\ DOMAIN tool = Turns /\ DOMAIN at = Turns /\ DOMAIN body = Turns
        /\ DOMAIN told = Turns /\ DOMAIN output = Turns
    BY <1>8 DEF ChatType
  <2>2. body[m] \in [old -> SUBSET new] /\ told[m] \in [old -> SUBSET new]
    BY <1>8, <2>1
  <2>3. QED
    BY <2>1, <2>2
<1>10. /\ called \in [1..n -> Places] /\ written \in [1..n -> SUBSET new]
       /\ empty \in [1..n -> SUBSET new] /\ none \in [1..n -> Outputs]
  BY <1>3, <1>4, <1>8 DEF Places, Outputs
<1>11. Grown(tool, tool', m, k, n, Tools, kinds)
  <2>1. Grows(tool, tool', m, k, n, Tools, kinds)
    BY <1>3, <1>5, <1>9, <1>10 DEF Grows
  <2>2. QED
    BY <1>6, <2>1, GrowFacts
<1>12. Grown(at, at', m, k, n, Places, called)
  <2>1. Grows(at, at', m, k, n, Places, called)
    BY <1>3, <1>5, <1>9, <1>10 DEF Grows
  <2>2. QED
    BY <1>6, <2>1, GrowFacts
<1>13. Grown(body, body', m, k, n, SUBSET new, written)
  <2>1. Grows(body, body', m, k, n, SUBSET new, written)
    BY <1>3, <1>5, <1>9, <1>10 DEF Grows
  <2>2. QED
    BY <1>6, <2>1, GrowFacts
<1>14. Grown(told, told', m, k, n, SUBSET new, empty)
  <2>1. Grows(told, told', m, k, n, SUBSET new, empty)
    BY <1>3, <1>5, <1>9, <1>10 DEF Grows
  <2>2. QED
    BY <1>6, <2>1, GrowFacts
<1>15. Grown(output, output', m, k, n, Outputs, none)
  <2>1. Grows(output, output', m, k, n, Outputs, none)
    BY <1>3, <1>5, <1>9, <1>10 DEF Grows
  <2>2. QED
    BY <1>6, <2>1, GrowFacts
<1>16. /\ tool'[m] \in [new -> Tools] /\ at'[m] \in [new -> Places] /\ body'[m] \in [new -> SUBSET new]
       /\ told'[m] \in [new -> SUBSET new] /\ output'[m] \in [new -> Outputs]
  BY <1>11, <1>12, <1>13, <1>14, <1>15 DEF Grown
<1>17. \A c \in old : /\ at'[m][c] = at[m][c] /\ body'[m][c] = body[m][c]
                      /\ told'[m][c] = told[m][c] /\ output'[m][c] = output[m][c]
  BY <1>12, <1>13, <1>14, <1>15 DEF Grown
<1>18. ASSUME NEW c \in new, c \notin old
       PROVE  at'[m][c] = "called" /\ output'[m][c] = "none" /\ body'[m][c] \subseteq Known(m)
  <2>1. /\ c - k \in 1..n /\ at'[m][c] = called[c - k] /\ output'[m][c] = none[c - k]
        /\ body'[m][c] = written[c - k]
    BY <1>12, <1>13, <1>15, <1>18 DEF Grown
  <2>2. QED
    BY <1>3, <1>4, <2>1
<1> HIDE DEF old, new
<1>19. QED
  BY <1>2, <1>5, <1>6, <1>7, <1>8, <1>16, <1>17, <1>18

LEMMA TypeActs ==
  ASSUME ChatType, NEW m \in Turns, Acts(m)
  PROVE  ChatType'
<1>1. UNCHANGED <<smtp, guard, pc, tokens, outcome, emitted, loop, outside>>
      /\ \A k \in Turns : k # m => SameTurn(k)
  BY ActsFrame
<1>2. /\ calls' \in [Turns -> Nat] /\ since' \in [Turns -> Nat \ {0}]
      /\ tool'[m] \in [Made(m)' -> Tools] /\ at'[m] \in [Made(m)' -> Places]
      /\ body'[m] \in [Made(m)' -> SUBSET Made(m)'] /\ told'[m] \in [Made(m)' -> SUBSET Made(m)']
      /\ output'[m] \in [Made(m)' -> Outputs] /\ Made(m) \subseteq Made(m)'
  <2>1. PICK n \in Nat \ {0} :
          /\ calls'[m] = calls[m] + n
          /\ calls' \in [Turns -> Nat] /\ since' \in [Turns -> Nat \ {0}]
          /\ tool'[m] \in [Made(m)' -> Tools] /\ at'[m] \in [Made(m)' -> Places]
          /\ body'[m] \in [Made(m)' -> SUBSET Made(m)'] /\ told'[m] \in [Made(m)' -> SUBSET Made(m)']
          /\ output'[m] \in [Made(m)' -> Outputs]
    BY ActsFacts
  <2>2. Made(m) \subseteq Made(m)'
    BY <2>1 DEF Made, ChatType
  <2>3. QED
    BY <2>1, <2>2
<1>3. /\ DOMAIN tool' = Turns /\ DOMAIN at' = Turns /\ DOMAIN body' = Turns
      /\ DOMAIN told' = Turns /\ DOMAIN output' = Turns
  BY DEF Acts, ActsWith, ChatType
<1>4. \A k \in Turns : k # m => Made(k)' = Made(k)
  BY <1>1 DEF Made, SameTurn
<1>5. ASSUME NEW k \in Turns
      PROVE  /\ tool'[k] \in [Made(k)' -> Tools] /\ at'[k] \in [Made(k)' -> Places]
             /\ body'[k] \in [Made(k)' -> SUBSET Made(k)'] /\ told'[k] \in [Made(k)' -> SUBSET Made(k)']
             /\ output'[k] \in [Made(k)' -> Outputs]
             /\ fetched'[k] \subseteq Made(k)'
  <2>1. CASE k = m
    BY <1>1, <1>2, <2>1 DEF ChatType, outcome
  <2>2. CASE k # m
    BY <1>1, <1>4, <2>2 DEF ChatType, SameTurn
  <2>3. QED
    BY <2>1, <2>2
<1>6. QED
  BY <1>1, <1>2, <1>3, <1>5 DEF ChatType, outcome, loop, outside

\* What the kinds of tools return of their own.
Results == Outputs \ {"none", "refused", "quarantined"}

\* A tool runs: what it returns, and what it leaves.
RunFacts(m, c, x) ==
  /\ x \in Results /\ (tool[m][c] = "fetch" => x \in {"data", "nothing"})
  /\ Moves(m, c, "asking", "ran") /\ output' = [output EXCEPT ![m][c] = x]
  /\ UNCHANGED <<body, told, outcome, emitted, loop>>
  /\ taken' \in {taken, taken \cup {<<m, c>>}} /\ captureLog' \in {captureLog, captureLog \cup {<<m, c>>}}
  /\ \/ log' = log /\ x \notin Deliveries
     \/ x \in Deliveries /\ log' = log \cup {<<m, c, x>>}
        /\ (x = "real" => taken' = taken \cup {<<m, c>>}) /\ (x = "simulated" => taken' = taken)
  /\ x \in {"executed", "unlogged"} => taken' = taken \cup {<<m, c>>}
  /\ x = "unreachable" => taken' = taken
  /\ x = "executed" => captureLog' = captureLog \cup {<<m, c>>}

LEMMA RunKinds ==
  ASSUME NEW m \in Turns, NEW c \in Calls, Fetches(m, c) \/ Sends(m, c) \/ Posts(m, c)
  PROVE  \E x \in Results : RunFacts(m, c, x)
<1> USE DEF RunFacts, Results, Outputs, Deliveries, Returns, work
<1>1. CASE Fetches(m, c)
  BY <1>1 DEF Fetches, outside
<1>2. CASE Sends(m, c)
  <2>1. PICK d \in Sendings :
         /\ taken' = IF d.took THEN taken \cup {<<m, c>>} ELSE taken
         /\ \/ Returns(m, c, d.says) /\ log' = log \cup {<<m, c, d.says>>}
            \/ Returns(m, c, "raised") /\ UNCHANGED log
    BY <1>2 DEF Sends
  <2>2. UNCHANGED <<body, told, outcome, emitted, loop, captureLog>> /\ tool[m][c] = "email"
    BY <1>2 DEF Sends
  <2>3. /\ d.says \in Deliveries /\ d.took \in BOOLEAN
        /\ d.says = "real" => d.took
        /\ d.says = "simulated" => ~d.took
    BY <2>1 DEF Sendings
  <2>4. QED
    BY <2>1, <2>2, <2>3
<1>3. CASE Posts(m, c)
  BY <1>3 DEF Posts
<1>4. QED
  BY <1>1, <1>2, <1>3

\* The place of a call moves on, the other calls stay where they are.
LEMMA MoveFacts ==
  ASSUME ChatType, NEW m \in Turns, NEW c, NEW from, NEW to \in Places, Moves(m, c, from, to)
  PROVE  /\ c \in Made(m) /\ at[m][c] = from /\ at'[m][c] = to
         /\ DOMAIN at' = Turns /\ at'[m] \in [Made(m) -> Places]
         /\ \A d \in Made(m) : d # c => at'[m][d] = at[m][d]
  BY DEF Moves, ChatType

\* What a call is filled with was there already.
LEMMA FilledFacts ==
  ASSUME ChatType, NEW m \in Turns, NEW c \in Made(m), NEW filled \in Filled(m, c)
  PROVE  filled \subseteq body[m][c] \cup fetched[m] /\ filled \in SUBSET Made(m)
  BY DEF Filled, ChatType

\* The thread of call c of turn m asks /check.
LEMMA AskFacts ==
  ASSUME ChatType, NEW m \in Turns, NEW c \in Calls, Asks(m, c)
  PROVE  \E filled \in SUBSET Made(m) :
           /\ filled \subseteq body[m][c] \cup fetched[m]
           /\ Moves(m, c, "called", "asking")
           /\ body' = [body EXCEPT ![m][c] = filled] /\ told' = [told EXCEPT ![m][c] = filled]
           /\ DOMAIN body' = Turns /\ body'[m] \in [Made(m) -> SUBSET Made(m)]
           /\ DOMAIN told' = Turns /\ told'[m] \in [Made(m) -> SUBSET Made(m)]
           /\ body'[m][c] = filled /\ told'[m][c] = filled
           /\ \A d \in Made(m) : d # c => body'[m][d] = body[m][d] /\ told'[m][d] = told[m][d]
<1>1. PICK filled \in Filled(m, c) :
        body' = [body EXCEPT ![m][c] = filled] /\ told' = [told EXCEPT ![m][c] = filled]
  BY DEF Asks
<1>2. Moves(m, c, "called", "asking") /\ c \in Made(m)
  BY DEF Asks, Moves
<1>3. filled \subseteq body[m][c] \cup fetched[m] /\ filled \in SUBSET Made(m)
  BY <1>2, FilledFacts
<1>4. body[m] \in [Made(m) -> SUBSET Made(m)] /\ told[m] \in [Made(m) -> SUBSET Made(m)]
      /\ DOMAIN body = Turns /\ DOMAIN told = Turns
  BY DEF ChatType
<1>5. /\ DOMAIN body' = Turns /\ body'[m] \in [Made(m) -> SUBSET Made(m)] /\ body'[m][c] = filled
      /\ \A d \in Made(m) : d # c => body'[m][d] = body[m][d]
  BY <1>1, <1>2, <1>3, <1>4
<1>6. /\ DOMAIN told' = Turns /\ told'[m] \in [Made(m) -> SUBSET Made(m)] /\ told'[m][c] = filled
      /\ \A d \in Made(m) : d # c => told'[m][d] = told[m][d]
  BY <1>1, <1>2, <1>3, <1>4
<1>7. QED
  BY <1>1, <1>2, <1>3, <1>5, <1>6

\* What comes back of a call: a refusal, or what the post hook left of the
\* output, which the turn remembers.
BackFacts(m, c, x) ==
  /\ x \in Outputs /\ x # "none" /\ output' = [output EXCEPT ![m][c] = x]
  /\ \/ /\ x = "refused" /\ Moves(m, c, "asking", "back") /\ Emits(m, "tool_blocked")
        /\ blocked' = [blocked EXCEPT ![m] = TRUE] /\ UNCHANGED <<last, fetched>>
     \/ /\ x \in {output[m][c], "quarantined"} /\ Moves(m, c, "ran", "back") /\ Emits(m, "tool_result")
        /\ last' = [last EXCEPT ![m] = x] /\ UNCHANGED blocked
        /\ \E f \in SUBSET Made(m) : /\ fetched' = [fetched EXCEPT ![m] = f]
                                     /\ f \subseteq fetched[m] \/ (x = "data" /\ f = {c})
  /\ UNCHANGED <<body, told, outside>>

LEMMA BackKinds ==
  ASSUME ChatType, CallInv, NEW m \in Turns, NEW c \in Calls, IsRefused(m, c) \/ Reports(m, c)
  PROVE  \E x \in Outputs : BackFacts(m, c, x)
<1>1. CASE IsRefused(m, c)
  BY <1>1 DEF IsRefused, BackFacts, Outputs
<1>2. CASE Reports(m, c)
  <2>1. PICK x \in Scanned(m, c) :
          /\ output' = [output EXCEPT ![m][c] = x] /\ last' = [last EXCEPT ![m] = x]
          /\ \E f \in Remembered(m, c, x) : fetched' = [fetched EXCEPT ![m] = f]
    BY <1>2 DEF Reports
  <2>2. PICK f \in Remembered(m, c, x) : fetched' = [fetched EXCEPT ![m] = f]
    BY <2>1
  <2>3. /\ Moves(m, c, "ran", "back") /\ Emits(m, "tool_result")
        /\ UNCHANGED <<body, told, blocked, outside>>
    BY <1>2 DEF Reports
  <2>4. c \in Made(m) /\ at[m][c] = "ran"
    BY <2>3 DEF Moves
  <2>5. x \in {output[m][c], "quarantined"}
    BY <2>1 DEF Scanned
  <2>6. /\ output[m][c] \in Outputs /\ output[m][c] # "none"
        /\ tool[m][c] = "fetch" => output[m][c] \in {"data", "nothing"}
    <3>1. output[m][c] \in Outputs
      BY <2>4 DEF ChatType
    <3>2. /\ output[m][c] # "none"
          /\ tool[m][c] = "fetch" => output[m][c] \in {"data", "nothing"}
      BY <2>4 DEF CallInv
    <3>3. QED
      BY <3>1, <3>2
  <2>7. x \in Outputs /\ x # "none"
    BY <2>5, <2>6 DEF Outputs
  <2>8. f \in SUBSET Made(m) /\ (f \subseteq fetched[m] \/ (x = "data" /\ f = {c}))
    <3>1. fetched[m] \subseteq Made(m)
      BY DEF ChatType
    <3>2. CASE tool[m][c] # "fetch"
      BY <2>2, <3>1, <3>2 DEF Remembered
    <3>3. CASE x = "data"
      BY <2>2, <2>4, <3>1, <3>3 DEF Remembered
    <3>4. CASE tool[m][c] = "fetch" /\ x \in {"nothing", "quarantined"}
      BY <2>2, <3>1, <3>4 DEF Remembered
    <3>5. QED
      BY <2>5, <2>6, <3>2, <3>3, <3>4
  <2>9. QED
    BY <2>1, <2>2, <2>3, <2>5, <2>7, <2>8 DEF BackFacts
<1>3. QED
  BY <1>1, <1>2

LEMMA ThreadKinds ==
  ASSUME ChatType, CallInv, NEW m \in Turns, NEW c \in Calls, Thread(m, c)
  PROVE  \/ Asks(m, c)
         \/ \E x \in Results : RunFacts(m, c, x)
         \/ \E x \in Outputs : BackFacts(m, c, x)
  BY RunKinds, BackKinds DEF Thread

\* What is kept of an output, in both kinds of steps that set one.
LEMMA OutputFacts ==
  ASSUME ChatType, NEW m \in Turns, NEW c \in Made(m), NEW x \in Outputs,
         output' = [output EXCEPT ![m][c] = x]
  PROVE  /\ DOMAIN output' = Turns /\ output'[m] \in [Made(m) -> Outputs] /\ output'[m][c] = x
         /\ \A d \in Made(m) : d # c => output'[m][d] = output[m][d]
<1>1. output[m] \in [Made(m) -> Outputs] /\ DOMAIN output = Turns
  BY DEF ChatType
<1>2. QED
  BY <1>1

LEMMA TypeThread ==
  ASSUME ChatType, CallInv, NEW m \in Turns, NEW c \in Calls, Thread(m, c)
  PROVE  ChatType'
<1>1. /\ \A k \in Turns : k # m => SameTurn(k)
      /\ UNCHANGED <<smtp, guard, pc, calls, since, tokens, tool>>
  BY ThreadFrame DEF model
<1>2. /\ body[m] \in [Made(m) -> SUBSET Made(m)] /\ told[m] \in [Made(m) -> SUBSET Made(m)]
      /\ output[m] \in [Made(m) -> Outputs] /\ fetched \in [Turns -> SUBSET Nat] /\ fetched[m] \subseteq Made(m)
      /\ DOMAIN at = Turns /\ DOMAIN body = Turns /\ DOMAIN told = Turns /\ DOMAIN output = Turns
      /\ Made(m) \subseteq Nat
  BY DEF ChatType, Made
<1>3. \E from : \E to \in Places : Moves(m, c, from, to)
  BY ThreadKinds DEF Asks, RunFacts, BackFacts, Places
<1>4. c \in Made(m) /\ DOMAIN at' = Turns /\ at'[m] \in [Made(m) -> Places]
  BY <1>3, MoveFacts
<1>5. ASSUME DOMAIN body' = Turns, DOMAIN told' = Turns, DOMAIN output' = Turns,
             output'[m] \in [Made(m) -> Outputs],
             body'[m] \in [Made(m) -> SUBSET Made(m)], told'[m] \in [Made(m) -> SUBSET Made(m)],
             fetched' \in [Turns -> SUBSET Nat], fetched'[m] \subseteq Made(m),
             blocked' \in [Turns -> BOOLEAN], last' \in [Turns -> Outputs],
             emitted' \in [Turns -> Seq(Events)], ready' \in [Turns -> Seq(Events)],
             queue' \in [Turns -> Seq(Events)], shown' \in [Turns -> Seq(Events)],
             stream' \in [Turns -> {"closed", "open", "done", "gone"}],
             taken' \in SUBSET (Turns \X Nat), captureLog' \in SUBSET (Turns \X Nat),
             log' \in SUBSET (Turns \X Nat \X Deliveries)
      PROVE  ChatType'
  <2>1. /\ calls' \in [Turns -> Nat] /\ since' \in [Turns -> Nat \ {0}] /\ tokens' \in [Turns -> Nat]
        /\ DOMAIN tool' = Turns
        /\ \A k \in Turns :
             /\ tool'[k] \in [1..calls'[k] -> Tools] /\ at'[k] \in [1..calls'[k] -> Places]
             /\ body'[k] \in [1..calls'[k] -> SUBSET (1..calls'[k])]
             /\ told'[k] \in [1..calls'[k] -> SUBSET (1..calls'[k])]
             /\ output'[k] \in [1..calls'[k] -> Outputs]
        /\ \A k \in Turns : fetched'[k] \subseteq 1..calls'[k]
    BY <1>1, <1>4, <1>5, CallTypes
  <2>2. smtp' = smtp /\ guard' = guard /\ pc' = pc
    BY <1>1
  <2>3. smtp \in BOOLEAN /\ guard \in [Turns -> BOOLEAN] /\ pc \in [Turns -> {"new", "thinking", "finally", "over"}]
    BY DEF ChatType
  <2>4. QED
    BY <1>4, <1>5, <2>1, <2>2, <2>3 DEF ChatType, Made
<1>6. CASE Asks(m, c)
  <2>1. UNCHANGED <<output, outcome, emitted, loop, outside>>
    BY <1>6 DEF Asks
  <2>2. /\ DOMAIN body' = Turns /\ body'[m] \in [Made(m) -> SUBSET Made(m)]
        /\ DOMAIN told' = Turns /\ told'[m] \in [Made(m) -> SUBSET Made(m)]
    BY <1>6, AskFacts
  <2>3. QED
    BY <1>2, <1>5, <2>1, <2>2 DEF ChatType, outcome, loop, outside
<1>7. ASSUME NEW x \in Results, RunFacts(m, c, x) PROVE ChatType'
  <2>1. x \in Outputs /\ output' = [output EXCEPT ![m][c] = x]
    BY <1>7 DEF RunFacts, Results
  <2>2. DOMAIN output' = Turns /\ output'[m] \in [Made(m) -> Outputs]
    BY <1>4, <2>1, OutputFacts
  <2>3. UNCHANGED <<body, told, outcome, emitted, loop>>
    BY <1>7 DEF RunFacts
  <2>4. /\ taken' \in SUBSET (Turns \X Nat) /\ captureLog' \in SUBSET (Turns \X Nat)
        /\ log' \in SUBSET (Turns \X Nat \X Deliveries)
    BY <1>2, <1>4, <1>7 DEF RunFacts, ChatType
  <2>5. QED
    BY <1>2, <1>5, <2>2, <2>3, <2>4 DEF ChatType, outcome, loop
<1>8. ASSUME NEW x \in Outputs, BackFacts(m, c, x) PROVE ChatType'
  <2>1. output' = [output EXCEPT ![m][c] = x] /\ UNCHANGED <<body, told, outside>>
    BY <1>8 DEF BackFacts
  <2>2. DOMAIN output' = Turns /\ output'[m] \in [Made(m) -> Outputs]
    BY <1>4, <2>1, OutputFacts
  <2>3. \E e \in Events : Emits(m, e)
    BY <1>8 DEF BackFacts, Events
  <2>4. /\ emitted' \in [Turns -> Seq(Events)] /\ ready' \in [Turns -> Seq(Events)]
        /\ queue' \in [Turns -> Seq(Events)] /\ shown' \in [Turns -> Seq(Events)]
        /\ stream' \in [Turns -> {"closed", "open", "done", "gone"}]
    BY <2>3, EmitTypes
  <2>5. last' \in [Turns -> Outputs] /\ blocked' \in [Turns -> BOOLEAN]
    <3>1. last' = last \/ last' = [last EXCEPT ![m] = x]
      BY <1>8 DEF BackFacts
    <3>2. blocked' = blocked \/ blocked' = [blocked EXCEPT ![m] = TRUE]
      BY <1>8 DEF BackFacts
    <3>3. last' \in [Turns -> Outputs]
      BY <3>1 DEF ChatType
    <3>4. blocked' \in [Turns -> BOOLEAN]
      BY <3>2 DEF ChatType
    <3>5. QED
      BY <3>3, <3>4
  <2>6. fetched' \in [Turns -> SUBSET Nat] /\ fetched'[m] \subseteq Made(m)
    BY <1>2, <1>8 DEF BackFacts
  <2>7. QED
    BY <1>2, <1>5, <2>1, <2>2, <2>4, <2>5, <2>6 DEF ChatType, outside
<1>9. QED
  BY <1>6, <1>7, <1>8, ThreadKinds

LEMMA TypeNext == ChatInv /\ [Next]_vars => ChatType'
<1> SUFFICES ASSUME ChatInv, [Next]_vars PROVE ChatType'
  OBVIOUS
<1>1. ChatType /\ CallInv
  BY DEF ChatInv
<1>2. CASE Next
  BY <1>1, <1>2, NextKinds, TypeAgent, TypeActs, TypeThread, TypeLoop
<1>3. CASE UNCHANGED vars
  BY <1>1, <1>3 DEF ChatType, Made, vars, model, work, outcome, loop, outside
<1>4. QED
  BY <1>2, <1>3

-----------------------------------------------------------------------------
\* The part of CallInv about one turn.
CallsOf(m) ==
  /\ pc[m] # "thinking" => \A c \in Made(m) : at[m][c] = "back"
  /\ pc[m] = "new" => calls[m] = 0
  /\ calls[m] = 0 \/ since[m] <= calls[m]
  /\ AreData(m, fetched[m])
  /\ \A c \in Made(m) :
       /\ at[m][c] # "back" => since[m] <= c
       /\ at[m][c] \in {"called", "asking"} <=> output[m][c] = "none"
       /\ at[m][c] = "ran" => output[m][c] \notin {"refused", "quarantined"}
       /\ at[m][c] = "ran" /\ tool[m][c] = "fetch" => output[m][c] \in {"data", "nothing"}
       /\ at[m][c] # "called" => told[m][c] = body[m][c]
       /\ AreData(m, body[m][c])

\* Steps of other turns and of the loop do not touch it.
LEMMA CallsSame ==
  ASSUME NEW k \in Turns, CallsOf(k),
         pc'[k] = pc[k], calls'[k] = calls[k], since'[k] = since[k], tool'[k] = tool[k],
         at'[k] = at[k], body'[k] = body[k], told'[k] = told[k], output'[k] = output[k], fetched'[k] = fetched[k]
  PROVE  CallsOf(k)'
  BY DEF CallsOf, AreData, Made

LEMMA CallsAgent ==
  ASSUME ChatType, NEW m \in Turns, CallsOf(m), Agent(m)
  PROVE  CallsOf(m)'
<1>1. UNCHANGED <<calls, since, tool, at, body, told, output, fetched>>
  BY AgentFrame DEF work, outcome
<1>2. pc'[m] # "thinking" => (\A c \in Made(m) : at[m][c] = "back") \/ calls[m] = 0
  BY DEF Agent, Opens, Thinks, AnswersUser, Fails, Finally, Goes, Thinking, ChatType, CallsOf
<1>3. pc'[m] # "thinking" => \A c \in Made(m) : at[m][c] = "back"
  BY <1>2 DEF Made
<1>4. pc'[m] # "new"
  BY DEF Agent, Opens, Thinks, AnswersUser, Fails, Finally, Goes, Thinking, ChatType
<1>5. QED
  BY <1>1, <1>3, <1>4 DEF CallsOf, AreData, Made

LEMMA CallsActs ==
  ASSUME ChatType, NEW m \in Turns, CallsOf(m), Acts(m)
  PROVE  CallsOf(m)'
<1>1. PICK n \in Nat \ {0} :
        /\ Thinking(m) /\ calls'[m] = calls[m] + n /\ since'[m] = calls[m] + 1
        /\ tool'[m] \in [Made(m)' -> Tools]
        /\ \A c \in Made(m) : /\ at'[m][c] = at[m][c] /\ body'[m][c] = body[m][c]
                              /\ told'[m][c] = told[m][c] /\ output'[m][c] = output[m][c]
        /\ \A c \in Made(m)' : c \notin Made(m) =>
             /\ calls[m] < c /\ at'[m][c] = "called" /\ output'[m][c] = "none"
             /\ body'[m][c] \subseteq Known(m)
  BY ActsFacts
<1>2. pc' = pc /\ fetched' = fetched /\ pc[m] = "thinking" /\ calls[m] \in Nat
      /\ fetched[m] \subseteq Made(m) /\ \A c \in Made(m) : body[m][c] \subseteq Made(m)
  BY <1>1, ActsFrame DEF outcome, Thinking, ChatType
<1>3. \A c \in Made(m) : at[m][c] = "back"
  BY <1>1 DEF Thinking
<1>4. ASSUME NEW fs, fs \subseteq Made(m), AreData(m, fs) PROVE AreData(m, fs)'
  BY <1>1, <1>4 DEF AreData
<1>5. AreData(m, Known(m)) /\ Known(m) \subseteq Made(m)
  BY <1>3 DEF AreData, Known
<1>6. AreData(m, fetched[m])'
  BY <1>2, <1>4 DEF CallsOf, AreData
<1>7. ASSUME NEW c \in Made(m)' PROVE AreData(m, body[m][c])'
  <2>1. body'[m][c] \subseteq Made(m) /\ AreData(m, body'[m][c])
    BY <1>1, <1>2, <1>5, <1>7 DEF CallsOf, AreData
  <2>2. QED
    BY <1>4, <2>1 DEF AreData
<1>8. ASSUME NEW c \in Made(m)'
      PROVE  /\ at'[m][c] # "back" => since'[m] <= c
             /\ at'[m][c] \in {"called", "asking"} <=> output'[m][c] = "none"
             /\ at'[m][c] \in {"called", "back"}
             /\ at'[m][c] # "called" => told'[m][c] = body'[m][c]
  <2>1. CASE c \in Made(m)
    BY <1>1, <1>3, <2>1 DEF CallsOf
  <2>2. CASE c \notin Made(m)
    BY <1>1, <1>2, <1>8, <2>2 DEF Made
  <2>3. QED
    BY <2>1, <2>2
<1>9. since'[m] <= calls'[m]
  BY <1>1, <1>2
<1>10. QED
  BY <1>2, <1>6, <1>7, <1>8, <1>9 DEF CallsOf

\* A step of a call turns what the agent was given into nothing else.
LEMMA CallsThread ==
  ASSUME ChatType, CallInv, NEW m \in Turns, NEW c \in Calls, Thread(m, c)
  PROVE  CallsOf(m)'
<1>1. /\ pc' = pc /\ calls' = calls /\ since' = since /\ tool' = tool /\ Made(m)' = Made(m)
  BY ThreadFrame DEF model, Made
<1>2. CallsOf(m)
  BY DEF CallInv, CallsOf
<1>3. ASSUME NEW from, NEW to \in Places, Moves(m, c, from, to)
      PROVE  /\ c \in Made(m) /\ at[m][c] = from /\ at'[m][c] = to
             /\ since[m] <= c \/ from = "back"
             /\ pc[m] = "thinking" \/ from = "back"
             /\ \A d \in Made(m) : d # c => at'[m][d] = at[m][d]
  <2>1. /\ c \in Made(m) /\ at[m][c] = from /\ at'[m][c] = to
        /\ \A d \in Made(m) : d # c => at'[m][d] = at[m][d]
    BY <1>3, MoveFacts
  <2>2. QED
    BY <1>2, <2>1 DEF CallsOf
<1>4. CASE Asks(m, c)
  <2>1. PICK filled \in SUBSET Made(m) :
          /\ filled \subseteq body[m][c] \cup fetched[m] /\ Moves(m, c, "called", "asking")
          /\ body'[m][c] = filled /\ told'[m][c] = filled
          /\ \A d \in Made(m) : d # c => body'[m][d] = body[m][d] /\ told'[m][d] = told[m][d]
    BY <1>4, AskFacts
  <2>2. output' = output /\ fetched' = fetched
    BY <1>4 DEF Asks, outcome
  <2>3. /\ c \in Made(m) /\ at[m][c] = "called" /\ at'[m][c] = "asking" /\ since[m] <= c
        /\ pc[m] = "thinking" /\ \A d \in Made(m) : d # c => at'[m][d] = at[m][d]
    BY <1>3, <2>1 DEF Places
  <2>4. ASSUME NEW fs, fs \subseteq Made(m), AreData(m, fs) PROVE AreData(m, fs)'
    BY <2>2, <2>3, <2>4 DEF AreData
  <2>5. AreData(m, fetched[m]) /\ fetched[m] \subseteq Made(m)
        /\ \A d \in Made(m) : AreData(m, body[m][d]) /\ body[m][d] \subseteq Made(m)
    BY <1>2 DEF CallsOf, ChatType
  <2>6. AreData(m, fetched[m])'
    BY <2>2, <2>4, <2>5 DEF AreData
  <2>7. ASSUME NEW d \in Made(m) PROVE AreData(m, body[m][d])'
    <3>1. body'[m][d] \subseteq Made(m) /\ AreData(m, body'[m][d])
      BY <2>1, <2>5, <2>7 DEF AreData
    <3>2. QED
      BY <2>4, <3>1 DEF AreData
  <2>8. QED
    BY <1>1, <1>2, <2>1, <2>2, <2>3, <2>6, <2>7 DEF CallsOf
<1>5. ASSUME NEW x \in Results, RunFacts(m, c, x) PROVE CallsOf(m)'
  <2>1. body' = body /\ told' = told /\ fetched' = fetched /\ output' = [output EXCEPT ![m][c] = x]
        /\ Moves(m, c, "asking", "ran") /\ (tool[m][c] = "fetch" => x \in {"data", "nothing"})
    BY <1>5 DEF RunFacts, outcome
  <2>2. /\ c \in Made(m) /\ at[m][c] = "asking" /\ at'[m][c] = "ran" /\ since[m] <= c
        /\ pc[m] = "thinking" /\ \A d \in Made(m) : d # c => at'[m][d] = at[m][d]
    BY <1>3, <2>1 DEF Places
  <2>3. output'[m][c] = x /\ \A d \in Made(m) : d # c => output'[m][d] = output[m][d]
    BY <2>1, <2>2, OutputFacts DEF Results
  <2>4. ASSUME NEW fs, fs \subseteq Made(m), AreData(m, fs) PROVE AreData(m, fs)'
    BY <2>2, <2>3, <2>4 DEF AreData
  <2>5. AreData(m, fetched[m]) /\ fetched[m] \subseteq Made(m)
        /\ \A d \in Made(m) : AreData(m, body[m][d]) /\ body[m][d] \subseteq Made(m)
    BY <1>2 DEF CallsOf, ChatType
  <2>6. AreData(m, fetched[m])' /\ \A d \in Made(m) : AreData(m, body[m][d])'
    BY <2>1, <2>4, <2>5 DEF AreData
  <2>7. x \notin {"none", "refused", "quarantined"}
    BY DEF Results
  <2>8. QED
    BY <1>1, <1>2, <2>1, <2>2, <2>3, <2>6, <2>7 DEF CallsOf
<1>6. ASSUME NEW x \in Outputs, BackFacts(m, c, x) PROVE CallsOf(m)'
  <2>1. body' = body /\ told' = told /\ output' = [output EXCEPT ![m][c] = x] /\ x # "none"
        /\ \E from \in {"asking", "ran"} : Moves(m, c, from, "back")
    BY <1>6 DEF BackFacts
  <2>2. /\ c \in Made(m) /\ at[m][c] \in {"asking", "ran"} /\ at'[m][c] = "back"
        /\ pc[m] = "thinking" /\ \A d \in Made(m) : d # c => at'[m][d] = at[m][d]
    BY <1>3, <2>1 DEF Places
  <2>3. output'[m][c] = x /\ \A d \in Made(m) : d # c => output'[m][d] = output[m][d]
    BY <2>1, <2>2, OutputFacts
  <2>4. ASSUME NEW fs, fs \subseteq Made(m), AreData(m, fs) PROVE AreData(m, fs)'
    BY <2>2, <2>3, <2>4 DEF AreData
  <2>5. AreData(m, fetched[m]) /\ fetched[m] \subseteq Made(m)
        /\ \A d \in Made(m) : AreData(m, body[m][d]) /\ body[m][d] \subseteq Made(m)
    BY <1>2 DEF CallsOf, ChatType
  <2>6. \A d \in Made(m) : AreData(m, body[m][d])'
    BY <2>1, <2>4, <2>5 DEF AreData
  <2>7. AreData(m, fetched[m])'
    <3>1. fetched'[m] \subseteq fetched[m] \/ (x = "data" /\ fetched'[m] = {c})
      BY <1>6 DEF BackFacts, ChatType
    <3>2. QED
      BY <2>2, <2>3, <2>4, <2>5, <3>1 DEF AreData
  <2>8. QED
    BY <1>1, <1>2, <2>1, <2>2, <2>3, <2>6, <2>7 DEF CallsOf
<1>7. QED
  BY <1>4, <1>5, <1>6, ThreadKinds

LEMMA CallsNext == ChatInv /\ [Next]_vars => CallInv'
<1> SUFFICES ASSUME ChatInv, [Next]_vars PROVE CallInv'
  OBVIOUS
<1>1. ChatType /\ CallInv /\ \A k \in Turns : CallsOf(k)
  BY DEF ChatInv, CallInv, CallsOf
<1>2. SUFFICES ASSUME NEW k \in Turns PROVE CallsOf(k)'
  BY DEF CallInv, CallsOf
<1>3. CASE Next
  <2>1. PICK m \in Turns : Agent(m) \/ Acts(m) \/ (\E c \in Calls : Thread(m, c)) \/ Loop(m)
    BY <1>3, NextKinds
  <2>2. CASE k # m
    <3>1. SameTurn(k)
      BY <1>1, <2>1, <2>2, AgentFrame, ActsFrame, ThreadFrame, LoopFrame
    <3>2. QED
      BY <1>1, <3>1, CallsSame DEF SameTurn
  <2>3. CASE k = m /\ Loop(m)
    <3>1. UNCHANGED <<pc, calls, since, tool, at, body, told, output, fetched>>
      BY <1>1, <2>3, LoopFrame DEF model, work, outcome
    <3>2. QED
      BY <1>1, <3>1, CallsSame
  <2>4. QED
    BY <1>1, <2>1, <2>2, <2>3, CallsAgent, CallsActs, CallsThread
<1>4. CASE UNCHANGED vars
  BY <1>1, <1>4, CallsSame DEF vars, model, work, outcome
<1>5. QED
  BY <1>3, <1>4

-----------------------------------------------------------------------------
\* What the calls of turn k returned is what it was, or of no delivery.
SameOutput(k) ==
  /\ \A c : Ran(k, c) => Ran(k, c)'
  /\ \A c \in Made(k)' : \/ c \in Made(k) /\ output'[k][c] = output[k][c]
                         \/ output'[k][c] \in {"none", "refused", "quarantined"}

LEMMA LogSame ==
  ASSUME ChatType, LogInv, UNCHANGED outside, \A k \in Turns : SameOutput(k)
  PROVE  LogInv'
<1>1. taken' = taken /\ log' = log /\ captureLog' = captureLog
  BY DEF outside
<1>2. \A e \in taken \cup captureLog : e[1] \in Turns /\ Ran(e[1], e[2])
  BY DEF LogInv, ChatType
<1>3. \A r \in log : r[1] \in Turns /\ Ran(r[1], r[2])
  BY DEF LogInv, ChatType
<1>4. \A e \in taken \cup captureLog : Ran(e[1], e[2])'
  BY <1>2 DEF SameOutput
<1>5. \A r \in log : Ran(r[1], r[2])'
  BY <1>3 DEF SameOutput
<1>6. ASSUME NEW k \in Turns, NEW c \in Made(k)'
      PROVE  /\ output'[k][c] \in Deliveries => <<k, c, output'[k][c]>> \in log
             /\ output'[k][c] \in {"executed", "unlogged"} => <<k, c>> \in taken
             /\ output'[k][c] = "unreachable" => <<k, c>> \notin taken
             /\ output'[k][c] = "executed" => <<k, c>> \in captureLog
  <2>1. \/ c \in Made(k) /\ output'[k][c] = output[k][c]
        \/ output'[k][c] \in {"none", "refused", "quarantined"}
    BY <1>6 DEF SameOutput
  <2>2. CASE c \in Made(k) /\ output'[k][c] = output[k][c]
    BY <2>2 DEF LogInv, LogsAreTrue
  <2>3. QED
    BY <2>1, <2>2 DEF Deliveries
<1>7. \A r \in log : (r[3] = "real" => <<r[1], r[2]>> \in taken)
                     /\ (r[3] = "simulated" => <<r[1], r[2]>> \notin taken)
  BY DEF LogInv, LogsAreTrue
<1>8. LogsAreTrue'
  BY <1>1, <1>6, <1>7 DEF LogsAreTrue
<1>9. QED
  BY <1>1, <1>4, <1>5, <1>6, <1>8 DEF LogInv

\* A tool runs: nothing was on record of it before.
LEMMA LogRun ==
  ASSUME ChatType, CallInv, LogInv, NEW m \in Turns, NEW c \in Calls, Thread(m, c),
         NEW x \in Results, RunFacts(m, c, x)
  PROVE  LogInv'
<1>1. /\ c \in Made(m) /\ at[m][c] = "asking" /\ at'[m][c] = "ran"
      /\ \A d \in Made(m) : d # c => at'[m][d] = at[m][d]
  BY MoveFacts DEF RunFacts, Places
<1>2. output'[m][c] = x /\ \A d \in Made(m) : d # c => output'[m][d] = output[m][d]
  BY <1>1, OutputFacts DEF Results, RunFacts
<1>3. calls' = calls /\ \A k \in Turns : k # m => at'[k] = at[k] /\ output'[k] = output[k]
  BY ThreadFrame DEF model, SameTurn
<1>4. \A k \in Turns : Made(k)' = Made(k)
  BY <1>3 DEF Made
<1>5. ~Ran(m, c) /\ Ran(m, c)'
  BY <1>1, <1>4 DEF Ran
<1>6. \A k \in Turns : \A d : Ran(k, d) => Ran(k, d)'
  BY <1>1, <1>3, <1>4 DEF Ran
<1>7. <<m, c>> \notin taken /\ <<m, c>> \notin captureLog
  BY <1>5 DEF LogInv
<1>8. \A r \in log : <<r[1], r[2]>> # <<m, c>>
  BY <1>5 DEF LogInv
<1>9. /\ \A e \in taken \cup captureLog : e[1] \in Turns /\ Ran(e[1], e[2])
      /\ \A r \in log : r[1] \in Turns /\ Ran(r[1], r[2])
  BY DEF LogInv, ChatType
<1>10. /\ taken' \in {taken, taken \cup {<<m, c>>}} /\ captureLog' \in {captureLog, captureLog \cup {<<m, c>>}}
       /\ log' = log \/ (log' = log \cup {<<m, c, x>>} /\ (x = "real" => taken' = taken \cup {<<m, c>>})
                           /\ (x = "simulated" => taken' = taken))
       /\ x \in Deliveries => log' = log \cup {<<m, c, x>>}
       /\ x \in {"executed", "unlogged"} => taken' = taken \cup {<<m, c>>}
       /\ x = "unreachable" => taken' = taken
       /\ x = "executed" => captureLog' = captureLog \cup {<<m, c>>}
  BY DEF RunFacts
<1>11. \A e \in taken' \cup captureLog' : Ran(e[1], e[2])'
  <2>1. ASSUME NEW e \in taken' \cup captureLog' PROVE e \in taken \cup captureLog \/ e = <<m, c>>
    BY <1>10
  <2>2. QED
    BY <1>5, <1>6, <1>9, <2>1
<1>12. \A r \in log' : Ran(r[1], r[2])'
  <2>1. ASSUME NEW r \in log' PROVE r \in log \/ r = <<m, c, x>>
    BY <1>10
  <2>2. QED
    BY <1>5, <1>6, <1>9, <2>1
<1>13. ASSUME NEW k \in Turns, NEW d \in Made(k)'
       PROVE  /\ output'[k][d] \in Deliveries => <<k, d, output'[k][d]>> \in log'
              /\ output'[k][d] \in {"executed", "unlogged"} => <<k, d>> \in taken'
              /\ output'[k][d] = "unreachable" => <<k, d>> \notin taken'
              /\ output'[k][d] = "executed" => <<k, d>> \in captureLog'
  <2>1. CASE k = m /\ d = c
    BY <1>2, <1>7, <1>10, <2>1
  <2>2. CASE ~(k = m /\ d = c)
    <3>1. d \in Made(k) /\ output'[k][d] = output[k][d] /\ <<k, d>> # <<m, c>>
      BY <1>2, <1>3, <1>4, <1>13, <2>2
    <3>2. /\ output[k][d] \in Deliveries => <<k, d, output[k][d]>> \in log
          /\ output[k][d] \in {"executed", "unlogged"} => <<k, d>> \in taken
          /\ output[k][d] = "unreachable" => <<k, d>> \notin taken
          /\ output[k][d] = "executed" => <<k, d>> \in captureLog
      BY <3>1 DEF LogInv, LogsAreTrue
    <3>3. QED
      BY <1>10, <3>1, <3>2
  <2>3. QED
    BY <2>1, <2>2
<1>14. ASSUME NEW r \in log'
       PROVE  (r[3] = "real" => <<r[1], r[2]>> \in taken') /\ (r[3] = "simulated" => <<r[1], r[2]>> \notin taken')
  <2>1. CASE r \in log
    <3>1. (r[3] = "real" => <<r[1], r[2]>> \in taken) /\ (r[3] = "simulated" => <<r[1], r[2]>> \notin taken)
      BY <2>1 DEF LogInv, LogsAreTrue
    <3>2. QED
      BY <1>8, <1>10, <2>1, <3>1
  <2>2. CASE r \notin log
    <3>1. r = <<m, c, x>> /\ (x = "real" => taken' = taken \cup {<<m, c>>}) /\ (x = "simulated" => taken' = taken)
      BY <1>10, <1>14, <2>2
    <3>2. QED
      BY <1>7, <3>1
  <2>3. QED
    BY <2>1, <2>2
<1>15. LogsAreTrue'
  BY <1>13, <1>14 DEF LogsAreTrue
<1>16. QED
  BY <1>11, <1>12, <1>13, <1>15 DEF LogInv

LEMMA LogNext == ChatInv /\ [Next]_vars => LogInv'
<1> SUFFICES ASSUME ChatInv, [Next]_vars PROVE LogInv'
  OBVIOUS
<1>1. ChatType /\ CallInv /\ LogInv
  BY DEF ChatInv
<1>2. ASSUME NEW k \in Turns, calls'[k] = calls[k], at'[k] = at[k], output'[k] = output[k]
      PROVE  SameOutput(k)
  BY <1>2 DEF SameOutput, Ran, Made
<1>3. CASE Next
  <2>1. PICK m \in Turns : Agent(m) \/ Acts(m) \/ (\E c \in Calls : Thread(m, c)) \/ Loop(m)
    BY <1>3, NextKinds
  <2>2. ASSUME NEW k \in Turns, k # m PROVE SameOutput(k)
    <3>1. SameTurn(k)
      BY <1>1, <2>1, <2>2, AgentFrame, ActsFrame, ThreadFrame, LoopFrame
    <3>2. QED
      BY <1>2, <3>1 DEF SameTurn
  <2>3. CASE Agent(m) \/ Loop(m)
    <3>1. UNCHANGED <<calls, at, output, outside>>
      BY <1>1, <2>3, AgentFrame, LoopFrame DEF model, work
    <3>2. QED
      BY <1>1, <1>2, <3>1, LogSame
  <2>4. CASE Acts(m)
    <3>1. UNCHANGED outside
      BY <1>1, <2>4, ActsFrame
    <3>2. PICK n \in Nat \ {0} :
            /\ calls'[m] = calls[m] + n
            /\ \A c \in Made(m) : at'[m][c] = at[m][c] /\ output'[m][c] = output[m][c]
            /\ \A c \in Made(m)' : c \notin Made(m) => output'[m][c] = "none"
      BY <1>1, <2>4, ActsFacts
    <3>3. \A c \in Made(m) : c \in Made(m)'
      BY <1>1, <3>2 DEF Made, ChatType
    <3>4. SameOutput(m)
      BY <3>2, <3>3 DEF SameOutput, Ran
    <3>5. QED
      BY <1>1, <2>2, <3>1, <3>4, LogSame
  <2>5. ASSUME NEW c \in Calls, Thread(m, c) PROVE LogInv'
    <3>1. calls' = calls /\ Made(m)' = Made(m)
      BY <1>1, <2>5, ThreadFrame DEF model, Made
    <3>2. CASE Asks(m, c)
      <4>1. UNCHANGED <<output, outside>> /\ Moves(m, c, "called", "asking")
        BY <3>2, <1>1, AskFacts DEF Asks
      <4>2. at[m][c] = "called" /\ \A d \in Made(m) : d # c => at'[m][d] = at[m][d]
        BY <1>1, <4>1, MoveFacts DEF Places
      <4>3. SameOutput(m)
        BY <3>1, <4>1, <4>2 DEF SameOutput, Ran
      <4>4. QED
        BY <1>1, <2>2, <4>1, <4>3, LogSame
    <3>3. ASSUME NEW x \in Results, RunFacts(m, c, x) PROVE LogInv'
      BY <1>1, <2>5, <3>3, LogRun
    <3>4. ASSUME NEW x \in Outputs, BackFacts(m, c, x) PROVE LogInv'
      <4>1. UNCHANGED outside /\ output' = [output EXCEPT ![m][c] = x] /\ x \in {output[m][c], "refused", "quarantined"}
            /\ \E from : Moves(m, c, from, "back")
        BY <3>4 DEF BackFacts
      <4>2. c \in Made(m) /\ at'[m][c] = "back" /\ \A d \in Made(m) : d # c => at'[m][d] = at[m][d]
        BY <1>1, <4>1, MoveFacts DEF Places
      <4>3. output'[m][c] = x /\ \A d \in Made(m) : d # c => output'[m][d] = output[m][d]
        BY <1>1, <4>1, <4>2, OutputFacts
      <4>4. SameOutput(m)
        BY <3>1, <4>1, <4>2, <4>3 DEF SameOutput, Ran
      <4>5. QED
        BY <1>1, <2>2, <4>1, <4>4, LogSame
    <3>5. QED
      BY <1>1, <2>5, <3>2, <3>3, <3>4, ThreadKinds
  <2>6. QED
    BY <2>1, <2>3, <2>4, <2>5
<1>4. CASE UNCHANGED vars
  <2>1. UNCHANGED <<calls, at, output, outside>>
    BY <1>4 DEF vars, model, work
  <2>2. QED
    BY <1>1, <1>2, <2>1, LogSame
<1>5. QED
  BY <1>3, <1>4

-----------------------------------------------------------------------------
\* The part of GroundInv about one turn.
GroundOf(m) ==
  /\ blocked[m] <=> \E c \in Made(m) : output[m][c] = "refused"
  /\ last[m] \in Deliveries =>
       /\ calls[m] # 0
       /\ \/ Delivered(m, last[m])
          \/ \A c \in since[m]..calls[m] : at[m][c] = "back" => output[m][c] = "refused"
  /\ pc[m] \in {"finally", "over"} =>
       /\ Says(m) \in Deliveries => ~blocked[m] /\ Delivered(m, Says(m))
       /\ Says(m) = "blocked" => blocked[m]

\* Steps of other turns and of the loop add to the log at most.
LEMMA GroundSame ==
  ASSUME NEW k \in Turns, GroundOf(k), log \subseteq log',
         pc'[k] = pc[k], calls'[k] = calls[k], since'[k] = since[k], at'[k] = at[k], output'[k] = output[k],
         blocked'[k] = blocked[k], last'[k] = last[k], emitted'[k] = emitted[k]
  PROVE  GroundOf(k)'
<1>1. Says(k)' = Says(k) /\ Made(k)' = Made(k)
  BY DEF Says, Made
<1>2. \A d : Delivered(k, d) => Delivered(k, d)'
  BY DEF Delivered
<1>3. QED
  BY <1>1, <1>2 DEF GroundOf

LEMMA LogGrows ==
  ASSUME ChatType, CallInv, NEW m \in Turns,
         Agent(m) \/ Acts(m) \/ (\E c \in Calls : Thread(m, c)) \/ Loop(m)
  PROVE  log \subseteq log'
<1>1. CASE Agent(m) \/ Acts(m) \/ Loop(m)
  BY <1>1, AgentFrame, ActsFrame, LoopFrame DEF outside
<1>2. ASSUME NEW c \in Calls, Thread(m, c) PROVE log \subseteq log'
  BY <1>2, ThreadKinds DEF Asks, RunFacts, BackFacts, outside
<1>3. QED
  BY <1>1, <1>2

\* The answer is grounded in what the turn remembers; then "done" follows it.
LEMMA GroundAgent ==
  ASSUME ChatType, CallInv, StreamInv, NEW m \in Turns, GroundOf(m), Agent(m)
  PROVE  GroundOf(m)'
<1>1. UNCHANGED <<calls, since, at, output, blocked, last, log>>
  BY AgentFrame DEF work, outcome, outside
<1>2. Made(m)' = Made(m) /\ \A d : Delivered(m, d)' <=> Delivered(m, d)
  BY <1>1 DEF Made, Delivered
<1>3. emitted[m] \in Seq(Events) /\ DOMAIN emitted = Turns /\ DOMAIN pc = Turns
  BY DEF ChatType
<1>4. ASSUME pc'[m] \in {"finally", "over"}
      PROVE  /\ Says(m)' \in Deliveries => ~blocked[m] /\ Delivered(m, Says(m)')
             /\ Says(m)' = "blocked" => blocked[m]
  <2>1. CASE Opens(m) \/ Thinks(m)
    BY <1>3, <1>4, <2>1 DEF Opens, Thinks, Goes, Thinking
  <2>2. CASE AnswersUser(m)
    <3>1. pc'[m] = "finally" /\ emitted'[m] = Append(emitted[m], GroundedAnswer(m)) /\ Thinking(m)
      BY <1>3, <2>2 DEF AnswersUser, Goes, Emits
    <3>2. Says(m)' = GroundedAnswer(m)
      BY <1>3, <3>1 DEF Says
    <3>3. ASSUME ~blocked[m], last[m] \in Deliveries PROVE Delivered(m, last[m])
      <4>1. calls[m] \in Nat /\ since[m] \in Nat \ {0} /\ calls[m] # 0
        BY <3>3 DEF ChatType, GroundOf
      <4>2. calls[m] \in Made(m) /\ calls[m] \in since[m]..calls[m]
        BY <4>1 DEF CallInv, Made
      <4>3. at[m][calls[m]] = "back" /\ output[m][calls[m]] # "refused"
        BY <3>1, <3>3, <4>2 DEF Thinking, GroundOf
      <4>4. QED
        BY <3>3, <4>2, <4>3 DEF GroundOf
    <3>4. CASE blocked[m]
      BY <3>2, <3>4 DEF GroundedAnswer, Deliveries
    <3>5. CASE ~blocked[m] /\ last[m] \in Deliveries
      BY <3>2, <3>3, <3>5 DEF GroundedAnswer, Deliveries
    <3>6. CASE ~blocked[m] /\ last[m] \notin Deliveries
      BY <3>2, <3>6 DEF GroundedAnswer, Deliveries
    <3>7. QED
      BY <3>4, <3>5, <3>6
  <2>3. CASE Fails(m)
    <3>1. pc'[m] = "finally" /\ emitted'[m] = Append(emitted[m], "error")
      BY <1>3, <2>3 DEF Fails, Goes, Emits
    <3>2. "error" \in Events
      BY DEF Events
    <3>3. Says(m)' = "error"
      BY <1>3, <3>1, <3>2 DEF Says
    <3>4. QED
      BY <3>3 DEF Deliveries
  <2>4. CASE Finally(m)
    <3>1. pc[m] = "finally" /\ pc'[m] = "over" /\ emitted'[m] = Append(emitted[m], "done")
      BY <1>3, <2>4 DEF Finally, Goes, Emits
    <3>2. Len(emitted[m]) \in Nat \ {0} /\ "done" \in Events
      <4>1. Len(emitted[m]) \in Nat
        BY <1>3
      <4>2. Len(emitted[m]) >= 1
        BY <3>1 DEF StreamInv
      <4>3. QED
        BY <4>1, <4>2 DEF Events
    <3>3. Says(m)' = Says(m)
      BY <1>3, <3>1, <3>2 DEF Says
    <3>4. QED
      BY <3>1, <3>3 DEF GroundOf
  <2>5. QED
    BY <2>1, <2>2, <2>3, <2>4 DEF Agent
<1>5. QED
  BY <1>1, <1>2, <1>4 DEF GroundOf

\* The calls of a new message have not come back.
LEMMA GroundActs ==
  ASSUME ChatType, NEW m \in Turns, GroundOf(m), Acts(m)
  PROVE  GroundOf(m)'
<1>1. PICK n \in Nat \ {0} :
        /\ Thinking(m) /\ calls'[m] = calls[m] + n /\ since'[m] = calls[m] + 1
        /\ \A c \in Made(m) : output'[m][c] = output[m][c]
        /\ \A c \in Made(m)' : c \notin Made(m) => at'[m][c] = "called" /\ output'[m][c] = "none"
  BY ActsFacts
<1>2. pc' = pc /\ pc[m] = "thinking" /\ blocked' = blocked /\ last' = last /\ calls[m] \in Nat
  BY <1>1, ActsFrame DEF outcome, Thinking, ChatType
<1>3. /\ \A c \in Made(m) : c \in Made(m)'
      /\ \A c \in since'[m]..calls'[m] : c \in Made(m)' /\ c \notin Made(m)
      /\ calls'[m] # 0
  BY <1>1, <1>2 DEF Made
<1>4. (\E c \in Made(m)' : output'[m][c] = "refused") <=> \E c \in Made(m) : output[m][c] = "refused"
  BY <1>1, <1>3
<1>5. \A c \in since'[m]..calls'[m] : at'[m][c] # "back"
  BY <1>1, <1>3
<1>6. QED
  BY <1>2, <1>3, <1>4, <1>5 DEF GroundOf

\* A refusal sets "blocked", another result replaces "last".
LEMMA GroundThread ==
  ASSUME ChatType, CallInv, LogInv, NEW m \in Turns, GroundOf(m), NEW c \in Calls, Thread(m, c)
  PROVE  GroundOf(m)'
<1>1. pc' = pc /\ calls' = calls /\ since' = since /\ Made(m)' = Made(m)
  BY ThreadFrame DEF model, Made
<1>2. log \subseteq log'
  BY LogGrows
<1>3. \A d : Delivered(m, d) => Delivered(m, d)'
  BY <1>1, <1>2 DEF Delivered
<1>4. \A d \in since[m]..calls[m] : d \in Made(m)
  BY DEF Made, ChatType
<1>5. ASSUME NEW from, NEW to \in Places, from # "back", Moves(m, c, from, to)
      PROVE  /\ c \in Made(m) /\ at[m][c] = from /\ at'[m][c] = to /\ pc[m] = "thinking"
             /\ since[m] <= c
             /\ \A d \in Made(m) : d # c => at'[m][d] = at[m][d]
  <2>1. /\ c \in Made(m) /\ at[m][c] = from /\ at'[m][c] = to
        /\ \A d \in Made(m) : d # c => at'[m][d] = at[m][d]
    BY <1>5, MoveFacts
  <2>2. QED
    BY <1>5, <2>1 DEF CallInv
<1>6. ASSUME blocked' = blocked, last' = last, pc[m] = "thinking", c \in Made(m),
             at'[m][c] # "back", output[m][c] # "refused", output'[m][c] # "refused",
             \A d \in Made(m) : d # c => at'[m][d] = at[m][d] /\ output'[m][d] = output[m][d]
      PROVE  GroundOf(m)'
  <2>1. (\E d \in Made(m) : output'[m][d] = "refused") <=> \E d \in Made(m) : output[m][d] = "refused"
    BY <1>6
  <2>2. (\A d \in since[m]..calls[m] : at[m][d] = "back" => output[m][d] = "refused")
          => \A d \in since[m]..calls[m] : at'[m][d] = "back" => output'[m][d] = "refused"
    BY <1>4, <1>6
  <2>3. QED
    BY <1>1, <1>3, <1>6, <2>1, <2>2 DEF GroundOf
<1>7. CASE Asks(m, c)
  <2>1. UNCHANGED <<output, outcome>> /\ Moves(m, c, "called", "asking")
    BY <1>7 DEF Asks
  <2>2. /\ c \in Made(m) /\ at[m][c] = "called" /\ at'[m][c] = "asking" /\ pc[m] = "thinking"
        /\ \A d \in Made(m) : d # c => at'[m][d] = at[m][d]
    BY <1>5, <2>1 DEF Places
  <2>3. output[m][c] = "none"
    BY <2>2 DEF CallInv
  <2>4. QED
    BY <1>6, <2>1, <2>2, <2>3 DEF outcome
<1>8. ASSUME NEW x \in Results, RunFacts(m, c, x) PROVE GroundOf(m)'
  <2>1. /\ UNCHANGED outcome /\ output' = [output EXCEPT ![m][c] = x] /\ Moves(m, c, "asking", "ran")
        /\ x \in Outputs /\ x # "refused"
    BY <1>8 DEF RunFacts, Results
  <2>2. /\ c \in Made(m) /\ at[m][c] = "asking" /\ at'[m][c] = "ran" /\ pc[m] = "thinking"
        /\ \A d \in Made(m) : d # c => at'[m][d] = at[m][d]
    BY <1>5, <2>1 DEF Places
  <2>3. output[m][c] = "none"
    BY <2>2 DEF CallInv
  <2>4. output'[m][c] = x /\ \A d \in Made(m) : d # c => output'[m][d] = output[m][d]
    BY <2>1, <2>2, OutputFacts
  <2>5. QED
    BY <1>6, <2>1, <2>2, <2>3, <2>4 DEF outcome
<1>9. ASSUME NEW x \in Outputs, BackFacts(m, c, x) PROVE GroundOf(m)'
  <2>1. /\ output' = [output EXCEPT ![m][c] = x] /\ \E from \in {"asking", "ran"} : Moves(m, c, from, "back")
    BY <1>9 DEF BackFacts
  <2>2. /\ c \in Made(m) /\ at[m][c] \in {"asking", "ran"} /\ at'[m][c] = "back" /\ pc[m] = "thinking"
        /\ since[m] <= c /\ \A d \in Made(m) : d # c => at'[m][d] = at[m][d]
    BY <1>5, <2>1 DEF Places
  <2>3. output'[m][c] = x /\ \A d \in Made(m) : d # c => output'[m][d] = output[m][d]
    BY <2>1, <2>2, OutputFacts
  <2>4. CASE x = "refused"
    <3>1. blocked'[m] = TRUE /\ last'[m] = last[m]
      <4>1. output[m][c] # "refused"
        BY <2>2 DEF CallInv
      <4>2. blocked' = [blocked EXCEPT ![m] = TRUE] /\ last' = last
        BY <1>9, <2>4, <4>1 DEF BackFacts
      <4>3. QED
        BY <4>2 DEF ChatType
    <3>2. \E d \in Made(m) : output'[m][d] = "refused"
      BY <2>2, <2>3, <2>4
    <3>3. (\A d \in since[m]..calls[m] : at[m][d] = "back" => output[m][d] = "refused")
            => \A d \in since[m]..calls[m] : at'[m][d] = "back" => output'[m][d] = "refused"
      BY <1>4, <2>2, <2>3, <2>4
    <3>4. QED
      BY <1>1, <1>3, <2>2, <3>1, <3>2, <3>3 DEF GroundOf
  <2>5. CASE x # "refused"
    <3>1. /\ x \in {output[m][c], "quarantined"} /\ Moves(m, c, "ran", "back")
          /\ last' = [last EXCEPT ![m] = x] /\ UNCHANGED <<blocked, outside>>
      BY <1>9, <2>5 DEF BackFacts
    <3>2. output[m][c] # "refused"
      BY <2>2 DEF CallInv
    <3>3. (\E d \in Made(m) : output'[m][d] = "refused") <=> \E d \in Made(m) : output[m][d] = "refused"
      BY <2>3, <2>5, <3>2
    <3>4. last'[m] = x /\ blocked' = blocked /\ log' = log
      BY <3>1 DEF outside, ChatType
    <3>5. x \in Deliveries => <<m, c, x>> \in log /\ c \in since[m]..calls[m] /\ calls[m] # 0
      <4>1. x \in Deliveries => <<m, c, x>> \in log
        BY <2>2, <3>1 DEF LogInv, Deliveries
      <4>2. c \in since[m]..calls[m] /\ calls[m] # 0
        BY <2>2 DEF Made, ChatType
      <4>3. QED
        BY <4>1, <4>2
    <3>6. x \in Deliveries => Delivered(m, x)'
      BY <1>1, <3>4, <3>5 DEF Delivered
    <3>7. QED
      BY <1>1, <2>2, <3>3, <3>4, <3>5, <3>6 DEF GroundOf
  <2>6. QED
    BY <2>4, <2>5
<1>10. QED
  BY <1>7, <1>8, <1>9, ThreadKinds

LEMMA GroundNext == ChatInv /\ [Next]_vars => GroundInv'
<1> SUFFICES ASSUME ChatInv, [Next]_vars PROVE GroundInv'
  OBVIOUS
<1>1. ChatType /\ CallInv /\ LogInv /\ StreamInv /\ \A k \in Turns : GroundOf(k)
  BY DEF ChatInv, GroundInv, GroundOf
<1>2. SUFFICES ASSUME NEW k \in Turns PROVE GroundOf(k)'
  BY DEF GroundInv, GroundOf
<1>3. CASE Next
  <2>1. PICK m \in Turns : Agent(m) \/ Acts(m) \/ (\E c \in Calls : Thread(m, c)) \/ Loop(m)
    BY <1>3, NextKinds
  <2>2. log \subseteq log'
    BY <1>1, <2>1, LogGrows
  <2>3. CASE k # m
    <3>1. SameTurn(k)
      BY <1>1, <2>1, <2>3, AgentFrame, ActsFrame, ThreadFrame, LoopFrame
    <3>2. QED
      BY <1>1, <2>2, <3>1, GroundSame DEF SameTurn
  <2>4. CASE k = m /\ Loop(m)
    <3>1. UNCHANGED <<pc, calls, since, at, output, blocked, last, emitted>>
      BY <1>1, <2>4, LoopFrame DEF model, work, outcome
    <3>2. QED
      BY <1>1, <2>2, <3>1, GroundSame
  <2>5. QED
    BY <1>1, <2>1, <2>3, <2>4, GroundAgent, GroundActs, GroundThread
<1>4. CASE UNCHANGED vars
  BY <1>1, <1>4, GroundSame DEF vars, model, work, outcome, outside
<1>5. QED
  BY <1>3, <1>4

-----------------------------------------------------------------------------
\* The parts of StreamInv about one turn: the order of the events, and the end.
Told(m) ==
  IF stream[m] = "gone" THEN IsPrefix(shown[m], emitted[m])
  ELSE shown[m] \o queue[m] \o ready[m] = emitted[m]

EndOf(m) ==
  /\ stream[m] = "closed" <=> pc[m] = "new"
  /\ pc[m] = "new" => emitted[m] = <<>>
  /\ \A i \in DOMAIN emitted[m] : emitted[m][i] = "done" <=> pc[m] = "over" /\ i = Len(emitted[m])
  /\ pc[m] = "finally" => Len(emitted[m]) >= 1 /\ Says(m) \in Answers \cup {"error"}
  /\ pc[m] = "over" => Len(emitted[m]) >= 2 /\ Says(m) \in Answers \cup {"error"}
  /\ stream[m] = "done" => pc[m] = "over" /\ shown[m] = emitted[m]

StreamOf(m) == Told(m) /\ EndOf(m)

LEMMA StreamSame ==
  ASSUME NEW k \in Turns, StreamOf(k), pc'[k] = pc[k], emitted'[k] = emitted[k],
         ready'[k] = ready[k], queue'[k] = queue[k], shown'[k] = shown[k], stream'[k] = stream[k]
  PROVE  StreamOf(k)'
  BY DEF StreamOf, Told, EndOf, Says

\* An event is put behind the others.
LEMMA ToldEmits ==
  ASSUME ChatType, NEW m \in Turns, Told(m), NEW e \in Events, Emits(m, e)
  PROVE  Told(m)'
<1>1. PICK s \in Seq(Events), q \in Seq(Events), r \in Seq(Events), t \in Seq(Events) :
        s = shown[m] /\ q = queue[m] /\ r = ready[m] /\ t = emitted[m]
  BY DEF ChatType
<1>2. /\ shown'[m] = s /\ queue'[m] = q /\ emitted'[m] = Append(t, e) /\ stream'[m] = stream[m]
      /\ stream[m] # "gone" => ready'[m] = Append(r, e)
  BY <1>1 DEF Emits, ChatType
<1>3. CASE stream[m] = "gone"
  <2>1. IsPrefix(s, t)
    BY <1>1, <1>3 DEF Told
  <2>2. IsPrefix(s, Append(t, e))
    BY <2>1, PrefixFacts
  <2>3. QED
    BY <1>2, <1>3, <2>2 DEF Told
<1>4. CASE stream[m] # "gone"
  <2>1. s \o q \o r = t
    BY <1>1, <1>4 DEF Told
  <2>2. s \o q \o Append(r, e) = Append(t, e)
    BY <2>1, QueueFacts
  <2>3. QED
    BY <1>2, <1>4, <2>2 DEF Told
<1>5. QED
  BY <1>3, <1>4

\* An event of the working agent or of a tool, or the answer.
LEMMA StreamEvent ==
  ASSUME ChatType, NEW m \in Turns, StreamOf(m), NEW e \in Events, e # "done", Emits(m, e),
         pc[m] = "thinking", pc'[m] = "thinking" \/ (pc'[m] = "finally" /\ e \in Answers \cup {"error"})
  PROVE  StreamOf(m)'
<1>1. Told(m)'
  BY ToldEmits DEF StreamOf
<1>2. PICK t \in Seq(Events) : t = emitted[m]
  BY DEF ChatType
<1>3. emitted'[m] = Append(t, e) /\ stream'[m] = stream[m] /\ shown'[m] = shown[m]
  BY <1>2 DEF Emits, ChatType
<1>4. \A i \in DOMAIN t : t[i] # "done"
  BY <1>2 DEF StreamOf, EndOf
<1>5. \A i \in DOMAIN Append(t, e) : Append(t, e)[i] # "done"
  BY <1>4
<1>6. Len(Append(t, e)) >= 1 /\ Append(t, e)[Len(Append(t, e))] = e
  BY <1>2
<1>7. stream[m] # "closed" /\ stream[m] # "done"
  BY DEF StreamOf, EndOf
<1>8. pc'[m] = "finally" => Says(m)' \in Answers \cup {"error"}
  BY <1>3, <1>6 DEF Says
<1>9. EndOf(m)'
  BY <1>3, <1>5, <1>6, <1>7, <1>8 DEF EndOf
<1>10. QED
  BY <1>1, <1>9 DEF StreamOf

\* The end: "done" behind the answer.
LEMMA StreamFinally ==
  ASSUME ChatType, NEW m \in Turns, StreamOf(m), Finally(m)
  PROVE  StreamOf(m)'
<1>1. pc[m] = "finally" /\ pc'[m] = "over" /\ Emits(m, "done") /\ "done" \in Events
  BY DEF Finally, Goes, ChatType, Events
<1>2. Told(m)'
  BY <1>1, ToldEmits DEF StreamOf
<1>3. PICK t \in Seq(Events) : t = emitted[m]
  BY DEF ChatType
<1>4. emitted'[m] = Append(t, "done") /\ stream'[m] = stream[m] /\ shown'[m] = shown[m]
  BY <1>1, <1>3 DEF Emits, ChatType
<1>5. /\ \A i \in DOMAIN t : t[i] # "done"
      /\ Len(t) >= 1 /\ t[Len(t)] \in Answers \cup {"error"}
      /\ stream[m] # "closed" /\ stream[m] # "done"
  BY <1>1, <1>3 DEF StreamOf, EndOf, Says
<1>6. PICK u \in Seq(Events) : u = Append(t, "done")
  <2>1. Append(t, "done") \in Seq(Events)
    BY <1>1
  <2>2. QED
    BY <2>1
<1>7. /\ \A i \in DOMAIN u : u[i] = "done" <=> i = Len(u)
      /\ Len(u) >= 2 /\ u[Len(u) - 1] \in Answers \cup {"error"}
  BY <1>1, <1>5, <1>6
<1>8. Says(m)' = u[Len(u) - 1]
  BY <1>1, <1>4, <1>6 DEF Says
<1>9. EndOf(m)'
  BY <1>1, <1>4, <1>5, <1>6, <1>7, <1>8 DEF EndOf
<1>10. QED
  BY <1>2, <1>9 DEF StreamOf

\* chat_stream opens the stream with a status event.
LEMMA StreamOpens ==
  ASSUME ChatType, NEW m \in Turns, StreamOf(m), Opens(m)
  PROVE  StreamOf(m)'
<1>1. /\ pc[m] = "new" /\ pc'[m] = "thinking" /\ stream'[m] = "open" /\ shown'[m] = shown[m]
      /\ queue'[m] = queue[m] /\ emitted'[m] = <<"status">> /\ ready'[m] = <<"status">>
  BY DEF Opens, Goes, ChatType
<1>2. PICK s \in Seq(Events), q \in Seq(Events), r \in Seq(Events) :
        s = shown[m] /\ q = queue[m] /\ r = ready[m]
  BY DEF ChatType
<1>3. s \o q \o r = <<>>
  BY <1>1, <1>2 DEF StreamOf, Told, EndOf
<1>4. s = <<>> /\ q = <<>>
  BY <1>3
<1>5. <<>> \o <<>> \o <<"status">> = <<"status">>
  OBVIOUS
<1>6. Told(m)'
  BY <1>1, <1>2, <1>4, <1>5 DEF Told
<1>7. EndOf(m)'
  BY <1>1 DEF EndOf
<1>8. QED
  BY <1>6, <1>7 DEF StreamOf

\* On its way to the browser an event stays in its place, or is dropped with
\* all that follow it.
LEMMA StreamLoop ==
  ASSUME ChatType, NEW m \in Turns, StreamOf(m), Loop(m)
  PROVE  StreamOf(m)'
<1>1. pc' = pc /\ emitted' = emitted
  BY LoopFrame
<1>2. PICK s \in Seq(Events), q \in Seq(Events), r \in Seq(Events), t \in Seq(Events) :
        s = shown[m] /\ q = queue[m] /\ r = ready[m] /\ t = emitted[m]
  BY DEF ChatType
<1>3. stream[m] # "gone" => s \o q \o r = t
  BY <1>2 DEF StreamOf, Told
<1>4. CASE Puts(m)
  <2>1. /\ r # <<>> /\ queue'[m] = Append(q, Head(r)) /\ ready'[m] = Tail(r)
        /\ shown'[m] = s /\ stream'[m] = stream[m]
    BY <1>2, <1>4 DEF Puts, ChatType
  <2>2. s \o Append(q, Head(r)) \o Tail(r) = s \o q \o r
    <3>1. r # <<>>
      BY <2>1
    <3>2. QED
      BY <3>1, PutFacts
  <2>3. Told(m)'
    BY <1>1, <1>2, <1>3, <2>1, <2>2 DEF StreamOf, Told
  <2>4. EndOf(m)'
    BY <1>1, <1>2, <2>1 DEF StreamOf, EndOf, Says
  <2>5. QED
    BY <2>3, <2>4 DEF StreamOf
<1>5. CASE Yields(m)
  <2>1. /\ stream[m] = "open" /\ q # <<>> /\ shown'[m] = Append(s, Head(q)) /\ queue'[m] = Tail(q)
        /\ ready'[m] = r /\ stream'[m] = IF Head(q) = "done" THEN "done" ELSE "open"
    BY <1>2, <1>5 DEF Yields, ChatType
  <2>2. s \o q \o r = t /\ Append(s, Head(q)) \o Tail(q) \o r = t
    <3>1. q # <<>> /\ s \o q \o r = t
      BY <1>3, <2>1
    <3>2. Append(s, Head(q)) \o Tail(q) \o r = s \o q \o r
      BY <3>1, QueueFacts
    <3>3. QED
      BY <3>1, <3>2
  <2>3. Told(m)'
    BY <1>1, <1>2, <2>1, <2>2 DEF Told
  <2>4. ASSUME Head(q) = "done" PROVE pc[m] = "over" /\ Append(s, Head(q)) = t
    <3>1. Len(s) + 1 \in DOMAIN t /\ t[Len(s) + 1] = "done" /\ Len(t) = Len(s) + Len(q) + Len(r)
      BY <2>1, <2>2, <2>4
    <3>2. pc[m] = "over" /\ Len(s) + 1 = Len(t)
      BY <1>2, <3>1 DEF StreamOf, EndOf
    <3>3. Tail(q) = <<>> /\ r = <<>>
      BY <2>1, <3>1, <3>2
    <3>4. Append(s, Head(q)) \o <<>> \o <<>> = Append(s, Head(q))
      BY <2>1
    <3>5. QED
      BY <2>2, <3>2, <3>3, <3>4
  <2>5. EndOf(m)'
    BY <1>1, <1>2, <2>1, <2>4 DEF StreamOf, EndOf, Says
  <2>6. QED
    BY <2>3, <2>5 DEF StreamOf
<1>6. CASE TimesOut(m) \/ Leaves(m)
  <2>1. stream[m] = "open" /\ stream'[m] = "gone" /\ shown'[m] = s
    BY <1>2, <1>6 DEF TimesOut, Leaves, Ends, ChatType
  <2>2. IsPrefix(s, t)
    <3>1. s \o q \o r = t
      BY <1>3, <2>1
    <3>2. IsPrefix(s, s \o q \o r)
      BY QueueFacts
    <3>3. QED
      BY <3>1, <3>2
  <2>3. Told(m)'
    BY <1>1, <1>2, <2>1, <2>2 DEF Told
  <2>4. EndOf(m)'
    BY <1>1, <1>2, <2>1 DEF StreamOf, EndOf, Says
  <2>5. QED
    BY <2>3, <2>4 DEF StreamOf
<1>7. QED
  BY <1>4, <1>5, <1>6 DEF Loop

LEMMA StreamNext == ChatInv /\ [Next]_vars => StreamInv'
<1> SUFFICES ASSUME ChatInv, [Next]_vars PROVE StreamInv'
  OBVIOUS
<1>1. ChatType /\ CallInv /\ \A k \in Turns : StreamOf(k)
  BY DEF ChatInv, StreamInv, StreamOf, Told, EndOf
<1>2. SUFFICES ASSUME NEW k \in Turns PROVE StreamOf(k)'
  BY DEF StreamInv, StreamOf, Told, EndOf
<1>3. CASE Next
  <2>1. PICK m \in Turns : Agent(m) \/ Acts(m) \/ (\E c \in Calls : Thread(m, c)) \/ Loop(m)
    BY <1>3, NextKinds
  <2>2. CASE k # m
    <3>1. SameTurn(k)
      BY <1>1, <2>1, <2>2, AgentFrame, ActsFrame, ThreadFrame, LoopFrame
    <3>2. QED
      BY <1>1, <3>1, StreamSame DEF SameTurn
  <2>3. CASE k = m /\ Agent(m)
    <3>1. CASE Opens(m)
      BY <1>1, <2>3, <3>1, StreamOpens
    <3>2. CASE Thinks(m)
      <4>1. Emits(m, "token") /\ "token" \in Events /\ pc[m] = "thinking" /\ pc'[m] = "thinking"
        BY <3>2 DEF Thinks, Thinking, Events
      <4>2. QED
        BY <1>1, <2>3, <4>1, StreamEvent
    <3>3. CASE AnswersUser(m) \/ Fails(m)
      <4>1. pc[m] = "thinking" /\ pc'[m] = "finally" /\ \E e \in Answers \cup {"error"} : Emits(m, e)
        BY <1>1, <3>3 DEF AnswersUser, Fails, Goes, ChatType, GroundedAnswer, Answers, Deliveries
      <4>2. \A e \in Answers \cup {"error"} : e \in Events /\ e # "done"
        BY DEF Answers, Deliveries, Events
      <4>3. QED
        BY <1>1, <2>3, <4>1, <4>2, StreamEvent
    <3>4. CASE Finally(m)
      BY <1>1, <2>3, <3>4, StreamFinally
    <3>5. QED
      BY <2>3, <3>1, <3>2, <3>3, <3>4 DEF Agent
  <2>4. CASE k = m /\ Acts(m)
    <3>1. UNCHANGED <<pc, emitted, ready, queue, shown, stream>>
      BY <1>1, <2>4, ActsFrame DEF loop
    <3>2. QED
      BY <1>1, <3>1, StreamSame
  <2>5. ASSUME k = m, NEW c \in Calls, Thread(m, c) PROVE StreamOf(k)'
    <3>1. pc' = pc
      BY <1>1, <2>5, ThreadFrame
    <3>2. CASE UNCHANGED <<emitted, loop>>
      BY <1>1, <3>1, <3>2, StreamSame DEF loop
    <3>3. ASSUME NEW x \in Outputs, BackFacts(m, c, x) PROVE StreamOf(k)'
      <4>1. /\ \E from \in {"asking", "ran"} : Moves(m, c, from, "back")
            /\ \E e \in {"tool_blocked", "tool_result"} : Emits(m, e)
        BY <3>3 DEF BackFacts
      <4>2. pc[m] = "thinking"
        BY <1>1, <4>1 DEF Moves, CallInv
      <4>3. \A e \in {"tool_blocked", "tool_result"} : e \in Events /\ e # "done"
        BY DEF Events
      <4>4. QED
        BY <1>1, <2>5, <3>1, <4>1, <4>2, <4>3, StreamEvent
    <3>4. QED
      BY <1>1, <2>5, <3>2, <3>3, ThreadKinds DEF Asks, RunFacts
  <2>6. CASE k = m /\ Loop(m)
    BY <1>1, <2>6, StreamLoop
  <2>7. QED
    BY <2>1, <2>2, <2>3, <2>4, <2>5, <2>6
<1>4. CASE UNCHANGED vars
  BY <1>1, <1>4, StreamSame DEF vars, loop
<1>5. QED
  BY <1>3, <1>4

-----------------------------------------------------------------------------
LEMMA NextChat == ChatInv /\ [Next]_vars => ChatInv'
  BY TypeNext, CallsNext, LogNext, GroundNext, StreamNext DEF ChatInv

(* Types, what the threads of the calls may do, the logs, "outcome" and the  *)
(* events on their way to the browser fit together, for any messages, kinds  *)
(* of tools and number of calls (chat.py chat_stream, _guarded).             *)
THEOREM ChatCorrect == Spec => []ChatInv
<1>1. ChatInv /\ [Next]_vars => ChatInv'
  BY NextChat
<1>2. QED
  BY <1>1, InitChat, PTL DEF Spec

(* Every variable of the chat keeps its type, and what is kept of the calls  *)
(* of a message is kept for each of them.                                    *)
THEOREM ChatTypeCorrect == Spec => []ChatType
<1>1. ChatInv => ChatType
  BY DEF ChatInv
<1>2. QED
  BY <1>1, ChatCorrect, PTL

(* The browser is shown what the threads emit, in order; a stream that ended *)
(* by itself has shown all of it, an answer or an error before the end       *)
(* (chat.py emit, chat_stream), whatever the loop, the timer and the browser *)
(* do in between.                                                            *)
THEOREM StreamTellsAllCorrect == Spec => []StreamTellsAll
<1>1. ChatInv => StreamTellsAll
  <2> SUFFICES ASSUME ChatInv, NEW m \in Turns, StreamOf(m)
               PROVE  /\ Told(m)
                      /\ stream[m] = "done" =>
                           /\ shown[m] = emitted[m] /\ pc[m] = "over"
                           /\ shown[m][Len(shown[m]) - 1] \in Answers \cup {"error"}
    BY DEF StreamTellsAll, ChatInv, StreamInv, StreamOf, Told, EndOf
  <2>1. QED
    BY DEF StreamOf, EndOf, Says
<1>2. QED
  BY <1>1, ChatCorrect, PTL

(* The logs and the user are told the truth of emails and posts, whatever    *)
(* the servers and the disk do and in whatever order the parallel tools of a *)
(* message finish (chat.py _guarded, _grounded_answer; the tools and the     *)
(* capture server).                                                          *)
THEOREM DeliveriesCorrect == Spec => []DeliveriesAreAccounted
<1>1. ChatInv => LogsAreTrue
  BY DEF ChatInv, LogInv
<1>2. ChatInv => AnswerIsGrounded
  <2> SUFFICES ASSUME ChatInv, NEW m \in Turns, pc[m] = "over", GroundOf(m)
               PROVE  LET says    == emitted[m][Len(emitted[m]) - 1]
                          refused == {c \in Made(m) : output[m][c] = "refused"}
                      IN  /\ says \in Deliveries =>
                               /\ \E c \in since[m]..calls[m] : <<m, c, says>> \in log
                               /\ refused = {}
                          /\ says = "blocked" => refused # {}
    BY DEF AnswerIsGrounded, ChatInv, GroundInv, GroundOf
  <2>1. Says(m) = emitted[m][Len(emitted[m]) - 1]
    BY DEF Says
  <2>2. blocked[m] <=> {c \in Made(m) : output[m][c] = "refused"} # {}
    BY DEF GroundOf
  <2>3. QED
    BY <2>1, <2>2 DEF GroundOf, Delivered
<1>3. ChatInv => DeliveriesAreAccounted
  BY <1>1, <1>2 DEF DeliveriesAreAccounted
<1>4. QED
  BY <1>3, ChatCorrect, PTL

(* What leaves is what the gateway was told at /check, and no data that the  *)
(* scan held back from the agent is in it, also where the chat filled it in  *)
(* (chat.py _fill_from_fetched, outcome["fetched"]).                         *)
THEOREM NothingHeldBackCorrect == Spec => []NothingHeldBackLeaves
<1>1. ChatInv => NothingHeldBackLeaves
  <2> SUFFICES ASSUME ChatInv, NEW e \in taken
               PROVE  /\ body[e[1]][e[2]] = told[e[1]][e[2]]
                      /\ \A f \in body[e[1]][e[2]] : output[e[1]][f] = "data"
    BY DEF NothingHeldBackLeaves
  <2>1. e[1] \in Turns /\ Ran(e[1], e[2])
    BY DEF ChatInv, ChatType, LogInv
  <2>2. e[2] \in Made(e[1]) /\ at[e[1]][e[2]] # "called"
    BY <2>1 DEF Ran
  <2>3. QED
    BY <2>1, <2>2 DEF ChatInv, CallInv, AreData
<1>2. QED
  BY <1>1, ChatCorrect, PTL

(***************************************************************************)
(* The page.                                                               *)
(***************************************************************************)

\* The variables of the chat on the page, and of the switch as far as the
\* gateway's setting depends on it.
PageType ==
  /\ wants \in [Inputs -> BOOLEAN] /\ box \in BOOLEAN
  /\ phase \in [Inputs -> {"none", "init", "reading", "over"}]
  /\ own \in [Inputs -> Nat] /\ heard \in [Inputs -> 0..4]
  /\ seq \in Nat /\ el \in Nat /\ buf \subseteq Inputs
  /\ shows \in [Inputs -> SUBSET Inputs] /\ text \in [Inputs -> Int]
  /\ inputs \in 0..MaxInputs

(* Whatever a crash left of the toggle file, a toggle that was answered and  *)
(* not cut off since is in it.                                               *)
ToggleInv == kept \in {"none", "on", "off"} /\ (kept # "none" => file = kept)

(* A message has a number of its own once it is sent, and hears of its       *)
(* stream only then.                                                         *)
TurnInv ==
  /\ \A s \in Inputs : s > inputs => phase[s] = "none"
  /\ \A s \in Inputs : phase[s] \in {"none", "init"} => own[s] = 0 /\ heard[s] = 0
  /\ \A s \in Inputs : phase[s] \in {"reading", "over"} => own[s] \in 1..seq
  /\ \A s, t \in Inputs : own[s] = own[t] /\ own[s] # 0 => s = t

(* Unless disturbed, one message is on its way at a time, the page is locked *)
(* while its stream is read, and each input has sent one message at most, so *)
(* that there is a bubble for each number.                                   *)
Active == {s \in Inputs : phase[s] \in {"init", "reading"}}

LockInv ==
  ~disturbed =>
    /\ \A s, t \in Active : s = t
    /\ streaming <=> Reading # {}
    /\ seq <= inputs
    /\ \A s \in Inputs : phase[s] = "init" => seq < inputs

(* Unless disturbed, the globals belong to the stream being read, and each   *)
(* bubble shows its own.                                                     *)
BubbleInv ==
  ~disturbed =>
    /\ \A b \in Inputs : b > seq => shows[b] = {}
    /\ \A s \in Reading : el = own[s] /\ seq = own[s] /\ buf \subseteq {s}
    /\ \A s \in Inputs : own[s] # 0 => shows[own[s]] \subseteq {s}
    /\ \A s \in Inputs : own[s] # 0 /\ heard[s] = 4 => text[own[s]] = s

PageInv == PageType /\ ToggleInv /\ TurnInv /\ LockInv /\ BubbleInv

LEMMA ScriptFacts ==
  /\ Len(Script) = 4
  /\ Script[1] = "token" /\ Script[2] = "tool_start" /\ Script[3] = "tool_verdict"
  /\ Script[4] = "final_answer"
  BY DEF Script

LEMMA PageStarts == PageInit => PageInv
<1> SUFFICES ASSUME PageInit PROVE PageInv
  OBVIOUS
<1>1. PageType
  BY PageAssumption DEF PageInit, PageType
<1>2. ToggleInv
  BY DEF PageInit, ToggleInv
<1>3. TurnInv
  BY DEF PageInit, TurnInv
<1>4. Reading = {} /\ Active = {}
  BY DEF PageInit, Reading, Active
<1>5. LockInv
  BY <1>4 DEF PageInit, LockInv
<1>6. BubbleInv
  BY <1>4 DEF PageInit, BubbleInv
<1>7. QED
  BY <1>1, <1>2, <1>3, <1>5, <1>6 DEF PageInv

\* A step that is not of the chat leaves it alone.
LEMMA ChatAlone ==
  ASSUME TurnInv, LockInv, BubbleInv, inputs \in 0..MaxInputs, seq \in Nat,
         UNCHANGED <<phase, own, seq, streaming>>, UNCHANGED <<bubble, disturbed>>,
         inputs' = inputs \/ inputs' = inputs + 1
  PROVE  TurnInv' /\ LockInv' /\ BubbleInv'
<1>1. UNCHANGED <<phase, own, seq, streaming, heard, el, buf, shows, text, disturbed>>
  BY DEF bubble
<1>2. Reading' = Reading /\ Active' = Active
  BY <1>1 DEF Reading, Active
<1>3. \A k \in Int : (k > inputs' => k > inputs) /\ (k <= inputs => k <= inputs') /\ (k < inputs => k < inputs')
  OBVIOUS
<1>4. TurnInv'
  BY <1>1, <1>3 DEF TurnInv, Inputs
<1>5. LockInv'
  BY <1>1, <1>2, <1>3 DEF LockInv
<1>6. BubbleInv'
  BY <1>1, <1>2 DEF BubbleInv
<1>7. QED
  BY <1>4, <1>5, <1>6

LEMMA GatewayStep ==
  ASSUME PageInv, Gateway
  PROVE  PageInv'
<1>1. UNCHANGED <<wants, box>> /\ UNCHANGED chat /\ ToggleInv'
  <2>1. CASE Dies \/ Restarts
    BY <2>1 DEF Dies, Restarts, switch, PageInv, ToggleInv
  <2>2. ASSUME NEW on \in BOOLEAN, ShellToggles(on)
        PROVE  UNCHANGED <<wants, box>> /\ UNCHANGED chat /\ ToggleInv'
    BY <2>2 DEF ShellToggles, Setting, switch, PageInv, ToggleInv
  <2>3. ASSUME NEW k \in Inputs, SetsToggle(k) \/ DiesWriting(k)
        PROVE  UNCHANGED <<wants, box>> /\ UNCHANGED chat /\ ToggleInv'
    BY <2>3 DEF SetsToggle, DiesWriting, Setting, PageInv, ToggleInv
  <2>4. QED
    BY <2>1, <2>2, <2>3 DEF Gateway
<1>2. inputs' = inputs \/ (inputs' = inputs + 1 /\ inputs < MaxInputs)
  BY DEF Gateway, Dies, Restarts, ShellToggles, SetsToggle, DiesWriting, Input
<1>3. PageType'
  BY <1>1, <1>2, PageAssumption DEF PageInv, PageType, chat, lock, bubble
<1>4. TurnInv' /\ LockInv' /\ BubbleInv'
  BY <1>1, <1>2, ChatAlone DEF PageInv, PageType, chat, lock
<1>5. QED
  BY <1>1, <1>3, <1>4 DEF PageInv

LEMMA SwitchStep ==
  ASSUME PageInv, Switch
  PROVE  PageInv'
<1>1. UNCHANGED chat /\ UNCHANGED <<file, kept>>
  BY DEF Switch, ReadsStatus, ShowsStatus, Clicks, IsLost, GivesUp, Hears, gate
<1>2. inputs' = inputs \/ (inputs' = inputs + 1 /\ inputs < MaxInputs)
  BY DEF Switch, ReadsStatus, ShowsStatus, Clicks, IsLost, GivesUp, Hears, Input
<1>3. wants' \in [Inputs -> BOOLEAN] /\ box' \in BOOLEAN
  BY DEF Switch, ReadsStatus, ShowsStatus, Clicks, IsLost, GivesUp, Hears, PageInv, PageType
<1>4. PageType'
  BY <1>1, <1>2, <1>3, PageAssumption DEF PageInv, PageType, chat, lock, bubble
<1>5. TurnInv' /\ LockInv' /\ BubbleInv'
  BY <1>1, <1>2, ChatAlone DEF PageInv, PageType, chat, lock
<1>6. QED
  BY <1>1, <1>4, <1>5 DEF PageInv, ToggleInv

(* A message takes the lock and a new bubble.                                *)
LEMMA MessageBegins ==
  ASSUME PageInv, NEW s \in Inputs, Begins(s), phase[s] \in {"none", "init"}, s <= inputs',
         UNCHANGED <<heard, shows, text>>, inputs' \in inputs..MaxInputs,
         ~disturbed' => ~disturbed /\ Active \subseteq {s} /\ seq < inputs'
  PROVE  TurnInv' /\ LockInv' /\ BubbleInv'
<1>1. PageType /\ TurnInv /\ LockInv /\ BubbleInv
  BY DEF PageInv
<1>2. /\ phase'[s] = "reading" /\ own'[s] = seq + 1 /\ seq' = seq + 1 /\ el' = seq + 1
      /\ buf' = {} /\ streaming'
      /\ \A q \in Inputs \ {s} : phase'[q] = phase[q] /\ own'[q] = own[q]
  BY <1>1 DEF Begins, PageType
<1>3. seq \in Nat /\ inputs \in 0..MaxInputs /\ own[s] = 0 /\ heard[s] = 0
  BY <1>1 DEF PageType, TurnInv
<1>4. \A q \in Inputs : own[q] \in 0..seq
  BY <1>1, <1>3 DEF PageType, TurnInv
<1>5. TurnInv'
  <2>1. \A q \in Inputs : q > inputs' => phase'[q] = "none"
    BY <1>1, <1>2, <1>3 DEF TurnInv, Inputs
  <2>2. \A q \in Inputs : phase'[q] \in {"none", "init"} => own'[q] = 0 /\ heard'[q] = 0
    BY <1>1, <1>2 DEF TurnInv
  <2>3. \A q \in Inputs : phase'[q] \in {"reading", "over"} => own'[q] \in 1..seq'
    BY <1>1, <1>2, <1>3 DEF TurnInv
  <2>4. \A q \in Inputs \ {s} : own'[q] # own'[s]
    BY <1>2, <1>3, <1>4
  <2>5. \A q, p \in Inputs : own'[q] = own'[p] /\ own'[q] # 0 => q = p
    BY <1>1, <1>2, <2>4 DEF TurnInv
  <2>6. QED
    BY <2>1, <2>2, <2>3, <2>5 DEF TurnInv
<1>6. ASSUME ~disturbed'
      PROVE  Active' = {s} /\ Reading' = {s}
  BY <1>2, <1>6 DEF Active, Reading
<1>7. LockInv'
  <2> SUFFICES ASSUME ~disturbed'
               PROVE  /\ \A q, t \in Active' : q = t
                      /\ streaming' <=> Reading' # {}
                      /\ seq' <= inputs'
                      /\ \A q \in Inputs : phase'[q] = "init" => seq' < inputs'
    BY DEF LockInv
  <2>1. \A q \in Inputs : phase'[q] # "init"
    BY <1>2, <1>6 DEF Active
  <2>2. QED
    BY <1>2, <1>3, <1>6, <2>1
<1>8. BubbleInv'
  <2> SUFFICES ASSUME ~disturbed'
               PROVE  /\ \A b \in Inputs : b > seq' => shows'[b] = {}
                      /\ \A q \in Reading' : el' = own'[q] /\ seq' = own'[q] /\ buf' \subseteq {q}
                      /\ \A q \in Inputs : own'[q] # 0 => shows'[own'[q]] \subseteq {q}
                      /\ \A q \in Inputs : own'[q] # 0 /\ heard'[q] = 4 => text'[own'[q]] = q
    BY DEF BubbleInv
  <2>1. \A b \in Inputs : b > seq => shows[b] = {}
    BY <1>1 DEF BubbleInv
  <2>2. seq + 1 \in Inputs /\ seq + 1 > seq
    BY <1>3, PageAssumption DEF Inputs
  <2>3. shows'[own'[s]] = {}
    BY <1>2, <2>1, <2>2
  <2>4. \A b \in Inputs : b > seq' => shows'[b] = {}
    BY <1>2, <1>3, <2>1 DEF Inputs
  <2>5. \A q \in Inputs : own'[q] # 0 => shows'[own'[q]] \subseteq {q}
    BY <1>1, <1>2, <2>3 DEF BubbleInv
  <2>6. \A q \in Inputs : own'[q] # 0 /\ heard'[q] = 4 => text'[own'[q]] = q
    BY <1>1, <1>2, <1>3 DEF BubbleInv
  <2>7. QED
    BY <1>2, <1>6, <2>4, <2>5, <2>6
<1>9. QED
  BY <1>5, <1>7, <1>8

(* A message gives the lock back.                                            *)
LEMMA MessageEnds ==
  ASSUME PageInv, NEW s \in Inputs, StopsReading(s), heard[s] = 4 => UNCHANGED text,
         text' = text \/ text' = [text EXCEPT ![el] = -1]
  PROVE  TurnInv' /\ LockInv' /\ BubbleInv'
<1>1. PageType /\ TurnInv /\ LockInv /\ BubbleInv
  BY DEF PageInv
<1>2. /\ phase[s] = "reading" /\ phase'[s] = "over" /\ el' = 0 /\ ~streaming'
      /\ \A q \in Inputs \ {s} : phase'[q] = phase[q]
      /\ UNCHANGED <<own, seq, heard, buf, shows, disturbed, inputs>>
  BY <1>1 DEF StopsReading, PageType
<1>3. seq \in Nat /\ inputs \in 0..MaxInputs /\ own[s] \in 1..seq
  BY <1>1, <1>2 DEF PageType, TurnInv
<1>4. TurnInv'
  <2>1. s <= inputs
    BY <1>1, <1>2, <1>3 DEF TurnInv, Inputs
  <2>2. \A q \in Inputs : q > inputs' => phase'[q] = "none"
    BY <1>1, <1>2, <1>3, <2>1 DEF TurnInv, Inputs
  <2>3. QED
    BY <1>1, <1>2, <2>2 DEF TurnInv
<1>5. ASSUME ~disturbed'
      PROVE  /\ Active' = {} /\ Reading' = {} /\ el = own[s] /\ ~disturbed
             /\ \A q \in Inputs : phase[q] # "init"
  <2>1. s \in Active /\ s \in Reading
    BY <1>2 DEF Active, Reading
  <2>2. \A q \in Active : q = s
    BY <1>1, <1>2, <1>5, <2>1 DEF LockInv
  <2>3. Active' = {} /\ Reading' = {}
    BY <1>2, <2>2 DEF Active, Reading
  <2>4. \A q \in Inputs : phase[q] # "init"
    BY <1>2, <2>2 DEF Active
  <2>5. QED
    BY <1>1, <1>2, <1>5, <2>1, <2>3, <2>4 DEF BubbleInv
<1>6. LockInv'
  BY <1>1, <1>2, <1>5 DEF LockInv
<1>7. BubbleInv'
  <2> SUFFICES ASSUME ~disturbed'
               PROVE  /\ \A b \in Inputs : b > seq' => shows'[b] = {}
                      /\ \A q \in Inputs : own'[q] # 0 => shows'[own'[q]] \subseteq {q}
                      /\ \A q \in Inputs : own'[q] # 0 /\ heard'[q] = 4 => text'[own'[q]] = q
    BY <1>5 DEF BubbleInv
  <2>1. /\ \A b \in Inputs : b > seq' => shows'[b] = {}
        /\ \A q \in Inputs : own'[q] # 0 => shows'[own'[q]] \subseteq {q}
    BY <1>1, <1>2, <1>5 DEF BubbleInv
  <2>2. ASSUME NEW q \in Inputs, own'[q] # 0, heard'[q] = 4
        PROVE  text'[own'[q]] = q
    <3>1. text[own[q]] = q
      BY <1>1, <1>2, <1>5, <2>2 DEF BubbleInv
    <3>2. CASE text' = text
      BY <1>2, <3>1, <3>2
    <3>3. CASE text' # text
      <4>1. q # s
        BY <1>2, <2>2, <3>3
      <4>2. own[q] # own[s]
        BY <1>1, <1>2, <2>2, <4>1 DEF TurnInv
      <4>3. text' = [text EXCEPT ![own[s]] = -1]
        BY <1>5, <3>3
      <4>4. own[q] \in Inputs
        <5>1. seq <= inputs /\ inputs <= MaxInputs
          BY <1>1, <1>3, <1>5 DEF LockInv
        <5>2. own[q] \in 1..seq
          BY <1>1, <1>2, <2>2 DEF TurnInv, PageType
        <5>3. QED
          BY <1>3, <5>1, <5>2, PageAssumption DEF Inputs
      <4>5. text'[own[q]] = text[own[q]]
        BY <1>1, <4>2, <4>3, <4>4 DEF PageType
      <4>6. QED
        BY <1>2, <3>1, <4>5
    <3>4. QED
      BY <3>2, <3>3
  <2>3. QED
    BY <2>1, <2>2
<1>8. QED
  BY <1>4, <1>6, <1>7

(* What a stream writes goes to its own bubble.                              *)
LEMMA EventShown ==
  ASSUME PageInv, NEW s \in Inputs, Handles(s)
  PROVE  PageType' /\ TurnInv' /\ LockInv' /\ BubbleInv'
<1>1. PageType /\ TurnInv /\ LockInv /\ BubbleInv
  BY DEF PageInv
<1>2. /\ phase[s] = "reading" /\ heard[s] \in 0..3 /\ heard' = [heard EXCEPT ![s] = heard[s] + 1]
      /\ UNCHANGED <<wants, box, phase, own, seq, streaming, el, disturbed, inputs>>
  BY <1>1, ScriptFacts DEF Handles, PageType, switch, lock
<1>3. /\ \/ buf' = buf
         \/ buf' = buf \cup {s}
      /\ \/ shows' = shows
         \/ \E b \in {el, seq} : shows' = [shows EXCEPT ![b] = @ \cup {s}]
         \/ shows' = [shows EXCEPT ![el] = @ \cup buf']
      /\ \/ heard[s] < 3 /\ text' = text
         \/ heard[s] = 3 /\ (el = 0 \/ text' = [text EXCEPT ![el] = s]) /\ (el = 0 => text' = text)
  <2>1. PICK event : event = Script[heard[s] + 1]
    OBVIOUS
  <2>2. /\ event = "final_answer" => heard[s] = 3
        /\ event # "final_answer" => heard[s] < 3
    BY <1>2, <2>1, ScriptFacts
  <2>3. CASE event = "token"
    BY <2>1, <2>2, <2>3 DEF Handles, Writes
  <2>4. CASE event = "tool_start"
    BY <2>1, <2>2, <2>4 DEF Handles, Writes
  <2>5. CASE event = "tool_verdict"
    BY <2>1, <2>2, <2>5 DEF Handles, Writes
  <2>6. CASE event = "final_answer"
    BY <2>1, <2>2, <2>6 DEF Handles, Writes
  <2>7. QED
    BY <2>1, <2>3, <2>4, <2>5, <2>6 DEF Handles
<1>4. PageType'
  <2>1. heard' \in [Inputs -> 0..4]
    BY <1>1, <1>2 DEF PageType
  <2>2. buf' \subseteq Inputs
    BY <1>1, <1>3 DEF PageType
  <2>3. shows' \in [Inputs -> SUBSET Inputs]
    BY <1>1, <1>3, <2>2 DEF PageType
  <2>4. text' \in [Inputs -> Int]
    BY <1>1, <1>3 DEF PageType, Inputs
  <2>5. QED
    BY <1>1, <1>2, <2>1, <2>2, <2>3, <2>4 DEF PageType
<1>5. Reading' = Reading /\ Active' = Active /\ s \in Reading /\ s \in Active
  BY <1>2 DEF Reading, Active
<1>6. \A q \in Inputs \ {s} : heard'[q] = heard[q]
  BY <1>1, <1>2 DEF PageType
<1>7. TurnInv'
  BY <1>1, <1>2, <1>6 DEF TurnInv
<1>8. LockInv'
  BY <1>1, <1>2, <1>5 DEF LockInv
<1>9. BubbleInv'
  <2> SUFFICES ASSUME ~disturbed' PROVE BubbleInv'
    BY DEF BubbleInv
  <2>1. /\ el = own[s] /\ seq = own[s] /\ buf \subseteq {s}
        /\ \A q \in Reading : q = s
    BY <1>1, <1>2, <1>5 DEF BubbleInv, LockInv, Reading, Active
  <2>2. own[s] \in 1..seq /\ seq \in Nat /\ own[s] # 0
    BY <1>1, <1>2 DEF TurnInv, PageType
  <2>3. buf' \subseteq {s}
    BY <1>3, <2>1
  <2>4. \A b \in Inputs : b # own[s] => shows'[b] = shows[b] /\ text'[b] = text[b]
    BY <1>1, <1>3, <2>1 DEF PageType
  <2>5. own[s] \in Inputs
    <3>1. seq <= inputs /\ inputs <= MaxInputs
      BY <1>1, <1>2 DEF LockInv, PageType
    <3>2. QED
      BY <1>1, <2>2, <3>1, PageAssumption DEF PageType, Inputs
  <2>6. shows'[own[s]] \subseteq {s}
    <3>1. shows[own[s]] \subseteq {s}
      BY <1>1, <1>2, <2>2 DEF BubbleInv
    <3>2. QED
      BY <1>1, <1>3, <2>1, <2>3, <2>5, <3>1 DEF PageType
  <2>7. \A b \in Inputs : b > seq' => shows'[b] = {}
    BY <1>1, <1>2, <2>1, <2>2, <2>4 DEF BubbleInv
  <2>8. ASSUME NEW q \in Inputs, own'[q] # 0
        PROVE  /\ shows'[own'[q]] \subseteq {q}
               /\ heard'[q] = 4 => text'[own'[q]] = q
    <3>1. CASE q = s
      <4>1. heard'[s] = heard[s] + 1
        BY <1>1, <1>2 DEF PageType
      <4>2. heard'[s] = 4 => text'[own[s]] = s
        BY <1>1, <1>2, <1>3, <2>1, <2>2, <2>5, <4>1 DEF PageType
      <4>3. QED
        BY <1>2, <2>6, <3>1, <4>2
    <3>2. CASE q # s
      <4>1. own[q] # own[s] /\ own[q] # 0
        BY <1>1, <1>2, <2>8, <3>2 DEF TurnInv
      <4>2. own[q] \in Inputs
        <5>1. own[q] \in 1..seq
          BY <1>1, <4>1 DEF TurnInv, PageType
        <5>2. seq <= MaxInputs
          BY <2>1, <2>5, PageAssumption DEF Inputs
        <5>3. QED
          BY <2>2, <5>1, <5>2, PageAssumption DEF Inputs
      <4>3. shows'[own[q]] = shows[own[q]] /\ text'[own[q]] = text[own[q]] /\ heard'[q] = heard[q]
        BY <1>6, <2>4, <3>2, <4>1, <4>2
      <4>4. shows[own[q]] \subseteq {q} /\ (heard[q] = 4 => text[own[q]] = q)
        BY <1>1, <1>2, <4>1 DEF BubbleInv
      <4>5. QED
        BY <1>2, <4>3, <4>4
    <3>3. QED
      BY <3>1, <3>2
  <2>9. QED
    BY <1>2, <1>5, <2>1, <2>3, <2>7, <2>8 DEF BubbleInv
<1>10. QED
  BY <1>4, <1>7, <1>8, <1>9

\* The user sends a message, at once or once chatInit() has returned.
LEMMA MessageSent ==
  ASSUME PageInv, NEW s \in Inputs, SendsMessage(s)
  PROVE  TurnInv' /\ LockInv' /\ BubbleInv'
<1>1. PageType /\ TurnInv /\ LockInv /\ BubbleInv
  BY DEF PageInv
<1>2. /\ ~streaming /\ s = inputs + 1 /\ inputs' = inputs + 1 /\ inputs < MaxInputs
      /\ disturbed' = (disturbed \/ \E t \in Inputs : phase[t] = "init")
      /\ UNCHANGED <<heard, shows, text>>
  BY DEF SendsMessage, Input
<1>3. seq \in Nat /\ inputs \in 0..MaxInputs /\ phase[s] = "none"
  BY <1>1, <1>2 DEF PageType, TurnInv, Inputs
<1>4. ASSUME ~disturbed'
      PROVE  ~disturbed /\ Reading = {} /\ Active = {} /\ seq < inputs'
  <2>1. ~disturbed /\ Reading = {} /\ seq <= inputs /\ \A t \in Inputs : phase[t] # "init"
    BY <1>1, <1>2, <1>4 DEF LockInv
  <2>2. Active = {}
    BY <2>1 DEF Active, Reading
  <2>3. seq < inputs'
    BY <1>2, <1>3, <2>1
  <2>4. QED
    BY <2>1, <2>2, <2>3
<1>5. CASE Begins(s)
  <2>1. inputs' \in inputs..MaxInputs /\ s <= inputs'
    BY <1>2, <1>3, PageAssumption
  <2>2. ~disturbed' => ~disturbed /\ Active \subseteq {s} /\ seq < inputs'
    BY <1>4
  <2>3. QED
    BY <1>2, <1>3, <1>5, <2>1, <2>2, MessageBegins
<1>6. CASE phase' = [phase EXCEPT ![s] = "init"] /\ UNCHANGED <<own, seq, el, buf, streaming>>
  <2>1. phase'[s] = "init" /\ \A q \in Inputs \ {s} : phase'[q] = phase[q]
    BY <1>1, <1>6 DEF PageType
  <2>2. TurnInv'
    <3>1. \A q \in Inputs : q > inputs' => phase'[q] = "none"
      BY <1>1, <1>2, <1>3, <2>1 DEF TurnInv, Inputs
    <3>2. QED
      BY <1>1, <1>2, <1>3, <1>6, <2>1, <3>1 DEF TurnInv
  <2>3. ASSUME ~disturbed'
        PROVE  Reading' = {} /\ Active' = {s} /\ seq <= inputs'
    <3>1. Reading = {} /\ Active = {} /\ seq < inputs'
      BY <1>4, <2>3
    <3>2. Reading' = {}
      BY <2>1, <3>1 DEF Reading
    <3>3. Active' = {s}
      BY <2>1, <3>1 DEF Active
    <3>4. QED
      BY <1>2, <1>3, <3>1, <3>2, <3>3
  <2>4. LockInv'
    <3> SUFFICES ASSUME ~disturbed'
                 PROVE  /\ \A q, t \in Active' : q = t
                        /\ streaming' <=> Reading' # {}
                        /\ seq' <= inputs'
                        /\ \A q \in Inputs : phase'[q] = "init" => seq' < inputs'
      BY DEF LockInv
    <3>1. \A q, t \in Active' : q = t
      BY <2>3
    <3>2. streaming' <=> Reading' # {}
      BY <1>2, <1>6, <2>3
    <3>3. QED
      BY <1>4, <1>6, <2>3, <3>1, <3>2
  <2>5. BubbleInv'
    BY <1>1, <1>2, <1>4, <1>6, <2>3 DEF BubbleInv
  <2>6. QED
    BY <2>2, <2>4, <2>5
<1>7. QED
  BY <1>5, <1>6 DEF SendsMessage

LEMMA WaitEnds ==
  ASSUME PageInv, NEW s \in Inputs, SendsOn(s)
  PROVE  TurnInv' /\ LockInv' /\ BubbleInv'
<1>1. PageType /\ TurnInv /\ LockInv /\ BubbleInv
  BY DEF PageInv
<1>2. phase[s] = "init" /\ Begins(s) /\ UNCHANGED <<heard, shows, text, disturbed, inputs>>
  BY DEF SendsOn
<1>3. inputs' \in inputs..MaxInputs /\ s <= inputs'
  BY <1>1, <1>2, PageAssumption DEF PageType, TurnInv, Inputs
<1>4. ASSUME ~disturbed'
      PROVE  ~disturbed /\ Active \subseteq {s} /\ seq < inputs'
  BY <1>1, <1>2, <1>4 DEF LockInv, Active
<1>5. QED
  BY <1>2, <1>3, <1>4, MessageBegins

\* New session leaves the streams alone, and is a disturbance if there is one.
LEMMA PageCleared ==
  ASSUME PageInv, NewSession
  PROVE  TurnInv' /\ LockInv' /\ BubbleInv'
<1>1. PageType /\ TurnInv /\ LockInv /\ BubbleInv
  BY DEF PageInv
<1>2. /\ inputs' = inputs + 1 /\ ~streaming'
      /\ disturbed' = (disturbed \/ Reading # {})
      /\ UNCHANGED <<phase, own, heard, seq, shows, text>>
  BY DEF NewSession, Input
<1>3. Reading' = Reading /\ Active' = Active
  BY <1>2 DEF Reading, Active
<1>4. seq \in Nat /\ inputs \in Nat
  BY <1>1 DEF PageType
<1>5. TurnInv'
  BY <1>1, <1>2, <1>4 DEF TurnInv, Inputs
<1>6. LockInv'
  <2> SUFFICES ASSUME ~disturbed'
               PROVE  /\ \A q, t \in Active' : q = t
                      /\ streaming' <=> Reading' # {}
                      /\ seq' <= inputs'
                      /\ \A q \in Inputs : phase'[q] = "init" => seq' < inputs'
    BY DEF LockInv
  <2>1. ~disturbed /\ Reading = {}
    BY <1>2
  <2>2. /\ \A q, t \in Active : q = t
        /\ seq <= inputs
        /\ \A q \in Inputs : phase[q] = "init" => seq < inputs
    BY <1>1, <2>1 DEF LockInv
  <2>3. QED
    BY <1>2, <1>3, <1>4, <2>1, <2>2
<1>7. BubbleInv'
  BY <1>1, <1>2, <1>3 DEF BubbleInv
<1>8. QED
  BY <1>5, <1>6, <1>7

LEMMA ChatStep ==
  ASSUME PageInv, Chat
  PROVE  PageInv'
<1>1. PageType /\ TurnInv /\ LockInv /\ BubbleInv
  BY DEF PageInv
<1>2. UNCHANGED <<gate, switch>>
  BY DEF Chat, NewSession, GetsSession, SendsMessage, SendsOn, Handles, ReadsToTheEnd, Breaks, StopsReading
<1>3. ToggleInv'
  BY <1>2 DEF PageInv, ToggleInv, gate
<1>4. wants' = wants /\ box' = box
  BY <1>2 DEF switch
<1>5. CASE NewSession
  <2>1. PageType'
    BY <1>1, <1>4, <1>5, PageAssumption DEF NewSession, Input, PageType
  <2>2. QED
    BY <1>3, <1>5, <2>1, PageCleared DEF PageInv
<1>6. CASE GetsSession
  <2>1. UNCHANGED <<phase, own, seq, streaming, bubble, disturbed, inputs>>
    BY <1>6 DEF GetsSession
  <2>2. TurnInv' /\ LockInv' /\ BubbleInv'
    BY <1>1, <2>1, ChatAlone DEF PageType
  <2>3. PageType'
    BY <1>1, <1>4, <2>1 DEF PageType, bubble
  <2>4. QED
    BY <1>3, <2>2, <2>3 DEF PageInv
<1>7. ASSUME NEW s \in Inputs, SendsMessage(s)
      PROVE  PageInv'
  <2>1. PageType'
    <3>1. inputs' \in 0..MaxInputs
      BY <1>1, <1>7, PageAssumption DEF SendsMessage, Input, PageType
    <3>2. CASE Begins(s)
      BY <1>1, <1>4, <1>7, <3>1, <3>2 DEF SendsMessage, Begins, PageType
    <3>3. CASE phase' = [phase EXCEPT ![s] = "init"] /\ UNCHANGED <<own, seq, el, buf, streaming>>
      BY <1>1, <1>4, <1>7, <3>1, <3>3 DEF SendsMessage, PageType
    <3>4. QED
      BY <1>7, <3>2, <3>3 DEF SendsMessage
  <2>2. QED
    BY <1>3, <1>7, <2>1, MessageSent DEF PageInv
<1>8. ASSUME NEW s \in Inputs, SendsOn(s)
      PROVE  PageInv'
  <2>1. PageType'
    BY <1>1, <1>4, <1>8 DEF SendsOn, Begins, PageType
  <2>2. QED
    BY <1>3, <1>8, <2>1, WaitEnds DEF PageInv
<1>9. ASSUME NEW s \in Inputs, Handles(s)
      PROVE  PageInv'
  BY <1>3, <1>9, EventShown DEF PageInv
<1>10. ASSUME NEW s \in Inputs, ReadsToTheEnd(s) \/ Breaks(s)
       PROVE  PageInv'
  <2>1. /\ StopsReading(s)
        /\ text' = text \/ text' = [text EXCEPT ![el] = -1]
        /\ heard[s] = 4 => text' = text
    BY <1>10, ScriptFacts DEF ReadsToTheEnd, Breaks
  <2>2. TurnInv' /\ LockInv' /\ BubbleInv'
    BY <2>1, MessageEnds
  <2>3. text' \in [Inputs -> Int]
    BY <1>1, <2>1 DEF PageType
  <2>4. PageType'
    BY <1>1, <1>4, <2>1, <2>3 DEF StopsReading, PageType
  <2>5. QED
    BY <1>3, <2>2, <2>4 DEF PageInv
<1>11. QED
  BY <1>5, <1>6, <1>7, <1>8, <1>9, <1>10 DEF Chat

LEMMA PageStep ==
  ASSUME PageInv, [PageNext]_pageVars
  PROVE  PageInv'
<1>1. CASE PageNext
  BY <1>1, GatewayStep, SwitchStep, ChatStep DEF PageNext
<1>2. CASE UNCHANGED pageVars
  <2>1. UNCHANGED <<gate, switch, chat, inputs>>
    BY <1>2 DEF pageVars
  <2>2. PageType' /\ ToggleInv'
    BY <2>1 DEF gate, switch, chat, lock, bubble, PageInv, PageType, ToggleInv
  <2>3. TurnInv' /\ LockInv' /\ BubbleInv'
    BY <2>1, ChatAlone DEF PageInv, PageType, chat, lock
  <2>4. QED
    BY <2>2, <2>3 DEF PageInv
<1>3. QED
  BY <1>1, <1>2

(* The inductive invariant of the page: the toggle file keeps what it was    *)
(* told, and the globals of the chat belong to the one stream being read     *)
(* (toggle.py set_enforcement; app.py chatSend, _chatHandleEvent).           *)
THEOREM PageCorrect == PageSpec => []PageInv
<1>1. PageInit => PageInv
  BY PageStarts
<1>2. PageInv /\ [PageNext]_pageVars => PageInv'
  BY PageStep
<1>3. QED
  BY <1>1, <1>2, PTL DEF PageSpec

(* What a toggle the gateway has answered says stays in force, however many  *)
(* clicks, toggles from the shell and deaths of the gateway there are        *)
(* (toggle.py set_enforcement, get_enforcement).                             *)
THEOREM ToggleKept == PageSpec => []ToggleIsKept
<1>1. PageInv => ToggleIsKept
  BY DEF PageInv, ToggleInv, ToggleIsKept, Enforced
<1>2. QED
  BY <1>1, PageCorrect, PTL

(* However many messages are sent: unless disturbed, the page reads one      *)
(* stream at a time, is locked exactly while it does, and each bubble shows  *)
(* its own stream and in the end its answer (app.py chatSend,                *)
(* _chatHandleEvent).                                                        *)
THEOREM OwnStreamCorrect == PageSpec => []OwnStreamOnly
<1>1. ASSUME PageInv PROVE OwnStreamOnly
  <2> SUFFICES ASSUME ~disturbed
               PROVE  /\ Cardinality(Reading) <= 1 /\ (streaming <=> Reading # {})
                      /\ \A s \in Inputs :
                           own[s] # 0 =>
                             /\ shows[own[s]] \subseteq {s}
                             /\ phase[s] = "over" /\ heard[s] = Len(Script) => text[own[s]] = s
    BY DEF OwnStreamOnly
  <2>1. PageType /\ TurnInv /\ LockInv /\ BubbleInv
    BY <1>1 DEF PageInv
  <2>2. \A s, t \in Reading : s = t
    BY <2>1 DEF LockInv, Active, Reading
  <2>3. Cardinality(Reading) <= 1
    <3>1. CASE Reading = {}
      BY <3>1, FS_EmptySet
    <3>2. CASE Reading # {}
      <4>1. PICK s \in Reading : Reading = {s}
        BY <2>2, <3>2
      <4>2. Cardinality({s}) = 1
        BY FS_Singleton
      <4>3. QED
        BY <4>1, <4>2
    <3>3. QED
      BY <3>1, <3>2
  <2>4. QED
    BY <2>1, <2>3, ScriptFacts DEF LockInv, BubbleInv
<1>2. QED
  BY <1>1, PageCorrect, PTL
=============================================================================
