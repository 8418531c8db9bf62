----------------------------- MODULE ChatTurn ------------------------------
(***************************************************************************)
(* What becomes of a message to the chat (financeflow/web/chat.py,         *)
(* chat_stream).  The agent runs in a thread of its own, the tools one     *)
(* message of the model calls in further threads, at the same time (the    *)
(* tool node of LangGraph); they share "outcome" and hand their events to  *)
(* the event loop, where a generator sends them to the browser and gives   *)
(* up after three minutes of silence, while the threads go on.             *)
(*                                                                         *)
(* Three kinds of tools: "fetch" returns customer data, "email" and "post" *)
(* take a body out (send_email_tool with its SMTP server and log,          *)
(* post_external_tool with the capture server of financeflow/exfil_server).*)
(* A body is the set of the fetches whose data is in it.                   *)
(*                                                                         *)
(* GuardedSessions has the checks and scans of the calls in detail; here   *)
(* they are what they tell the thread, and of the events about one call    *)
(* only the last is kept.  The SMTP server, the disk and the model are     *)
(* external.                                                               *)
(***************************************************************************)
EXTENDS Integers, SequencesExt

CONSTANTS
  Turns,        \* messages of the user
  Tools,        \* the kinds of tools the agent has
  MaxSteps      \* bound: tool calls and tokens per message (recursion_limit)

ASSUME TurnAssumption ==
  Tools \subseteq {"fetch", "email", "post"} /\ MaxSteps \in Nat

Calls == 1..MaxSteps

Carriers == {"email", "post"}                     \* _EGRESS_BODY_FIELD

Deliveries == {"real", "failed", "simulated"}     \* the code calls "failed" "error"

Answers == Deliveries \cup {"blocked", "words"}    \* final_answer

VARIABLES
  smtp,        \* SMTP credentials are configured
  guard,       \* guard[m]: enforcement_on
  pc,          \* pc[m]: what the agent of m is doing
  tokens,      \* how many so far
  calls,       \* how many tool calls so far
  since,       \* the first of those of the model's last message
  tool,        \* tool[m][c]
  at,          \* at[m][c]: where the thread of the call is
  body,        \* body[m][c]: what its arguments carry
  told,        \* history variable: what the gateway was told they carry
  output,      \* output[m][c]: what the tool returned, or became of it
  blocked,     \* outcome["blocked"] is set
  last,        \* outcome["last"]: what the call returned
  fetched,     \* outcome["fetched"]: the fetches its data is from
  emitted,     \* history variable: the events emitted, in order
  ready,       \* those handed to call_soon_threadsafe
  queue,       \* the asyncio.Queue
  shown,       \* those sent to the browser
  stream,      \* the generator: closed, open, done, or gone before the end
  taken,       \* history variable: the emails and posts that left, <<message, call>>
  log,         \* email_log.jsonl: <<message, call, delivery>>
  captureLog   \* exfil_captures.jsonl

model   == <<tokens, calls, since, tool>>
work    == <<body, told, output>>
outcome == <<blocked, last, fetched>>
loop    == <<ready, queue, shown, stream>>
outside == <<taken, log, captureLog>>
vars    == <<smtp, guard, pc, model, at, work, outcome, emitted, loop, outside>>

Each(x) == [m \in Turns |-> x]

Init ==
  /\ smtp \in BOOLEAN /\ guard \in [Turns -> BOOLEAN] /\ pc = Each("new")
  /\ tokens = Each(0) /\ calls = Each(0) /\ since = Each(1) /\ tool = Each(<<>>)
  /\ at = Each(<<>>) /\ body = Each(<<>>) /\ told = Each(<<>>) /\ output = Each(<<>>)
  /\ blocked = Each(FALSE) /\ last = Each("none") /\ fetched = Each({})
  /\ emitted = Each(<<>>) /\ ready = Each(<<>>) /\ queue = Each(<<>>) /\ shown = Each(<<>>)
  /\ stream = Each("closed")
  /\ taken = {} /\ log = {} /\ captureLog = {}

Goes(m, from, to) == pc[m] = from /\ pc' = [pc EXCEPT ![m] = to]

Made(m) == 1..calls[m]

\* The model is at work; it is not while tools of its last message are.
Thinking(m) == pc[m] = "thinking" /\ \A c \in Made(m) : at[m][c] = "back"

Moves(m, c, from, to) == c \in Made(m) /\ at[m][c] = from /\ at' = [at EXCEPT ![m][c] = to]

\* emit(): call_soon_threadsafe(queue.put_nowait, event).  What is put for a
\* generator that is gone is not kept here: nobody reads it.
Emits(m, event) ==
  /\ emitted' = [emitted EXCEPT ![m] = Append(@, event)]
  /\ ready' = [ready EXCEPT ![m] = IF stream[m] = "gone" THEN @ ELSE Append(@, event)]
  /\ UNCHANGED <<queue, shown, stream>>

-----------------------------------------------------------------------------
(* The agent.                                                                *)

\* chat_stream up to the loop: the status event, and the thread starts.
Opens(m) ==
  /\ Goes(m, "new", "thinking")
  /\ stream' = [stream EXCEPT ![m] = "open"]
  /\ emitted' = [emitted EXCEPT ![m] = <<"status">>]
  /\ ready' = [ready EXCEPT ![m] = <<"status">>]
  /\ UNCHANGED <<smtp, guard, model, at, work, outcome, queue, shown, outside>>

\* Faulty variant: the callback puts into the queue from the thread.
ThinksAloud(m) ==
  /\ Thinking(m) /\ tokens[m] + calls[m] < MaxSteps
  /\ tokens' = [tokens EXCEPT ![m] = @ + 1]
  /\ emitted' = [emitted EXCEPT ![m] = Append(@, "token")]
  /\ queue' = [queue EXCEPT ![m] = Append(@, "token")]
  /\ UNCHANGED <<smtp, guard, pc, calls, since, tool, at, work, outcome, ready, shown, stream, outside>>

\* _StreamCallback: a token, or an error the agent gets over.
Thinks(m) ==
  /\ Thinking(m) /\ tokens[m] + calls[m] < MaxSteps
  /\ tokens' = [tokens EXCEPT ![m] = @ + 1]
  /\ Emits(m, "token")
  /\ UNCHANGED <<smtp, guard, pc, calls, since, tool, at, work, outcome, outside>>

\* The fetches whose data the model has been shown.
Known(m) == {c \in Made(m) : output[m][c] = "data"}

\* A message of the model calls n tools: into a body it writes data it has
\* seen, or a placeholder.
ActsWith(m, n) ==
  /\ Thinking(m) /\ tokens[m] + calls[m] + n <= MaxSteps
  /\ calls' = [calls EXCEPT ![m] = @ + n]
  /\ since' = [since EXCEPT ![m] = calls[m] + 1]
  /\ \E kinds \in [1..n -> Tools], written \in [1..n -> SUBSET Known(m)] :
       /\ \A i \in 1..n : kinds[i] \notin Carriers => written[i] = {}
       /\ tool' = [tool EXCEPT ![m] = @ \o kinds]
       /\ body' = [body EXCEPT ![m] = @ \o written]
  /\ at' = [at EXCEPT ![m] = @ \o [i \in 1..n |-> "called"]]
  /\ told' = [told EXCEPT ![m] = @ \o [i \in 1..n |-> {}]]
  /\ output' = [output EXCEPT ![m] = @ \o [i \in 1..n |-> "none"]]
  /\ UNCHANGED <<smtp, guard, pc, tokens, outcome, emitted, loop, outside>>

Acts(m) == \E n \in Calls : ActsWith(m, n)

\* _grounded_answer: a refusal, else what the last call returned if it begins
\* as a known result, else the words of the model.
GroundedAnswer(m) ==
  IF blocked[m] THEN "blocked" ELSE IF last[m] \in Deliveries THEN last[m] ELSE "words"

AnswersUser(m) ==
  /\ Thinking(m) /\ Goes(m, "thinking", "finally")
  /\ Emits(m, GroundedAnswer(m))
  /\ UNCHANGED <<smtp, guard, model, at, work, outcome, outside>>

\* The agent raises.
Fails(m) ==
  /\ Thinking(m) /\ Goes(m, "thinking", "finally")
  /\ Emits(m, "error")
  /\ UNCHANGED <<smtp, guard, model, at, work, outcome, outside>>

Finally(m) ==
  /\ Goes(m, "finally", "over")
  /\ Emits(m, "done")
  /\ UNCHANGED <<smtp, guard, model, at, work, outcome, outside>>

-----------------------------------------------------------------------------
(* The thread of a tool call.                                                *)

\* _fill_from_fetched: a body without the data fetched last gets it, in the
\* place of its placeholders or of all of it.
Filled(m, c) ==
  IF tool[m][c] \notin Carriers \/ fetched[m] \subseteq body[m][c] THEN {body[m][c]}
  ELSE {fetched[m], body[m][c] \cup fetched[m]}

\* Faulty variant: /check is asked about the arguments as the model wrote them.
AsksFirst(m, c) ==
  /\ Moves(m, c, "called", "asking")
  /\ \E filled \in Filled(m, c) : body' = [body EXCEPT ![m][c] = filled]
  /\ told' = [told EXCEPT ![m][c] = body[m][c]]
  /\ UNCHANGED <<smtp, guard, pc, model, output, outcome, emitted, loop, outside>>

\* _guarded up to the answer of /check, which is told the arguments as filled.
Asks(m, c) ==
  /\ Moves(m, c, "called", "asking")
  /\ \E filled \in Filled(m, c) : /\ body' = [body EXCEPT ![m][c] = filled]
                                  /\ told' = [told EXCEPT ![m][c] = filled]
  /\ UNCHANGED <<smtp, guard, pc, model, output, outcome, emitted, loop, outside>>

\* Faulty variant: a refusal is remembered like any other result.
IsRefusedAsLast(m, c) ==
  /\ guard[m] /\ Moves(m, c, "asking", "back")
  /\ output' = [output EXCEPT ![m][c] = "refused"]
  /\ last' = [last EXCEPT ![m] = "refused"]
  /\ Emits(m, "tool_blocked")
  /\ UNCHANGED <<smtp, guard, pc, model, body, told, blocked, fetched, outside>>

\* 403
IsRefused(m, c) ==
  /\ guard[m] /\ Moves(m, c, "asking", "back")
  /\ output' = [output EXCEPT ![m][c] = "refused"]
  /\ blocked' = [blocked EXCEPT ![m] = TRUE]
  /\ Emits(m, "tool_blocked")
  /\ UNCHANGED <<smtp, guard, pc, model, body, told, last, fetched, outside>>

Returns(m, c, x) == Moves(m, c, "asking", "ran") /\ output' = [output EXCEPT ![m][c] = x]

\* Any other answer, none, or enforcement off: the tool runs.
Fetches(m, c) ==
  /\ c \in Made(m) /\ tool[m][c] = "fetch"
  /\ \E x \in {"data", "nothing"} : Returns(m, c, x)
  /\ UNCHANGED <<smtp, guard, pc, model, body, told, outcome, emitted, loop, outside>>

\* How the tool and the SMTP server can part: the server takes the email or
\* not, and the tool hears of it or runs into an error.
Sendings == {d \in [took : BOOLEAN, says : Deliveries] :
               IF smtp THEN d.says # "simulated" /\ (d.says = "real" => d.took)
               ELSE d.says = "simulated" /\ ~d.took}

\* Faulty variant: an SMTP error falls back to simulation.
SendsOrSimulates(m, c) ==
  /\ c \in Made(m) /\ tool[m][c] = "email"
  /\ \E d \in Sendings :
       /\ Returns(m, c, IF d.says = "failed" THEN "simulated" ELSE d.says)
       /\ taken' = IF d.took THEN taken \cup {<<m, c>>} ELSE taken
       /\ log' = log \cup {<<m, c, IF d.says = "failed" THEN "simulated" ELSE d.says>>}
  /\ UNCHANGED <<smtp, guard, pc, model, body, told, outcome, emitted, loop, captureLog>>

\* send_email_tool: the record is appended to the log, or the disk fails and
\* the tool raises.
Sends(m, c) ==
  /\ c \in Made(m) /\ tool[m][c] = "email"
  /\ \E d \in Sendings :
       /\ taken' = IF d.took THEN taken \cup {<<m, c>>} ELSE taken
       /\ \/ Returns(m, c, d.says) /\ log' = log \cup {<<m, c, d.says>>}
          \/ Returns(m, c, "raised") /\ UNCHANGED log
  /\ UNCHANGED <<smtp, guard, pc, model, body, told, outcome, emitted, loop, captureLog>>

\* Faulty variant: the capture server answers before it writes the log.
PostsUnlogged(m, c) ==
  /\ c \in Made(m) /\ tool[m][c] = "post"
  /\ \E logged \in BOOLEAN :
       /\ Returns(m, c, "executed")
       /\ taken' = taken \cup {<<m, c>>}
       /\ captureLog' = IF logged THEN captureLog \cup {<<m, c>>} ELSE captureLog
  /\ UNCHANGED <<smtp, guard, pc, model, body, told, outcome, emitted, loop, log>>

\* post_external_tool: the capture server takes the post, then logs it; the
\* disk may fail it (500), the server die half-way, the client lose patience.
Posts(m, c) ==
  /\ c \in Made(m) /\ tool[m][c] = "post"
  /\ \/ /\ \E x \in {"unreachable", "unheard"} : Returns(m, c, x)
        /\ UNCHANGED <<taken, captureLog>>
     \/ \E logged \in BOOLEAN, x \in {"executed", "unlogged", "unheard"} :
          /\ x = "executed" => logged
          /\ x = "unlogged" => ~logged
          /\ Returns(m, c, x)
          /\ taken' = taken \cup {<<m, c>>}
          /\ captureLog' = IF logged THEN captureLog \cup {<<m, c>>} ELSE captureLog
  /\ UNCHANGED <<smtp, guard, pc, model, body, told, outcome, emitted, loop, log>>

\* What the post hook leaves of an output: it may put a notice in its place,
\* which begins as no known result and has no data.
Scanned(m, c) == IF guard[m] THEN {output[m][c], "quarantined"} ELSE {output[m][c]}

\* outcome["fetched"] afterwards: a fetch replaces it by what it returned, be
\* that the notice or another text without data, unless that begins as an error.
Remembered(m, c, x) ==
  IF tool[m][c] # "fetch" THEN {fetched[m]}
  ELSE CASE x = "data" -> {{c}} [] x = "quarantined" -> {{}} [] x = "nothing" -> {{}, fetched[m]}

\* Faulty variant: the data is carried forward before the scan.
ReportsRaw(m, c) ==
  /\ Moves(m, c, "ran", "back")
  /\ \E x \in Scanned(m, c) :
       /\ output' = [output EXCEPT ![m][c] = x]
       /\ last' = [last EXCEPT ![m] = x]
  /\ fetched' = [fetched EXCEPT ![m] = IF output[m][c] = "data" THEN {c} ELSE @]
  /\ Emits(m, "tool_result")
  /\ UNCHANGED <<smtp, guard, pc, model, body, told, blocked, outside>>

\* The end of _guarded: the scan, what the turn remembers, the event.
Reports(m, c) ==
  /\ Moves(m, c, "ran", "back")
  /\ \E x \in Scanned(m, c) :
       /\ output' = [output EXCEPT ![m][c] = x]
       /\ last' = [last EXCEPT ![m] = x]
       /\ \E f \in Remembered(m, c, x) : fetched' = [fetched EXCEPT ![m] = f]
  /\ Emits(m, "tool_result")
  /\ UNCHANGED <<smtp, guard, pc, model, body, told, blocked, outside>>

-----------------------------------------------------------------------------
(* The event loop.                                                           *)

threads == <<smtp, guard, pc, model, at, work, outcome, emitted>>

\* The callback of an event runs.
Puts(m) ==
  /\ ready[m] # <<>>
  /\ queue' = [queue EXCEPT ![m] = Append(@, Head(ready[m]))]
  /\ ready' = [ready EXCEPT ![m] = Tail(@)]
  /\ UNCHANGED <<threads, shown, stream, outside>>

\* The generator sends the next event, and ends after "done".
Yields(m) ==
  /\ stream[m] = "open" /\ queue[m] # <<>>
  /\ shown' = [shown EXCEPT ![m] = Append(@, Head(queue[m]))]
  /\ queue' = [queue EXCEPT ![m] = Tail(@)]
  /\ stream' = [stream EXCEPT ![m] = IF Head(queue[m]) = "done" THEN "done" ELSE @]
  /\ UNCHANGED <<threads, ready, outside>>

\* The generator ends early.
Ends(m) ==
  /\ stream' = [stream EXCEPT ![m] = "gone"]
  /\ ready' = [ready EXCEPT ![m] = <<>>] /\ queue' = [queue EXCEPT ![m] = <<>>]
  /\ UNCHANGED <<threads, shown, outside>>

\* Faulty variant: only the first event is waited for with a timeout.
TimesOutAtFirst(m) ==
  /\ stream[m] = "open" /\ queue[m] = <<>> /\ shown[m] = <<>>
  /\ Ends(m)

\* wait_for: nothing came for 180 s.  (The error the generator then sends of
\* its own is not among the events shown.)
TimesOut(m) ==
  /\ stream[m] = "open" /\ queue[m] = <<>>
  /\ Ends(m)

\* The browser closes the connection.
Leaves(m) ==
  /\ stream[m] = "open"
  /\ Ends(m)

-----------------------------------------------------------------------------
Thread(m, c) ==
  \/ Asks(m, c) \/ IsRefused(m, c) \/ Fetches(m, c) \/ Sends(m, c) \/ Posts(m, c) \/ Reports(m, c)

Next ==
  \E m \in Turns :
    \/ Opens(m) \/ Thinks(m) \/ Acts(m) \/ AnswersUser(m) \/ Fails(m) \/ Finally(m)
    \/ \E c \in Calls : Thread(m, c)
    \/ Puts(m) \/ Yields(m) \/ TimesOut(m) \/ Leaves(m)

(* The loop runs its callbacks, the generator and the timer.  The threads    *)
(* may hang for ever in the model, a tool or a server.                       *)
Fairness == \A m \in Turns : WF_vars(Puts(m)) /\ WF_vars(Yields(m)) /\ WF_vars(TimesOut(m))

Spec == Init /\ [][Next]_vars /\ Fairness

-----------------------------------------------------------------------------
(* The browser is told what the threads emit, all of it and in that order,   *)
(* as far as it is told at all; and a stream that ends by itself has told    *)
(* everything, an answer or an error before the end (chat.py emit,           *)
(* _StreamCallback._emit, chat_stream).                                      *)
StreamTellsAll ==
  \A m \in Turns :
    /\ IF stream[m] = "gone" THEN IsPrefix(shown[m], emitted[m])
       ELSE shown[m] \o queue[m] \o ready[m] = emitted[m]
    /\ stream[m] = "done" =>
         /\ shown[m] = emitted[m] /\ pc[m] = "over"
         /\ shown[m][Len(shown[m]) - 1] \in Answers \cup {"error"}

(* Part of DeliveriesAreAccounted.                                           *)
(* The logs know what became of the emails and posts: what is logged as real *)
(* the server has, what is logged as simulated it has not; what a tool calls *)
(* executed has left, and if the capture server answered 200 its log has it  *)
(* (communication_tools.py send_email_tool, compute_tools.py                 *)
(* post_external_tool, exfil_server capture).                                *)
LogsAreTrue ==
  /\ \A r \in log : /\ r[3] = "real" => <<r[1], r[2]>> \in taken
                    /\ r[3] = "simulated" => <<r[1], r[2]>> \notin taken
  /\ \A m \in Turns : \A c \in Made(m) :
       /\ output[m][c] \in {"executed", "unlogged"} => <<m, c>> \in taken
       /\ output[m][c] = "unreachable" => <<m, c>> \notin taken
       /\ output[m][c] = "executed" => <<m, c>> \in captureLog

(* Part of DeliveriesAreAccounted.                                           *)
(* Whatever order the parallel tools of a message finish in: an answer that  *)
(* speaks of a delivery speaks of a call of the model's last message, as the *)
(* log has it, and no call of the turn was refused; an answer that speaks of *)
(* a refusal speaks of a call that was refused (_guarded, _grounded_answer). *)
AnswerIsGrounded ==
  \A m \in Turns :
    pc[m] = "over" =>
      LET says    == emitted[m][Len(emitted[m]) - 1]
          refused == {c \in Made(m) : output[m][c] = "refused"}
      IN  /\ says \in Deliveries =>
               /\ \E c \in since[m]..calls[m] : <<m, c, says>> \in log
               /\ refused = {}
          /\ says = "blocked" => refused # {}

(* What the logs and the user are told of emails and posts is true of them,  *)
(* whatever the SMTP server, the capture server and the disk do and in       *)
(* whatever order the tools of one message finish.                           *)
DeliveriesAreAccounted == LogsAreTrue /\ AnswerIsGrounded

(* Under enforcement, what leaves in an email or a post is what the gateway  *)
(* was told at /check, and it carries no data that the scan held back from   *)
(* the agent, although the chat fills in data the model did not write        *)
(* (chat.py _fill_from_fetched, outcome["fetched"]).                         *)
NothingHeldBackLeaves ==
  \A e \in taken : LET m == e[1]  c == e[2]
                   IN  guard[m] => /\ body[m][c] = told[m][c]
                                   /\ \A f \in body[m][c] : output[m][f] = "data"

(* Every stream ends, also when the agent hangs (the 180 s of wait_for).     *)
StreamEnds == \A m \in Turns : stream[m] = "open" ~> stream[m] # "open"
============================================================================
