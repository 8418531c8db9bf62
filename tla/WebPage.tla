------------------------------ MODULE WebPage -------------------------------
(***************************************************************************)
(* The page of the web demo (the script in financeflow/web/app.py) at its  *)
(* two places that talk to a server while the user goes on clicking: the   *)
(* enforcement switch and the chat.  The script has one thread; a handler  *)
(* runs from one await to the next.                                        *)
(*                                                                         *)
(* Behind the switch: the web server passes the setting on and gives up    *)
(* after 3 s (api_toggle), the gateway writes it to the toggle file        *)
(* (agentguard/toggle.py), which outlives it, and the page polls           *)
(* /api/status.  Answers overtake each other.  Behind the chat: one stream *)
(* of events per message, here of one of each kind that matters.           *)
(***************************************************************************)
EXTENDS Integers, FiniteSets, Sequences

CONSTANTS
  MaxInputs,    \* bound: clicks on the switch, toggles from the shell, messages, New sessions
  MaxCrashes    \* bound: deaths of the gateway

ASSUME PageAssumption == MaxInputs \in Nat /\ MaxCrashes \in Nat

Inputs == 1..MaxInputs
Script == <<"token", "tool_start", "tool_verdict", "final_answer">>   \* the events of a stream

VARIABLES
  env,        \* the setting of AGENTGUARD_ENFORCEMENT
  up, crashes,\* the gateway is up; how often it died
  file,       \* _TOGGLE_FILE: "on", "off", or "cut" (none, or empty)
  kept,       \* history variable: what the last toggle it answered said, if none was cut off since
  wants,      \* wants[k]: what click k asks for
  request,    \* request[k]: on its way to the gateway: "no", "going", "gone"
  answer,     \* answer[k]: the page's fetch: "no", "heard", "error", "lost", "over"
  label, box, \* enforcement of the page; its checkbox
  polls,      \* the settings in the status answers on their way to the page
  session,    \* _chatSessionId is set
  asking,     \* chatNewSession's chatInit() waits for its answer
  phase,      \* phase[s]: where chatSend is: "none", "init", "reading", "over"
  own,        \* own[s]: the number its message got (_chatMsgSeq), of its bubble and cards
  heard,      \* heard[s]: how many events of its stream were handled
  seq,        \* _chatMsgSeq
  el,         \* _chatAgentEl: the number of the bubble, 0 for null
  buf,        \* _chatTokenBuf: the streams its tokens are from
  streaming,  \* _chatStreaming
  cards,      \* the messages with a tool card on the page
  shows,      \* shows[b]: the streams something of which is in bubble b or its cards
  text,       \* text[b]: the stream whose answer the bubble shows, 0 none, -1 an error
  inputs,     \* how many inputs so far
  disturbed   \* history variable: a stream may write elsewhere than in its own bubble

gate   == <<env, up, crashes, file, kept>>
switch == <<wants, request, answer, label, box, polls>>
lock   == <<session, asking, phase, own, seq, streaming>>
bubble == <<heard, el, buf, cards, shows, text>>
chat   == <<lock, bubble, disturbed>>
pageVars   == <<gate, switch, chat, inputs>>

PageInit ==
  /\ env \in BOOLEAN /\ up = TRUE /\ crashes = 0 /\ file = "cut" /\ kept = "none"
  /\ wants = [k \in Inputs |-> TRUE]
  /\ request = [k \in Inputs |-> "no"] /\ answer = [k \in Inputs |-> "over"]
  /\ label = TRUE /\ box = TRUE /\ polls = {}
  /\ session = FALSE /\ asking = TRUE
  /\ phase = [s \in Inputs |-> "none"] /\ own = [s \in Inputs |-> 0] /\ heard = [s \in Inputs |-> 0]
  /\ seq = 0 /\ el = 0 /\ buf = {} /\ streaming = FALSE
  /\ cards = {} /\ shows = [b \in Inputs |-> {}] /\ text = [b \in Inputs |-> 0]
  /\ inputs = 0 /\ disturbed = FALSE

Input == inputs < MaxInputs /\ inputs' = inputs + 1

-----------------------------------------------------------------------------
(* The gateway.                                                              *)

\* get_enforcement()
Enforced == IF file = "cut" THEN env ELSE file = "on"

Setting(on) == IF on THEN "on" ELSE "off"

Arrives(k) == request[k] = "going" /\ request' = [request EXCEPT ![k] = "gone"]

\* The page's fetch of click k ends in x, unless it has ended.
FetchEnds(k, x) == answer' = [answer EXCEPT ![k] = IF @ = "no" THEN x ELSE @]

\* POST /admin/toggle, whose answer may be too late
SetsToggle(k) ==
  /\ up /\ Arrives(k) /\ \E x \in {"heard", "error"} : FetchEnds(k, x)
  /\ file' = Setting(wants[k]) /\ kept' = Setting(wants[k])
  /\ UNCHANGED <<env, up, crashes, wants, label, box, polls, chat, inputs>>

\* agentguard.sh toggle: a request from inside the gateway's container, whose
\* failure is ignored.
ShellToggles(on) ==
  /\ Input
  /\ \/ up /\ file' = Setting(on) /\ kept' = Setting(on)
     \/ UNCHANGED <<file, kept>>
  /\ UNCHANGED <<env, up, crashes, switch, chat>>

\* The gateway dies between the truncation and the write of write_text.
DiesWriting(k) ==
  /\ up /\ crashes < MaxCrashes /\ Arrives(k) /\ FetchEnds(k, "error")
  /\ file' = "cut" /\ kept' = "none"
  /\ up' = FALSE /\ crashes' = crashes + 1
  /\ UNCHANGED <<env, wants, label, box, polls, chat, inputs>>

Dies ==
  /\ up /\ crashes < MaxCrashes
  /\ up' = FALSE /\ crashes' = crashes + 1
  /\ UNCHANGED <<env, file, kept, switch, chat, inputs>>

\* Faulty variant: the toggle is on the container's own disk.
RestartsFresh ==
  /\ ~up /\ up' = TRUE /\ file' = "cut"
  /\ UNCHANGED <<env, crashes, kept, switch, chat, inputs>>

\* The file is on a volume.
Restarts ==
  /\ ~up /\ up' = TRUE
  /\ UNCHANGED <<env, crashes, file, kept, switch, chat, inputs>>

-----------------------------------------------------------------------------
(* The switch.                                                               *)

\* The browser ticks the box, and toggleEnforcement asks for what it says.
Clicks(k) ==
  /\ Input /\ k = inputs + 1
  /\ box' = ~box
  /\ wants' = [wants EXCEPT ![k] = ~box]
  /\ request' = [request EXCEPT ![k] = "going"] /\ answer' = [answer EXCEPT ![k] = "no"]
  /\ UNCHANGED <<gate, label, polls, chat>>

\* The request does not get through.
IsLost(k) ==
  /\ Arrives(k) /\ FetchEnds(k, "error")
  /\ UNCHANGED <<gate, wants, label, box, polls, chat, inputs>>

\* The web server gives up after 3 s (503), or itself fails the page; the
\* request may reach the gateway all the same.
GivesUp(k) ==
  /\ answer[k] = "no" /\ \E x \in {"error", "lost"} : FetchEnds(k, x)
  /\ UNCHANGED <<gate, wants, request, label, box, polls, chat, inputs>>

\* The rest of toggleEnforcement: what the gateway says, or what the box says
\* by now; an exception unticks the box.
Hears(k) ==
  /\ answer[k] \in {"heard", "error", "lost"} /\ answer' = [answer EXCEPT ![k] = "over"]
  /\ \/ answer[k] = "heard" /\ label' = wants[k] /\ box' = wants[k]
     \/ answer[k] = "error" /\ label' = box /\ UNCHANGED box
     \/ answer[k] = "lost" /\ box' = ~box /\ UNCHANGED label
  /\ UNCHANGED <<gate, wants, request, polls, chat, inputs>>

\* /api/status asks the gateway; without it enforcement is said to be on.
ReadsStatus ==
  /\ polls' = polls \cup {IF up THEN Enforced ELSE TRUE}
  /\ UNCHANGED <<gate, wants, request, answer, label, box, chat, inputs>>

\* Faulty variant: the status is shown in the label only.
LabelsStatus(on) ==
  /\ on \in polls /\ polls' = polls \ {on}
  /\ label' = on
  /\ UNCHANGED <<gate, wants, request, answer, box, chat, inputs>>

\* loadStatus
ShowsStatus(on) ==
  /\ on \in polls /\ polls' = polls \ {on}
  /\ label' = on /\ box' = on
  /\ UNCHANGED <<gate, wants, request, answer, chat, inputs>>

-----------------------------------------------------------------------------
(* The chat.                                                                 *)

Reading == {s \in Inputs : phase[s] = "reading"}

\* chatSend after its await: a new bubble, and the request.
Begins(s) ==
  /\ phase' = [phase EXCEPT ![s] = "reading"]
  /\ seq' = seq + 1 /\ own' = [own EXCEPT ![s] = seq + 1]
  /\ el' = seq + 1 /\ buf' = {} /\ streaming' = TRUE

\* Faulty variant: a message is sent while another streams.
SendsAnyway(s) ==
  /\ Input /\ s = inputs + 1
  /\ \/ session /\ Begins(s)
     \/ ~session /\ phase' = [phase EXCEPT ![s] = "init"] /\ UNCHANGED <<own, seq, el, buf, streaming>>
  /\ disturbed' = (disturbed \/ \E t \in Inputs : phase[t] = "init")
  /\ UNCHANGED <<gate, switch, session, asking, heard, cards, shows, text>>

\* chatSend, with a session or before there is one.
SendsMessage(s) ==
  /\ ~streaming /\ Input /\ s = inputs + 1
  /\ \/ session /\ Begins(s)
     \/ ~session /\ phase' = [phase EXCEPT ![s] = "init"] /\ UNCHANGED <<own, seq, el, buf, streaming>>
  /\ disturbed' = (disturbed \/ \E t \in Inputs : phase[t] = "init")
  /\ UNCHANGED <<gate, switch, session, asking, heard, cards, shows, text>>

\* chatInit() returns, with a session or an error; chatSend goes on anyway.
\* (A second message that waited is sent although one now streams.)
SendsOn(s) ==
  /\ phase[s] = "init" /\ Begins(s)
  /\ session' \in {session, TRUE}
  /\ UNCHANGED <<gate, switch, asking, heard, cards, shows, text, disturbed, inputs>>

\* chatNewSession clears the page; a stream that is being read is not cancelled.
NewSession ==
  /\ Input
  /\ session' = FALSE /\ asking' = TRUE
  /\ el' = 0 /\ buf' = {} /\ streaming' = FALSE /\ cards' = {}
  /\ disturbed' = (disturbed \/ Reading # {})
  /\ UNCHANGED <<gate, switch, phase, own, heard, seq, shows, text>>

GetsSession ==
  /\ asking /\ asking' = FALSE /\ session' \in {session, TRUE}
  /\ UNCHANGED <<gate, switch, phase, own, seq, streaming, bubble, disturbed, inputs>>

\* Something of the streams ss comes to stand in bubble b, if there is one.
Writes(b, ss) == shows' = IF b = 0 THEN shows ELSE [shows EXCEPT ![b] = @ \cup ss]

\* _chatHandleEvent: what it writes to is looked up in the globals.
Handles(s) ==
  /\ phase[s] = "reading" /\ heard[s] < Len(Script)
  /\ heard' = [heard EXCEPT ![s] = @ + 1]
  /\ LET event == Script[heard[s] + 1]
     IN  \/ /\ event = "token"
            /\ buf' = buf \cup {s} /\ Writes(el, buf')
            /\ UNCHANGED <<cards, text>>
         \/ /\ event = "tool_start"
            /\ Writes(el, {s}) /\ cards' = IF el = 0 THEN cards ELSE cards \cup {el}
            /\ UNCHANGED <<buf, text>>
         \/ /\ event = "tool_verdict"
            /\ Writes(IF seq \in cards THEN seq ELSE 0, {s})
            /\ UNCHANGED <<buf, cards, text>>
         \/ /\ event = "final_answer"
            /\ Writes(el, {s}) /\ text' = IF el = 0 THEN text ELSE [text EXCEPT ![el] = s]
            /\ UNCHANGED <<buf, cards>>
  /\ UNCHANGED <<gate, switch, lock, el, disturbed, inputs>>

\* The finally block.
StopsReading(s) ==
  /\ phase[s] = "reading" /\ phase' = [phase EXCEPT ![s] = "over"]
  /\ streaming' = FALSE /\ el' = 0
  /\ UNCHANGED <<gate, switch, session, asking, own, seq, heard, buf, cards, shows, disturbed, inputs>>

ReadsToTheEnd(s) == heard[s] = Len(Script) /\ StopsReading(s) /\ UNCHANGED text

\* A refused request, a broken connection, an error in place of the answer.
Breaks(s) ==
  /\ heard[s] < Len(Script) /\ StopsReading(s)
  /\ text' = IF el = 0 THEN text ELSE [text EXCEPT ![el] = -1]

-----------------------------------------------------------------------------
Gateway == \/ Dies \/ Restarts \/ \E on \in BOOLEAN : ShellToggles(on)
           \/ \E k \in Inputs : SetsToggle(k) \/ DiesWriting(k)

Switch == \/ ReadsStatus \/ \E on \in BOOLEAN : ShowsStatus(on)
          \/ \E k \in Inputs : Clicks(k) \/ IsLost(k) \/ GivesUp(k) \/ Hears(k)

Chat == \/ NewSession \/ GetsSession
        \/ \E s \in Inputs : SendsMessage(s) \/ SendsOn(s) \/ Handles(s) \/ ReadsToTheEnd(s) \/ Breaks(s)

PageNext == Gateway \/ Switch \/ Chat

(* The page polls every 5 s for ever, and every request of the switch ends:  *)
(* in an answer or by its timeout.  The user owes no input and nobody        *)
(* restarts the gateway.                                                     *)
PageFairness ==
  /\ WF_pageVars(ReadsStatus) /\ \A on \in BOOLEAN : WF_pageVars(ShowsStatus(on))
  /\ \A k \in Inputs : WF_pageVars(SetsToggle(k) \/ IsLost(k)) /\ WF_pageVars(GivesUp(k)) /\ WF_pageVars(Hears(k))

PageSpec == PageInit /\ [][PageNext]_pageVars /\ PageFairness

-----------------------------------------------------------------------------
(* What a toggle the gateway has answered says stays in force until the next *)
(* one reaches it, however often the gateway dies and is started again       *)
(* (toggle.py set_enforcement, the volume of docker-compose.yml).            *)
ToggleIsKept == kept # "none" => Enforced = (kept = "on")

(* Once the gateway stays up, the label and the box of the page come to say  *)
(* what it enforces, and do so for good when users leave the switch and the  *)
(* shell alone: polls mend what lost, late and overtaken answers left there  *)
(* (app.py toggleEnforcement, loadStatus, api_status).                       *)
PanelCatchesUp == <>[]up => <>[](label = Enforced /\ box = Enforced)

(* Unless New session is pressed while a stream is read, or two messages are *)
(* sent before there is a session, the page reads one stream at a time, is   *)
(* locked exactly while it does, and each bubble with its cards shows its    *)
(* own stream and, once that is over, its answer (app.py chatSend,           *)
(* _chatHandleEvent; the comment on _chatMsgSeq).                            *)
OwnStreamOnly ==
  ~disturbed =>
    /\ Cardinality(Reading) <= 1 /\ (streaming <=> Reading # {})
    /\ \A s \in Inputs :
         own[s] # 0 =>
           /\ shows[own[s]] \subseteq {s}
           /\ phase[s] = "over" /\ heard[s] = Len(Script) => text[own[s]] = s
=============================================================================
