--------------------------- MODULE SessionProofs ---------------------------
(***************************************************************************)
(* Safety of the guarded sessions, for any sessions, tools, calls, flips   *)
(* of the toggle and deaths of the gateway, and any size of the feed.      *)
(***************************************************************************)
EXTENDS GuardedSessions, TLAPS

CheckStates == {"none", "sent", "triage", "orphan", "answered", "broken", "closed"}

Entries == {"pre_hook", "post_hook", "sandbox"} \X Calls

(* Types of what the proofs speak about.                                     *)
SessionType ==
  /\ toggle \in BOOLEAN /\ up \in BOOLEAN /\ crashes \in Nat
  /\ check \in [Calls -> CheckStates]
  /\ age \in [Calls -> Nat]
  /\ reply \in [Calls -> Replies \cup {"none"}]
  /\ feed \in Seq(Entries)
  /\ off \in [Calls -> BOOLEAN] /\ outage \in [Calls -> BOOLEAN]
  /\ kind \in [Sessions -> Kinds] /\ guard \in [Sessions -> BOOLEAN]
  /\ pc \in [Sessions -> {"start", "idle", "checking", "run", "scan", "ended"}]
  /\ step \in [Sessions -> 0..Steps]
  /\ ran \in [Calls -> {"no", "app", "container"}]
  /\ dirty \in [Calls -> BOOLEAN]
  /\ shown \in [Calls -> {"none", "raw", "quarantined"}]

\* The session of c is about to do p with it.
At(c, p) == pc[c[1]] = p /\ step[c[1]] = c[2]

\* The session of c asks before it runs a tool.
Asks(c) == kind[c[1]] # "chat" \/ guard[c[1]]

(* A call that has not begun, or has not got its answer, has not run; a      *)
(* session that has not started has begun none.                              *)
NotYetInv ==
  /\ \A s \in Sessions : pc[s] = "start" => step[s] = 0
  /\ \A s \in Sessions : pc[s] \in {"checking", "run", "scan"} => step[s] > 0
  /\ \A c \in Calls :
       /\ step[c[1]] < c[2] \/ At(c, "checking") => ran[c] = "no"
       /\ step[c[1]] < c[2] \/ At(c, "checking") \/ At(c, "run") \/ At(c, "scan")
            => shown[c] = "none"

(* The request of a call is open just while its session waits for it; after  *)
(* that at most its handler is left.  A connection breaks only in an outage, *)
(* triage never has a call for longer than the gateway waits, and an answer  *)
(* without a verdict has its reason.                                         *)
CheckInv ==
  \A c \in Calls :
    /\ At(c, "checking") => Asks(c) /\ check[c] \in {"sent", "triage", "answered", "broken"}
    /\ ~At(c, "checking") => check[c] \in {"none", "closed", "orphan"}
    /\ check[c] = "broken" => outage[c]
    /\ age[c] <= TriageTimeout
    /\ check[c] = "answered" => /\ reply[c] \in Replies
                                /\ reply[c] = "bypassed" => off[c]
                                /\ reply[c] = "unavailable" => outage[c]

(* While a session that asks is busy with a call, it is noted of the call    *)
(* that the toggle is off, or the gateway down.                              *)
WindowInv ==
  \A c \in Calls :
    Asks(c) /\ (At(c, "checking") \/ At(c, "run") \/ At(c, "scan")) =>
      (toggle \/ off[c]) /\ (up \/ outage[c])

(* What a guarded call was let run on.                                       *)
ReleaseInv ==
  \A c \in Guarded :
    Ran(c) \/ At(c, "run") \/ At(c, "scan") =>
      /\ check[c] = "closed"
      /\ reply[c] \in Refusals => kind[c[1]] = "chat" /\ outage[c]
      /\ reply[c] \in {"allow", "grey_band"} \/ off[c] \/ outage[c]

(* A verdict is on record until it is pushed out.                            *)
RecordInv ==
  /\ Len(feed) <= MaxFeed
  /\ crashes = 0 /\ Len(feed) < MaxFeed =>
       \A c \in Calls : reply[c] \in TriageVerdicts => OnRecord("pre_hook", c)

(* What a guarded script has left behind: calls that ran, were let run and   *)
(* whose output was passed on.                                               *)
ChainInv ==
  \A c \in Guarded :
    kind[c[1]] # "chat" =>
      /\ At(c, "run") \/ At(c, "scan") => reply[c] \in Passes \cup {"unavailable"}
      /\ At(c, "scan") => Ran(c)
      /\ c[2] < step[c[1]] \/ At(c, "idle") =>
           /\ check[c] = "closed"
           /\ Ran(c) /\ shown[c] = "raw" /\ reply[c] \in Passes \cup {"unavailable"}

SessionInv == SessionType /\ NotYetInv /\ CheckInv /\ WindowInv /\ ReleaseInv
              /\ RecordInv /\ QuarantineHolds /\ ChainInv

-----------------------------------------------------------------------------
\* A call is its session and its number.
LEMMA CallFacts ==
  /\ \A c \in Calls : c[1] \in Sessions /\ c[2] \in 1..Steps
  /\ \A s \in Sessions, c \in Calls : c = Current(s) <=> c[1] = s /\ c[2] = step[s]
  /\ \A s \in Sessions : step[s] \in 1..Steps => Current(s) \in Calls
  BY DEF Calls, Current

\* What appendleft does to the feed: nothing is lost while there is room.
LEMMA RecordFacts ==
  ASSUME NEW E, feed \in Seq(E), NEW type, NEW c, <<type, c>> \in E, Record(type, c)
  PROVE  /\ feed' \in Seq(E) /\ Len(feed') <= MaxFeed
         /\ OnRecord(type, c)'
         /\ Len(feed') < MaxFeed =>
              Len(feed) < MaxFeed /\ \A t, d : OnRecord(t, d) => OnRecord(t, d)'
<1> DEFINE e == <<type, c>>
           n == IF Len(feed) + 1 > MaxFeed THEN MaxFeed ELSE Len(feed) + 1
           longer == <<e>> \o feed
<1>1. longer \in Seq(E) /\ Len(longer) = Len(feed) + 1 /\ longer[1] = e
      /\ \A i \in 1..Len(feed) : longer[i + 1] = feed[i]
  OBVIOUS
<1>2. feed' = SubSeq(longer, 1, n)
  BY <1>1 DEF Record
<1>3. n \in Nat /\ n >= 1 /\ n <= MaxFeed /\ n <= Len(feed) + 1
      /\ (n < MaxFeed => n = Len(feed) + 1)
  BY GatewayAssumption
<1> HIDE DEF n, longer
<1>4. feed' \in Seq(E) /\ Len(feed') = n /\ \A i \in 1..n : feed'[i] = longer[i]
  BY <1>1, <1>2, <1>3
<1>5. DOMAIN feed' = 1..n /\ DOMAIN feed = 1..Len(feed)
  BY <1>4
<1>6. OnRecord(type, c)'
  <2>1. 1 \in DOMAIN feed' /\ feed'[1] = e
    BY <1>1, <1>3, <1>4, <1>5
  <2>2. QED
    BY <2>1 DEF OnRecord
<1>7. ASSUME Len(feed') < MaxFeed, NEW t, NEW d, OnRecord(t, d) PROVE OnRecord(t, d)'
  <2>1. PICK i \in DOMAIN feed : feed[i] = <<t, d>>
    BY <1>7 DEF OnRecord
  <2>2. i + 1 \in DOMAIN feed' /\ feed'[i + 1] = <<t, d>>
    BY <2>1, <1>1, <1>3, <1>4, <1>5, <1>7
  <2>3. QED
    BY <2>2 DEF OnRecord
<1>8. Len(feed') <= MaxFeed /\ (Len(feed') < MaxFeed => Len(feed) < MaxFeed)
  BY <1>1, <1>3, <1>4, GatewayAssumption
<1>9. QED
  BY <1>4, <1>6, <1>7, <1>8

LEMMA InitSession == Init => SessionInv
<1> SUFFICES ASSUME Init PROVE SessionInv
  OBVIOUS
<1> USE GatewayAssumption DEF Init, GatewayInit
<1>1. SessionType
  BY DEF SessionType, CheckStates, Replies, Refusals, Passes
<1>2. NotYetInv
  BY CallFacts DEF NotYetInv, At
<1>3. CheckInv
  BY CallFacts DEF CheckInv, At, TriageTimeout
<1>4. WindowInv
  BY CallFacts DEF WindowInv, At
<1>5. ReleaseInv /\ QuarantineHolds /\ ChainInv
  BY CallFacts DEF ReleaseInv, QuarantineHolds, ChainInv, Guarded
<1>6. RecordInv
  BY DEF RecordInv, TriageVerdicts
<1>7. QED
  BY <1>1, <1>2, <1>3, <1>4, <1>5, <1>6 DEF SessionInv

LEMMA TypeNext == SessionInv /\ [Next]_vars => SessionType'
<1> SUFFICES ASSUME SessionInv, [Next]_vars PROVE SessionType'
  OBVIOUS
<1> USE DEF SessionInv, SessionType, Close, gateway, client, CheckStates
<1>1. ASSUME NEW s \in Sessions, Starts(s) PROVE SessionType'
  BY <1>1 DEF Starts
<1>2. ASSUME NEW s \in Sessions, NEW t \in Tools, BeginsCall(s, t) PROVE SessionType'
  <2>1. step[s] + 1 \in 0..Steps /\ step' = [step EXCEPT ![s] = step[s] + 1]
    BY <1>2, GatewayAssumption DEF BeginsCall
  <2>2. pc' \in [Sessions -> {"start", "idle", "checking", "run", "scan", "ended"}]
    BY <1>2 DEF BeginsCall
  <2>3. /\ check' \in [Calls -> CheckStates]
        /\ off' \in [Calls -> BOOLEAN] /\ outage' \in [Calls -> BOOLEAN]
    BY <1>2 DEF BeginsCall, Post
  <2>4. UNCHANGED <<toggle, up, age, reply, feed, crashes, kind, guard, ran, dirty, shown>>
    BY <1>2 DEF BeginsCall, Post
  <2>5. QED
    BY <2>1, <2>2, <2>3, <2>4
<1>3. ASSUME NEW s \in Sessions, ReadsRefusal(s) PROVE SessionType'
  BY <1>3 DEF ReadsRefusal, Refused
<1>4. ASSUME NEW s \in Sessions, ReadsPass(s) PROVE SessionType'
  BY <1>4 DEF ReadsPass
<1>5. ASSUME NEW s \in Sessions, CheckFails(s) PROVE SessionType'
  BY <1>5 DEF CheckFails, Refused
<1>6. ASSUME NEW s \in Sessions, RunsTool(s) PROVE SessionType'
  BY <1>6 DEF RunsTool, Outputs, Unscanned
<1>7. ASSUME NEW s \in Sessions, RunsContained(s) PROVE SessionType'
  <2>1. feed' \in Seq(Entries)
    <3>1. <<"sandbox", Current(s)>> \in Entries
      BY <1>7, CallFacts DEF RunsContained, NotYetInv, Entries
    <3>2. QED
      BY <1>7, <3>1, RecordFacts DEF RunsContained
  <2>2. UNCHANGED <<toggle, up, check, age, reply, crashes, off, outage, kind, guard, step, shown>>
    BY <1>7 DEF RunsContained
  <2>3. /\ pc' \in [Sessions -> {"start", "idle", "checking", "run", "scan", "ended"}]
        /\ ran' \in [Calls -> {"no", "app", "container"}]
    BY <1>7 DEF RunsContained
  <2>4. dirty' \in [Calls -> BOOLEAN]
    BY <1>7 DEF RunsContained, Outputs
  <2>5. QED
    BY <2>1, <2>2, <2>3, <2>4
<1>8. ASSUME NEW s \in Sessions, SandboxBypassed(s) \/ SandboxFails(s) PROVE SessionType'
  <2>1. UNCHANGED <<gateway, kind, guard, step, shown>>
    BY <1>8 DEF SandboxBypassed, SandboxFails
  <2>2. /\ pc' \in [Sessions -> {"start", "idle", "checking", "run", "scan", "ended"}]
        /\ ran' \in [Calls -> {"no", "app", "container"}]
    <3>1. /\ pc' = [pc EXCEPT ![s] = "scan"]
          /\ \E where \in {"no", "app", "container"} :
               ran' = [ran EXCEPT ![Current(s)] = where]
      BY <1>8 DEF SandboxBypassed, SandboxFails
    <3>2. QED
      BY <3>1
  <2>3. dirty' \in [Calls -> BOOLEAN]
    <3>1. (\E findings \in BOOLEAN : Outputs(Current(s), findings)) \/ UNCHANGED dirty
      BY <1>8 DEF SandboxBypassed, SandboxFails
    <3>2. QED
      BY <3>1 DEF Outputs
  <2>4. QED
    BY <2>1, <2>2, <2>3
<1>9. ASSUME NEW s \in Sessions, Scans(s) PROVE SessionType'
  <2>1. feed' \in Seq(Entries)
    <3>1. <<"post_hook", Current(s)>> \in Entries
      BY <1>9, CallFacts DEF Scans, NotYetInv, Entries
    <3>2. QED
      BY <1>9, <3>1, RecordFacts DEF Scans
  <2>2. UNCHANGED <<toggle, up, check, age, reply, crashes, off, outage, kind, guard, step, ran, dirty>>
    BY <1>9 DEF Scans
  <2>3. /\ pc' \in [Sessions -> {"start", "idle", "checking", "run", "scan", "ended"}]
        /\ shown' \in [Calls -> {"none", "raw", "quarantined"}]
    BY <1>9 DEF Scans, Refused
  <2>4. QED
    BY <2>1, <2>2, <2>3
<1>10. ASSUME NEW s \in Sessions, ScanSkipped(s) \/ Ends(s) PROVE SessionType'
  BY <1>10 DEF ScanSkipped, Unscanned, Ends
<1>11. ASSUME NEW c \in Calls, Received(c) \/ TriageFails(c), UNCHANGED client PROVE SessionType'
  <2>1. UNCHANGED <<toggle, up, feed, crashes, off>> /\ outage' \in [Calls -> BOOLEAN]
    BY <1>11 DEF Received, Bypasses, IntentDenies, CallsTriage, TriageFails
  <2>2. CASE CallsTriage(c)
    BY <1>11, <2>1, <2>2 DEF CallsTriage
  <2>3. CASE \E r \in Replies : Answer(c, r)
    BY <1>11, <2>1, <2>3 DEF Answer
  <2>4. QED
    BY <1>11, <2>2, <2>3
    DEF Received, Bypasses, IntentDenies, TriageFails, Replies, Refusals, Passes
<1>12. ASSUME NEW c \in Calls, NEW v \in TriageVerdicts, VerdictArrives(c, v), UNCHANGED client
       PROVE  SessionType'
  <2>1. feed' \in Seq(Entries)
    <3>1. <<"pre_hook", c>> \in Entries
      BY DEF Entries
    <3>2. QED
      BY <1>12, <3>1, RecordFacts DEF VerdictArrives
  <2>2. UNCHANGED <<toggle, up, crashes, off, outage>>
    BY <1>12 DEF VerdictArrives
  <2>3. v \in Replies \cup {"none"}
    BY DEF TriageVerdicts, Replies, Refusals, Passes
  <2>4. /\ check' \in [Calls -> CheckStates] /\ age' \in [Calls -> Nat]
        /\ reply' \in [Calls -> Replies \cup {"none"}]
    BY <1>12, <2>3 DEF VerdictArrives, Answer
  <2>5. QED
    BY <1>12, <2>1, <2>2, <2>4
<1>13. CASE (SetEnforcement(Active) \/ Restart) /\ UNCHANGED client
  <2>1. toggle' \in BOOLEAN /\ up' \in BOOLEAN
    BY <1>13 DEF SetEnforcement, Restart
  <2>2. off' \in [Calls -> BOOLEAN]
    <3>1. CASE SetEnforcement(Active)
      <4>1. off' = [c \in Calls |-> off[c] \/ (c \in Active /\ toggle)]
        BY <3>1 DEF SetEnforcement
      <4>2. QED
        BY <4>1, Zenon
    <3>2. CASE Restart
      BY <3>2 DEF Restart
    <3>3. QED
      BY <1>13, <3>1, <3>2
  <2>3. UNCHANGED <<check, age, reply, feed, crashes, outage>>
    BY <1>13 DEF SetEnforcement, Restart
  <2>4. QED
    BY <1>13, <2>1, <2>2, <2>3
<1>14. CASE Crash(Active) /\ UNCHANGED client
  <2>1. up' = FALSE /\ crashes' \in Nat
    BY <1>14, SMT DEF Crash
  <2>2. check' \in [Calls -> CheckStates] /\ age' \in [Calls -> Nat]
    BY <1>14 DEF Crash
  <2>3. outage' \in [Calls -> BOOLEAN]
    BY <1>14 DEF Crash
  <2>4. feed' \in Seq(Entries) /\ UNCHANGED <<toggle, reply, off>>
    BY <1>14 DEF Crash
  <2>5. QED
    BY <1>14, <2>1, <2>2, <2>3, <2>4
<1>15. CASE Tick
  BY <1>15 DEF Tick
<1>16. CASE UNCHANGED vars
  BY <1>16 DEF vars
<1>17. QED
  BY <1>1, <1>2, <1>3, <1>4, <1>5, <1>6, <1>7, <1>8, <1>9, <1>10, <1>11, <1>12, <1>13,
     <1>14, <1>15, <1>16 DEF Next, Session, Handler

\* A handler has the call it answers, and touches no other.
LEMMA HandlerFacts ==
  ASSUME SessionType, NEW c \in Calls, Handler(c)
  PROVE  /\ UNCHANGED <<toggle, up, off>>
         /\ check[c] \in {"sent", "triage", "orphan"}
         /\ \A d \in Calls : outage[d] => outage'[d]
         /\ \A d \in Calls : d # c => check'[d] = check[d] /\ reply'[d] = reply[d]
<1> USE DEF SessionType, Answer
<1>1. CASE Bypasses(c)
  BY <1>1 DEF Bypasses
<1>2. CASE IntentDenies(c)
  BY <1>2 DEF IntentDenies
<1>3. CASE CallsTriage(c)
  BY <1>3 DEF CallsTriage
<1>4. CASE TriageFails(c)
  BY <1>4 DEF TriageFails, InTriage
<1>5. ASSUME NEW v \in TriageVerdicts, VerdictArrives(c, v)
      PROVE  /\ UNCHANGED <<toggle, up, off>>
             /\ check[c] \in {"sent", "triage", "orphan"}
             /\ \A d \in Calls : outage[d] => outage'[d]
             /\ \A d \in Calls : d # c => check'[d] = check[d] /\ reply'[d] = reply[d]
  BY <1>5 DEF VerdictArrives, InTriage
<1>6. QED
  BY <1>1, <1>2, <1>3, <1>4, <1>5 DEF Handler, Received

LEMMA NotYetNext == SessionInv /\ [Next]_vars => NotYetInv'
<1> SUFFICES ASSUME SessionInv, [Next]_vars PROVE NotYetInv'
  OBVIOUS
<1> USE CallFacts, GatewayAssumption DEF SessionInv, SessionType, NotYetInv, At
<1>1. ASSUME NEW s \in Sessions, Starts(s) PROVE NotYetInv'
  BY <1>1 DEF Starts
<1>2. ASSUME NEW s \in Sessions, NEW t \in Tools, BeginsCall(s, t) PROVE NotYetInv'
  BY <1>2 DEF BeginsCall
<1>3. ASSUME NEW s \in Sessions, ReadsRefusal(s) \/ ReadsPass(s) \/ CheckFails(s)
      PROVE NotYetInv'
  BY <1>3 DEF ReadsRefusal, ReadsPass, CheckFails, Refused
<1>4. ASSUME NEW s \in Sessions, RunsTool(s) PROVE NotYetInv'
  BY <1>4 DEF RunsTool, Unscanned
<1>5. ASSUME NEW s \in Sessions, RunsContained(s) PROVE NotYetInv'
  BY <1>5 DEF RunsContained
<1>6. ASSUME NEW s \in Sessions, SandboxBypassed(s) \/ SandboxFails(s) PROVE NotYetInv'
  <2>1. /\ pc[s] = "run" /\ pc' = [pc EXCEPT ![s] = "scan"] /\ UNCHANGED <<step, shown>>
        /\ \E where \in {"no", "app", "container"} : ran' = [ran EXCEPT ![Current(s)] = where]
    BY <1>6 DEF SandboxBypassed, SandboxFails
  <2>2. QED
    BY <2>1
<1>7. ASSUME NEW s \in Sessions, Scans(s) PROVE NotYetInv'
  BY <1>7 DEF Scans, Refused
<1>8. ASSUME NEW s \in Sessions, ScanSkipped(s) \/ Ends(s) PROVE NotYetInv'
  <2>1. CASE ScanSkipped(s)
    BY <2>1 DEF ScanSkipped, Unscanned
  <2>2. CASE Ends(s)
    BY <2>2 DEF Ends
  <2>3. QED
    BY <1>8, <2>1, <2>2
<1>9. CASE UNCHANGED client
  BY <1>9 DEF client
<1>10. QED
  BY <1>1, <1>2, <1>3, <1>4, <1>5, <1>6, <1>7, <1>8, <1>9 DEF Next, Session, Tick, vars

LEMMA CheckNext == SessionInv /\ [Next]_vars => CheckInv'
<1> SUFFICES ASSUME SessionInv, [Next]_vars PROVE CheckInv'
  OBVIOUS
<1> USE CallFacts, GatewayAssumption
    DEF SessionInv, SessionType, NotYetInv, CheckInv, WindowInv, At, Asks, Close, gateway, client
<1>1. ASSUME NEW s \in Sessions, Starts(s) PROVE CheckInv'
  BY <1>1 DEF Starts
<1>2. ASSUME NEW s \in Sessions, NEW t \in Tools, BeginsCall(s, t) PROVE CheckInv'
  <2> DEFINE new == <<s, step[s] + 1>>
  <2>1. new \in Calls /\ \A c \in Calls : c = new <=> c[1] = s /\ c[2] = step[s] + 1
    BY <1>2 DEF BeginsCall, Calls
  <2>2. pc[s] = "idle" /\ step' = [step EXCEPT ![s] = @ + 1]
        /\ UNCHANGED <<kind, guard, age, reply>>
    BY <1>2 DEF BeginsCall, Post
  <2> HIDE DEF new
  <2>3. CASE /\ Asks(new) /\ pc' = [pc EXCEPT ![s] = "checking"]
             /\ check' = [check EXCEPT ![new] = IF up THEN "sent" ELSE "broken"]
             /\ off' = [off EXCEPT ![new] = ~toggle]
             /\ outage' = [outage EXCEPT ![new] = ~up]
    <3>1. CASE up
      BY <2>1, <2>2, <2>3, <3>1
    <3>2. CASE ~up
      <4>1. check' = [check EXCEPT ![new] = "broken"] /\ outage' = [outage EXCEPT ![new] = TRUE]
        BY <2>3, <3>2
      <4>2. QED
        BY <2>1, <2>2, <2>3, <4>1
    <3>3. QED
      BY <3>1, <3>2
  <2>4. CASE pc' = [pc EXCEPT ![s] = "run"] /\ UNCHANGED <<check, off, outage>>
    BY <2>1, <2>2, <2>4
  <2>5. QED
    <3>1. CASE kind[s] = "chat" /\ ~guard[s]
      BY <1>2, <2>4, <3>1 DEF BeginsCall
    <3>2. CASE ~(kind[s] = "chat" /\ ~guard[s])
      BY <1>2, <2>1, <2>3, <3>2 DEF BeginsCall, Post, new
    <3>3. QED
      BY <3>1, <3>2
<1>3. ASSUME NEW s \in Sessions, ReadsRefusal(s) PROVE CheckInv'
  BY <1>3 DEF ReadsRefusal, Refused
<1>4. ASSUME NEW s \in Sessions, ReadsPass(s) PROVE CheckInv'
  BY <1>4 DEF ReadsPass
<1>5. ASSUME NEW s \in Sessions, CheckFails(s) PROVE CheckInv'
  BY <1>5 DEF CheckFails, GivesUp, Refused
<1>6. ASSUME NEW s \in Sessions,
             RunsTool(s) \/ RunsContained(s) \/ SandboxBypassed(s) \/ SandboxFails(s)
      PROVE  CheckInv'
  <2>1. /\ pc[s] = "run" /\ UNCHANGED <<check, age, reply, off, outage, kind, guard, step>>
        /\ pc' \in {[pc EXCEPT ![s] = "idle"], [pc EXCEPT ![s] = "scan"]}
    BY <1>6 DEF RunsTool, RunsContained, SandboxBypassed, SandboxFails, Unscanned
  <2>2. QED
    BY <2>1
<1>7. ASSUME NEW s \in Sessions, Scans(s) \/ ScanSkipped(s) \/ Ends(s) PROVE CheckInv'
  <2>1. /\ pc[s] \in {"scan", "idle"} /\ UNCHANGED <<check, age, reply, off, outage, kind, guard, step>>
        /\ pc' \in {[pc EXCEPT ![s] = "idle"], [pc EXCEPT ![s] = "ended"]}
    BY <1>7 DEF Scans, ScanSkipped, Ends, Refused, Unscanned
  <2>2. QED
    BY <2>1
<1>8. ASSUME NEW c \in Calls, Received(c), UNCHANGED client PROVE CheckInv'
  <2>1. CASE Bypasses(c)
    BY <1>8, <2>1 DEF Bypasses, Answer, Replies, Refusals, Passes, TriageTimeout
  <2>2. CASE IntentDenies(c)
    BY <1>8, <2>2 DEF IntentDenies, Answer, Replies, Refusals, Passes, TriageTimeout
  <2>3. CASE CallsTriage(c)
    BY <1>8, <2>3 DEF CallsTriage
  <2>4. QED
    BY <1>8, <2>1, <2>2, <2>3 DEF Received
<1>9. ASSUME NEW c \in Calls, TriageFails(c), UNCHANGED client PROVE CheckInv'
  BY <1>9 DEF TriageFails, InTriage, Answer, Replies, Refusals, Passes, TriageTimeout
<1>10. ASSUME NEW c \in Calls, NEW v \in TriageVerdicts, VerdictArrives(c, v), UNCHANGED client
       PROVE  CheckInv'
  BY <1>10 DEF VerdictArrives, InTriage, Answer, TriageVerdicts, Replies, Refusals, Passes, TriageTimeout
<1>11. CASE SetEnforcement(Active) /\ UNCHANGED client
  BY <1>11 DEF SetEnforcement
<1>12. CASE Crash(Active) /\ UNCHANGED client
  BY <1>12 DEF Crash, Active, TriageTimeout
<1>13. CASE Restart /\ UNCHANGED client
  BY <1>13 DEF Restart
<1>14. CASE Tick
  BY <1>14 DEF Tick, TriageTimeout
<1>15. CASE UNCHANGED vars
  BY <1>15 DEF vars
<1>16. QED
  BY <1>1, <1>2, <1>3, <1>4, <1>5, <1>6, <1>7, <1>8, <1>9, <1>10, <1>11, <1>12, <1>13,
     <1>14, <1>15 DEF Next, Session, Handler

LEMMA WindowNext == SessionInv /\ [Next]_vars => WindowInv'
<1> SUFFICES ASSUME SessionInv, [Next]_vars PROVE WindowInv'
  OBVIOUS
<1> USE CallFacts, GatewayAssumption
    DEF SessionInv, SessionType, NotYetInv, WindowInv, At, Asks, Close, gateway, client
<1>1. ASSUME NEW s \in Sessions, Starts(s) PROVE WindowInv'
  BY <1>1 DEF Starts
<1>2. ASSUME NEW s \in Sessions, NEW t \in Tools, BeginsCall(s, t) PROVE WindowInv'
  <2> DEFINE new == <<s, step[s] + 1>>
  <2>1. new \in Calls /\ \A c \in Calls : c = new <=> c[1] = s /\ c[2] = step[s] + 1
    BY <1>2 DEF BeginsCall, Calls
  <2>2. pc[s] = "idle" /\ step' = [step EXCEPT ![s] = @ + 1]
        /\ UNCHANGED <<kind, guard, toggle, up>>
        /\ pc' \in {[pc EXCEPT ![s] = "checking"], [pc EXCEPT ![s] = "run"]}
    BY <1>2 DEF BeginsCall, Post
  <2> HIDE DEF new
  <2>3. CASE /\ off' = [off EXCEPT ![new] = ~toggle]
             /\ outage' = [outage EXCEPT ![new] = ~up]
    <3>1. /\ off'[new] = ~toggle /\ outage'[new] = ~up
          /\ \A c \in Calls : c # new => off'[c] = off[c] /\ outage'[c] = outage[c]
      BY <2>1, <2>3
    <3>2. (toggle \/ off'[new]) /\ (up \/ outage'[new])
      BY <3>1
    <3>3. QED
      BY <2>1, <2>2, <3>1, <3>2
  <2>4. CASE ~Asks(new) /\ UNCHANGED <<off, outage>>
    BY <2>1, <2>2, <2>4
  <2>5. QED
    <3>1. CASE kind[s] = "chat" /\ ~guard[s]
      BY <1>2, <2>1, <2>4, <3>1 DEF BeginsCall, new
    <3>2. CASE ~(kind[s] = "chat" /\ ~guard[s])
      BY <1>2, <2>3, <3>2 DEF BeginsCall, Post, new
    <3>3. QED
      BY <3>1, <3>2
<1>3. ASSUME NEW s \in Sessions, ReadsRefusal(s) \/ ReadsPass(s) \/ CheckFails(s)
      PROVE  WindowInv'
  <2>1. /\ pc[s] = "checking" /\ UNCHANGED <<toggle, up, off, outage, kind, guard, step>>
        /\ pc' \in {[pc EXCEPT ![s] = "idle"], [pc EXCEPT ![s] = "run"], [pc EXCEPT ![s] = "ended"]}
    BY <1>3 DEF ReadsRefusal, ReadsPass, CheckFails, Refused
  <2>2. QED
    BY <2>1
<1>4. ASSUME NEW s \in Sessions,
             RunsTool(s) \/ RunsContained(s) \/ SandboxBypassed(s) \/ SandboxFails(s)
      PROVE  WindowInv'
  <2>1. /\ pc[s] = "run" /\ UNCHANGED <<toggle, up, off, outage, kind, guard, step>>
        /\ pc' \in {[pc EXCEPT ![s] = "idle"], [pc EXCEPT ![s] = "scan"]}
    BY <1>4 DEF RunsTool, RunsContained, SandboxBypassed, SandboxFails, Unscanned
  <2>2. QED
    BY <2>1
<1>5. ASSUME NEW s \in Sessions, Scans(s) \/ ScanSkipped(s) \/ Ends(s) PROVE WindowInv'
  <2>1. /\ pc[s] \in {"scan", "idle"} /\ UNCHANGED <<toggle, up, off, outage, kind, guard, step>>
        /\ pc' \in {[pc EXCEPT ![s] = "idle"], [pc EXCEPT ![s] = "ended"]}
    BY <1>5 DEF Scans, ScanSkipped, Ends, Refused, Unscanned
  <2>2. QED
    BY <2>1
<1>6. ASSUME NEW c \in Calls, Handler(c), UNCHANGED client PROVE WindowInv'
  BY <1>6, HandlerFacts
<1>7. CASE SetEnforcement(Active) /\ UNCHANGED client
  BY <1>7 DEF SetEnforcement, Active
<1>8. CASE Crash(Active) /\ UNCHANGED client
  BY <1>8 DEF Crash, Active
<1>9. CASE Restart /\ UNCHANGED client
  BY <1>9 DEF Restart
<1>10. CASE Tick
  BY <1>10 DEF Tick
<1>11. CASE UNCHANGED vars
  BY <1>11 DEF vars
<1>12. QED
  BY <1>1, <1>2, <1>3, <1>4, <1>5, <1>6, <1>7, <1>8, <1>9, <1>10, <1>11 DEF Next, Session

LEMMA ReleaseNext == SessionInv /\ [Next]_vars => ReleaseInv'
<1> SUFFICES ASSUME SessionInv, [Next]_vars PROVE ReleaseInv'
  OBVIOUS
<1> USE CallFacts, GatewayAssumption
    DEF SessionInv, SessionType, NotYetInv, CheckInv, ReleaseInv, Guarded, Ran, At, Close,
        gateway, client
<1>1. ASSUME NEW s \in Sessions, Starts(s) PROVE ReleaseInv'
  BY <1>1 DEF Starts
<1>2. ASSUME NEW s \in Sessions, NEW t \in Tools, BeginsCall(s, t) PROVE ReleaseInv'
  <2> DEFINE new == <<s, step[s] + 1>>
  <2>1. new \in Calls /\ \A c \in Calls : c = new <=> c[1] = s /\ c[2] = step[s] + 1
    BY <1>2 DEF BeginsCall, Calls
  <2>2. pc[s] = "idle" /\ step' = [step EXCEPT ![s] = @ + 1] /\ UNCHANGED <<kind, guard, ran, reply>>
    BY <1>2 DEF BeginsCall, Post
  <2> HIDE DEF new
  <2>3. CASE kind[s] = "chat" /\ ~guard[s]
    BY <1>2, <2>1, <2>2, <2>3 DEF BeginsCall
  <2>4. CASE ~(kind[s] = "chat" /\ ~guard[s])
    <3>1. pc' = [pc EXCEPT ![s] = "checking"]
      BY <1>2, <2>4 DEF BeginsCall
    <3>2. \A c \in Calls : c # new => check'[c] = check[c] /\ off'[c] = off[c] /\ outage'[c] = outage[c]
      BY <1>2, <2>1, <2>4 DEF BeginsCall, Post, new
    <3>3. QED
      BY <2>1, <2>2, <3>1, <3>2
  <2>5. QED
    BY <2>3, <2>4
<1>3. ASSUME NEW s \in Sessions, ReadsRefusal(s) PROVE ReleaseInv'
  BY <1>3 DEF ReadsRefusal, Refused
<1>4. ASSUME NEW s \in Sessions, ReadsPass(s) PROVE ReleaseInv'
  BY <1>4 DEF ReadsPass, Replies, Passes
<1>5. ASSUME NEW s \in Sessions, CheckFails(s) PROVE ReleaseInv'
  <2>1. ~(check[Current(s)] = "triage" /\ age[Current(s)] >= CheckTimeout(kind[s]) /\ kind[s] = "chat")
    BY <1>5 DEF CheckFails, CheckTimeout, TriageTimeout
  <2>2. QED
    BY <1>5, <2>1 DEF CheckFails, GivesUp, FailsOpen, Refused
<1>6. ASSUME NEW s \in Sessions,
             RunsTool(s) \/ RunsContained(s) \/ SandboxBypassed(s) \/ SandboxFails(s)
      PROVE  ReleaseInv'
  <2>1. /\ pc[s] = "run" /\ UNCHANGED <<check, reply, off, outage, kind, guard, step>>
        /\ pc' \in {[pc EXCEPT ![s] = "idle"], [pc EXCEPT ![s] = "scan"]}
    BY <1>6 DEF RunsTool, RunsContained, SandboxBypassed, SandboxFails, Unscanned
  <2>2. \E where \in {"no", "app", "container"} : ran' = [ran EXCEPT ![Current(s)] = where]
    BY <1>6 DEF RunsTool, RunsContained, SandboxBypassed, SandboxFails
  <2>3. QED
    BY <2>1, <2>2
<1>7. ASSUME NEW s \in Sessions, Scans(s) \/ ScanSkipped(s) \/ Ends(s) PROVE ReleaseInv'
  <2>1. /\ pc[s] \in {"scan", "idle"} /\ UNCHANGED <<check, reply, off, outage, kind, guard, step, ran>>
        /\ pc' \in {[pc EXCEPT ![s] = "idle"], [pc EXCEPT ![s] = "ended"]}
    BY <1>7 DEF Scans, ScanSkipped, Ends, Refused, Unscanned
  <2>2. QED
    BY <2>1
<1>8. ASSUME NEW c \in Calls, Handler(c), UNCHANGED client PROVE ReleaseInv'
  <2>1. /\ check[c] # "closed" /\ UNCHANGED off
        /\ \A d \in Calls : outage[d] => outage'[d]
        /\ \A d \in Calls : d # c => check'[d] = check[d] /\ reply'[d] = reply[d]
    BY <1>8, HandlerFacts
  <2>2. UNCHANGED <<kind, guard, pc, step, ran, shown>>
    BY <1>8
  <2> HIDE <1>8
  <2>3. QED
    BY <2>1, <2>2
<1>9. CASE SetEnforcement(Active) /\ UNCHANGED client
  BY <1>9 DEF SetEnforcement
<1>10. CASE Crash(Active) /\ UNCHANGED client
  BY <1>10 DEF Crash
<1>11. CASE Restart /\ UNCHANGED client
  BY <1>11 DEF Restart
<1>12. CASE Tick
  BY <1>12 DEF Tick
<1>13. CASE UNCHANGED vars
  BY <1>13 DEF vars
<1>14. QED
  BY <1>1, <1>2, <1>3, <1>4, <1>5, <1>6, <1>7, <1>8, <1>9, <1>10, <1>11, <1>12, <1>13
  DEF Next, Session

LEMMA RecordNext == SessionInv /\ [Next]_vars => RecordInv'
<1> SUFFICES ASSUME SessionInv, [Next]_vars PROVE RecordInv'
  OBVIOUS
<1> USE CallFacts DEF SessionInv, SessionType, NotYetInv, RecordInv
<1>1. CASE UNCHANGED <<feed, reply, crashes>>
  BY <1>1 DEF OnRecord
<1>2. ASSUME NEW type, NEW c \in Calls, <<type, c>> \in Entries, Record(type, c),
             UNCHANGED <<reply, crashes>>
      PROVE  RecordInv'
  <2>1. /\ Len(feed') <= MaxFeed
        /\ Len(feed') < MaxFeed =>
              Len(feed) < MaxFeed /\ \A t, d : OnRecord(t, d) => OnRecord(t, d)'
    BY <1>2, RecordFacts
  <2>2. QED
    BY <1>2, <2>1
<1>3. ASSUME NEW c \in Calls, NEW v \in TriageVerdicts, VerdictArrives(c, v) PROVE RecordInv'
  <2>1. <<"pre_hook", c>> \in Entries
    BY DEF Entries
  <2>2. /\ Len(feed') <= MaxFeed /\ OnRecord("pre_hook", c)'
        /\ Len(feed') < MaxFeed =>
              Len(feed) < MaxFeed /\ \A t, d : OnRecord(t, d) => OnRecord(t, d)'
    BY <1>3, <2>1, RecordFacts DEF VerdictArrives
  <2>3. UNCHANGED crashes /\ \A d \in Calls : d # c => reply'[d] = reply[d]
    BY <1>3 DEF VerdictArrives, Answer
  <2>4. QED
    BY <2>2, <2>3
<1>4. ASSUME NEW c \in Calls, Received(c) \/ TriageFails(c) PROVE RecordInv'
  <2>1. UNCHANGED <<feed, crashes>>
    BY <1>4 DEF Received, Bypasses, IntentDenies, CallsTriage, TriageFails
  <2>2. \A d \in Calls : reply'[d] \in TriageVerdicts => reply'[d] = reply[d]
    BY <1>4 DEF Received, Bypasses, IntentDenies, CallsTriage, TriageFails, Answer, TriageVerdicts
  <2>3. QED
    BY <2>1, <2>2 DEF OnRecord
<1>5. ASSUME NEW s \in Sessions, RunsContained(s) \/ Scans(s) PROVE RecordInv'
  <2>1. Current(s) \in Calls /\ UNCHANGED <<reply, crashes>>
    BY <1>5 DEF RunsContained, Scans
  <2>2. \E type \in {"sandbox", "post_hook"} : Record(type, Current(s))
    BY <1>5 DEF RunsContained, Scans
  <2>3. \A type \in {"sandbox", "post_hook"} : <<type, Current(s)>> \in Entries
    BY <2>1 DEF Entries
  <2>4. QED
    BY <2>1, <2>2, <2>3, <1>2
<1>6. CASE Crash(Active)
  <2>1. feed' = <<>> /\ crashes' # 0
    BY <1>6 DEF Crash
  <2>2. QED
    BY <2>1, GatewayAssumption
<1>7. ASSUME NEW s \in Sessions,
             \/ Starts(s) \/ (\E t \in Tools : BeginsCall(s, t))
             \/ ReadsRefusal(s) \/ ReadsPass(s) \/ CheckFails(s)
             \/ RunsTool(s) \/ SandboxBypassed(s) \/ SandboxFails(s)
             \/ ScanSkipped(s) \/ Ends(s)
      PROVE  UNCHANGED <<feed, reply, crashes>>
  BY <1>7 DEF Starts, BeginsCall, ReadsRefusal, ReadsPass, CheckFails, RunsTool, SandboxBypassed,
              SandboxFails, ScanSkipped, Ends, Post, Close, gateway
<1>8. CASE SetEnforcement(Active) \/ Restart \/ Tick \/ UNCHANGED vars
  BY <1>1, <1>8 DEF SetEnforcement, Restart, Tick, vars, gateway
<1>9. QED
  BY <1>1, <1>3, <1>4, <1>5, <1>6, <1>7, <1>8 DEF Next, Session, Handler

LEMMA QuarantineNext == SessionInv /\ [Next]_vars => QuarantineHolds'
<1> SUFFICES ASSUME SessionInv, [Next]_vars PROVE QuarantineHolds'
  OBVIOUS
<1>1. SessionType /\ NotYetInv /\ WindowInv /\ QuarantineHolds
  BY DEF SessionInv
<1>2. ASSUME NEW s \in Sessions, pc[s] \in {"checking", "run", "scan"}
      PROVE  Current(s) \in Calls /\ Current(s)[1] = s /\ Current(s)[2] = step[s]
  BY <1>1, <1>2, CallFacts, GatewayAssumption DEF SessionType, NotYetInv
<1>3. ASSUME NEW c \in Calls, step[c[1]] < c[2] \/ At(c, "run") \/ At(c, "scan")
      PROVE  shown[c] = "none"
  BY <1>1, <1>3 DEF NotYetInv
\* A step of session s that changes at most what is known of call d.
<1>4. ASSUME NEW s \in Sessions, NEW d, pc[s] # "start", UNCHANGED <<off, outage, guard>>,
             \A q \in Sessions : q # s => pc'[q] = pc[q],
             \A c \in Calls : c # d => dirty'[c] = dirty[c] /\ shown'[c] = shown[c],
             d \in Calls => shown'[d] # "raw" \/ ~dirty'[d] \/ ~guard[d[1]] \/ off[d] \/ outage[d]
      PROVE  QuarantineHolds'
  BY <1>1, <1>4, CallFacts DEF QuarantineHolds, Guarded
<1>5. ASSUME NEW s \in Sessions, Starts(s) PROVE QuarantineHolds'
  <2>1. pc[s] = "start" /\ \A q \in Sessions : q # s => pc'[q] = pc[q] /\ guard'[q] = guard[q]
    BY <1>1, <1>5 DEF Starts, SessionType
  <2>2. \A c \in Calls : c[1] = s => step[c[1]] < c[2]
    BY <2>1, <1>1, CallFacts, GatewayAssumption DEF NotYetInv
  <2>3. UNCHANGED <<off, outage, dirty, shown>>
    BY <1>5 DEF Starts, gateway
  <2>4. QED
    BY <1>1, <1>3, <2>1, <2>2, <2>3, CallFacts DEF QuarantineHolds, Guarded
<1>6. ASSUME NEW s \in Sessions, NEW t \in Tools, BeginsCall(s, t) PROVE QuarantineHolds'
  <2> DEFINE new == <<s, step[s] + 1>>
  <2>1. new \in Calls /\ step[new[1]] < new[2]
    BY <1>1, <1>6, GatewayAssumption DEF BeginsCall, Calls, SessionType
  <2>2. shown[new] = "none"
    BY <1>3, <2>1
  <2>3. \A c \in Calls : c # new => off'[c] = off[c] /\ outage'[c] = outage[c]
    BY <1>1, <1>6, <2>1 DEF BeginsCall, Post, SessionType, gateway
  <2>4. /\ UNCHANGED <<guard, dirty, shown>> /\ pc[s] # "start"
        /\ \A q \in Sessions : q # s => pc'[q] = pc[q]
    BY <1>1, <1>6 DEF BeginsCall, SessionType
  <2> HIDE DEF new
  <2>5. QED
    BY <1>1, <2>2, <2>3, <2>4, CallFacts DEF QuarantineHolds, Guarded
<1>7. ASSUME NEW s \in Sessions, ReadsRefusal(s) \/ ReadsPass(s) \/ CheckFails(s) \/ Ends(s)
      PROVE  QuarantineHolds'
  <2>1. /\ pc[s] # "start" /\ UNCHANGED <<off, outage, kind, guard, dirty, shown>>
        /\ \A q \in Sessions : q # s => pc'[q] = pc[q]
    BY <1>1, <1>7 DEF ReadsRefusal, ReadsPass, CheckFails, Refused, Ends, Close, gateway, SessionType
  <2>2. QED
    BY <1>1, <2>1, CallFacts DEF QuarantineHolds, Guarded
<1>8. ASSUME NEW s \in Sessions,
             RunsTool(s) \/ RunsContained(s) \/ SandboxBypassed(s) \/ SandboxFails(s)
      PROVE  QuarantineHolds'
  <2>1. /\ pc[s] = "run" /\ UNCHANGED <<off, outage, guard>>
        /\ \A q \in Sessions : q # s => pc'[q] = pc[q]
        /\ guard[s] => UNCHANGED shown
    BY <1>1, <1>8
    DEF RunsTool, RunsContained, SandboxBypassed, SandboxFails, Unscanned, gateway, SessionType
  <2>2. \A c \in Calls : c # Current(s) => dirty'[c] = dirty[c]
    <3>1. \/ \E findings \in BOOLEAN : dirty' = [dirty EXCEPT ![Current(s)] = findings]
          \/ UNCHANGED dirty
      BY <1>8 DEF RunsTool, RunsContained, SandboxBypassed, SandboxFails, Outputs
    <3>2. QED
      BY <1>1, <3>1 DEF SessionType
  <2>3. \A c \in Calls : c # Current(s) => shown'[c] = shown[c]
    BY <1>1, <1>8
    DEF RunsTool, RunsContained, SandboxBypassed, SandboxFails, Unscanned, SessionType
  <2>4. shown[Current(s)] = "none" /\ Current(s)[1] = s
    BY <1>2, <1>3, <2>1 DEF At
  <2>5. QED
    BY <1>4, <2>1, <2>2, <2>3, <2>4
<1>9. ASSUME NEW s \in Sessions, Scans(s) PROVE QuarantineHolds'
  <2>1. /\ pc[s] = "scan" /\ UNCHANGED <<off, outage, guard, dirty>>
        /\ \A q \in Sessions : q # s => pc'[q] = pc[q]
        /\ \A c \in Calls : c # Current(s) => shown'[c] = shown[c]
    BY <1>1, <1>9 DEF Scans, Refused, SessionType
  <2>2. Current(s) \in Calls /\ Current(s)[1] = s
    BY <1>2, <2>1
  <2>3. dirty[Current(s)] /\ guard[s] => shown'[Current(s)] = "quarantined"
    BY <1>1, <1>9, <2>2 DEF Scans, SessionType
  <2>4. QED
    BY <1>4, <2>1, <2>2, <2>3
<1>10. ASSUME NEW s \in Sessions, ScanSkipped(s) PROVE QuarantineHolds'
  <2>1. /\ pc[s] = "scan" /\ UNCHANGED <<off, outage, guard, dirty>> /\ ~(up /\ toggle)
        /\ \A q \in Sessions : q # s => pc'[q] = pc[q]
        /\ \A c \in Calls : c # Current(s) => shown'[c] = shown[c]
    BY <1>1, <1>10 DEF ScanSkipped, Unscanned, SessionType, gateway
  <2>2. Current(s) \in Calls /\ Current(s)[1] = s /\ At(Current(s), "scan")
    BY <1>2, <2>1 DEF At
  <2>3. guard[s] => (toggle \/ off[Current(s)]) /\ (up \/ outage[Current(s)])
    BY <1>1, <2>2 DEF WindowInv, Asks
  <2>4. QED
    BY <1>4, <2>1, <2>2, <2>3
<1>11. ASSUME NEW c \in Calls, Handler(c), UNCHANGED client PROVE QuarantineHolds'
  <2>1. UNCHANGED off /\ \A d \in Calls : outage[d] => outage'[d]
    BY <1>1, <1>11, HandlerFacts
  <2>2. UNCHANGED <<guard, pc, dirty, shown>>
    BY <1>11 DEF client
  <2>3. QED
    BY <1>1, <2>1, <2>2 DEF QuarantineHolds, Guarded
<1>12. CASE (SetEnforcement(Active) \/ Crash(Active)) /\ UNCHANGED client
  <2>1. \A d \in Calls : (off[d] => off'[d]) /\ (outage[d] => outage'[d])
    BY <1>1, <1>12 DEF SetEnforcement, Crash
  <2>2. UNCHANGED <<guard, pc, dirty, shown>>
    BY <1>12 DEF client
  <2>3. QED
    BY <1>1, <2>1, <2>2 DEF QuarantineHolds, Guarded
<1>13. CASE UNCHANGED <<off, outage, client>>
  BY <1>1, <1>13 DEF QuarantineHolds, Guarded, client
<1>14. QED
  BY <1>5, <1>6, <1>7, <1>8, <1>9, <1>10, <1>11, <1>12, <1>13
  DEF Next, Session, Restart, Tick, vars, gateway

\* A script goes on after a scan only with the output.
LEMMA ScansFacts ==
  ASSUME SessionType, NEW s \in Sessions, Scans(s), Current(s) \in Calls, kind[s] # "chat"
  PROVE  pc'[s] = "ended" \/ (pc'[s] = "idle" /\ shown'[Current(s)] = "raw")
<1>1. CASE dirty[Current(s)] /\ guard[s]
  BY <1>1 DEF Scans, Refused, SessionType
<1>2. CASE ~(dirty[Current(s)] /\ guard[s])
  BY <1>2 DEF Scans, SessionType
<1>3. QED
  BY <1>1, <1>2

LEMMA ChainNext == SessionInv /\ [Next]_vars => ChainInv'
<1> SUFFICES ASSUME SessionInv, [Next]_vars PROVE ChainInv'
  OBVIOUS
<1> USE CallFacts, GatewayAssumption
    DEF SessionInv, SessionType, NotYetInv, CheckInv, ReleaseInv, ChainInv, Guarded, Ran, At, Close,
        gateway, client
<1>1. ASSUME NEW s \in Sessions, Starts(s) PROVE ChainInv'
  BY <1>1 DEF Starts
<1>2. ASSUME NEW s \in Sessions, NEW t \in Tools, BeginsCall(s, t) PROVE ChainInv'
  <2> DEFINE new == <<s, step[s] + 1>>
  <2>1. new \in Calls /\ \A c \in Calls : c = new <=> c[1] = s /\ c[2] = step[s] + 1
    BY <1>2 DEF BeginsCall, Calls
  <2>2. /\ pc[s] = "idle" /\ step' = [step EXCEPT ![s] = @ + 1]
        /\ UNCHANGED <<kind, guard, ran, shown, reply>>
        /\ \A q \in Sessions : q # s => pc'[q] = pc[q]
        /\ kind[s] = "chat" \/ pc'[s] = "checking"
    BY <1>2 DEF BeginsCall, Post
  <2>3. \A c \in Calls : c # new => check'[c] = check[c]
    BY <1>2, <2>1 DEF BeginsCall, Post, new
  <2> HIDE DEF new
  <2>4. QED
    BY <2>1, <2>2, <2>3
<1>3. ASSUME NEW s \in Sessions, ReadsRefusal(s) PROVE ChainInv'
  BY <1>3 DEF ReadsRefusal, Refused
<1>4. ASSUME NEW s \in Sessions, ReadsPass(s) PROVE ChainInv'
  BY <1>4 DEF ReadsPass, Replies, Passes
<1>5. ASSUME NEW s \in Sessions, CheckFails(s) PROVE ChainInv'
  BY <1>5 DEF CheckFails, FailsOpen, Refused
<1>6. ASSUME NEW s \in Sessions,
             RunsTool(s) \/ RunsContained(s) \/ SandboxBypassed(s) \/ SandboxFails(s)
      PROVE  ChainInv'
  <2>1. /\ pc[s] = "run" /\ UNCHANGED <<check, reply, kind, guard, step>>
        /\ \A q \in Sessions : q # s => pc'[q] = pc[q]
    BY <1>6 DEF RunsTool, RunsContained, SandboxBypassed, SandboxFails, Unscanned
  <2>2. \A c \in Calls : c # Current(s) => ran'[c] = ran[c] /\ shown'[c] = shown[c]
    BY <1>6 DEF RunsTool, RunsContained, SandboxBypassed, SandboxFails, Unscanned
  <2>3. kind[s] # "chat" => pc'[s] = "scan" /\ ran'[Current(s)] = "app"
    BY <1>6 DEF RunsTool, RunsContained, SandboxBypassed, SandboxFails, Contained
  <2>4. QED
    BY <2>1, <2>2, <2>3
<1>7. ASSUME NEW s \in Sessions, Scans(s) PROVE ChainInv'
  <2>1. /\ pc[s] = "scan" /\ UNCHANGED <<check, reply, kind, guard, step, ran>>
        /\ \A q \in Sessions : q # s => pc'[q] = pc[q]
        /\ \A c \in Calls : c # Current(s) => shown'[c] = shown[c]
    BY <1>7 DEF Scans, Refused
  <2>2. kind[s] # "chat" => pc'[s] = "ended" \/ (pc'[s] = "idle" /\ shown'[Current(s)] = "raw")
    BY <1>7, <2>1, ScansFacts
  <2>3. QED
    BY <2>1, <2>2
<1>8. ASSUME NEW s \in Sessions, ScanSkipped(s) PROVE ChainInv'
  BY <1>8 DEF ScanSkipped, Unscanned
<1>9. ASSUME NEW s \in Sessions, Ends(s) PROVE ChainInv'
  BY <1>9 DEF Ends
<1>10. ASSUME NEW c \in Calls, Handler(c), UNCHANGED client PROVE ChainInv'
  <2>1. /\ check[c] # "closed" /\ UNCHANGED off
        /\ \A d \in Calls : outage[d] => outage'[d]
        /\ \A d \in Calls : d # c => check'[d] = check[d] /\ reply'[d] = reply[d]
    BY <1>10, HandlerFacts
  <2>2. UNCHANGED <<kind, guard, pc, step, ran, shown>>
    BY <1>10
  <2>3. c \in Guarded => ~(Ran(c) \/ At(c, "run") \/ At(c, "scan"))
    BY <2>1 DEF ReleaseInv
  <2>4. c \in Guarded /\ kind[c[1]] # "chat" => ~(c[2] < step[c[1]] \/ At(c, "idle"))
    BY <2>1 DEF ChainInv
  <2> HIDE <1>10 DEF SessionInv, SessionType, NotYetInv, CheckInv, ReleaseInv, Close
  <2>5. QED
    BY <2>1, <2>2, <2>3, <2>4 DEF SessionInv
<1>11. CASE Crash(Active) /\ UNCHANGED client
  BY <1>11 DEF Crash
<1>12. CASE UNCHANGED <<check, reply, client>>
  BY <1>12
<1>13. QED
  BY <1>1, <1>2, <1>3, <1>4, <1>5, <1>6, <1>7, <1>8, <1>9, <1>10, <1>11, <1>12
  DEF Next, Session, SetEnforcement, Restart, Tick, vars

LEMMA NextSession == SessionInv /\ [Next]_vars => SessionInv'
  BY TypeNext, NotYetNext, CheckNext, WindowNext, ReleaseNext, RecordNext, QuarantineNext, ChainNext
  DEF SessionInv

-----------------------------------------------------------------------------
(* The inductive invariant holds.                                            *)
THEOREM SessionCorrect == Spec => []SessionInv
<1>1. SessionInv /\ [Next]_vars => SessionInv'
  BY NextSession
<1>2. QED
  BY InitSession, <1>1, PTL DEF Spec

(* Every variable of the gateway and of its clients keeps its type.          *)
THEOREM SessionTypeCorrect == Spec => []SessionType
<1>1. SessionInv => SessionType
  BY DEF SessionInv
<1>2. QED
  BY SessionCorrect, <1>1, PTL

(* A guarded call the gateway refused has not run, unless it is a chat's and *)
(* the refusal was lost with the gateway.                                    *)
THEOREM RefusedNeverRunsCorrect == Spec => []RefusedNeverRuns
<1>1. SessionInv => RefusedNeverRuns
  BY DEF SessionInv, ReleaseInv, RefusedNeverRuns
<1>2. QED
  BY SessionCorrect, <1>1, PTL

(* No guarded call runs only because something was slow.                     *)
THEOREM SlownessCorrect == Spec => []SlownessLetsNothingThrough
<1>1. SessionInv => SlownessLetsNothingThrough
  BY DEF SessionInv, ReleaseInv, SlownessLetsNothingThrough
<1>2. QED
  BY SessionCorrect, <1>1, PTL

(* The feed shows the verdict of a guarded call that ran until the buffer    *)
(* pushes it out.                                                            *)
THEOREM ExecutedIsOnRecordCorrect == Spec => []ExecutedIsOnRecord
<1>1. SessionInv => ExecutedIsOnRecord
  BY DEF SessionInv, ReleaseInv, RecordInv, ExecutedIsOnRecord, Guarded, TriageVerdicts
<1>2. QED
  BY SessionCorrect, <1>1, PTL

(* A guarded agent sees no output the post hook would quarantine, but for a  *)
(* toggle that was off or an outage.                                         *)
THEOREM QuarantineCorrect == Spec => []QuarantineHolds
<1>1. SessionInv => QuarantineHolds
  BY DEF SessionInv
<1>2. QED
  BY SessionCorrect, <1>1, PTL

(* A guarded script stops at the first of its calls that was refused, got no *)
(* answer or was quarantined.                                                *)
THEOREM KillChainCorrect == Spec => []KillChainStops
<1>1. SessionInv => KillChainStops
  <2> SUFFICES ASSUME SessionInv, NEW c \in Guarded, NEW d \in Calls,
                      kind[c[1]] # "chat", d[1] = c[1], d[2] > c[2], Ran(d)
               PROVE  Ran(c) /\ shown[c] = "raw" /\ reply[c] \in Passes \cup {"unavailable"}
    BY DEF KillChainStops
  <2>1. c \in Calls /\ c[2] \in Int /\ d[2] \in Int /\ step[d[1]] \in Int
    BY CallFacts, GatewayAssumption DEF Guarded, SessionInv, SessionType
  <2>2. ~(step[d[1]] < d[2])
    BY DEF SessionInv, NotYetInv, Ran
  <2>3. c[2] < step[c[1]]
    BY <2>1, <2>2
  <2>4. QED
    BY <2>3 DEF SessionInv, ChainInv
<1>2. QED
  BY SessionCorrect, <1>1, PTL
============================================================================
