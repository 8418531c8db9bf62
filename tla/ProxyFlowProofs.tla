-------------------------- MODULE ProxyFlowProofs --------------------------
(***************************************************************************)
(* Theorems about ProxyFlow, for any flows and any number of flips and     *)
(* crashes.                                                                *)
(***************************************************************************)
EXTENDS ProxyFlow, TLAPS

\* What the feed holds after an entry is appended.
LEMMA FeedGrows ==
  ASSUME TypeOK, NEW g \in Flows, NEW v \in {"allow", "block"}, feed' = Append(feed, <<g, v>>)
  PROVE  ToSet(feed') = ToSet(feed) \cup {<<g, v>>}
<1> DEFINE entry == <<g, v>>
<1>1. feed \in Seq(Flows \X {"allow", "block"}) /\ entry \in Flows \X {"allow", "block"}
  BY DEF TypeOK
<1>2. feed' = Append(feed, entry)
  OBVIOUS
<1> HIDE DEF entry
<1>3. DOMAIN feed' = DOMAIN feed \cup {Len(feed) + 1}
  BY <1>1, <1>2, SMT
<1>4. feed'[Len(feed) + 1] = entry
  BY <1>1, <1>2, SMT
<1>5. ASSUME NEW i \in DOMAIN feed PROVE feed'[i] = feed[i]
  BY <1>1, <1>2, SMT
<1>6. ToSet(feed') = ToSet(feed) \cup {entry}
  <2>1. ASSUME NEW e \in ToSet(feed') PROVE e \in ToSet(feed) \cup {entry}
    <3>1. PICK i \in DOMAIN feed' : e = feed'[i]
      BY DEF ToSet
    <3>2. QED
      BY <1>3, <1>4, <1>5, <3>1 DEF ToSet
  <2>2. ASSUME NEW e \in ToSet(feed) PROVE e \in ToSet(feed')
    <3>1. PICK i \in DOMAIN feed : e = feed[i]
      BY DEF ToSet
    <3>2. QED
      BY <1>3, <1>5, <3>1 DEF ToSet
  <2>3. entry \in ToSet(feed')
    BY <1>3, <1>4 DEF ToSet
  <2>4. QED
    BY <2>1, <2>2, <2>3
<1>7. QED
  BY <1>6 DEF entry

LEMMA InitTypeOK == Init => TypeOK
  BY ProxyAssumption, SMT DEF Init, TypeOK

LEMMA NextTypeOK == TypeOK /\ [Next]_vars => TypeOK'
<1> SUFFICES ASSUME TypeOK, [Next]_vars PROVE TypeOK'
  OBVIOUS
<1> USE DEF TypeOK, Becomes, Answers
<1>1. ASSUME NEW f \in Flows, NEW k \in Kinds, Request(f, k) PROVE TypeOK'
  <2>1. kind' \in [Flows -> Kinds \cup {"none"}]
    BY <1>1 DEF Request
  <2>2. fate' \in [Flows -> {"none", "asking", "blocked", "forwarded", "quarantined", "delivered"}]
    BY <1>1 DEF Request
  <2>3. handler' \in [Flows -> {"none", "triage", "answered", "lost"}]
    BY <1>1 DEF Request
  <2>4. on' \in [Flows -> BOOLEAN]
    BY <1>1 DEF Request
  <2>5. UNCHANGED <<default, toggle, up, reply, feed, flips, crashes>>
    BY <1>1 DEF Request
  <2>6. QED
    BY <2>1, <2>2, <2>3, <2>4, <2>5
<1>2. ASSUME NEW f \in Flows, NoVerdict(f) PROVE TypeOK'
  BY <1>2, SMT DEF NoVerdict, gateway
<1>3. ASSUME NEW f \in Flows, Verdict(f) PROVE TypeOK'
  BY <1>3, SMT DEF Verdict, gateway
<1>4. ASSUME NEW f \in Flows, NEW scanned \in BOOLEAN, NEW findings \in BOOLEAN,
             Response(f, scanned, findings)
      PROVE TypeOK'
  BY <1>4, SMT DEF Response, gateway
<1>5. ASSUME NEW f \in Flows, Rejects(f) \/ Bypasses(f) \/ IntentDenies(f) \/ TriageFails(f)
      PROVE TypeOK'
  BY <1>5, SMT DEF Rejects, Bypasses, IntentDenies, TriageFails, proxy
<1>6. ASSUME NEW f \in Flows, CallsTriage(f) PROVE TypeOK'
  BY <1>6, SMT DEF CallsTriage, proxy
<1>7. ASSUME NEW f \in Flows, NEW v \in {"allow", "block"}, VerdictArrives(f, v) PROVE TypeOK'
  BY <1>7, SMT DEF VerdictArrives, proxy
<1>8. CASE SetEnforcement
  <2>1. flips' \in 0..MaxFlips
    BY <1>8, ProxyAssumption, SMT DEF SetEnforcement
  <2>2. toggle' \in BOOLEAN /\ UNCHANGED <<default, kind, fate, up, handler, reply, feed, crashes>>
    BY <1>8 DEF SetEnforcement, proxy
  <2>3. on' \in [Flows -> BOOLEAN]
    BY <1>8 DEF SetEnforcement, Asking
  <2>4. QED
    BY <2>1, <2>2, <2>3
<1>9. CASE Crash
  <2>1. crashes' \in 0..MaxCrashes
    BY <1>9, ProxyAssumption, SMT DEF Crash
  <2>2. /\ up' \in BOOLEAN /\ feed' \in Seq(Flows \X {"allow", "block"})
        /\ UNCHANGED <<default, kind, fate, toggle, flips, on>>
    <3>1. feed' = <<>> /\ up' = FALSE /\ UNCHANGED <<default, kind, fate, toggle, flips, on>>
      BY <1>9 DEF Crash, proxy
    <3>2. <<>> \in Seq(Flows \X {"allow", "block"})
      BY SMT
    <3>3. QED
      BY <3>1, <3>2, Zenon
  <2>3. handler' \in [Flows -> {"none", "triage", "answered", "lost"}]
    BY <1>9, SMT DEF Crash
  <2>4. reply' \in [Flows -> {"none", "invalid", "bypassed", "allow", "block"}]
    BY <1>9, SMT DEF Crash
  <2>5. QED
    BY <2>1, <2>2, <2>3, <2>4
<1>10. CASE Restart
  BY <1>10, SMT DEF Restart, proxy
<1>11. CASE UNCHANGED vars
  BY <1>11 DEF vars, proxy, gateway
<1>12. QED
  BY <1>1, <1>2, <1>3, <1>4, <1>5, <1>6, <1>7, <1>8, <1>9, <1>10, <1>11, Zenon DEF Next

(* Flows, handlers and feed keep their types, and the counters their bounds  *)
(* (addon.py, service.py proxy_check).                                       *)
THEOREM TypeCorrect == Spec => []TypeOK
<1>1. QED
  BY InitTypeOK, NextTypeOK, PTL DEF Spec

(***************************************************************************)
(* None of the safety properties is inductive.  A verdict may arrive after *)
(* the proxy has decided, so the invariant ties the reply to the handler:  *)
(* one handler gives one reply, and only handlers that have not answered   *)
(* can give one.  Blocks in the feed are replies.  And whatever could make *)
(* the gateway block has been noted in the history variable.               *)
(***************************************************************************)
OneReply(f) ==
  /\ fate[f] = "none" => handler[f] = "none"
  /\ handler[f] \in {"none", "triage"} => reply[f] = "none"
  /\ handler[f] = "triage" => kind[f] = "call"
  /\ reply[f] = "invalid" => kind[f] = "malformed"

PassedOnWord(f) ==
  default /\ Passed(f) /\ kind[f] = "call" => reply[f] \in {"allow", "bypassed"}

FeedIsReply(f) ==
  <<f, "block">> \in ToSet(feed) =>
    reply[f] = "block" /\ handler[f] = "answered" /\ kind[f] = "call"

NotedOn(f) ==
  /\ Asking(f) /\ (toggle \/ handler[f] = "triage" \/ reply[f] = "block") => on[f]
  /\ ~default /\ ~on[f] /\ OnAllowlist(kind[f]) => fate[f] \notin {"blocked", "quarantined"}

ProxyInv == \A f \in Flows : OneReply(f) /\ PassedOnWord(f) /\ FeedIsReply(f) /\ NotedOn(f)

LEMMA InitProxyInv == Init => ProxyInv
<1> SUFFICES ASSUME Init, NEW f \in Flows
             PROVE  OneReply(f) /\ PassedOnWord(f) /\ FeedIsReply(f) /\ NotedOn(f)
  BY DEF ProxyInv
<1>1. ToSet(feed) = {}
  BY SMT DEF Init, ToSet
<1>2. QED
  BY <1>1, SMT DEF Init, OneReply, PassedOnWord, FeedIsReply, NotedOn, Passed, Asking

\* A step that changes nothing about f and leaves the feed keeps what is said
\* of f.
LEMMA OthersKeep ==
  ASSUME TypeOK, NEW f \in Flows, ProxyInv,
         UNCHANGED <<default, toggle, feed>>,
         kind'[f] = kind[f], fate'[f] = fate[f], handler'[f] = handler[f],
         reply'[f] = reply[f], on'[f] = on[f]
  PROVE  (OneReply(f) /\ PassedOnWord(f) /\ FeedIsReply(f) /\ NotedOn(f))'
  BY Zenon DEF ProxyInv, OneReply, PassedOnWord, FeedIsReply, NotedOn, Passed, Asking

LEMMA NextProxyInv == TypeOK /\ ProxyInv /\ [Next]_vars => ProxyInv'
<1> SUFFICES ASSUME TypeOK, ProxyInv, [Next]_vars, NEW f \in Flows
             PROVE  (OneReply(f) /\ PassedOnWord(f) /\ FeedIsReply(f) /\ NotedOn(f))'
  BY DEF ProxyInv
<1> DEFINE Kept == (OneReply(f) /\ PassedOnWord(f) /\ FeedIsReply(f) /\ NotedOn(f))'
<1>0. OneReply(f) /\ PassedOnWord(f) /\ FeedIsReply(f) /\ NotedOn(f)
  BY DEF ProxyInv
<1> USE DEF OneReply, PassedOnWord, FeedIsReply, NotedOn, Passed, Asking, Becomes, Answers
<1>1. ASSUME NEW g \in Flows, NEW k \in Kinds, Request(g, k) PROVE Kept
  <2>1. CASE g = f
    BY <1>0, <1>1, <2>1, SMT DEF Request, TypeOK, Kinds, IsAsked, OnAllowlist
  <2>2. CASE g # f
    BY <1>1, <2>2, OthersKeep, SMT DEF Request, TypeOK
  <2>3. QED
    BY <2>1, <2>2
<1>2. ASSUME NEW g \in Flows, NoVerdict(g) PROVE Kept
  BY <1>0, <1>2, SMT DEF NoVerdict, TypeOK, gateway
<1>3. ASSUME NEW g \in Flows, Verdict(g) PROVE Kept
  BY <1>0, <1>3, SMT DEF Verdict, TypeOK, gateway
<1>4. ASSUME NEW g \in Flows, NEW scanned \in BOOLEAN, NEW findings \in BOOLEAN,
             Response(g, scanned, findings)
      PROVE Kept
  BY <1>0, <1>4, SMT DEF Response, TypeOK, gateway
<1>5. ASSUME NEW g \in Flows, Rejects(g) PROVE Kept
  BY <1>0, <1>5, SMT DEF Rejects, Unanswered, TypeOK, proxy
<1>6. ASSUME NEW g \in Flows, Bypasses(g) PROVE Kept
  BY <1>0, <1>6, SMT DEF Bypasses, Unanswered, TypeOK, proxy
<1>7. ASSUME NEW g \in Flows, IntentDenies(g) PROVE Kept
  BY <1>0, <1>7, SMT DEF IntentDenies, Unanswered, TypeOK, proxy
<1>8. ASSUME NEW g \in Flows, CallsTriage(g) PROVE Kept
  BY <1>0, <1>8, SMT DEF CallsTriage, Unanswered, TypeOK, proxy
<1>9. ASSUME NEW g \in Flows, TriageFails(g) PROVE Kept
  BY <1>0, <1>9, SMT DEF TriageFails, InTriage, TypeOK, proxy
<1>10. ASSUME NEW g \in Flows, NEW v \in {"allow", "block"}, VerdictArrives(g, v) PROVE Kept
  <2>1. ToSet(feed') = ToSet(feed) \cup {<<g, v>>}
    BY <1>10, FeedGrows DEF VerdictArrives
  <2>2. /\ handler[g] = "triage"
        /\ handler' = [handler EXCEPT ![g] = "answered"]
        /\ reply' = [reply EXCEPT ![g] = v]
        /\ UNCHANGED <<default, kind, fate, toggle, on>>
    BY <1>10 DEF VerdictArrives, InTriage, proxy
  <2>3. CASE g = f
    <3>1. handler'[f] = "answered" /\ reply'[f] = v /\ handler[f] = "triage"
      BY <2>2, <2>3 DEF TypeOK
    <3>2. kind[f] = "call" /\ reply[f] = "none" /\ <<f, "block">> \notin ToSet(feed)
      BY <1>0, <3>1
    <3>3. OneReply(f)'
      BY <1>0, <2>2, <3>1, <3>2, SMT
    <3>4. PassedOnWord(f)'
      BY <1>0, <2>2, <3>1, <3>2, SMT
    <3>5. FeedIsReply(f)'
      BY <2>1, <2>2, <2>3, <3>1, <3>2, SMT
    <3>6. NotedOn(f)'
      BY <1>0, <2>2, <3>1, SMT
    <3>7. QED
      BY <3>3, <3>4, <3>5, <3>6
  <2>4. CASE g # f
    <3>1. handler'[f] = handler[f] /\ reply'[f] = reply[f]
      BY <2>2, <2>4 DEF TypeOK
    <3>2. <<f, "block">> \in ToSet(feed') => <<f, "block">> \in ToSet(feed)
      BY <2>1, <2>4
    <3>3. QED
      BY <1>0, <2>2, <3>1, <3>2, SMT
  <2>5. QED
    BY <2>3, <2>4
<1>11. CASE SetEnforcement
  BY <1>0, <1>11, SMT DEF SetEnforcement, TypeOK, proxy
<1>12. CASE Crash
  <2>1. ToSet(feed') = {}
    BY <1>12, SMT DEF Crash, ToSet
  <2>2. QED
    BY <1>0, <1>12, <2>1, SMT DEF Crash, TypeOK, proxy
<1>13. CASE Restart
  BY <1>13, OthersKeep DEF Restart, proxy
<1>14. CASE UNCHANGED vars
  BY <1>14, OthersKeep DEF vars, proxy, gateway
<1>15. QED
  BY <1>1, <1>2, <1>3, <1>4, <1>5, <1>6, <1>7, <1>8, <1>9, <1>10, <1>11, <1>12, <1>13, <1>14,
     Zenon DEF Next

LEMMA ProxyInvariant == Spec => [](TypeOK /\ ProxyInv)
<1>1. Init => TypeOK /\ ProxyInv
  BY InitTypeOK, InitProxyInv
<1>2. TypeOK /\ ProxyInv /\ [Next]_vars => TypeOK' /\ ProxyInv'
  BY NextTypeOK, NextProxyInv
<1>3. QED
  BY <1>1, <1>2, PTL DEF Spec

(* With enforcement the default of the proxy, nothing late, lost or switched *)
(* lets a call out without the gateway's word (addon.py 91-124).             *)
THEOREM OnlyOnItsWord == Spec => []NothingSlipsThrough
<1>1. ProxyInv => NothingSlipsThrough
  BY Zenon DEF ProxyInv, PassedOnWord, NothingSlipsThrough
<1>2. QED
  BY <1>1, ProxyInvariant, PTL

(* What the feed shows as blocked has not gone out (addon.py 91-124 with     *)
(* service.py 301-325).                                                      *)
THEOREM FeedObeyed == Spec => []FeedIsObeyed
<1>1. ProxyInv => FeedIsObeyed
  BY SMT DEF ProxyInv, PassedOnWord, FeedIsReply, FeedIsObeyed
<1>2. QED
  BY <1>1, ProxyInvariant, PTL

(* With both switches off nothing to an allowed host is stopped (addon.py    *)
(* 93-154).                                                                  *)
THEOREM OffPasses == Spec => []OffLetsCallsPass
<1>1. ProxyInv => OffLetsCallsPass
  BY Zenon DEF ProxyInv, NotedOn, OffLetsCallsPass
<1>2. QED
  BY <1>1, ProxyInvariant, PTL
=============================================================================
