---------------------------- MODULE Accept_proofs ----------------------------
(***************************************************************************)
(* sendMessage and its outbox, for any number of callers, requests at      *)
(* once, endpoints, drainers and faults.  The quota's overshoot needs the  *)
(* requests that have passed the check and not yet inserted counted with   *)
(* the messages (QuotaReserved); a keyed send is made once because its key *)
(* tells at most one request to go on while the layer remembers it         *)
(* (KeyGuards); and an event reaches its endpoints because what a drainer  *)
(* has left to serve, with the attempts there are, covers all it must      *)
(* reach (DrainersCover).                                                  *)
(* Then the message's route: the engine's winner, the providers' circuits  *)
(* and failover, for any routes, providers and submissions at once.        *)
(***************************************************************************)
EXTENDS Accept, Routing, FiniteSetTheorems, WellFoundedInduction, TLAPS

-----------------------------------------------------------------------------
(* Requests.                                                               *)

Checks == {"app", "optout", "quiet", "consent", "quota", "insert"}
Answers == {"ok", "refused", "conflict"}

Arrived == [at : {"reserve"}, send : Sends]
Checked == [at : Checks, send : Sends, quota : Nat]
Done == [at : {"store"}, send : Sends, answer : Answers]
Answering == [at : {"answer"}, send : Sends, answer : Answers \cup {"retry"}]

AdmissionType ==
  /\ send \in [Sends -> Kinds]
  /\ told \in [Sends -> Answers \cup {Nothing}]
  /\ httpKey \in [Sends -> Answers \cup {Nothing, "running"}]
  /\ app \in [active : BOOLEAN, quota : Quotas]
  /\ appCache = Nothing \/ appCache \in [active : BOOLEAN, quota : Quotas]
  /\ handler \in [Handlers -> {Free} \cup Arrived \cup Checked \cup Done \cup Answering]
  /\ messages \subseteq [send : Sends, no : Nat] /\ IsFiniteSet(messages)
  /\ window \subseteq messages

\* A request that has resolved its app carries a quota the app had.
QuotaKnown ==
  \A h \in Handlers : handler[h].at \in Checks \ {"app"} => handler[h].quota \in Quotas

\* The requests past the check and not yet inserted.
Inserting == {h \in Handlers : handler[h].at = "insert"}

\* Each of them will add a message, so they count as if they had.
QuotaReserved ==
  Cardinality(messages) + Cardinality(Inserting) <= MaxQuota + Cardinality(Handlers) - 1

\* A request of send s that the idempotency layer let through.
Under(h, s) == handler[h].at \in Checks \cup {"store"} /\ handler[h].send = s

\* A message of send s, inserted since its key was last forgotten.
Sent(s) == \E m \in window : m.send = s

\* What a request of send s that is let through, or has an answer to give,
\* says of the key: it is running, and nothing is inserted before there is an
\* answer; an answer that goes out is the one the layer keeps.
HandlerTells(h, s) ==
  /\ Under(h, s) => httpKey[s] = "running"
  /\ Under(h, s) /\ handler[h].at \in Checks => ~Sent(s)
  /\ Under(h, s) /\ handler[h].at = "store" =>
       /\ handler[h].answer = "ok" => Sent(s)
       /\ handler[h].answer = "refused" => ~Sent(s)
  /\ handler[h].at = "answer" /\ handler[h].send = s /\ handler[h].answer # "retry"
       => httpKey[s] = handler[h].answer

\* The key of a send lets one request through, and what it keeps, and the
\* caller was told, is true.
KeyGuard(s) ==
  /\ httpKey[s] = Nothing => ~Sent(s)
  /\ httpKey[s] = "ok" => Sent(s)
  /\ httpKey[s] = "refused" => ~Sent(s)
  /\ told[s] # Nothing => httpKey[s] = told[s]
  /\ \A g, h \in Handlers : Under(g, s) /\ Under(h, s) => g = h
  /\ \A h \in Handlers : HandlerTells(h, s)

KeyGuards == \A s \in Sends : send[s].httpKey => KeyGuard(s)

\* A send with a clientRef has one message at most, and one with a key has one
\* in the life of the key.
OneMessage ==
  \A s \in Sends :
    /\ send[s].ref => \A m, n \in messages : m.send = s /\ n.send = s => m = n
    /\ send[s].httpKey => \A m, n \in window : m.send = s /\ n.send = s => m = n

AdmissionInv == AdmissionType /\ QuotaKnown /\ QuotaReserved /\ KeyGuards /\ OneMessage

-----------------------------------------------------------------------------
(* Events.                                                                 *)

OutboxType ==
  /\ event \in [Events -> {"none", "undelivered", "delivered", "reaped"}]
  /\ silent \in [Events -> BOOLEAN]
  /\ active \in SUBSET Endpoints
  /\ missed \in [Events -> SUBSET Endpoints]
  /\ attempts \subseteq Events \X Endpoints
  /\ drainer \in [Drainers -> [event : SUBSET Events, left : SUBSET Endpoints]]

\* While an event is undelivered, what it has not missed is active.
ActiveUnlessMissed ==
  \A e \in Events : event[e] = "undelivered" => Endpoints \ missed[e] \subseteq active

\* What a drainer has left to serve, and the attempts there are, cover the
\* endpoints its event must reach; a silent one is for nobody.
DrainersCover ==
  \A d \in Drainers : \A e \in drainer[d].event :
    /\ event[e] # "none"
    /\ silent[e] => drainer[d].left = {}
    /\ ~silent[e] => \A p \in Endpoints \ missed[e] : p \in drainer[d].left \/ <<e, p>> \in attempts

\* Nothing is attempted for an event that has not happened.
NoAttemptBefore ==
  \A e \in Events : event[e] = "none" => ~silent[e] /\ \A p \in Endpoints : <<e, p>> \notin attempts

OutboxInv == OutboxType /\ ActiveUnlessMissed /\ DrainersCover /\ NoAttemptBefore /\ NoEventLost

\* The framework writes the event with its row; the rest of the outbox is as
\* it was.
LEMMA EmitInv ==
  ASSUME OutboxInv, NEW e, NEW quiet \in BOOLEAN, Emit(e, quiet)
  PROVE  OutboxInv'
<1>1. /\ UNCHANGED <<active, attempts, drainer>>
      /\ \A f \in Events : f # e => /\ event'[f] = event[f] /\ silent'[f] = silent[f]
                                    /\ missed'[f] = missed[f]
      /\ e \in Events => /\ event[e] = "none" /\ event'[e] = "undelivered" /\ silent'[e] = quiet
                         /\ missed'[e] = Endpoints \ active
  BY DEF Emit, OutboxInv, OutboxType
<1>2. OutboxType' BY DEF Emit, OutboxInv, OutboxType
<1>3. ActiveUnlessMissed' BY <1>1 DEF OutboxInv, ActiveUnlessMissed
<1>4. DrainersCover'
  <2> SUFFICES ASSUME NEW d \in Drainers, NEW f \in drainer'[d].event
               PROVE  /\ event'[f] # "none"
                      /\ silent'[f] => drainer'[d].left = {}
                      /\ ~silent'[f] => \A p \in Endpoints \ missed'[f] :
                                          p \in drainer'[d].left \/ <<f, p>> \in attempts'
    BY DEF DrainersCover
  <2>1. f \in Events /\ f \in drainer[d].event BY <1>1 DEF OutboxInv, OutboxType
  <2>2. f # e BY <1>1, <2>1 DEF OutboxInv, DrainersCover
  <2> QED BY <1>1, <2>1, <2>2 DEF OutboxInv, DrainersCover
<1>5. NoAttemptBefore' BY <1>1 DEF OutboxInv, NoAttemptBefore
<1>6. NoEventLost' BY <1>1 DEF OutboxInv, NoAttemptBefore, NoEventLost
<1> QED BY <1>2, <1>3, <1>4, <1>5, <1>6 DEF OutboxInv

\* The drain, its failures, the reaper and changes of endpoints.
LEMMA OStepInv == OutboxInv /\ (OStep \/ UNCHANGED ovars) => OutboxInv'
<1> SUFFICES ASSUME OutboxInv, OStep \/ UNCHANGED ovars PROVE OutboxInv' OBVIOUS
<1> USE DEF OutboxInv
<1>1. ASSUME NEW d \in Drainers, NEW e \in Events, DrainTake(d, e) PROVE OutboxInv'
  <2> DEFINE new == [event |-> {e}, left |-> IF silent[e] THEN {} ELSE active]
  <2>1. /\ new \in [event : SUBSET Events, left : SUBSET Endpoints]
        /\ new.event = {e} /\ new.left = IF silent[e] THEN {} ELSE active
    BY DEF OutboxType
  <2> HIDE DEF new
  <2>2. /\ UNCHANGED <<event, silent, active, missed, attempts>> /\ event[e] = "undelivered"
        /\ drainer' = [drainer EXCEPT ![d] = new]
    BY <1>1 DEF DrainTake, new
  <2>3. OutboxType' BY <2>1, <2>2 DEF OutboxType
  <2>4. \A c \in Drainers : drainer'[c] = IF c = d THEN new ELSE drainer[c]
    BY <2>2 DEF OutboxType
  <2>5. DrainersCover'
    BY <2>1, <2>2, <2>4 DEF DrainersCover, ActiveUnlessMissed
  <2> QED BY <2>2, <2>3, <2>5 DEF ActiveUnlessMissed, NoAttemptBefore, NoEventLost
<1>2. ASSUME NEW d \in Drainers, NEW p \in Endpoints, EnqueueAttempt(d, p) PROVE OutboxInv'
  <2>1. /\ UNCHANGED <<event, silent, active, missed>> /\ p \in drainer[d].left
        /\ attempts' = attempts \cup (drainer[d].event \X {p})
        /\ drainer' = [drainer EXCEPT ![d].left = @ \ {p}]
    BY <1>2 DEF EnqueueAttempt
  <2>2. /\ drainer[d] \in [event : SUBSET Events, left : SUBSET Endpoints]
        /\ \A c \in Drainers : c # d => drainer'[c] = drainer[c]
        /\ drainer'[d].event = drainer[d].event /\ drainer'[d].left = drainer[d].left \ {p}
    BY <2>1 DEF OutboxType
  <2>3. OutboxType'
    <3>1. drainer' \in [Drainers -> [event : SUBSET Events, left : SUBSET Endpoints]]
      BY <2>1, <2>2 DEF OutboxType
    <3>2. attempts' \subseteq Events \X Endpoints BY <2>1, <2>2 DEF OutboxType
    <3> QED BY <2>1, <3>1, <3>2 DEF OutboxType
  <2>4. /\ attempts \subseteq attempts'
        /\ \A e \in drainer[d].event : /\ <<e, p>> \in attempts' /\ event[e] # "none" /\ ~silent[e]
        /\ \A e \in Events : \A q \in Endpoints :
             <<e, q>> \in attempts' => <<e, q>> \in attempts \/ e \in drainer[d].event
    BY <2>1, <2>2 DEF DrainersCover
  <2>5. DrainersCover' BY <2>1, <2>2, <2>4 DEF DrainersCover
  <2>6. NoAttemptBefore' BY <2>1, <2>4 DEF NoAttemptBefore
  <2>7. NoEventLost' BY <2>1, <2>4 DEF NoEventLost
  <2> QED BY <2>1, <2>3, <2>5, <2>6, <2>7 DEF ActiveUnlessMissed
<1>3. ASSUME NEW d \in Drainers, DrainMark(d) PROVE OutboxInv'
  <2>1. /\ UNCHANGED <<silent, active, missed, attempts>> /\ drainer[d].left = {}
        /\ event' = [e \in Events |-> IF e \in drainer[d].event /\ event[e] = "undelivered"
                                      THEN "delivered" ELSE event[e]]
        /\ drainer' = [drainer EXCEPT ![d] = NotDraining]
    BY <1>3 DEF DrainMark
  <2>2. /\ \A c \in Drainers : drainer'[c] = drainer[c] \/ drainer'[c].event = {}
        /\ \A e \in Events : \/ event'[e] = event[e]
                             \/ /\ e \in drainer[d].event /\ event[e] = "undelivered"
                                /\ event'[e] = "delivered"
    BY <2>1 DEF OutboxType, NotDraining
  <2>3. OutboxType' BY <2>1 DEF OutboxType, NotDraining
  <2>4. DrainersCover' BY <2>1, <2>2 DEF DrainersCover, OutboxType
  <2>5. NoEventLost'
    <3> SUFFICES ASSUME NEW e \in Events
                 PROVE  /\ event'[e] \in {"delivered", "reaped"} /\ ~silent[e] =>
                             \A p \in Endpoints \ missed[e] : <<e, p>> \in attempts
                        /\ silent[e] => \A p \in Endpoints : <<e, p>> \notin attempts
      BY <2>1 DEF NoEventLost
    <3>1. CASE event'[e] = event[e] BY <3>1 DEF NoEventLost
    <3>2. CASE e \in drainer[d].event
      <4>1. ~silent[e] => \A p \in Endpoints \ missed[e] : <<e, p>> \in attempts
        BY <2>1, <3>2 DEF DrainersCover
      <4> QED BY <4>1 DEF NoEventLost
    <3> QED BY <2>2, <3>1, <3>2
  <2>6. ActiveUnlessMissed' /\ NoAttemptBefore'
    BY <2>1, <2>2 DEF ActiveUnlessMissed, NoAttemptBefore
  <2> QED BY <2>3, <2>4, <2>5, <2>6
<1>4. ASSUME NEW d \in Drainers, EnqueueFails(d) PROVE OutboxInv'
  <2>1. UNCHANGED <<event, silent, active, missed, attempts>>
        /\ drainer' = [drainer EXCEPT ![d] = NotDraining]
    BY <1>4 DEF EnqueueFails
  <2>2. \A c \in Drainers : drainer'[c] = drainer[c] \/ drainer'[c].event = {}
    BY <2>1 DEF OutboxType, NotDraining
  <2>3. OutboxType' BY <2>1 DEF OutboxType, NotDraining
  <2> QED BY <2>1, <2>2, <2>3 DEF DrainersCover, ActiveUnlessMissed, NoAttemptBefore, NoEventLost
<1>5. ASSUME NEW p \in Endpoints, ToggleEndpoint(p) PROVE OutboxInv'
  <2>1. /\ UNCHANGED <<event, silent, attempts, drainer>>
        /\ active' = IF p \in active THEN active \ {p} ELSE active \cup {p}
        /\ missed' = [e \in Events |-> IF event[e] = "undelivered" THEN missed[e] \cup {p}
                                       ELSE missed[e]]
    BY <1>5 DEF ToggleEndpoint
  <2>2. /\ \A e \in Events : missed[e] \subseteq missed'[e]
        /\ \A e \in Events : event[e] = "undelivered" => missed'[e] = missed[e] \cup {p}
        /\ \A e \in Events : event[e] # "undelivered" => missed'[e] = missed[e]
    BY <2>1 DEF OutboxType
  <2>3. OutboxType' BY <2>1 DEF OutboxType
  <2>4. ActiveUnlessMissed' BY <2>1, <2>2 DEF ActiveUnlessMissed
  <2>5. DrainersCover' BY <2>1, <2>2 DEF DrainersCover, OutboxType
  <2>6. NoEventLost' BY <2>1, <2>2 DEF NoEventLost
  <2> QED BY <2>1, <2>3, <2>4, <2>5, <2>6 DEF NoAttemptBefore
<1>6. ASSUME NEW e \in Events, Reap(e) PROVE OutboxInv'
  <2>1. /\ UNCHANGED <<silent, active, missed, attempts, drainer>>
        /\ event[e] = "delivered" /\ event'[e] = "reaped"
        /\ \A f \in Events : f # e => event'[f] = event[f]
    BY <1>6 DEF Reap, OutboxType
  <2>2. OutboxType' BY <1>6 DEF Reap, OutboxType
  <2>3. DrainersCover' BY <2>1 DEF DrainersCover, OutboxType
  <2> QED BY <2>1, <2>2, <2>3 DEF ActiveUnlessMissed, NoAttemptBefore, NoEventLost
<1>7. ASSUME UNCHANGED ovars PROVE OutboxInv'
  BY <1>7 DEF ovars, OutboxType, ActiveUnlessMissed, DrainersCover, NoAttemptBefore, NoEventLost
<1> QED BY <1>1, <1>2, <1>3, <1>4, <1>5, <1>6, <1>7 DEF OStep, Drain

-----------------------------------------------------------------------------
(* Requests: what the steps do to a handler, and to the quota.             *)

LEMMA MaxQuotaBounds == MaxQuota \in Nat /\ \A r \in Quotas : r \in Nat /\ r <= MaxQuota
BY AdmissionAssumption DEF MaxQuota

LEMMA Sizes ==
  ASSUME AdmissionType
  PROVE  /\ Cardinality(messages) \in Nat /\ Cardinality(Handlers) \in Nat
         /\ Cardinality(Handlers) >= 1
         /\ IsFiniteSet(Inserting) /\ Cardinality(Inserting) \in Nat
         /\ Cardinality(Inserting) <= Cardinality(Handlers)
<1>1. IsFiniteSet(Handlers) /\ Handlers # {} BY AdmissionAssumption
<1>2. Inserting \in SUBSET Handlers BY DEF Inserting
<1>3. IsFiniteSet(Inserting) /\ Cardinality(Inserting) <= Cardinality(Handlers)
  BY <1>1, <1>2, FS_Subset
<1>4. Cardinality(messages) \in Nat /\ Cardinality(Handlers) \in Nat /\ Cardinality(Inserting) \in Nat
  BY <1>1, <1>3, FS_CardinalityType DEF AdmissionType
<1>5. Cardinality(Handlers) # 0 BY <1>1, FS_EmptySet
<1> QED BY <1>3, <1>4, <1>5

\* No message is added and no request passes the check: the quota's account
\* does not grow.
LEMMA QuotaKept ==
  ASSUME AdmissionInv, AdmissionType', messages' = messages, Inserting' \subseteq Inserting
  PROVE  QuotaReserved'
<1>1. IsFiniteSet(Inserting) /\ Cardinality(Inserting) \in Nat /\ Cardinality(messages) \in Nat
      /\ Cardinality(Handlers) \in Nat
  BY Sizes DEF AdmissionInv
<1>2. Cardinality(Inserting') <= Cardinality(Inserting) /\ Cardinality(Inserting') \in Nat
  <2>1. Inserting' \in SUBSET Inserting OBVIOUS
  <2>2. IsFiniteSet(Inserting') /\ Cardinality(Inserting') <= Cardinality(Inserting)
    BY <1>1, <2>1, FS_Subset
  <2> QED BY <2>2, FS_CardinalityType
<1> QED BY <1>1, <1>2, MaxQuotaBounds DEF AdmissionInv, QuotaReserved

\* A request passes the check with a quota that is not used up: at worst all
\* the others have passed it too.
LEMMA QuotaPassed ==
  ASSUME AdmissionInv, AdmissionType', messages' = messages,
         NEW q \in Quotas, Cardinality(messages) < q
  PROVE  QuotaReserved'
<1>1. Cardinality(Inserting') \in Nat /\ Cardinality(Inserting') <= Cardinality(Handlers)
      /\ Cardinality(messages) \in Nat /\ Cardinality(Handlers) \in Nat
  <2>1. Inserting' \in SUBSET Handlers BY DEF Inserting
  <2>2. IsFiniteSet(Inserting') /\ Cardinality(Inserting') <= Cardinality(Handlers)
    BY <2>1, FS_Subset, AdmissionAssumption
  <2> QED BY <2>2, FS_CardinalityType, Sizes DEF AdmissionInv
<1> QED BY <1>1, MaxQuotaBounds DEF QuotaReserved

\* A request that had passed the check inserts its message.
LEMMA QuotaInserted ==
  ASSUME AdmissionInv, AdmissionType', NEW h \in Inserting, Inserting' \subseteq Inserting \ {h},
         NEW m, messages' \subseteq messages \cup {m}
  PROVE  QuotaReserved'
<1>1. IsFiniteSet(Inserting) /\ Cardinality(Inserting) \in Nat /\ Cardinality(messages) \in Nat
      /\ Cardinality(Handlers) \in Nat /\ IsFiniteSet(messages)
  BY Sizes DEF AdmissionInv, AdmissionType
<1>2. IsFiniteSet(Inserting \ {h}) /\ Cardinality(Inserting \ {h}) = Cardinality(Inserting) - 1
  BY <1>1, FS_RemoveElement
<1>3. Cardinality(Inserting') <= Cardinality(Inserting) - 1 /\ Cardinality(Inserting') \in Nat
  <2>1. Inserting' \in SUBSET (Inserting \ {h}) OBVIOUS
  <2>2. IsFiniteSet(Inserting') /\ Cardinality(Inserting') <= Cardinality(Inserting \ {h})
    BY <1>2, <2>1, FS_Subset
  <2> QED BY <1>2, <2>2, FS_CardinalityType
<1>4. IsFiniteSet(messages \cup {m}) /\ Cardinality(messages \cup {m}) <= Cardinality(messages) + 1
  <2>1. /\ IsFiniteSet(messages \cup {m})
        /\ Cardinality(messages \cup {m}) =
             IF m \in messages THEN Cardinality(messages) ELSE Cardinality(messages) + 1
    BY <1>1, FS_AddElement
  <2> QED BY <1>1, <2>1
<1>5. Cardinality(messages') <= Cardinality(messages) + 1 /\ Cardinality(messages') \in Nat
  <2>1. messages' \in SUBSET (messages \cup {m}) OBVIOUS
  <2>2. IsFiniteSet(messages') /\ Cardinality(messages') <= Cardinality(messages \cup {m})
    BY <1>4, <2>1, FS_Subset
  <2>3. Cardinality(messages \cup {m}) \in Nat BY <1>4, FS_CardinalityType
  <2> QED BY <1>1, <1>4, <2>2, <2>3, FS_CardinalityType
<1> QED BY <1>1, <1>3, <1>5, MaxQuotaBounds DEF AdmissionInv, QuotaReserved

\* One handler's record is replaced by another of its shape.
Shapes == {Free} \cup Arrived \cup Checked \cup Done \cup Answering

LEMMA ReplaceType ==
  ASSUME AdmissionType, NEW h \in Handlers, NEW r \in Shapes, handler' = [handler EXCEPT ![h] = r]
  PROVE  /\ handler' \in [Handlers -> Shapes]
         /\ handler'[h] = r /\ \A g \in Handlers : g # h => handler'[g] = handler[g]
BY DEF AdmissionType, Shapes

LEMMA ShapesAt ==
  ASSUME NEW r \in Shapes
  PROVE  /\ r.at = "reserve" => r \in Arrived
         /\ r.at \in Checks => r \in Checked
         /\ r.at = "store" => r \in Done
         /\ r.at = "answer" => r \in Answering
         /\ r.at = "free" => r = Free
         /\ r.at \in {"free", "reserve", "store", "answer"} \cup Checks
BY DEF Shapes, Free, Arrived, Checked, Done, Answering, Checks

-----------------------------------------------------------------------------
(* Requests: the kinds of steps.                                           *)

\* The parts of the invariant that are not types.
Promises == QuotaKnown /\ QuotaReserved /\ KeyGuards /\ OneMessage

\* A check is passed, or the app resolved.
LEMMA OnwardInv ==
  ASSUME AdmissionInv, AdmissionType', NEW h \in Handlers,
         UNCHANGED <<send, told, httpKey, messages, window>>,
         \A g \in Handlers : g # h => handler'[g] = handler[g],
         handler[h].at \in Checks, handler'[h].at \in Checks, handler'[h].send = handler[h].send,
         handler'[h].quota \in Quotas,
         handler'[h].at = "insert" => Cardinality(messages) < handler'[h].quota
  PROVE  Promises'
<1>1. QuotaKnown' BY DEF AdmissionInv, QuotaKnown
<1>2. QuotaReserved'
  <2>1. CASE handler'[h].at = "insert" BY <2>1, QuotaPassed
  <2>2. CASE handler'[h].at # "insert"
    <3>1. Inserting' \subseteq Inserting BY <2>2 DEF Inserting
    <3> QED BY <3>1, QuotaKept
  <2> QED BY <2>1, <2>2
<1>3. ASSUME NEW s \in Sends, send[s].httpKey PROVE KeyGuard(s)'
  <2>1. KeyGuard(s) BY <1>3 DEF AdmissionInv, KeyGuards
  <2>2. \A g \in Handlers : Under(g, s)' = Under(g, s) BY DEF Under, Checks
  <2>3. Sent(s)' = Sent(s) BY DEF Sent
  <2>4. \A g \in Handlers : HandlerTells(g, s)'
    BY <2>1, <2>2, <2>3 DEF KeyGuard, HandlerTells, Checks
  <2> QED BY <2>1, <2>2, <2>3, <2>4 DEF KeyGuard
<1>4. KeyGuards' BY <1>3 DEF KeyGuards
<1>5. OneMessage' BY DEF AdmissionInv, OneMessage
<1> QED BY <1>1, <1>2, <1>4, <1>5 DEF Promises

\* A check refuses the request.
LEMMA RefusedInv ==
  ASSUME AdmissionInv, AdmissionType', NEW h \in Handlers,
         UNCHANGED <<send, told, httpKey, messages, window>>,
         \A g \in Handlers : g # h => handler'[g] = handler[g],
         handler[h].at \in Checks, handler'[h].at = "store", handler'[h].send = handler[h].send,
         handler'[h].answer = "refused"
  PROVE  Promises'
<1>1. QuotaKnown' BY DEF AdmissionInv, QuotaKnown, Checks
<1>2. Inserting' \subseteq Inserting BY DEF Inserting
<1>3. ASSUME NEW s \in Sends, send[s].httpKey PROVE KeyGuard(s)'
  <2>1. KeyGuard(s) BY <1>3 DEF AdmissionInv, KeyGuards
  <2>2. \A g \in Handlers : Under(g, s)' = Under(g, s) BY DEF Under
  <2>3. Sent(s)' = Sent(s) BY DEF Sent
  <2>4. \A g \in Handlers : HandlerTells(g, s)'
    <3> TAKE g \in Handlers
    <3>1. HandlerTells(g, s) BY <2>1 DEF KeyGuard
    <3>2. CASE g = h BY <2>2, <2>3, <3>1, <3>2 DEF HandlerTells, Checks
    <3>3. CASE g # h BY <2>2, <2>3, <3>1, <3>3 DEF HandlerTells
    <3> QED BY <3>2, <3>3
  <2> QED BY <2>1, <2>2, <2>3, <2>4 DEF KeyGuard
<1>4. KeyGuards' BY <1>3 DEF KeyGuards
<1>5. OneMessage' BY DEF AdmissionInv, OneMessage
<1> QED BY <1>1, <1>2, <1>4, <1>5, QuotaKept DEF Promises

\* A handler begins with a request, or is done with it: told the answer the
\* key keeps, or nothing.
LEMMA FreedInv ==
  ASSUME AdmissionInv, AdmissionType', NEW h \in Handlers,
         UNCHANGED <<send, httpKey, messages, window>>,
         \A g \in Handlers : g # h => handler'[g] = handler[g],
         handler'[h].at \in {"free", "reserve"},
         \A s \in Sends : told'[s] = told[s] \/ (send[s].httpKey => told'[s] = httpKey[s])
  PROVE  Promises'
<1>1. QuotaKnown' BY DEF AdmissionInv, QuotaKnown, Checks
<1>2. Inserting' \subseteq Inserting BY DEF Inserting
<1>3. ASSUME NEW s \in Sends, send[s].httpKey PROVE KeyGuard(s)'
  <2>1. KeyGuard(s) BY <1>3 DEF AdmissionInv, KeyGuards
  <2>2. /\ \A g \in Handlers : g # h => Under(g, s)' = Under(g, s)
        /\ ~Under(h, s)'
    BY DEF Under, Checks
  <2>3. Sent(s)' = Sent(s) BY DEF Sent
  <2>4. \A g \in Handlers : HandlerTells(g, s)'
    <3> TAKE g \in Handlers
    <3>1. HandlerTells(g, s) BY <2>1 DEF KeyGuard
    <3>2. CASE g = h BY <2>2, <3>2 DEF HandlerTells
    <3>3. CASE g # h BY <2>2, <2>3, <3>1, <3>3 DEF HandlerTells
    <3> QED BY <3>2, <3>3
  <2>5. told'[s] # Nothing => httpKey[s] = told'[s] BY <1>3, <2>1 DEF KeyGuard
  <2>6. \A f, g \in Handlers : Under(f, s)' /\ Under(g, s)' => f = g BY <2>1, <2>2 DEF KeyGuard
  <2> QED BY <2>1, <2>3, <2>4, <2>5, <2>6 DEF KeyGuard
<1>4. KeyGuards' BY <1>3 DEF KeyGuards
<1>5. OneMessage' BY DEF AdmissionInv, OneMessage
<1> QED BY <1>1, <1>2, <1>4, <1>5, QuotaKept DEF Promises

\* The idempotency layer lets a request through, or answers for it.
LEMMA ReserveInv ==
  ASSUME AdmissionInv, NEW h \in Handlers, Reserve(h)
  PROVE  AdmissionType' /\ Promises'
<1> DEFINE s == handler[h].send
           ans == IF httpKey[s] = "running" THEN "retry" ELSE httpKey[s]
           through == [at |-> "app", send |-> s, quota |-> 0]
           answered == [at |-> "answer", send |-> s, answer |-> ans]
<1>1. /\ UNCHANGED <<send, app, appCache, told, messages, window>> /\ handler[h].at = "reserve"
  BY DEF Reserve, Rest
<1>2. s \in Sends /\ handler[h] \in Shapes
  <2>1. handler[h] \in Shapes BY DEF AdmissionInv, AdmissionType, Shapes
  <2>2. handler[h] \in Arrived BY <1>1, <2>1, ShapesAt
  <2> QED BY <2>1, <2>2 DEF Arrived
<1>3. CASE ~send[s].httpKey \/ httpKey[s] = Nothing
  <2>1. /\ httpKey' = IF send[s].httpKey THEN [httpKey EXCEPT ![s] = "running"] ELSE httpKey
        /\ handler' = [handler EXCEPT ![h] = through]
    BY <1>3 DEF Reserve
  <2>2. through \in Shapes /\ through.at = "app" /\ through.send = s
    BY <1>2 DEF Shapes, Checked, Checks
  <2> HIDE DEF through
  <2>3. /\ handler' \in [Handlers -> Shapes]
        /\ handler'[h] = through /\ \A g \in Handlers : g # h => handler'[g] = handler[g]
    BY <2>1, <2>2, ReplaceType DEF AdmissionInv
  <2>4. httpKey' \in [Sends -> Answers \cup {Nothing, "running"}]
    BY <1>2, <2>1 DEF AdmissionInv, AdmissionType
  <2>5. AdmissionType' BY <1>1, <2>3, <2>4 DEF AdmissionInv, AdmissionType, Shapes
  <2>6. QuotaKnown' BY <2>2, <2>3 DEF AdmissionInv, QuotaKnown
  <2>7. Inserting' \subseteq Inserting BY <2>2, <2>3 DEF Inserting
  <2>8. ASSUME NEW t \in Sends, send[t].httpKey PROVE KeyGuard(t)'
    <3>1. KeyGuard(t) BY <2>8 DEF AdmissionInv, KeyGuards
    <3>2. Sent(t)' = Sent(t) BY <1>1 DEF Sent
    <3>3. \A g \in Handlers : g # h => Under(g, t)' = Under(g, t) BY <2>3 DEF Under
    <3>4. CASE t # s
      <4>1. httpKey'[t] = httpKey[t] BY <2>1, <3>4 DEF AdmissionInv, AdmissionType
      <4>2. ~Under(h, t) /\ ~Under(h, t)' BY <2>2, <2>3, <3>4 DEF Under
      <4>3. \A g \in Handlers : HandlerTells(g, t)'
        BY <1>1, <2>2, <2>3, <3>1, <3>2, <3>3, <4>1, <4>2 DEF KeyGuard, HandlerTells
      <4> QED BY <1>1, <3>1, <3>2, <3>3, <4>1, <4>2, <4>3 DEF KeyGuard
    <3>5. CASE t = s
      <4>1. httpKey[t] = Nothing /\ httpKey'[t] = "running"
        BY <1>2, <1>3, <2>1, <2>8, <3>5 DEF AdmissionInv, AdmissionType
      <4>2. \A g \in Handlers : ~Under(g, t)
        BY <3>1, <3>5, <4>1, AdmissionAssumption DEF KeyGuard, HandlerTells
      <4>3. ~Sent(t) /\ told[t] = Nothing
        BY <3>1, <3>5, <4>1 DEF KeyGuard
      <4>4. \A g \in Handlers : HandlerTells(g, t)'
        <5> TAKE g \in Handlers
        <5>1. CASE g = h BY <2>2, <2>3, <3>2, <3>5, <4>1, <4>3, <5>1 DEF HandlerTells, Checks
        <5>2. CASE g # h
          <6>1. HandlerTells(g, t) BY <3>1, <3>5 DEF KeyGuard
          <6>2. ~(handler[g].at = "answer" /\ handler[g].send = t /\ handler[g].answer # "retry")
            <7>1. handler[g].at = "answer" => handler[g].answer \in Answers \cup {"retry"}
              BY ShapesAt DEF AdmissionInv, AdmissionType, Shapes, Answering
            <7> QED BY <4>1, <6>1, <7>1, AdmissionAssumption DEF HandlerTells, Answers
          <6> QED BY <2>3, <3>3, <3>5, <4>2, <5>2, <6>2 DEF HandlerTells
        <5> QED BY <5>1, <5>2
      <4>5. \A f, g \in Handlers : Under(f, t)' /\ Under(g, t)' => f = g BY <3>3, <3>5, <4>2
      <4> QED BY <1>1, <3>2, <3>5, <4>1, <4>3, <4>4, <4>5, AdmissionAssumption DEF KeyGuard
    <3> QED BY <3>4, <3>5
  <2>9. KeyGuards' BY <1>1, <2>8 DEF KeyGuards
  <2>10. OneMessage' BY <1>1 DEF AdmissionInv, OneMessage
  <2> QED BY <1>1, <2>5, <2>6, <2>7, <2>9, <2>10, QuotaKept DEF Promises
<1>4. CASE ~(~send[s].httpKey \/ httpKey[s] = Nothing)
  <2>1. httpKey' = httpKey /\ handler' = [handler EXCEPT ![h] = answered]
    BY <1>4 DEF Reserve
  <2>2. /\ answered \in Shapes /\ answered.at = "answer" /\ answered.send = s
        /\ answered.answer = ans
    <3>1. ans \in Answers \cup {"retry"} BY <1>2, <1>4 DEF AdmissionInv, AdmissionType
    <3> QED BY <1>2, <3>1 DEF Shapes, Answering
  <2> HIDE DEF answered
  <2>3. /\ handler' \in [Handlers -> Shapes]
        /\ handler'[h] = answered /\ \A g \in Handlers : g # h => handler'[g] = handler[g]
    BY <2>1, <2>2, ReplaceType DEF AdmissionInv
  <2>5. AdmissionType' BY <1>1, <2>1, <2>3 DEF AdmissionInv, AdmissionType, Shapes
  <2>6. QuotaKnown' BY <2>2, <2>3 DEF AdmissionInv, QuotaKnown, Checks
  <2>7. Inserting' \subseteq Inserting BY <2>2, <2>3 DEF Inserting
  <2>8. ASSUME NEW t \in Sends, send[t].httpKey PROVE KeyGuard(t)'
    <3>1. KeyGuard(t) BY <2>8 DEF AdmissionInv, KeyGuards
    <3>2. Sent(t)' = Sent(t) BY <1>1 DEF Sent
    <3>3. /\ \A g \in Handlers : Under(g, t)' = Under(g, t)
      BY <1>1, <2>2, <2>3 DEF Under, Checks
    <3>4. \A g \in Handlers : HandlerTells(g, t)'
      <4> TAKE g \in Handlers
      <4>1. HandlerTells(g, t) BY <3>1 DEF KeyGuard
      <4>2. CASE g = h BY <1>1, <2>1, <2>2, <2>3, <3>3, <4>2 DEF HandlerTells, Under, Checks
      <4>3. CASE g # h BY <2>1, <2>3, <3>2, <3>3, <4>1, <4>3 DEF HandlerTells
      <4> QED BY <4>2, <4>3
    <3> QED BY <1>1, <2>1, <3>1, <3>2, <3>3, <3>4 DEF KeyGuard
  <2>9. KeyGuards' BY <1>1, <2>8 DEF KeyGuards
  <2>10. OneMessage' BY <1>1 DEF AdmissionInv, OneMessage
  <2> QED BY <1>1, <2>5, <2>6, <2>7, <2>9, <2>10, QuotaKept DEF Promises
<1> QED BY <1>3, <1>4

\* The insert: the request's one message, or a conflict with the clientRef.
LEMMA InsertInv ==
  ASSUME AdmissionInv, NEW h \in Handlers, InsertMessage(h)
  PROVE  AdmissionType' /\ Promises'
<1> DEFINE mine == {m \in messages : m.send = handler[h].send}
           msg == [send |-> handler[h].send, no |-> Cardinality(mine)]
<1>1. /\ UNCHANGED <<send, app, appCache, told, httpKey>> /\ handler[h].at = "insert"
  BY DEF InsertMessage, Rest
<1>2. PICK s \in Sends : s = handler[h].send
  <2>1. handler[h] \in Shapes BY DEF AdmissionInv, AdmissionType, Shapes
  <2>2. handler[h] \in Checked BY <1>1, <2>1, ShapesAt DEF Checks
  <2> QED BY <2>2 DEF Checked
<1>3. msg \in [send : Sends, no : Nat] /\ msg.send = s
  <2>1. mine \in SUBSET messages OBVIOUS
  <2>2. Cardinality(mine) \in Nat
    BY <2>1, FS_Subset, FS_CardinalityType DEF AdmissionInv, AdmissionType
  <2> QED BY <1>2, <2>2
<1> HIDE DEF msg
<1>4. PICK ans \in {"conflict", "ok"} :
        /\ handler' = [handler EXCEPT ![h] = [at |-> "store", send |-> s, answer |-> ans]]
        /\ ans = "conflict" => Duplicate(s) /\ messages' = messages /\ window' = window
        /\ ans = "ok" =>
             ~Duplicate(s) /\ messages' = messages \cup {msg} /\ window' = window \cup {msg}
  BY <1>2 DEF InsertMessage, Answered, msg, mine
<1> DEFINE done == [at |-> "store", send |-> s, answer |-> ans]
<1>5. done \in Shapes /\ done.at = "store" /\ done.send = s /\ done.answer = ans
  BY <1>2 DEF Shapes, Done, Answers
<1> HIDE DEF done
<1>6. /\ handler' \in [Handlers -> Shapes]
      /\ handler'[h] = done /\ \A g \in Handlers : g # h => handler'[g] = handler[g]
  BY <1>4, <1>5, ReplaceType DEF AdmissionInv, done
<1>7. /\ messages' \subseteq messages \cup {msg} /\ messages \subseteq messages'
      /\ window' \subseteq window \cup {msg} /\ window \subseteq window'
  BY <1>4
<1>8. AdmissionType'
  <2>1. IsFiniteSet(messages')
    <3>1. IsFiniteSet(messages \cup {msg}) BY FS_AddElement DEF AdmissionInv, AdmissionType
    <3> QED BY <1>7, <3>1, FS_Subset
  <2>2. messages' \subseteq [send : Sends, no : Nat]
    BY <1>3, <1>7 DEF AdmissionInv, AdmissionType
  <2>3. window' \subseteq messages' BY <1>4 DEF AdmissionInv, AdmissionType
  <2> QED BY <1>1, <1>6, <2>1, <2>2, <2>3 DEF AdmissionInv, AdmissionType, Shapes
<1>9. QuotaKnown' BY <1>5, <1>6 DEF AdmissionInv, QuotaKnown, Checks
<1>10. QuotaReserved'
  <2>1. h \in Inserting BY <1>1 DEF Inserting
  <2>2. Inserting' \subseteq Inserting \ {h} BY <1>5, <1>6 DEF Inserting
  <2> QED BY <1>7, <1>8, <2>1, <2>2, QuotaInserted
<1>11. ASSUME NEW t \in Sends, send[t].httpKey PROVE KeyGuard(t)'
  <2>1. KeyGuard(t) BY <1>11 DEF AdmissionInv, KeyGuards
  <2>2. \A g \in Handlers : Under(g, t)' = Under(g, t)
    BY <1>1, <1>2, <1>5, <1>6 DEF Under, Checks
  <2>3. CASE t # s
    <3>1. Sent(t)' = Sent(t) BY <1>3, <1>7, <2>3 DEF Sent
    <3>2. \A g \in Handlers : HandlerTells(g, t)'
      BY <1>1, <1>2, <1>5, <1>6, <2>1, <2>2, <2>3, <3>1 DEF KeyGuard, HandlerTells, Under
    <3> QED BY <1>1, <2>1, <2>2, <3>1, <3>2 DEF KeyGuard
  <2>4. CASE t = s
    <3>1. Under(h, t) BY <1>1, <1>2, <2>4 DEF Under, Checks
    <3>2. ~Sent(t) /\ httpKey[t] = "running"
      BY <1>1, <2>1, <3>1 DEF KeyGuard, HandlerTells, Checks
    <3>3. ans = "ok" => Sent(t)' BY <1>3, <1>4, <2>4 DEF Sent
    <3>4. \A g \in Handlers : g # h => ~Under(g, t) BY <2>1, <3>1 DEF KeyGuard
    <3>5. \A g \in Handlers : HandlerTells(g, t)'
      <4> TAKE g \in Handlers
      <4>1. HandlerTells(g, t) BY <2>1 DEF KeyGuard
      <4>2. CASE g = h
        BY <1>1, <1>5, <1>6, <2>2, <3>1, <3>2, <3>3, <4>2 DEF HandlerTells, Checks
      <4>3. CASE g # h BY <1>1, <1>6, <2>2, <3>4, <4>1, <4>3 DEF HandlerTells
      <4> QED BY <4>2, <4>3
    <3> QED BY <1>1, <2>1, <2>2, <3>2, <3>3, <3>5, AdmissionAssumption DEF KeyGuard
  <2> QED BY <2>3, <2>4
<1>12. KeyGuards' BY <1>1, <1>11 DEF KeyGuards
<1>13. OneMessage'
  <2>1. ASSUME NEW t \in Sends, send[t].ref,
               NEW m \in messages', NEW n \in messages', m.send = t, n.send = t
        PROVE  m = n
    <3>1. CASE m \in messages /\ n \in messages BY <2>1, <3>1 DEF AdmissionInv, OneMessage
    <3>2. CASE ~(m \in messages /\ n \in messages)
      <4>1. t = s /\ ans = "ok" BY <1>3, <1>4, <2>1, <3>2
      <4>2. \A k \in messages : k.send # s BY <1>4, <2>1, <4>1 DEF Duplicate
      <4> QED BY <1>7, <2>1, <4>1, <4>2
    <3> QED BY <3>1, <3>2
  <2>2. ASSUME NEW t \in Sends, send[t].httpKey,
               NEW m \in window', NEW n \in window', m.send = t, n.send = t
        PROVE  m = n
    <3>1. CASE m \in window /\ n \in window BY <2>2, <3>1 DEF AdmissionInv, OneMessage
    <3>2. CASE ~(m \in window /\ n \in window)
      <4>1. t = s /\ ans = "ok" BY <1>3, <1>4, <2>2, <3>2
      <4>2. Under(h, s) BY <1>1, <1>2 DEF Under, Checks
      <4>3. KeyGuard(s) BY <2>2, <4>1 DEF AdmissionInv, KeyGuards
      <4>4. ~Sent(s) BY <1>1, <4>2, <4>3 DEF KeyGuard, HandlerTells, Checks
      <4> QED BY <1>7, <2>2, <4>1, <4>4 DEF Sent
    <3> QED BY <3>1, <3>2
  <2> QED BY <1>1, <2>1, <2>2 DEF OneMessage
<1> QED BY <1>8, <1>9, <1>10, <1>12, <1>13 DEF Promises

\* The layer keeps the answer under the caller's key.
LEMMA StoreInv ==
  ASSUME AdmissionInv, NEW h \in Handlers, StoreAnswer(h)
  PROVE  AdmissionType' /\ Promises'
<1>1. /\ UNCHANGED <<send, app, appCache, told, messages, window>> /\ handler[h].at = "store"
      /\ handler' = [handler EXCEPT ![h] = [handler[h] EXCEPT !.at = "answer"]]
  BY DEF StoreAnswer, Rest, Goes
<1>2. handler[h] \in Done
  <2>1. handler[h] \in Shapes BY DEF AdmissionInv, AdmissionType, Shapes
  <2> QED BY <1>1, <2>1, ShapesAt
<1>3. PICK s \in Sends, ans \in Answers : s = handler[h].send /\ ans = handler[h].answer
  BY <1>2 DEF Done
<1>4. httpKey' = IF send[s].httpKey THEN [httpKey EXCEPT ![s] = ans] ELSE httpKey
  BY <1>3 DEF StoreAnswer
<1> DEFINE r == [handler[h] EXCEPT !.at = "answer"]
<1>5. r \in Shapes /\ r.at = "answer" /\ r.send = s /\ r.answer = ans
  BY <1>2, <1>3 DEF Shapes, Answering, Done
<1> HIDE DEF r
<1>6. /\ handler' \in [Handlers -> Shapes]
      /\ handler'[h] = r /\ \A g \in Handlers : g # h => handler'[g] = handler[g]
  BY <1>1, <1>5, ReplaceType DEF AdmissionInv, r
<1>7. AdmissionType'
  <2>1. httpKey' \in [Sends -> Answers \cup {Nothing, "running"}]
    BY <1>4 DEF AdmissionInv, AdmissionType
  <2> QED BY <1>1, <1>6, <2>1 DEF AdmissionInv, AdmissionType, Shapes
<1>8. QuotaKnown' BY <1>5, <1>6 DEF AdmissionInv, QuotaKnown, Checks
<1>9. Inserting' \subseteq Inserting BY <1>5, <1>6 DEF Inserting
<1>10. ASSUME NEW t \in Sends, send[t].httpKey PROVE KeyGuard(t)'
  <2>1. KeyGuard(t) BY <1>10 DEF AdmissionInv, KeyGuards
  <2>2. /\ \A g \in Handlers : g # h => Under(g, t)' = Under(g, t)
        /\ ~Under(h, t)' /\ Sent(t)' = Sent(t)
    BY <1>1, <1>5, <1>6 DEF Under, Checks, Sent
  <2>3. CASE t # s
    <3>1. httpKey'[t] = httpKey[t] BY <1>4, <2>3 DEF AdmissionInv, AdmissionType
    <3>2. \A g \in Handlers : HandlerTells(g, t)'
      <4> TAKE g \in Handlers
      <4>1. HandlerTells(g, t) BY <2>1 DEF KeyGuard
      <4>2. CASE g = h BY <1>5, <1>6, <2>2, <2>3, <4>2 DEF HandlerTells
      <4>3. CASE g # h BY <1>6, <2>2, <3>1, <4>1, <4>3 DEF HandlerTells
      <4> QED BY <4>2, <4>3
    <3> QED BY <1>1, <2>1, <2>2, <3>1, <3>2 DEF KeyGuard
  <2>4. CASE t = s
    <3>1. httpKey'[t] = ans BY <1>4, <1>10, <2>4 DEF AdmissionInv, AdmissionType
    <3>2. Under(h, t) BY <1>1, <1>3, <2>4 DEF Under
    <3>3. \A g \in Handlers : g # h => ~Under(g, t) BY <2>1, <3>2 DEF KeyGuard
    <3>4. /\ httpKey[t] = "running"
          /\ ans = "ok" => Sent(t)
          /\ ans = "refused" => ~Sent(t)
      BY <1>1, <1>3, <2>1, <3>2 DEF KeyGuard, HandlerTells
    <3>5. told[t] = Nothing
      <4>1. told[t] # Nothing => told[t] = "running" BY <2>1, <3>4 DEF KeyGuard
      <4>2. told[t] \in Answers \cup {Nothing} BY DEF AdmissionInv, AdmissionType
      <4> QED BY <4>1, <4>2 DEF Answers
    <3>6. \A g \in Handlers : HandlerTells(g, t)'
      <4> TAKE g \in Handlers
      <4>1. HandlerTells(g, t) BY <2>1 DEF KeyGuard
      <4>2. CASE g = h BY <1>5, <1>6, <2>2, <3>1, <4>2 DEF HandlerTells
      <4>3. CASE g # h
        <5>1. ~(handler[g].at = "answer" /\ handler[g].send = t /\ handler[g].answer # "retry")
          <6>1. handler[g].at = "answer" => handler[g].answer \in Answers \cup {"retry"}
            BY ShapesAt DEF AdmissionInv, AdmissionType, Shapes, Answering
          <6> QED BY <3>4, <4>1, <6>1 DEF HandlerTells, Answers
        <5> QED BY <1>6, <2>2, <3>3, <4>3, <5>1 DEF HandlerTells
      <4> QED BY <4>2, <4>3
    <3>7. \A f, g \in Handlers : Under(f, t)' /\ Under(g, t)' => f = g BY <2>2, <3>3
    <3>8. ans # Nothing BY AdmissionAssumption DEF Answers
    <3> QED BY <1>1, <2>2, <3>1, <3>4, <3>5, <3>6, <3>7, <3>8 DEF KeyGuard
  <2> QED BY <2>3, <2>4
<1>11. KeyGuards' BY <1>1, <1>10 DEF KeyGuards
<1>12. OneMessage' BY <1>1 DEF AdmissionInv, OneMessage
<1> QED BY <1>1, <1>7, <1>8, <1>9, <1>11, <1>12, QuotaKept DEF Promises

\* The layer forgets a key that no request is under.
LEMMA ExpiresInv ==
  ASSUME AdmissionInv, NEW s \in Sends, KeyExpires(s)
  PROVE  AdmissionType' /\ Promises'
<1>1. /\ UNCHANGED <<send, app, appCache, told, handler, messages>>
      /\ told[s] = Nothing /\ httpKey' = [httpKey EXCEPT ![s] = Nothing]
      /\ window' = {m \in window : m.send # s}
      /\ \A h \in Handlers : handler[h] # Free => handler[h].send # s
  BY DEF KeyExpires
<1>2. AdmissionType' BY <1>1 DEF AdmissionInv, AdmissionType
<1>3. QuotaKnown' /\ QuotaReserved'
  BY <1>1 DEF AdmissionInv, QuotaKnown, QuotaReserved, Inserting
<1>4. ASSUME NEW t \in Sends, send[t].httpKey PROVE KeyGuard(t)'
  <2>1. KeyGuard(t) BY <1>4 DEF AdmissionInv, KeyGuards
  <2>2. \A g \in Handlers : Under(g, t)' = Under(g, t) BY <1>1 DEF Under
  <2>3. CASE t # s
    <3>1. httpKey'[t] = httpKey[t] BY <1>1, <2>3 DEF AdmissionInv, AdmissionType
    <3>2. Sent(t)' = Sent(t) BY <1>1, <2>3 DEF Sent
    <3>3. \A g \in Handlers : HandlerTells(g, t)'
      BY <1>1, <2>1, <2>2, <3>1, <3>2 DEF KeyGuard, HandlerTells
    <3> QED BY <1>1, <2>1, <2>2, <3>1, <3>2, <3>3 DEF KeyGuard
  <2>4. CASE t = s
    <3>1. httpKey'[t] = Nothing /\ ~Sent(t)'
      BY <1>1, <2>4 DEF AdmissionInv, AdmissionType, Sent
    <3>2. \A g \in Handlers : ~Under(g, t)' /\ ~(handler[g].at = "answer" /\ handler[g].send = t)
      BY <1>1, <2>4 DEF Under, Checks, Free
    <3>3. \A g \in Handlers : HandlerTells(g, t)' BY <1>1, <3>2 DEF HandlerTells
    <3> QED BY <1>1, <2>4, <3>1, <3>2, <3>3, AdmissionAssumption DEF KeyGuard
  <2> QED BY <2>3, <2>4
<1>5. KeyGuards' BY <1>1, <1>4 DEF KeyGuards
<1>6. OneMessage' BY <1>1 DEF AdmissionInv, OneMessage
<1> QED BY <1>2, <1>3, <1>5, <1>6 DEF Promises

\* Every step of a request but the insert, and every change under it.
LEMMA AStepInv == AdmissionInv /\ AStep => AdmissionInv'
<1> SUFFICES ASSUME AdmissionInv, AStep PROVE AdmissionInv' OBVIOUS
<1> SUFFICES AdmissionType' /\ Promises' BY DEF AdmissionInv, Promises
<1>a. /\ handler \in [Handlers -> Shapes]
      /\ \A h \in Handlers : handler[h].at \in Checks => handler[h] \in Checked
  BY ShapesAt DEF AdmissionInv, AdmissionType, Shapes
<1>1. ASSUME NEW h \in Handlers, NEW s \in Sends, Receive(h, s) PROVE AdmissionType' /\ Promises'
  <2> DEFINE r == [at |-> "reserve", send |-> s]
  <2>1. r \in Shapes /\ r.at = "reserve" BY DEF Shapes, Arrived
  <2> HIDE DEF r
  <2>2. /\ UNCHANGED <<send, app, appCache, told, httpKey, messages, window>>
        /\ handler' = [handler EXCEPT ![h] = r]
    BY <1>1 DEF Receive, Rest, r
  <2>3. /\ handler' \in [Handlers -> Shapes]
        /\ handler'[h] = r /\ \A g \in Handlers : g # h => handler'[g] = handler[g]
    BY <2>1, <2>2, ReplaceType DEF AdmissionInv
  <2>4. AdmissionType' BY <2>2, <2>3 DEF AdmissionInv, AdmissionType, Shapes
  <2> QED BY <2>1, <2>2, <2>3, <2>4, FreedInv
<1>2. ASSUME NEW h \in Handlers, Reserve(h) PROVE AdmissionType' /\ Promises'
  BY <1>2, ReserveInv
<1>r. ASSUME NEW h \in Handlers, handler[h].at \in Checks, Answered(h, "refused"),
             UNCHANGED <<send, app, told, httpKey, appCache, messages, window>>
      PROVE  AdmissionType' /\ Promises'
  <2> DEFINE r == [at |-> "store", send |-> handler[h].send, answer |-> "refused"]
  <2>1. r \in Shapes /\ r.at = "store" /\ r.send = handler[h].send /\ r.answer = "refused"
    BY <1>r, <1>a DEF Shapes, Done, Answers, Checked
  <2>2. handler' = [handler EXCEPT ![h] = r] BY <1>r DEF Answered
  <2> HIDE DEF r
  <2>3. /\ handler' \in [Handlers -> Shapes]
        /\ handler'[h] = r /\ \A g \in Handlers : g # h => handler'[g] = handler[g]
    BY <2>1, <2>2, ReplaceType DEF AdmissionInv
  <2>4. AdmissionType' BY <1>r, <2>3 DEF AdmissionInv, AdmissionType, Shapes
  <2> QED BY <1>r, <2>1, <2>3, <2>4, RefusedInv
<1>o. ASSUME NEW h \in Handlers, handler[h].at \in Checks, NEW at \in Checks, NEW q \in Quotas,
             handler' = [handler EXCEPT ![h] = [handler[h] EXCEPT !.at = at, !.quota = q]],
             at = "insert" => Cardinality(messages) < q,
             UNCHANGED <<send, app, told, httpKey, messages, window>>,
             appCache' = appCache \/ appCache' \in [active : BOOLEAN, quota : Quotas]
      PROVE  AdmissionType' /\ Promises'
  <2> DEFINE r == [handler[h] EXCEPT !.at = at, !.quota = q]
  <2>1. r \in Shapes /\ r.at = at /\ r.send = handler[h].send /\ r.quota = q
    <3>1. handler[h] \in Checked /\ q \in Nat BY <1>o, <1>a, AdmissionAssumption
    <3> QED BY <3>1 DEF Shapes, Checked
  <2> HIDE DEF r
  <2>3. /\ handler' \in [Handlers -> Shapes]
        /\ handler'[h] = r /\ \A g \in Handlers : g # h => handler'[g] = handler[g]
    BY <1>o, <2>1, ReplaceType DEF AdmissionInv, r
  <2>4. AdmissionType' BY <1>o, <2>3 DEF AdmissionInv, AdmissionType, Shapes
  <2> QED BY <1>o, <2>1, <2>3, <2>4, OnwardInv
<1>3. ASSUME NEW h \in Handlers, ResolveApp(h) PROVE AdmissionType' /\ Promises'
  <2> DEFINE a == IF appCache = Nothing THEN app ELSE appCache
  <2>1. a \in [active : BOOLEAN, quota : Quotas] BY DEF AdmissionInv, AdmissionType
  <2>2. CASE a.active
    <3>1. /\ appCache' = a
          /\ handler' = [handler EXCEPT ![h].at = "optout", ![h].quota = a.quota]
          /\ UNCHANGED <<send, app, told, httpKey, messages, window>> /\ handler[h].at = "app"
      BY <1>3, <2>2 DEF ResolveApp, Rest
    <3>2. handler' = [handler EXCEPT ![h] =
                        [handler[h] EXCEPT !.at = "optout", !.quota = a.quota]]
      BY <3>1, <1>a
    <3> QED BY <2>1, <3>1, <3>2, <1>o DEF Checks
  <2>3. CASE ~a.active
    BY <1>3, <2>3, <1>r DEF ResolveApp, Rest, Checks
  <2> QED BY <2>2, <2>3
<1>c. ASSUME NEW h \in Handlers, NEW at \in Checks \ {"app"}, NEW ok, NEW next \in Checks,
             Check(h, at, ok, next), ok /\ next = "insert" => Cardinality(messages) < handler[h].quota
      PROVE  AdmissionType' /\ Promises'
  <2>1. handler[h].at = at /\ UNCHANGED <<send, app, told, httpKey, appCache, messages, window>>
    BY <1>c DEF Check, Rest
  <2>2. CASE ok
    <3>1. handler[h].quota \in Quotas BY <2>1 DEF AdmissionInv, QuotaKnown
    <3>2. handler[h] \in Checked BY <1>a, <2>1
    <3>3. handler' = [handler EXCEPT ![h] = [handler[h] EXCEPT !.at = next]]
      BY <1>c, <2>2 DEF Check, Goes
    <3>4. [handler[h] EXCEPT !.at = next]
             = [handler[h] EXCEPT !.at = next, !.quota = handler[h].quota]
      BY <3>2 DEF Checked
    <3>5. handler' = [handler EXCEPT ![h] =
                        [handler[h] EXCEPT !.at = next, !.quota = handler[h].quota]]
      BY <3>3, <3>4
    <3> QED BY <1>c, <2>1, <2>2, <3>1, <3>5, <1>o
  <2>3. CASE ~ok BY <1>c, <2>1, <2>3, <1>r DEF Check
  <2> QED BY <2>2, <2>3
<1>4. ASSUME NEW h \in Handlers, EnsureNotOptedOut(h) PROVE AdmissionType' /\ Promises'
  BY <1>4, <1>c DEF EnsureNotOptedOut, Checks
<1>5. ASSUME NEW h \in Handlers, EnsureQuietHours(h) PROVE AdmissionType' /\ Promises'
  BY <1>5, <1>c DEF EnsureQuietHours, Checks
<1>6. ASSUME NEW h \in Handlers, EnsureConsent(h) PROVE AdmissionType' /\ Promises'
  BY <1>6, <1>c DEF EnsureConsent, Checks
<1>7. ASSUME NEW h \in Handlers, EnsureQuota(h) PROVE AdmissionType' /\ Promises'
  BY <1>7, <1>c DEF EnsureQuota, Checks
<1>8. ASSUME NEW h \in Handlers, SenderRefused(h) PROVE AdmissionType' /\ Promises'
  BY <1>8, <1>r DEF SenderRefused, Rest, Checks
<1>9. ASSUME NEW h \in Handlers, StoreAnswer(h) PROVE AdmissionType' /\ Promises'
  BY <1>9, StoreInv
<1>f. ASSUME NEW h \in Handlers, handler' = [handler EXCEPT ![h] = Free],
             UNCHANGED <<send, app, httpKey, appCache, messages, window>>,
             told' \in [Sends -> Answers \cup {Nothing}],
             \A s \in Sends : told'[s] = told[s] \/ (send[s].httpKey => told'[s] = httpKey[s])
      PROVE  AdmissionType' /\ Promises'
  <2>1. Free \in Shapes /\ Free.at = "free" BY DEF Shapes, Free
  <2>2. /\ handler' \in [Handlers -> Shapes]
        /\ handler'[h] = Free /\ \A g \in Handlers : g # h => handler'[g] = handler[g]
    BY <1>f, <2>1, ReplaceType DEF AdmissionInv
  <2>3. AdmissionType' BY <1>f, <2>2 DEF AdmissionInv, AdmissionType, Shapes
  <2> QED BY <1>f, <2>1, <2>2, <2>3, FreedInv
<1>10. ASSUME NEW h \in Handlers, Deliver(h) PROVE AdmissionType' /\ Promises'
  <2>1. handler[h] \in Answering /\ handler[h].at = "answer"
    BY <1>10, <1>a, ShapesAt DEF Deliver
  <2>2. PICK s \in Sends, ans \in Answers \cup {"retry"} :
          s = handler[h].send /\ ans = handler[h].answer
    BY <2>1 DEF Answering
  <2>3. told' = IF ans = "retry" THEN told ELSE [told EXCEPT ![s] = ans]
    BY <1>10, <2>2 DEF Deliver
  <2>4. told' \in [Sends -> Answers \cup {Nothing}] BY <2>3 DEF AdmissionInv, AdmissionType
  <2>5. \A t \in Sends : told'[t] = told[t] \/ (send[t].httpKey => told'[t] = httpKey[t])
    <3> TAKE t \in Sends
    <3>1. CASE t # s BY <2>3, <3>1 DEF AdmissionInv, AdmissionType
    <3>2. CASE t = s /\ ans = "retry" BY <2>3, <3>2
    <3>3. CASE t = s /\ ans # "retry"
      <4>1. told'[t] = ans BY <2>3, <3>3 DEF AdmissionInv, AdmissionType
      <4>2. send[t].httpKey => HandlerTells(h, t) BY DEF AdmissionInv, KeyGuards, KeyGuard
      <4> QED BY <2>1, <2>2, <3>3, <4>1, <4>2 DEF HandlerTells
    <3> QED BY <3>1, <3>2, <3>3
  <2> QED BY <1>10, <1>f, <2>4, <2>5 DEF Deliver, Rest
<1>11. ASSUME NEW h \in Handlers, Lose(h) \/ CrashHandler(h) PROVE AdmissionType' /\ Promises'
  BY <1>11, <1>f DEF Lose, CrashHandler, Rest, AdmissionInv, AdmissionType
<1>e. ASSUME UNCHANGED <<send, tries, told, httpKey, handler, messages, window>>,
             app' \in [active : BOOLEAN, quota : Quotas],
             appCache' = appCache \/ appCache' = Nothing
      PROVE  AdmissionType' /\ Promises'
  <2>1. AdmissionType' BY <1>e DEF AdmissionInv, AdmissionType
  <2>2. QuotaKnown' /\ QuotaReserved' /\ OneMessage'
    BY <1>e DEF AdmissionInv, QuotaKnown, QuotaReserved, OneMessage, Inserting
  <2>3. KeyGuards'
    BY <1>e DEF AdmissionInv, KeyGuards, KeyGuard, HandlerTells, Under, Sent
  <2> QED BY <2>1, <2>2, <2>3 DEF Promises
<1>12. ASSUME NEW active1 \in BOOLEAN, NEW quota \in Quotas, EditApp(active1, quota)
       PROVE  AdmissionType' /\ Promises'
  BY <1>12, <1>e DEF EditApp, Elsewhere
<1>13. ASSUME CacheExpires \/ RecordOptOut \/ EditConsent \/ DuskOrDawn
       PROVE  AdmissionType' /\ Promises'
  BY <1>13, <1>e DEF CacheExpires, RecordOptOut, EditConsent, DuskOrDawn, Elsewhere,
                     AdmissionInv, AdmissionType
<1>14. ASSUME NEW s \in Sends, KeyExpires(s) PROVE AdmissionType' /\ Promises'
  BY <1>14, ExpiresInv
<1> QED
  BY <1>1, <1>2, <1>3, <1>4, <1>5, <1>6, <1>7, <1>8, <1>9, <1>10, <1>11, <1>12, <1>13, <1>14
  DEF AStep

-----------------------------------------------------------------------------
(* sendMessage and its outbox together.                                    *)

LEMMA InitInv == Init => AdmissionInv /\ OutboxInv
<1> SUFFICES ASSUME Init PROVE AdmissionInv /\ OutboxInv OBVIOUS
<1>1. AdmissionType
  <2>1. IsFiniteSet(messages) BY FS_EmptySet DEF Init, AInit
  <2> QED BY <2>1 DEF Init, AInit, AdmissionType
<1>2. \A h \in Handlers : handler[h].at = "free" BY DEF Init, AInit, Free
<1>3. QuotaReserved
  <2>1. Inserting = {} BY <1>2 DEF Inserting
  <2>2. Cardinality(messages) = 0 /\ Cardinality(Inserting) = 0
    BY <2>1, FS_EmptySet DEF Init, AInit
  <2> QED BY <1>1, <2>2, Sizes, MaxQuotaBounds DEF QuotaReserved
<1>4. QuotaKnown /\ OneMessage
  BY <1>2 DEF QuotaKnown, OneMessage, Init, AInit, Checks
<1>5. KeyGuards
  <2>1. \A s \in Sends : ~Sent(s) /\ told[s] = Nothing /\ httpKey[s] = Nothing
    BY DEF Init, AInit, Sent
  <2>2. \A h \in Handlers : \A s \in Sends : ~Under(h, s) BY <1>2 DEF Under, Checks
  <2> QED BY <1>2, <2>1, <2>2, AdmissionAssumption DEF KeyGuards, KeyGuard, HandlerTells
<1>6. OutboxInv
  BY DEF Init, OInit, OutboxInv, OutboxType, NotDraining, ActiveUnlessMissed, DrainersCover,
         NoAttemptBefore, NoEventLost
<1> QED BY <1>1, <1>3, <1>4, <1>5, <1>6 DEF AdmissionInv

LEMMA NextInv == AdmissionInv /\ OutboxInv /\ [Next]_vars => AdmissionInv' /\ OutboxInv'
<1> SUFFICES ASSUME AdmissionInv, OutboxInv, [Next]_vars PROVE AdmissionInv' /\ OutboxInv'
  OBVIOUS
<1>s. UNCHANGED avars => AdmissionInv'
  BY DEF avars, AdmissionInv, AdmissionType, QuotaKnown, QuotaReserved, Inserting, KeyGuards,
         KeyGuard, HandlerTells, Under, Sent, OneMessage
<1>1. ASSUME NEW h \in Handlers, Insert(h) PROVE AdmissionInv' /\ OutboxInv'
  <2>1. AdmissionInv' BY <1>1, InsertInv DEF Insert, AdmissionInv, Promises
  <2>2. OutboxInv'
    <3>1. CASE messages' = messages BY <1>1, <3>1, OStepInv DEF Insert
    <3>2. CASE messages' # messages
      <4>1. PICK m \in messages' \ messages : Emit(EventOf(m, "created"), FALSE)
        BY <1>1, <3>2 DEF Insert
      <4> QED BY <4>1, EmitInv
    <3> QED BY <3>1, <3>2
  <2> QED BY <2>1, <2>2
<1>2. ASSUME NEW m \in messages, NEW quiet \in BOOLEAN, UpdateMessage(m, quiet)
      PROVE  AdmissionInv' /\ OutboxInv'
  BY <1>2, <1>s, EmitInv DEF UpdateMessage
<1>3. CASE AStep /\ UNCHANGED ovars BY <1>3, AStepInv, OStepInv
<1>4. CASE OStep /\ UNCHANGED avars BY <1>4, <1>s, OStepInv
<1>5. CASE UNCHANGED vars BY <1>5, <1>s, OStepInv DEF vars
<1> QED BY <1>1, <1>2, <1>3, <1>4, <1>5 DEF Next

\* send in procedures.rs and the drain keep the invariant: the requests under
\* way, the keys, the messages and the events agree after every step.
THEOREM AcceptInvariance == Spec => [](AdmissionInv /\ OutboxInv)
<1> DEFINE I == AdmissionInv /\ OutboxInv
<1>1. Init => I BY InitInv
<1>2. I /\ [Next]_vars => I' BY NextInv
<1> HIDE DEF I
<1>3. Spec => []I BY <1>1, <1>2, PTL DEF Spec
<1> QED BY <1>3 DEF I

\* A month holds at most the quota and one message for each request handled
\* at once but one, whatever quota the requests read, fresh or cached
\* (ensure_within_quota).
THEOREM QuotaIsSoftWithinHandlers == Spec => []QuotaOvershootBounded
<1>1. AdmissionInv /\ OutboxInv => QuotaOvershootBounded
  <2> SUFFICES ASSUME AdmissionInv PROVE QuotaOvershootBounded OBVIOUS
  <2>1. Cardinality(messages) + Cardinality(Inserting) <= MaxQuota + Cardinality(Handlers) - 1
    BY DEF AdmissionInv, QuotaReserved
  <2> QED BY <2>1, Sizes, MaxQuotaBounds DEF AdmissionInv, QuotaOvershootBounded
<1> QED BY <1>1, AcceptInvariance, PTL

\* A send with a clientRef becomes one message at most for good, and one with
\* an Idempotency-Key one at most in the life of the key; the caller of a keyed
\* one is told what happened, however often it asks again and whatever crashes
\* (send in procedures.rs, the layer and its TTL in router.rs).
THEOREM RetriedSendsAreSafe == Spec => []SentOnceAndToldSo
<1>1. AdmissionInv /\ OutboxInv => SentOnceAndToldSo
  <2> SUFFICES ASSUME AdmissionInv PROVE SentOnceAndToldSo OBVIOUS
  <2>1. ASSUME NEW s \in Sends, NEW S,
               \A m, n \in S : m.send = s /\ n.send = s => m = n
        PROVE  Cardinality({m \in S : m.send = s}) <= 1
    <3>1. CASE {m \in S : m.send = s} = {} BY <3>1, FS_EmptySet
    <3>2. CASE {m \in S : m.send = s} # {}
      <4>1. PICK m \in S : m.send = s BY <3>2
      <4>2. {n \in S : n.send = s} = {m} BY <2>1, <4>1
      <4>3. Cardinality({m}) = 1 BY FS_Singleton
      <4>4. Cardinality({n \in S : n.send = s}) = 1 BY <4>2, <4>3, Zenon
      <4> QED BY <4>4
    <3> QED BY <3>1, <3>2
  <2>2. SendOnce BY <2>1 DEF SendOnce, AdmissionInv, OneMessage
  <2>3. ToldTheTruth
    <3> SUFFICES ASSUME NEW s \in Sends, send[s].httpKey
                 PROVE  /\ told[s] = "ok" => \E m \in messages : m.send = s
                        /\ told[s] = "refused" => ~Sent(s)
      BY DEF ToldTheTruth, Sent
    <3>1. KeyGuard(s) BY DEF AdmissionInv, KeyGuards
    <3>2. Sent(s) => \E m \in messages : m.send = s BY DEF Sent, AdmissionInv, AdmissionType
    <3> QED BY <3>1, <3>2, AdmissionAssumption DEF KeyGuard
  <2> QED BY <2>2, <2>3 DEF SentOnceAndToldSo
<1> QED BY <1>1, AcceptInvariance, PTL

\* Whatever fails, dies or runs twice, an event that is delivered or reaped
\* has an attempt for every endpoint that was active all along, and one of a
\* purged message has none (webhooks.rs, drain.rs, reap_outbox.rs).
THEOREM EventsReachTheirEndpoints == Spec => []NoEventLost
<1>1. AdmissionInv /\ OutboxInv => NoEventLost BY DEF OutboxInv
<1> QED BY <1>1, AcceptInvariance, PTL

-----------------------------------------------------------------------------
(* The engine's choice.  A finite set has a highest member (the smallest      *)
(* subset without one would lose it with any of its members), so there is a   *)
(* band as soon as a route is eligible, and the draw, wherever it falls,      *)
(* picks a member of it.                                                      *)

LEMMA HighestExists ==
  ASSUME NEW S, IsFiniteSet(S), S # {}, NEW f \in [S -> Int]
  PROVE  \E x \in S : \A y \in S : f[y] <= f[x]
<1> DEFINE Bad(X) == X # {} /\ \A x \in X : \E y \in X : f[y] > f[x]
           T == {n \in Nat : \E X \in SUBSET S : Bad(X) /\ Cardinality(X) = n}
<1> SUFFICES ASSUME Bad(S) PROVE FALSE OBVIOUS
<1>1. \A X \in SUBSET S : IsFiniteSet(X) /\ Cardinality(X) \in Nat BY FS_Subset, FS_CardinalityType
<1>2. T # {} /\ T \subseteq Nat
  <2>1. S \in SUBSET S /\ Cardinality(S) \in Nat BY <1>1
  <2> HIDE DEF Bad
  <2> QED BY <2>1
<1>3. PICK n \in T : \A m \in T : ~(<<m, n>> \in OpToRel(<, Nat))
  <2> HIDE DEF T
  <2> QED BY <1>2, NatLessThanWellFounded, WFMin
<1>4. PICK X \in SUBSET S : Bad(X) /\ Cardinality(X) = n OBVIOUS
<1>5. PICK x \in X : TRUE BY <1>4
<1>6. Cardinality(X \ {x}) = n - 1 /\ Cardinality(X \ {x}) \in Nat /\ X \ {x} \in SUBSET S
  BY <1>1, <1>4, <1>5, FS_RemoveElement
<1>7. ~Bad(X \ {x})
  <2> SUFFICES ASSUME Bad(X \ {x}) PROVE FALSE OBVIOUS
  <2> HIDE DEF Bad
  <2>1. n - 1 \in T /\ n \in Nat BY <1>6
  <2>2. <<n - 1, n>> \in OpToRel(<, Nat) BY <2>1 DEF OpToRel
  <2> QED BY <1>3, <2>1, <2>2
<1>8. X \ {x} = {} => FALSE
  <2> SUFFICES ASSUME X \ {x} = {} PROVE FALSE OBVIOUS
  <2>1. X = {x} BY <1>5
  <2> QED BY <1>4, <2>1
<1>9. PICK m \in X \ {x} : \A y \in X \ {x} : ~(f[y] > f[m]) BY <1>7, <1>8
<1>10. CASE f[x] > f[m]
  <2>1. PICK y \in X : f[y] > f[x] BY <1>4, <1>5
  <2>2. f[x] \in Int /\ f[y] \in Int /\ f[m] \in Int BY <1>5, <2>1
  <2> QED BY <1>9, <1>10, <2>1, <2>2
<1>11. CASE ~(f[x] > f[m])
  <2>1. PICK y \in X : f[y] > f[m] BY <1>4
  <2> QED BY <1>9, <1>11, <2>1
<1> QED BY <1>10, <1>11

LEMMA MaxIsThere ==
  ASSUME NEW S, IsFiniteSet(S), S # {}, S \subseteq Nat
  PROVE  Max(S) \in S
<1>1. PICK f : f = [x \in S |-> x] OBVIOUS
<1>2. f \in [S -> Int] /\ \A x \in S : f[x] = x BY <1>1
<1>3. \E x \in S : \A y \in S : f[y] <= f[x] BY <1>2, HighestExists
<1>4. \E x \in S : \A y \in S : x >= y BY <1>2, <1>3
<1> QED BY <1>4 DEF Max

LEMMA MinIsThere ==
  ASSUME NEW S, S # {}, S \subseteq Nat
  PROVE  Min(S) \in S
<1>1. PICK x \in S : \A y \in S : ~(<<y, x>> \in OpToRel(<, Nat)) BY NatLessThanWellFounded, WFMin
<1>2. \A y \in S : ~(y < x) /\ x \in Nat /\ y \in Nat BY <1>1 DEF OpToRel
<1>3. \E z \in S : \A y \in S : z =< y BY <1>2
<1> QED BY <1>3 DEF Min

\* A table of routes as the engine is given it: the priorities are integers.
Ranked(routes) == \A id \in RouteIds : routes[id].priority \in Int

LEMMA BandExists ==
  ASSUME NEW routes, NEW avail, NEW exclude
  PROVE  /\ Band(routes, avail, exclude) \subseteq Eligible(routes, avail, exclude)
         /\ Band(routes, avail, exclude) \subseteq RouteIds /\ IsFiniteSet(Band(routes, avail, exclude))
         /\ Ranked(routes) /\ Eligible(routes, avail, exclude) # {} => Band(routes, avail, exclude) # {}
<1> DEFINE ok == Eligible(routes, avail, exclude)
<1>1. ok \in SUBSET RouteIds /\ Band(routes, avail, exclude) \in SUBSET RouteIds BY DEF Eligible, Band
<1>2. IsFiniteSet(ok) /\ IsFiniteSet(Band(routes, avail, exclude)) BY <1>1, FS_Subset, RoutingAssumption
<1>3. ASSUME Ranked(routes), ok # {} PROVE Band(routes, avail, exclude) # {}
  <2>1. PICK f : f = [id \in ok |-> routes[id].priority] OBVIOUS
  <2>2. f \in [ok -> Int] /\ \A id \in ok : f[id] = routes[id].priority BY <1>1, <1>3, <2>1 DEF Ranked
  <2>3. PICK x \in ok : \A y \in ok : f[y] <= f[x]
    <3> HIDE DEF ok
    <3> QED BY <1>2, <1>3, <2>2, HighestExists
  <2>4. \A y \in ok : routes[y].priority <= routes[x].priority BY <2>2, <2>3
  <2> QED BY <2>4 DEF Band
<1>4. Band(routes, avail, exclude) \subseteq ok BY DEF Band
<1> QED BY <1>1, <1>2, <1>3, <1>4

LEMMA PickIsInBand ==
  ASSUME NEW routes, NEW band, band \subseteq RouteIds, IsFiniteSet(band), band # {}, NEW draw
  PROVE  PickWeighted(routes, band, draw) \in band
<1>1. band \subseteq Nat BY RoutingAssumption
<1>2. PICK hit : hit = FallsBefore(routes, band, draw) OBVIOUS
<1>3. hit \subseteq band BY <1>2 DEF FallsBefore
<1>4. Max(band) \in band BY <1>1, MaxIsThere
<1>5. hit # {} => Min(hit) \in hit
  <2>1. hit \subseteq Nat BY <1>1, <1>3
  <2> QED BY <2>1, MinIsThere
<1>6. PickWeighted(routes, band, draw) = IF hit = {} THEN Max(band) ELSE Min(hit) BY <1>2 DEF PickWeighted
<1> QED BY <1>3, <1>4, <1>5, <1>6

\* The engine's answer is nothing, or one member of the band.
LEMMA WinnerIsInBand ==
  ASSUME NEW routes, NEW avail, NEW exclude, NEW draw
  PROVE  LET won == SelectRoute(routes, avail, exclude, draw)
             band == Band(routes, avail, exclude)
         IN won \subseteq band /\ (band = {} => won = {}) /\ (band # {} => \E id \in band : won = {id})
<1> DEFINE won == SelectRoute(routes, avail, exclude, draw)
           band == Band(routes, avail, exclude)
<1> SUFFICES won \subseteq band /\ (band = {} => won = {}) /\ (band # {} => \E id \in band : won = {id})
  OBVIOUS
<1>1. band \subseteq RouteIds /\ IsFiniteSet(band) /\ Cardinality(band) \in Nat BY BandExists, FS_CardinalityType
<1>2. CASE Cardinality(band) <= 1
  <2>1. won = band BY <1>2 DEF SelectRoute
  <2>2. ASSUME band # {} PROVE \E id \in band : band = {id}
    <3> HIDE DEF band
    <3>1. PICK id \in band : TRUE BY <2>2
    <3>2. Cardinality(band \ {id}) = Cardinality(band) - 1 /\ IsFiniteSet(band \ {id}) BY <1>1, <3>1, FS_RemoveElement
    <3>3. Cardinality(band \ {id}) \in Nat BY <3>2, FS_CardinalityType
    <3>4. Cardinality(band \ {id}) = 0 BY <1>1, <1>2, <3>2, <3>3
    <3>5. band \ {id} = {} BY <3>2, <3>4, FS_EmptySet
    <3> QED BY <3>1, <3>5
  <2> HIDE DEF won, band
  <2> QED BY <2>1, <2>2
<1>3. CASE ~(Cardinality(band) <= 1)
  <2>1. won = {PickWeighted(routes, band, Clamp(draw))} BY <1>3 DEF SelectRoute
  <2>2. band # {}
    <3> HIDE DEF band
    <3> QED BY <1>1, <1>3, FS_EmptySet
  <2>3. PickWeighted(routes, band, Clamp(draw)) \in band
    <3> HIDE DEF band
    <3> QED BY <1>1, <2>2, PickIsInBand
  <2> HIDE DEF won, band
  <2> QED BY <2>1, <2>2, <2>3
<1> QED BY <1>2, <1>3

(* For any table of routes, any providers at hand and any draw, there is one  *)
(* winner when some route is eligible and none when none is, and the winner    *)
(* is eligible, was not excluded and has the highest priority of those that    *)
(* are eligible (select_route and pick_weighted of sms-routing engine.rs).      *)
THEOREM WinnersAreTheBest ==
  ASSUME NEW routes, Ranked(routes), NEW avail, NEW exclude, NEW draw
  PROVE  LET won == SelectRoute(routes, avail, exclude, draw)
             ok == Eligible(routes, avail, exclude)
         IN IF ok = {} THEN won = {}
            ELSE \E id \in ok : /\ won = {id} /\ id \notin exclude
                                /\ \A k \in ok : routes[k].priority <= routes[id].priority
<1> DEFINE won == SelectRoute(routes, avail, exclude, draw)
           band == Band(routes, avail, exclude)
           ok == Eligible(routes, avail, exclude)
<1>1. band \subseteq ok /\ (ok # {} => band # {}) BY BandExists
<1>2. won \subseteq band /\ (band # {} => \E id \in band : won = {id}) BY WinnerIsInBand
<1>3. \A id \in band : \A k \in ok : routes[k].priority <= routes[id].priority BY DEF Band
<1>4. \A id \in ok : id \notin exclude BY DEF Eligible, Outcome
<1> HIDE DEF won, band, ok
<1>5. IF ok = {} THEN won = {}
      ELSE \E id \in ok : /\ won = {id} /\ id \notin exclude
                          /\ \A k \in ok : routes[k].priority <= routes[id].priority
  BY <1>1, <1>2, <1>3, <1>4
<1> USE DEF won, ok
<1> QED BY <1>5

-----------------------------------------------------------------------------
(* Shares.  A route wins the draws between where the shares before it end and  *)
(* where its own ends, and as many whole draws lie there as its share asks     *)
(* for, but for less than one.                                                 *)

LEMMA Multiplied ==
  ASSUME NEW a \in Nat, NEW b \in Nat, NEW c \in Nat
  PROVE  /\ a * c \in Nat /\ (a + b) * c = a * c + b * c
         /\ a <= b => a * c <= b * c
         /\ c > 0 /\ a * c < b * c => a < b
<1>1. a * c \in Nat /\ (a + b) * c = a * c + b * c OBVIOUS
<1>2. ASSUME a <= b PROVE a * c <= b * c
  <2>1. PICK d \in Nat : b = a + d
    <3>1. b - a \in Nat /\ b = a + (b - a) BY <1>2
    <3> QED BY <3>1
  <2>2. b * c = a * c + d * c /\ d * c \in Nat /\ a * c \in Nat BY <2>1
  <2> QED BY <2>2
<1>3. ASSUME c > 0, a * c < b * c PROVE a < b
  <2> SUFFICES ASSUME b <= a PROVE FALSE OBVIOUS
  <2>1. PICK d \in Nat : a = b + d
    <3>1. a - b \in Nat /\ a = b + (a - b) OBVIOUS
    <3> QED BY <3>1
  <2>2. a * c = b * c + d * c /\ d * c \in Nat /\ b * c \in Nat BY <2>1
  <2> QED BY <1>3, <2>2
<1> QED BY <1>1, <1>2, <1>3

\* The first draw that reaches a mark x: d draws of size reach d times size.
Reaches(d, size, x) ==
  /\ d \in Nat /\ x <= d * size /\ d * size < x + size
  /\ \A e \in Nat : x <= e * size <=> d <= e

LEMMA FirstToReach ==
  ASSUME NEW size \in Nat \ {0}, NEW x \in Nat
  PROVE  \E d \in Nat : Reaches(d, size, x)
<1> DEFINE T == {d \in Nat : x <= d * size}
<1>1. x \in T
  <2>1. 1 <= size /\ 1 * x <= size * x BY Multiplied
  <2> QED BY <2>1
<1>2. PICK d \in T : \A e \in T : d <= e
  <2>1. T \subseteq Nat /\ T # {} BY <1>1
  <2> HIDE DEF T
  <2>2. PICK d \in T : \A y \in T : ~(<<y, d>> \in OpToRel(<, Nat)) BY <2>1, NatLessThanWellFounded, WFMin
  <2>3. \A y \in T : ~(y < d) /\ d \in Nat /\ y \in Nat BY <2>1, <2>2 DEF OpToRel
  <2> QED BY <2>3
<1>3. d * size < x + size
  <2>1. CASE d = 0 BY <2>1
  <2>2. CASE d # 0
    <3>1. d - 1 \in Nat /\ d = (d - 1) + 1 BY <2>2
    <3>2. d - 1 \notin T BY <1>2, <3>1
    <3>3. (d - 1) * size < x
      <4>1. (d - 1) * size \in Nat BY <3>1, Multiplied
      <4> QED BY <3>1, <3>2, <4>1
    <3>4. PICK c \in Nat : c = d - 1 BY <3>1
    <3>5. d * size = c * size + 1 * size /\ c * size \in Nat /\ 1 * size = size
      BY <3>1, <3>4, Multiplied
    <3> QED BY <3>3, <3>4, <3>5
  <2> QED BY <2>1, <2>2
<1>4. ASSUME NEW e \in Nat PROVE x <= e * size <=> d <= e
  <2>1. x <= e * size => d <= e BY <1>2
  <2>2. ASSUME d <= e PROVE x <= e * size
    <3>1. d * size <= e * size /\ d * size \in Nat /\ e * size \in Nat /\ x <= d * size BY <2>2, Multiplied
    <3> QED BY <3>1
  <2> QED BY <2>1, <2>2
<1> QED BY <1>2, <1>3, <1>4 DEF Reaches

\* S are the draws, of u, that fall between lo and hi of size parts.
Between(S, lo, hi, part, size, u) ==
  /\ hi = lo + part /\ hi <= size
  /\ S = {d \in 0 .. u - 1 : lo * u <= d * size /\ d * size < hi * u}

\* How many they are.
LEMMA DrawsBetween ==
  ASSUME NEW u \in Nat \ {0}, NEW size \in Nat \ {0}, NEW lo \in Nat, NEW hi \in Nat, NEW part \in Nat,
         NEW S, Between(S, lo, hi, part, size, u)
  PROVE  /\ Cardinality(S) \in Nat
         /\ Cardinality(S) * size < part * u + size
         /\ Cardinality(S) * size + size > part * u
<1>0. hi = lo + part /\ hi <= size /\ S = {d \in 0 .. u - 1 : lo * u <= d * size /\ d * size < hi * u}
  BY DEF Between
<1>1. lo * u \in Nat /\ hi * u \in Nat /\ part * u \in Nat /\ hi * u = lo * u + part * u BY <1>0, Multiplied
<1>2. PICK a \in Nat : Reaches(a, size, lo * u) BY <1>1, FirstToReach
<1>3. PICK b \in Nat : Reaches(b, size, hi * u) BY <1>1, FirstToReach
<1>4. a <= b
  <2>1. lo * u <= b * size
    <3>1. hi * u <= b * size /\ b * size \in Nat BY <1>3, Multiplied DEF Reaches
    <3>2. lo * u <= hi * u BY <1>1
    <3> QED BY <1>1, <3>1, <3>2
  <2> QED BY <1>2, <2>1 DEF Reaches
<1>5. b <= u
  <2>1. hi * u <= size * u /\ size * u = u * size BY <1>0, Multiplied
  <2>2. hi * u <= u * size BY <2>1
  <2> QED BY <1>3, <2>2 DEF Reaches
<1>6. S = a .. b - 1
  <2>1. ASSUME NEW d \in Nat PROVE (lo * u <= d * size /\ d * size < hi * u) <=> a <= d /\ d < b
    <3>1. (lo * u <= d * size) <=> a <= d BY <1>2 DEF Reaches
    <3>2. (hi * u <= d * size) <=> b <= d BY <1>3 DEF Reaches
    <3>3. d * size \in Nat BY Multiplied
    <3>4. ~(hi * u <= d * size) <=> d * size < hi * u BY <1>1, <3>3
    <3> QED BY <3>1, <3>2, <3>4
  <2>2. \A d \in 0 .. u - 1 : d \in Nat OBVIOUS
  <2>3. \A d : d \in a .. b - 1 <=> d \in 0 .. u - 1 /\ a <= d /\ d < b BY <1>4, <1>5
  <2>4. \A d : d \in S <=> d \in a .. b - 1 BY <1>0, <2>1, <2>2, <2>3
  <2> QED BY <2>4
<1>7. PICK n \in Nat : n = b - a BY <1>4
<1>8. Cardinality(S) = n
  <2>1. PICK c \in Int : c = b - 1 OBVIOUS
  <2>2. Cardinality(a .. c) = IF a > c THEN 0 ELSE c - a + 1 BY FS_Interval
  <2>3. S = a .. c BY <1>6, <2>1
  <2>4. (IF a > c THEN 0 ELSE c - a + 1) = n BY <1>4, <1>7, <2>1
  <2> QED BY <2>2, <2>3, <2>4, Zenon
<1>9. b * size = a * size + n * size /\ n * size \in Nat /\ a * size \in Nat /\ b * size \in Nat
  <2>1. b = a + n BY <1>7
  <2> QED BY <2>1, Multiplied
<1>10. /\ lo * u <= a * size /\ a * size < lo * u + size /\ hi * u <= b * size /\ b * size < hi * u + size
  BY <1>2, <1>3 DEF Reaches
<1> QED BY <1>1, <1>8, <1>9, <1>10

\* Routes whose weights are integers.
Weighted(routes, ids) == IsFiniteSet(ids) /\ \A id \in ids : routes[id].weight \in Int
Positive(n) == IF n > 0 THEN n ELSE 0

LEMMA TicketsFinite ==
  ASSUME NEW routes, NEW ids, Weighted(routes, ids)
  PROVE  IsFiniteSet(Tickets(routes, ids)) /\ WeightOf(routes, ids) \in Nat
<1>1. CASE ids = {}
  <2>1. Tickets(routes, ids) = {} BY <1>1 DEF Tickets
  <2> QED BY <2>1, FS_EmptySet DEF WeightOf
<1>2. CASE ids # {}
  <2>1. PICK f : f = [id \in ids |-> routes[id].weight] OBVIOUS
  <2>2. f \in [ids -> Int] /\ \A id \in ids : f[id] = routes[id].weight BY <2>1 DEF Weighted
  <2>3. PICK x \in ids : \A y \in ids : f[y] <= f[x] BY <1>2, <2>2, HighestExists DEF Weighted
  <2>4. PICK m \in Int : m = f[x] BY <2>2
  <2>5. IsFiniteSet(ids \X (1 .. m))
    <3>1. IsFiniteSet(1 .. m) BY FS_Interval
    <3>2. IsFiniteSet(ids) BY DEF Weighted
    <3> QED BY <3>1, <3>2, FS_Product
  <2>6. Tickets(routes, ids) \in SUBSET (ids \X (1 .. m))
    <3> SUFFICES ASSUME NEW id \in ids PROVE {id} \X (1 .. routes[id].weight) \subseteq ids \X (1 .. m)
      BY DEF Tickets
    <3>1. routes[id].weight <= m /\ routes[id].weight \in Int BY <2>2, <2>3, <2>4
    <3>2. 1 .. routes[id].weight \subseteq 1 .. m BY <2>4, <3>1
    <3> QED BY <3>2
  <2>7. IsFiniteSet(Tickets(routes, ids)) BY <2>5, <2>6, FS_Subset
  <2> QED BY <2>7, FS_CardinalityType DEF WeightOf
<1> QED BY <1>1, <1>2

LEMMA WeightsAdd ==
  ASSUME NEW routes, NEW A, NEW B, Weighted(routes, A), Weighted(routes, B), A \cap B = {}
  PROVE  WeightOf(routes, A \cup B) = WeightOf(routes, A) + WeightOf(routes, B)
<1>1. IsFiniteSet(Tickets(routes, A)) /\ IsFiniteSet(Tickets(routes, B)) BY TicketsFinite
<1>2. Tickets(routes, A \cup B) = Tickets(routes, A) \cup Tickets(routes, B) BY DEF Tickets
<1>3. Tickets(routes, A) \cap Tickets(routes, B) = {}
  <2> SUFFICES ASSUME NEW t \in Tickets(routes, A), t \in Tickets(routes, B) PROVE FALSE OBVIOUS
  <2>1. PICK a \in A : t \in {a} \X (1 .. routes[a].weight) BY DEF Tickets
  <2>2. PICK b \in B : t \in {b} \X (1 .. routes[b].weight) BY DEF Tickets
  <2>3. t[1] = a /\ t[1] = b BY <2>1, <2>2
  <2> QED BY <2>3
<1>4. Cardinality(Tickets(routes, A) \cup Tickets(routes, B))
        = Cardinality(Tickets(routes, A)) + Cardinality(Tickets(routes, B)) - 0
  BY <1>1, <1>3, FS_Union, FS_EmptySet
<1>5. Cardinality(Tickets(routes, A)) \in Nat /\ Cardinality(Tickets(routes, B)) \in Nat
  BY <1>1, FS_CardinalityType
<1>6. Cardinality(Tickets(routes, A)) + Cardinality(Tickets(routes, B)) - 0
        = Cardinality(Tickets(routes, A)) + Cardinality(Tickets(routes, B)) BY <1>5
<1>7. Cardinality(Tickets(routes, A \cup B)) = Cardinality(Tickets(routes, A)) + Cardinality(Tickets(routes, B))
  BY <1>2, <1>4, <1>6, Zenon
<1> QED BY <1>7 DEF WeightOf

LEMMA WeightOfOne ==
  ASSUME NEW routes, NEW id, routes[id].weight \in Int
  PROVE  WeightOf(routes, {id}) = Positive(routes[id].weight)
<1>1. PICK w \in Int : w = routes[id].weight OBVIOUS
<1>2. Tickets(routes, {id}) = {id} \X (1 .. w) BY <1>1 DEF Tickets
<1>3. IsFiniteSet({id}) /\ Cardinality({id}) = 1 BY FS_Singleton
<1>4. IsFiniteSet(1 .. w) /\ Cardinality(1 .. w) = IF 1 > w THEN 0 ELSE w - 1 + 1 BY FS_Interval
<1>5. Cardinality({id} \X (1 .. w)) = Cardinality({id}) * Cardinality(1 .. w) BY <1>3, <1>4, FS_Product
<1>6. Cardinality(1 .. w) = Positive(w) /\ Positive(w) \in Nat BY <1>4 DEF Positive
<1>7. 1 * Positive(w) = Positive(w) BY <1>6
<1>8. Cardinality({id} \X (1 .. w)) = Positive(w) BY <1>3, <1>5, <1>6, <1>7, Zenon
<1> QED BY <1>1, <1>2, <1>8 DEF WeightOf

\* What the routes X of a band count for in the draw.
Mass(routes, band, X) == IF WeightOf(routes, band) = 0 THEN Cardinality(X) ELSE WeightOf(routes, X)

LEMMA MassAdds ==
  ASSUME NEW routes, NEW band, Weighted(routes, band)
  PROVE  /\ \A X \in SUBSET band : Mass(routes, band, X) \in Nat
         /\ \A X, Y \in SUBSET band : X \cap Y = {} =>
              Mass(routes, band, X \cup Y) = Mass(routes, band, X) + Mass(routes, band, Y)
         /\ \A id \in band : Mass(routes, band, {id}) =
              IF WeightOf(routes, band) = 0 THEN 1 ELSE Positive(routes[id].weight)
         /\ Mass(routes, band, {}) = 0
<1>1. \A X \in SUBSET band : Weighted(routes, X) /\ IsFiniteSet(X) /\ Cardinality(X) \in Nat
  BY FS_Subset, FS_CardinalityType DEF Weighted
<1>2. \A X \in SUBSET band : WeightOf(routes, X) \in Nat BY <1>1, TicketsFinite
<1>3. ASSUME NEW X \in SUBSET band, NEW Y \in SUBSET band, X \cap Y = {}
      PROVE  Mass(routes, band, X \cup Y) = Mass(routes, band, X) + Mass(routes, band, Y)
  <2>1. Cardinality(X \cup Y) = Cardinality(X) + Cardinality(Y) - 0 BY <1>1, <1>3, FS_Union, FS_EmptySet
  <2>2. WeightOf(routes, X \cup Y) = WeightOf(routes, X) + WeightOf(routes, Y) BY <1>1, <1>3, WeightsAdd
  <2> QED BY <1>1, <2>1, <2>2 DEF Mass
<1>4. ASSUME NEW id \in band
      PROVE  Mass(routes, band, {id}) = IF WeightOf(routes, band) = 0 THEN 1 ELSE Positive(routes[id].weight)
  <2>1. WeightOf(routes, {id}) = Positive(routes[id].weight) BY WeightOfOne DEF Weighted
  <2>2. Cardinality({id}) = 1 BY FS_Singleton
  <2> QED BY <2>1, <2>2 DEF Mass
<1>5. Mass(routes, band, {}) = 0
  <2>1. Tickets(routes, {}) = {} BY DEF Tickets
  <2> QED BY <2>1, FS_EmptySet DEF Mass, WeightOf
<1> QED BY <1>1, <1>2, <1>3, <1>4, <1>5 DEF Mass

\* The shares before a route's, and with it.
Before(band, id) == {k \in band : k < id}
UpTo(band, id) == {k \in band : k <= id}
\* Where the shares before it end: at the start, or where one of them does.
StartsAtAnEnd(routes, band, id) ==
  Mass(routes, band, Before(band, id)) # 0 =>
    \E k \in Before(band, id) : Mass(routes, band, Before(band, id)) = ShareEnd(routes, band, k)

LEMMA SharesInOrder ==
  ASSUME NEW routes, NEW band, Weighted(routes, band), band \subseteq RouteIds, band # {}
  PROVE  /\ Denom(routes, band) = Mass(routes, band, band) /\ Denom(routes, band) \in Nat \ {0}
         /\ \A id \in band :
              /\ ShareEnd(routes, band, id) = Mass(routes, band, UpTo(band, id))
              /\ ShareEnd(routes, band, id) \in Nat /\ Mass(routes, band, Before(band, id)) \in Nat
              /\ ShareEnd(routes, band, id) = Mass(routes, band, Before(band, id)) + Mass(routes, band, {id})
              /\ ShareEnd(routes, band, id) <= Denom(routes, band)
              /\ \A k \in Before(band, id) : ShareEnd(routes, band, k) <= Mass(routes, band, Before(band, id))
              /\ StartsAtAnEnd(routes, band, id)
         /\ \E id \in band : ShareEnd(routes, band, id) = Denom(routes, band)
<1>0. band \subseteq Nat BY RoutingAssumption
<1>1. Denom(routes, band) = Mass(routes, band, band) BY DEF Denom, Mass
<1>2. \A X \in SUBSET band : Mass(routes, band, X) \in Nat BY MassAdds
<1>3. Denom(routes, band) \in Nat \ {0}
  <2>1. Cardinality(band) \in Nat /\ Cardinality(band) # 0 BY FS_CardinalityType, FS_EmptySet DEF Weighted
  <2>2. WeightOf(routes, band) \in Nat BY TicketsFinite
  <2> QED BY <2>1, <2>2 DEF Denom
<1>4. \A id \in band : ShareEnd(routes, band, id) = Mass(routes, band, UpTo(band, id))
  BY DEF ShareEnd, Mass, UpTo
<1>5. ASSUME NEW X \in SUBSET band, NEW Y \in SUBSET band, X \subseteq Y
      PROVE  Mass(routes, band, X) <= Mass(routes, band, Y)
  <2>1. Y = X \cup (Y \ X) /\ X \cap (Y \ X) = {} /\ Y \ X \in SUBSET band BY <1>5
  <2>2. Mass(routes, band, X \cup (Y \ X)) = Mass(routes, band, X) + Mass(routes, band, Y \ X) BY <2>1, MassAdds
  <2>3. Mass(routes, band, X) \in Nat /\ Mass(routes, band, Y \ X) \in Nat BY <1>2, <2>1
  <2>4. Mass(routes, band, Y) = Mass(routes, band, X) + Mass(routes, band, Y \ X) BY <2>1, <2>2, Zenon
  <2> QED BY <2>3, <2>4
<1>6. ASSUME NEW id \in band
      PROVE  /\ UpTo(band, id) \in SUBSET band /\ Before(band, id) \in SUBSET band /\ {id} \in SUBSET band
             /\ UpTo(band, id) = Before(band, id) \cup {id} /\ Before(band, id) \cap {id} = {}
             /\ \A k \in Before(band, id) : UpTo(band, k) \subseteq Before(band, id) /\ k \in band
  <2>1. \A k \in band : k \in Nat BY <1>0
  <2>2. UpTo(band, id) \in SUBSET band /\ Before(band, id) \in SUBSET band /\ {id} \in SUBSET band
    BY DEF UpTo, Before
  <2>3. \A k : k \in UpTo(band, id) <=> k \in Before(band, id) \cup {id} BY <2>1 DEF UpTo, Before
  <2>4. Before(band, id) \cap {id} = {} BY <2>1 DEF Before
  <2>5. ASSUME NEW k \in Before(band, id) PROVE UpTo(band, k) \subseteq Before(band, id) /\ k \in band
    BY <2>1 DEF UpTo, Before
  <2>6. UpTo(band, id) = Before(band, id) \cup {id} BY <2>3
  <2> QED BY <2>2, <2>4, <2>5, <2>6
<1>7. ASSUME NEW S \in SUBSET band, S # {} PROVE \E k \in S : \A j \in S : j <= k
  <2>1. PICK f : f = [x \in S |-> x] OBVIOUS
  <2>2. f \in [S -> Int] /\ \A x \in S : f[x] = x BY <1>0, <2>1
  <2>3. IsFiniteSet(S) BY FS_Subset DEF Weighted
  <2> QED BY <1>7, <2>2, <2>3, HighestExists
<1>8. ASSUME NEW id \in band
      PROVE  StartsAtAnEnd(routes, band, id)
  <2>1. CASE Before(band, id) = {} BY <2>1, MassAdds DEF StartsAtAnEnd
  <2>2. CASE Before(band, id) # {}
    <3>1. PICK k \in Before(band, id) : \A j \in Before(band, id) : j <= k BY <1>6, <1>7, <2>2
    <3>2. UpTo(band, k) = Before(band, id) BY <1>0, <1>6, <3>1 DEF UpTo, Before
    <3> QED BY <1>4, <1>6, <3>2 DEF StartsAtAnEnd
  <2> QED BY <2>1, <2>2
<1>9. \E id \in band : ShareEnd(routes, band, id) = Denom(routes, band)
  <2>1. PICK k \in band : \A j \in band : j <= k BY <1>7
  <2>2. UpTo(band, k) = band BY <2>1 DEF UpTo
  <2> QED BY <1>1, <1>4, <2>2
<1>10. ASSUME NEW id \in band
       PROVE  ShareEnd(routes, band, id) = Mass(routes, band, Before(band, id)) + Mass(routes, band, {id})
  BY <1>4, <1>6, MassAdds
<1>11. ASSUME NEW id \in band
       PROVE  /\ ShareEnd(routes, band, id) \in Nat /\ Mass(routes, band, Before(band, id)) \in Nat
              /\ ShareEnd(routes, band, id) <= Denom(routes, band)
              /\ \A k \in Before(band, id) : ShareEnd(routes, band, k) <= Mass(routes, band, Before(band, id))
  <2>1. UpTo(band, id) \in SUBSET band /\ Before(band, id) \in SUBSET band BY <1>6
  <2>2. ShareEnd(routes, band, id) <= Denom(routes, band) BY <1>1, <1>4, <1>5, <2>1
  <2>3. ASSUME NEW k \in Before(band, id) PROVE ShareEnd(routes, band, k) <= Mass(routes, band, Before(band, id))
    <3>1. k \in band /\ UpTo(band, k) \subseteq Before(band, id) /\ UpTo(band, k) \in SUBSET band BY <1>6
    <3> QED BY <1>4, <1>5, <2>1, <3>1
  <2> QED BY <1>2, <1>4, <2>1, <2>2, <2>3
<1> QED BY <1>1, <1>3, <1>4, <1>8, <1>9, <1>10, <1>11

LEMMA MinIsLeast ==
  ASSUME NEW S, S # {}, S \subseteq Nat, NEW id
  PROVE  Min(S) = id <=> id \in S /\ \A y \in S : id <= y
<1>1. PICK x \in S : \A y \in S : ~(<<y, x>> \in OpToRel(<, Nat)) BY NatLessThanWellFounded, WFMin
<1>2. \A y \in S : ~(y < x) /\ x \in Nat /\ y \in Nat BY <1>1 DEF OpToRel
<1>3. \E z \in S : \A y \in S : z =< y BY <1>2
<1>4. Min(S) \in S /\ \A y \in S : Min(S) <= y BY <1>3 DEF Min
<1>5. \A a, b \in S : a <= b /\ b <= a => a = b BY <1>2
<1> QED BY <1>4, <1>5

\* A draw gives the route in whose share it falls.
LEMMA WinRange ==
  ASSUME NEW routes, NEW band, Weighted(routes, band), band \subseteq RouteIds, band # {},
         NEW draw \in 0 .. DrawUnits - 1, NEW id \in band
  PROVE  PickWeighted(routes, band, draw) = id
           <=> /\ Mass(routes, band, Before(band, id)) * DrawUnits <= draw * Denom(routes, band)
               /\ draw * Denom(routes, band) < ShareEnd(routes, band, id) * DrawUnits
<1>0. StartsAtAnEnd(routes, band, id) BY SharesInOrder
<1>1. PICK u \in Nat \ {0} : u = DrawUnits BY RoutingAssumption
<1>2. PICK size \in Nat \ {0} : size = Denom(routes, band) BY SharesInOrder
<1>3. PICK f : f = [k \in band |-> ShareEnd(routes, band, k)] OBVIOUS
<1>4. f \in [band -> Nat] /\ \A k \in band : f[k] = ShareEnd(routes, band, k)
  <2>1. \A k \in band : ShareEnd(routes, band, k) \in Nat BY SharesInOrder
  <2> QED BY <1>3, <2>1
<1>5. draw \in Nat /\ draw + 1 <= u BY <1>1
<1>6. PICK hit : hit = FallsBefore(routes, band, draw) OBVIOUS
<1>7. \A k : k \in hit <=> k \in band /\ draw * size < f[k] * u BY <1>1, <1>2, <1>4, <1>6 DEF FallsBefore
<1>8. draw * size \in Nat /\ \A k \in band : f[k] * u \in Nat
  <2>1. draw * size \in Nat BY <1>5, Multiplied
  <2>2. ASSUME NEW k \in band PROVE f[k] * u \in Nat
    <3>1. f[k] \in Nat BY <1>4
    <3> QED BY <3>1, Multiplied
  <2> QED BY <2>1, <2>2
<1>9. hit # {}
  <2>1. PICK k \in band : ShareEnd(routes, band, k) = Denom(routes, band) BY SharesInOrder
  <2>2. f[k] = size BY <1>2, <1>4, <2>1
  <2>3. (draw + 1) * size <= u * size /\ (draw + 1) * size = draw * size + 1 * size /\ u * size = size * u
    <3>1. draw + 1 \in Nat /\ u \in Nat /\ size \in Nat BY <1>5
    <3>2. (draw + 1) * size <= u * size BY <1>5, <3>1, Multiplied
    <3>3. (draw + 1) * size = draw * size + 1 * size BY <1>5, <3>1, Multiplied
    <3> QED BY <3>2, <3>3
  <2>4. 1 * size = size /\ size > 0 /\ size * u \in Nat BY Multiplied
  <2>5. draw * size < size * u BY <1>8, <2>3, <2>4
  <2>6. draw * size < f[k] * u BY <2>2, <2>5
  <2> QED BY <1>7, <2>6
<1>10. hit \subseteq Nat /\ hit \subseteq band /\ band \subseteq Nat BY <1>7, RoutingAssumption
<1>11. PickWeighted(routes, band, draw) = Min(hit) BY <1>6, <1>9 DEF PickWeighted
<1>12. Min(hit) = id <=> id \in hit /\ \A y \in hit : id <= y BY <1>9, <1>10, MinIsLeast
<1>13. PICK lo \in Nat : lo = Mass(routes, band, Before(band, id)) BY SharesInOrder
<1>14. (\A y \in hit : id <= y) <=> \A k \in Before(band, id) : f[k] * u <= draw * size
  <2>1. (\A y \in hit : id <= y) <=> \A k \in Before(band, id) : k \notin hit BY <1>10 DEF Before
  <2>2. ASSUME NEW k \in Before(band, id) PROVE k \notin hit <=> f[k] * u <= draw * size
    <3>1. k \in band BY DEF Before
    <3>2. f[k] * u \in Nat BY <1>8, <3>1
    <3> QED BY <1>7, <1>8, <3>1, <3>2
  <2> QED BY <2>1, <2>2
<1>15. lo * u \in Nat BY Multiplied
<1>16. (\A k \in Before(band, id) : f[k] * u <= draw * size) <=> lo * u <= draw * size
  <2>1. \A k \in Before(band, id) : f[k] <= lo /\ k \in band
    <3>1. \A k \in Before(band, id) : ShareEnd(routes, band, k) <= Mass(routes, band, Before(band, id))
      BY SharesInOrder
    <3>2. \A k \in Before(band, id) : k \in band BY DEF Before
    <3> QED BY <1>4, <1>13, <3>1, <3>2
  <2>2. ASSUME lo * u <= draw * size, NEW k \in Before(band, id) PROVE f[k] * u <= draw * size
    <3>1. f[k] \in Nat /\ f[k] <= lo /\ k \in band BY <1>4, <2>1
    <3>2. f[k] * u <= lo * u BY <3>1, Multiplied
    <3>3. f[k] * u \in Nat BY <1>8, <3>1
    <3> QED BY <1>8, <1>15, <2>2, <3>2, <3>3
  <2>3. ASSUME \A k \in Before(band, id) : f[k] * u <= draw * size PROVE lo * u <= draw * size
    <3>1. CASE lo = 0 BY <1>8, <3>1
    <3>2. CASE lo # 0
      <4>1. PICK k \in Before(band, id) : Mass(routes, band, Before(band, id)) = ShareEnd(routes, band, k)
        BY <1>0, <1>13, <3>2 DEF StartsAtAnEnd
      <4>2. lo = f[k] BY <1>4, <1>13, <2>1, <4>1
      <4> QED BY <2>3, <4>1, <4>2
    <3> QED BY <3>1, <3>2
  <2> QED BY <2>2, <2>3
<1>17. PickWeighted(routes, band, draw) = id <=> lo * u <= draw * size /\ draw * size < f[id] * u
  BY <1>7, <1>11, <1>12, <1>14, <1>16
<1>18. f[id] = ShareEnd(routes, band, id) BY <1>4
<1> QED BY <1>1, <1>2, <1>13, <1>17, <1>18

LEMMA NoneWeighs ==
  ASSUME NEW routes, NEW ids, Weighted(routes, ids)
  PROVE  WeightOf(routes, ids) = 0 <=> \A id \in ids : Positive(routes[id].weight) = 0
<1>1. IsFiniteSet(Tickets(routes, ids)) BY TicketsFinite
<1>2. WeightOf(routes, ids) = 0 <=> Tickets(routes, ids) = {} BY <1>1, FS_EmptySet DEF WeightOf
<1>3. ASSUME NEW id \in ids PROVE Positive(routes[id].weight) = 0 <=> {id} \X (1 .. routes[id].weight) = {}
  <2>1. PICK w \in Int : w = routes[id].weight BY DEF Weighted
  <2>2. Positive(w) = 0 => 1 .. w = {} BY DEF Positive
  <2>3. Positive(w) # 0 => 1 \in 1 .. w BY DEF Positive
  <2>4. Positive(w) # 0 => <<id, 1>> \in {id} \X (1 .. w) BY <2>3
  <2>5. Positive(w) = 0 => {id} \X (1 .. w) = {} BY <2>2
  <2> QED BY <2>1, <2>4, <2>5
<1>4. Tickets(routes, ids) = {} <=> \A id \in ids : {id} \X (1 .. routes[id].weight) = {} BY DEF Tickets
<1> QED BY <1>2, <1>3, <1>4

\* The draws by which a route of the band is chosen.
LEMMA WinsAreShares ==
  ASSUME NEW routes, NEW avail, NEW exclude, NEW band, band = Band(routes, avail, exclude),
         Weighted(routes, band), NEW id \in band,
         NEW S, S = {draw \in 0 .. DrawUnits - 1 : id \in SelectRoute(routes, avail, exclude, draw)}
  PROVE  /\ Cardinality(S) * Mass(routes, band, band)
              < Mass(routes, band, {id}) * DrawUnits + Mass(routes, band, band)
         /\ Cardinality(S) * Mass(routes, band, band) + Mass(routes, band, band)
              > Mass(routes, band, {id}) * DrawUnits
<1>0. band \subseteq RouteIds /\ band # {} /\ IsFiniteSet(band) /\ Cardinality(band) \in Nat
  BY BandExists, FS_CardinalityType DEF Weighted
<1>1. PICK u \in Nat \ {0} : u = DrawUnits BY RoutingAssumption
<1>2. PICK size \in Nat \ {0} : size = Mass(routes, band, band) /\ size = Denom(routes, band) BY <1>0, SharesInOrder
<1>3. PICK part \in Nat : part = Mass(routes, band, {id}) BY MassAdds
<1>4. CASE Cardinality(band) <= 1
  <2>1. SelectRoute(routes, avail, exclude, 0) = band BY <1>4 DEF SelectRoute
  <2>2. \A draw : SelectRoute(routes, avail, exclude, draw) = band BY <1>4 DEF SelectRoute
  <2>3. PICK k \in band : SelectRoute(routes, avail, exclude, 0) = {k} BY <1>0, WinnerIsInBand
  <2>4. band = {id} BY <2>1, <2>3
  <2>5. part = size BY <1>2, <1>3, <2>4
  <2>6. S = 0 .. u - 1 BY <1>1, <2>2
  <2>7. Cardinality(S) = u
    <3>1. PICK c \in Int : c = u - 1 OBVIOUS
    <3>2. Cardinality(0 .. c) = IF 0 > c THEN 0 ELSE c - 0 + 1 BY FS_Interval
    <3>3. (IF 0 > c THEN 0 ELSE c - 0 + 1) = u BY <3>1
    <3> QED BY <2>6, <3>1, <3>2, <3>3, Zenon
  <2>8. u * size < part * u + size /\ u * size + size > part * u
    <3>1. u * size = part * u /\ u * size \in Nat BY <2>5, Multiplied
    <3> QED BY <3>1
  <2> QED BY <1>1, <1>2, <1>3, <2>7, <2>8
<1>5. CASE ~(Cardinality(band) <= 1)
  <2>1. PICK lo \in Nat : lo = Mass(routes, band, Before(band, id)) BY <1>0, SharesInOrder
  <2>2. PICK hi \in Nat : hi = ShareEnd(routes, band, id) BY <1>0, SharesInOrder
  <2>3. hi = lo + part /\ hi <= size
    <3>1. /\ ShareEnd(routes, band, id) = Mass(routes, band, Before(band, id)) + Mass(routes, band, {id})
          /\ ShareEnd(routes, band, id) <= Denom(routes, band) BY <1>0, SharesInOrder
    <3> QED BY <1>2, <1>3, <2>1, <2>2, <3>1
  <2>4. ASSUME NEW draw \in 0 .. u - 1
        PROVE  id \in SelectRoute(routes, avail, exclude, draw) <=> lo * u <= draw * size /\ draw * size < hi * u
    <3>1. Clamp(draw) = draw BY <1>1 DEF Clamp
    <3>2. SelectRoute(routes, avail, exclude, draw) = {PickWeighted(routes, band, Clamp(draw))}
      BY <1>5 DEF SelectRoute
    <3>3. SelectRoute(routes, avail, exclude, draw) = {PickWeighted(routes, band, draw)} BY <3>1, <3>2, Zenon
    <3>4. draw \in 0 .. DrawUnits - 1 BY <1>1
    <3>5. PickWeighted(routes, band, draw) = id
             <=> /\ Mass(routes, band, Before(band, id)) * DrawUnits <= draw * Denom(routes, band)
                 /\ draw * Denom(routes, band) < ShareEnd(routes, band, id) * DrawUnits
      BY <1>0, <3>4, WinRange
    <3> QED BY <1>1, <1>2, <2>1, <2>2, <3>3, <3>5
  <2>5. S = {draw \in 0 .. u - 1 : lo * u <= draw * size /\ draw * size < hi * u} BY <1>1, <2>4
  <2>6. Cardinality(S) * size < part * u + size /\ Cardinality(S) * size + size > part * u
    <3>1. Between(S, lo, hi, part, size, u) BY <2>3, <2>5, Zenon DEF Between
    <3> QED BY <3>1, DrawsBetween
  <2> QED BY <1>1, <1>2, <1>3, <2>6
<1> QED BY <1>4, <1>5

\* Rows whose priorities and weights are integers.
Rows(routes) == Ranked(routes) /\ \A id \in RouteIds : routes[id].weight \in Int

(* For any table of routes, any providers at hand and any routes left behind,  *)
(* the engine is fair: one eligible route of the highest priority wins, and    *)
(* over all draws each of them as often as its weight is to the weights of     *)
(* them all, or all the same when none has one, but for less than one draw     *)
(* (select_route and pick_weighted of sms-routing engine.rs).                  *)
THEOREM SharesAreFair ==
  ASSUME NEW routes, Rows(routes), NEW avail, NEW exclude
  PROVE  FairShares(routes, avail, exclude)
<1> DEFINE ok == Eligible(routes, avail, exclude)
           won(draw) == SelectRoute(routes, avail, exclude, draw)
           top == {id \in ok : \A k \in ok : routes[k].priority <= routes[id].priority}
           weight(id) == IF routes[id].weight > 0 THEN routes[id].weight ELSE 0
           unweighted == \A id \in top : weight(id) = 0
           share(id) == IF unweighted THEN 1 ELSE weight(id)
           total == IF unweighted THEN Cardinality(top) ELSE WeightOf(routes, top)
           wins(id) == Cardinality({draw \in 0 .. DrawUnits - 1 : id \in won(draw)})
<1> SUFFICES /\ \A draw \in -1 .. DrawUnits + 1 :
                  won(draw) \subseteq top /\ Cardinality(won(draw)) = IF ok = {} THEN 0 ELSE 1
             /\ \A id \in top : /\ wins(id) * total < share(id) * DrawUnits + total
                                /\ wins(id) * total + total > share(id) * DrawUnits
  BY Zenon DEF FairShares
<1>1. top = Band(routes, avail, exclude) BY DEF Band
<1>2. top \subseteq RouteIds /\ IsFiniteSet(top) /\ (ok # {} => top # {}) /\ top \subseteq ok
  BY <1>1, BandExists DEF Rows
<1>3. Weighted(routes, top) BY <1>2 DEF Rows, Weighted
<1>4. \A draw : won(draw) \subseteq top /\ (top = {} => won(draw) = {}) /\ (top # {} => \E id \in top : won(draw) = {id})
  BY <1>1, WinnerIsInBand
<1>5. \A id : weight(id) = Positive(routes[id].weight) BY DEF Positive
<1>6. unweighted <=> WeightOf(routes, top) = 0
  <2>1. WeightOf(routes, top) = 0 <=> \A id \in top : Positive(routes[id].weight) = 0
    <3> HIDE DEF top
    <3> QED BY <1>3, NoneWeighs
  <2> HIDE DEF top, weight
  <2> QED BY <1>5, <2>1
<1>7. total = Mass(routes, top, top)
  <2> HIDE DEF top, unweighted
  <2> QED BY <1>6 DEF Mass
<1>8. ASSUME NEW id \in top PROVE share(id) = Mass(routes, top, {id})
  <2> HIDE DEF top, unweighted, weight
  <2>1. Mass(routes, top, {id}) = IF WeightOf(routes, top) = 0 THEN 1 ELSE Positive(routes[id].weight)
    BY <1>3, <1>8, MassAdds
  <2> QED BY <1>5, <1>6, <2>1
<1>9. ASSUME NEW id \in top
      PROVE  /\ wins(id) * total < share(id) * DrawUnits + total
             /\ wins(id) * total + total > share(id) * DrawUnits
  <2>1. PICK S : S = {draw \in 0 .. DrawUnits - 1 : id \in SelectRoute(routes, avail, exclude, draw)} OBVIOUS
  <2>2. wins(id) = Cardinality(S) BY <2>1, Zenon
  <2> HIDE DEF top, total, share, wins
  <2>3. /\ Cardinality(S) * Mass(routes, top, top)
             < Mass(routes, top, {id}) * DrawUnits + Mass(routes, top, top)
        /\ Cardinality(S) * Mass(routes, top, top) + Mass(routes, top, top)
             > Mass(routes, top, {id}) * DrawUnits
    BY <1>1, <1>3, <1>9, <2>1, WinsAreShares
  <2>4. share(id) = Mass(routes, top, {id}) BY <1>8, <1>9
  <2> QED BY <1>7, <2>2, <2>3, <2>4
<1>10. \A draw : won(draw) \subseteq top /\ Cardinality(won(draw)) = IF ok = {} THEN 0 ELSE 1
  <2> HIDE DEF top, won, ok
  <2>1. ASSUME NEW draw, ok = {} PROVE won(draw) = {} BY <1>2, <1>4, <2>1
  <2>2. ASSUME NEW draw, ok # {} PROVE \E id : won(draw) = {id} BY <1>2, <1>4, <2>2
  <2>3. ASSUME NEW draw PROVE Cardinality(won(draw)) = IF ok = {} THEN 0 ELSE 1
    <3>1. CASE ok = {} BY <2>1, <3>1, FS_EmptySet
    <3>2. CASE ok # {}
      <4>1. PICK id : won(draw) = {id} BY <2>2, <3>2
      <4>2. Cardinality({id}) = 1 BY FS_Singleton
      <4> QED BY <3>2, <4>1, <4>2
    <3> QED BY <3>1, <3>2
  <2> QED BY <1>4, <2>3
<1> HIDE DEF ok, won, top, total, share, wins
<1> QED BY <1>9, <1>10

-----------------------------------------------------------------------------
(* The provider's circuit.  A copy of a provider's row that still matches    *)
(* holds its count of failures (CopySound).  A failure that finds its copy   *)
(* outdated is lost, but the write that outdated it was counted: the          *)
(* failures since the last reset, and the copies that will yet lose one,      *)
(* are at most n for each one counted and n more, n being the submissions     *)
(* side by side (CircuitDue).                                                 *)

SlotPlaces == {"idle", "routes", "routed", "submitted", "failover"}

\* A submission under way holds its copy of a provider's row, current if it matches.
CopySound(x) ==
  /\ x.at \in SlotPlaces
  /\ x.at = "submitted" =>
       x \in [at : {"submitted"}, exclude : {x.exclude}, been : {x.been}, via : {x.via}, p : ProviderIds,
              failures : Nat, wasOpen : {x.wasOpen}, match : BOOLEAN]
CopyCurrent(x, pr) == x.at = "submitted" /\ x.match => x.failures = pr[x.p].failures

\* The submissions to p whose outcome will not be recorded.
Outdated(sl, p) == {t \in Slots : sl[t].at = "submitted" /\ sl[t].p = p /\ ~sl[t].match}

CircuitDue(sl, pr, fl, p) ==
  /\ pr[p].failures < Threshold /\ pr[p].failures <= fl[p] /\ -1 <= pr[p].open
  /\ fl[p] + Cardinality(Outdated(sl, p)) <= Cardinality(Slots) * pr[p].failures + Cardinality(Slots)

ProviderRow == [active : BOOLEAN, failures : Nat, open : Int]
CircuitInv ==
  /\ prov \in [ProviderIds -> ProviderRow] /\ fails \in [ProviderIds -> Nat]
  /\ slot = [t \in Slots |-> slot[t]]
  /\ \A t \in Slots : CopySound(slot[t]) /\ CopyCurrent(slot[t], prov)
  /\ \A p \in ProviderIds : CircuitDue(slot, prov, fails, p)

\* There are finitely many submissions at a time, as many as the worker runs.
SlotsFinite == IsFiniteSet(Slots)

LEMMA OutdatedCounted ==
  ASSUME SlotsFinite, NEW sl, NEW p
  PROVE  /\ Cardinality(Slots) \in Nat /\ Cardinality(Outdated(sl, p)) \in Nat
         /\ Cardinality(Outdated(sl, p)) <= Cardinality(Slots) /\ IsFiniteSet(Outdated(sl, p))
<1>1. Outdated(sl, p) \in SUBSET Slots BY DEF Outdated
<1>2. Cardinality(Slots) \in Nat BY FS_CardinalityType DEF SlotsFinite
<1>3. IsFiniteSet(Outdated(sl, p)) /\ Cardinality(Outdated(sl, p)) <= Cardinality(Slots)
  BY <1>1, FS_Subset DEF SlotsFinite
<1>4. Cardinality(Outdated(sl, p)) \in Nat BY <1>3, FS_CardinalityType
<1> QED BY <1>2, <1>3, <1>4

\* Fewer are outdated when no other becomes so.
LEMMA FewerOutdated ==
  ASSUME SlotsFinite, NEW sl, NEW new, NEW p, Outdated(new, p) \subseteq Outdated(sl, p)
  PROVE  /\ Cardinality(Outdated(new, p)) <= Cardinality(Outdated(sl, p))
         /\ Cardinality(Outdated(new, p)) \in Nat
BY OutdatedCounted, FS_Subset

\* The one whose outcome is being recorded is not outdated by it.
LEMMA OthersOutdated ==
  ASSUME SlotsFinite, NEW new, NEW p, NEW s \in Slots, s \notin Outdated(new, p)
  PROVE  Cardinality(Outdated(new, p)) <= Cardinality(Slots) - 1 /\ Cardinality(Slots) >= 1
<1>1. IsFiniteSet(Slots \ {s}) /\ Cardinality(Slots \ {s}) = Cardinality(Slots) - 1
  BY FS_RemoveElement DEF SlotsFinite
<1>2. Outdated(new, p) \in SUBSET (Slots \ {s}) BY DEF Outdated
<1>3. Cardinality(Outdated(new, p)) <= Cardinality(Slots \ {s}) BY <1>1, <1>2, FS_Subset
<1>4. Cardinality(Slots \ {s}) \in Nat /\ Cardinality(Slots) \in Nat BY <1>1, OutdatedCounted, FS_CardinalityType
<1> QED BY <1>1, <1>3, <1>4, OutdatedCounted

LEMMA CircuitInit == ASSUME SlotsFinite, RInit PROVE CircuitInv
<1>1. prov \in [ProviderIds -> ProviderRow] /\ \A p \in ProviderIds : prov[p].failures = 0 /\ prov[p].open = -1
  BY DEF RInit, ProviderRow, Never
<1>2. fails \in [ProviderIds -> Nat] /\ \A p \in ProviderIds : fails[p] = 0 BY DEF RInit
<1>3. slot = [t \in Slots |-> slot[t]] /\ \A t \in Slots : slot[t] = Idle BY DEF RInit
<1>4. \A t \in Slots : slot[t].at = "idle" BY <1>3 DEF Idle
<1>5. ASSUME NEW p \in ProviderIds PROVE CircuitDue(slot, prov, fails, p)
  <2>1. Outdated(slot, p) = {} BY <1>4 DEF Outdated
  <2>2. Cardinality(Outdated(slot, p)) = 0 BY <2>1, FS_EmptySet
  <2>3. Cardinality(Slots) \in Nat BY OutdatedCounted
  <2> QED BY <1>1, <1>2, <2>2, <2>3, RoutingAssumption DEF CircuitDue
<1> QED BY <1>1, <1>2, <1>3, <1>4, <1>5 DEF CircuitInv, CopySound, CopyCurrent, SlotPlaces

\* A submission goes on, and no provider's row is written.
LEMMA OneSlotGoesOn ==
  ASSUME SlotsFinite, CircuitInv, NEW s \in Slots, NEW y, slot' = [slot EXCEPT ![s] = y], UNCHANGED <<prov, fails>>,
         CopySound(y), CopyCurrent(y, prov), y.at = "submitted" => y.match
  PROVE  CircuitInv'
<1>1. slot' = [t \in Slots |-> slot'[t]] /\ slot'[s] = y /\ \A t \in Slots : t # s => slot'[t] = slot[t]
  BY DEF CircuitInv
<1>2. \A t \in Slots : CopySound(slot'[t]) /\ CopyCurrent(slot'[t], prov) BY <1>1 DEF CircuitInv
<1>3. ASSUME NEW p \in ProviderIds PROVE CircuitDue(slot', prov, fails, p)
  <2>1. Outdated(slot', p) \subseteq Outdated(slot, p) BY <1>1 DEF Outdated
  <2>2. Cardinality(Outdated(slot', p)) <= Cardinality(Outdated(slot, p))
        /\ Cardinality(Outdated(slot', p)) \in Nat /\ Cardinality(Outdated(slot, p)) \in Nat
    BY <2>1, FewerOutdated, OutdatedCounted
  <2>3. CircuitDue(slot, prov, fails, p) /\ fails[p] \in Nat /\ prov[p].failures \in Nat
    BY DEF CircuitInv, ProviderRow
  <2>4. PICK m \in Int : m = Cardinality(Slots) * prov[p].failures + Cardinality(Slots)
    <3>1. Cardinality(Slots) \in Nat BY OutdatedCounted
    <3> QED BY <2>3, <3>1
  <2> QED BY <2>2, <2>3, <2>4 DEF CircuitDue
<1> QED BY <1>1, <1>2, <1>3 DEF CircuitInv

LEMMA GoesOn ==
  ASSUME SlotsFinite, CircuitInv, NEW s \in Slots, NEW y, slot' = [slot EXCEPT ![s] = y], UNCHANGED <<prov, fails>>,
         y.at \in SlotPlaces \ {"submitted"}
  PROVE  CircuitInv'
BY OneSlotGoesOn DEF CopySound, CopyCurrent

LEMMA CopyOutdated ==
  ASSUME NEW x, CopySound(x), x.at = "submitted"
  PROVE  /\ CopySound([x EXCEPT !.match = FALSE]) /\ [x EXCEPT !.match = FALSE].at = "submitted"
         /\ [x EXCEPT !.match = FALSE].p = x.p /\ ~[x EXCEPT !.match = FALSE].match
BY DEF CopySound, SlotPlaces

\* p's row is written: a submission on p, but for one that is over, has an outdated copy.
Outdating(t, p) == slot'[t] = IF slot[t].at = "submitted" /\ slot[t].p = p
                                THEN [slot[t] EXCEPT !.match = FALSE] ELSE slot[t]
LEMMA RowIsWritten ==
  ASSUME SlotsFinite, CircuitInv, NEW p \in ProviderIds, NEW row \in ProviderRow, NEW f \in Nat,
         prov' = [prov EXCEPT ![p] = row], fails' = [fails EXCEPT ![p] = f], slot' = [t \in Slots |-> slot'[t]],
         \A t \in Slots : slot'[t].at \in SlotPlaces \ {"submitted"} \/ Outdating(t, p),
         CircuitDue(slot', prov', fails', p)
  PROVE  CircuitInv'
<1>1. /\ prov' \in [ProviderIds -> ProviderRow] /\ fails' \in [ProviderIds -> Nat] /\ prov'[p] = row
      /\ \A q \in ProviderIds : q # p => prov'[q] = prov[q] /\ fails'[q] = fails[q]
  BY DEF CircuitInv
<1>2. ASSUME NEW t \in Slots
      PROVE  /\ CopySound(slot'[t]) /\ CopyCurrent(slot'[t], prov')
             /\ \A q \in ProviderIds : q # p /\ t \in Outdated(slot', q) => t \in Outdated(slot, q)
  <2>1. CopySound(slot[t]) /\ CopyCurrent(slot[t], prov) BY DEF CircuitInv
  <2>2. CASE slot'[t].at \in SlotPlaces \ {"submitted"} BY <2>2 DEF CopySound, CopyCurrent, Outdated
  <2>3. CASE Outdating(t, p) /\ slot[t].at = "submitted" /\ slot[t].p = p
    <3>1. slot'[t] = [slot[t] EXCEPT !.match = FALSE] BY <2>3 DEF Outdating
    <3> QED BY <2>1, <2>3, <3>1, CopyOutdated DEF CopyCurrent, Outdated
  <2>4. CASE Outdating(t, p) /\ ~(slot[t].at = "submitted" /\ slot[t].p = p)
    <3>1. slot'[t] = slot[t] BY <2>4 DEF Outdating
    <3>2. slot[t].at = "submitted" => slot[t].p \in ProviderIds /\ slot[t].p # p BY <2>1, <2>4 DEF CopySound
    <3> QED BY <1>1, <2>1, <3>1, <3>2 DEF CopyCurrent, Outdated
  <2> QED BY <2>2, <2>3, <2>4
<1>3. ASSUME NEW q \in ProviderIds, q # p PROVE CircuitDue(slot', prov', fails', q)
  <2>1. Outdated(slot', q) \subseteq Outdated(slot, q) BY <1>2, <1>3 DEF Outdated
  <2>2. Cardinality(Outdated(slot', q)) <= Cardinality(Outdated(slot, q))
        /\ Cardinality(Outdated(slot', q)) \in Nat /\ Cardinality(Outdated(slot, q)) \in Nat
    BY <2>1, FewerOutdated, OutdatedCounted
  <2>3. CircuitDue(slot, prov, fails, q) /\ fails[q] \in Nat /\ prov[q].failures \in Nat
    BY DEF CircuitInv, ProviderRow
  <2>4. PICK m \in Int : m = Cardinality(Slots) * prov[q].failures + Cardinality(Slots)
    <3>1. Cardinality(Slots) \in Nat BY OutdatedCounted
    <3> QED BY <2>3, <3>1
  <2>5. prov'[q] = prov[q] /\ fails'[q] = fails[q] BY <1>1, <1>3
  <2> QED BY <2>2, <2>3, <2>4, <2>5 DEF CircuitDue
<1> QED BY <1>1, <1>2, <1>3 DEF CircuitInv

\* The count goes from f to one more, or the circuit opens: n more failures are allowed for.
LEMMA FailuresAllowed ==
  ASSUME NEW n \in Nat, NEW f \in Nat
  PROVE  n * f \in Nat /\ n * (f + 1) = n * f + n /\ (n >= 1 => f <= n * f) /\ n * 0 = 0
OBVIOUS

\* A circuit is opened with the threshold of failures only.
OpensDue == \A p \in ProviderIds : prov'[p].open > prov[p].open => fails[p] + 1 >= Threshold
LEMMA ShutIsDue == ASSUME CircuitInv, UNCHANGED prov PROVE OpensDue
<1>1. \A p \in ProviderIds : prov[p].open \in Int BY DEF CircuitInv, ProviderRow
<1> QED BY <1>1 DEF OpensDue

LEMMA DecisionsKeepCircuits ==
  ASSUME SlotsFinite, CircuitInv, NEW s \in Slots,
         \/ StartRouting(s) \/ (\E draw \in Draws : Select(s, draw))
         \/ UnavailableUnrecorded(s) \/ Permanent(s) \/ Ends(s) \/ Failover(s)
  PROVE  CircuitInv' /\ OpensDue
<1>1. UNCHANGED <<prov, fails>>
  BY DEF StartRouting, Select, UnavailableUnrecorded, Permanent, Ends, Failover
<1>2. \E y : slot' = [slot EXCEPT ![s] = y] /\ y.at \in SlotPlaces \ {"submitted"}
  <2>1. CASE StartRouting(s)
    <3>1. PICK y : y = [at |-> "routes", table |-> route, exclude |-> {}, been |-> {}] OBVIOUS
    <3>2. slot' = [slot EXCEPT ![s] = y] BY <2>1, <3>1 DEF StartRouting, ReadRoutes
    <3>3. y.at = "routes" BY <3>1
    <3> QED BY <3>2, <3>3 DEF SlotPlaces
  <2>2. ASSUME NEW draw \in Draws, Select(s, draw)
        PROVE  \E y : slot' = [slot EXCEPT ![s] = y] /\ y.at \in SlotPlaces \ {"submitted"}
    <3> DEFINE won == SelectRoute(slot[s].table, WorkerAvailable, slot[s].exclude, draw)
               to == [at |-> "routed", exclude |-> slot[s].exclude, been |-> slot[s].been, via |-> won,
                      provider |-> {slot[s].table[id].provider : id \in won}]
               y == IF won = {} THEN Idle ELSE to
    <3>1. slot' = [slot EXCEPT ![s] = y] BY <2>2 DEF Select
    <3>2. to.at = "routed" OBVIOUS
    <3>3. Idle.at = "idle" BY DEF Idle
    <3>4. y.at \in SlotPlaces \ {"submitted"}
      <4> HIDE DEF won, to
      <4> QED BY <3>2, <3>3 DEF SlotPlaces
    <3> HIDE DEF y
    <3> QED BY <3>1, <3>4
  <2>3. CASE UnavailableUnrecorded(s) \/ Permanent(s)
    <3>1. slot' = [slot EXCEPT ![s] = ToFailover(s)] BY <2>3 DEF UnavailableUnrecorded, Permanent
    <3>2. ToFailover(s).at = "failover" BY DEF ToFailover
    <3> QED BY <3>1, <3>2 DEF SlotPlaces
  <2>4. CASE Ends(s)
    <3>1. slot' = [slot EXCEPT ![s] = Idle] BY <2>4 DEF Ends
    <3>2. Idle.at = "idle" BY DEF Idle
    <3> QED BY <3>1, <3>2 DEF SlotPlaces
  <2>5. CASE Failover(s) BY <2>5 DEF Failover, ReadRoutes, Idle, SlotPlaces
  <2> QED BY <2>1, <2>2, <2>3, <2>4, <2>5
<1> QED BY <1>1, <1>2, GoesOn, ShutIsDue

\* The copy is read with the message's submission, and is the row.
LEMMA ResolvingKeepsCircuits ==
  ASSUME SlotsFinite, CircuitInv, NEW s \in Slots, NEW p \in ProviderIds, Resolve(s, p)
  PROVE  CircuitInv' /\ OpensDue
<1> DEFINE y == [at |-> "submitted", exclude |-> slot[s].exclude, been |-> slot[s].been, via |-> slot[s].via,
                 p |-> p, failures |-> prov[p].failures, wasOpen |-> prov[p].open # Never, match |-> TRUE]
<1>1. slot' = [slot EXCEPT ![s] = y] /\ UNCHANGED <<prov, fails>> BY DEF Resolve
<1>2. prov[p].failures \in Nat BY DEF CircuitInv, ProviderRow
<1>3. CopySound(y) /\ CopyCurrent(y, prov) /\ y.match BY <1>2 DEF CopySound, CopyCurrent, SlotPlaces
<1> HIDE DEF y
<1> QED BY <1>1, <1>3, OneSlotGoesOn, ShutIsDue

\* What is known of a submission whose answer comes.
LEMMA AnswersFor ==
  ASSUME SlotsFinite, CircuitInv, NEW s \in Slots, slot[s].at = "submitted"
  PROVE  /\ slot[s].p \in ProviderIds /\ slot[s].failures \in Nat /\ slot[s].match \in BOOLEAN
         /\ prov[slot[s].p] \in ProviderRow /\ fails[slot[s].p] \in Nat
         /\ slot[s].match => slot[s].failures = prov[slot[s].p].failures
         /\ CircuitDue(slot, prov, fails, slot[s].p)
BY DEF CircuitInv, CopySound, CopyCurrent

\* The row after its counted failures, the circuit's end and the failures since are as given.
LEMMA OwnRowIsWritten ==
  ASSUME SlotsFinite, CircuitInv, NEW s \in Slots, slot[s].at = "submitted", NEW y, y.at \in SlotPlaces \ {"submitted"},
         NEW row \in ProviderRow, NEW f \in Nat,
         prov' = [prov EXCEPT ![slot[s].p] = row], fails' = [fails EXCEPT ![slot[s].p] = f], Outdate(slot[s].p, s, y),
         row.failures < Threshold, row.failures <= f, -1 <= row.open,
         f <= Cardinality(Slots) * row.failures + 1
  PROVE  CircuitInv'
<1> DEFINE p == slot[s].p
<1>1. p \in ProviderIds BY AnswersFor
<1>2. /\ slot' = [t \in Slots |-> slot'[t]] /\ slot'[s] = y
      /\ \A t \in Slots : slot'[t].at \in SlotPlaces \ {"submitted"} \/ Outdating(t, p)
  BY DEF Outdate, Outdating
<1>3. CircuitDue(slot', prov', fails', p)
  <2>1. prov'[p] = row /\ fails'[p] = f BY <1>1 DEF CircuitInv
  <2>2. s \notin Outdated(slot', p) BY <1>2 DEF Outdated
  <2>3. Cardinality(Outdated(slot', p)) <= Cardinality(Slots) - 1 BY <2>2, OthersOutdated
  <2>4. Cardinality(Slots) \in Nat /\ Cardinality(Outdated(slot', p)) \in Nat /\ row.failures \in Nat
    BY OutdatedCounted DEF ProviderRow
  <2>5. PICK m \in Nat : m = Cardinality(Slots) * row.failures BY <2>4, FailuresAllowed
  <2> QED BY <2>1, <2>3, <2>4, <2>5 DEF CircuitDue
<1> QED BY <1>1, <1>2, <1>3, RowIsWritten

Recounted(r, count, until) == [r EXCEPT !.failures = count, !.open = until]
LEMMA RecountedFields ==
  ASSUME NEW r \in ProviderRow, NEW count \in Nat, NEW until \in Int
  PROVE  /\ Recounted(r, count, until) \in ProviderRow /\ Recounted(r, count, until).failures = count
         /\ Recounted(r, count, until).open = until
BY DEF Recounted, ProviderRow

LEMMA AcceptancesKeepCircuits == ASSUME SlotsFinite, CircuitInv, NEW s \in Slots, Accepted(s)
  PROVE CircuitInv' /\ OpensDue
<1> DEFINE p == slot[s].p
<1>0. slot[s].at = "submitted" /\ Idle.at = "idle" BY DEF Accepted, Idle
<1>1. CASE slot[s].match /\ (slot[s].failures # 0 \/ slot[s].wasOpen)
  <2>1. /\ prov' = [prov EXCEPT ![p].failures = 0, ![p].open = Never] /\ fails' = [fails EXCEPT ![p] = 0]
        /\ Outdate(p, s, Idle)
    BY <1>1 DEF Accepted
  <2>2. /\ p \in ProviderIds /\ prov[p] \in ProviderRow BY <1>0, AnswersFor
  <2> DEFINE row == Recounted(prov[p], 0, Never)
  <2>3. row \in ProviderRow /\ row.failures = 0 /\ row.open = -1 BY <2>2, RecountedFields DEF Never
  <2>4. prov' = [prov EXCEPT ![p] = row] BY <2>1, <2>2 DEF CircuitInv, Recounted
  <2> HIDE DEF row
  <2>5. Cardinality(Slots) * row.failures = 0
    <3>1. Cardinality(Slots) \in Nat BY OutdatedCounted
    <3> QED BY <2>3, <3>1, FailuresAllowed
  <2>6. CircuitInv'
    <3>1. 0 <= Cardinality(Slots) * row.failures + 1 /\ row.failures < Threshold /\ row.failures <= 0 /\ -1 <= row.open
      BY <2>3, <2>5, RoutingAssumption
    <3>2. Idle.at \in SlotPlaces \ {"submitted"} BY <1>0 DEF SlotPlaces
    <3>3. PICK f \in Nat : f = 0 OBVIOUS
    <3>4. fails' = [fails EXCEPT ![p] = f] BY <2>1, <3>3
    <3>5. row.failures <= f /\ f <= Cardinality(Slots) * row.failures + 1 BY <3>1, <3>3
    <3> QED BY <1>0, <2>1, <2>3, <2>4, <3>1, <3>2, <3>4, <3>5, OwnRowIsWritten
  <2>7. OpensDue
    <3> SUFFICES ASSUME NEW q \in ProviderIds, prov'[q].open > prov[q].open PROVE FALSE BY DEF OpensDue
    <3>1. prov[q] \in ProviderRow /\ -1 <= prov[q].open BY DEF CircuitInv, CircuitDue
    <3>2. q # p => prov'[q] = prov[q] BY <2>4 DEF CircuitInv
    <3>3. q = p => prov'[q].open = -1 BY <2>2, <2>3, <2>4 DEF CircuitInv
    <3> QED BY <3>1, <3>2, <3>3 DEF ProviderRow
  <2> QED BY <2>6, <2>7
<1>2. CASE ~(slot[s].match /\ (slot[s].failures # 0 \/ slot[s].wasOpen))
  <2>1. slot' = [slot EXCEPT ![s] = Idle] /\ UNCHANGED <<prov, fails>> BY <1>2 DEF Accepted
  <2> QED BY <1>0, <2>1, GoesOn, ShutIsDue DEF SlotPlaces
<1> QED BY <1>1, <1>2

\* A failure that is counted.
LEMMA CountedFailuresKeepCircuits ==
  ASSUME SlotsFinite, CircuitInv, NEW s \in Slots, Unavailable(s), Matches(s)
  PROVE  CircuitInv' /\ OpensDue
<1> DEFINE p == slot[s].p
           y == ToFailover(s)
<1>0. slot[s].at = "submitted" BY DEF Unavailable
<1>1. /\ p \in ProviderIds /\ prov[p] \in ProviderRow /\ fails[p] \in Nat /\ slot[s].failures = prov[p].failures
      /\ CircuitDue(slot, prov, fails, p)
  BY <1>0, AnswersFor DEF Matches
<1>2. PICK k \in Nat : k = prov[p].failures BY <1>1 DEF ProviderRow
<1> DEFINE due == k + 1 >= Threshold
           count == IF due THEN 0 ELSE k + 1
           until == IF due THEN OpenTime ELSE prov[p].open
           row == Recounted(prov[p], count, until)
           f == IF due THEN 0 ELSE fails[p] + 1
<1>3. count \in Nat /\ until \in Int /\ f \in Nat /\ count < Threshold /\ count <= f /\ -1 <= until
  BY <1>1, <1>2, RoutingAssumption DEF CircuitDue, ProviderRow
<1>4. OnFailure(slot[s].failures).opens = due /\ OnFailure(slot[s].failures).failures = count
  BY <1>1, <1>2 DEF OnFailure
<1>5. /\ prov' = [prov EXCEPT ![p].failures = count, ![p].open = IF due THEN OpenTime ELSE @]
      /\ fails' = [fails EXCEPT ![p] = IF due THEN 0 ELSE @ + 1] /\ Outdate(p, s, y)
  BY <1>4 DEF Unavailable
<1>6. prov' = [prov EXCEPT ![p] = row] /\ fails' = [fails EXCEPT ![p] = f]
  <2> HIDE DEF due, count
  <2> QED BY <1>1, <1>5 DEF CircuitInv, Recounted, ProviderRow
<1>7. row \in ProviderRow /\ row.failures = count /\ row.open = until
  <2>1. count \in Nat /\ until \in Int /\ prov[p] \in ProviderRow BY <1>1, <1>3
  <2> HIDE DEF due, count, until, p
  <2> QED BY <2>1, RecountedFields
<1>8. y.at = "failover" BY DEF ToFailover
<1>9. f \in Nat /\ row.failures < Threshold /\ row.failures <= f /\ -1 <= row.open
  <2> HIDE DEF row, f, count, until
  <2> QED BY <1>3, <1>7
<1>10. f <= Cardinality(Slots) * row.failures + 1
  <2>1. Cardinality(Slots) \in Nat /\ Cardinality(Outdated(slot, p)) \in Nat BY OutdatedCounted
  <2>2. CASE k + 1 >= Threshold
    <3>1. f = 0 /\ row.failures = 0 BY <1>7, <2>2
    <3> QED BY <2>1, <3>1, FailuresAllowed
  <2>3. CASE ~(k + 1 >= Threshold)
    <3>1. f = fails[p] + 1 /\ row.failures = k + 1 BY <1>7, <2>3
    <3>2. PICK m \in Nat : m = Cardinality(Slots) * k /\ Cardinality(Slots) * (k + 1) = m + Cardinality(Slots)
      BY <2>1, FailuresAllowed
    <3>3. fails[p] + Cardinality(Outdated(slot, p)) <= m + Cardinality(Slots) BY <1>1, <1>2, <3>2 DEF CircuitDue
    <3> HIDE DEF f, row, p
    <3> QED BY <1>1, <2>1, <3>1, <3>2, <3>3
  <2> QED BY <2>2, <2>3
<1>11. OpensDue
  <2> SUFFICES ASSUME NEW q \in ProviderIds, prov'[q].open > prov[q].open
        PROVE fails[q] + 1 >= Threshold BY DEF OpensDue
  <2>1. q # p => prov'[q] = prov[q] BY <1>6 DEF CircuitInv
  <2>2. prov[q].open \in Int BY DEF CircuitInv, ProviderRow
  <2>3. q = p BY <2>1, <2>2
  <2>4. prov'[p] = row BY <1>1, <1>6 DEF CircuitInv
  <2>5. due BY <1>7, <2>2, <2>3, <2>4
  <2>6. k <= fails[p] BY <1>1, <1>2 DEF CircuitDue
  <2> QED BY <1>1, <1>2, <2>3, <2>5, <2>6, RoutingAssumption
<1> HIDE DEF row, f, y, count, until, due
<1>12. CircuitInv'
  BY <1>0, <1>5, <1>6, <1>7, <1>8, <1>9, <1>10, OwnRowIsWritten DEF SlotPlaces
<1> QED BY <1>11, <1>12

\* A failure on an outdated copy is lost, and one copy fewer is outdated.
LEMMA LostFailuresKeepCircuits ==
  ASSUME SlotsFinite, CircuitInv, NEW s \in Slots, Unavailable(s), ~Matches(s)
  PROVE  CircuitInv' /\ OpensDue
<1> DEFINE p == slot[s].p
           y == ToFailover(s)
<1>0. slot[s].at = "submitted" BY DEF Unavailable
<1>1. p \in ProviderIds /\ prov[p] \in ProviderRow /\ fails[p] \in Nat /\ CircuitDue(slot, prov, fails, p)
  BY <1>0, AnswersFor
<1>2. fails' = [fails EXCEPT ![p] = @ + 1] /\ slot' = [slot EXCEPT ![s] = y] /\ UNCHANGED prov
  BY DEF Unavailable
<1>3. y.at = "failover" BY DEF ToFailover
<1> HIDE DEF y
<1>4. slot' = [t \in Slots |-> slot'[t]] /\ slot'[s] = y /\ \A t \in Slots : t # s => slot'[t] = slot[t]
  BY <1>2 DEF CircuitInv
<1>5. \A t \in Slots : CopySound(slot'[t]) /\ CopyCurrent(slot'[t], prov)
  BY <1>3, <1>4 DEF CircuitInv, CopySound, CopyCurrent, SlotPlaces
<1>6. fails' \in [ProviderIds -> Nat] /\ fails'[p] = fails[p] + 1 /\ \A q \in ProviderIds : q # p =>
          fails'[q] = fails[q]
  BY <1>1, <1>2 DEF CircuitInv
<1>7. ASSUME NEW q \in ProviderIds PROVE CircuitDue(slot', prov, fails', q)
  <2>1. CircuitDue(slot, prov, fails, q) /\ fails[q] \in Nat /\ prov[q].failures \in Nat
    BY DEF CircuitInv, ProviderRow
  <2>2. PICK m \in Int : m = Cardinality(Slots) * prov[q].failures + Cardinality(Slots)
    <3>1. Cardinality(Slots) \in Nat BY OutdatedCounted
    <3> QED BY <2>1, <3>1
  <2>3. CASE q = p
    <3>1. s \in Outdated(slot, p) BY <1>0 DEF Outdated, Matches
    <3>2. Outdated(slot', p) \subseteq Outdated(slot, p) \ {s} BY <1>3, <1>4 DEF Outdated
    <3>3. IsFiniteSet(Outdated(slot, p)) /\ Cardinality(Outdated(slot, p)) \in Nat BY OutdatedCounted
    <3>4. IsFiniteSet(Outdated(slot, p) \ {s})
          /\ Cardinality(Outdated(slot, p) \ {s}) = Cardinality(Outdated(slot, p)) - 1
      BY <3>1, <3>3, FS_RemoveElement
    <3>5. Cardinality(Outdated(slot', p)) <= Cardinality(Outdated(slot, p) \ {s}) BY <3>2, <3>4, FS_Subset
    <3>6. Cardinality(Outdated(slot', p)) \in Nat BY OutdatedCounted
    <3>7. fails'[q] = fails[q] + 1 /\ Cardinality(Outdated(slot', q)) <= Cardinality(Outdated(slot, q)) - 1
      BY <1>6, <2>3, <3>4, <3>5
    <3>8. Cardinality(Outdated(slot', q)) \in Nat /\ Cardinality(Outdated(slot, q)) \in Nat BY OutdatedCounted
    <3> HIDE DEF p
    <3> QED BY <2>1, <2>2, <3>7, <3>8 DEF CircuitDue
  <2>4. CASE q # p
    <3>1. Outdated(slot', q) \subseteq Outdated(slot, q) BY <1>3, <1>4 DEF Outdated
    <3>2. Cardinality(Outdated(slot', q)) <= Cardinality(Outdated(slot, q))
          /\ Cardinality(Outdated(slot', q)) \in Nat /\ Cardinality(Outdated(slot, q)) \in Nat
      BY <3>1, FewerOutdated, OutdatedCounted
    <3>3. fails'[q] = fails[q] BY <1>6, <2>4
    <3> QED BY <2>1, <2>2, <3>2, <3>3 DEF CircuitDue
  <2> QED BY <2>3, <2>4
<1> QED BY <1>2, <1>4, <1>5, <1>6, <1>7, ShutIsDue DEF CircuitInv

\* An operator's edit outdates every copy, and the failures are as many as the row counts.
LEMMA SwitchesKeepCircuits ==
  ASSUME SlotsFinite, CircuitInv, NEW p \in ProviderIds, SwitchProvider(p)
  PROVE  CircuitInv' /\ OpensDue
<1> DEFINE row == [prov[p] EXCEPT !.active = ~@]
<1>1. prov[p] \in ProviderRow /\ fails[p] \in Nat /\ CircuitDue(slot, prov, fails, p) BY DEF CircuitInv
<1>2. row \in ProviderRow /\ row.failures = prov[p].failures /\ row.open = prov[p].open BY <1>1 DEF ProviderRow
<1>3. PICK k \in Nat : k = prov[p].failures BY <1>1 DEF ProviderRow
<1>4. /\ prov' = [prov EXCEPT ![p] = row] /\ fails' = [fails EXCEPT ![p] = k]
      /\ slot' = [t \in Slots |-> slot'[t]] /\ \A t \in Slots : Outdating(t, p)
  BY <1>3 DEF SwitchProvider, Outdating
<1> HIDE DEF row
<1>5. prov'[p] = row /\ fails'[p] = k BY <1>4 DEF CircuitInv
<1>6. CircuitDue(slot', prov', fails', p)
  <2>1. /\ Cardinality(Slots) \in Nat /\ Cardinality(Outdated(slot', p)) \in Nat
        /\ Cardinality(Outdated(slot', p)) <= Cardinality(Slots) /\ Cardinality(Outdated(slot, p)) \in Nat
    BY OutdatedCounted
  <2>2. PICK m \in Nat : m = Cardinality(Slots) * k /\ (Cardinality(Slots) >= 1 => k <= m)
    BY <2>1, FailuresAllowed
  <2>3. k <= fails[p] /\ fails[p] + Cardinality(Outdated(slot, p)) <= m + Cardinality(Slots) /\ k < Threshold /\ -1 <= row.open
    BY <1>1, <1>2, <1>3, <2>2 DEF CircuitDue
  <2>4. Cardinality(Slots) = 0 => m = 0 BY <2>2
  <2>5. k <= m
    <3>1. CASE Cardinality(Slots) >= 1 BY <2>2, <3>1
    <3>2. CASE Cardinality(Slots) = 0
      <4>1. m = 0 BY <2>4, <3>2
      <4>2. fails[p] <= 0 BY <1>1, <2>1, <2>3, <3>2, <4>1
      <4> QED BY <1>1, <2>3, <4>1, <4>2
    <3> QED BY <2>1, <3>1, <3>2
  <2> QED BY <1>2, <1>3, <1>5, <2>1, <2>2, <2>3, <2>5 DEF CircuitDue
<1>7. CircuitInv' BY <1>2, <1>4, <1>6, RowIsWritten
<1>8. OpensDue
  <2> SUFFICES ASSUME NEW q \in ProviderIds PROVE ~(prov'[q].open > prov[q].open) BY DEF OpensDue
  <2>1. prov'[q].open = prov[q].open /\ prov[q].open \in Int BY <1>2, <1>4, <1>5 DEF CircuitInv, ProviderRow
  <2> QED BY <2>1
<1> QED BY <1>7, <1>8

LEMMA CircuitTicksKeep == ASSUME SlotsFinite, CircuitInv, CircuitTick PROVE CircuitInv' /\ OpensDue
<1>1. UNCHANGED <<slot, fails>> BY DEF CircuitTick
<1>2. ASSUME NEW p \in ProviderIds
      PROVE  /\ prov'[p] \in ProviderRow /\ prov'[p].failures = prov[p].failures
             /\ prov'[p].open <= prov[p].open /\ -1 <= prov'[p].open /\ prov[p].open \in Int /\ prov'[p].open \in Int
  <2>1. prov[p] \in ProviderRow /\ -1 <= prov[p].open BY DEF CircuitInv, CircuitDue
  <2>2. CASE prov[p].open > 0
    <3>1. prov'[p] = [prov[p] EXCEPT !.open = @ - 1] BY <2>2 DEF CircuitTick
    <3> QED BY <2>1, <2>2, <3>1 DEF ProviderRow
  <2>3. CASE ~(prov[p].open > 0)
    <3>1. prov'[p] = prov[p] BY <2>3 DEF CircuitTick
    <3> QED BY <2>1, <3>1 DEF ProviderRow
  <2> QED BY <2>2, <2>3
<1>3. prov' = [p \in ProviderIds |-> prov'[p]] BY DEF CircuitTick
<1>4. prov' \in [ProviderIds -> ProviderRow] BY <1>2, <1>3
<1>5. \A t \in Slots : CopySound(slot[t]) /\ CopyCurrent(slot[t], prov')
  BY <1>2 DEF CircuitInv, CopySound, CopyCurrent
<1>6. \A p \in ProviderIds : CircuitDue(slot, prov', fails, p) BY <1>2 DEF CircuitInv, CircuitDue
<1>7. OpensDue BY <1>2 DEF OpensDue
<1> QED BY <1>1, <1>4, <1>5, <1>6, <1>7 DEF CircuitInv

LEMMA CircuitStep == ASSUME SlotsFinite, CircuitInv, [RNext]_rvars PROVE CircuitInv' /\ OpensDue
<1>1. ASSUME UNCHANGED <<prov, slot, fails>> PROVE CircuitInv' /\ OpensDue
  BY <1>1, ShutIsDue DEF CircuitInv, CircuitDue, Outdated
<1>2. CASE UNCHANGED rvars BY <1>1, <1>2 DEF rvars
<1>3. ASSUME NEW id \in RouteIds, SwitchRoute(id) PROVE CircuitInv' /\ OpensDue BY <1>1, <1>3 DEF SwitchRoute
<1>4. ASSUME NEW s \in Slots, Unavailable(s) PROVE CircuitInv' /\ OpensDue
  BY <1>4, CountedFailuresKeepCircuits, LostFailuresKeepCircuits
<1>5. CASE RNext
  BY <1>3, <1>4, <1>5, DecisionsKeepCircuits, ResolvingKeepsCircuits, AcceptancesKeepCircuits, SwitchesKeepCircuits,
     CircuitTicksKeep DEF RNext
<1> QED BY <1>2, <1>5

\* What is due bounds the failures a shut circuit may have seen.
LEMMA DueIsBounded ==
  ASSUME SlotsFinite, NEW sl, NEW pr, NEW fl, NEW p, CircuitDue(sl, pr, fl, p), fl[p] \in Nat, pr[p].failures \in Nat
  PROVE  fl[p] <= Cardinality(Slots) * Threshold
<1>1. Cardinality(Slots) \in Nat /\ Cardinality(Outdated(sl, p)) \in Nat BY OutdatedCounted
<1>2. fl[p] \in Nat /\ pr[p].failures \in Nat /\ CircuitDue(sl, pr, fl, p) OBVIOUS
<1>3. PICK d \in Nat : Threshold = pr[p].failures + 1 + d
  <2>1. Threshold \in Nat /\ Threshold - pr[p].failures - 1 \in Nat BY <1>2, RoutingAssumption DEF CircuitDue
  <2> QED BY <1>2, <2>1
<1>4. PICK a \in Nat : a = Cardinality(Slots) * pr[p].failures BY <1>1, <1>2, FailuresAllowed
<1>5. PICK b \in Nat : b = Cardinality(Slots) * d BY <1>1, FailuresAllowed
<1>6. Cardinality(Slots) * Threshold = a + Cardinality(Slots) + b BY <1>1, <1>2, <1>3, <1>4, <1>5
<1>7. fl[p] <= a + Cardinality(Slots) BY <1>1, <1>2, <1>4 DEF CircuitDue
<1> QED BY <1>1, <1>2, <1>6, <1>7

(* For any number of providers, routes and submissions side by side: a        *)
(* circuit is opened with the threshold of failures only, and is shut for no  *)
(* more than n failures for each one of the threshold, of those the database  *)
(* gave an answer to (record_provider_failure and reset_provider_failures in  *)
(* dispatch.rs, on_failure in breaker.rs).                                    *)
THEOREM CircuitsOpenWhenDue == RSpec => CircuitOpensWhenDue
<1>0. SlotsFinite BY RoutingAssumption DEF SlotsFinite
<1>1. RInit => CircuitInv BY <1>0, CircuitInit
<1>2. CircuitInv /\ [RNext]_rvars => CircuitInv' BY <1>0, CircuitStep
<1>3. CircuitInv /\ [RNext]_rvars => [\A p \in ProviderIds :
         /\ prov'[p].open > prov[p].open => fails[p] + 1 >= Threshold
         /\ fails'[p] <= Cardinality(Slots) * Threshold]_rvars
  <2> SUFFICES ASSUME CircuitInv, [RNext]_rvars, NEW p \in ProviderIds
               PROVE  /\ prov'[p].open > prov[p].open => fails[p] + 1 >= Threshold
                      /\ fails'[p] <= Cardinality(Slots) * Threshold
    OBVIOUS
  <2>1. CircuitInv' /\ OpensDue BY <1>0, CircuitStep
  <2>2. CircuitDue(slot', prov', fails', p) /\ fails'[p] \in Nat /\ prov'[p].failures \in Nat
    BY <2>1 DEF CircuitInv, ProviderRow
  <2>3. fails'[p] <= Cardinality(Slots) * Threshold BY <1>0, <2>2, DueIsBounded
  <2> QED BY <2>1, <2>3 DEF OpensDue
<1> QED BY <1>1, <1>2, <1>3, PTL DEF RSpec, CircuitOpensWhenDue

-----------------------------------------------------------------------------
(* Failover.  What is excluded is what the message has been sent over, and    *)
(* the engine's answer is none of it (HopSound), whoever writes the routes    *)
(* and the providers in the meantime.                                         *)

HopSound(x) ==
  /\ x.at # "idle" => x.exclude = x.been /\ IsFiniteSet(x.been) /\ Cardinality(x.been) <= MaxHops
  /\ x.at \in {"routed", "submitted", "failover"} => x.via \cap x.been = {} /\ IsFiniteSet(x.via)
HopInv == \A t \in Slots : HopSound(slot[t])

LEMMA IdleIsSound == HopSound(Idle)
BY DEF HopSound, Idle

LEMMA FailoverIsSound ==
  ASSUME NEW s, HopSound(slot[s]), slot[s].at = "submitted"
  PROVE  HopSound(ToFailover(s))
<1>1. PICK y : y = ToFailover(s) OBVIOUS
<1>2. y.at = "failover" /\ y.exclude = slot[s].exclude /\ y.been = slot[s].been /\ y.via = slot[s].via
  BY <1>1 DEF ToFailover
<1> QED BY <1>1, <1>2 DEF HopSound

\* Submissions are where they were, outdated, or where they may be.
LEMMA HopsGoOn ==
  ASSUME CircuitInv, HopInv,
         \A t \in Slots : HopSound(slot'[t]) \/ slot'[t] = slot[t] \/ (\E p \in ProviderIds : Outdating(t, p))
  PROVE  HopInv'
<1> SUFFICES ASSUME NEW t \in Slots PROVE HopSound(slot'[t]) BY DEF HopInv
<1>1. HopSound(slot[t]) /\ CopySound(slot[t]) BY DEF HopInv, CircuitInv
<1>2. ASSUME NEW p \in ProviderIds, Outdating(t, p) PROVE HopSound(slot'[t])
  <2>1. CASE slot[t].at = "submitted" /\ slot[t].p = p
    <3>1. slot'[t] = [slot[t] EXCEPT !.match = FALSE] BY <1>2, <2>1 DEF Outdating
    <3>2. /\ slot'[t].at = slot[t].at /\ slot'[t].exclude = slot[t].exclude /\ slot'[t].been = slot[t].been
          /\ slot'[t].via = slot[t].via
      BY <1>1, <2>1, <3>1 DEF CopySound
    <3> QED BY <1>1, <3>2 DEF HopSound
  <2>2. CASE ~(slot[t].at = "submitted" /\ slot[t].p = p) BY <1>1, <1>2, <2>2 DEF Outdating
  <2> QED BY <2>1, <2>2
<1> QED BY <1>1, <1>2

LEMMA OneHop ==
  ASSUME CircuitInv, HopInv, NEW s \in Slots, NEW y, HopSound(y), slot' = [slot EXCEPT ![s] = y]
  PROVE  HopInv'
<1>1. slot'[s] = y /\ \A t \in Slots : t # s => slot'[t] = slot[t] BY DEF CircuitInv
<1> QED BY <1>1, HopsGoOn

LEMMA DecisionsMoveOn ==
  ASSUME CircuitInv, HopInv, NEW s \in Slots, NEW draw, Select(s, draw)
  PROVE  HopInv'
<1> DEFINE won == SelectRoute(slot[s].table, WorkerAvailable, slot[s].exclude, draw)
           y == [at |-> "routed", exclude |-> slot[s].exclude, been |-> slot[s].been, via |-> won,
                 provider |-> {slot[s].table[id].provider : id \in won}]
<1>0. slot[s].at = "routes" BY DEF Select
<1>1. HopSound(slot[s]) BY DEF HopInv
<1>2. slot' = [slot EXCEPT ![s] = IF won = {} THEN Idle ELSE y] BY DEF Select
<1>3. won \subseteq Eligible(slot[s].table, WorkerAvailable, slot[s].exclude) /\ IsFiniteSet(won)
  <2>1. won \subseteq Band(slot[s].table, WorkerAvailable, slot[s].exclude) BY WinnerIsInBand
  <2>2. /\ Band(slot[s].table, WorkerAvailable, slot[s].exclude)
             \subseteq Eligible(slot[s].table, WorkerAvailable, slot[s].exclude)
        /\ IsFiniteSet(Band(slot[s].table, WorkerAvailable, slot[s].exclude))
    BY BandExists
  <2> HIDE DEF won
  <2> QED BY <2>1, <2>2, FS_Subset
<1>4. won \cap slot[s].exclude = {}
  <2>1. \A id \in Eligible(slot[s].table, WorkerAvailable, slot[s].exclude) : id \notin slot[s].exclude
    BY DEF Eligible, Outcome
  <2> HIDE DEF won
  <2> QED BY <1>3, <2>1
<1>5. y.at = "routed" /\ y.exclude = slot[s].exclude /\ y.been = slot[s].been /\ y.via = won OBVIOUS
<1> HIDE DEF won, y
<1>6. HopSound(y) BY <1>0, <1>1, <1>3, <1>4, <1>5 DEF HopSound
<1>7. HopSound(IF won = {} THEN Idle ELSE y) BY <1>6, IdleIsSound
<1> QED BY <1>2, <1>7, OneHop

LEMMA FailoversMoveOn == ASSUME CircuitInv, HopInv, NEW s \in Slots, Failover(s) PROVE HopInv'
<1>0. slot[s].at = "failover" /\ HopSound(slot[s]) BY DEF Failover, HopInv
<1> DEFINE tried == Tried(slot[s].exclude, slot[s].via)
<1>1. tried = slot[s].been \cup slot[s].via /\ IsFiniteSet(slot[s].been) /\ IsFiniteSet(slot[s].via)
  BY <1>0 DEF HopSound, Tried
<1>2. IsFiniteSet(tried) /\ Cardinality(tried) \in Nat BY <1>1, FS_Union, FS_CardinalityType
<1>3. CASE Cardinality(tried) > MaxHops
  <2>1. slot' = [slot EXCEPT ![s] = Idle] BY <1>3 DEF Failover
  <2> QED BY <2>1, OneHop, IdleIsSound
<1>4. CASE ~(Cardinality(tried) > MaxHops)
  <2>1. PICK y : y = [at |-> "routes", table |-> route, exclude |-> tried, been |-> slot[s].been \cup slot[s].via] OBVIOUS
  <2>2. slot' = [slot EXCEPT ![s] = y] BY <1>4, <2>1 DEF Failover, ReadRoutes
  <2>3. y.at = "routes" /\ y.exclude = tried /\ y.been = tried BY <1>1, <2>1
  <2> HIDE DEF tried
  <2>4. HopSound(y) BY <1>2, <1>4, <2>3, RoutingAssumption DEF HopSound
  <2> QED BY <2>2, <2>4, OneHop
<1> QED BY <1>3, <1>4

LEMMA SubmissionsMoveOn ==
  ASSUME CircuitInv, HopInv, NEW s \in Slots,
         \/ StartRouting(s) \/ (\E p \in ProviderIds : Resolve(s, p))
         \/ UnavailableUnrecorded(s) \/ Permanent(s) \/ Ends(s)
  PROVE  HopInv'
<1>0. HopSound(slot[s]) BY DEF HopInv
<1>1. CASE StartRouting(s)
  <2>1. PICK y : y = [at |-> "routes", table |-> route, exclude |-> {}, been |-> {}] OBVIOUS
  <2>2. slot' = [slot EXCEPT ![s] = y] BY <1>1, <2>1 DEF StartRouting, ReadRoutes
  <2>3. y.at = "routes" /\ y.exclude = {} /\ y.been = {} BY <2>1
  <2>4. HopSound(y) BY <2>3, FS_EmptySet, RoutingAssumption DEF HopSound
  <2> QED BY <2>2, <2>4, OneHop
<1>2. ASSUME NEW p \in ProviderIds, Resolve(s, p) PROVE HopInv'
  <2>1. PICK y : y = [at |-> "submitted", exclude |-> slot[s].exclude, been |-> slot[s].been, via |-> slot[s].via,
                      p |-> p, failures |-> prov[p].failures, wasOpen |-> prov[p].open # Never, match |-> TRUE]
    OBVIOUS
  <2>2. slot' = [slot EXCEPT ![s] = y] /\ slot[s].at = "routed" BY <1>2, <2>1 DEF Resolve
  <2>3. y.at = "submitted" /\ y.exclude = slot[s].exclude /\ y.been = slot[s].been /\ y.via = slot[s].via BY <2>1
  <2>4. HopSound(y) BY <1>0, <2>2, <2>3 DEF HopSound
  <2> QED BY <2>2, <2>4, OneHop
<1>3. CASE UnavailableUnrecorded(s) \/ Permanent(s)
  <2>1. slot' = [slot EXCEPT ![s] = ToFailover(s)] /\ slot[s].at = "submitted"
    BY <1>3 DEF UnavailableUnrecorded, Permanent
  <2>2. HopSound(ToFailover(s)) BY <1>0, <2>1, FailoverIsSound
  <2> QED BY <2>1, <2>2, OneHop
<1>4. CASE Ends(s) BY <1>4, OneHop, IdleIsSound DEF Ends
<1> QED BY <1>1, <1>2, <1>3, <1>4

\* An answer ends the submission here, and outdates others if it is recorded.
LEMMA AnswersMoveOn ==
  ASSUME SlotsFinite, CircuitInv, HopInv, NEW s \in Slots, Accepted(s) \/ Unavailable(s)
  PROVE  HopInv'
<1>0. slot[s].at = "submitted" /\ HopSound(slot[s]) BY DEF Accepted, Unavailable, HopInv
<1>1. HopSound(ToFailover(s)) BY <1>0, FailoverIsSound
<1>2. slot[s].p \in ProviderIds BY <1>0, AnswersFor
<1>3. \E y : HopSound(y) /\ (slot' = [slot EXCEPT ![s] = y] \/ Outdate(slot[s].p, s, y))
  BY <1>1, IdleIsSound DEF Accepted, Unavailable
<1>4. PICK y : HopSound(y) /\ (slot' = [slot EXCEPT ![s] = y] \/ Outdate(slot[s].p, s, y)) BY <1>3
<1>5. CASE Outdate(slot[s].p, s, y)
  <2>1. \A t \in Slots : HopSound(slot'[t]) \/ Outdating(t, slot[s].p) BY <1>4, <1>5 DEF Outdate, Outdating
  <2> QED BY <1>2, <2>1, HopsGoOn
<1> QED BY <1>4, <1>5, OneHop

LEMMA HopStep == ASSUME SlotsFinite, CircuitInv, HopInv, [RNext]_rvars PROVE HopInv'
<1>1. ASSUME UNCHANGED slot PROVE HopInv' BY <1>1 DEF HopInv
<1>2. CASE UNCHANGED rvars BY <1>1, <1>2 DEF rvars
<1>3. ASSUME NEW id \in RouteIds, SwitchRoute(id) PROVE HopInv' BY <1>1, <1>3 DEF SwitchRoute
<1>4. CASE CircuitTick BY <1>1, <1>4 DEF CircuitTick
<1>5. ASSUME NEW p \in ProviderIds, SwitchProvider(p) PROVE HopInv'
  <2>1. \A t \in Slots : Outdating(t, p) BY <1>5 DEF SwitchProvider, Outdating
  <2> QED BY <2>1, HopsGoOn
<1>6. CASE RNext
  BY <1>3, <1>4, <1>5, <1>6, DecisionsMoveOn, FailoversMoveOn, SubmissionsMoveOn, AnswersMoveOn DEF RNext
<1> QED BY <1>2, <1>6

(* A message is never sent twice over one route from its claim on, nor over   *)
(* more than MAX_FAILOVER_HOPS others, for any number of routes, providers     *)
(* and submissions, and whatever operators switch between two decisions        *)
(* (attempt_failover in dispatch.rs, select_route in engine.rs).               *)
THEOREM FailoversNeverReturn == RSpec => []FailoverMovesOn
<1>0. SlotsFinite BY RoutingAssumption DEF SlotsFinite
<1>1. RInit => CircuitInv /\ HopInv
  <2> SUFFICES ASSUME RInit PROVE CircuitInv /\ HopInv OBVIOUS
  <2>1. \A t \in Slots : slot[t] = Idle BY DEF RInit
  <2> QED BY <1>0, <2>1, CircuitInit, IdleIsSound DEF HopInv
<1>2. CircuitInv /\ HopInv /\ [RNext]_rvars => (CircuitInv /\ HopInv)' BY <1>0, CircuitStep, HopStep
<1>3. HopInv => FailoverMovesOn BY DEF HopInv, HopSound, FailoverMovesOn
<1> QED BY <1>1, <1>2, <1>3, PTL DEF RSpec

-----------------------------------------------------------------------------
(* Fairness kept.  Switching routes leaves their priorities and weights alone, *)
(* so the engine is fair in every state (SharesAreFair).                       *)

RowsInv == DOMAIN route = RouteIds /\ \A id \in RouteIds : IsRow(route[id])

LEMMA RowsStep == ASSUME RowsInv, [RNext]_rvars PROVE RowsInv'
<1>1. ASSUME UNCHANGED route PROVE RowsInv' BY <1>1 DEF RowsInv
<1>2. ASSUME NEW id \in RouteIds, SwitchRoute(id) PROVE RowsInv'
  <2>1. route' = [route EXCEPT ![id].enabled = ~@] BY <1>2 DEF SwitchRoute
  <2>2. DOMAIN route' = RouteIds /\ route'[id] = [route[id] EXCEPT !.enabled = ~@]
        /\ \A k \in RouteIds : k # id => route'[k] = route[k]
    BY <2>1 DEF RowsInv
  <2>3. IsRow(route'[id])
    <3>1. PICK r : r = route[id] OBVIOUS
    <3>2. r \in [priority : Int, weight : Int, enabled : BOOLEAN, operator : {r.operator}, class : {r.class},
                 app : {r.app}, prefix : {r.prefix}, provider : {r.provider}]
      BY <3>1 DEF RowsInv, IsRow
    <3>3. PICK y : y = [r EXCEPT !.enabled = ~@] OBVIOUS
    <3>4. y \in [priority : Int, weight : Int, enabled : BOOLEAN, operator : {r.operator}, class : {r.class},
                 app : {r.app}, prefix : {r.prefix}, provider : {r.provider}]
      BY <3>2, <3>3
    <3>5. y \in [priority : Int, weight : Int, enabled : BOOLEAN, operator : {y.operator}, class : {y.class},
                 app : {y.app}, prefix : {y.prefix}, provider : {y.provider}]
      BY <3>4
    <3> QED BY <2>2, <3>1, <3>3, <3>5 DEF IsRow
  <2> QED BY <2>2, <2>3 DEF RowsInv
<1>3. CASE UNCHANGED rvars BY <1>1, <1>3 DEF rvars
<1>4. CASE RNext
  <2>1. UNCHANGED route \/ \E id \in RouteIds : SwitchRoute(id)
    BY <1>4 DEF RNext, StartRouting, Select, Resolve, Accepted, Unavailable, UnavailableUnrecorded,
                Permanent, Ends, Failover, SwitchProvider, CircuitTick
  <2> QED BY <1>1, <1>2, <2>1
<1> QED BY <1>3, <1>4

(* Routing is fair for any routes, providers, submissions and number of draws:  *)
(* in every state each route of the highest priority has its share of the       *)
(* draws, but for less than one, and a failover gives a message a route it has   *)
(* not been on (select_route and pick_weighted in engine.rs, attempt_failover   *)
(* in dispatch.rs).                                                             *)
THEOREM RoutesStayFair == RSpec => []RoutesAreFair
<1>1. RInit => RowsInv BY RoutingAssumption DEF RInit, RowsInv
<1>2. RowsInv /\ [RNext]_rvars => RowsInv' BY RowsStep
<1>3. RowsInv => WinnersAreFair
  <2> SUFFICES ASSUME RowsInv PROVE FairShares(route, WorkerAvailable, {}) BY DEF WinnersAreFair
  <2>1. ASSUME NEW id \in RouteIds PROVE route[id].priority \in Int /\ route[id].weight \in Int
    BY DEF RowsInv, IsRow
  <2>2. Rows(route) BY <2>1 DEF Rows, Ranked
  <2> QED BY <2>2, SharesAreFair
<1>4. RSpec => []FailoverMovesOn BY FailoversNeverReturn
<1>5. WinnersAreFair /\ FailoverMovesOn => RoutesAreFair BY DEF RoutesAreFair
<1> QED BY <1>1, <1>2, <1>3, <1>4, <1>5, PTL DEF RSpec

=============================================================================
