------------------------------- MODULE Outbox -------------------------------
(***************************************************************************)
(* From a stored message to the webhook deliveries it causes: the event    *)
(* the framework writes in the message's own transaction, the drain that   *)
(* hands undelivered events to the subscriber, the subscriber that creates *)
(* one WebhookAttempt for each endpoint (sms-api webhooks.rs), and the job *)
(* that deletes events delivered long ago (sms-worker drain.rs,            *)
(* jobs/reap_outbox.rs).  The outbox table and db.events().drain() belong  *)
(* to the framework.  A drain runs in the process that holds the drain     *)
(* role, and for a moment in two of them when the role moves.              *)
(***************************************************************************)
EXTENDS Naturals, FiniteSets

CONSTANTS
  Events,      \* events of messages, each of a message and a state it entered
  Endpoints,   \* the endpoints of the app, all subscribed to the event's type
  Drainers,    \* processes that may be draining
  MaxFaults    \* bound: failures of the subscriber and switches of an endpoint

VARIABLES
  event,      \* event -> "none", "undelivered", "delivered", "reaped"
  silent,     \* event -> whether its state has no event type or its message is purged, as
              \* the event's copy of the row says
  active,     \* the endpoints that are active
  missed,     \* event -> endpoints not active all the time since it was written (history)
  attempts,   \* the WebhookAttempt rows: event and endpoint, unique together
  drainer,    \* drainer -> the event in its hands and the endpoints left to serve
  faults

ovars == <<event, silent, active, missed, attempts, drainer, faults>>

NotDraining == [event |-> {}, left |-> {}]

(* The framework writes the event with the row that caused it. *)
Emit(e, quiet) ==
  /\ event[e] = "none"
  /\ event' = [event EXCEPT ![e] = "undelivered"]
  /\ silent' = [silent EXCEPT ![e] = quiet]
  /\ missed' = [missed EXCEPT ![e] = Endpoints \ active]
  /\ UNCHANGED <<active, attempts, drainer, faults>>

(* Variant: an event that has an attempt is left for handled. *)
DrainTakeUntried(d, e) ==
  /\ drainer[d] = NotDraining
  /\ event[e] = "undelivered" /\ \A p \in Endpoints : <<e, p>> \notin attempts
  /\ drainer' = [drainer EXCEPT ![d] =
       [event |-> {e}, left |-> IF silent[e] THEN {} ELSE active]]
  /\ UNCHANGED <<event, silent, active, missed, attempts, faults>>

(* drain hands an undelivered event over; the subscriber skips what has no event type and
   purged messages, and reads the active endpoints. *)
DrainTake(d, e) ==
  /\ drainer[d] = NotDraining
  /\ event[e] = "undelivered"
  /\ drainer' = [drainer EXCEPT ![d] =
       [event |-> {e}, left |-> IF silent[e] THEN {} ELSE active]]
  /\ UNCHANGED <<event, silent, active, missed, attempts, faults>>

(* An attempt is created for one endpoint; one that is there already is left alone. *)
EnqueueAttempt(d, p) ==
  /\ p \in drainer[d].left
  /\ attempts' = attempts \cup (drainer[d].event \X {p})
  /\ drainer' = [drainer EXCEPT ![d].left = @ \ {p}]
  /\ UNCHANGED <<event, silent, active, missed, faults>>

(* The subscriber is done, and the framework marks the event delivered. *)
DrainMark(d) ==
  /\ drainer[d] # NotDraining /\ drainer[d].left = {}
  /\ event' = [e \in Events |->
       IF e \in drainer[d].event /\ event[e] = "undelivered" THEN "delivered" ELSE event[e]]
  /\ drainer' = [drainer EXCEPT ![d] = NotDraining]
  /\ UNCHANGED <<silent, active, missed, attempts, faults>>

(* Variant: a subscriber that fails is logged, and its event counts as delivered. *)
EnqueueFailsQuietly(d) ==
  /\ drainer[d] # NotDraining /\ faults < MaxFaults
  /\ event' = [e \in Events |->
       IF e \in drainer[d].event /\ event[e] = "undelivered" THEN "delivered" ELSE event[e]]
  /\ drainer' = [drainer EXCEPT ![d] = NotDraining]
  /\ faults' = faults + 1
  /\ UNCHANGED <<silent, active, missed, attempts>>

(* A statement of the subscriber fails, the subscriber panics (panic_isolated) or the
   process dies: the event stays undelivered, with the attempts created so far. *)
EnqueueFails(d) ==
  /\ drainer[d] # NotDraining /\ faults < MaxFaults
  /\ drainer' = [drainer EXCEPT ![d] = NotDraining]
  /\ faults' = faults + 1
  /\ UNCHANGED <<event, silent, active, missed, attempts>>

(* An endpoint is deactivated or activated. *)
ToggleEndpoint(p) ==
  /\ faults < MaxFaults /\ faults' = faults + 1
  /\ active' = IF p \in active THEN active \ {p} ELSE active \cup {p}
  /\ missed' = [e \in Events |-> IF event[e] = "undelivered" THEN missed[e] \cup {p} ELSE missed[e]]
  /\ UNCHANGED <<event, silent, attempts, drainer>>

(* reap_delivered, at some time after the retention; poison rows are only reported. *)
Reap(e) ==
  /\ event[e] = "delivered"
  /\ event' = [event EXCEPT ![e] = "reaped"]
  /\ UNCHANGED <<silent, active, missed, attempts, drainer, faults>>

OInit ==
  /\ event = [e \in Events |-> "none"]
  /\ silent = [e \in Events |-> FALSE]
  /\ active \in SUBSET Endpoints
  /\ missed = [e \in Events |-> {}]
  /\ attempts = {}
  /\ drainer = [d \in Drainers |-> NotDraining]
  /\ faults = 0

Drain(d) ==
  \/ \E e \in Events : DrainTake(d, e)
  \/ \E p \in Endpoints : EnqueueAttempt(d, p)
  \/ DrainMark(d)

OStep ==
  \/ \E d \in Drainers : Drain(d) \/ EnqueueFails(d)
  \/ \E p \in Endpoints : ToggleEndpoint(p)
  \/ \E e \in Events : Reap(e)

(* No event is lost between its message and its endpoints: one that is delivered or reaped
   has an attempt for every endpoint that was active from the moment it was written,
   whatever failed, died or ran twice on the way, and one of a purged message has none
   (enqueue_message_webhook_attempts in webhooks.rs, tick in drain.rs, reap_delivered in
   reap_outbox.rs). *)
NoEventLost ==
  \A e \in Events :
     /\ event[e] \in {"delivered", "reaped"} /\ ~silent[e] =>
          \A p \in Endpoints \ missed[e] : <<e, p>> \in attempts
     /\ silent[e] => \A p \in Endpoints : <<e, p>> \notin attempts
=============================================================================
