-------------------------------- MODULE Hooks --------------------------------
(***************************************************************************)
(* Webhook delivery: an event makes one attempt row per subscribed         *)
(* endpoint, the hooks role claims due attempts, posts them and writes     *)
(* what came of it to the attempt and then to the endpoint, whose circuit  *)
(* breaker holds its attempts back; operators replay attempts, switch an   *)
(* endpoint's delivery mode and (de)activate it.                           *)
(*   sms-worker/src/hooks.rs, breaker.rs, claim.rs (WebhookAttempt),       *)
(*   sms-api/src/webhooks.rs, procedures.rs.                               *)
(*                                                                         *)
(* Versions.  Both tables are written with if_match(version), so a write   *)
(* takes effect exactly when nobody wrote the row since the writer read    *)
(* it.  copy[w] is the set of attempts worker w has an up-to-date copy of, *)
(* epCopy[w] whether its copy of the current attempt's endpoint is.        *)
(*                                                                         *)
(* Time.  nextAttemptAt, leaseUntil and circuitOpenUntil are ticks left,   *)
(* clipped where the code no longer tells the values apart: wait = 0 is    *)
(* due, lease = -1 NULL or past, open = 0 past and open = -1 NULL (the two *)
(* differ in needs_reset).  Rows that are due are taken in any order,      *)
(* where the code takes the oldest first.                                  *)
(***************************************************************************)
EXTENDS Integers, Sequences, FiniteSets

CONSTANTS
    Attempts,        \* WebhookAttempt ids: (endpoint, message, event type)
    Endpoints,       \* WebhookEndpoint ids
    EndpointOf,      \* WebhookAttempt.endpointId
    BadPayload,      \* attempts whose payload does not parse
    Workers,         \* processes that run the hooks role
    Serves,          \* the delivery modes each of them serves (ServedModes)
    HmacPermitted,   \* whether auth.methods permits hmac_webhooks
    Budget,          \* BUDGET
    MaxAttempts,     \* WebhookEndpoint.maxAttempts
    Threshold,       \* ENDPOINT_BREAKER.failure_threshold
    OpenDuration,    \* ENDPOINT_BREAKER.open_duration, in ticks
    Backoff,         \* BACKOFF_SCHEDULE, in ticks
    HooksLease,      \* HOOKS_LEASE, in ticks
    RequestTimeout,  \* REQUEST_TIMEOUT, in ticks
    MaxFaults,       \* bound: faults and stalls in a behaviour
    MaxOps           \* bound: operators' actions in a behaviour

Modes == {"hmac", "sealed"}

ASSUME AttemptsAssumption ==
    /\ IsFiniteSet(Attempts) /\ BadPayload \subseteq Attempts
    /\ EndpointOf \in [Attempts -> Endpoints]
ASSUME ServesAssumption ==
    /\ Serves \in [Workers -> SUBSET Modes] /\ HmacPermitted \in BOOLEAN
    /\ \A w \in Workers : "hmac" \in Serves[w] => HmacPermitted
ASSUME HooksBoundsAssumption ==
    /\ Budget \in Nat \ {0} /\ MaxAttempts \in Nat \ {0} /\ Threshold \in Nat \ {0}
    /\ OpenDuration \in Nat /\ Backoff \in Seq(Nat) /\ Len(Backoff) > 0
    /\ HooksLease \in Nat /\ RequestTimeout \in Nat \ {0}
    /\ MaxFaults \in Nat /\ MaxOps \in Nat

VARIABLES
    att,      \* the webhook_attempts table
    ep,       \* the webhook_endpoints table
    pc,       \* where a worker is in its tick
    todo,     \* candidates it has not tried to lease yet
    claimed,  \* attempts it leased and has not finished with
    copy,     \* attempts it has an up-to-date copy of
    cur,      \* the attempt being delivered, as a set of at most one
    epCopy,   \* whether its copy of that attempt's endpoint is up to date
    outcome,  \* what the delivery came to
    age,      \* ticks since the claim, or deliver_one, read the clock
    sends,    \* ghost: deliveries tried since the attempt was made or replayed
    faults,   \* faults so far
    ops       \* operators' actions so far

workerVars == <<pc, todo, claimed, copy, cur, epCopy, outcome, age>>
vars == <<att, ep, workerVars, sends, faults, ops>>

Up(t, ceiling) == IF t < ceiling THEN t + 1 ELSE t
Down(t, floor) == IF t > floor THEN t - 1 ELSE t

Fault == faults < MaxFaults /\ faults' = faults + 1
Operator == ops < MaxOps /\ ops' = ops + 1

\* What is left of a span of t ticks that began when worker w read the clock.
Left(w, t, floor) == IF t - age[w] > floor THEN t - age[w] ELSE floor

-----------------------------------------------------------------------------
(* The two tables.                                                         *)

NoAttempt == [state |-> "none", attempts |-> 0, lease |-> -1, wait |-> 0]
AttemptState == {"none", "pending", "delivering", "succeeded", "failed", "dead"}
NewEndpoint == [active |-> TRUE, mode |-> "hmac", failures |-> 0, open |-> -1]

\* An update of attempt a by worker w, whose copy is up to date: everybody
\* else's copy no longer is.  Variant: no if_match.
WriteAttemptUnguarded(w, a, new) ==
    /\ att' = [att EXCEPT ![a] = new]
    /\ UNCHANGED copy

WriteAttempt(w, a, new) ==
    /\ att' = [att EXCEPT ![a] = new]
    /\ copy' = [v \in Workers |-> IF v = w /\ new.state = "delivering"
                                  THEN copy[v] ELSE copy[v] \ {a}]

\* The same for an endpoint.
Reading(w, e) == \E a \in cur[w] : EndpointOf[a] = e

WriteEndpoint(e, new) ==
    /\ ep' = [ep EXCEPT ![e] = new]
    /\ epCopy' = [v \in Workers |-> epCopy[v] /\ ~Reading(v, e)]

\* enqueue_message_webhook_attempts, for one subscribed endpoint; with the
\* dedupe index a second event of the same type for the message adds nothing.
Enqueue(a) ==
    /\ att[a].state = "none"
    /\ ep[EndpointOf[a]].active
    /\ att' = [att EXCEPT ![a] = [NoAttempt EXCEPT !.state = "pending"]]
    /\ UNCHANGED <<ep, workerVars, sends, faults, ops>>

-----------------------------------------------------------------------------
(* The claim: webhook_candidates, filter_by_endpoint_health, take_lease.   *)

\* ServedModes::can_claim.
CanClaim(w, e) == ep[e].mode \in Serves[w] /\ ep[e].active /\ ep[e].open <= 0

Due == {a \in Attempts : att[a].state \in {"pending", "failed"} /\ att[a].wait = 0}
Lapsed == {a \in Attempts : att[a].state = "delivering" /\ att[a].lease < 0}

\* At most n elements of S, as many as there are.
Choices(S, n) ==
    {T \in SUBSET S : IF Cardinality(S) <= n THEN T = S ELSE Cardinality(T) = n}

\* Variant: the attempts are read in time order whatever their endpoint, and
\* the endpoints looked at afterwards.
BatchesOfAnyEndpoint(w) ==
    UNION {{due \cup lapsed : lapsed \in Choices(Lapsed, Budget - Cardinality(due))}
              : due \in Choices(Due, Budget)}

\* webhook_candidates up to its last step: the endpoints are read first, then
\* the due attempts of those this worker can claim from, then lapsed leases
\* as far as the budget goes.  What changes between those reads is what
\* FilterByHealth looks for.
Batches(w) ==
    LET mine(S) == {a \in S : CanClaim(w, EndpointOf[a])} IN
    UNION {{due \cup lapsed : lapsed \in Choices(mine(Lapsed), Budget - Cardinality(due))}
              : due \in Choices(mine(Due), Budget)}

SelectCandidates(w) ==
    /\ pc[w] = "idle"
    /\ \E batch \in Batches(w) :
         /\ batch # {}
         /\ todo' = [todo EXCEPT ![w] = batch]
         /\ copy' = [copy EXCEPT ![w] = batch]
    /\ pc' = [pc EXCEPT ![w] = "filtering"]
    /\ UNCHANGED <<att, ep, claimed, cur, epCopy, outcome, age, sends, faults, ops>>

\* filter_by_endpoint_health: the endpoints once more, just before the leases.
FilterByHealth(w) ==
    LET healthy == {a \in todo[w] : CanClaim(w, EndpointOf[a])} IN
    /\ pc[w] = "filtering"
    /\ todo' = [todo EXCEPT ![w] = healthy]
    /\ pc' = [pc EXCEPT ![w] = IF healthy = {} THEN "idle" ELSE "claiming"]
    /\ age' = [age EXCEPT ![w] = IF healthy = {} THEN 0 ELSE @]
    /\ UNCHANGED <<att, ep, claimed, copy, cur, epCopy, outcome, sends, faults, ops>>

\* take_lease: a lapsed lease is renewed and its attempt not counted again.
LeaseWrite(r, left) ==
    [r EXCEPT !.state = "delivering", !.lease = left,
              !.attempts = IF r.state = "delivering" THEN @ ELSE @ + 1]

TakeLease(w) ==
    /\ pc[w] = "claiming"
    /\ \E a \in todo[w] :
         LET rest == todo[w] \ {a} IN
         /\ \/ /\ a \in copy[w]
               /\ WriteAttempt(w, a, LeaseWrite(att[a], Left(w, HooksLease, -1)))
               /\ claimed' = [claimed EXCEPT ![w] = @ \cup {a}]
            \/ a \notin copy[w] /\ UNCHANGED <<att, copy, claimed>>
         /\ todo' = [todo EXCEPT ![w] = rest]
         /\ pc' = [pc EXCEPT ![w] = IF rest # {} THEN "claiming"
                                    ELSE IF claimed'[w] = {} THEN "idle" ELSE "delivering"]
         /\ age' = [age EXCEPT ![w] = IF rest # {} THEN @ ELSE 0]
    /\ UNCHANGED <<ep, cur, epCopy, outcome, sends, faults, ops>>

-----------------------------------------------------------------------------
(* deliver_claimed: deliver_one for each claimed attempt.                  *)

\* The worker is done with the attempts of done; the next turn of the loop.
NextAttempt(w, done) ==
    /\ claimed' = [claimed EXCEPT ![w] = @ \ done]
    /\ cur' = [cur EXCEPT ![w] = {}]
    /\ outcome' = [outcome EXCEPT ![w] = "none"]
    /\ age' = [age EXCEPT ![w] = 0]
    /\ pc' = [pc EXCEPT ![w] = IF claimed[w] \subseteq done THEN "idle" ELSE "delivering"]
    /\ UNCHANGED todo

\* The request goes out; or the stored payload makes none.
Send(w, a) ==
    /\ IF a \in BadPayload
       THEN /\ outcome' = [outcome EXCEPT ![w] = "MalformedPayload"]
            /\ pc' = [pc EXCEPT ![w] = "answered"]
            /\ UNCHANGED sends
       ELSE /\ sends' = [sends EXCEPT ![a] = Up(@, MaxAttempts)]
            /\ pc' = [pc EXCEPT ![w] = "sending"]
            /\ UNCHANGED outcome
    /\ cur' = [cur EXCEPT ![w] = {a}]
    /\ epCopy' = [epCopy EXCEPT ![w] = TRUE]
    /\ UNCHANGED <<claimed, todo, age>>

\* Variant: a mode the worker does not serve counts as a failed delivery.
FetchEndpointBlamesMode(w) ==
    /\ pc[w] = "delivering"
    /\ \E a \in claimed[w] :
         IF ep[EndpointOf[a]].mode \in Serves[w] THEN Send(w, a)
         ELSE /\ outcome' = [outcome EXCEPT ![w] = "Retryable"]
              /\ pc' = [pc EXCEPT ![w] = "answered"]
              /\ cur' = [cur EXCEPT ![w] = {a}]
              /\ epCopy' = [epCopy EXCEPT ![w] = TRUE]
              /\ UNCHANGED <<claimed, todo, age, sends>>
    /\ UNCHANGED <<att, ep, copy, faults, ops>>

\* deliver_one up to the request.  An attempt whose endpoint was switched to
\* a mode this worker does not serve is left for one that does.
FetchEndpoint(w) ==
    /\ pc[w] = "delivering"
    /\ \E a \in claimed[w] :
         IF ep[EndpointOf[a]].mode \in Serves[w]
         THEN Send(w, a)
         ELSE NextAttempt(w, {a}) /\ UNCHANGED <<epCopy, sends>>
    /\ UNCHANGED <<att, ep, copy, faults, ops>>

\* A 2xx, a 410, or anything else: another status, no answer within
\* REQUEST_TIMEOUT, a request that could not be built.
Answer(w) ==
    /\ pc[w] = "sending"
    /\ \E o \in {"Success", "Gone", "Retryable"} : outcome' = [outcome EXCEPT ![w] = o]
    /\ pc' = [pc EXCEPT ![w] = "answered"]
    /\ UNCHANGED <<att, ep, todo, claimed, copy, cur, epCopy, age, sends, faults, ops>>

\* backoff_for.
BackoffFor(attempts) ==
    LET index == IF attempts < 1 THEN 1 ELSE attempts IN
    Backoff[IF index <= Len(Backoff) THEN index ELSE Len(Backoff)]

\* The attempt's half of write_outcome, left being what remains of the
\* backoff.
Ended(r, state) == [r EXCEPT !.state = state, !.lease = -1]

AttemptWrite(r, o, left) ==
    CASE o = "Success" -> Ended(r, "succeeded")
      [] o = "Retryable" /\ r.attempts < MaxAttempts -> [Ended(r, "failed") EXCEPT !.wait = left]
      [] OTHER -> Ended(r, "dead")

\* write_succeeded, write_failed_retry, write_dead: on an up-to-date copy; a
\* reclaimed attempt keeps what its new worker makes of it.
RecordAttempt(w) ==
    /\ pc[w] = "answered"
    /\ \E a \in cur[w] :
         \/ /\ a \in copy[w]
            /\ WriteAttempt(w, a, AttemptWrite(att[a], outcome[w],
                                  Left(w, BackoffFor(att[a].attempts), 0)))
         \/ a \notin copy[w] /\ UNCHANGED <<att, copy>>
    /\ pc' = [pc EXCEPT ![w] = "booking"]
    /\ UNCHANGED <<ep, todo, claimed, cur, epCopy, outcome, age, sends, faults, ops>>

\* breaker::on_failure, with the write of record_endpoint_failure.
OnFailure(e, left) ==
    IF e.failures + 1 >= Threshold
    THEN [e EXCEPT !.failures = 0, !.open = left]
    ELSE [e EXCEPT !.failures = @ + 1]

\* The endpoint's half of write_outcome, left being what remains of
\* open_duration.
EndpointWrite(e, o, left) ==
    CASE o = "Success" -> [e EXCEPT !.failures = 0, !.open = -1]
      [] o = "Gone" -> [e EXCEPT !.active = FALSE]
      [] o = "Retryable" -> OnFailure(e, left)
      [] o = "MalformedPayload" -> e

\* reset_endpoint_failures (skipped when there is nothing to reset),
\* deactivate_endpoint, record_endpoint_failure: one try, dropped if somebody
\* wrote the endpoint since it was read.
RecordEndpoint(w) ==
    /\ pc[w] = "booking"
    /\ \E a \in cur[w] :
         LET e == EndpointOf[a]
             new == EndpointWrite(ep[e], outcome[w], Left(w, OpenDuration, 0)) IN
         IF epCopy[w] /\ (new # ep[e] \/ outcome[w] \in {"Gone", "Retryable"})
         THEN WriteEndpoint(e, new)
         ELSE UNCHANGED <<ep, epCopy>>
    /\ NextAttempt(w, cur[w])
    /\ UNCHANGED <<att, copy, sends, faults, ops>>

\* A read of the endpoint or a write of the outcome fails: logged, the worker
\* goes on, the attempt stays delivering until its lease lapses.
FetchFails(w) ==
    /\ pc[w] = "delivering"
    /\ Fault
    /\ \E a \in claimed[w] : NextAttempt(w, {a})
    /\ UNCHANGED <<att, ep, copy, epCopy, sends, ops>>

RecordFails(w) ==
    /\ pc[w] \in {"answered", "booking"}
    /\ Fault
    /\ IF pc[w] = "answered"
       THEN /\ pc' = [pc EXCEPT ![w] = "booking"]
            /\ UNCHANGED <<todo, claimed, cur, outcome, age>>
       ELSE NextAttempt(w, cur[w])
    /\ UNCHANGED <<att, ep, copy, epCopy, sends, ops>>

\* The process dies, shutdown drops the role's future, or a claim fails.
Stop(w) ==
    /\ pc[w] # "idle"
    /\ Fault
    /\ pc' = [pc EXCEPT ![w] = "idle"]
    /\ todo' = [todo EXCEPT ![w] = {}]
    /\ claimed' = [claimed EXCEPT ![w] = {}]
    /\ copy' = [copy EXCEPT ![w] = {}]
    /\ cur' = [cur EXCEPT ![w] = {}]
    /\ epCopy' = [epCopy EXCEPT ![w] = FALSE]
    /\ outcome' = [outcome EXCEPT ![w] = "none"]
    /\ age' = [age EXCEPT ![w] = 0]
    /\ UNCHANGED <<att, ep, sends, ops>>

-----------------------------------------------------------------------------
(* Operators.                                                              *)

\* replay_attempt, one transaction: the attempt starts afresh and so does the
\* endpoint's breaker.  Not while nobody may deliver its mode.
ReplayWebhookAttempt(a) ==
    LET e == EndpointOf[a] IN
    /\ Operator
    /\ att[a].state \in {"failed", "dead"}
    /\ HmacPermitted \/ ep[e].mode # "hmac"
    /\ att' = [att EXCEPT ![a] = [NoAttempt EXCEPT !.state = "pending"]]
    /\ copy' = [w \in Workers |-> copy[w] \ {a}]
    /\ sends' = [sends EXCEPT ![a] = 0]
    /\ IF ep[e].failures # 0 \/ ep[e].open # -1
       THEN WriteEndpoint(e, [ep[e] EXCEPT !.failures = 0, !.open = -1])
       ELSE UNCHANGED <<ep, epCopy>>
    /\ UNCHANGED <<pc, todo, claimed, cur, outcome, age, faults>>

\* switch_mode: never to the mode it is in, to hmac only while permitted.
SwitchWebhookDeliveryMode(e, mode) ==
    /\ Operator
    /\ mode # ep[e].mode
    /\ mode = "hmac" => HmacPermitted
    /\ WriteEndpoint(e, [ep[e] EXCEPT !.mode = mode])
    /\ UNCHANGED <<att, pc, todo, claimed, copy, cur, outcome, age, sends, faults>>

\* PATCH of the endpoint: (de)activation, or a column no worker decides on.
PatchEndpoint(e, active) ==
    /\ Operator
    /\ WriteEndpoint(e, [ep[e] EXCEPT !.active = active])
    /\ UNCHANGED <<att, pc, todo, claimed, copy, cur, outcome, age, sends, faults>>

-----------------------------------------------------------------------------
(* Time.                                                                   *)

\* Time passes; no request outlasts its timeout.
TimePasses ==
    /\ \A w \in Workers : pc[w] = "sending" => age[w] < RequestTimeout
    /\ att' = [a \in Attempts |->
                 [att[a] EXCEPT !.lease = Down(@, -1), !.wait = Down(@, 0)]]
    /\ ep' = [e \in Endpoints |->
                [ep[e] EXCEPT !.open = IF @ = -1 THEN @ ELSE Down(@, 0)]]
    /\ age' = [w \in Workers |-> IF pc[w] \in {"idle", "delivering"} THEN 0 ELSE age[w] + 1]
    /\ UNCHANGED <<pc, todo, claimed, copy, cur, epCopy, outcome, sends, ops>>

\* A worker spends its time between polls and in requests; a tick anywhere
\* else (a slow database, a process that gets no CPU) counts as a fault.
Stalled == \E w \in Workers : pc[w] \notin {"idle", "sending"}

Tick == ~Stalled /\ TimePasses /\ UNCHANGED faults
Stall == Stalled /\ Fault /\ TimePasses

Init ==
    /\ att = [a \in Attempts |-> NoAttempt]
    /\ ep \in [Endpoints -> {[NewEndpoint EXCEPT !.mode = m] : m \in Modes}]
    /\ pc = [w \in Workers |-> "idle"]
    /\ todo = [w \in Workers |-> {}]
    /\ claimed = [w \in Workers |-> {}]
    /\ copy = [w \in Workers |-> {}]
    /\ cur = [w \in Workers |-> {}]
    /\ epCopy = [w \in Workers |-> FALSE]
    /\ outcome = [w \in Workers |-> "none"]
    /\ age = [w \in Workers |-> 0]
    /\ sends = [a \in Attempts |-> 0]
    /\ faults = 0
    /\ ops = 0

WorkerStep(w) ==
    \/ SelectCandidates(w) \/ FilterByHealth(w) \/ TakeLease(w) \/ FetchEndpoint(w)
    \/ Answer(w) \/ RecordAttempt(w) \/ RecordEndpoint(w)

Next ==
    \/ \E w \in Workers : WorkerStep(w) \/ FetchFails(w) \/ RecordFails(w) \/ Stop(w)
    \/ \E a \in Attempts : Enqueue(a) \/ ReplayWebhookAttempt(a)
    \/ \E e \in Endpoints : \/ \E m \in Modes : SwitchWebhookDeliveryMode(e, m)
                            \/ \E b \in BOOLEAN : PatchEndpoint(e, b)
    \/ Tick \/ Stall

Spec == Init /\ [][Next]_vars

(* Fairness.  The role polls every second, a request ends (the client has a *)
(* timeout) and time passes.  Nothing makes an endpoint answer 2xx.         *)
Fairness == WF_vars(Tick) /\ \A w \in Workers : WF_vars(WorkerStep(w))

FairSpec == Spec /\ Fairness

-----------------------------------------------------------------------------
(* Properties.                                                             *)

TypeOK ==
    /\ att \in [Attempts -> [state : AttemptState, attempts : Nat, lease : Int, wait : Nat]]
    /\ ep \in [Endpoints -> [active : BOOLEAN, mode : Modes, failures : Nat, open : Int]]
    /\ pc \in [Workers -> {"idle", "filtering", "claiming", "delivering", "sending",
                           "answered", "booking"}]
    /\ todo \in [Workers -> SUBSET Attempts]
    /\ claimed \in [Workers -> SUBSET Attempts]
    /\ copy \in [Workers -> SUBSET Attempts]
    /\ cur \in [Workers -> SUBSET Attempts]
    /\ epCopy \in [Workers -> BOOLEAN]
    /\ outcome \in [Workers -> {"none", "Success", "Gone", "Retryable", "MalformedPayload"}]
    /\ age \in [Workers -> Nat]
    /\ sends \in [Attempts -> Nat]
    /\ faults \in 0..MaxFaults
    /\ ops \in 0..MaxOps

\* Of the workers that deliver an attempt at the same time, at most one can
\* still record what came of it (take_lease's compare-and-swap, write_*'s
\* if_match).
Owns(w, a) == a \in claimed[w] \cap copy[w]

OneOutcomePerDelivery ==
    \A a \in Attempts : \A v, w \in Workers : Owns(v, a) /\ Owns(w, a) => v = w

\* No attempt is used up without a delivery: a row that failed or was given
\* up has been tried as often as it counts, although leases lapse, workers
\* die and endpoints change mode between the claim and the delivery
\* (deliver_one: "a failure written here would be a lie"). A delivery that could
\* not be built or sealed counts as tried, as in the code (Outcome::Retryable).
CountedMeansSent ==
    \A a \in Attempts \ BadPayload :
        att[a].state \in {"failed", "dead"} => sends[a] >= att[a].attempts

\* Nothing is lost behind a breaker, a dead worker or another endpoint's
\* backlog: the attempts of an endpoint that ends up active, in a mode some
\* worker serves, are settled (webhook_candidates; architecture.md 8.5: "Rows
\* are still created as `pending`, so nothing is lost").
Deliverable(e) == ep[e].active /\ \E w \in Workers : ep[e].mode \in Serves[w]

BacklogDrains ==
    \A a \in Attempts :
        <>[]Deliverable(EndpointOf[a])
          => (att[a].state # "none" ~> att[a].state \in {"succeeded", "dead"})

=============================================================================
