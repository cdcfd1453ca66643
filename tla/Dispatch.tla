------------------------------ MODULE Dispatch ------------------------------
(***************************************************************************)
(* The send path of the gateway: the messages table and everyone who       *)
(* writes it.                                                              *)
(*                                                                         *)
(*   - sendMessage inserts a row (sms-api/src/procedures.rs);              *)
(*   - dispatchers (the dispatch role of sms-worker) read a batch of       *)
(*     candidates, lease them one compare-and-swap at a time, submit the   *)
(*     ones that reached "routed" to a provider, one after the other, and  *)
(*     write back what the provider answered;                              *)
(*   - the gateway applies delivery receipts (sms-api/src/dlr.rs);         *)
(*   - the expire_stale job moves overdue rows to "expired".               *)
(*                                                                         *)
(* Every writer reads a row, decides on that copy, and writes with         *)
(* if_match(version): the write takes effect only if the version has not   *)
(* changed, and then only if message_state_transitions has the edge.       *)
(*                                                                         *)
(* Time.  A timestamp column is kept as the number of ticks left until it  *)
(* (leaseUntil, expiresAt, scheduledAt) or since it (updatedAt), clipped   *)
(* where the code no longer tells the values apart; Tick moves them all.   *)
(* lease = -1 stands for "leaseUntil is NULL or in the past": the two are  *)
(* the same to the only reader of the column, Message::candidates.         *)
(***************************************************************************)
EXTENDS Integers, Sequences, FiniteSets

CONSTANTS
    Messages,        \* row ids; their order is claim order (priority desc, createdAt asc)
    Dispatchers,     \* processes that run the dispatch role
    Receivers,       \* concurrent DLR requests the gateway serves
    Routes,          \* Route ids
    NoRoute,         \* routeId IS NULL
    Providers,       \* Provider ids
    ProviderOf,      \* Route.providerId
    Budget,          \* rows one claim may take (budget_for)
    MaxAttempts,     \* Message.maxAttempts
    MaxHops,         \* MAX_FAILOVER_HOPS
    DispatchLease,   \* DISPATCH_LEASE, in ticks
    RetryBackoff,    \* retry_after of a Transient, UNAVAILABLE_BACKOFF
    DlrBackoff,      \* undelivered_retry_backoff
    Validity,        \* validityMinutes, or default_validity, in ticks
    Delays,          \* how far ahead scheduledAt may be (negative: past; 0: not given)
    UncertainGrace,  \* UNCERTAIN_GRACE
    MaxCrashes,      \* bound: process deaths in a behaviour
    DbFaults         \* whether a write may fail for a reason of its own

ASSUME MessagesAssumption == Messages \subseteq Nat /\ IsFiniteSet(Messages)
ASSUME RoutesAssumption == NoRoute \notin Routes /\ IsFiniteSet(Routes)
ASSUME ProviderOfAssumption == ProviderOf \in [Routes -> Providers]
ASSUME BoundsAssumption ==
    /\ Budget \in Nat \ {0} /\ MaxAttempts \in Nat \ {0} /\ MaxHops \in Nat
    /\ DispatchLease \in Nat /\ RetryBackoff \in Nat /\ DlrBackoff \in Nat
    /\ Validity \in Nat \ {0} /\ Delays \subseteq Int /\ UncertainGrace \in Nat
    /\ MaxCrashes \in Nat /\ DbFaults \in BOOLEAN

VARIABLES
    rows,     \* the messages table
    pc,       \* where a dispatcher is in its tick
    stale,    \* ticks since the dispatcher's claim_batch read the clock
    todo,     \* candidates it has not tried to lease yet
    claimed,  \* rows it leased as "routed" and has not finished with
    snap,     \* its copy of each of those rows
    answer,   \* what the provider answered for the row being submitted
    ack,      \* the provider reference of that submission
    sent,     \* ghost: per message, the providers that accepted it, in order
    refuted,  \* ghost: submissions of a message a receipt reported as failed
    dlr,      \* what each receiver read and is about to write
    expiring, \* rows expire_stale selected, with the version it read (0: none)
    crashes,  \* process deaths so far
    sm001     \* whether the trigger ever refused an edge

rowVars == <<rows, sm001>>
workerVars == <<pc, stale, todo, claimed, snap, answer, ack>>
vars == <<rows, pc, stale, todo, claimed, snap, answer, ack, sent, refuted,
          dlr, expiring, crashes, sm001>>

-----------------------------------------------------------------------------
(* The messages table and its trigger.                                     *)

Claimable == {"accepted", "queued", "routed", "undelivered"}
Terminal == {"delivered", "failed", "expired", "rejected", "cancelled"}
MessageState == Claimable \cup {"submitted", "uncertain"} \cup Terminal

\* message_state_transitions: every edge the trigger lets through.
Edges ==
    ({"accepted"} \X {"queued", "rejected", "cancelled", "expired"}) \cup
    ({"queued"} \X {"routed", "cancelled", "expired", "failed"}) \cup
    ({"routed"} \X {"submitted", "queued", "failed", "expired", "cancelled", "uncertain"}) \cup
    ({"submitted"} \X {"delivered", "uncertain", "undelivered", "failed", "expired"}) \cup
    ({"uncertain"} \X {"delivered", "failed", "expired"}) \cup
    ({"undelivered"} \X {"queued", "failed", "expired"})

\* messages_guard_transition.
Permitted(from, to) == from = to \/ <<from, to>> \in Edges

\* A row that sendMessage has not inserted yet; also the blank copy.
NoRow == [state |-> "none", version |-> 0, attempts |-> 0, lease |-> -1,
          expires |-> 0, wait |-> 0, idle |-> 0, route |-> NoRoute,
          excluded |-> {}, ref |-> 0]

Row == [state : MessageState \cup {"none"}, version : Nat, attempts : Nat,
        lease : Int, expires : Nat, wait : Nat, idle : Nat,
        route : Routes \cup {NoRoute}, excluded : SUBSET Routes, ref : Nat]

\* .update(id).set(..).if_match(version).run(): the row is written when the
\* version still matches and the trigger allows the edge; the version moves
\* and updatedAt is touched.  A refused edge is recorded in sm001.
\* CasWinsUnguarded: the variant without if_match.
CasWinsUnguarded(m, version) == rows[m].version >= version

CasWins(m, version) == rows[m].version = version

\* The version column and the touch_updated_at trigger.
Touched(new, version) == [new EXCEPT !.version = version + 1, !.idle = 0]

Write(m, version, new) ==
    IF CasWins(m, version)
    THEN IF Permitted(rows[m].state, new.state)
         THEN rows' = [rows EXCEPT ![m] = Touched(new, version)] /\ UNCHANGED sm001
         ELSE sm001' = TRUE /\ UNCHANGED rows
    ELSE UNCHANGED rowVars

\* m is the first row of S in claim order.
First(S, m) == m \in S /\ \A k \in S : m <= k
Clip(t) == IF t < -1 THEN -1 ELSE t

-----------------------------------------------------------------------------
(* sendMessage: the insert at the end of the procedure.  The checks before *)
(* it (permission, opt-out, consent, quota, sender, idempotency key) read  *)
(* tables the model leaves out: they refuse, and no row is made, or not.   *)
(* scheduledAt is not compared with the clock: it may be long past, and    *)
(* with it expiresAt.                                                      *)

Remaining(t) == IF t > 0 THEN t ELSE 0

SendMessage(m) ==
    /\ rows[m].state = "none"
    /\ \E delay \in Delays :
         rows' = [rows EXCEPT ![m] = [NoRow EXCEPT !.state = "accepted", !.version = 1,
                                                   !.wait = Remaining(delay),
                                                   !.expires = Remaining(delay + Validity)]]
    /\ UNCHANGED <<sm001, workerVars, sent, refuted, dlr, expiring, crashes>>

-----------------------------------------------------------------------------
(* The routing decision.  Which routes are eligible depends on operators'  *)
(* edits and on provider health, both of which change at any moment: any   *)
(* route outside the excluded ones may win, or none.                       *)

Decide(exclude) == (Routes \ exclude) \cup {NoRoute}

-----------------------------------------------------------------------------
(* The claim: Message::candidates and Message::take_lease.                 *)

Candidates ==
    {m \in Messages : /\ rows[m].state \in Claimable
                      /\ rows[m].expires > 0
                      /\ rows[m].wait = 0
                      /\ rows[m].lease < 0}

FirstOf(S, n) == {m \in S : Cardinality({k \in S : k < m}) < n}

ReadCandidates(w) ==
    LET batch == FirstOf(Candidates, Budget) IN
    /\ pc[w] = "idle"
    /\ batch # {}
    /\ pc' = [pc EXCEPT ![w] = "claiming"]
    /\ stale' = [stale EXCEPT ![w] = 0]
    /\ todo' = [todo EXCEPT ![w] = batch]
    /\ snap' = [snap EXCEPT ![w] = [m \in Messages |-> IF m \in batch THEN rows[m] ELSE NoRow]]
    /\ UNCHANGED <<rowVars, claimed, answer, ack, sent, refuted, dlr, expiring, crashes>>

\* apply_routing_decision: queued on the winning route, or rejected.
RoutingWrites(r, late) ==
    {IF win = NoRoute
     THEN [r EXCEPT !.state = "rejected", !.lease = Clip(-late)]
     ELSE [r EXCEPT !.state = "queued", !.route = win, !.lease = Clip(-late)]
        : win \in Decide({})}

\* fail_max_attempts.
FailMaxAttempts(r, late) == [r EXCEPT !.state = "failed", !.lease = Clip(-late)]

\* Variant: the attempts cap is off by one.
LeaseWritesOffByOne(s, r, late) ==
    CASE s.state = "accepted" -> RoutingWrites(r, late)
      [] s.state \in {"queued", "undelivered"} /\ s.attempts > MaxAttempts ->
            {FailMaxAttempts(r, late)}
      [] s.state = "undelivered" /\ s.attempts <= MaxAttempts ->
            {[r EXCEPT !.state = "queued", !.lease = Clip(-late)]}
      [] s.state = "queued" /\ s.attempts <= MaxAttempts ->
            {[r EXCEPT !.state = "routed", !.attempts = s.attempts + 1,
                       !.lease = Clip(DispatchLease - late)]}
      [] s.state = "routed" ->
            {[r EXCEPT !.state = "routed", !.lease = Clip(DispatchLease - late)]}

\* take_lease: what it writes, from the copy s it decides on.  r is the row
\* the UPDATE meets, late the age of the batch's clock reading.
LeaseWrites(s, r, late) ==
    CASE s.state = "accepted" -> RoutingWrites(r, late)
      [] s.state = "queued" /\ s.attempts >= MaxAttempts -> {FailMaxAttempts(r, late)}
      [] s.state = "queued" /\ s.attempts < MaxAttempts ->
            {[r EXCEPT !.state = "routed", !.attempts = s.attempts + 1,
                       !.lease = Clip(DispatchLease - late)]}
      [] s.state = "routed" ->
            {[r EXCEPT !.state = "routed", !.lease = Clip(DispatchLease - late)]}
      [] s.state = "undelivered" /\ s.attempts >= MaxAttempts -> {FailMaxAttempts(r, late)}
      [] s.state = "undelivered" /\ s.attempts < MaxAttempts ->
            {[r EXCEPT !.state = "queued", !.lease = Clip(-late)]}

\* One turn of lease_candidates' loop.  A lost race is skipped; a row that
\* came back "routed" is kept, in its new version, for submission.
TakeLease(w) ==
    /\ pc[w] = "claiming"
    /\ \E m \in Messages :
         LET old == snap[w][m]
             rest == todo[w] \ {m} IN
         /\ First(todo[w], m)
         /\ \E new \in LeaseWrites(old, rows[m], stale[w]) :
              LET won == CasWins(m, old.version) /\ new.state = "routed" IN
              /\ Write(m, old.version, new)
              /\ claimed' = [claimed EXCEPT ![w] = IF won THEN @ \cup {m} ELSE @]
              /\ snap' = [snap EXCEPT ![w][m] = IF won THEN rows'[m] ELSE NoRow]
         /\ todo' = [todo EXCEPT ![w] = rest]
         /\ pc' = [pc EXCEPT ![w] = IF rest # {} THEN "claiming"
                                    ELSE IF claimed'[w] = {} THEN "idle" ELSE "submitting"]
         /\ stale' = [stale EXCEPT ![w] = IF rest # {} THEN @ ELSE 0]
    /\ UNCHANGED <<answer, ack, sent, refuted, dlr, expiring, crashes>>

\* Any other error aborts claim_batch: the rows already leased are dropped
\* with it and wait for their lease to lapse.
Reset(w) ==
    /\ pc' = [pc EXCEPT ![w] = "idle"]
    /\ stale' = [stale EXCEPT ![w] = 0]
    /\ todo' = [todo EXCEPT ![w] = {}]
    /\ claimed' = [claimed EXCEPT ![w] = {}]
    /\ snap' = [snap EXCEPT ![w] = [m \in Messages |-> NoRow]]
    /\ answer' = [answer EXCEPT ![w] = "none"]
    /\ ack' = [ack EXCEPT ![w] = 0]

ClaimAborts(w) ==
    /\ DbFaults
    /\ pc[w] = "claiming"
    /\ Reset(w)
    /\ UNCHANGED <<rowVars, sent, refuted, dlr, expiring, crashes>>

-----------------------------------------------------------------------------
(* submit_one: the provider call and the write of its outcome.             *)

Submit(w) ==
    /\ pc[w] = "submitting"
    /\ pc' = [pc EXCEPT ![w] = "calling"]
    /\ UNCHANGED <<rowVars, stale, todo, claimed, snap, answer, ack, sent, refuted,
                   dlr, expiring, crashes>>

\* The provider takes the message: from here on it may be delivered, whatever
\* the dispatcher gets to know of it.
ProviderAccepts(w) ==
    /\ pc[w] = "calling"
    /\ \E m \in Messages :
         /\ First(claimed[w], m)
         /\ sent' = [sent EXCEPT ![m] = Append(@, ProviderOf[snap[w][m].route])]
         /\ ack' = [ack EXCEPT ![w] = Len(sent[m]) + 1]
    /\ pc' = [pc EXCEPT ![w] = "accepted"]
    /\ UNCHANGED <<rowVars, stale, todo, claimed, snap, answer, refuted, dlr, expiring,
                   crashes>>

\* ProviderError, by routing consequence.  Indeterminate is the one answer
\* that leaves open whether the provider took the message.  A message whose
\* provider cannot be resolved is answered "Unavailable", and one without a
\* body "Rejected", without a call.
Refusals == {"Transient", "Unavailable", "Permanent", "Rejected"}
Answers == Refusals \cup {"Ok", "Indeterminate"}

ProviderAnswers(w) ==
    /\ \/ pc[w] = "calling" /\ \E a \in Refusals \cup {"Indeterminate"} :
                                    answer' = [answer EXCEPT ![w] = a]
       \/ pc[w] = "accepted" /\ \E a \in {"Ok", "Indeterminate"} :
                                    answer' = [answer EXCEPT ![w] = a]
    /\ pc' = [pc EXCEPT ![w] = "answered"]
    /\ UNCHANGED <<rowVars, stale, todo, claimed, snap, ack, sent, refuted, dlr, expiring,
                   crashes>>

\* attempt_failover: the routes not to come back to, and the rows it may
\* write (write_failover).  Empty: the hops are used up or no route is left.
Tried(s) == s.excluded \cup ({s.route} \ {NoRoute})

Reroutes(s, r) ==
    IF Cardinality(Tried(s)) > MaxHops THEN {}
    ELSE {[r EXCEPT !.state = "queued", !.route = win, !.excluded = Tried(s), !.lease = 0]
             : win \in Decide(Tried(s)) \ {NoRoute}}

\* Variant: the reference is not stored.
SettlesNoReference(r, a, ref) ==
    CASE a = "Ok" -> [r EXCEPT !.state = "submitted"]
      [] a \in {"Transient", "Unavailable"} -> [r EXCEPT !.state = "queued", !.lease = RetryBackoff]
      [] a \in {"Permanent", "Rejected"} -> [r EXCEPT !.state = "failed", !.lease = -1]
      [] a = "Indeterminate" -> [r EXCEPT !.state = "uncertain", !.lease = -1]

\* terminal_outcome with write_transition, and write_submitted.
Settles(r, a, ref) ==
    CASE a = "Ok" -> [r EXCEPT !.state = "submitted", !.ref = ref]
      [] a \in {"Transient", "Unavailable"} -> [r EXCEPT !.state = "queued", !.lease = RetryBackoff]
      [] a \in {"Permanent", "Rejected"} -> [r EXCEPT !.state = "failed", !.lease = -1]
      [] a = "Indeterminate" -> [r EXCEPT !.state = "uncertain", !.lease = -1]

\* handle_submit_error: an Unavailable or a Permanent tries the next route
\* first; routing may find none even when one is left.
OutcomeWrites(s, r, a, ref) ==
    {Settles(r, a, ref)} \cup (IF a \in {"Unavailable", "Permanent"} THEN Reroutes(s, r) ELSE {})

\* Variants: the row stays in the batch after an unknown outcome; the end of
\* the batch is missed.
FinishKeepsUnknown(w, m) ==
    /\ claimed' = [claimed EXCEPT ![w] = IF answer[w] = "Indeterminate" THEN @ ELSE @ \ {m}]
    /\ snap' = [snap EXCEPT ![w][m] = IF answer[w] = "Indeterminate" THEN @ ELSE NoRow]
    /\ answer' = [answer EXCEPT ![w] = "none"]
    /\ ack' = [ack EXCEPT ![w] = 0]
    /\ pc' = [pc EXCEPT ![w] = IF claimed'[w] = {} THEN "idle" ELSE "submitting"]
    /\ UNCHANGED <<stale, todo, sent, refuted, dlr, expiring, crashes>>

FinishMissesEnd(w, m) ==
    /\ claimed' = [claimed EXCEPT ![w] = @ \ {m}]
    /\ snap' = [snap EXCEPT ![w][m] = NoRow]
    /\ answer' = [answer EXCEPT ![w] = "none"]
    /\ ack' = [ack EXCEPT ![w] = 0]
    /\ pc' = [pc EXCEPT ![w] = "submitting"]
    /\ UNCHANGED <<stale, todo, sent, refuted, dlr, expiring, crashes>>

\* The end of submit_one for row m, and the next turn of tick's loop.
Finish(w, m) ==
    /\ claimed' = [claimed EXCEPT ![w] = @ \ {m}]
    /\ snap' = [snap EXCEPT ![w][m] = NoRow]
    /\ answer' = [answer EXCEPT ![w] = "none"]
    /\ ack' = [ack EXCEPT ![w] = 0]
    /\ pc' = [pc EXCEPT ![w] = IF claimed[w] = {m} THEN "idle" ELSE "submitting"]
    /\ UNCHANGED <<stale, todo, sent, refuted, dlr, expiring, crashes>>

WriteOutcome(w) ==
    /\ pc[w] = "answered"
    /\ \E m \in Messages :
         LET old == snap[w][m] IN
         /\ First(claimed[w], m)
         /\ \E new \in OutcomeWrites(old, rows[m], answer[w], ack[w]) :
              Write(m, old.version, new)
         /\ Finish(w, m)

\* The routing query or the write itself fails: logged, the row stays as it
\* is and the dispatcher goes on with the next one.
OutcomeLost(w) ==
    /\ DbFaults
    /\ pc[w] = "answered"
    /\ \E m \in Messages : First(claimed[w], m) /\ Finish(w, m)
    /\ UNCHANGED rowVars

\* kill -9, or an eviction: what the process knew is gone, what it wrote stays.
Crash(w) ==
    /\ crashes < MaxCrashes
    /\ pc[w] # "idle"
    /\ crashes' = crashes + 1
    /\ Reset(w)
    /\ UNCHANGED <<rowVars, sent, refuted, dlr, expiring>>

-----------------------------------------------------------------------------
(* Delivery receipts.                                                      *)

\* Variant: a retryable failure of an uncertain message makes it undelivered.
DlrEdgesRetryUncertain ==
    {<<"submitted", "Delivered", "delivered">>, <<"submitted", "Uncertain", "uncertain">>,
     <<"submitted", "Failed", "undelivered">>, <<"uncertain", "Failed", "undelivered">>}

\* next_state, as the triples (current, outcome, target) where it answers
\* Some; InFlight and Unknown never move a message.
DlrEdges ==
    {<<"submitted", "Delivered", "delivered">>, <<"submitted", "Uncertain", "uncertain">>,
     <<"submitted", "Expired", "expired">>, <<"submitted", "Rejected", "failed">>,
     <<"submitted", "Failed", "undelivered">>,
     <<"uncertain", "Delivered", "delivered">>, <<"uncertain", "Expired", "expired">>,
     <<"uncertain", "Rejected", "failed">>, <<"uncertain", "Failed", "failed">>,
     <<"undelivered", "Expired", "expired">>, <<"undelivered", "Rejected", "failed">>}

NoDlr == [target |-> "none", msg |-> 0, version |-> 0]

\* ingest_one up to its write: find the message by (providerId, reference),
\* record the receipt, decide.  A receipt may come at any time after the
\* provider took the message, any number of times, in any order.  One that
\* finds no message, or no state to move to, changes nothing here.
ReadReceipt(h) ==
    /\ dlr[h] = NoDlr
    /\ \E m \in Messages, edge \in DlrEdges :
         LET k == rows[m].ref IN
         /\ k \in DOMAIN sent[m]
         /\ rows[m].route \in Routes
         /\ sent[m][k] = ProviderOf[rows[m].route]
         /\ edge[1] = rows[m].state
         /\ dlr' = [dlr EXCEPT ![h] = [target |-> edge[3], msg |-> m,
                                       version |-> rows[m].version]]
    /\ UNCHANGED <<rowVars, workerVars, sent, refuted, expiring, crashes>>

\* The write: only "undelivered" gets a new leaseUntil.  A lost race is
\* logged and the receipt is not applied.
ReceiptWrite(r, target) ==
    [r EXCEPT !.state = target, !.lease = IF target = "undelivered" THEN DlrBackoff ELSE @]

ApplyReceipt(h) ==
    LET m == dlr[h].msg
        target == dlr[h].target IN
    /\ dlr[h] # NoDlr
    /\ Write(m, dlr[h].version, ReceiptWrite(rows[m], target))
    /\ refuted' = [refuted EXCEPT ![m] =
                     IF CasWins(m, dlr[h].version) /\ target = "undelivered"
                     THEN @ \cup {rows[m].ref} ELSE @]
    /\ dlr' = [dlr EXCEPT ![h] = NoDlr]
    /\ UNCHANGED <<workerVars, sent, expiring, crashes>>

\* The gateway fails between the read and the write.
DropReceipt(h) ==
    /\ DbFaults
    /\ dlr[h] # NoDlr
    /\ dlr' = [dlr EXCEPT ![h] = NoDlr]
    /\ UNCHANGED <<rowVars, workerVars, sent, refuted, expiring, crashes>>

-----------------------------------------------------------------------------
(* The expire_stale job.                                                   *)

\* Variant: the rule for uncertain messages is missing.
OverdueNotUncertain(rule, r) == r.state = rule /\ rule # "uncertain" /\ r.expires = 0

\* run_at: the three rules, each a query of its own.
Overdue(rule, r) ==
    /\ r.state = rule
    /\ IF rule = "uncertain" THEN r.idle >= UncertainGrace ELSE r.expires = 0

ExpireRead ==
    /\ expiring = [m \in Messages |-> 0]
    /\ \E rule \in {"submitted", "uncertain", "undelivered"} :
         /\ \E m \in Messages : Overdue(rule, rows[m])
         /\ expiring' = [m \in Messages |-> IF Overdue(rule, rows[m])
                                            THEN rows[m].version ELSE 0]
    /\ UNCHANGED <<rowVars, workerVars, sent, refuted, dlr, crashes>>

\* expire_matching's loop: one row, or the job fails and the rest is left
\* for its next run.
ExpireWrite(m) ==
    /\ expiring[m] # 0
    /\ Write(m, expiring[m], [rows[m] EXCEPT !.state = "expired"])
    /\ expiring' = [expiring EXCEPT ![m] = 0]
    /\ UNCHANGED <<workerVars, sent, refuted, dlr, crashes>>

ExpireFails ==
    /\ DbFaults
    /\ expiring # [m \in Messages |-> 0]
    /\ expiring' = [m \in Messages |-> 0]
    /\ UNCHANGED <<rowVars, workerVars, sent, refuted, dlr, crashes>>

-----------------------------------------------------------------------------
(* Time.                                                                   *)

Down(t, floor) == IF t > floor THEN t - 1 ELSE t
Up(t, ceiling) == IF t < ceiling THEN t + 1 ELSE t

Tick ==
    /\ rows' = [m \in Messages |->
                  [rows[m] EXCEPT !.lease = Down(@, -1), !.expires = Down(@, 0),
                                  !.wait = Down(@, 0),
                                  !.idle = IF rows[m].state = "uncertain"
                                           THEN Up(@, UncertainGrace) ELSE 0]]
    /\ stale' = [w \in Dispatchers |->
                   IF pc[w] = "claiming" THEN Up(stale[w], DispatchLease + 1) ELSE 0]
    /\ UNCHANGED <<sm001, pc, todo, claimed, snap, answer, ack, sent, refuted, dlr,
                   expiring, crashes>>

-----------------------------------------------------------------------------
Init ==
    /\ rows = [m \in Messages |-> NoRow]
    /\ pc = [w \in Dispatchers |-> "idle"]
    /\ stale = [w \in Dispatchers |-> 0]
    /\ todo = [w \in Dispatchers |-> {}]
    /\ claimed = [w \in Dispatchers |-> {}]
    /\ snap = [w \in Dispatchers |-> [m \in Messages |-> NoRow]]
    /\ answer = [w \in Dispatchers |-> "none"]
    /\ ack = [w \in Dispatchers |-> 0]
    /\ sent = [m \in Messages |-> <<>>]
    /\ refuted = [m \in Messages |-> {}]
    /\ dlr = [h \in Receivers |-> NoDlr]
    /\ expiring = [m \in Messages |-> 0]
    /\ crashes = 0
    /\ sm001 = FALSE

DispatcherStep(w) ==
    \/ ReadCandidates(w) \/ TakeLease(w) \/ ClaimAborts(w) \/ Submit(w)
    \/ ProviderAccepts(w) \/ ProviderAnswers(w) \/ WriteOutcome(w) \/ OutcomeLost(w)

Next ==
    \/ \E m \in Messages : SendMessage(m) \/ ExpireWrite(m)
    \/ \E w \in Dispatchers : DispatcherStep(w) \/ Crash(w)
    \/ \E h \in Receivers : ReadReceipt(h) \/ ApplyReceipt(h) \/ DropReceipt(h)
    \/ ExpireRead \/ ExpireFails
    \/ Tick

Spec == Init /\ [][Next]_vars

-----------------------------------------------------------------------------
(* Fairness.  A dispatcher polls every second, a provider call ends (the   *)
(* adapters' HTTP clients have a timeout), the gateway finishes a request  *)
(* it has started, expire_stale is enqueued every minute, and time passes. *)
(* Nothing makes a provider accept a message or send a receipt.            *)

Fairness ==
    /\ \A w \in Dispatchers :
         WF_vars(ReadCandidates(w) \/ TakeLease(w) \/ Submit(w) \/ ProviderAnswers(w)
                   \/ WriteOutcome(w))
    /\ \A h \in Receivers : WF_vars(ApplyReceipt(h))
    /\ WF_vars(ExpireRead)
    /\ \A m \in Messages : WF_vars(ExpireWrite(m))
    /\ WF_vars(Tick)

FairSpec == Spec /\ Fairness

-----------------------------------------------------------------------------
(* Properties.                                                             *)

Pc == {"idle", "claiming", "submitting", "calling", "accepted", "answered"}

WorkLists(w) ==
    /\ pc[w] = "idle" => todo[w] = {} /\ claimed[w] = {}
    /\ pc[w] = "claiming" <=> todo[w] # {}
    /\ pc[w] \in {"submitting", "calling", "accepted", "answered"} => claimed[w] # {}
    /\ pc[w] = "answered" <=> answer[w] # "none"

\* Types, and what a dispatcher's position says of its work lists: leases
\* are taken for the rows of todo, submissions made for those of claimed.
TypeOK ==
    /\ rows \in [Messages -> Row]
    /\ pc \in [Dispatchers -> Pc]
    /\ stale \in [Dispatchers -> Nat]
    /\ todo \in [Dispatchers -> SUBSET Messages]
    /\ claimed \in [Dispatchers -> SUBSET Messages]
    /\ snap \in [Dispatchers -> [Messages -> Row]]
    /\ answer \in [Dispatchers -> Answers \cup {"none"}]
    /\ ack \in [Dispatchers -> Nat]
    /\ sent \in [Messages -> Seq(Providers)]
    /\ refuted \in [Messages -> SUBSET Nat]
    /\ dlr \in [Receivers -> [target : MessageState, msg : Messages, version : Nat]
                             \cup {NoDlr}]
    /\ expiring \in [Messages -> Nat]
    /\ crashes \in 0..MaxCrashes
    /\ sm001 \in BOOLEAN
    /\ \A w \in Dispatchers : WorkLists(w)

\* No writer ever proposes an edge the trigger refuses, however the writers
\* interleave: the states the Rust code moves between (take_lease,
\* terminal_outcome, next_state, expire_stale) agree with
\* message_state_transitions.  dlr.rs: "SM001 must mean a bug".
NoIllegalTransition == ~sm001

\* A message is never attempted more often than maxAttempts allows, retries
\* by the dispatcher and after a failed delivery counted together, however
\* many dispatchers compete and however often one dies (take_lease).
AttemptsWithinBudget == \A m \in Messages : rows[m].attempts <= MaxAttempts

\* A message is rerouted at most MAX_FAILOVER_HOPS times and never sits on a
\* route it has already been rerouted away from (attempt_failover).
FailoverBounded ==
    \A m \in Messages : /\ Cardinality(rows[m].excluded) <= MaxHops
                        /\ rows[m].route \notin rows[m].excluded

\* Of the dispatchers that hold a message for submission, at most one holds
\* the row's current version: the others' outcome can no longer be written
\* (claim_batch's compare-and-swap, write_transition's if_match).
Holds(w, m) == m \in claimed[w] /\ snap[w][m].version = rows[m].version

OneWriterPerClaim ==
    \A m \in Messages, v, w \in Dispatchers : Holds(v, m) /\ Holds(w, m) => v = w

\* A row that says a provider has, delivered or lost the message carries the
\* reference of a submission that provider really accepted (write_submitted,
\* ingest_one), so that a receipt can find it.
HandedOverHasReference ==
    \A m \in Messages :
        rows[m].state \in {"submitted", "delivered", "undelivered"}
          => /\ rows[m].ref \in DOMAIN sent[m]
             /\ sent[m][rows[m].ref] = ProviderOf[rows[m].route]

\* A message that left for a provider does not stay where it is for ever,
\* although processes die, receipts are lost and outcomes stay unknown: with
\* the provider or undelivered, it is retried, becomes uncertain or ends; and
\* once uncertain it ends (ingest_one, take_lease, expire_stale;
\* integrating.md: "A background job eventually resolves the message to a
\* terminal state").
HandedOverResolves ==
    \A m \in Messages :
        /\ rows[m].state = "uncertain" ~> rows[m].state \in Terminal
        /\ rows[m].state \in {"submitted", "undelivered"}
             ~> rows[m].state \in Terminal \cup {"queued", "uncertain"}

=============================================================================
