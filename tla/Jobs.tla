-------------------------------- MODULE Jobs --------------------------------
(***************************************************************************)
(* The background queue: the scheduler role enqueues a row per recurring   *)
(* kind and cadence, the jobs role claims due rows, runs their handler and *)
(* writes the outcome, and an operator may requeue a dead row.             *)
(*   sms-worker/src/scheduler.rs, jobs.rs, claim.rs (Claimable for Job),   *)
(*   sms-api/src/procedures.rs (requeue), 0002_bootstrap/up.sql.           *)
(*                                                                         *)
(* Versions.  Every update is guarded by if_match(version), and every      *)
(* update moves the version: it takes effect exactly when nobody wrote the *)
(* row since the writer read it.  copy[w] is the set of rows worker w has  *)
(* an up-to-date copy of; a write by anyone takes the row out of everybody *)
(* else's set.                                                             *)
(*                                                                         *)
(* Rows.  A recurring kind has at most one row that is not finished        *)
(* (jobs_dedupe_idx); of the finished ones the code reads only createdAt   *)
(* of the newest, and the dead ones an operator asks for.  A new row takes *)
(* the place of one of the finished rows the model remembers.  With one    *)
(* unfinished row per kind a claim's budget of 10 never cuts a batch of    *)
(* the six kinds short.                                                    *)
(*                                                                         *)
(* Time.  runAt and leaseUntil are ticks left, createdAt and the           *)
(* scheduler's last enqueue ticks since, clipped where the code no longer  *)
(* tells the values apart.  lease = -1: NULL or in the past.               *)
(***************************************************************************)
EXTENDS Integers, Sequences, FiniteSets

CONSTANTS
    Kinds,        \* recurring kinds (schedule)
    Slots,        \* bound: rows remembered per kind
    Workers,      \* processes that run the jobs role
    Cadence,      \* RecurringJobSpec.cadence, in ticks
    MaxAttempts,  \* RecurringJobSpec.max_attempts
    Backoff,      \* BACKOFF_SCHEDULE, in ticks
    JobLease,     \* JOB_LEASE, in ticks
    FaultPoints,  \* where a process may die or a database call fail
    MaxFaults     \* bound: faults in a behaviour

Points == {"claiming", "handling", "failing", "scheduling", "seeding"}

ASSUME KindsAssumption == IsFiniteSet(Kinds) /\ Slots \in Nat \ {0}
ASSUME TimesAssumption ==
    /\ Cadence \in Nat \ {0} /\ MaxAttempts \in Nat \ {0} /\ JobLease \in Nat
    /\ Backoff \in Seq(Nat) /\ Len(Backoff) > 0
ASSUME FaultsAssumption == FaultPoints \subseteq Points /\ MaxFaults \in Nat

JobIds == Kinds \X (1..Slots)
Never == -1                        \* last[k] before anything was enqueued

VARIABLES
    jobs,     \* the jobs table
    pc,       \* where a worker is in its tick
    todo,     \* candidates it has not tried to lease yet
    claimed,  \* rows it leased as running and has not finished with
    copy,     \* rows it has an up-to-date copy of
    cur,      \* the row whose handler runs, as a set of at most one
    up,       \* whether some process runs the scheduler role
    last,     \* its last_enqueued
    unsure,   \* history: kinds of which it may have missed the newest row
    faults    \* faults so far

workerVars == <<pc, todo, claimed, copy, cur>>
schedVars == <<up, last, unsure>>
vars == <<jobs, workerVars, schedVars, faults>>

-----------------------------------------------------------------------------
(* The jobs table.                                                         *)

Finished == {"none", "succeeded", "dead"}
JobState == {"pending", "running", "failed"} \cup Finished

NoJob == [state |-> "none", attempts |-> 0, lease |-> -1, wait |-> 0, age |-> 0]

\* jobs_dedupe_idx: the state of the rows it is unique over.  Variant: the
\* index forgets the rows between two attempts.
IndexedNotFailed(j) == jobs[j].state \in {"pending", "running"}

Indexed(j) == jobs[j].state \in {"pending", "running", "failed"}

KindTaken(k) == \E i \in 1..Slots : Indexed(<<k, i>>)

\* The counters keep the values the code compares.
Up(t, ceiling) == IF t < ceiling THEN t + 1 ELSE t
Down(t, floor) == IF t > floor THEN t - 1 ELSE t

\* An update by worker w: what the others have read of the row is out of
\* date; w goes on with the row it got back as long as it has to settle it.
\* Variant: no if_match.
WriteAsUnguarded(w, j, new) ==
    /\ jobs' = [jobs EXCEPT ![j] = new]
    /\ UNCHANGED copy

WriteAs(w, j, new) ==
    /\ jobs' = [jobs EXCEPT ![j] = new]
    /\ copy' = [v \in Workers |-> IF v = w /\ new.state \in {"running", "failed"}
                                 THEN copy[v] ELSE copy[v] \ {j}]

Fault(point) ==
    /\ point \in FaultPoints
    /\ faults < MaxFaults
    /\ faults' = faults + 1

-----------------------------------------------------------------------------
(* The scheduler role.                                                     *)

\* seed_last_enqueued: createdAt of the newest row of the kind, whatever its
\* state.  Variant: the order of the query is the wrong one.
Ages(k) == {jobs[<<k, i>>].age : i \in {s \in 1..Slots : jobs[<<k, s>>].state # "none"}}

SeedOldest(k) ==
    IF Ages(k) = {} THEN Never ELSE CHOOSE a \in Ages(k) : \A b \in Ages(k) : a >= b

Seed(k) ==
    IF Ages(k) = {} THEN Never ELSE CHOOSE a \in Ages(k) : \A b \in Ages(k) : a <= b

SchedulerStarts ==
    /\ ~up
    /\ up' = TRUE
    /\ last' = [k \in Kinds |-> Seed(k)]
    /\ unsure' = {}
    /\ UNCHANGED <<jobs, workerVars, faults>>

\* The same with the query for one kind failing: it counts as never scheduled.
SeedFails(k) ==
    /\ ~up
    /\ Fault("seeding")
    /\ up' = TRUE
    /\ last' = [[q \in Kinds |-> Seed(q)] EXCEPT ![k] = Never]
    /\ unsure' = {k}
    /\ UNCHANGED <<jobs, workerVars>>

\* The process dies or shuts down; last_enqueued goes with it.
SchedulerStops ==
    /\ up
    /\ Fault("scheduling")
    /\ up' = FALSE
    /\ last' = [k \in Kinds |-> Never]
    /\ unsure' = {}
    /\ UNCHANGED <<jobs, workerVars>>

Due(k) == last[k] = Never \/ last[k] >= Cadence

\* The insert of try_enqueue, when the index lets it through.
InsertRow(k) ==
    /\ ~KindTaken(k)
    /\ \E i \in 1..Slots :
         /\ jobs' = [jobs EXCEPT ![<<k, i>>] = [NoJob EXCEPT !.state = "pending"]]
         /\ copy' = [w \in Workers |-> copy[w] \ {<<k, i>>}]

\* tick, one spec: try_enqueue inserts, or the index says the kind is taken;
\* either way the kind is not looked at again for a cadence.
Enqueue(k) ==
    /\ up
    /\ Due(k)
    /\ InsertRow(k) \/ (KindTaken(k) /\ UNCHANGED <<jobs, copy>>)
    /\ last' = [last EXCEPT ![k] = 0]
    /\ unsure' = unsure \ {k}
    /\ UNCHANGED <<pc, todo, claimed, cur, up, faults>>

\* try_enqueue returns another error: last_enqueued stays and the kind is
\* tried again at the next tick.  The row may be there all the same, when it
\* was the answer that got lost.
EnqueueFails(k) ==
    /\ up
    /\ Due(k)
    /\ Fault("scheduling")
    /\ \/ InsertRow(k) /\ unsure' = unsure \cup {k}
       \/ UNCHANGED <<jobs, copy, unsure>>
    /\ UNCHANGED <<pc, todo, claimed, cur, up, last>>

-----------------------------------------------------------------------------
(* The jobs role: tick.                                                    *)

\* Job::candidates: due rows, and rows whose worker let its lease lapse.
\* Variant: without the second query.
CandidatesNoReclaim == {j \in JobIds : jobs[j].state = "pending" /\ jobs[j].wait = 0}

Candidates ==
    {j \in JobIds : \/ jobs[j].state = "pending" /\ jobs[j].wait = 0
                    \/ jobs[j].state = "running" /\ jobs[j].lease < 0}

ReadCandidates(w) ==
    /\ pc[w] = "idle"
    /\ Candidates # {}
    /\ pc' = [pc EXCEPT ![w] = "claiming"]
    /\ todo' = [todo EXCEPT ![w] = Candidates]
    /\ copy' = [copy EXCEPT ![w] = Candidates]
    /\ UNCHANGED <<jobs, claimed, cur, schedVars, faults>>

\* take_lease.  left: what remains of JOB_LEASE, which counts from the time
\* the batch was read.  A reclaimed row goes back to pending, to be claimed
\* by a later batch.
LeaseWrite(r, left) ==
    IF r.state = "pending"
    THEN [r EXCEPT !.state = "running", !.attempts = Up(@, MaxAttempts + 1), !.lease = left]
    ELSE [r EXCEPT !.state = "pending", !.lease = -1]

TakeLease(w) ==
    /\ pc[w] = "claiming"
    /\ \E j \in todo[w] :
         LET rest == todo[w] \ {j} IN
         /\ \/ /\ j \in copy[w]
               /\ \E left \in -1..JobLease : WriteAs(w, j, LeaseWrite(jobs[j], left))
               /\ claimed' = [claimed EXCEPT ![w] = IF jobs[j].state = "pending"
                                                    THEN @ \cup {j} ELSE @]
            \/ j \notin copy[w] /\ UNCHANGED <<jobs, copy, claimed>>
         /\ todo' = [todo EXCEPT ![w] = rest]
         /\ pc' = [pc EXCEPT ![w] = IF rest # {} THEN "claiming"
                                    ELSE IF claimed'[w] = {} THEN "idle" ELSE "running"]
    /\ UNCHANGED <<cur, schedVars, faults>>

\* run_one: the handler starts, without another look at the lease.
StartHandler(w) ==
    /\ pc[w] = "running"
    /\ \E j \in claimed[w] : cur' = [cur EXCEPT ![w] = {j}]
    /\ pc' = [pc EXCEPT ![w] = "handling"]
    /\ UNCHANGED <<jobs, todo, claimed, copy, schedVars, faults>>

\* The end of run_one, and the next turn of tick's loop.
NextJob(w) ==
    /\ claimed' = [claimed EXCEPT ![w] = @ \ cur[w]]
    /\ cur' = [cur EXCEPT ![w] = {}]
    /\ pc' = [pc EXCEPT ![w] = IF claimed[w] \subseteq cur[w] THEN "idle" ELSE "running"]
    /\ UNCHANGED <<todo, schedVars>>

\* The handler returned Ok: apply_outcome.
Succeed(w) ==
    /\ pc[w] = "handling"
    /\ \E j \in cur[w] \cap copy[w] : WriteAs(w, j, [jobs[j] EXCEPT !.state = "succeeded"])
    /\ NextJob(w)
    /\ UNCHANGED faults

\* The handler returned Err, or the kind has no handler: apply_failure's
\* first write.
Fail(w) ==
    /\ pc[w] = "handling"
    /\ \E j \in cur[w] \cap copy[w] : WriteAs(w, j, [jobs[j] EXCEPT !.state = "failed"])
    /\ pc' = [pc EXCEPT ![w] = "failing"]
    /\ UNCHANGED <<todo, claimed, cur, schedVars, faults>>

\* backoff_for.
BackoffFor(attempts) ==
    LET index == IF attempts < 1 THEN 1 ELSE attempts IN
    Backoff[IF index <= Len(Backoff) THEN index ELSE Len(Backoff)]

\* apply_failure's second write.
FailureWrite(r) ==
    IF r.attempts >= MaxAttempts
    THEN [r EXCEPT !.state = "dead"]
    ELSE [r EXCEPT !.state = "pending", !.wait = BackoffFor(r.attempts), !.lease = -1]

SettleFailure(w) ==
    /\ pc[w] = "failing"
    /\ \E j \in cur[w] \cap copy[w] : WriteAs(w, j, FailureWrite(jobs[j]))
    /\ NextJob(w)
    /\ UNCHANGED faults

\* swallow_stale_write: the row was reclaimed meanwhile; the outcome, good
\* or bad, is forgotten.
OutcomeIsStale(w) ==
    /\ pc[w] \in {"handling", "failing"}
    /\ cur[w] \cap copy[w] = {}
    /\ NextJob(w)
    /\ UNCHANGED <<jobs, copy, faults>>

\* A write of the outcome fails: logged, the row stays as it is.
OutcomeLost(w) ==
    /\ pc[w] \in {"handling", "failing"}
    /\ Fault(pc[w])
    /\ NextJob(w)
    /\ UNCHANGED <<jobs, copy>>

\* The process dies, or shutdown drops the role's future at an await; or
\* claim_batch fails and with it the tick.
Stop(w) ==
    /\ pc[w] # "idle"
    /\ Fault(IF pc[w] = "running" THEN "handling" ELSE pc[w])
    /\ pc' = [pc EXCEPT ![w] = "idle"]
    /\ todo' = [todo EXCEPT ![w] = {}]
    /\ claimed' = [claimed EXCEPT ![w] = {}]
    /\ copy' = [copy EXCEPT ![w] = {}]
    /\ cur' = [cur EXCEPT ![w] = {}]
    /\ UNCHANGED <<jobs, schedVars>>

-----------------------------------------------------------------------------
(* requeue: an operator gives a dead job a fresh run at its budget.  The   *)
(* update fails on jobs_dedupe_idx while the kind has an unfinished row.   *)

Requeue(j) ==
    /\ jobs[j].state = "dead"
    /\ ~KindTaken(j[1])
    /\ jobs' = [jobs EXCEPT ![j] = [@ EXCEPT !.state = "pending", !.attempts = 0,
                                             !.lease = -1, !.wait = 0]]
    /\ copy' = [w \in Workers |-> copy[w] \ {j}]
    /\ UNCHANGED <<pc, todo, claimed, cur, schedVars, faults>>

-----------------------------------------------------------------------------
Tick ==
    /\ jobs' = [j \in JobIds |->
                  IF jobs[j].state = "none" THEN NoJob
                  ELSE [jobs[j] EXCEPT !.lease = Down(@, -1), !.wait = Down(@, 0),
                                       !.age = Up(@, Cadence)]]
    /\ last' = [k \in Kinds |-> IF last[k] = Never THEN Never ELSE Up(last[k], Cadence)]
    /\ UNCHANGED <<workerVars, up, unsure, faults>>

Init ==
    /\ jobs = [j \in JobIds |-> NoJob]
    /\ pc = [w \in Workers |-> "idle"]
    /\ todo = [w \in Workers |-> {}]
    /\ claimed = [w \in Workers |-> {}]
    /\ copy = [w \in Workers |-> {}]
    /\ cur = [w \in Workers |-> {}]
    /\ up = FALSE
    /\ last = [k \in Kinds |-> Never]
    /\ unsure = {}
    /\ faults = 0

WorkerStep(w) ==
    \/ ReadCandidates(w) \/ TakeLease(w) \/ StartHandler(w) \/ Succeed(w) \/ Fail(w)
    \/ SettleFailure(w) \/ OutcomeIsStale(w)

Next ==
    \/ \E w \in Workers : WorkerStep(w) \/ OutcomeLost(w) \/ Stop(w)
    \/ SchedulerStarts \/ SchedulerStops
    \/ \E k \in Kinds : Enqueue(k) \/ EnqueueFails(k) \/ SeedFails(k)
    \/ \E j \in JobIds : Requeue(j)
    \/ Tick

Spec == Init /\ [][Next]_vars

(* Fairness.  The roles poll, handlers return, a standby takes over the    *)
(* scheduler (RoleLease), time passes.  Nothing makes a handler succeed    *)
(* and no operator has to requeue.                                         *)
Fairness ==
    /\ \A w \in Workers : WF_vars(WorkerStep(w))
    /\ WF_vars(SchedulerStarts)
    /\ \A k \in Kinds : WF_vars(Enqueue(k))
    /\ WF_vars(Tick)

FairSpec == Spec /\ Fairness

-----------------------------------------------------------------------------
(* Properties.                                                             *)

Row == [state : JobState, attempts : 0..(MaxAttempts + 1), lease : Int, wait : Nat, age : Nat]

TypeOK ==
    /\ jobs \in [JobIds -> Row]
    /\ pc \in [Workers -> {"idle", "claiming", "running", "handling", "failing"}]
    /\ todo \in [Workers -> SUBSET JobIds]
    /\ claimed \in [Workers -> SUBSET JobIds]
    /\ copy \in [Workers -> SUBSET JobIds]
    /\ cur \in [Workers -> SUBSET JobIds]
    /\ up \in BOOLEAN
    /\ last \in [Kinds -> Nat \cup {Never}]
    /\ unsure \in SUBSET Kinds
    /\ faults \in 0..MaxFaults

\* A handler whose outcome can still be recorded is the only one for its
\* job: a second worker that reclaims the row makes the first one's outcome
\* unwritable, whatever the two do next (take_lease, apply_outcome).
Owns(w, j) == j \in claimed[w] \cap copy[w]

OneOutcomePerClaim ==
    \A j \in JobIds : \A v, w \in Workers : Owns(v, j) /\ Owns(w, j) => v = w

\* A kind never has two rows a worker may run, though the scheduler, the
\* retry of a failed row and an operator's requeue all make rows pending
\* (jobs_dedupe_idx, try_enqueue, requeue).
OneLiveJobPerKind ==
    \A k \in Kinds : \A a, b \in 1..Slots :
        /\ jobs[<<k, a>>].state \in {"pending", "running"}
        /\ jobs[<<k, b>>].state \in {"pending", "running"}
        => a = b

\* The work of a kind is done by one worker at a time: one row to run, and one
\* worker that may report on it (OneLiveJobPerKind, OneOutcomePerClaim).
OneAtATime == OneLiveJobPerKind /\ OneOutcomePerClaim

\* The scheduler inserts a row for a kind only when every row of the kind is at
\* least a cadence old, also when another process has taken the role over in
\* between, unless it could not read the kind's rows when it started or lost
\* the answer to its last insert (scheduler.md: "so a restart doesn't
\* immediately re-fire everything"; seed_last_enqueued, tick, try_enqueue).
Inserted(k) == (Enqueue(k) \/ EnqueueFails(k)) /\ jobs' # jobs

CadenceKept ==
    [][\A k \in Kinds \ unsure : Inserted(k) => \A a \in Ages(k) : a >= Cadence]_vars

\* The handler of every recurring kind runs again and again, although
\* workers die with a claimed row, answers get lost and handlers fail
\* (candidates' reclaim, apply_failure's retry, the scheduler's cadence).
RecurringKindRuns ==
    \A k \in Kinds : []<>(\E w \in Workers, i \in 1..Slots : <<k, i>> \in cur[w])

\* A failed row is retried or given up (procedures.rs: "`failed` is a
\* same-tick transient state").
FailedIsTransient ==
    \A j \in JobIds : jobs[j].state = "failed" ~> jobs[j].state # "failed"

=============================================================================
