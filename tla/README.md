# vsms in TLA+

A verification project for vsms, an SMS gateway: a Rust API server and a Rust worker around
one PostgreSQL database. It models the parts that carry the gateway's promises (a message is
sent, at most once where that can be promised; its outcome reaches the client; only those who
may call are heard; background work goes on) and in which concurrency, failure and time are
hard to test.

Paths below are relative to `src/backends/crates/` unless they start with `docs/` or `src/`.

## 1. The system

| Component | State | Operations | Hard because |
|---|---|---|---|
| **Send path**: `sms-worker` `claim.rs`, `dispatch.rs`, `sms-api/src/dlr.rs`, `jobs/expire_stale.rs` | `messages`; a dispatcher's batch of copies | insert; claim and lease; submit; write the outcome, retry, fail over; apply a receipt; expire | several writers of the same rows from copies; a provider call may outlive its lease; a process may die between the call and the write |
| **Acceptance**: `sendMessage` (`procedures.rs`, `consent.rs`), the idempotency layer | `messages`, reservations, opt-outs, quota by count | reserve, check, count, insert, replay; the client retries | check-then-act, a retry beside its original |
| **Outbox**: `drain.rs`, `sms-api/src/webhooks.rs`, `reap_outbox.rs` | the event outbox | deliver at least once, fan out, reap | subscribers fail half way, poison rows |
| **Routing and breaker**: `sms-routing`, `routing.rs`, `breaker.rs` | routes, providers' failure counts | pick a route, exclude what was tried, open and close circuits | weighted choice at its boundaries, lost counts |
| **Adapters**: `sms-provider-*` | cached tokens, cached certificates | submit and classify; authenticate and parse callbacks | what happened to a request whose answer never came |
| **Leader election**: `lease.rs`, `run_singleton`, `src/backends/apps/sms-worker/src/main.rs` | PostgreSQL advisory locks, one task per node and role | ask, run, release; start, SIGTERM, crash | client and session do not die together |
| **Background queue**: `jobs.rs`, `scheduler.rs`, `requeueJob` | `jobs`; the scheduler's memory of its last enqueue | enqueue on a cadence, claim, reclaim, succeed, fail in two writes, requeue | takeovers, lapsing leases, a unique index that keeps a kind out of the queue |
| **Webhooks**: `hooks.rs`, `breaker.rs`, replay and mode switch | `webhook_attempts`, `webhook_endpoints` | enqueue, select, filter, lease, deliver, record, replay, switch, PATCH | two tables written one after the other, leases dated from the claim, endpoints that change under a worker's hands |
| **Webhook secrets**: `rotateWebhookSecret`, `switchWebhookDeliveryMode`, `hmac_gate.rs`, `sms-webhook` | secret, previous secret, audience, mode | rotate, switch, sign or seal, verify | two operators at once, deliveries under way |
| **Signed transport**: `envelope.rs`, `signers.rs`, `cache.rs`, key registration | nonces, keys, clients, users, cached standings | record a nonce, sweep; register, revoke, edit; look up a standing | delete and insert again beside a sweep; a cache filled by an old read |
| **Sign-in**: `sms-auth`, `src/backends/apps/sms-gateway` | SSO transactions, links, accounts, rate-limit buckets, the provider's keys, the OP's own keys | start, call back, provision; log in; fetch, cache; rotate, publish, reload | replayed callbacks, racing first sign-ins, outages and rotations |
| **Status lookup**: `delivery_status.rs` | accounting rows | claim a place, count, read, settle | a burst of calls and no lock |
| **Audit**: `audit_log.rs`, `jobs/anchor_audit.rs` | audit rows, chain of anchors | stamp, commit, fold, link, check | rows commit later than they are stamped |
| **Encoding and numbers**: `sms-encoding`, `sms-msisdn` | none | normalise, analyse, pack; sanitise, parse, look a prefix up | characters of two units at the end of a part; one number in many spellings |
| **SDKs and server keys**: `src/sdks`, `server_keys.rs`, `sms-webhook` | the two key files, pins of the integrators | seal, open, rotate | a rotation while processes start and integrators update |
| **Migrations**: `src/backends/apps/sms-migrate` | the advisory lock, what is applied | lock, look, apply, record | two releases at once, a death half way |
| **Set-up commands**: `src/backends/apps/sms-gateway/src/commands` | seeded rows, the console client, password files | find or create, switch on, write a file and a hash | run twice, run side by side, cut short |
| **Backups**: `src/deploy/backup-tool` | dumps and manifests on the remote, the health file | dump, upload, prune, restore, drill | prunes that race uploads, a health file that outlives what it stands for |
| **Configuration and start-up**: `sms-config`, `serve.rs` | the document, the environment, the rows serve asks for | load and validate, open the doors, announce | each binary has its own rules for the same document |
| The rest: retention, grey-route statistics, token limiter, metrics, consoles, tooling | | | section 6 and PROJECT.json |

How they meet: the components share tables and nothing else. Every update is a compare-and-swap
on a `version` column (`if_match`), every state change of a message, a job or an attempt passes
a trigger that holds the legal edges as data, and every claim is a lease that lapses. The
`dispatch`, `drain`, `scheduler` and `smpp` roles are singletons under the advisory lock; `jobs`
and `hooks` scale to n. `expire_stale`, `anchor_audit` and the sweeps are handlers the queue
runs. The insert and every change of a message emit an event in the same transaction, from which
the outbox makes webhook attempts.

What makes each part correct:

- *Send path*: only legal edges; the attempts budget; one writer per claim; a handed-over message
  can be found by its receipt; an unknown outcome is not resubmitted and is resolved in the end;
  no two copies of a message that may both arrive.
- *Acceptance and outbox*: one message per key, a truthful answer, a bounded overshoot of the
  quota; every event reaches every endpoint.
- *Routing and adapters*: the winner is eligible and has its share; a failover never goes back;
  a dead provider's circuit opens; what may have been sent is held; a token outlives its request.
- *Leader election*: one instance of a singleton role; no lock left behind; a standby takes over.
- *Queue*: one outcome per claim; one live row per kind; the cadence survives a takeover; every
  kind runs again and again.
- *Webhooks*: one outcome per delivery; no attempt used up without a request; no backlog starves
  behind another; a receiver that follows the answers is never locked out.
- *Callers*: a revoked signer is out within the cache's time; a nonce is accepted once; one
  sign-in, one code, for that very person; a live token verifies; a provider's outage stops nobody
  whose key is held; one address tried hard keeps nobody out; guesses are budgeted.
- *Audit, callbacks, texts*: every row under one anchor and no false alarm; no genuine receipt
  refused for good; the fewest parts; every spelling of a number read as that number.
- *Operating it*: each migration once and in order; a command that reports success has done what it is
  for; a healthy backup can be restored; a gateway serves what it announces, or stops in a way the
  operator can mend; a key rotation breaks no integrator.

## 2. The modules

| Module | Models | Composed or instantiated in |
|---|---|---|
| `Dispatch` | the send path; proofs in `Dispatch_proofs` | `MCDispatch`, three configurations |
| `MessageLife`, `DispatchLife` | what a message goes through, and the mapping under which `Dispatch` implements it; proofs in `MessageLife_proofs` and `Dispatch_proofs` | `MCDispatch` |
| `RoleLease` | leader election; proofs in `RoleLease_proofs` | `MCRoleLease` |
| `Jobs` | scheduler and queue; proofs in `Jobs_proofs` | `MCJobs`, two configurations |
| `Hooks` | webhook delivery; proofs in `Hooks_proofs` | `MCHooks` |
| `Admission`, `Outbox` | sendMessage; the event outbox; proofs in `Accept_proofs` | `Accept` composes them, `MCAccept` |
| `Routing` | route choice, failover, provider breaker; proofs in `Accept_proofs` | `MCRouting` |
| `Adapters` | submission through the HTTP adapters; proofs in `Boundary_proofs` | `MCRouting`; `MCAdapters` with resets |
| `Sealed` | server keys and sealed calls; proofs in `Boundary_proofs` | `MCRouting` |
| `Encoding`, `Msisdn` | parts of a message; numbers and their operators, and with them both texts of a message; proofs in `Boundary_proofs` | `Msisdn` extends `Encoding`; `MCRouting` |
| `Runs` | loops over a sequence | `Sealed`, `Encoding`, `Msisdn` |
| `Signers`, `Nonces`, `SignIn`, `OpKeys`, `Setup` | standings and keys; envelope nonces; single sign-on; the OP's signing keys; the set-up commands; proofs in `Access_proofs` | `MCSigners` |
| `Login`, `IdpKeys` | password sign-in; the identity provider's keys; proofs in `Access_proofs` | `MCGateway` |
| `Lookup`, `Audit`, `HookSecrets`, `Callbacks`, `Migrate`, `Backups`, `Boot` | status lookup; audit anchors; webhook secrets; SNS callbacks; migrations; the backup tool; documents and start-up; proofs in `Boundary_proofs` | `MCGateway` |

`MCSigners`, `MCGateway` and `MCRouting` hold several modules whose state is disjoint, because
the components share no row: a variable `part`, chosen initially, says which of them moves while
the others stay at rest. That is one exploration of each, not of their product, which would show
nothing more. In `MCRouting` the route table stays `Closed` while another part moves. `MCAccept` explores
its composition twice (`focus`): all that callers can do while the drain sleeps, and all that the drain
can meet once a message is inserted.

PROJECT.json maps every definition to the lines it models. Definitions whose names extend
another one's (`SettlesNoReference` for `Settles`) and whose comment says "Variant" are wrong on
purpose: putting one in the place of the definition it varies must make a property fail, which
is how each property is shown to depend on the code.

**Common conventions.** A timestamp column is a number of ticks left (or passed), clipped where
the code no longer tells values apart, and `Tick` moves all of them; no clock variable grows.
A step is what the code does between two awaits that others can observe: a query, a
compare-and-swap, a call to a provider or an endpoint. What a worker knows is a copy made at its
last read.

**Dispatch.** `rows[m]` has the columns the writers decide on. `ReadCandidates` and `TakeLease`
are `claim_batch`: one query, then one compare-and-swap per row, each decided on the copy
(`snap`) and dated from the clock reading of the batch (`stale`). `Submit`, `ProviderAccepts`,
`ProviderAnswers` and `WriteOutcome` are `submit_one`; the provider takes the message in a step of
its own, so that a death, or a timeout, may come after it. `ReadReceipt` and `ApplyReceipt` are
`ingest_one`, with any receipt at any time; `ExpireRead` and `ExpireWrite` the job. `Write` is
`if_match` and the trigger in one: a refused edge sets `sm001`. Left open: which route wins
(`Decide`: any that is not excluded, or none, since operators and the provider breaker change the
eligible ones at any moment), what a provider answers, and when receipts come. The checks of
`sendMessage` before the insert either refuse, and nothing happens, or do not.

**RoleLease.** `task[n][r]` is where node n's task for role r is in `run_singleton`, `lock[k]`
who the server says holds a key: a node's session, nobody, or `Orphan`, a session whose client is
gone and which the server has yet to notice. `SessionLost` is the opposite case: the session is
gone and the client does not know; `SessionsLost` switches it on. `bereft` is a ghost that remembers
such tasks.

**Jobs.** `copy[w]` replaces version numbers: the set of rows of which w has an up-to-date copy. A
write by anyone takes the row out of the others' sets, and a guarded write needs the row to be in
the writer's. Rows of a kind live in `Slots`: of the finished ones the code reads only the newest
creation time and what an operator requeues. The two writes of `apply_failure` are `Fail` and
`SettleFailure`, with `Stop` and `OutcomeLost` possible in between. `FaultPoints` says where
faults may strike. `EnqueueFails` is an insert that returns an error: the scheduler tries again at its
next tick, although the row may be there. The ghost `unsure` remembers the kinds of which the scheduler may
not know the newest row, for that reason or because it could not read them when it started.

**Hooks.** The same device for attempts (`copy`) and the endpoint read at delivery (`epCopy`).
`Batches` is the selection in two bounded queries, of the endpoints the worker can claim from;
`FilterByHealth` the second look. Due attempts are taken in any order (the code: oldest first),
and the reads of one selection are one step, which is what the second look is there to repair.
A worker's time passes between polls and in requests; a tick anywhere else is a `Stall` and
counts against `MaxFaults`.

**MessageLife.** Waiting, trying, held by a carrier, unknown, ended; how many copies carriers took
and which of them were reported as failed. Nothing is said of leases, versions or workers. Under
`DispatchLife` a row's state is where its message is, `sent` are the copies and `refuted` the
failed ones.

**Admission and Outbox.** Each check of `send` is a read of its own, under read committed, with the changes of
what it reads in between; a caller that gets no answer sends again with the same `clientRef` and header.
`KeyExpires` is the end of `idempotency_ttl`: the layer forgets the key, and `window` is what was made under the
keys it still has. The layer that serves `Idempotency-Key` and the outbox table are the framework's, modelled as
`router.rs` and `drain.rs` use them. `Accept` joins them where the code does: the insert and its event are one
transaction, and so are a worker's later updates (among them the redaction of `purge_retention`, which has no
event type).

**Routing.** `SelectRoute` follows `select_route`: outcome by outcome, the highest band (the set of its
ids, which the query returns in order), shares of the draw. Routes and providers are read by two
statements; a provider's row is read before the submission and written after it under `if_match`, or not at
all when the database fails then (`UnavailableUnrecorded`). A draw
is a multiple of 1/`DrawUnits`, which hits every boundary of the shares exactly. What a band weighs is
the number of tickets its routes hold, one for each unit of a positive weight.

**Adapters.** `TokenCache` with its 80 % of a lifetime, what may happen on the wire (not connected,
taken or refused, answer late, cut off, unreadable, or a 2xx that the adapter does not read), `classify_*`
of each adapter, and the references by which receipts are matched. `Resets` switches on the one failure whose
classification disagrees with its documentation.

**Signers.** The registry is shared and current, the cache belongs to a process. Looking up a
standing, fetching it, storing it and answering are steps; registering, revoking, pairing,
granting and the operator's commands run in between. `StandingFresh` compares what a request was
served with to what the registry said within the cache's time.

**Nonces.** `record_if_unseen` as its four statements, beside other takers and the sweep. A row is
named by the call that inserted it, which is what deleting by id distinguishes.

**SignIn, OpKeys.** The transaction a start records and a callback consumes; link, scan, insert
and second look of a first sign-in; local accounts under the same mailbox. Keys are numbered in
the order of their rows; a gateway signs with the ring it loaded and its doors verify with the
keys they cached, reloading for an unknown `kid` at most every `MIN_FORCED_RELOAD`. A refresh may fail or drag
on, and the process signs on with the key it has; `asof` is when a ring was last read, `missed` whether a
refresh has failed since.

**Lookup, Audit, Login.** `claim_budget` as insert, count, settle. An audit row is stamped before
its transaction commits, a hash is the value it commits to. Both buckets of `admit`, then account,
credential, code and stamp; the ghost `crowd` holds the addresses that have drawn on everyone's bucket since it
was last full, and those whose own was not full then.

**HookSecrets, IdpKeys, Callbacks.** A secret is named by the version of the row that minted it,
and a signature by its secrets; the receiver has what it was last given. `find_key` and `metadata`
with their single flights, stale answers and dropped tasks. `authenticate_callback` with its cache
of certificates, and the answer the provider sees.

**Encoding, Msisdn.** Pure operators: over classes of characters, what GSM 03.38 and UTF-16 spend on
one and what stands for it; over digits, separators and a plus, what `sanitise`, `parse_in` and the
prefix table make of what was typed, with libphonenumber modelled by how a number is dialled. `body`
and `typed` only enumerate the inputs. Loops of the code over characters, costs or rows are `Run`s of
module `Runs`: a sequence of functions on the loop's state, one for each element, whose `Course` is the
states it goes through. The sort of the prefix table is the insertion of each row before the first
shorter one, which is what a stable sort by length gives.

**Sealed.** The two PEM files, the key each process loaded when it started and the pair each integrator
pins; then one call after another: the path as the SDK seals it and as a URL parser passes it on, the
answer sealed for its request, and answers that are lost, swapped or repeated on the way. What the idempotency
layer keeps it keeps by caller and key (`Scope`, as `envelope.rs` names the caller), with the request it was
made for: the same request is answered again (`Replay`), another under the same key is refused with 422, one
beside the first with 409, and after `AnswerExpires` the key is free; `lives` counts how often. A webhook
delivery may reach any receiver. That a URL parser takes dots out of a path is a `Run` too.

**Migrate, Setup, Backups, Boot.** A runner waits for the lock, looks at what is recorded, applies and
records in one transaction; it may die anywhere. A set-up command is a plan, one statement after the
other, and a run has a place in it and what it has seen; runs race and die, and a person switches rows
off. A backup is its dump, its uploads and its prunes, each a step; the health file has an age. A
document is a record of blocks and flaws, `Load` the loader's checks in their order, and a gateway is as
far as it has come; commands load the document as it is written then and write their rows later. A client's
row is the console's, with the redirects it was given, or a service's, made by `provision-client`
(`ProvisionService`) under an id it generates. serve stops on a missing row, on one that differs and on a
service's, three different stops; `ReconcileClient` is `seed-console-client`, which makes or mends the first two
and refuses the third.

## 3. What the runs check

Passing runs:

| Run | Instance | States | Properties |
|---|---|---|---|
| `race` | 1 message, 2 dispatchers, 1 receipt handler, 3 routes of 2 providers, 2 attempts, 1 hop, 1 crash, database faults | 379k | `NoIllegalTransition`, `OneWriterPerClaim`, `HandedOverHasReference` |
| `batch` | 2 messages in one batch, 1 dispatcher, no crash and no fault | 807k | `ImplementsMessageLife` |
| `live` | 1 message, 1 dispatcher, 2 handlers, 1 crash; past, present and future `scheduledAt` | 117k | `HandedOverResolves` |
| `roles` | 2 nodes, 2 roles, 3 faults of any kind | 40k | `ExclusiveWhileSessionLives`, `NoLeakedLock`, `RoleServedAgain` |
| `queue` | 1 kind with 2 rows, 2 workers, scheduler, operator, 1 fault | 519k | `OneAtATime`, `CadenceKept`, `RecurringKindRuns` |
| `deliver` | 2 attempts on 2 endpoints (one payload malformed), 2 workers, one without the signing key, budget 1, 1 fault, 1 operator action | 453k | `OneOutcomePerDelivery`, `CountedMeansSent`, `BacklogDrains` |
| `accept` | 2 sends of 4 kinds, 2 tries each, 2 handlers, quota 1 or 2, keys that expire, 2 endpoints, 2 drains, 2 faults | 1.6M | `QuotaOvershootBounded`, `SentOnceAndToldSo`, `NoEventLost`, `OutboxEmpties` |
| `routing` | all tables of 3 routes with 2 priorities, weights -1 to 2, judged over 12 draws; 2 messages with 2 hops through one of them; 2 submissions through every adapter; bodies of up to 5 characters; numbers of up to 6 characters typed over 2 numbering plans; 3 server keys and 2 integrators; 2 calls with 4 values in their paths, under one key of each caller | 1.3M | `RoutesAreFair`, `CircuitOpensWhenDue`, `SubmissionsAreSafe`, `TextsAreReadRight`, `RotationBreaksNobody`, `CallsReachAndAreAnswered` |
| `signers` | 3 keys of a client and two users, 2 requests; one nonce, 3 takers; 2 SSO starts, 2 visits of 2 people; 2 OP keys, a gateway and 2 doors, refreshes that fail; 3 runs of set-up commands, 2 at once | 2.2M | `StandingFresh`, `PairingKeysAreOperators`, `AcceptedOnceInWindow`, `SignedInAsSelf`, `OwnRaceIsNotAClash`, `LiveTokensVerify`, `SetupHolds` |
| `gateway` | 3 lookups, budget 1; 2 audited mutations; 2 posts of the password form for 3 spellings of 2 addresses, with room for one of them in everyone's bucket; 2 operators of an endpoint; 2 verifiers of the provider's tokens; 2 callbacks of 12 kinds; 2 runners of migrations of 2 releases; a scheduled, a manual and a drill backup; every list of methods with every choice of blocks, one flaw at a time, 6 environments, 1 edit, a service's client | 4.1M | `LookupBudgetHolds`, `AnchoredOnce`, `NobodyCrowdedOut`, `ReceiverKeepsUp`, `KnownKeysServe`, `AnswersAreRight`, `AppliedOnceInOrder`, `HealthyMeansRecoverable`, `BootHolds` |

Several properties have parts that their modules state one by one: `OneAtATime` is `OneOutcomePerClaim` and
`OneLiveJobPerKind`; `SentOnceAndToldSo` is `SendOnce` and `ToldTheTruth`; `SubmissionsAreSafe` is
`PossiblySentIsHeld` and `TokensOutliveRequests`; `TextsAreReadRight` is `FewestSegments` and `NumbersAgree`;
`CallsReachAndAreAnswered` is `SealedForWhatItReaches` and `BelievedIsAnswered`; `SetupHolds` is
`DoneMeansReady` and `PasswordIsHeld`; `BootHolds` is `AnnouncedIsServed`, `StoppedServeCanBeMended` and
`ServicesKeepTheirRows`; `RoutesAreFair` is `WinnersAreFair` and `FailoverMovesOn`, and judges each table over
all `DrawUnits` draws; `Draws` are the ones the two messages make. `TypeOK` and `AttemptsWithinBudget` of the
send path are proved (section 4) and are not repeated by a run.

Runs that refute what the repository says; PROJECT.json quotes the lines:

| Run | Property | What happens |
|---|---|---|
| `stuck` | `FailedIsTransient` | a fault between the two failure writes strands the job and, through the dedupe index, its kind |
| `reset` | `PossiblySentIsHeld` | a connection reset while the answer is awaited is neither a connect error, a timeout nor a body error, is classified unavailable, and is tried again although the provider may have taken the message |

`PossiblySentIsHeld` passes in `routing` (within `SubmissionsAreSafe`), where `Resets` is off, and fails in
`reset` on purpose: together they say that this is the one transport failure by which the promise is lost. What
the property excepts in both is an answer: a 2xx the adapter does not read (section 5). `queue` keeps its faults
out of the gap between the two failure writes for the same reason; `stuck` puts one there.
`ImplementsMessageLife` is promised by the code only as long as no dispatcher dies between a provider's
acceptance and the write, so `batch` has no crash; `race` and `live` have.

**Why the bounds are enough.**

- *Rows.* Each row is written independently of the others, so one message, with two of every kind of
  competing writer, has every race for a row; the second message is needed only for what a batch adds
  (work done from old copies), and `batch` has it. Two rows per kind of job are a live one and a
  finished one. Budget 1 with two endpoints is the case in which one endpoint's backlog can hide
  another's.
- *Limits* are the smallest at which "one below, at, one above" are three cases: two attempts, one hop
  of three routes, a threshold of two, a quota and a lookup budget of one with two and three callers,
  one cached certificate with two to be fetched, parts of 4 and 3 septets (3 and 2 units of UTF-16) with
  bodies of 5 characters, so that a character of two units straddles each boundary; numbers of 4 digits
  at most with 6 typed, so that every prefix in use fits, with a plus, a trunk or an exit code, and one
  digit too many; three server keys, the old, the current and the next.
- *Time.* Leases and backoffs of one tick lapse or not before any other step. Where durations are
  compared, the order of the real ones is kept: the anchoring lag is longer than a commit takes, the
  overlap of OP keys longer than refresh and token lifetime together, a request shorter than the fifth
  of its token's lifetime that is held back, retention longer than two periods and a run. Each part with
  a clock runs one tick past the longest of its durations at least; where a part stops at that bound,
  the configuration says `CHECK_DEADLOCK FALSE` (`accept`, `routing`, `signers`, `gateway`, `reset`),
  and these runs check no liveness but that of the outbox, whose part has no clock.
- *Room.* Everyone's bucket of three tokens, one refilled at a time, has room for one address of two and one,
  and there are two: crowding out happens in the run, and never by one address alone.
- *Set-up* begins with no console client or with a service's in its place; one that has drifted comes from an
  edit.
- *Faults.* One crash or fault per behaviour, in any state, covers each single failure; `roles` and
  `accept` have more, since a takeover, and a retry that fails too, need a second.
- *Symmetry* is used in `race`, `signers`, `routing` and `gateway`, which check invariants and action
  properties only.

**Assumptions of the models.** All processes read one clock. An audited transaction commits within `CommitTime`,
and one `anchor_audit` runs at a time. A fetched standing is stored, and an identity provider's answer taken up,
within the time the constants give. Buckets are refilled all at once. A request of `sendMessage` ends within
`idempotency_ttl`, and nobody repeats a send he has had an answer to. A refresh of the OP's keys that has failed
is tried at the next interval, as the loop does. No document names a client id that `provision-client` has yet
to generate (`CanBeWritten`). An operator acts on a webhook endpoint again when the receiver has taken up the
last answer; two operators may still be at work at once. A backup takes at most `MaxRun`, and no two begin in
the same second. A rotation of the server's key follows the runbook's order. The other containers have the
gateway's environment but for the two secrets only it reads, and no retired variable that it does not have
(`BootAssumption`). Of two routes of the schema with as many segments, either both have a word where they
differ, or no parameter takes the value of the word that only one has (`TemplatesAssumption`, the remark on
collisions in `contracts.rs`). Regions that share a calling code share its plan, and no plan has the empty
number (`MsisdnAssumption`): Cameroon, the default, has a code of its own; the countries of +1, whose plans
differ, are not covered.

**Fairness.** Weak fairness, and only of what the code repeats or finishes by itself: polling loops
(every second, every `RETRY_INTERVAL`, the drain's every `TICK_INTERVAL`), calls with a client timeout, a
request handler's own next step, the takeover of a role (shown in `RoleLease`), the server ending the
session of a closed connection, and time. Nothing makes a provider accept, a receipt arrive, a handler
or an endpoint succeed, an operator act or a process restart. Faults are never fair.

## 4. What is proved

TLAPS checks the following for every value of the constants that meets the `ASSUME`s of the modules:
any number of messages, dispatchers, receivers, routes, nodes and roles, any limits and durations.

**Dispatch_proofs.** `Invariance` is `Spec => []IInv`; `TypeCorrect`, `NeverSM001`,
`AttemptsBounded`, `HopsBounded`, `SingleWriter` and `ReferenceKnown` follow. None of the
properties is inductive by itself: that a write keeps within the edges depends on the copy it was
decided on. The strengthening says what the code relies on:

- `GoodCopies`: a dispatcher's copy is not newer than its row, and agrees with it, in the
  columns decisions read, if the versions are equal. `GoodReceipts` and `GoodExpiry` say the same
  of what a receipt handler and the job have read;
- `WorkOnHand`: what is in a worklist was in a state that may be leased, what is claimed was routed;
- `GoodRows`: each row by itself keeps the limits, is on a route once routing is past, and has a
  reference its provider gave once handed over;
- `AckMatches`: the reference a dispatcher is about to store is that of a real submission.

A write that passes `if_match` is then a decision on the current row, whose edge is one of a few
that `Edges` contains; a write that does not pass changes nothing. There is one lemma per action.
That versions only grow (`RowsAdvance`) and that each write moves its version carries the copies of
the others over. The assumptions are that messages and routes are finite sets, ids are naturals
in claim order, every route has a provider, and limits and durations are natural numbers.

The second half of the module shows that `Dispatch` implements `MessageLife`:
`DispatchImplementsLife` is the refinement, `NoSecondCopy` and `SendPathSettles` carry the two theorems
of `MessageLife_proofs` back to the rows. `LinkInv` joins the copies carriers took to the rows:
`RowLinks` (what a row's state says of them), `ClaimLinks` and `CopyLinks` (what is on a dispatcher's
list has none under way). The three assume `NothingFails`: no process dies, no write fails, one
dispatcher runs. The last is what `SingletonRoles` gives; the first two are what the code's promise rests
on, since a death between a carrier's acceptance and the write does make a second copy (section 5).

**MessageLife_proofs.** For the abstract specification: `LifeOneLiveCopy`, a message never has two
copies that may both still arrive, and `LifeSettles`, what is settled stays settled and is not sent
again. The first is inductive together with the types (`LifeInv`), since a copy is handed over only when
all earlier ones failed; the second follows step by step.

**RoleLease_proofs.** `LeaseInvariance` proves `LInv`: types, `NoLeakedLock`, that a
running or releasing task has its lock unless it is bereft, and that tasks become bereft only when
`SessionsLost`. `Exclusion` and `LocksAreNotLeaked` follow, and `SingletonRoles`: without lost
sessions `AtMostOneInstance` holds, so a lost session is the only way in which it can fail. The
assumption on keys (different roles have different keys) is what `advisory_lock_key` gives.

**Jobs_proofs.** `QueueInvariance` proves `JInv`: at most one worker's copy of a claimed row is up to date,
whoever can still write has a live row, the unique index holds. `OneWorkerPerKind` is `OneAtATime`;
`RowsKeepTheCadence` needs in addition that the scheduler's memory of a kind is no older than the kind's
newest row (`LastIsNewest`), which an insert that fails keeps for all kinds but those in `unsure`.

**Hooks_proofs.** `DeliveryInvariance` proves `HInv`: what a worker has read at each stage (`StagesHold`),
that an up-to-date copy beyond the claim belongs to a row in flight (`WritersHaveRowsInFlight`), that
counters are backed by requests (`CountsKept`), and that a request counted next was sent by the owner of
the claim (`SentByOwner`). `OneRecorder` and `FailuresWereSent` follow.

**Accept_proofs.** For the composition of `Admission` and `Outbox`: `QuotaIsSoftWithinHandlers` counts the
messages and the handlers that have read the quota and not yet inserted (`QuotaReserved`); `RetriedSendsAreSafe`
says which guard stands between a key and a second message at each step (`KeyGuards`, `OneMessage`), of all
messages for a `clientRef` and of those in `window` for a header, since a key that expires takes its guard and
its messages out of the window together; `EventsReachTheirEndpoints` says that an event is in the outbox or
covered by those who drain it (`DrainersCover`). For `Routing`: `WinnersAreTheBest` (one winner if and only if a
route is eligible, eligible, not excluded and of the highest priority; that a highest priority exists is the
argument of a least counterexample), `FailoversNeverReturn` (`HopInv`), and `CircuitsOpenWhenDue`. The last
bounds what lost updates can cost: with n submissions side by side, failures plus outdated copies are at most n
times the stored count plus n (`CircuitDue`), so a circuit opens within n failures for each one of the
threshold. A failure that is not recorded is in neither count. `SharesAreFair` is about `select_route` alone,
for every table, every set of available providers, every exclusion and every `DrawUnits`: whoever wins is one
eligible route of the highest priority, and each of them wins its share of the draws to within less than one
draw, so exactly when the shares are whole. The ends of the shares lie in the order of the ids and one weight
apart (`MassAdds`, `SharesInOrder`), a route's draws are those between two ends (`WinsAreShares`), and the first
multiple past an end is within one draw of it (`FirstToReach`, `DrawsBetween`). `RoutesStayFair` is
`RoutesAreFair`: rows keep their shape when they are switched (`RowsInv`), and `HopInv` is the rest.

**Access_proofs.** *Nonces*: what someone is about to delete had expired when it was read and can only have
become older (`MayDelete`, `RowsAreSettled`), so a row won stays (`WonIsKept`). *SignIn*: one carrier per start,
links and accounts belong together, a second round comes only after a link was seen, codes were earned.
*OpKeys*, under `OneOperator`: `KeyInv` says that a ring's signing key is published for an overlap from when it
was read (`RingsPublished`), that a process whose refreshes succeed has read it within `Refresh`
(`RefreshOnTime`), and that a token signed with such a ring is published until it expires; with two rotations at
once it is false (section 5). *Signers*: `RegistryInv`, `CacheInv` (a cached standing was true no longer ago
than its age and one fetch) and `RequestsInv`. *IdpKeys*: `IdpInv` says of the cache, and of every task that has
read it, which keys it must hold. *Login*: no assumption relates the two limits. As long as there is room for
the crowd, what everyone's bucket lacks is at most what the addresses' own lack, less a token for each request
between the two (`PaidFor`); a refill keeps that, since the crowd's addresses together gain no more than
everyone's bucket does (`RefillGains`), and who is refused there would have made the buckets of the crowd lack
more than they hold (`CrowdedOutStep`). *Setup*: `SetupInv` says of each run what its plan's steps so far have
left behind and what it saw (`Left`, `Behind`, `SawSound`); `PwInv` that who is about to store a hash has its
file.

**Boundary_proofs.** *Lookup*: a call counts after its row is placed, so of two calls one counts the other
(`CallsPlaced`, `Counted`). *Migrate*: `MigInv`, who is past the lock holds it and looks in order. *HookSecrets*:
`HookInv`, rows are keyed by what the receiver was told or is about to be (`RowsKeyed`, `AnswersAnnounce`,
`ReadsAreOld`). *Callbacks*: where a call is says what its envelope was found to be, and fetches are spaced.
*Adapters*, with `Resets` off: a request's deadline is before its token's end (`AdapterInv`; the lifetime is a
multiple of five ticks and ten times a request's at least). *Sealed*: everybody pins the key on disk
(`RotationInv`), so a process may start at any time; an answer taken is the call's own, and a message kept under
a key was made for its caller and its request in the life it is kept in (`BeliefInv`).
`SealedCallsHold` adds that a call is served as the operation and with the values it was sealed for: a path
built from a template resolves to itself, fits its own template and no other that is as literal, and each
parameter decodes to what was encoded.
*Audit*, under `AuditorAppends`: one auditor, who is no viewer, and transactions shorter than the lag; each
period begins where the last one ended and its rows are final (`AuditInv`). *Backups*: while a backup runs its
dump is too young to be pruned, names differ, and what the health file stands for outlives it
(`BackupInv`; retention is longer than two periods and a run). *Boot*: a list of checks accepts what all of
them accept; the loader accepts for the other containers what it accepts for the gateway (`OthersLoad`),
accepts nothing without a door (`AcceptedHasDoor`), and `BootInv` says what serve has found when it is where
it is, why it stopped, what kind of row it stopped on, that generated ids are services', and that the console's
row is the document's until the document is edited.
*Loops*: every `Run` has its course (`CourseOf`), and what holds at its start and is kept by each step holds
along it (`AllAlong`), by a least counterexample in the well-founded set of indices. That takes the place of the
induction principle the provers cannot use. *Encoding*: `TextsHold` says of every body that the parts filled
are the fewest. `PackingInv` says where the part being filled begins: the text before it takes one part fewer
at best, and with its first character one more already, so what a later part saves was saved before; and the
fewest parts never become fewer as the text grows (`FewestClimb`). *Msisdn*, in the same theorem: what was
read is a function of the characters that are no separators (`StrippedReadsTheSame`), digits read after a
plus, or alone, are themselves (`ReadDigits`), a number that was accepted is its country's code and a number of
its plan (`KeptAs`), and dialling that again, with a plus or with any region's exit code, leads to the same one
(`ParsedAgain`). *Operators*: the table has the usable rows, longest first (`EntriesInv`), so the first match is
the longest (`LookedUp`). The digits of the model are four characters; nothing in the argument depends on which.

**Only model-checked**, and why:

- all liveness (`HandedOverResolves`, `RoleServedAgain`, `RecurringKindRuns`, `BacklogDrains`,
  `OutboxEmpties`): fairness is out of the prover's reach.

Every safety property of a passing run is stated by a theorem, those named above under the hypotheses
given there (`NothingFails`, `OneOperator`, `AuditorAppends`, `Resets` off); the two runs that refute
(section 3) have none to prove.

## 5. Disagreements

Where modelling met a difference between the code and what the repository says of it, or a case
that neither code nor documentation settles. The first two are runs (section 3); the others were
met while writing the modules. Each module follows the code, and its properties are stated so that
they hold of what the code does.

- *Job failure in two writes*: run `stuck` (`sms-worker/src/jobs.rs`).
- *Reset while the answer is awaited*: run `reset` (`sms-provider-http/src/transport.rs:41`,
  `sms-provider/src/error.rs:105`).
- *Unexpected success.* MTN's adapter takes only 200 for an acknowledgement and Orange's only 201
  (`sms-provider-mtn/src/lib.rs:505`, `sms-provider-orange-cm/src/lib.rs:381`); any other 2xx is `Rejected`
  (`submit_status.rs:35`), so that a message the carrier has taken is failed and its receipt finds nothing.
  `error.rs:107` would have it held. `PossiblySentIsHeld` excepts it (`misread`); it is not sent again.
- *Lost answer of an insert.* When `try_enqueue` returns an error the scheduler tries again at its next tick
  (`scheduler.rs:190`); if the row was there and has been run meanwhile, the next comes within the cadence.
- *Idempotency keys expire.* The layer keeps a key for `idempotency_ttl`, 24 hours unless configured otherwise
  (`router.rs:606`, `examples/README.md` 217). A send that carries nothing but the header and is repeated later
  becomes a second message; with a `clientRef` it does not. `SendOnce` says both.
- *Failed refresh of the OP's keys.* The process goes on with the key it has (`op.rs:345` of the gateway) while
  `config.rs:592` leaves room for one interval only: after a failure a live token may outlive the publication of
  the key it was signed with. `LiveTokensVerify` is about tokens signed with a ring read in time.
- *Lost counts.* A database error in `record_provider_failure` is logged and the failure not counted
  (`dispatch.rs:697`): while it lasts a dead provider's circuit stays closed.
- *Room in the aggregate.* Nothing in `sms-config` relates the two sign-in limits. Those of the example, 5 and
  10, have room for two addresses, and every address typed has a bucket (`login.md` 104 to 112), so three tried
  hard do crowd others out. `NobodyCrowdedOut` says what one, or as many as there is room for, cannot do.
- *A service's row.* A document that names the id of a service's client as the console's stops serve with an
  error that names no command, and `seed-console-client` refuses the row too (`console_client.rs:222` and 311):
  the document has to be changed.
- *Unsent and counted.* A delivery that cannot be built or sealed counts as an attempt like one that was sent
  (`hooks.rs:565`); `CountedMeansSent` counts it as tried.
- *Lapsing early.* A message whose validity ends while it is accepted, queued or routed is claimed by
  nobody (`claim.rs:293`) and `expire_stale.rs:46` does not look at those states; `docs/architecture.md`
  2916 and `docs/integrating.md` 140 say it expires.
- *Death after acceptance.* A dispatcher that dies between the provider's acceptance and the write
  leaves a row that is claimed and sent again (`claim.rs:368`; `docs/integrating.md` 148).
- *Old reference.* A row that becomes uncertain after an undelivered first attempt keeps that attempt's
  reference (`dispatch.rs:625`).
- *Lost session.* The old instance of a singleton role runs on beside the new one
  (`sms-worker/src/lib.rs` 281; the comment at 121 says otherwise). `Exclusion` states what is left.
- *Webhook batches* may outlive the lease they were claimed under (`hooks.rs:381`, `claim.rs:538`); the
  request is then sent twice, its outcome recorded once (`OneOutcomePerDelivery`). Lapsed leases are
  read only as far as due attempts leave room (`claim.rs:713`), and the deactivation after a 410 is lost
  when the endpoint was written meanwhile (`hooks.rs:1050`).
- *Two rotations of the OP's key at once* can each retire the other's new key (`sms-auth/src/op.rs:51`),
  and publishers that interleave can leave a `kid` out of the published set; `OpKeys` has one rotation
  at a time.
- *Two `anchor_audit` runs at once* link to the same predecessor; `anchor_audit.md` 145 rests on there
  being one.
- *The route simulator* counts a provider with an open circuit as available while the worker does not
  (`docs/architecture.md` 2717).
- *Failing fetches of the provider's keys* are not rate limited, successful ones are
  (`sms-auth/src/sso/provider.rs:8` and 493).
- *Encoding.* `remaining_in_segment` overstates what fits after a character that straddled a boundary;
  `normalise` applied twice may differ from once when it drops an invisible character between a letter
  and its combining mark; a suggested replacement can need more parts than what it replaces.
- *Receipts.* A database error while one update of a callback is applied is logged and answered 200
  (`sms-api/src/dlr.rs:64`), so the provider does not repeat it; `AnswersAreRight` says that every update was
  handed to the database.
- *Spellings of an address.* The scan for another spelling and the insert of an account are two
  statements (`sms-auth/src/sso/store.rs:459`).
- *MTN.* An answer 401 does not drop the cached token (`sms-provider-mtn/src/lib.rs:721`).
- *Consent and quiet hours* are checked at acceptance and not at submission.
- *Backups.* The stronger drill of `docs/runbooks/backup-restore.adoc`, pointed at the real remote,
  uploads its scratch dump under the name of a backup, so that `restore --latest` may restore scratch
  data, and prunes with a retention of its own. A health file left by a long stop makes a restarted
  container unhealthy at once, although `schedule.rs` and the runbook (181) grant two periods after
  every start. A scheduled dump taken during a restore is of half a database and becomes the latest. Two
  backups begun in the same second share a name, and a retention of zero days deletes the backup just
  made; the model excludes both.
- *Set-up.* When the answer to storing the hash is lost, `issue_password` removes the file of the
  password that is in force; `provision_client` writes its rows first and its key file after them.
  `PasswordIsHeld` states what is left.
- *Start-up.* A document whose aws entry only sends starts the worker and not the gateway, and one that
  sends without an events topic has no route for its receipts. The error for a missing `jit_role` says
  that an owner can create the role, which needs a gateway that runs and serves keypair.
- *Server keys.* An SDK pins exactly two keys, so whoever takes up the new `next` drops the old key at
  once, which is safe only when gateway and worker have both been restarted; the runbook's order does
  that. A webhook receiver's store of nonces belongs to one process.

## 6. Not modelled, and the plan

What the modules stand for is a share of the source by lines, because most of the rest keeps no state
that two actors share:

- tests, fixtures, fake providers, demo seeds and the repository's own tooling (`.xtask`), a large
  part of the Rust code;
- metrics, request and response layouts, listings and statistics (`grey_route`, dashboards, the paged audit
  log): read only, or formatting;
- the token endpoint's limiter and health answers: wrappers of library state; the
  cryptography, the ORM's transactions and the idempotency layer themselves are libraries, modelled only
  as the code uses them;
- SMPP: the role exists under the lock and its session is not implemented;
- generated clients, the JavaScript bindings, consoles and examples: clients of the API. `cancelMessage`
  and `enqueueJob` are declared in the schema and not implemented.

Left open inside what is modelled: which messages a status filter matches, the order of due webhook
attempts, explanation texts of the route simulator, and the trimming of tables by `purge_retention` other
than the redaction in `Accept`.

What the plan has left is the liveness of section 4's last list, which stays with TLC, and the parts named
above.
