----------------------------- MODULE Hooks_proofs -----------------------------
(***************************************************************************)
(* Webhook delivery, for any number of attempts, endpoints, workers,       *)
(* faults and operators' actions: a delivery has one outcome, and an       *)
(* attempt that failed or was given up was sent as often as it counts.     *)
(* The second needs the count at every stage of a delivery: a leased row   *)
(* is at most one send behind (CountsKept), and the one worker that may    *)
(* still write it has caught up once its request is out (SentByOwner).     *)
(***************************************************************************)
EXTENDS Hooks, TLAPS

AttemptRow == [state : AttemptState, attempts : Nat, lease : Int, wait : Nat]
EndpointRow == [active : BOOLEAN, mode : Modes, failures : Nat, open : Int]
Stages == {"idle", "filtering", "claiming", "delivering", "sending", "answered", "booking"}

\* What a worker holds at each stage of its tick: no lease before it claims,
\* an attempt in hand only from the request to the endpoint's write, and an
\* outcome to write once there is an answer.
StagesHold ==
    \A w \in Workers :
        /\ pc[w] \in {"idle", "filtering"} => claimed[w] = {}
        /\ pc[w] \notin {"sending", "answered", "booking"} => cur[w] = {}
        /\ pc[w] \in {"answered", "booking"} => outcome[w] # "none"
        /\ cur[w] \subseteq claimed[w]

\* What a worker may still write is a row in flight: candidates are pending,
\* failed or delivering, leased rows delivering.
WritersHaveRowsInFlight ==
    \A w \in Workers : \A a \in copy[w] :
        /\ a \in todo[w] => att[a].state \in {"pending", "failed", "delivering"}
        /\ a \in claimed[w] => att[a].state = "delivering"

\* An attempt never counts more than its limit, a retryable one less; and
\* what it counts was sent, but for the delivery under way.
CountsKept ==
    \A a \in Attempts :
        /\ att[a].state \in {"none", "pending"} => att[a].attempts = 0
        /\ att[a].attempts <= MaxAttempts
        /\ att[a].state = "failed" => att[a].attempts < MaxAttempts
        /\ a \notin BadPayload =>
             /\ att[a].state \in {"failed", "dead"} => sends[a] >= att[a].attempts
             /\ att[a].state = "delivering" => sends[a] + 1 >= att[a].attempts

\* The worker that may write the outcome of a request has sent it.
SentByOwner ==
    \A w \in Workers : \A a \in (cur[w] \cap copy[w]) \ BadPayload :
        pc[w] \in {"sending", "answered"} => sends[a] >= att[a].attempts

HInv ==
    /\ TypeOK /\ StagesHold /\ OneOutcomePerDelivery /\ WritersHaveRowsInFlight
    /\ CountsKept /\ SentByOwner

-----------------------------------------------------------------------------
(* The operators the actions write with.                                   *)

\* Every value of backoff_for is one of the schedule's.
LEMMA BackoffType == ASSUME NEW n \in Nat PROVE BackoffFor(n) \in Nat
<1> DEFINE i == IF n < 1 THEN 1 ELSE n
           k == IF i <= Len(Backoff) THEN i ELSE Len(Backoff)
<1>1. k \in 1..Len(Backoff) BY HooksBoundsAssumption
<1>2. Backoff[k] \in Nat BY <1>1, HooksBoundsAssumption
<1> QED BY <1>2 DEF BackoffFor

LEMMA LeftType ==
    ASSUME TypeOK, NEW w \in Workers, NEW t \in Nat
    PROVE  Left(w, t, -1) \in Int /\ Left(w, t, 0) \in Nat
BY DEF TypeOK, Left

\* take_lease writes a delivering row that counts one delivery more, unless
\* it was delivering already.
LEMMA LeaseWriteEffect ==
    ASSUME NEW r \in AttemptRow, NEW left \in Int
    PROVE  /\ LeaseWrite(r, left) \in AttemptRow
           /\ LeaseWrite(r, left).state = "delivering"
           /\ LeaseWrite(r, left).attempts =
                IF r.state = "delivering" THEN r.attempts ELSE r.attempts + 1
<1>1. ASSUME NEW n \in Nat
      PROVE  /\ [r EXCEPT !.state = "delivering", !.lease = left, !.attempts = n] \in AttemptRow
             /\ [r EXCEPT !.state = "delivering", !.lease = left, !.attempts = n].attempts = n
             /\ [r EXCEPT !.state = "delivering", !.lease = left, !.attempts = n].state = "delivering"
  BY DEF AttemptRow, AttemptState
<1>2. r.attempts \in Nat /\ r.attempts + 1 \in Nat BY DEF AttemptRow
<1>3. LeaseWrite(r, left) =
        [r EXCEPT !.state = "delivering", !.lease = left,
                  !.attempts = IF r.state = "delivering" THEN r.attempts ELSE r.attempts + 1]
  BY DEF LeaseWrite
<1> QED BY <1>1, <1>2, <1>3

\* write_outcome ends the delivery without counting: succeeded, dead, or
\* failed below the limit.
LEMMA AttemptWriteEffect ==
    ASSUME NEW r \in AttemptRow, NEW o, NEW left \in Nat
    PROVE  /\ AttemptWrite(r, o, left) \in AttemptRow
           /\ AttemptWrite(r, o, left).state \in {"succeeded", "failed", "dead"}
           /\ AttemptWrite(r, o, left).attempts = r.attempts
           /\ AttemptWrite(r, o, left).state = "failed" => r.attempts < MaxAttempts
<1>1. ASSUME NEW st \in {"succeeded", "failed", "dead"}
      PROVE  /\ Ended(r, st) \in AttemptRow /\ Ended(r, st).state = st
             /\ Ended(r, st).attempts = r.attempts
  BY -1 \in Int DEF Ended, AttemptRow, AttemptState
<1>2. /\ [Ended(r, "failed") EXCEPT !.wait = left] \in AttemptRow
      /\ [Ended(r, "failed") EXCEPT !.wait = left].state = "failed"
      /\ [Ended(r, "failed") EXCEPT !.wait = left].attempts = r.attempts
  <2>1. Ended(r, "failed") \in AttemptRow /\ Ended(r, "failed").state = "failed"
        /\ Ended(r, "failed").attempts = r.attempts
    BY <1>1
  <2> HIDE DEF Ended
  <2> QED BY <2>1 DEF AttemptRow, AttemptState
<1>3. CASE o = "Success" BY <1>1, <1>3 DEF AttemptWrite
<1>4. CASE o = "Retryable" /\ r.attempts < MaxAttempts BY <1>2, <1>4 DEF AttemptWrite
<1>5. CASE o # "Success" /\ ~(o = "Retryable" /\ r.attempts < MaxAttempts)
  BY <1>1, <1>5 DEF AttemptWrite
<1> QED BY <1>3, <1>4, <1>5

LEMMA FreshAttempt ==
    /\ NoAttempt \in AttemptRow /\ NoAttempt.state = "none" /\ NoAttempt.attempts = 0
    /\ [NoAttempt EXCEPT !.state = "pending"] \in AttemptRow
    /\ [NoAttempt EXCEPT !.state = "pending"].state = "pending"
    /\ [NoAttempt EXCEPT !.state = "pending"].attempts = 0
BY -1 \in Int DEF NoAttempt, AttemptRow, AttemptState

\* write_outcome on an endpoint keeps its row typed.
LEMMA EndpointWriteType ==
    ASSUME NEW e \in EndpointRow, NEW left \in Nat,
           NEW o \in {"Success", "Gone", "Retryable", "MalformedPayload"}
    PROVE  EndpointWrite(e, o, left) \in EndpointRow
<1>1. e.failures \in Nat /\ e.failures + 1 \in Nat BY DEF EndpointRow
<1>2. [e EXCEPT !.failures = 0, !.open = -1] \in EndpointRow BY -1 \in Int DEF EndpointRow
<1>3. [e EXCEPT !.active = FALSE] \in EndpointRow BY DEF EndpointRow
<1>4. OnFailure(e, left) \in EndpointRow
  <2>1. [e EXCEPT !.failures = 0, !.open = left] \in EndpointRow BY left \in Int DEF EndpointRow
  <2>2. ASSUME NEW n \in Nat PROVE [e EXCEPT !.failures = n] \in EndpointRow BY DEF EndpointRow
  <2>3. [e EXCEPT !.failures = @ + 1] \in EndpointRow BY <1>1, <2>2
  <2> QED BY <2>1, <2>3 DEF OnFailure
<1> QED BY <1>2, <1>3, <1>4 DEF EndpointWrite

\* webhook_candidates returns rows in flight only.
LEMMA BatchesInFlight ==
    ASSUME NEW w \in Workers, NEW batch \in Batches(w)
    PROVE  batch \in SUBSET Attempts
           /\ \A a \in batch : att[a].state \in {"pending", "failed", "delivering"}
<1>1. ASSUME NEW S, NEW n, NEW T \in Choices(S, n) PROVE T \subseteq S
  BY <1>1 DEF Choices
<1> DEFINE mine(S) == {a \in S : CanClaim(w, EndpointOf[a])}
<1>2. PICK due \in Choices(mine(Due), Budget) :
        batch \in {due \cup lapsed : lapsed \in Choices(mine(Lapsed), Budget - Cardinality(due))}
  BY DEF Batches
<1>3. PICK lapsed \in Choices(mine(Lapsed), Budget - Cardinality(due)) : batch = due \cup lapsed
  BY <1>2
<1>4. due \subseteq mine(Due) /\ lapsed \subseteq mine(Lapsed) BY <1>1, <1>2, <1>3
<1>5. batch \subseteq Due \cup Lapsed BY <1>3, <1>4
<1> QED BY <1>5 DEF Due, Lapsed

-----------------------------------------------------------------------------
(* The guarded writes and the end of a delivery.                           *)

\* if_match on an attempt: nobody else can write it now, and nobody at all
\* once the delivery has ended.
LEMMA WriteAttemptEffect ==
    ASSUME TypeOK, NEW w \in Workers, NEW a \in Attempts, NEW r \in AttemptRow,
           WriteAttempt(w, a, r)
    PROVE  /\ att' \in [Attempts -> AttemptRow] /\ copy' \in [Workers -> SUBSET Attempts]
           /\ att'[a] = r /\ \A b \in Attempts : b # a => att'[b] = att[b]
           /\ \A v \in Workers : copy'[v] \subseteq copy[v]
           /\ \A v \in Workers : a \in copy'[v] => v = w /\ r.state = "delivering"
BY DEF TypeOK, WriteAttempt, AttemptRow

LEMMA WriteEndpointType ==
    ASSUME TypeOK, NEW e \in Endpoints, NEW r \in EndpointRow, WriteEndpoint(e, r)
    PROVE  ep' \in [Endpoints -> EndpointRow] /\ epCopy' \in [Workers -> BOOLEAN]
<1>1. ep' \in [Endpoints -> EndpointRow] BY DEF TypeOK, WriteEndpoint, EndpointRow
<1>2. \A v \in Workers : (epCopy[v] /\ ~Reading(v, e)) \in BOOLEAN BY DEF TypeOK, Reading
<1>3. epCopy' \in [Workers -> BOOLEAN] BY <1>2, Zenon DEF WriteEndpoint
<1> QED BY <1>1, <1>3

\* The next turn of deliver_claimed: the worker lets go of the attempt.
LEMMA NextAttemptEffect ==
    ASSUME TypeOK, StagesHold, NEW w \in Workers, NEW done \in SUBSET Attempts,
           cur[w] \subseteq done, NextAttempt(w, done)
    PROVE  /\ pc' \in [Workers -> Stages] /\ todo' \in [Workers -> SUBSET Attempts]
           /\ claimed' \in [Workers -> SUBSET Attempts] /\ cur' \in [Workers -> SUBSET Attempts]
           /\ outcome' \in [Workers -> {"none", "Success", "Gone", "Retryable",
                                        "MalformedPayload"}]
           /\ age' \in [Workers -> Nat]
           /\ StagesHold'
           /\ \A v \in Workers : /\ claimed'[v] \subseteq claimed[v] /\ todo'[v] = todo[v]
                                 /\ cur'[v] \subseteq cur[v]
                                 /\ cur'[v] # {} => pc'[v] = pc[v]
BY DEF TypeOK, StagesHold, NextAttempt, Stages

-----------------------------------------------------------------------------
(* Types.                                                                  *)

LEMMA InitType == Init => TypeOK
<1> SUFFICES ASSUME Init PROVE TypeOK OBVIOUS
<1>1. att \in [Attempts -> AttemptRow] BY FreshAttempt DEF Init
<1>2. \A m \in Modes : [NewEndpoint EXCEPT !.mode = m] \in EndpointRow
  BY -1 \in Int DEF NewEndpoint, EndpointRow, Modes
<1>3. ep \in [Endpoints -> EndpointRow] BY <1>2 DEF Init
<1> QED BY <1>1, <1>3, HooksBoundsAssumption DEF Init, TypeOK, AttemptRow, EndpointRow

\* Every action keeps the two tables and the workers' lists typed.
LEMMA NextType == TypeOK /\ StagesHold /\ [Next]_vars => TypeOK'
<1> SUFFICES ASSUME TypeOK, StagesHold, [Next]_vars PROVE TypeOK'
  OBVIOUS
<1>a. /\ att \in [Attempts -> AttemptRow] /\ ep \in [Endpoints -> EndpointRow]
      /\ pc \in [Workers -> Stages]
  BY DEF TypeOK, AttemptRow, EndpointRow, Stages
<1>f. Fault => faults' \in 0..MaxFaults BY HooksBoundsAssumption DEF Fault, TypeOK
<1>o. Operator => ops' \in 0..MaxOps BY HooksBoundsAssumption DEF Operator, TypeOK
<1>1. ASSUME NEW w \in Workers, SelectCandidates(w) PROVE TypeOK'
  <2>1. PICK batch \in Batches(w) : todo' = [todo EXCEPT ![w] = batch]
                                    /\ copy' = [copy EXCEPT ![w] = batch]
    BY <1>1 DEF SelectCandidates
  <2>2. batch \in SUBSET Attempts BY BatchesInFlight
  <2> QED BY <1>1, <2>1, <2>2 DEF SelectCandidates, TypeOK
<1>2. ASSUME NEW w \in Workers, FilterByHealth(w) PROVE TypeOK'
  BY <1>2 DEF FilterByHealth, TypeOK
<1>3. ASSUME NEW w \in Workers, TakeLease(w) PROVE TypeOK'
  <2>1. PICK a \in todo[w] :
          /\ \/ /\ a \in copy[w]
                /\ WriteAttempt(w, a, LeaseWrite(att[a], Left(w, HooksLease, -1)))
                /\ claimed' = [claimed EXCEPT ![w] = @ \cup {a}]
             \/ a \notin copy[w] /\ UNCHANGED <<att, copy, claimed>>
          /\ todo' = [todo EXCEPT ![w] = todo[w] \ {a}]
          /\ pc' = [pc EXCEPT ![w] = IF todo[w] \ {a} # {} THEN "claiming"
                                     ELSE IF claimed'[w] = {} THEN "idle" ELSE "delivering"]
          /\ age' = [age EXCEPT ![w] = IF todo[w] \ {a} # {} THEN @ ELSE 0]
    BY <1>3 DEF TakeLease
  <2>2. a \in Attempts /\ att[a] \in AttemptRow BY <1>a DEF TypeOK
  <2>3. Left(w, HooksLease, -1) \in Int BY LeftType, HooksBoundsAssumption
  <2>4. att' \in [Attempts -> AttemptRow] /\ copy' \in [Workers -> SUBSET Attempts]
    <3>1. CASE a \in copy[w]
      <4>1. LeaseWrite(att[a], Left(w, HooksLease, -1)) \in AttemptRow
        BY <2>2, <2>3, LeaseWriteEffect
      <4> QED BY <2>1, <2>2, <3>1, <4>1, WriteAttemptEffect
    <3>2. CASE a \notin copy[w] BY <2>1, <3>2, <1>a DEF TypeOK
    <3> QED BY <3>1, <3>2
  <2>5. claimed' \in [Workers -> SUBSET Attempts]
    <3>1. claimed' = [claimed EXCEPT ![w] = @ \cup {a}] \/ claimed' = claimed BY <2>1
    <3> QED BY <2>2, <3>1 DEF TypeOK
  <2>6. /\ todo' \in [Workers -> SUBSET Attempts] /\ pc' \in [Workers -> Stages]
        /\ age' \in [Workers -> Nat]
    BY <2>1, <1>a DEF TypeOK, Stages
  <2> QED BY <1>3, <2>4, <2>5, <2>6 DEF TakeLease, TypeOK, AttemptRow, Stages
<1>4. ASSUME NEW w \in Workers, FetchEndpoint(w) PROVE TypeOK'
  <2>1. PICK a \in claimed[w] :
          Send(w, a) \/ (NextAttempt(w, {a}) /\ UNCHANGED <<epCopy, sends>>)
    BY <1>4 DEF FetchEndpoint
  <2>2. a \in Attempts /\ cur[w] = {} BY <1>4 DEF TypeOK, StagesHold, FetchEndpoint
  <2>3. CASE Send(w, a)
    <3>1. Up(sends[a], MaxAttempts) \in Nat BY <2>2 DEF TypeOK, Up
    <3>2. sends' \in [Attempts -> Nat] BY <2>2, <2>3, <3>1 DEF TypeOK, Send
    <3> QED BY <1>4, <2>2, <2>3, <3>2, ZenonT(30) DEF FetchEndpoint, Send, TypeOK
  <2>4. CASE NextAttempt(w, {a}) /\ UNCHANGED <<epCopy, sends>>
    BY <1>4, <2>2, <2>4, NextAttemptEffect DEF FetchEndpoint, TypeOK, Stages
  <2> QED BY <2>1, <2>3, <2>4
<1>5. ASSUME NEW w \in Workers, Answer(w) PROVE TypeOK'
  BY <1>5 DEF Answer, TypeOK
<1>6. ASSUME NEW w \in Workers, RecordAttempt(w) PROVE TypeOK'
  <2>1. PICK a \in cur[w] :
          \/ /\ a \in copy[w]
             /\ WriteAttempt(w, a, AttemptWrite(att[a], outcome[w],
                                   Left(w, BackoffFor(att[a].attempts), 0)))
          \/ a \notin copy[w] /\ UNCHANGED <<att, copy>>
    BY <1>6 DEF RecordAttempt
  <2>2. a \in Attempts /\ att[a] \in AttemptRow /\ att[a].attempts \in Nat
    BY <1>a DEF TypeOK, AttemptRow
  <2>3. Left(w, BackoffFor(att[a].attempts), 0) \in Nat BY <2>2, LeftType, BackoffType
  <2>4. att' \in [Attempts -> AttemptRow] /\ copy' \in [Workers -> SUBSET Attempts]
    BY <1>a, <2>1, <2>2, <2>3, AttemptWriteEffect, WriteAttemptEffect DEF TypeOK
  <2> QED BY <1>6, <2>4 DEF RecordAttempt, TypeOK, AttemptRow
<1>7. ASSUME NEW w \in Workers, RecordEndpoint(w) PROVE TypeOK'
  <2>1. PICK a \in cur[w] :
          LET e == EndpointOf[a]
              new == EndpointWrite(ep[e], outcome[w], Left(w, OpenDuration, 0)) IN
          IF epCopy[w] /\ (new # ep[e] \/ outcome[w] \in {"Gone", "Retryable"})
          THEN WriteEndpoint(e, new)
          ELSE UNCHANGED <<ep, epCopy>>
    BY <1>7 DEF RecordEndpoint
  <2>2. a \in Attempts /\ EndpointOf[a] \in Endpoints /\ ep[EndpointOf[a]] \in EndpointRow
    BY <1>a, AttemptsAssumption DEF TypeOK
  <2>3. Left(w, OpenDuration, 0) \in Nat BY LeftType, HooksBoundsAssumption
  <2>4. ep' \in [Endpoints -> EndpointRow] /\ epCopy' \in [Workers -> BOOLEAN]
    <3>1. outcome[w] # "none" BY <1>7 DEF RecordEndpoint, StagesHold
    <3>2. CASE outcome[w] \in {"Success", "Gone", "Retryable", "MalformedPayload"}
      <4>1. EndpointWrite(ep[EndpointOf[a]], outcome[w], Left(w, OpenDuration, 0)) \in EndpointRow
        BY <2>2, <2>3, <3>2, EndpointWriteType
      <4> QED BY <1>a, <2>1, <2>2, <4>1, WriteEndpointType DEF TypeOK
    <3> QED BY <3>1, <3>2 DEF TypeOK
  <2>5. cur[w] \in SUBSET Attempts BY DEF TypeOK
  <2> QED BY <1>7, <2>4, <2>5, NextAttemptEffect DEF RecordEndpoint, TypeOK, EndpointRow, Stages
<1>8. ASSUME NEW w \in Workers, FetchFails(w) PROVE TypeOK'
  <2>1. PICK a \in claimed[w] : NextAttempt(w, {a}) BY <1>8 DEF FetchFails
  <2>2. a \in Attempts /\ cur[w] = {} BY <1>8 DEF TypeOK, StagesHold, FetchFails
  <2> QED BY <1>8, <1>f, <2>1, <2>2, NextAttemptEffect DEF FetchFails, TypeOK, Stages
<1>9. ASSUME NEW w \in Workers, RecordFails(w) PROVE TypeOK'
  <2>1. CASE pc[w] = "answered" BY <1>9, <1>f, <2>1 DEF RecordFails, TypeOK
  <2>2. CASE pc[w] # "answered"
    <3>1. cur[w] \in SUBSET Attempts BY DEF TypeOK
    <3> QED BY <1>9, <1>f, <2>2, <3>1, NextAttemptEffect DEF RecordFails, TypeOK, Stages
  <2> QED BY <2>1, <2>2
<1>10. ASSUME NEW w \in Workers, Stop(w) PROVE TypeOK'
  BY <1>10, <1>f DEF Stop, TypeOK
<1>11. ASSUME NEW a \in Attempts, Enqueue(a) PROVE TypeOK'
  <2>1. att' \in [Attempts -> AttemptRow] BY <1>11, <1>a, FreshAttempt DEF Enqueue
  <2> QED BY <1>11, <2>1 DEF Enqueue, TypeOK, AttemptRow, workerVars
<1>12. ASSUME NEW a \in Attempts, ReplayWebhookAttempt(a) PROVE TypeOK'
  <2>1. att' \in [Attempts -> AttemptRow]
    BY <1>12, <1>a, FreshAttempt DEF ReplayWebhookAttempt
  <2>2. EndpointOf[a] \in Endpoints /\ ep[EndpointOf[a]] \in EndpointRow
    BY <1>a, AttemptsAssumption
  <2>3. [ep[EndpointOf[a]] EXCEPT !.failures = 0, !.open = -1] \in EndpointRow
    BY <2>2, -1 \in Int DEF EndpointRow
  <2>4. ep' \in [Endpoints -> EndpointRow] /\ epCopy' \in [Workers -> BOOLEAN]
    <3>1. \/ WriteEndpoint(EndpointOf[a],
                           [ep[EndpointOf[a]] EXCEPT !.failures = 0, !.open = -1])
          \/ UNCHANGED <<ep, epCopy>>
      BY <1>12 DEF ReplayWebhookAttempt
    <3> QED BY <1>a, <2>2, <2>3, <3>1, WriteEndpointType DEF TypeOK
  <2> QED BY <1>12, <1>o, <2>1, <2>4 DEF ReplayWebhookAttempt, TypeOK, AttemptRow, EndpointRow
<1>13. ASSUME NEW e \in Endpoints, NEW m \in Modes, SwitchWebhookDeliveryMode(e, m) PROVE TypeOK'
  <2>1. [ep[e] EXCEPT !.mode = m] \in EndpointRow BY <1>a DEF EndpointRow
  <2> QED BY <1>13, <1>o, <2>1, WriteEndpointType
          DEF SwitchWebhookDeliveryMode, TypeOK, EndpointRow
<1>14. ASSUME NEW e \in Endpoints, NEW b \in BOOLEAN, PatchEndpoint(e, b) PROVE TypeOK'
  <2>1. [ep[e] EXCEPT !.active = b] \in EndpointRow BY <1>a DEF EndpointRow
  <2> QED BY <1>14, <1>o, <2>1, WriteEndpointType DEF PatchEndpoint, TypeOK, EndpointRow
<1>15. ASSUME TimePasses, faults' \in 0..MaxFaults PROVE TypeOK'
  <2>1. ASSUME NEW a \in Attempts
        PROVE [att[a] EXCEPT !.lease = Down(@, -1), !.wait = Down(@, 0)] \in AttemptRow
    <3>1. att[a].lease \in Int /\ att[a].wait \in Nat BY <1>a DEF AttemptRow
    <3>2. Down(att[a].lease, -1) \in Int /\ Down(att[a].wait, 0) \in Nat BY <3>1 DEF Down
    <3>3. ASSUME NEW l \in Int, NEW t \in Nat
          PROVE [att[a] EXCEPT !.lease = l, !.wait = t] \in AttemptRow
      BY <1>a DEF AttemptRow
    <3> QED BY <3>2, <3>3
  <2>2. ASSUME NEW e \in Endpoints
        PROVE [ep[e] EXCEPT !.open = IF @ = -1 THEN @ ELSE Down(@, 0)] \in EndpointRow
    <3>1. ep[e].open \in Int BY <1>a DEF EndpointRow
    <3>2. (IF ep[e].open = -1 THEN ep[e].open ELSE Down(ep[e].open, 0)) \in Int
      BY <3>1 DEF Down
    <3>3. ASSUME NEW l \in Int PROVE [ep[e] EXCEPT !.open = l] \in EndpointRow
      BY <1>a DEF EndpointRow
    <3> QED BY <3>2, <3>3
  <2>3. att' \in [Attempts -> AttemptRow] BY <1>15, <2>1 DEF TimePasses
  <2>4. ep' \in [Endpoints -> EndpointRow] BY <1>15, <2>2 DEF TimePasses
  <2>5. age' \in [Workers -> Nat]
    <3>1. \A w \in Workers :
            (IF pc[w] \in {"idle", "delivering"} THEN 0 ELSE age[w] + 1) \in Nat
      BY DEF TypeOK
    <3> QED BY <1>15, <3>1, Zenon DEF TimePasses
  <2> QED BY <1>15, <2>3, <2>4, <2>5 DEF TimePasses, TypeOK, AttemptRow, EndpointRow
<1>16. CASE UNCHANGED vars
  BY <1>16 DEF vars, workerVars, TypeOK
<1>17. (Tick \/ Stall) => TypeOK'
  BY <1>15, <1>f DEF Tick, Stall, TypeOK
<1> QED
  BY <1>1, <1>2, <1>3, <1>4, <1>5, <1>6, <1>7, <1>8, <1>9, <1>10, <1>11, <1>12, <1>13, <1>14,
     <1>16, <1>17 DEF Next, WorkerStep

-----------------------------------------------------------------------------
(* The invariant.                                                          *)

\* A step that writes no attempt, reads none and sends nothing keeps what
\* the invariant says of the workers that go on.
LEMMA QuietStep ==
    ASSUME HInv, StagesHold', UNCHANGED <<att, copy, sends>>,
           \A v \in Workers : /\ claimed'[v] \subseteq claimed[v] /\ todo'[v] \subseteq todo[v]
                              /\ cur'[v] \subseteq cur[v]
                              /\ cur'[v] # {} /\ pc'[v] \in {"sending", "answered"}
                                   => pc[v] \in {"sending", "answered"}
    PROVE  /\ OneOutcomePerDelivery' /\ WritersHaveRowsInFlight' /\ CountsKept' /\ SentByOwner'
<1>1. OneOutcomePerDelivery' BY DEF HInv, OneOutcomePerDelivery, Owns
<1>2. WritersHaveRowsInFlight' BY DEF HInv, WritersHaveRowsInFlight
<1>3. CountsKept' BY DEF HInv, CountsKept
<1>4. SentByOwner' BY DEF HInv, SentByOwner
<1> QED BY <1>1, <1>2, <1>3, <1>4

\* take_lease.
LEMMA TakeLeaseInv ==
    ASSUME HInv, NEW w \in Workers, TakeLease(w), TypeOK'
    PROVE  /\ StagesHold' /\ OneOutcomePerDelivery' /\ WritersHaveRowsInFlight'
           /\ CountsKept' /\ SentByOwner'
<1>1. PICK a \in todo[w] :
        /\ \/ /\ a \in copy[w]
              /\ WriteAttempt(w, a, LeaseWrite(att[a], Left(w, HooksLease, -1)))
              /\ claimed' = [claimed EXCEPT ![w] = @ \cup {a}]
           \/ a \notin copy[w] /\ UNCHANGED <<att, copy, claimed>>
        /\ todo' = [todo EXCEPT ![w] = todo[w] \ {a}]
        /\ pc' = [pc EXCEPT ![w] = IF todo[w] \ {a} # {} THEN "claiming"
                                   ELSE IF claimed'[w] = {} THEN "idle" ELSE "delivering"]
  BY DEF TakeLease
<1>2. /\ pc[w] = "claiming" /\ cur' = cur /\ sends' = sends /\ outcome' = outcome
      /\ pc'[w] \in {"claiming", "idle", "delivering"} /\ cur[w] = {}
      /\ \A v \in Workers : v # w => pc'[v] = pc[v] /\ todo'[v] = todo[v]
      /\ todo'[w] = todo[w] \ {a}
  BY <1>1, SMTT(30) DEF TakeLease, HInv, TypeOK, StagesHold
<1>3. StagesHold'
  <2>1. \A v \in Workers : claimed[v] \subseteq claimed'[v] /\ (v # w => claimed'[v] = claimed[v])
    BY <1>1 DEF HInv, TypeOK
  <2>2. pc'[w] = "idle" => claimed'[w] = {} BY <1>1, <1>2 DEF HInv, TypeOK
  <2> QED BY <1>2, <2>1, <2>2 DEF HInv, StagesHold
<1>4. CASE a \notin copy[w]
  <2>1. \A v \in Workers : /\ claimed'[v] \subseteq claimed[v] /\ todo'[v] \subseteq todo[v]
                           /\ cur'[v] \subseteq cur[v]
                           /\ cur'[v] # {} /\ pc'[v] \in {"sending", "answered"}
                                => pc[v] \in {"sending", "answered"}
    BY <1>1, <1>2, <1>4
  <2> QED BY <1>1, <1>2, <1>3, <1>4, <2>1, QuietStep
<1>5. CASE a \in copy[w]
  <2> DEFINE new == LeaseWrite(att[a], Left(w, HooksLease, -1))
  <2>1. a \in Attempts /\ att[a] \in AttemptRow BY DEF HInv, TypeOK, AttemptRow
  <2>2. /\ new \in AttemptRow /\ new.state = "delivering"
        /\ new.attempts = IF att[a].state = "delivering" THEN att[a].attempts
                          ELSE att[a].attempts + 1
    <3>1. Left(w, HooksLease, -1) \in Int BY LeftType, HooksBoundsAssumption DEF HInv
    <3> QED BY <2>1, <3>1, LeaseWriteEffect
  <2> HIDE DEF new
  <2>3. /\ att'[a] = new /\ \A b \in Attempts : b # a => att'[b] = att[b]
        /\ \A v \in Workers : copy'[v] \subseteq copy[v]
        /\ \A v \in Workers : a \in copy'[v] => v = w
    BY <1>1, <1>5, <2>1, <2>2, WriteAttemptEffect DEF HInv, new
  <2>4. \A v \in Workers : claimed'[v] = IF v = w THEN claimed[v] \cup {a} ELSE claimed[v]
    BY <1>1, <1>5 DEF HInv, TypeOK
  <2>5. OneOutcomePerDelivery'
    <3> SUFFICES ASSUME NEW b \in Attempts, NEW u \in Workers, NEW v \in Workers,
                        b \in claimed'[u] \cap copy'[u], b \in claimed'[v] \cap copy'[v]
                 PROVE  u = v
      BY DEF OneOutcomePerDelivery, Owns
    <3>1. CASE b = a BY <2>3, <3>1
    <3>2. CASE b # a
      <4>1. Owns(u, b) /\ Owns(v, b) BY <2>3, <2>4, <3>2 DEF Owns
      <4> QED BY <4>1 DEF HInv, OneOutcomePerDelivery
    <3> QED BY <3>1, <3>2
  <2>6. WritersHaveRowsInFlight'
    <3> SUFFICES ASSUME NEW v \in Workers, NEW b \in copy'[v]
                 PROVE  /\ b \in todo'[v] => att'[b].state \in {"pending", "failed", "delivering"}
                        /\ b \in claimed'[v] => att'[b].state = "delivering"
      BY DEF WritersHaveRowsInFlight
    <3>1. b \in copy[v] /\ b \in Attempts BY <2>3 DEF HInv, TypeOK
    <3>2. CASE b = a BY <2>2, <2>3, <3>2
    <3>3. CASE b # a
      <4>1. att'[b] = att[b] BY <2>3, <3>1, <3>3
      <4>2. b \in todo'[v] => b \in todo[v] BY <1>2
      <4>3. b \in claimed'[v] => b \in claimed[v] BY <2>4, <3>3
      <4> QED BY <3>1, <4>1, <4>2, <4>3 DEF HInv, WritersHaveRowsInFlight
    <3> QED BY <3>2, <3>3
  <2>7. CountsKept'
    <3>1. att[a].state \in {"pending", "failed", "delivering"}
      BY <1>5 DEF HInv, WritersHaveRowsInFlight
    <3>2. att[a].attempts \in Nat /\ sends[a] \in Nat BY <2>1 DEF HInv, TypeOK, AttemptRow
    <3>3. new.attempts <= MaxAttempts
      BY <2>1, <2>2, <3>1, <3>2, HooksBoundsAssumption DEF HInv, CountsKept
    <3>4. a \notin BadPayload => sends[a] + 1 >= new.attempts
      BY <2>1, <2>2, <3>1, <3>2 DEF HInv, CountsKept
    <3> QED BY <1>2, <2>2, <2>3, <3>3, <3>4 DEF HInv, CountsKept
  <2>8. SentByOwner'
    BY <1>2, <2>3 DEF HInv, SentByOwner, TypeOK
  <2> QED BY <1>3, <2>5, <2>6, <2>7, <2>8
<1> QED BY <1>4, <1>5

\* deliver_one up to the request.
LEMMA FetchEndpointInv ==
    ASSUME HInv, NEW w \in Workers, FetchEndpoint(w), TypeOK'
    PROVE  /\ StagesHold' /\ OneOutcomePerDelivery' /\ WritersHaveRowsInFlight'
           /\ CountsKept' /\ SentByOwner'
<1>1. PICK a \in claimed[w] :
        Send(w, a) \/ (NextAttempt(w, {a}) /\ UNCHANGED <<epCopy, sends>>)
  BY DEF FetchEndpoint
<1>2. /\ a \in Attempts /\ pc[w] = "delivering" /\ cur[w] = {} /\ UNCHANGED <<att, copy>>
  BY DEF HInv, TypeOK, StagesHold, FetchEndpoint
<1>3. CASE Send(w, a)
  <2>1. /\ claimed' = claimed /\ todo' = todo /\ cur'[w] = {a} /\ pc'[w] \in {"sending", "answered"}
        /\ pc'[w] = "answered" => a \in BadPayload /\ outcome'[w] = "MalformedPayload"
        /\ \A v \in Workers : v # w => pc'[v] = pc[v] /\ cur'[v] = cur[v] /\ outcome'[v] = outcome[v]
    BY <1>2, <1>3 DEF Send, HInv, TypeOK
  <2>2. /\ \A b \in Attempts : sends'[b] >= sends[b]
        /\ \A b \in Attempts : sends'[b] \in Nat /\ sends[b] \in Nat /\ att[b].attempts \in Nat
    <3>1. Up(sends[a], MaxAttempts) >= sends[a] BY <1>2 DEF Up, HInv, TypeOK
    <3>2. sends' = sends \/ sends' = [sends EXCEPT ![a] = Up(sends[a], MaxAttempts)]
      BY <1>3 DEF Send
    <3>3. \A b \in Attempts : sends[b] \in Nat /\ att[b].attempts \in Nat
      BY DEF HInv, TypeOK
    <3>4. \A b \in Attempts : sends'[b] \in Nat BY DEF TypeOK
    <3>5. \A b \in Attempts : sends'[b] = sends[b] \/ (b = a /\ sends'[b] = Up(sends[a], MaxAttempts))
      BY <1>2, <3>2 DEF HInv, TypeOK
    <3> QED BY <3>1, <3>3, <3>4, <3>5
  <2>3. a \notin BadPayload /\ a \in copy[w] => sends'[a] >= att[a].attempts
    <3>1. a \in copy[w] => att[a].state = "delivering" BY DEF HInv, WritersHaveRowsInFlight
    <3>2. a \notin BadPayload => sends'[a] = Up(sends[a], MaxAttempts)
      BY <1>2, <1>3 DEF Send, HInv, TypeOK
    <3>3. att[a].attempts <= MaxAttempts BY <1>2 DEF HInv, CountsKept
    <3>4. a \notin BadPayload /\ att[a].state = "delivering" => sends[a] + 1 >= att[a].attempts
      BY <1>2 DEF HInv, CountsKept
    <3> QED BY <1>2, <2>2, <3>1, <3>2, <3>3, <3>4, HooksBoundsAssumption DEF Up
  <2>4. StagesHold' BY <2>1 DEF HInv, StagesHold
  <2>5. OneOutcomePerDelivery' BY <1>2, <2>1 DEF HInv, OneOutcomePerDelivery, Owns
  <2>6. WritersHaveRowsInFlight' BY <1>2, <2>1 DEF HInv, WritersHaveRowsInFlight
  <2>7. CountsKept' BY <1>2, <2>2 DEF HInv, CountsKept
  <2>8. SentByOwner'
    <3> SUFFICES ASSUME NEW v \in Workers, NEW b \in (cur'[v] \cap copy[v]) \ BadPayload,
                        pc'[v] \in {"sending", "answered"}
                 PROVE  sends'[b] >= att[b].attempts
      BY <1>2 DEF SentByOwner
    <3>1. CASE v = w BY <2>1, <2>3, <3>1
    <3>2. CASE v # w
      <4>1. b \in Attempts /\ sends[b] >= att[b].attempts
        BY <2>1, <3>2 DEF HInv, SentByOwner, TypeOK
      <4> QED BY <2>2, <4>1
    <3> QED BY <3>1, <3>2
  <2> QED BY <2>4, <2>5, <2>6, <2>7, <2>8
<1>4. CASE NextAttempt(w, {a}) /\ UNCHANGED <<epCopy, sends>>
  <2>1. /\ StagesHold'
        /\ \A v \in Workers : /\ claimed'[v] \subseteq claimed[v] /\ todo'[v] = todo[v]
                              /\ cur'[v] \subseteq cur[v] /\ (cur'[v] # {} => pc'[v] = pc[v])
    BY <1>2, <1>4, NextAttemptEffect DEF HInv
  <2> QED BY <1>2, <1>4, <2>1, QuietStep
<1> QED BY <1>1, <1>3, <1>4

-----------------------------------------------------------------------------
\* write_outcome on the attempt.
LEMMA RecordAttemptInv ==
    ASSUME HInv, NEW w \in Workers, RecordAttempt(w), TypeOK'
    PROVE  /\ StagesHold' /\ OneOutcomePerDelivery' /\ WritersHaveRowsInFlight'
           /\ CountsKept' /\ SentByOwner'
<1> DEFINE new(a) == AttemptWrite(att[a], outcome[w], Left(w, BackoffFor(att[a].attempts), 0))
<1>1. PICK a \in cur[w] : \/ a \in copy[w] /\ WriteAttempt(w, a, new(a))
                          \/ a \notin copy[w] /\ UNCHANGED <<att, copy>>
  BY DEF RecordAttempt
<1>2. /\ pc[w] = "answered" /\ pc'[w] = "booking" /\ UNCHANGED <<todo, claimed, cur, outcome, sends>>
      /\ \A v \in Workers : v # w => pc'[v] = pc[v]
      /\ a \in Attempts /\ att[a] \in AttemptRow /\ att[a].attempts \in Nat /\ a \in claimed[w]
  BY DEF RecordAttempt, HInv, TypeOK, StagesHold, AttemptRow
<1>3. StagesHold' BY <1>2 DEF HInv, StagesHold
<1>4. CASE a \notin copy[w]
  <2>1. \A v \in Workers : pc'[v] \in {"sending", "answered"} => pc[v] \in {"sending", "answered"}
    BY <1>2
  <2> QED BY <1>1, <1>2, <1>3, <1>4, <2>1, QuietStep
<1>5. CASE a \in copy[w]
  <2>1. Left(w, BackoffFor(att[a].attempts), 0) \in Nat BY <1>2, LeftType, BackoffType DEF HInv
  <2>2. /\ new(a) \in AttemptRow /\ new(a).state \in {"succeeded", "failed", "dead"}
        /\ new(a).attempts = att[a].attempts
        /\ new(a).state = "failed" => att[a].attempts < MaxAttempts
    BY <1>2, <2>1, AttemptWriteEffect
  <2> HIDE DEF new
  <2>3. /\ att'[a] = new(a) /\ \A b \in Attempts : b # a => att'[b] = att[b]
        /\ \A v \in Workers : copy'[v] \subseteq copy[v]
        /\ \A v \in Workers : a \notin copy'[v]
    BY <1>1, <1>2, <1>5, <2>2, WriteAttemptEffect DEF HInv
  <2>4. OneOutcomePerDelivery' BY <1>2, <2>3 DEF HInv, OneOutcomePerDelivery, Owns
  <2>5. WritersHaveRowsInFlight' BY <1>2, <2>3, SMTT(30) DEF HInv, TypeOK, WritersHaveRowsInFlight
  <2>6. a \notin BadPayload => sends[a] >= att[a].attempts
    BY <1>2, <1>5 DEF HInv, SentByOwner
  <2>7. CountsKept' BY <1>2, <2>2, <2>3, <2>6 DEF HInv, CountsKept
  <2>8. SentByOwner' BY <1>2, <2>3 DEF HInv, TypeOK, SentByOwner
  <2> QED BY <1>3, <2>4, <2>5, <2>7, <2>8
<1> QED BY <1>4, <1>5

\* replay_attempt, and the first time the attempt is made.
LEMMA RestartInv ==
    ASSUME HInv, NEW a \in Attempts, Enqueue(a) \/ ReplayWebhookAttempt(a), TypeOK'
    PROVE  /\ StagesHold' /\ OneOutcomePerDelivery' /\ WritersHaveRowsInFlight'
           /\ CountsKept' /\ SentByOwner'
<1>1. /\ UNCHANGED <<pc, todo, claimed, cur, outcome>>
      /\ att' = [att EXCEPT ![a] = [NoAttempt EXCEPT !.state = "pending"]]
      /\ \A b \in Attempts : b # a => sends'[b] = sends[b]
      /\ sends'[a] \in Nat
  BY DEF Enqueue, ReplayWebhookAttempt, workerVars, HInv, TypeOK
<1>2. att'[a].state = "pending" /\ att'[a].attempts = 0
      /\ \A b \in Attempts : b # a => att'[b] = att[b]
  BY <1>1, FreshAttempt DEF HInv, TypeOK
<1>3. \A v \in Workers : /\ copy'[v] \subseteq copy[v]
                         /\ a \in copy'[v] => a \notin claimed[v]
  BY DEF Enqueue, ReplayWebhookAttempt, workerVars, HInv, WritersHaveRowsInFlight
<1>4. StagesHold' BY <1>1 DEF HInv, StagesHold
<1>5. OneOutcomePerDelivery' BY <1>1, <1>3 DEF HInv, OneOutcomePerDelivery, Owns
<1>6. WritersHaveRowsInFlight'
  BY <1>1, <1>2, <1>3 DEF HInv, TypeOK, WritersHaveRowsInFlight
<1>7. CountsKept' BY <1>1, <1>2, HooksBoundsAssumption, SMTT(30) DEF HInv, CountsKept
<1>8. SentByOwner'
  <2>1. \A v \in Workers : a \notin cur'[v] \cap copy'[v]
    BY <1>1, <1>3 DEF HInv, StagesHold
  <2> QED BY <1>1, <1>2, <1>3, <2>1 DEF HInv, TypeOK, SentByOwner
<1> QED BY <1>4, <1>5, <1>6, <1>7, <1>8

\* Every action keeps the invariant.
LEMMA NextInv == HInv /\ [Next]_vars => HInv'
<1> SUFFICES ASSUME HInv, [Next]_vars PROVE HInv'
  OBVIOUS
<1>t. TypeOK' BY NextType DEF HInv
<1> DEFINE Rest == /\ StagesHold' /\ OneOutcomePerDelivery' /\ WritersHaveRowsInFlight'
                   /\ CountsKept' /\ SentByOwner'
           Keeps(v) == /\ claimed'[v] \subseteq claimed[v] /\ todo'[v] \subseteq todo[v]
                       /\ cur'[v] \subseteq cur[v]
                       /\ cur'[v] # {} /\ pc'[v] \in {"sending", "answered"}
                            => pc[v] \in {"sending", "answered"}
<1>q. ASSUME StagesHold', UNCHANGED <<att, copy, sends>>, \A v \in Workers : Keeps(v) PROVE Rest
  BY <1>q, QuietStep
<1>1. ASSUME NEW w \in Workers, SelectCandidates(w) PROVE Rest
  <2>1. PICK batch \in Batches(w) : todo' = [todo EXCEPT ![w] = batch]
                                    /\ copy' = [copy EXCEPT ![w] = batch]
    BY <1>1 DEF SelectCandidates
  <2>2. batch \in SUBSET Attempts
        /\ \A a \in batch : att[a].state \in {"pending", "failed", "delivering"}
    BY BatchesInFlight
  <2>3. /\ UNCHANGED <<att, claimed, cur, outcome, sends>> /\ claimed[w] = {} /\ cur[w] = {}
        /\ pc'[w] = "filtering"
        /\ \A v \in Workers : v # w => pc'[v] = pc[v] /\ copy'[v] = copy[v] /\ todo'[v] = todo[v]
        /\ copy'[w] = batch
    BY <1>1, <2>1 DEF SelectCandidates, HInv, TypeOK, StagesHold
  <2>4. StagesHold' BY <2>3 DEF HInv, StagesHold
  <2>5. OneOutcomePerDelivery' BY <2>3 DEF HInv, OneOutcomePerDelivery, Owns
  <2>6. WritersHaveRowsInFlight' BY <2>2, <2>3 DEF HInv, WritersHaveRowsInFlight
  <2>7. CountsKept' BY <2>3 DEF HInv, CountsKept
  <2>8. SentByOwner' BY <2>3 DEF HInv, SentByOwner
  <2> QED BY <2>4, <2>5, <2>6, <2>7, <2>8
<1>2. ASSUME NEW w \in Workers, FilterByHealth(w) PROVE Rest
  <2>1. StagesHold' BY <1>2 DEF FilterByHealth, HInv, StagesHold, TypeOK
  <2>2. \A v \in Workers : Keeps(v) BY <1>2 DEF FilterByHealth, HInv, TypeOK
  <2> QED BY <1>2, <1>q, <2>1, <2>2 DEF FilterByHealth
<1>3. ASSUME NEW w \in Workers, TakeLease(w) PROVE Rest BY <1>3, <1>t, TakeLeaseInv
<1>4. ASSUME NEW w \in Workers, FetchEndpoint(w) PROVE Rest BY <1>4, <1>t, FetchEndpointInv
<1>5. ASSUME NEW w \in Workers, Answer(w) PROVE Rest
  <2>1. StagesHold' BY <1>5 DEF Answer, HInv, StagesHold, TypeOK
  <2>2. \A v \in Workers : Keeps(v) BY <1>5 DEF Answer, HInv, TypeOK
  <2> QED BY <1>5, <1>q, <2>1, <2>2 DEF Answer
<1>6. ASSUME NEW w \in Workers, RecordAttempt(w) PROVE Rest BY <1>6, <1>t, RecordAttemptInv
<1>n. ASSUME NEW w \in Workers, NEW done \in SUBSET Attempts, cur[w] \subseteq done,
             NextAttempt(w, done), UNCHANGED <<att, copy, sends>>
      PROVE  Rest
  <2>1. /\ StagesHold'
        /\ \A v \in Workers : /\ claimed'[v] \subseteq claimed[v] /\ todo'[v] = todo[v]
                              /\ cur'[v] \subseteq cur[v] /\ (cur'[v] # {} => pc'[v] = pc[v])
    BY <1>n, NextAttemptEffect DEF HInv
  <2> QED BY <1>n, <1>q, <2>1
<1>7. ASSUME NEW w \in Workers, RecordEndpoint(w) PROVE Rest
  BY <1>7, <1>n DEF RecordEndpoint, HInv, TypeOK
<1>8. ASSUME NEW w \in Workers, FetchFails(w) PROVE Rest
  <2>1. PICK a \in claimed[w] : NextAttempt(w, {a}) BY <1>8 DEF FetchFails
  <2>2. {a} \in SUBSET Attempts /\ cur[w] = {} BY <1>8 DEF HInv, TypeOK, StagesHold, FetchFails
  <2> QED BY <1>8, <1>n, <2>1, <2>2 DEF FetchFails
<1>9. ASSUME NEW w \in Workers, RecordFails(w) PROVE Rest
  <2>1. CASE pc[w] = "answered"
    <3>1. StagesHold' BY <1>9, <2>1 DEF RecordFails, HInv, StagesHold, TypeOK
    <3>2. \A v \in Workers : Keeps(v) BY <1>9, <2>1 DEF RecordFails, HInv, TypeOK
    <3> QED BY <1>9, <1>q, <3>1, <3>2 DEF RecordFails
  <2>2. CASE pc[w] # "answered" BY <1>9, <1>n, <2>2 DEF RecordFails, HInv, TypeOK
  <2> QED BY <2>1, <2>2
<1>10. ASSUME NEW w \in Workers, Stop(w) PROVE Rest
  <2>1. /\ UNCHANGED <<att, sends>> /\ pc'[w] = "idle" /\ claimed'[w] = {} /\ copy'[w] = {}
        /\ cur'[w] = {}
        /\ \A v \in Workers : v # w => /\ pc'[v] = pc[v] /\ todo'[v] = todo[v] /\ cur'[v] = cur[v]
                                       /\ claimed'[v] = claimed[v] /\ copy'[v] = copy[v]
                                       /\ outcome'[v] = outcome[v]
    BY <1>10 DEF Stop, HInv, TypeOK
  <2>2. StagesHold' BY <2>1 DEF HInv, StagesHold
  <2>3. OneOutcomePerDelivery' BY <2>1 DEF HInv, OneOutcomePerDelivery, Owns
  <2>4. WritersHaveRowsInFlight' BY <2>1 DEF HInv, WritersHaveRowsInFlight
  <2>5. CountsKept' BY <2>1 DEF HInv, CountsKept
  <2>6. SentByOwner' BY <2>1 DEF HInv, SentByOwner
  <2> QED BY <2>2, <2>3, <2>4, <2>5, <2>6
<1>11. ASSUME NEW a \in Attempts, Enqueue(a) \/ ReplayWebhookAttempt(a) PROVE Rest
  BY <1>11, <1>t, RestartInv
<1>s. ASSUME UNCHANGED <<pc, todo, claimed, copy, cur, outcome, sends>>, UNCHANGED att PROVE Rest
  <2>1. StagesHold' BY <1>s DEF HInv, StagesHold
  <2> QED BY <1>s, <1>q, <2>1
<1>12. ASSUME NEW e \in Endpoints, NEW m \in Modes, SwitchWebhookDeliveryMode(e, m) PROVE Rest
  BY <1>12, <1>s DEF SwitchWebhookDeliveryMode
<1>13. ASSUME NEW e \in Endpoints, NEW b \in BOOLEAN, PatchEndpoint(e, b) PROVE Rest
  BY <1>13, <1>s DEF PatchEndpoint
<1>14. ASSUME TimePasses PROVE Rest
  <2>1. \A a \in Attempts : att'[a].state = att[a].state /\ att'[a].attempts = att[a].attempts
    BY <1>14, ZenonT(30) DEF TimePasses, HInv, TypeOK
  <2>2. UNCHANGED <<pc, todo, claimed, copy, cur, outcome, sends>> BY <1>14 DEF TimePasses
  <2>3. StagesHold' BY <2>2 DEF HInv, StagesHold
  <2>4. OneOutcomePerDelivery' BY <2>2 DEF HInv, OneOutcomePerDelivery, Owns
  <2>5. WritersHaveRowsInFlight' BY <2>1, <2>2 DEF HInv, TypeOK, WritersHaveRowsInFlight
  <2>6. CountsKept' BY <2>1, <2>2 DEF HInv, CountsKept
  <2>7. SentByOwner' BY <2>1, <2>2 DEF HInv, TypeOK, SentByOwner
  <2> QED BY <2>3, <2>4, <2>5, <2>6, <2>7
<1>15. ASSUME UNCHANGED vars PROVE Rest BY <1>15, <1>s DEF vars, workerVars
<1>16. Rest
  BY <1>1, <1>2, <1>3, <1>4, <1>5, <1>6, <1>7, <1>8, <1>9, <1>10, <1>11, <1>12, <1>13, <1>14,
     <1>15 DEF Next, WorkerStep, Tick, Stall
<1> QED BY <1>t, <1>16 DEF HInv

-----------------------------------------------------------------------------
\* hooks.rs and claim.rs keep the invariant: leases, copies and counts agree
\* at every stage of a delivery.
THEOREM DeliveryInvariance == Spec => []HInv
<1>1. Init => HInv
  <2> SUFFICES ASSUME Init PROVE HInv OBVIOUS
  <2>1. TypeOK BY InitType
  <2>2. StagesHold /\ OneOutcomePerDelivery /\ WritersHaveRowsInFlight /\ SentByOwner
    BY DEF Init, StagesHold, OneOutcomePerDelivery, Owns, WritersHaveRowsInFlight, SentByOwner
  <2>3. CountsKept BY FreshAttempt, HooksBoundsAssumption DEF Init, CountsKept
  <2> QED BY <2>1, <2>2, <2>3 DEF HInv
<1> QED BY <1>1, NextInv, PTL DEF Spec

\* However many workers deliver an attempt at once (lapsed leases, stalls),
\* at most one of them can still record its outcome (take_lease, write_*).
THEOREM OneRecorder == Spec => []OneOutcomePerDelivery
<1>1. HInv => OneOutcomePerDelivery BY DEF HInv
<1> QED BY <1>1, DeliveryInvariance, PTL

\* An attempt that failed or was given up was sent as often as it counts
\* (deliver_one, write_failed_retry, write_dead), and it never counts more
\* than the endpoint's maxAttempts.
THEOREM FailuresWereSent ==
    Spec => [](CountedMeansSent /\ \A a \in Attempts : att[a].attempts <= MaxAttempts)
<1>1. HInv => CountedMeansSent /\ \A a \in Attempts : att[a].attempts <= MaxAttempts
  BY DEF HInv, CountsKept, CountedMeansSent
<1> QED BY <1>1, DeliveryInvariance, PTL

=============================================================================
