----------------------------- MODULE Jobs_proofs -----------------------------
(***************************************************************************)
(* One worker at a time for a kind, and the cadence of its rows, for any   *)
(* number of kinds, rows, workers and faults.  OneOutcomePerClaim needs to *)
(* know that a worker reads new candidates only when it has settled all it *)
(* claimed (AtRest); OneLiveJobPerKind that a row somebody may write is    *)
(* one the dedupe index covers (WritersHaveLiveRows); and CadenceKept that *)
(* last_enqueued is as new as the newest row, but for the kinds of which   *)
(* the scheduler may have missed one (LastIsNewest).                       *)
(***************************************************************************)
EXTENDS Jobs, TLAPS, WellFoundedInduction

\* A worker is done with its candidates once it stopped claiming, and with
\* its claims once it is idle; the handler runs for a claimed row (tick).
AtRest ==
    \A w \in Workers :
        /\ pc[w] # "claiming" => todo[w] = {}
        /\ pc[w] = "idle" => claimed[w] = {}
        /\ cur[w] \subseteq claimed[w]

\* What a worker may still write is live: candidates are pending or running,
\* claimed rows running or failed.
WritersHaveLiveRows ==
    \A w \in Workers : \A j \in copy[w] :
        /\ j \in todo[w] => jobs[j].state \in {"pending", "running"}
        /\ j \in claimed[w] => jobs[j].state \in {"running", "failed"}

\* jobs_dedupe_idx is unique.
IndexIsUnique ==
    \A k \in Kinds : \A a, b \in 1..Slots : Indexed(<<k, a>>) /\ Indexed(<<k, b>>) => a = b

\* The scheduler's memory of a kind is as new as the kind's newest row, and it
\* remembers nothing only when there is none.
Remembers(k) ==
    /\ last[k] = Never => Ages(k) = {}
    /\ last[k] # Never => \A a \in Ages(k) : last[k] <= a

LastIsNewest == up => \A k \in Kinds \ unsure : Remembers(k)

JInv == TypeOK /\ AtRest /\ OneOutcomePerClaim /\ WritersHaveLiveRows /\ IndexIsUnique

\* A set of naturals that is not empty has a least one (min over createdAt).
LEMMA LeastNatural ==
    ASSUME NEW S \in SUBSET Nat, S # {} PROVE \E a \in S : \A b \in S : a <= b
<1> DEFINE less == OpToRel(<, Nat)
<1>1. IsWellFoundedOn(less, Nat) BY NatLessThanWellFounded
<1>2. \A a, b \in Nat : ~(<<b, a>> \in less) => a <= b
  BY DEF OpToRel
<1> HIDE DEF less
<1>3. PICK a \in S : \A b \in S : ~(<<b, a>> \in less)
  BY <1>1, WFMin
<1> QED BY <1>2, <1>3

\* Every value of backoff_for is one of the schedule's.
LEMMA BackoffType == ASSUME NEW n \in Nat PROVE BackoffFor(n) \in Nat
BY TimesAssumption DEF BackoffFor

\* What take_lease and apply_failure write is a row.
LEMMA WritesType ==
    ASSUME NEW r \in Row
    PROVE  /\ \A left \in Int : LeaseWrite(r, left) \in Row
           /\ FailureWrite(r) \in Row
<1>0. r.attempts \in Nat /\ r.attempts <= MaxAttempts + 1 BY TimesAssumption DEF Row
<1>1. ASSUME NEW left \in Int PROVE LeaseWrite(r, left) \in Row
  <2>1. Up(r.attempts, MaxAttempts + 1) \in 0..(MaxAttempts + 1)
    BY <1>0, TimesAssumption DEF Up
  <2>2. [r EXCEPT !.state = "pending", !.lease = -1] \in Row
    BY -1 \in Int DEF Row, JobState
  <2>3. ASSUME NEW n \in 0..(MaxAttempts + 1)
        PROVE  [r EXCEPT !.state = "running", !.attempts = n, !.lease = left] \in Row
    BY DEF Row, JobState
  <2>4. [r EXCEPT !.state = "running", !.attempts = Up(@, MaxAttempts + 1), !.lease = left] \in Row
    BY <2>1, <2>3
  <2> QED BY <2>2, <2>4 DEF LeaseWrite
<1>2. FailureWrite(r) \in Row
  <2>1. [r EXCEPT !.state = "dead"] \in Row
    BY DEF Row, JobState, Finished
  <2>2. ASSUME NEW n \in Nat
        PROVE  [r EXCEPT !.state = "pending", !.wait = n, !.lease = -1] \in Row
    BY -1 \in Int DEF Row, JobState
  <2>3. BackoffFor(r.attempts) \in Nat BY <1>0, BackoffType
  <2>4. [r EXCEPT !.state = "pending", !.wait = BackoffFor(r.attempts), !.lease = -1] \in Row
    BY <2>2, <2>3
  <2> QED BY <2>1, <2>4 DEF FailureWrite
<1> QED BY <1>1, <1>2

\* The states they write.
LEMMA WritesState ==
    ASSUME NEW r \in Row, NEW left \in Int
    PROVE  /\ r.state = "pending" => LeaseWrite(r, left).state = "running"
           /\ r.state # "pending" => LeaseWrite(r, left).state = "pending"
           /\ FailureWrite(r).state \in {"dead", "pending"}
BY DEF Row, LeaseWrite, FailureWrite

LEMMA NoJobType == NoJob \in Row /\ [NoJob EXCEPT !.state = "pending"] \in Row
BY TimesAssumption DEF NoJob, Row, JobState, Finished

\* A guarded write by a worker is typed when the row is.
LEMMA WriteAsType ==
    ASSUME TypeOK, NEW w \in Workers, NEW j \in JobIds, NEW r \in Row, WriteAs(w, j, r)
    PROVE  jobs' \in [JobIds -> Row] /\ copy' \in [Workers -> SUBSET JobIds]
BY DEF TypeOK, WriteAs

\* The end of a handler is typed.
LEMMA NextJobType ==
    ASSUME TypeOK, NEW w \in Workers, NextJob(w)
    PROVE  /\ pc' \in [Workers -> {"idle", "claiming", "running", "handling", "failing"}]
           /\ todo' \in [Workers -> SUBSET JobIds] /\ claimed' \in [Workers -> SUBSET JobIds]
           /\ cur' \in [Workers -> SUBSET JobIds] /\ UNCHANGED <<up, last, unsure>>
BY DEF TypeOK, NextJob, schedVars

\* Every action keeps the tables and the workers' lists typed.
LEMMA NextType == TypeOK /\ [Next]_vars => TypeOK'
<1> SUFFICES ASSUME TypeOK, [Next]_vars PROVE TypeOK'
  OBVIOUS
<1>f. ASSUME NEW p, Fault(p) PROVE faults' \in 0..MaxFaults
  BY <1>f, FaultsAssumption DEF Fault, TypeOK
<1>1. ASSUME NEW w \in Workers, ReadCandidates(w) PROVE TypeOK'
  <2>1. Candidates \in SUBSET JobIds BY DEF Candidates
  <2> QED BY <1>1, <2>1 DEF ReadCandidates, TypeOK, schedVars
<1>2. ASSUME NEW w \in Workers, TakeLease(w) PROVE TypeOK'
  <2>1. PICK j \in todo[w] :
          /\ \/ /\ j \in copy[w]
                /\ \E left \in -1..JobLease : WriteAs(w, j, LeaseWrite(jobs[j], left))
                /\ claimed' = [claimed EXCEPT ![w] = IF jobs[j].state = "pending"
                                                     THEN @ \cup {j} ELSE @]
             \/ j \notin copy[w] /\ UNCHANGED <<jobs, copy, claimed>>
          /\ todo' = [todo EXCEPT ![w] = todo[w] \ {j}]
          /\ pc' = [pc EXCEPT ![w] = IF todo[w] \ {j} # {} THEN "claiming"
                                     ELSE IF claimed'[w] = {} THEN "idle" ELSE "running"]
    BY <1>2 DEF TakeLease
  <2>2. j \in JobIds /\ jobs[j] \in Row BY DEF TypeOK
  <2>3. jobs' \in [JobIds -> Row] /\ copy' \in [Workers -> SUBSET JobIds]
    <3>1. CASE j \in copy[w]
      <4>1. PICK left \in -1..JobLease : WriteAs(w, j, LeaseWrite(jobs[j], left))
        BY <2>1, <3>1
      <4>2. LeaseWrite(jobs[j], left) \in Row BY <2>2, WritesType, TimesAssumption
      <4> QED BY <2>2, <4>1, <4>2, WriteAsType
    <3>2. CASE j \notin copy[w] BY <2>1, <3>2 DEF TypeOK
    <3> QED BY <3>1, <3>2
  <2>4. claimed' \in [Workers -> SUBSET JobIds]
    <3>1. claimed' = [claimed EXCEPT ![w] = @ \cup {j}] \/ claimed' = claimed
      BY <2>1 DEF TypeOK
    <3> QED BY <2>2, <3>1 DEF TypeOK
  <2>5. todo' \in [Workers -> SUBSET JobIds]
        /\ pc' \in [Workers -> {"idle", "claiming", "running", "handling", "failing"}]
    BY <2>1 DEF TypeOK
  <2> QED BY <1>2, <2>3, <2>4, <2>5 DEF TakeLease, TypeOK, schedVars
<1>3. ASSUME NEW w \in Workers, StartHandler(w) PROVE TypeOK'
  BY <1>3 DEF StartHandler, TypeOK, schedVars
<1>4. ASSUME NEW w \in Workers, Succeed(w) PROVE TypeOK'
  <2>1. PICK j \in cur[w] \cap copy[w] : WriteAs(w, j, [jobs[j] EXCEPT !.state = "succeeded"])
    BY <1>4 DEF Succeed
  <2>2. j \in JobIds /\ jobs[j] \in Row BY DEF TypeOK
  <2>3. [jobs[j] EXCEPT !.state = "succeeded"] \in Row BY <2>2 DEF Row, JobState, Finished
  <2>4. jobs' \in [JobIds -> Row] /\ copy' \in [Workers -> SUBSET JobIds]
    BY <2>1, <2>2, <2>3, WriteAsType
  <2> QED BY <1>4, <2>4, NextJobType DEF Succeed, TypeOK
<1>5. ASSUME NEW w \in Workers, Fail(w) PROVE TypeOK'
  <2>1. PICK j \in cur[w] \cap copy[w] : WriteAs(w, j, [jobs[j] EXCEPT !.state = "failed"])
    BY <1>5 DEF Fail
  <2>2. j \in JobIds /\ jobs[j] \in Row BY DEF TypeOK
  <2>3. [jobs[j] EXCEPT !.state = "failed"] \in Row BY <2>2 DEF Row, JobState
  <2>4. jobs' \in [JobIds -> Row] /\ copy' \in [Workers -> SUBSET JobIds]
    BY <2>1, <2>2, <2>3, WriteAsType
  <2> QED BY <1>5, <2>4 DEF Fail, TypeOK, schedVars
<1>6. ASSUME NEW w \in Workers, SettleFailure(w) PROVE TypeOK'
  <2>1. PICK j \in cur[w] \cap copy[w] : WriteAs(w, j, FailureWrite(jobs[j]))
    BY <1>6 DEF SettleFailure
  <2>2. j \in JobIds /\ jobs[j] \in Row BY DEF TypeOK
  <2>3. FailureWrite(jobs[j]) \in Row BY <2>2, WritesType
  <2>4. jobs' \in [JobIds -> Row] /\ copy' \in [Workers -> SUBSET JobIds]
    BY <2>1, <2>2, <2>3, WriteAsType
  <2> QED BY <1>6, <2>4, NextJobType DEF SettleFailure, TypeOK
<1>7. ASSUME NEW w \in Workers, OutcomeIsStale(w) PROVE TypeOK'
  BY <1>7, NextJobType DEF OutcomeIsStale, TypeOK
<1>8. ASSUME NEW w \in Workers, OutcomeLost(w) PROVE TypeOK'
  BY <1>8, <1>f, NextJobType DEF OutcomeLost, TypeOK
<1>9. ASSUME NEW w \in Workers, Stop(w) PROVE TypeOK'
  BY <1>9, <1>f DEF Stop, TypeOK, schedVars
<1>10. ASSUME NEW k \in Kinds, InsertRow(k) \/ UNCHANGED <<jobs, copy>>
       PROVE  jobs' \in [JobIds -> Row] /\ copy' \in [Workers -> SUBSET JobIds]
  <2>1. CASE UNCHANGED <<jobs, copy>> BY <2>1 DEF TypeOK
  <2>2. CASE InsertRow(k)
    <3>1. PICK i \in 1..Slots :
            /\ jobs' = [jobs EXCEPT ![<<k, i>>] = [NoJob EXCEPT !.state = "pending"]]
            /\ copy' = [w \in Workers |-> copy[w] \ {<<k, i>>}]
      BY <2>2 DEF InsertRow
    <3> QED BY <3>1, NoJobType DEF TypeOK
  <2> QED BY <1>10, <2>1, <2>2
<1>18. ASSUME NEW k \in Kinds, Enqueue(k) PROVE TypeOK'
  <2>1. jobs' \in [JobIds -> Row] /\ copy' \in [Workers -> SUBSET JobIds]
    BY <1>10, <1>18 DEF Enqueue
  <2> QED BY <1>18, <2>1 DEF Enqueue, TypeOK
<1>19. ASSUME NEW k \in Kinds, EnqueueFails(k) PROVE TypeOK'
  <2>1. jobs' \in [JobIds -> Row] /\ copy' \in [Workers -> SUBSET JobIds]
    BY <1>10, <1>19 DEF EnqueueFails
  <2> QED BY <1>19, <1>f, <2>1 DEF EnqueueFails, TypeOK
<1>11. ASSUME NEW j \in JobIds, Requeue(j) PROVE TypeOK'
  <2>1. [jobs[j] EXCEPT !.state = "pending", !.attempts = 0, !.lease = -1, !.wait = 0] \in Row
    <3>1. ASSUME NEW r \in Row, NEW n \in 0..(MaxAttempts + 1), NEW m \in Nat
          PROVE  [r EXCEPT !.state = "pending", !.attempts = n, !.lease = -1, !.wait = m] \in Row
      BY -1 \in Int DEF Row, JobState
    <3>2. jobs[j] \in Row /\ 0 \in 0..(MaxAttempts + 1) BY TimesAssumption DEF TypeOK
    <3> QED BY <3>1, <3>2
  <2> QED BY <1>11, <2>1 DEF Requeue, TypeOK, schedVars
<1>12. ASSUME NEW k \in Kinds PROVE Seed(k) \in Nat \cup {Never}
  <2>0. ASSUME NEW i \in 1..Slots PROVE jobs[<<k, i>>].age \in Nat
    BY DEF TypeOK, Row, JobIds
  <2>1. Ages(k) \in SUBSET Nat BY <2>0 DEF Ages
  <2>2. Ages(k) # {} => \E a \in Ages(k) : \A b \in Ages(k) : a <= b
    BY <2>1, LeastNatural
  <2> QED BY <2>1, <2>2 DEF Seed
<1>13. CASE SchedulerStarts
  BY <1>12, <1>13 DEF SchedulerStarts, TypeOK, workerVars
<1>14. ASSUME NEW k \in Kinds, SeedFails(k) PROVE TypeOK'
  BY <1>12, <1>14, <1>f DEF SeedFails, TypeOK, workerVars
<1>15. CASE SchedulerStops
  BY <1>15, <1>f DEF SchedulerStops, TypeOK, workerVars
<1>16. CASE Tick
  <2>1. ASSUME NEW j \in JobIds PROVE jobs'[j] \in Row
    <3>1. jobs[j] \in Row /\ NoJob \in Row BY NoJobType DEF TypeOK
    <3>0. jobs[j].lease \in Int /\ jobs[j].wait \in Nat /\ jobs[j].age \in Nat
      BY <3>1 DEF Row
    <3>2. Down(jobs[j].lease, -1) \in Int /\ Down(jobs[j].wait, 0) \in Nat
          /\ Up(jobs[j].age, Cadence) \in Nat
      BY <3>0, TimesAssumption DEF Up, Down
    <3>3. ASSUME NEW r \in Row, NEW i \in Int, NEW n \in Nat, NEW m \in Nat
          PROVE  [r EXCEPT !.lease = i, !.wait = n, !.age = m] \in Row
      BY DEF Row
    <3>4. [jobs[j] EXCEPT !.lease = Down(@, -1), !.wait = Down(@, 0), !.age = Up(@, Cadence)] \in Row
      BY <3>1, <3>2, <3>3
    <3> QED BY <1>16, <3>1, <3>4 DEF Tick
  <2>2. jobs' \in [JobIds -> Row] BY <1>16, <2>1 DEF Tick
  <2>3. last' \in [Kinds -> Nat \cup {Never}]
    <3>1. ASSUME NEW k \in Kinds PROVE last'[k] \in Nat \cup {Never}
      <4>1. last[k] \in Nat \cup {Never} BY DEF TypeOK
      <4>2. last'[k] = IF last[k] = Never THEN Never ELSE Up(last[k], Cadence)
        BY <1>16 DEF Tick
      <4> QED BY <4>1, <4>2, TimesAssumption DEF Up
    <3> QED BY <1>16, <3>1 DEF Tick
  <2> QED BY <1>16, <2>2, <2>3 DEF Tick, TypeOK, workerVars
<1>17. CASE UNCHANGED vars BY <1>17 DEF vars, workerVars, schedVars, TypeOK
<1> QED
  BY <1>1, <1>2, <1>3, <1>4, <1>5, <1>6, <1>7, <1>8, <1>9, <1>11, <1>13, <1>14, <1>15,
     <1>16, <1>17, <1>18, <1>19 DEF Next, WorkerStep

\* What a guarded write does to the table and to what everybody has read.
LEMMA WriteAsEffect ==
    ASSUME TypeOK, NEW w \in Workers, NEW j \in JobIds, NEW r \in Row, WriteAs(w, j, r)
    PROVE  /\ jobs'[j].state = r.state
           /\ \A i \in JobIds : i # j => jobs'[i] = jobs[i]
           /\ \A v \in Workers : copy'[v] \subseteq copy[v]
           /\ \A v \in Workers : v # w \/ r.state \notin {"running", "failed"} => j \notin copy'[v]
BY DEF TypeOK, WriteAs

\* Writing a row the index covers leaves the index unique.
LEMMA LiveWriteKeepsIndex ==
    ASSUME TypeOK, IndexIsUnique, NEW j \in JobIds, Indexed(j),
           \A i \in JobIds : i # j => jobs'[i] = jobs[i]
    PROVE  IndexIsUnique'
<1> SUFFICES ASSUME NEW k \in Kinds, NEW a \in 1..Slots, NEW b \in 1..Slots,
                    Indexed(<<k, a>>)', Indexed(<<k, b>>)'
             PROVE  a = b
  BY DEF IndexIsUnique
<1>1. <<k, a>> \in JobIds /\ <<k, b>> \in JobIds BY DEF JobIds
<1>2. Indexed(<<k, a>>) /\ Indexed(<<k, b>>) BY <1>1 DEF Indexed
<1> QED BY <1>2 DEF IndexIsUnique

\* A new or a requeued row is the only one the index covers in its kind.
LEMMA FreshWriteKeepsIndex ==
    ASSUME TypeOK, IndexIsUnique, NEW k \in Kinds, NEW n \in 1..Slots, ~KindTaken(k),
           \A i \in JobIds : i # <<k, n>> => jobs'[i] = jobs[i]
    PROVE  IndexIsUnique'
<1> SUFFICES ASSUME NEW q \in Kinds, NEW a \in 1..Slots, NEW b \in 1..Slots,
                    Indexed(<<q, a>>)', Indexed(<<q, b>>)'
             PROVE  a = b
  BY DEF IndexIsUnique
<1>1. <<q, a>> \in JobIds /\ <<q, b>> \in JobIds BY DEF JobIds
<1>2. CASE q = k
  <2>1. ASSUME NEW c \in 1..Slots, Indexed(<<k, c>>)' PROVE c = n
    <3>1. SUFFICES ASSUME c # n PROVE FALSE OBVIOUS
    <3>2. <<k, c>> \in JobIds /\ <<k, c>> # <<k, n>> BY <3>1 DEF JobIds
    <3>3. Indexed(<<k, c>>) BY <2>1, <3>2 DEF Indexed
    <3> QED BY <3>3 DEF KindTaken
  <2> QED BY <1>2, <2>1
<1>3. CASE q # k
  <2>1. <<q, a>> # <<k, n>> /\ <<q, b>> # <<k, n>> BY <1>3
  <2>2. Indexed(<<q, a>>) /\ Indexed(<<q, b>>) BY <1>1, <2>1 DEF Indexed
  <2> QED BY <2>2 DEF IndexIsUnique
<1> QED BY <1>2, <1>3

\* A row written by nobody's claim is out of everybody's hands.
LEMMA ForeignWriteKeepsWorkers ==
    ASSUME TypeOK, NEW j \in JobIds, WritersHaveLiveRows, OneOutcomePerClaim, AtRest,
           \A i \in JobIds : i # j => jobs'[i] = jobs[i],
           copy' = [w \in Workers |-> copy[w] \ {j}], UNCHANGED <<pc, todo, claimed, cur>>
    PROVE  WritersHaveLiveRows' /\ OneOutcomePerClaim' /\ AtRest'
<1>1. AtRest' BY DEF AtRest
<1>2. ASSUME NEW w \in Workers PROVE copy'[w] = copy[w] \ {j} OBVIOUS
<1>3. WritersHaveLiveRows'
  <2>1. ASSUME NEW w \in Workers, NEW i \in copy'[w]
        PROVE  i \in copy[w] /\ i \in JobIds /\ jobs'[i] = jobs[i]
    BY <1>2 DEF TypeOK
  <2> QED BY <2>1 DEF WritersHaveLiveRows
<1>4. OneOutcomePerClaim' BY <1>2 DEF OneOutcomePerClaim, Owns
<1> QED BY <1>1, <1>3, <1>4

\* The end of a handler, whose outcome was written or not.
LEMMA NextJobKeepsRest ==
    ASSUME TypeOK, AtRest, NEW w \in Workers, pc[w] \in {"handling", "failing"}, NextJob(w)
    PROVE  /\ AtRest' /\ todo' = todo
           /\ \A v \in Workers : claimed'[v] \subseteq claimed[v]
           /\ claimed'[w] \cap cur[w] = {}
BY DEF TypeOK, AtRest, NextJob

\* A worker's outcome, and its write, keep what the others may rely on.
LEMMA OutcomeWritten ==
    ASSUME JInv, NEW w \in Workers, NEW j \in cur[w] \cap copy[w], NEW r \in Row, WriteAs(w, j, r),
           todo[w] = {}, todo' = todo,
           \A v \in Workers : claimed'[v] \subseteq claimed[v],
           r.state \in {"running", "failed"} \/ j \notin claimed'[w]
    PROVE  OneOutcomePerClaim' /\ WritersHaveLiveRows' /\ IndexIsUnique'
<1>0. /\ TypeOK /\ j \in JobIds /\ j \in claimed[w] /\ Indexed(j)
  BY DEF JInv, TypeOK, AtRest, WritersHaveLiveRows, Indexed
<1>1. /\ jobs'[j].state = r.state
      /\ \A i \in JobIds : i # j => jobs'[i] = jobs[i]
      /\ \A v \in Workers : copy'[v] \subseteq copy[v]
      /\ \A v \in Workers : v # w \/ r.state \notin {"running", "failed"} => j \notin copy'[v]
  BY <1>0, WriteAsEffect
<1>2. OneOutcomePerClaim' BY <1>1 DEF JInv, OneOutcomePerClaim, Owns
<1>3. WritersHaveLiveRows'
  <2> SUFFICES ASSUME NEW v \in Workers, NEW i \in copy'[v]
               PROVE  /\ i \in todo'[v] => jobs'[i].state \in {"pending", "running"}
                      /\ i \in claimed'[v] => jobs'[i].state \in {"running", "failed"}
    BY DEF WritersHaveLiveRows
  <2>1. i \in copy[v] /\ i \in JobIds BY <1>1, <1>0 DEF TypeOK
  <2>2. CASE i = j BY <1>1, <2>2
  <2>3. CASE i # j BY <1>1, <2>1, <2>3 DEF JInv, WritersHaveLiveRows
  <2> QED BY <2>2, <2>3
<1>4. IndexIsUnique' BY <1>0, <1>1, LiveWriteKeepsIndex DEF JInv
<1> QED BY <1>2, <1>3, <1>4

\* Every step of the workers, the scheduler, the operator and the clock
\* preserves JInv.
LEMMA NextJInv == JInv /\ [Next]_vars => JInv'
<1> SUFFICES ASSUME JInv, [Next]_vars PROVE JInv'
  OBVIOUS
<1>0. TypeOK /\ TypeOK' BY NextType DEF JInv
<1> USE DEF JInv
<1>1. ASSUME NEW w \in Workers, ReadCandidates(w) PROVE JInv'
  <2>1. /\ pc[w] = "idle" /\ jobs' = jobs /\ claimed' = claimed /\ cur' = cur
        /\ pc' = [pc EXCEPT ![w] = "claiming"]
        /\ todo' = [todo EXCEPT ![w] = Candidates]
        /\ copy' = [copy EXCEPT ![w] = Candidates]
    BY <1>1 DEF ReadCandidates
  <2>2. claimed[w] = {} BY <2>1 DEF AtRest
  <2>3. AtRest' BY <1>0, <2>1, <2>2 DEF AtRest, TypeOK
  <2>4. OneOutcomePerClaim' BY <1>0, <2>1, <2>2 DEF OneOutcomePerClaim, Owns, TypeOK
  <2>5. WritersHaveLiveRows'
    BY <1>0, <2>1, <2>2 DEF WritersHaveLiveRows, Candidates, TypeOK
  <2>6. IndexIsUnique' BY <2>1 DEF IndexIsUnique, Indexed
  <2> QED BY <1>0, <2>3, <2>4, <2>5, <2>6
<1>2. ASSUME NEW w \in Workers, TakeLease(w) PROVE JInv'
  <2>1. PICK j \in todo[w] :
          /\ \/ /\ j \in copy[w]
                /\ \E left \in -1..JobLease : WriteAs(w, j, LeaseWrite(jobs[j], left))
                /\ claimed' = [claimed EXCEPT ![w] = IF jobs[j].state = "pending"
                                                     THEN @ \cup {j} ELSE @]
             \/ j \notin copy[w] /\ UNCHANGED <<jobs, copy, claimed>>
          /\ todo' = [todo EXCEPT ![w] = todo[w] \ {j}]
          /\ pc' = [pc EXCEPT ![w] = IF todo[w] \ {j} # {} THEN "claiming"
                                     ELSE IF claimed'[w] = {} THEN "idle" ELSE "running"]
    BY <1>2 DEF TakeLease
  <2>2. /\ pc[w] = "claiming" /\ cur' = cur /\ j \in JobIds /\ jobs[j] \in Row
        /\ \A v \in Workers : claimed[v] \subseteq claimed'[v] /\ (v # w => claimed'[v] = claimed[v])
        /\ \A v \in Workers : v # w => todo'[v] = todo[v] /\ pc'[v] = pc[v]
        /\ todo'[w] = todo[w] \ {j}
    BY <1>0, <1>2, <2>1 DEF TakeLease, TypeOK
  <2>3. AtRest'
    <3>1. pc'[w] # "claiming" => todo'[w] = {} BY <1>0, <2>1 DEF TypeOK
    <3>2. pc'[w] = "idle" => claimed'[w] = {} BY <1>0, <2>1 DEF TypeOK
    <3> QED BY <2>2, <3>1, <3>2 DEF AtRest
  <2>4. CASE j \notin copy[w]
    <3>1. jobs' = jobs /\ copy' = copy /\ claimed' = claimed BY <2>1, <2>4
    <3>2. OneOutcomePerClaim' BY <3>1 DEF OneOutcomePerClaim, Owns
    <3>3. WritersHaveLiveRows' BY <2>2, <3>1 DEF WritersHaveLiveRows
    <3>4. IndexIsUnique' BY <3>1 DEF IndexIsUnique, Indexed
    <3> QED BY <1>0, <2>3, <3>2, <3>3, <3>4
  <2>5. CASE j \in copy[w]
    <3>1. PICK left \in -1..JobLease : WriteAs(w, j, LeaseWrite(jobs[j], left))
      BY <2>1, <2>5
    <3> DEFINE new == LeaseWrite(jobs[j], left)
    <3>2. /\ new \in Row
          /\ jobs[j].state = "pending" => new.state = "running"
          /\ jobs[j].state # "pending" => new.state = "pending"
      BY <2>2, WritesType, WritesState, TimesAssumption
    <3> HIDE DEF new
    <3>3. /\ jobs'[j].state = new.state
          /\ \A i \in JobIds : i # j => jobs'[i] = jobs[i]
          /\ \A v \in Workers : copy'[v] \subseteq copy[v]
          /\ \A v \in Workers : v # w \/ new.state \notin {"running", "failed"} => j \notin copy'[v]
      BY <1>0, <2>2, <3>1, <3>2, WriteAsEffect DEF new
    <3>4. /\ jobs[j].state = "pending" => claimed'[w] = claimed[w] \cup {j}
          /\ jobs[j].state # "pending" => claimed'[w] = claimed[w]
      BY <1>0, <2>1, <2>5 DEF TypeOK
    <3>5. jobs[j].state \in {"pending", "running"} BY <2>5 DEF WritersHaveLiveRows
    <3>6. OneOutcomePerClaim'
      <4> SUFFICES ASSUME NEW i \in JobIds, NEW u \in Workers, NEW v \in Workers,
                          Owns(u, i)', Owns(v, i)'
                   PROVE  u = v
        BY DEF OneOutcomePerClaim
      <4>1. CASE i = j BY <3>2, <3>3, <4>1 DEF Owns
      <4>2. CASE i # j BY <2>2, <3>3, <3>4, <4>2 DEF Owns, OneOutcomePerClaim
      <4> QED BY <4>1, <4>2
    <3>7. WritersHaveLiveRows'
      <4> SUFFICES ASSUME NEW v \in Workers, NEW i \in copy'[v]
                   PROVE  /\ i \in todo'[v] => jobs'[i].state \in {"pending", "running"}
                          /\ i \in claimed'[v] => jobs'[i].state \in {"running", "failed"}
        BY DEF WritersHaveLiveRows
      <4>1. i \in copy[v] /\ i \in JobIds BY <1>0, <3>3 DEF TypeOK
      <4>2. CASE i = j BY <2>2, <3>2, <3>3, <3>5, <4>2
      <4>3. CASE i # j BY <2>2, <3>3, <3>4, <4>1, <4>3 DEF WritersHaveLiveRows
      <4> QED BY <4>2, <4>3
    <3>8. IndexIsUnique' BY <1>0, <2>2, <3>3, <3>5, LiveWriteKeepsIndex DEF Indexed
    <3> QED BY <1>0, <2>3, <3>6, <3>7, <3>8
  <2> QED BY <2>4, <2>5
<1>3. ASSUME NEW w \in Workers, StartHandler(w) PROVE JInv'
  <2>1. /\ UNCHANGED <<jobs, todo, claimed, copy>> /\ pc[w] = "running"
        /\ pc' = [pc EXCEPT ![w] = "handling"]
        /\ \E j \in claimed[w] : cur' = [cur EXCEPT ![w] = {j}]
    BY <1>3 DEF StartHandler
  <2>2. AtRest' BY <1>0, <2>1 DEF AtRest, TypeOK
  <2> QED BY <1>0, <2>1, <2>2 DEF OneOutcomePerClaim, Owns, WritersHaveLiveRows, IndexIsUnique, Indexed
<1>4. ASSUME NEW w \in Workers, Succeed(w) PROVE JInv'
  <2>1. PICK j \in cur[w] \cap copy[w] : WriteAs(w, j, [jobs[j] EXCEPT !.state = "succeeded"])
    BY <1>4 DEF Succeed
  <2>2. [jobs[j] EXCEPT !.state = "succeeded"] \in Row
    <3>1. jobs[j] \in Row BY <1>0 DEF TypeOK
    <3> QED BY <3>1 DEF Row, JobState, Finished
  <2>3. pc[w] = "handling" /\ NextJob(w) /\ todo[w] = {} BY <1>4 DEF Succeed, AtRest
  <2>4. AtRest' /\ todo' = todo /\ (\A v \in Workers : claimed'[v] \subseteq claimed[v])
        /\ j \notin claimed'[w]
    BY <1>0, <2>3, NextJobKeepsRest
  <2> QED BY <1>0, <2>1, <2>2, <2>3, <2>4, OutcomeWritten
<1>5. ASSUME NEW w \in Workers, Fail(w) PROVE JInv'
  <2>1. PICK j \in cur[w] \cap copy[w] : WriteAs(w, j, [jobs[j] EXCEPT !.state = "failed"])
    BY <1>5 DEF Fail
  <2>2. [jobs[j] EXCEPT !.state = "failed"] \in Row /\ [jobs[j] EXCEPT !.state = "failed"].state = "failed"
    BY <1>0 DEF TypeOK, Row, JobState
  <2>3. /\ pc[w] = "handling" /\ todo[w] = {} /\ todo' = todo /\ claimed' = claimed /\ cur' = cur
        /\ pc' = [pc EXCEPT ![w] = "failing"]
    BY <1>5 DEF Fail, AtRest
  <2>4. AtRest' BY <1>0, <2>3 DEF AtRest, TypeOK
  <2> QED BY <1>0, <2>1, <2>2, <2>3, <2>4, OutcomeWritten
<1>6. ASSUME NEW w \in Workers, SettleFailure(w) PROVE JInv'
  <2>1. PICK j \in cur[w] \cap copy[w] : WriteAs(w, j, FailureWrite(jobs[j]))
    BY <1>6 DEF SettleFailure
  <2>2. FailureWrite(jobs[j]) \in Row BY <1>0, WritesType DEF TypeOK
  <2>3. pc[w] = "failing" /\ NextJob(w) /\ todo[w] = {} BY <1>6 DEF SettleFailure, AtRest
  <2>4. AtRest' /\ todo' = todo /\ (\A v \in Workers : claimed'[v] \subseteq claimed[v])
        /\ j \notin claimed'[w]
    BY <1>0, <2>3, NextJobKeepsRest
  <2> QED BY <1>0, <2>1, <2>2, <2>3, <2>4, OutcomeWritten
<1>7. ASSUME NEW w \in Workers, OutcomeIsStale(w) \/ OutcomeLost(w) PROVE JInv'
  <2>1. pc[w] \in {"handling", "failing"} /\ NextJob(w) /\ jobs' = jobs /\ copy' = copy
    BY <1>7 DEF OutcomeIsStale, OutcomeLost
  <2>2. AtRest' /\ todo' = todo /\ (\A v \in Workers : claimed'[v] \subseteq claimed[v])
    BY <1>0, <2>1, NextJobKeepsRest
  <2> QED BY <1>0, <2>1, <2>2 DEF OneOutcomePerClaim, Owns, WritersHaveLiveRows, IndexIsUnique, Indexed
<1>8. ASSUME NEW w \in Workers, Stop(w) PROVE JInv'
  <2>1. /\ jobs' = jobs /\ pc' = [pc EXCEPT ![w] = "idle"] /\ todo' = [todo EXCEPT ![w] = {}]
        /\ claimed' = [claimed EXCEPT ![w] = {}] /\ copy' = [copy EXCEPT ![w] = {}]
        /\ cur' = [cur EXCEPT ![w] = {}]
    BY <1>8 DEF Stop
  <2>2. AtRest' BY <1>0, <2>1 DEF AtRest, TypeOK
  <2>3. OneOutcomePerClaim' BY <1>0, <2>1 DEF OneOutcomePerClaim, Owns, TypeOK
  <2>4. WritersHaveLiveRows' BY <1>0, <2>1 DEF WritersHaveLiveRows, TypeOK
  <2>5. IndexIsUnique' BY <2>1 DEF IndexIsUnique, Indexed
  <2> QED BY <1>0, <2>2, <2>3, <2>4, <2>5
<1>9. ASSUME NEW k \in Kinds, Enqueue(k) \/ EnqueueFails(k) PROVE JInv'
  <2>1. UNCHANGED <<pc, todo, claimed, cur>> /\ (InsertRow(k) \/ UNCHANGED <<jobs, copy>>)
    BY <1>9 DEF Enqueue, EnqueueFails
  <2>2. CASE UNCHANGED <<jobs, copy>>
    BY <1>0, <2>1, <2>2
       DEF AtRest, OneOutcomePerClaim, Owns, WritersHaveLiveRows, IndexIsUnique, Indexed
  <2>3. CASE InsertRow(k)
    <3>1. PICK i \in 1..Slots :
            /\ jobs' = [jobs EXCEPT ![<<k, i>>] = [NoJob EXCEPT !.state = "pending"]]
            /\ copy' = [w \in Workers |-> copy[w] \ {<<k, i>>}]
      BY <2>3 DEF InsertRow
    <3>2. <<k, i>> \in JobIds /\ \A j \in JobIds : j # <<k, i>> => jobs'[j] = jobs[j]
      BY <1>0, <3>1 DEF TypeOK, JobIds
    <3>3. IndexIsUnique' BY <1>0, <2>3, <3>2, FreshWriteKeepsIndex DEF InsertRow
    <3> QED BY <1>0, <2>1, <3>1, <3>2, <3>3, ForeignWriteKeepsWorkers
  <2> QED BY <2>1, <2>2, <2>3
<1>10. ASSUME NEW j \in JobIds, Requeue(j) PROVE JInv'
  <2>1. /\ ~KindTaken(j[1]) /\ UNCHANGED <<pc, todo, claimed, cur>>
        /\ copy' = [w \in Workers |-> copy[w] \ {j}]
        /\ \A i \in JobIds : i # j => jobs'[i] = jobs[i]
    BY <1>0, <1>10 DEF Requeue, TypeOK
  <2>2. j[1] \in Kinds /\ j[2] \in 1..Slots /\ j = <<j[1], j[2]>> BY DEF JobIds
  <2>3. IndexIsUnique' BY <1>0, <2>1, <2>2, FreshWriteKeepsIndex
  <2> QED BY <1>0, <2>1, <2>3, ForeignWriteKeepsWorkers
<1>11. CASE Tick
  <2>1. ASSUME NEW j \in JobIds PROVE jobs'[j].state = jobs[j].state
    <3>1. jobs[j] \in Row BY <1>0 DEF TypeOK
    <3> QED BY <1>11, <3>1 DEF Tick, NoJob, Row
  <2>2. UNCHANGED <<pc, todo, claimed, copy, cur>> BY <1>11 DEF Tick, workerVars
  <2>3. WritersHaveLiveRows' BY <1>0, <2>1, <2>2 DEF WritersHaveLiveRows, TypeOK
  <2>4. IndexIsUnique' BY <2>1 DEF IndexIsUnique, Indexed, JobIds
  <2> QED BY <1>0, <2>2, <2>3, <2>4 DEF AtRest, OneOutcomePerClaim, Owns
<1>12. CASE UNCHANGED <<jobs, workerVars>>
  BY <1>0, <1>12
     DEF workerVars, AtRest, OneOutcomePerClaim, Owns, WritersHaveLiveRows, IndexIsUnique, Indexed
<1>13. ASSUME NEW k \in Kinds, SeedFails(k) PROVE JInv'
  BY <1>12, <1>13 DEF SeedFails
<1>14. CASE SchedulerStarts \/ SchedulerStops \/ UNCHANGED vars
  BY <1>12, <1>14 DEF SchedulerStarts, SchedulerStops, vars
<1> QED
  BY <1>1, <1>2, <1>3, <1>4, <1>5, <1>6, <1>7, <1>8, <1>9, <1>10, <1>11, <1>13, <1>14
     DEF Next, WorkerStep

\* Nothing is enqueued or claimed when the queue is new.
LEMMA InitJInv == Init => JInv
<1> SUFFICES ASSUME Init PROVE JInv OBVIOUS
<1>1. TypeOK
  <2>1. jobs \in [JobIds -> Row] BY NoJobType DEF Init
  <2>2. last \in [Kinds -> Nat \cup {Never}] /\ faults \in 0..MaxFaults
    BY FaultsAssumption DEF Init
  <2> QED BY <2>1, <2>2 DEF Init, TypeOK
<1>2. IndexIsUnique BY DEF Init, IndexIsUnique, Indexed, NoJob, JobIds
<1> QED BY <1>1, <1>2 DEF Init, JInv, AtRest, OneOutcomePerClaim, Owns, WritersHaveLiveRows

\* JInv holds whatever the workers, the scheduler and the operator do.
THEOREM QueueInvariance == Spec => []JInv
BY InitJInv, NextJInv, PTL DEF Spec

\* A kind is worked on by one worker at a time: at most one of its rows may be
\* run, and of the workers that hold one at most one can still record its
\* outcome (take_lease, apply_outcome, jobs_dedupe_idx).
THEOREM OneWorkerPerKind == Spec => []OneAtATime
<1>1. JInv => OneAtATime
  BY DEF JInv, OneAtATime, OneLiveJobPerKind, IndexIsUnique, Indexed
<1> QED BY <1>1, QueueInvariance, PTL

-----------------------------------------------------------------------------
(* The cadence.                                                            *)

\* The seed of a kind is the age of its newest row.
LEMMA SeedIsNewest ==
    ASSUME TypeOK, NEW k \in Kinds
    PROVE  /\ Seed(k) = Never => Ages(k) = {}
           /\ Seed(k) # Never => \A a \in Ages(k) : Seed(k) <= a
<1>0. ASSUME NEW i \in 1..Slots PROVE jobs[<<k, i>>].age \in Nat
  BY DEF TypeOK, Row, JobIds
<1>1. Ages(k) \in SUBSET Nat BY <1>0 DEF Ages
<1>2. Ages(k) # {} => \E a \in Ages(k) : \A b \in Ages(k) : a <= b
  BY <1>1, LeastNatural
<1> QED BY <1>1, <1>2 DEF Seed, Never

\* The ages of a kind are those of its rows.
LEMMA AgesOf ==
    ASSUME NEW k \in Kinds, NEW a \in Ages(k)
    PROVE  \E i \in 1..Slots : jobs[<<k, i>>].state # "none" /\ a = jobs[<<k, i>>].age
BY DEF Ages

\* Writing a row keeps its age, but for a new one, whose kind was enqueued now.
LEMMA SameAges ==
    ASSUME NEW k \in Kinds,
           \A i \in 1..Slots : /\ jobs'[<<k, i>>].age = jobs[<<k, i>>].age
                               /\ jobs'[<<k, i>>].state # "none" => jobs[<<k, i>>].state # "none"
    PROVE  Ages(k)' \subseteq Ages(k)
BY DEF Ages

\* take_lease and apply_failure leave createdAt alone.
LEMMA WritesKeepAge ==
    ASSUME NEW r \in Row
    PROVE  /\ \A left \in Int : LeaseWrite(r, left).age = r.age
           /\ FailureWrite(r).age = r.age
           /\ \A s \in JobState : [r EXCEPT !.state = s].age = r.age
BY DEF Row, LeaseWrite, FailureWrite

\* A worker writes rows that exist, and no worker touches last_enqueued.
LEMMA WorkersKeepLast ==
    ASSUME JInv, LastIsNewest, UNCHANGED schedVars, NEW j \in JobIds, jobs[j].state # "none",
           jobs'[j].age = jobs[j].age, \A i \in JobIds : i # j => jobs'[i] = jobs[i]
    PROVE  LastIsNewest'
<1>1. ASSUME NEW k \in Kinds PROVE Ages(k)' \subseteq Ages(k)
  <2>1. ASSUME NEW i \in 1..Slots
        PROVE  /\ jobs'[<<k, i>>].age = jobs[<<k, i>>].age
               /\ jobs'[<<k, i>>].state # "none" => jobs[<<k, i>>].state # "none"
    <3>1. <<k, i>> \in JobIds BY DEF JobIds
    <3> QED BY <3>1
  <2> QED BY <2>1, SameAges
<1> QED BY <1>1 DEF LastIsNewest, Remembers, schedVars

\* A settled or leased row, by the action that wrote it.
LEMMA WrittenRowKeepsLast ==
    ASSUME JInv, LastIsNewest, UNCHANGED schedVars, NEW w \in Workers, NEW j \in copy[w],
           j \in todo[w] \/ j \in claimed[w], NEW r \in Row, WriteAs(w, j, r), r.age = jobs[j].age
    PROVE  LastIsNewest'
<1>1. j \in JobIds /\ jobs[j].state # "none"
  BY DEF JInv, TypeOK, WritersHaveLiveRows
<1>2. jobs'[j].age = jobs[j].age /\ \A i \in JobIds : i # j => jobs'[i] = jobs[i]
  BY <1>1 DEF JInv, TypeOK, WriteAs
<1> QED BY <1>1, <1>2, WorkersKeepLast

\* The scheduler's memory stays no older than the newest row.
LEMMA NextLast == JInv /\ LastIsNewest /\ [Next]_vars => LastIsNewest'
<1> SUFFICES ASSUME JInv, LastIsNewest, [Next]_vars PROVE LastIsNewest'
  OBVIOUS
<1>0. TypeOK BY DEF JInv
<1>1. CASE UNCHANGED <<jobs, schedVars>> BY <1>1 DEF LastIsNewest, Remembers, Ages, schedVars
<1>2. ASSUME NEW w \in Workers, TakeLease(w) PROVE LastIsNewest'
  <2>1. PICK j \in todo[w] :
          \/ j \in copy[w] /\ \E left \in -1..JobLease : WriteAs(w, j, LeaseWrite(jobs[j], left))
          \/ j \notin copy[w] /\ UNCHANGED <<jobs, copy, claimed>>
    BY <1>2 DEF TakeLease
  <2>2. UNCHANGED schedVars BY <1>2 DEF TakeLease
  <2>3. CASE j \in copy[w]
    <3>1. PICK left \in -1..JobLease : WriteAs(w, j, LeaseWrite(jobs[j], left))
      BY <2>1, <2>3
    <3>2. jobs[j] \in Row /\ left \in Int BY <1>0, TimesAssumption DEF TypeOK
    <3>3. LeaseWrite(jobs[j], left) \in Row /\ LeaseWrite(jobs[j], left).age = jobs[j].age
      BY <3>2, WritesType, WritesKeepAge
    <3> QED BY <2>2, <2>3, <3>1, <3>3, WrittenRowKeepsLast
  <2>4. CASE j \notin copy[w] BY <1>1, <2>1, <2>2, <2>4
  <2> QED BY <2>3, <2>4
<1>3. ASSUME NEW w \in Workers, Succeed(w) \/ Fail(w) PROVE LastIsNewest'
  <2>1. PICK j \in cur[w] \cap copy[w], s \in {"succeeded", "failed"} :
          WriteAs(w, j, [jobs[j] EXCEPT !.state = s])
    BY <1>3 DEF Succeed, Fail
  <2>2. UNCHANGED schedVars BY <1>3 DEF Succeed, Fail, NextJob
  <2>3. jobs[j] \in Row /\ j \in claimed[w] /\ s \in JobState
    BY <1>0 DEF TypeOK, JInv, AtRest, JobState, Finished
  <2>4. [jobs[j] EXCEPT !.state = s] \in Row /\ [jobs[j] EXCEPT !.state = s].age = jobs[j].age
    BY <2>3 DEF Row
  <2> QED BY <2>1, <2>2, <2>3, <2>4, WrittenRowKeepsLast
<1>4. ASSUME NEW w \in Workers, SettleFailure(w) PROVE LastIsNewest'
  <2>1. PICK j \in cur[w] \cap copy[w] : WriteAs(w, j, FailureWrite(jobs[j]))
    BY <1>4 DEF SettleFailure
  <2>2. UNCHANGED schedVars BY <1>4 DEF SettleFailure, NextJob
  <2>3. jobs[j] \in Row /\ j \in claimed[w] BY <1>0 DEF TypeOK, JInv, AtRest
  <2>4. FailureWrite(jobs[j]) \in Row /\ FailureWrite(jobs[j]).age = jobs[j].age
    BY <2>3, WritesType, WritesKeepAge
  <2> QED BY <2>1, <2>2, <2>3, <2>4, WrittenRowKeepsLast
<1>5. ASSUME NEW w \in Workers,
             ReadCandidates(w) \/ StartHandler(w) \/ OutcomeIsStale(w) \/ OutcomeLost(w) \/ Stop(w)
      PROVE  LastIsNewest'
  BY <1>1, <1>5 DEF ReadCandidates, StartHandler, OutcomeIsStale, OutcomeLost, Stop, NextJob
<1>6. ASSUME NEW k \in Kinds, Enqueue(k) \/ EnqueueFails(k) PROVE LastIsNewest'
  <2>0. up /\ up' = up /\ (InsertRow(k) \/ UNCHANGED jobs) BY <1>6 DEF Enqueue, EnqueueFails
  <2>1. \A q \in Kinds : q # k => last'[q] = last[q] /\ (q \notin unsure' => q \notin unsure)
    BY <1>0, <1>6 DEF Enqueue, EnqueueFails, TypeOK
  <2>2. ASSUME NEW q \in Kinds, q # k, NEW i \in 1..Slots PROVE jobs'[<<q, i>>] = jobs[<<q, i>>]
    <3>1. <<q, i>> \in JobIds /\ \A n \in 1..Slots : <<q, i>> # <<k, n>> BY <2>2 DEF JobIds
    <3> QED BY <1>0, <2>0, <3>1 DEF InsertRow, TypeOK
  <2>3. ASSUME NEW q \in Kinds \ unsure', q # k PROVE Remembers(q)'
    <3>1. Ages(q)' \subseteq Ages(q) BY <2>2, <2>3, SameAges
    <3>2. Remembers(q) BY <2>0, <2>1, <2>3 DEF LastIsNewest
    <3> QED BY <2>1, <2>3, <3>1, <3>2 DEF Remembers
  <2>4. ASSUME NEW a \in Ages(k)' PROVE 0 <= a
    <3>1. TypeOK' BY <1>0, NextType
    <3>2. ASSUME NEW i \in 1..Slots PROVE jobs'[<<k, i>>].age \in Nat
      BY <3>1 DEF TypeOK, Row, JobIds
    <3>3. PICK i \in 1..Slots : a = jobs'[<<k, i>>].age BY DEF Ages
    <3> QED BY <3>2, <3>3
  <2>5. k \notin unsure' => Remembers(k)'
    <3>1. CASE Enqueue(k)
      <4>1. last'[k] = 0 BY <1>0, <3>1 DEF Enqueue, TypeOK
      <4> QED BY <2>4, <4>1 DEF Remembers, Never
    <3>2. CASE EnqueueFails(k)
      <4>1. k \notin unsure' => UNCHANGED <<jobs, last, unsure>> BY <3>2 DEF EnqueueFails
      <4> QED BY <2>0, <4>1 DEF LastIsNewest, Remembers, Ages
    <3> QED BY <1>6, <3>1, <3>2
  <2> QED BY <2>3, <2>5 DEF LastIsNewest
<1>7. ASSUME NEW j \in JobIds, Requeue(j) PROVE LastIsNewest'
  <2>1. jobs[j] \in Row BY <1>0 DEF TypeOK
  <2>2. [jobs[j] EXCEPT !.state = "pending", !.attempts = 0, !.lease = -1, !.wait = 0].age = jobs[j].age
    BY <2>1 DEF Row
  <2>3. /\ UNCHANGED schedVars /\ jobs[j].state # "none" /\ jobs'[j].age = jobs[j].age
        /\ \A i \in JobIds : i # j => jobs'[i] = jobs[i]
    BY <1>0, <1>7, <2>2 DEF Requeue, TypeOK
  <2> QED BY <2>3, WorkersKeepLast
<1>8. CASE Tick
  <2>0. UNCHANGED <<up, unsure>> BY <1>8 DEF Tick
  <2> SUFFICES ASSUME up, NEW k \in Kinds \ unsure, NEW a \in Ages(k)' PROVE last'[k] # Never /\ last'[k] <= a
    <3>1. ASSUME up, NEW k \in Kinds \ unsure PROVE Remembers(k)'
      BY <3>1 DEF Remembers
    <3> QED BY <2>0, <3>1 DEF LastIsNewest
  <2>1. PICK i \in 1..Slots : jobs'[<<k, i>>].state # "none" /\ a = jobs'[<<k, i>>].age
    BY DEF Ages
  <2>2. <<k, i>> \in JobIds /\ jobs[<<k, i>>] \in Row BY <1>0 DEF JobIds, TypeOK
  <2>3. jobs[<<k, i>>].state # "none" /\ a = Up(jobs[<<k, i>>].age, Cadence)
    <3>1. jobs'[<<k, i>>] = IF jobs[<<k, i>>].state = "none" THEN NoJob
                ELSE [jobs[<<k, i>>] EXCEPT !.lease = Down(@, -1), !.wait = Down(@, 0),
                                            !.age = Up(@, Cadence)]
      BY <1>8, <2>2 DEF Tick
    <3>2. jobs[<<k, i>>].state # "none" BY <2>1, <3>1 DEF NoJob
    <3> QED BY <2>1, <2>2, <3>1, <3>2 DEF Row
  <2>r. Remembers(k) /\ jobs[<<k, i>>].age \in Ages(k) BY <2>3 DEF LastIsNewest, Ages
  <2>4. last[k] # Never /\ last'[k] = Up(last[k], Cadence) BY <1>8, <2>r DEF Tick, Remembers
  <2>5. last[k] <= jobs[<<k, i>>].age BY <2>r, <2>4 DEF Remembers
  <2>6. PICK n \in Nat : n = last[k] BY <1>0, <2>4 DEF TypeOK
  <2>7. PICK g \in Nat : g = jobs[<<k, i>>].age BY <2>2 DEF Row
  <2>8. n <= g /\ last'[k] = Up(n, Cadence) /\ a = Up(g, Cadence) BY <2>3, <2>4, <2>5, <2>6, <2>7
  <2>9. Cadence \in Nat BY TimesAssumption
  <2>10. Up(n, Cadence) <= Up(g, Cadence) /\ Up(n, Cadence) # Never BY <2>8, <2>9 DEF Up, Never
  <2> QED BY <2>8, <2>10
<1>9. CASE SchedulerStarts
  BY <1>0, <1>9, SeedIsNewest DEF SchedulerStarts, LastIsNewest, Remembers, Ages
<1>10. ASSUME NEW q \in Kinds, SeedFails(q) PROVE LastIsNewest'
  BY <1>0, <1>10, SeedIsNewest DEF SeedFails, LastIsNewest, Remembers, Ages
<1>11. CASE SchedulerStops BY <1>11 DEF SchedulerStops, LastIsNewest
<1>12. CASE UNCHANGED vars BY <1>1, <1>12 DEF vars
<1> QED
  BY <1>2, <1>3, <1>4, <1>5, <1>6, <1>7, <1>8, <1>9, <1>10, <1>11, <1>12 DEF Next, WorkerStep

\* A scheduler that is sure of a kind inserts only when it is due (tick).
LEMMA InsertedWhenDue ==
    ASSUME JInv, LastIsNewest, NEW k \in Kinds \ unsure, Inserted(k)
    PROVE  \A a \in Ages(k) : a >= Cadence
<1>1. up /\ Due(k) BY DEF Inserted, Enqueue, EnqueueFails
<1>2. Remembers(k) BY <1>1 DEF LastIsNewest
<1>3. ASSUME NEW i \in 1..Slots PROVE jobs[<<k, i>>].age \in Nat
  BY DEF JInv, TypeOK, Row, JobIds
<1>4. Ages(k) \in SUBSET Nat BY <1>3 DEF Ages
<1>5. last[k] \in Nat \cup {Never} BY DEF JInv, TypeOK
<1> QED BY <1>1, <1>2, <1>4, <1>5, TimesAssumption DEF Remembers, Due, Never

\* A row is inserted only a cadence after the newest one of its kind, also over
\* a change of the process that runs the scheduler; the exceptions are the kinds
\* whose rows it could not read and those whose last insert it heard nothing of
\* (seed_last_enqueued, tick, try_enqueue).
THEOREM RowsKeepTheCadence == Spec => CadenceKept
<1>1. Init => LastIsNewest BY DEF Init, LastIsNewest
<1>2. JInv /\ LastIsNewest /\ [Next]_vars =>
        [\A k \in Kinds \ unsure : Inserted(k) => \A a \in Ages(k) : a >= Cadence]_vars
  BY InsertedWhenDue
<1> QED BY <1>1, <1>2, InitJInv, NextJInv, NextLast, PTL DEF Spec, CadenceKept

=============================================================================
