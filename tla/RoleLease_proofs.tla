--------------------------- MODULE RoleLease_proofs ---------------------------
(***************************************************************************)
(* The exclusion the advisory lock gives, for any number of processes and  *)
(* roles.  Exclusion alone is not inductive: it needs that a task that has *)
(* won still has the lock unless its session was lost (HolderHasLock), and *)
(* that the lock never points to a task that does not know it (NoLeakedLock). *)
(***************************************************************************)
EXTENDS RoleLease, TLAPS

Owner == {"won", "running", "releasing"}

\* Whoever has won has the lock, or has lost its session without knowing.
HolderHasLock ==
    \A n \in Nodes, r \in Roles :
        task[n][r] \in Owner /\ <<n, r>> \notin bereft => lock[KeyOf[r]] = n

\* Nobody is bereft while the server keeps every session.
LossIsTheOnlyCause == ~SessionsLost => bereft = {}

LInv == TypeOK /\ NoLeakedLock /\ HolderHasLock /\ LossIsTheOnlyCause

\* With no process up nobody has a lock.
LEMMA InitLInv == Init => LInv
BY KeyOfAssumption, HoldersAssumption, LeaseBoundsAssumption
   DEF Init, LInv, TypeOK, Tasks, NoLeakedLock, HolderHasLock, LossIsTheOnlyCause, Owner

\* The bookkeeping every action shares.
LEMMA NextType == TypeOK /\ [Next]_vars => TypeOK'
<1> SUFFICES ASSUME TypeOK, [Next]_vars PROVE TypeOK'
  OBVIOUS
<1> USE KeyOfAssumption, HoldersAssumption, LeaseBoundsAssumption DEF TypeOK, Tasks
<1>1. ASSUME NEW n \in Nodes, NEW r \in Roles, TaskStep(n, r) PROVE TypeOK'
  <2>1. CASE Ask(n, r)
    <3>1. task' \in [Nodes -> [Roles -> Tasks]] /\ bereft' = bereft
      BY <2>1, SMTT(30) DEF Ask, Move
    <3>2. lock' \in [Keys -> Nodes \cup {Free, Orphan}]
      BY <2>1 DEF Ask
    <3> QED BY <2>1, <3>1, <3>2 DEF Ask
  <2>2. CASE Acquired(n, r) BY <2>2 DEF Acquired, Move
  <2>3. CASE HeldElsewhere(n, r) BY <2>3 DEF HeldElsewhere, Move
  <2>4. CASE AcquireFails(n, r) BY <2>4 DEF AcquireFails, Move, Dropped, Fault
  <2>5. CASE RunRole(n, r) BY <2>5 DEF RunRole, vars
  <2>6. CASE Retry(n, r) BY <2>6 DEF Retry, Move
  <2>7. CASE Cancelled(n, r)
    <3>1. CASE Dropped(n, r) /\ Move(n, r, "down")
      BY <2>7, <3>1 DEF Cancelled, Move, Dropped
    <3>2. CASE Move(n, r, "releasing") /\ UNCHANGED lock
      BY <2>7, <3>2 DEF Cancelled, Move
    <3> QED BY <2>7, <3>1, <3>2 DEF Cancelled
  <2>8. CASE Release(n, r) BY <2>8 DEF Release, Move
  <2>9. CASE ReleaseFails(n, r) BY <2>9 DEF ReleaseFails, Move, Dropped, Fault
  <2> QED BY <1>1, <2>1, <2>2, <2>3, <2>4, <2>5, <2>6, <2>7, <2>8, <2>9 DEF TaskStep
<1>2. ASSUME NEW n \in Nodes, Shutdown(n) PROVE TypeOK' BY <1>2 DEF Shutdown, Fault
<1>3. ASSUME NEW n \in Nodes, Crash(n) PROVE TypeOK' BY <1>3 DEF Crash, Fault
<1>4. ASSUME NEW n \in Nodes, Start(n) PROVE TypeOK' BY <1>4 DEF Start
<1>5. ASSUME NEW k \in Keys, SessionEnds(k) PROVE TypeOK' BY <1>5 DEF SessionEnds
<1>6. ASSUME NEW k \in Keys, SessionLost(k) PROVE TypeOK' BY <1>6 DEF SessionLost, Fault
<1>7. CASE UNCHANGED vars BY <1>7 DEF vars
<1> QED BY <1>1, <1>2, <1>3, <1>4, <1>5, <1>6, <1>7 DEF Next

\* A step of one task.
LEMMA TaskStepLInv ==
    ASSUME LInv, TypeOK', NEW n \in Nodes, NEW r \in Roles, TaskStep(n, r)
    PROVE  LInv'
<1> USE KeyOfAssumption, HoldersAssumption
    DEF LInv, TypeOK, Tasks, NoLeakedLock, HolderHasLock, LossIsTheOnlyCause, Owner
<1>1. CASE Ask(n, r)
  <2>0. bereft' = bereft /\ task[n][r] = "asking"
    BY <1>1 DEF Ask, Move
  <2>1. CASE lock[KeyOf[r]] = Free
    <3>1. lock' = [lock EXCEPT ![KeyOf[r]] = n] /\ task' = [task EXCEPT ![n][r] = "won"]
      BY <1>1, <2>1 DEF Ask, Move
    <3>2. NoLeakedLock' BY <2>1, <3>1
    <3>3. HolderHasLock' BY <2>0, <2>1, <3>1
    <3> QED BY <2>0, <3>2, <3>3
  <2>2. CASE lock[KeyOf[r]] # Free
    <3>1. lock' = lock /\ task' = [task EXCEPT ![n][r] = "lost"]
      BY <1>1, <2>2 DEF Ask, Move
    <3>2. NoLeakedLock' BY <2>0, <3>1
    <3>3. HolderHasLock' BY <2>0, <3>1
    <3> QED BY <2>0, <3>2, <3>3
  <2> QED BY <2>1, <2>2
<1>2. CASE Acquired(n, r) BY <1>2 DEF Acquired, Move
<1>3. CASE HeldElsewhere(n, r) BY <1>3 DEF HeldElsewhere, Move
<1>4. CASE AcquireFails(n, r) BY <1>4 DEF AcquireFails, Move, Dropped
<1>5. CASE RunRole(n, r) BY <1>5 DEF RunRole, vars
<1>6. CASE Retry(n, r) BY <1>6 DEF Retry, Move
<1>7. CASE Cancelled(n, r) BY <1>7, SMTT(30) DEF Cancelled, Move, Dropped
<1>8. CASE Release(n, r) BY <1>8 DEF Release, Move
<1>9. CASE ReleaseFails(n, r) BY <1>9 DEF ReleaseFails, Move, Dropped
<1> QED BY <1>1, <1>2, <1>3, <1>4, <1>5, <1>6, <1>7, <1>8, <1>9 DEF TaskStep

\* Every step of a task, a process or the server preserves LInv.
LEMMA NextLInv == LInv /\ [Next]_vars => LInv'
<1> SUFFICES ASSUME LInv, [Next]_vars PROVE LInv'
  OBVIOUS
<1>0. TypeOK' BY NextType DEF LInv
<1> USE KeyOfAssumption, HoldersAssumption, <1>0
<1>1. ASSUME NEW n \in Nodes, NEW r \in Roles, TaskStep(n, r) PROVE LInv'
  BY <1>1, TaskStepLInv
<1> USE DEF LInv, TypeOK, Tasks, NoLeakedLock, HolderHasLock, LossIsTheOnlyCause, Owner
<1>2. ASSUME NEW n \in Nodes, Shutdown(n) PROVE LInv' BY <1>2 DEF Shutdown
<1>3. ASSUME NEW n \in Nodes, Crash(n) PROVE LInv' BY <1>3 DEF Crash
<1>4. ASSUME NEW n \in Nodes, Start(n) PROVE LInv' BY <1>4 DEF Start
<1>5. ASSUME NEW k \in Keys, SessionEnds(k) PROVE LInv' BY <1>5 DEF SessionEnds
<1>6. ASSUME NEW k \in Keys, SessionLost(k) PROVE LInv' BY <1>6 DEF SessionLost
<1>7. CASE UNCHANGED vars BY <1>7 DEF vars
<1> QED BY <1>1, <1>2, <1>3, <1>4, <1>5, <1>6, <1>7 DEF Next

\* LInv is an invariant of run_singleton's tasks and the server.
THEOREM LeaseInvariance == Spec => []LInv
BY InitLInv, NextLInv, PTL DEF Spec

\* Of two instances of a singleton role, one has lost its session
\* (try_acquire, release, run_singleton; lease.rs).
THEOREM Exclusion == Spec => []ExclusiveWhileSessionLives
<1>1. LInv => ExclusiveWhileSessionLives
  BY KeyOfAssumption DEF LInv, HolderHasLock, ExclusiveWhileSessionLives, Owner
<1> QED BY <1>1, LeaseInvariance, PTL

\* No key stays with a task that is not using it (lease.md's trap).
THEOREM LocksAreNotLeaked == Spec => []NoLeakedLock
<1>1. LInv => NoLeakedLock BY DEF LInv
<1> QED BY <1>1, LeaseInvariance, PTL

\* If the database never loses a session, a singleton role has at most one
\* instance (Cardinality::Singleton).
THEOREM SingletonRoles == Spec => [](~SessionsLost => AtMostOneInstance)
<1>1. LInv => (~SessionsLost => AtMostOneInstance)
  BY KeyOfAssumption DEF LInv, HolderHasLock, LossIsTheOnlyCause, AtMostOneInstance, Owner
<1> QED BY <1>1, LeaseInvariance, PTL

===============================================================================
