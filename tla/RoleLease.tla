------------------------------ MODULE RoleLease ------------------------------
(***************************************************************************)
(* Leader election for the singleton roles (sms-worker/src/lease.rs and    *)
(* run_singleton in sms-worker/src/lib.rs).  Every worker process runs one *)
(* task per singleton role.  A task opens a connection of its own and asks *)
(* for the role's advisory lock; the one that gets it runs the role until  *)
(* the process is told to stop, the others ask again every RETRY_INTERVAL. *)
(*                                                                         *)
(* The lock belongs to the server's session, not to the process, and the   *)
(* two ends of a connection do not die together:                           *)
(*   - when the process goes, or drops the connection, the session lingers *)
(*     until the server notices (the lock is then held by Orphan);         *)
(*   - when the session goes (a failover of the database, a dropped idle   *)
(*     TCP flow), nothing tells the task: run() does not use the lease's   *)
(*     connection.  SessionsLost says whether that may happen.             *)
(***************************************************************************)
EXTENDS Naturals

CONSTANTS
    Nodes,         \* worker processes
    Roles,         \* singleton roles they all run
    Keys,          \* advisory-lock keys
    KeyOf,         \* lock_key_for_role
    Free, Orphan,  \* lock[k]: nobody's; a session's whose client is gone
    MaxFaults,     \* bound: crashes, shutdowns and failed calls in a behaviour
    SessionsLost   \* whether the server may lose a session its client still uses

ASSUME KeyOfAssumption ==
    /\ KeyOf \in [Roles -> Keys]
    /\ \A q, r \in Roles : KeyOf[q] = KeyOf[r] => q = r
ASSUME HoldersAssumption == Free \notin Nodes /\ Orphan \notin Nodes /\ Free # Orphan
ASSUME LeaseBoundsAssumption == MaxFaults \in Nat /\ SessionsLost \in BOOLEAN

VARIABLES
    task,      \* where each node's task for each role is
    lock,      \* who the server says holds each key
    bereft,    \* ghost: tasks that go on although the server lost their session
    stopping,  \* nodes whose CancellationToken is cancelled
    faults     \* faults so far

vars == <<task, lock, bereft, stopping, faults>>

Tasks == {"down", "asking", "won", "lost", "running", "standby", "releasing"}

Move(n, r, to) ==
    /\ task' = [task EXCEPT ![n][r] = to]
    /\ bereft' = IF to \in {"standby", "down"} THEN bereft \ {<<n, r>>} ELSE bereft

\* The client's end of the connection is closed or dropped: the session, and
\* the lock if it has it, stay until the server notices.
Dropped(n, r) ==
    lock' = [lock EXCEPT ![KeyOf[r]] = IF @ = n THEN Orphan ELSE @]

Fault == faults < MaxFaults /\ faults' = faults + 1

-----------------------------------------------------------------------------
(* run_singleton.                                                          *)

\* pg_try_advisory_lock, as the server executes it.
Ask(n, r) ==
    /\ task[n][r] = "asking"
    /\ IF lock[KeyOf[r]] = Free
       THEN lock' = [lock EXCEPT ![KeyOf[r]] = n] /\ Move(n, r, "won")
       ELSE UNCHANGED lock /\ Move(n, r, "lost")
    /\ UNCHANGED <<stopping, faults>>

\* try_acquire returns: Ok(Some) starts run(), Ok(None) closes the connection.
Acquired(n, r) ==
    /\ task[n][r] = "won"
    /\ Move(n, r, "running")
    /\ UNCHANGED <<lock, stopping, faults>>

HeldElsewhere(n, r) ==
    /\ task[n][r] = "lost"
    /\ Move(n, r, "standby")
    /\ UNCHANGED <<lock, stopping, faults>>

\* run(role): the role polls; what it does is in the modules of the roles.
RunRole(n, r) ==
    /\ task[n][r] = "running"
    /\ UNCHANGED vars

\* Err from try_acquire: no connection, or the query's answer never came.
\* Dropping the connection is all the clean-up there is.  Variant: the
\* connection goes back to a pool, so its session never ends.
AcquireFailsToPool(n, r) ==
    /\ Fault
    /\ task[n][r] \in {"asking", "won", "lost"}
    /\ Move(n, r, "standby")
    /\ UNCHANGED <<lock, stopping>>

AcquireFails(n, r) ==
    /\ Fault
    /\ task[n][r] \in {"asking", "won", "lost"}
    /\ Dropped(n, r)
    /\ Move(n, r, "standby")
    /\ UNCHANGED stopping

Retry(n, r) ==
    /\ task[n][r] = "standby"
    /\ Move(n, r, "asking")
    /\ UNCHANGED <<lock, stopping, faults>>

\* shutdown.cancelled() wins the select.  While running, the role's future is
\* dropped before the lock is released; before that there is only a
\* connection to drop.  Variants: the lock is given up while run() goes on;
\* the connection of an attempt under way stays open.
CancelledUnlocksFirst(n, r) ==
    /\ n \in stopping
    /\ \/ /\ task[n][r] \in {"asking", "won", "lost", "standby"}
          /\ Dropped(n, r)
          /\ Move(n, r, "down")
       \/ /\ task[n][r] = "running"
          /\ lock' = [lock EXCEPT ![KeyOf[r]] = IF @ = n THEN Free ELSE @]
          /\ UNCHANGED <<task, bereft>>
    /\ UNCHANGED <<stopping, faults>>

CancelledKeepsConnection(n, r) ==
    /\ n \in stopping
    /\ \/ /\ task[n][r] \in {"asking", "won", "lost", "standby"}
          /\ Move(n, r, "down")
       \/ /\ task[n][r] = "running"
          /\ Move(n, r, "releasing")
    /\ UNCHANGED <<lock, stopping, faults>>

Cancelled(n, r) ==
    /\ n \in stopping
    /\ \/ /\ task[n][r] \in {"asking", "won", "lost", "standby"}
          /\ Dropped(n, r)
          /\ Move(n, r, "down")
       \/ /\ task[n][r] = "running"
          /\ Move(n, r, "releasing")
          /\ UNCHANGED lock
    /\ UNCHANGED <<stopping, faults>>

\* release: pg_advisory_unlock, then close.  It fails silently when the
\* session is no longer there.
Release(n, r) ==
    /\ task[n][r] = "releasing"
    /\ lock' = [lock EXCEPT ![KeyOf[r]] = IF @ = n THEN Free ELSE @]
    /\ Move(n, r, "down")
    /\ UNCHANGED <<stopping, faults>>

\* The unlock's answer is an error, or SHUTDOWN_GRACE runs out.
ReleaseFails(n, r) ==
    /\ Fault
    /\ task[n][r] = "releasing"
    /\ Dropped(n, r)
    /\ Move(n, r, "down")
    /\ UNCHANGED stopping

-----------------------------------------------------------------------------
(* The process and the server.                                             *)

\* SIGTERM: main cancels the token every task shares.
Shutdown(n) ==
    /\ Fault
    /\ n \notin stopping
    /\ stopping' = stopping \cup {n}
    /\ UNCHANGED <<task, lock, bereft>>

\* kill -9, or a panic of one task, which ends main.
Crash(n) ==
    /\ Fault
    /\ \E r \in Roles : task[n][r] # "down"
    /\ task' = [task EXCEPT ![n] = [r \in Roles |-> "down"]]
    /\ lock' = [k \in Keys |-> IF lock[k] = n THEN Orphan ELSE lock[k]]
    /\ bereft' = bereft \ ({n} \X Roles)
    /\ UNCHANGED stopping

\* The process has ended and a new one starts with the same roles.
Start(n) ==
    /\ \A r \in Roles : task[n][r] = "down"
    /\ task' = [task EXCEPT ![n] = [r \in Roles |-> "asking"]]
    /\ stopping' = stopping \ {n}
    /\ UNCHANGED <<lock, bereft, faults>>

SessionEnds(k) ==
    /\ lock[k] = Orphan
    /\ lock' = [lock EXCEPT ![k] = Free]
    /\ UNCHANGED <<task, bereft, stopping, faults>>

SessionLost(k) ==
    /\ SessionsLost
    /\ Fault
    /\ lock[k] \in Nodes
    /\ lock' = [lock EXCEPT ![k] = Free]
    /\ bereft' = bereft \cup {t \in {lock[k]} \X Roles : KeyOf[t[2]] = k}
    /\ UNCHANGED <<task, stopping>>

-----------------------------------------------------------------------------
Init ==
    /\ task = [n \in Nodes |-> [r \in Roles |-> "down"]]
    /\ lock = [k \in Keys |-> Free]
    /\ bereft = {}
    /\ stopping = {}
    /\ faults = 0

TaskStep(n, r) ==
    \/ Ask(n, r) \/ Acquired(n, r) \/ HeldElsewhere(n, r) \/ AcquireFails(n, r)
    \/ RunRole(n, r) \/ Retry(n, r) \/ Cancelled(n, r) \/ Release(n, r) \/ ReleaseFails(n, r)

Next ==
    \/ \E n \in Nodes : Shutdown(n) \/ Crash(n) \/ Start(n) \/ \E r \in Roles : TaskStep(n, r)
    \/ \E k \in Keys : SessionEnds(k) \/ SessionLost(k)

Spec == Init /\ [][Next]_vars

(* Fairness.  A task never stops polling: the lock query answers, the      *)
(* retry timer fires, a cancelled token is noticed; the server ends the    *)
(* session of a closed connection.  Nothing restarts a process.            *)
Fairness ==
    /\ \A n \in Nodes, r \in Roles :
         /\ WF_vars(Ask(n, r) \/ Acquired(n, r) \/ HeldElsewhere(n, r) \/ Retry(n, r))
         /\ WF_vars(Cancelled(n, r)) /\ WF_vars(Release(n, r))
    /\ \A k \in Keys : WF_vars(SessionEnds(k))

FairSpec == Spec /\ Fairness

-----------------------------------------------------------------------------
(* Properties.                                                             *)

TypeOK ==
    /\ task \in [Nodes -> [Roles -> Tasks]]
    /\ lock \in [Keys -> Nodes \cup {Free, Orphan}]
    /\ bereft \in SUBSET (Nodes \X Roles)
    /\ stopping \in SUBSET Nodes
    /\ faults \in 0..MaxFaults

\* A singleton role has at most one live instance in the cluster, across
\* crashes, shutdowns, restarts and lost answers (Cardinality::Singleton: "At
\* most one live instance cluster-wide").
AtMostOneInstance ==
    \A r \in Roles : \A m, n \in Nodes :
        task[m][r] = "running" /\ task[n][r] = "running" => m = n

\* The same as far as the lock can give it: of two instances at once, one
\* has lost its session without knowing (try_acquire, run_singleton).
ExclusiveWhileSessionLives ==
    \A r \in Roles : \A m, n \in Nodes :
        /\ task[m][r] = "running" /\ <<m, r>> \notin bereft
        /\ task[n][r] = "running" /\ <<n, r>> \notin bereft
        => m = n

\* No lock is left behind: a key the server has given to a live session is
\* being used, or being released, by that node's task for the role with that
\* key (lease.md: no lock stays with a connection nobody uses).
NoLeakedLock ==
    \A n \in Nodes, r \in Roles :
        lock[KeyOf[r]] = n => task[n][r] \in {"won", "running", "releasing"}

\* A role is not left without an instance: while some process stays up, it or
\* another one runs the role again and again, whoever died with the lock
\* (architecture.md 7.2: "a standby node acquires it on its next attempt").
Serving(n, r) == n \notin stopping /\ task[n][r] # "down"

RoleServedAgain ==
    \A r \in Roles :
        (\E n \in Nodes : <>[]Serving(n, r)) => []<>(\E n \in Nodes : task[n][r] = "running")

=============================================================================
