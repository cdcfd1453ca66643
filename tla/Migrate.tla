---------------------------- MODULE Migrate ----------------------------
(* sms-migrate: every release embeds the migrations it knows, in order; the runner takes an
   advisory lock of its session, skips what schema_migrations records and applies the rest,
   each in a transaction of its own. Several runners start at once (hooks, retries, two
   releases), and any of them may die at any point. *)
EXTENDS Naturals, Sequences

CONSTANTS Migrators, Embedded, MaxMigrateRuns, NoMigrator
ASSUME MigrateAssumption ==
  /\ Embedded \in [Migrators -> Nat]   \* how many migrations each runner's release embeds
  /\ MaxMigrateRuns \in Nat            \* bound on the runs of one runner
  /\ NoMigrator \notin Migrators

VARIABLES
  migLock,    \* the session that holds pg_advisory_lock(hashtext('vsms_migrate'))
  mig,        \* per runner: its position, the migration it is at, its runs
  schema,     \* the migrations whose statements took effect, in that order
  recorded    \* schema_migrations
mgvars == <<migLock, mig, schema, recorded>>

MgInit ==
  /\ migLock = NoMigrator
  /\ mig = [m \in Migrators |-> [pc |-> "idle", at |-> 1, runs |-> 0]]
  /\ schema = <<>>
  /\ recorded = {}

MovesTo(m, pc, at) == mig' = [mig EXCEPT ![m].pc = pc, ![m].at = at]

StartMigrate(m) ==
  /\ mig[m].pc \in {"idle", "done", "failed"} /\ mig[m].runs < MaxMigrateRuns
  /\ mig' = [mig EXCEPT ![m] = [pc |-> "lock", at |-> 1, runs |-> @.runs + 1]]
  /\ UNCHANGED <<migLock, schema, recorded>>

(* pg_advisory_lock waits until no other session holds the lock. *)
TakeMigrateLock(m) ==
  /\ mig[m].pc = "lock" /\ migLock = NoMigrator
  /\ migLock' = m
  /\ MovesTo(m, "check", 1)
  /\ UNCHANGED <<schema, recorded>>

CheckApplied(m) ==
  /\ mig[m].pc = "check" /\ mig[m].at <= Embedded[m]
  /\ IF mig[m].at \in recorded THEN MovesTo(m, "check", mig[m].at + 1) ELSE MovesTo(m, "run", mig[m].at)
  /\ UNCHANGED <<migLock, schema, recorded>>

(* up.pre.sql, up.sql and the bookkeeping row, in an open transaction nobody else sees. *)
RunScripts(m) ==
  /\ mig[m].pc = "run"
  /\ MovesTo(m, "commit", mig[m].at)
  /\ UNCHANGED <<migLock, schema, recorded>>

(* The primary key of schema_migrations refuses a second row of a name. *)
Committed(m) ==
  /\ mig[m].at \notin recorded
  /\ schema' = Append(schema, mig[m].at)
  /\ recorded' = recorded \cup {mig[m].at}

CommitMigration(m) ==
  /\ mig[m].pc = "commit"
  /\ Committed(m)
  /\ MovesTo(m, "check", mig[m].at + 1)
  /\ UNCHANGED migLock

ReleaseMigrateLock(m) ==
  /\ mig[m].pc = "check" /\ mig[m].at > Embedded[m]
  /\ migLock' = NoMigrator
  /\ MovesTo(m, "done", mig[m].at)
  /\ UNCHANGED <<schema, recorded>>

(* Variant: the scripts commit by themselves, and the death comes before they are recorded. *)
MigrateFailsUnrecorded(m) ==
  /\ mig[m].pc = "commit"
  /\ migLock' = IF migLock = m THEN NoMigrator ELSE migLock
  /\ MovesTo(m, "failed", mig[m].at)
  /\ schema' = Append(schema, mig[m].at)
  /\ UNCHANGED recorded

(* A statement fails, the process dies or its connection does: the session ends, and with it
   the lock and the open transaction, whose commit may just have been granted. *)
MigrateFails(m) ==
  /\ mig[m].pc \in {"lock", "check", "run", "commit"}
  /\ migLock' = IF migLock = m THEN NoMigrator ELSE migLock
  /\ MovesTo(m, "failed", mig[m].at)
  /\ \/ UNCHANGED <<schema, recorded>>
     \/ mig[m].pc = "commit" /\ Committed(m)

MgNext ==
  \E m \in Migrators :
    \/ StartMigrate(m) \/ TakeMigrateLock(m) \/ CheckApplied(m) \/ RunScripts(m)
    \/ CommitMigration(m) \/ ReleaseMigrateLock(m) \/ MigrateFails(m)

MgSpec == MgInit /\ [][MgNext]_mgvars

(* Every migration of run_migrations takes effect once and after those before it, whoever
   runs it, however many runners start at once and wherever they die; a runner that reports
   "migrations up to date" leaves all its release embeds in effect. *)
AppliedOnceInOrder ==
  /\ \A i \in DOMAIN schema : schema[i] = i
  /\ \A m \in Migrators : mig[m].pc = "done" => Embedded[m] <= Len(schema)
=========================================================================
