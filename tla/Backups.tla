---------------------------- MODULE Backups ----------------------------
(* vsms-backup: the scheduler's container, an operator's own backup, a restore drill and a
   restore share one remote and know of each other only through what lies on it. A backup is
   a dump and then a manifest, named after the moment it began, and pruning of what is older
   than the retention; the health check reads two local files. *)
EXTENDS Naturals

CONSTANTS Backers, Period, Retention, DrillRetention, MaxRun, MaxBackupClock, MaxCommands, MaxBackupFaults, Long
ASSUME BackupAssumption ==
  /\ "sched" \in Backers /\ Backers \subseteq {"sched", "manual", "drill"}
  /\ Period \in Nat \ {0}          \* between two occurrences of BACKUP_CRON_SCHEDULE
  /\ MaxRun \in Nat                \* how long one backup takes at most
  /\ Retention \in Nat /\ DrillRetention \in Nat
  /\ Retention > 2 * Period + MaxRun
  /\ DrillRetention > 2 * Period + MaxRun /\ DrillRetention > 2 * MaxRun
  /\ MaxBackupClock \in Nat        \* bound on the time explored
  /\ MaxCommands \in Nat           \* bound on the backups, drills and restores people start
  /\ MaxBackupFaults \in Nat       \* bound on the backups that fail or are cut off
  /\ Long \notin Nat               \* a file that does not exist

VARIABLES
  bnow,       \* the clock
  dumps,      \* the dumps on the remote: when each began, of which database, taken from a whole one
  manifests,  \* the manifests on the remote, by the same name
  bk,         \* per backer: its position, its dump, when its next backup is due
  health,     \* when the health file was touched, or Long
  marker,     \* when the start marker was, or Long (also where the health file hides it)
  db,         \* the production database: live, being restored, or half restored
  restored,   \* a restore has run into it
  commands,   \* how many people have started
  bfaults,    \* how many backups failed or were cut off
  landed      \* a backup of it was completed on the remote, and no drill has pruned there since
bkvars == <<bnow, dumps, manifests, bk, health, marker, db, restored, commands, bfaults, landed>>

NoDump == [ts |-> 0, of |-> "none", whole |-> FALSE]
BkInit ==
  /\ bnow = 1 /\ dumps = {} /\ manifests = {}
  /\ bk = [b \in Backers |-> [pc |-> "down", dump |-> NoDump, due |-> 0]]
  /\ health = Long /\ marker = Long
  /\ db = "live" /\ restored = FALSE /\ commands = 0 /\ bfaults = 0 /\ landed = FALSE

Upcoming == (bnow \div Period + 1) * Period   \* the occurrence strictly after now
Steps(b, pc) == bk' = [bk EXCEPT ![b].pc = pc]
(* After a backup, well or badly ended, the scheduler waits for the next occurrence. *)
Rests(b) == bk' = [bk EXCEPT ![b] = IF b = "sched" THEN [pc |-> "wait", dump |-> NoDump, due |-> Upcoming]
                                                  ELSE [pc |-> "down", dump |-> NoDump, due |-> 0]]

(* schedule: the start marker comes first, then a backup or the wait for the first one. *)
StartSchedule(onStart) ==
  /\ bk["sched"].pc = "down"
  /\ marker' = IF health = Long THEN bnow ELSE Long
  /\ IF onStart THEN Steps("sched", "dump") ELSE Rests("sched")
  /\ UNCHANGED <<bnow, dumps, manifests, health, db, restored, commands, bfaults, landed>>
BackupDue ==
  /\ bk["sched"].pc = "wait" /\ bnow >= bk["sched"].due
  /\ Steps("sched", "dump")
  /\ UNCHANGED <<bnow, dumps, manifests, health, marker, db, restored, commands, bfaults, landed>>
CommandStarts(b) ==
  /\ b # "sched" /\ bk[b].pc \in {"down", "passed", "failed"} /\ commands < MaxCommands
  /\ commands' = commands + 1
  /\ Steps(b, "dump")
  /\ UNCHANGED <<bnow, dumps, manifests, health, marker, db, restored, bfaults, landed>>

(* pg_dump reads one snapshot; the drill's target is a database of its own. Names have
   seconds: two backups begun in one second would share theirs, which is left out. *)
TakeDump(b) ==
  /\ bk[b].pc = "dump"
  /\ \A d \in dumps \cup {bk[c].dump : c \in Backers} : d.ts # bnow
  /\ bk' = [bk EXCEPT ![b].pc = "upload",
                      ![b].dump = [ts |-> bnow, of |-> IF b = "drill" THEN "scratch" ELSE "production",
                                   whole |-> b = "drill" \/ db = "live"]]
  /\ UNCHANGED <<bnow, dumps, manifests, health, marker, db, restored, commands, bfaults, landed>>

(* copyto replaces what had the same name. *)
UploadDump(b) ==
  /\ bk[b].pc = "upload"
  /\ dumps' = {d \in dumps : d.ts # bk[b].dump.ts} \cup {bk[b].dump}
  /\ Steps(b, "manifest")
  /\ UNCHANGED <<bnow, manifests, health, marker, db, restored, commands, bfaults, landed>>
UploadManifest(b) ==
  /\ bk[b].pc = "manifest"
  /\ manifests' = manifests \cup {bk[b].dump.ts}
  /\ landed' = (landed \/ b # "drill")
  /\ Steps(b, "pruneDumps")
  /\ UNCHANGED <<bnow, dumps, health, marker, db, restored, commands, bfaults>>

Kept(b) == IF b = "drill" THEN DrillRetention ELSE Retention
Fresh(b, ts) == bnow - ts < Kept(b)
(* rclone delete --min-age, best effort: a failure is only logged. *)
PruneDumps(b) ==
  /\ bk[b].pc = "pruneDumps"
  /\ dumps' \in {dumps, {d \in dumps : Fresh(b, d.ts)}}
  /\ landed' = (landed /\ b # "drill")
  /\ Steps(b, "pruneManifests")
  /\ UNCHANGED <<bnow, manifests, health, marker, db, restored, commands, bfaults>>
PruneManifests(b) ==
  /\ bk[b].pc = "pruneManifests"
  /\ manifests' \in {manifests, {ts \in manifests : Fresh(b, ts)}}
  /\ Steps(b, "ended")
  /\ UNCHANGED <<bnow, dumps, health, marker, db, restored, commands, bfaults, landed>>

(* The scheduler touches its health file; a failure to write it is only logged. *)
BackupEnds(b) ==
  /\ bk[b].pc = "ended" /\ b # "drill"
  /\ health' \in IF b = "sched" THEN {bnow, health} ELSE {health}
  /\ marker' = IF health' = Long THEN marker ELSE Long
  /\ Rests(b)
  /\ UNCHANGED <<bnow, dumps, manifests, db, restored, commands, bfaults, landed>>
(* The drill destroys its own database and restores, by name, the dump it has just made. *)
DrillEnds ==
  /\ bk["drill"].pc = "ended"
  /\ bk' = [bk EXCEPT !["drill"] = [pc |-> IF bk["drill"].dump \in dumps THEN "passed" ELSE "failed",
                                   dump |-> NoDump, due |-> 0]]
  /\ UNCHANGED <<bnow, dumps, manifests, health, marker, db, restored, commands, bfaults, landed>>

(* Variant: the health file is touched after every backup, however it ended. *)
BackupFailsHealthy(b) ==
  /\ bk[b].pc \in {"dump", "upload", "manifest"}
  /\ bfaults < MaxBackupFaults /\ bfaults' = bfaults + 1
  /\ health' = IF b = "sched" THEN bnow ELSE health
  /\ Rests(b)
  /\ UNCHANGED <<bnow, dumps, manifests, marker, db, restored, commands, landed>>

(* pg_dump, the manifest or an upload fails: the next occurrence is the retry. *)
BackupFails(b) ==
  /\ bk[b].pc \in {"dump", "upload", "manifest"}
  /\ bfaults < MaxBackupFaults /\ bfaults' = bfaults + 1
  /\ Rests(b)
  /\ UNCHANGED <<bnow, dumps, manifests, health, marker, db, restored, commands, landed>>

(* The process dies, or is told to stop while it waits. A container that is only restarted
   keeps its files, one that is made anew has none. *)
BackerStops(b, anew) ==
  /\ bk[b].pc \notin {"down", "passed", "failed"}
  /\ bfaults < MaxBackupFaults /\ bfaults' = bfaults + 1
  /\ bk' = [bk EXCEPT ![b] = [pc |-> "down", dump |-> NoDump, due |-> 0]]
  /\ IF b = "sched" /\ anew THEN health' = Long /\ marker' = Long ELSE UNCHANGED <<health, marker>>
  /\ UNCHANGED <<bnow, dumps, manifests, db, restored, commands, landed>>

(* restore, of the newest dump or a named one, confirmed: pg_restore --clean drops and
   recreates the objects one by one, and a dump of a half restored database is no better. *)
BeginRestore ==
  /\ db # "restoring" /\ dumps # {} /\ commands < MaxCommands
  /\ commands' = commands + 1
  /\ db' = "restoring" /\ restored' = TRUE
  /\ UNCHANGED <<bnow, dumps, manifests, bk, health, marker, bfaults, landed>>
EndRestore(d) ==
  /\ db = "restoring"
  /\ db' \in {"half", IF d.whole THEN "live" ELSE "half"}
  /\ UNCHANGED <<bnow, dumps, manifests, bk, health, marker, restored, commands, bfaults, landed>>

(* Time passes, and no backup takes longer than MaxRun. *)
BackupTick ==
  /\ bnow < MaxBackupClock
  /\ \A b \in Backers : bk[b].dump # NoDump => bnow - bk[b].dump.ts < MaxRun
  /\ bk["sched"].pc # "dump"
  /\ bnow' = bnow + 1
  /\ UNCHANGED <<dumps, manifests, bk, health, marker, db, restored, commands, bfaults, landed>>

BkNext ==
  \/ \E onStart \in BOOLEAN : StartSchedule(onStart)
  \/ BackupDue \/ DrillEnds \/ BeginRestore \/ BackupTick
  \/ \E d \in dumps : EndRestore(d)
  \/ \E b \in Backers :
       \/ CommandStarts(b) \/ TakeDump(b) \/ UploadDump(b) \/ UploadManifest(b)
       \/ PruneDumps(b) \/ PruneManifests(b) \/ BackupEnds(b) \/ BackupFails(b)
       \/ \E anew \in BOOLEAN : BackerStops(b, anew)

BkSpec == BkInit /\ [][BkNext]_bkvars

Complete == {d \in dumps : d.of = "production" /\ d.ts \in manifests}
Age(t) == bnow - t
(* check_health: the health file decides, and the start marker only where there is none. *)
Healthy == IF health # Long THEN Age(health) <= 2 * Period ELSE marker # Long /\ Age(marker) <= 2 * Period

(* What check_health stands for: as long as the health file says healthy, a dump of
   production with its manifest, no older than two periods and the time a backup takes,
   lies on the remote, through failing uploads, drills and commands that prune the same
   remote, and restarts; it is whole unless a restore ran. And once a backup has landed the
   remote is never without one, however long the scheduler was down before it pruned, unless
   a drill was pointed at it: a drill prunes too, having uploaded nothing of production. *)
HealthyMeansRecoverable ==
  /\ Healthy /\ health # Long =>
       \E d \in Complete : Age(d.ts) <= 2 * Period + MaxRun /\ (d.whole \/ restored)
  /\ landed => Complete # {}
========================================================================
