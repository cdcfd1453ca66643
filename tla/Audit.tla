------------------------------- MODULE Audit -------------------------------
(* The audit trail and the chain of anchors over it: the rows the framework writes in the
   transactions they describe, stamped before these commit, the anchor_audit job that folds
   the rows of a period into an anchor linked to the one before, and the checks that job and
   the console make (sms-worker jobs/anchor_audit.rs, sms-api audit_log.rs). A hash is the
   value it is computed from: equal hashes are equal values. *)
EXTENDS Integers, FiniteSets

CONSTANTS
  Mutations,       \* audited writes
  Auditors,        \* runs of anchor_audit at a time
  Viewers,         \* calls of auditChainStatus at a time
  AnchorLag,       \* ANCHOR_LAG
  CommitTime,      \* the longest an audited transaction stays open after its stamp
  MaxAuditClock,   \* bound: ticks in a behaviour
  NoAnchor         \* latest_anchor finds none

ASSUME AuditAssumption == AnchorLag \in Nat /\ CommitTime \in Nat /\ MaxAuditClock \in Nat

VARIABLES
  mutation,     \* mutation -> its transaction and the occurred_at of its row
  anchors,      \* the AuditAnchor rows
  auditor,      \* a run or a call -> how far it is and what it has read
  alarms,       \* what the checks have reported so far
  auditClock

auvars == <<mutation, anchors, auditor, alarms, auditClock>>

Genesis == <<>>
Resting == [at |-> "rest"]

AuInit ==
  /\ mutation = [m \in Mutations |-> [state |-> "none", stamp |-> 0]]
  /\ anchors = {}
  /\ auditor = [r \in Auditors \cup Viewers |-> Resting]
  /\ alarms = {}
  /\ auditClock = 0

(* A mutation stamps its audit row, and commits both or neither. *)
StampRow(m) ==
  /\ mutation[m].state = "none"
  /\ mutation' = [mutation EXCEPT ![m] = [state |-> "open", stamp |-> auditClock]]
  /\ UNCHANGED <<anchors, auditor, alarms, auditClock>>
EndMutation(m, state) ==
  /\ mutation[m].state = "open" /\ state \in {"committed", "aborted"}
  /\ mutation' = [mutation EXCEPT ![m].state = state]
  /\ UNCHANGED <<anchors, auditor, alarms, auditClock>>

(* rows_in_period and fold_rows: the rows in (start, end], of all time when there is no
   start. The table appears with its first row and is empty until then. *)
RowsInPeriod(start, end) ==
  {<<m, mutation[m].stamp>> :
     m \in {m \in Mutations : /\ mutation[m].state = "committed"
                              /\ start # NoAnchor => mutation[m].stamp > start
                              /\ mutation[m].stamp <= end}}

(* compute_chain_hash_hex commits to the previous hash and to all the anchor's fields. *)
ChainHash(prev, start, end, fold) == <<prev, start, end, Cardinality(fold), fold>>

LatestAnchors == {a \in anchors : \A b \in anchors : b.end <= a.end}

(* verify_chain_linkage: in the order of their ends, each anchor holds the hash of the one
   before, and its own hash is that of its fields. *)
Linked(a) ==
  LET before == {b \in anchors : b.end < a.end \/ (b.end = a.end /\ b # a)}
      previous == {b \in before : \A c \in before : c.end <= b.end}
  IN /\ IF before = {} THEN a.prev = Genesis ELSE \E b \in previous : a.prev = b.hash
     /\ a.hash = ChainHash(a.prev, a.start, a.end, a.fold)

Goes(r, rec) == auditor' = [auditor EXCEPT ![r] = rec]

(* run_at takes its time from the clock, chain_status has none; both read the latest
   anchor first. *)
ReadLatest(r) ==
  /\ auditor[r].at = "rest"
  /\ \E latest \in IF anchors = {} THEN {NoAnchor} ELSE LatestAnchors :
       Goes(r, [at |-> "link", latest |-> latest, now |-> auditClock])
  /\ UNCHANGED <<mutation, anchors, alarms, auditClock>>

CheckLinkage(r) ==
  /\ auditor[r].at = "link"
  /\ alarms' = alarms \cup (IF \A a \in anchors : Linked(a) THEN {} ELSE {"linkage"})
  /\ Goes(r, [auditor[r] EXCEPT !.at = "content"])
  /\ UNCHANGED <<mutation, anchors, auditClock>>

(* verify_period_content of the latest anchor, as it was read; a failed check is not a
   finding, and ends nothing. *)
CheckContent(r) ==
  /\ auditor[r].at = "content"
  /\ LET a == auditor[r].latest
     IN alarms' = alarms \cup
          (IF a # NoAnchor /\ RowsInPeriod(a.start, a.end) # a.fold THEN {"content"} ELSE {})
  /\ Goes(r, IF r \in Auditors THEN [auditor[r] EXCEPT !.at = "fold"] ELSE Resting)
  /\ UNCHANGED <<mutation, anchors, auditClock>>

(* Variant: the period ends now. *)
PeriodEndNow(r) == auditor[r].now

PeriodEnd(r) == auditor[r].now - AnchorLag

PeriodStart(r) == IF auditor[r].latest = NoAnchor THEN NoAnchor ELSE auditor[r].latest.end

(* The next period, unless nothing is new, and its rows. *)
FoldPeriod(r) ==
  /\ auditor[r].at = "fold"
  /\ IF PeriodStart(r) # NoAnchor /\ PeriodEnd(r) <= PeriodStart(r)
       THEN Goes(r, Resting)
       ELSE Goes(r, [at |-> "write", latest |-> auditor[r].latest, now |-> auditor[r].now,
                     fold |-> RowsInPeriod(PeriodStart(r), PeriodEnd(r))])
  /\ UNCHANGED <<mutation, anchors, alarms, auditClock>>

WriteAnchor(r) ==
  /\ auditor[r].at = "write"
  /\ LET prev == IF auditor[r].latest = NoAnchor THEN Genesis ELSE auditor[r].latest.hash
     IN anchors' = anchors \cup
          {[start |-> PeriodStart(r), end |-> PeriodEnd(r), fold |-> auditor[r].fold, prev |-> prev,
            hash |-> ChainHash(prev, PeriodStart(r), PeriodEnd(r), auditor[r].fold)]}
  /\ Goes(r, Resting)
  /\ UNCHANGED <<mutation, alarms, auditClock>>

(* A statement fails or the process dies; the queue runs the job again. *)
AuditorFails(r) ==
  /\ auditor[r].at # "rest"
  /\ Goes(r, Resting)
  /\ UNCHANGED <<mutation, anchors, alarms, auditClock>>

AuditTick ==
  /\ auditClock < MaxAuditClock
  /\ \A m \in Mutations : mutation[m].state = "open" => auditClock < mutation[m].stamp + CommitTime
  /\ auditClock' = auditClock + 1
  /\ UNCHANGED <<mutation, anchors, auditor, alarms>>

AuNext ==
  \/ \E m \in Mutations : StampRow(m) \/ \E state \in {"committed", "aborted"} : EndMutation(m, state)
  \/ \E r \in Auditors \cup Viewers :
       ReadLatest(r) \/ CheckLinkage(r) \/ CheckContent(r) \/ AuditorFails(r)
  \/ \E r \in Auditors : FoldPeriod(r) \/ WriteAnchor(r)
  \/ AuditTick

AuSpec == AuInit /\ [][AuNext]_auvars

(* Every row is under one anchor, once the anchors have come as far as its time, and nobody
   who checks the chain is alarmed by what the program itself did: although rows commit
   after later ones, runs fail half way and checks read one table after the other
   (anchor_audit.md: the periods "are contiguous with no gap and no overlap by
   construction", for transactions shorter than ANCHOR_LAG). *)
AnchoredOnce ==
  /\ alarms = {}
  /\ \A m \in Mutations :
       mutation[m].state = "committed" /\ (\E a \in anchors : mutation[m].stamp <= a.end) =>
         Cardinality({a \in anchors : <<m, mutation[m].stamp>> \in a.fold}) = 1
=============================================================================
