------------------------------ MODULE Lookup ------------------------------
(* lookupDeliveryStatus: the hourly budget of what a caller can guess, kept by the rows
   that account for the lookups and by no lock (sms-api delivery_status.rs). A budgeted
   lookup inserts its row, counts, its own row included, and only then reads; every write
   is a transaction of its own. Which messages are found changes nothing here. *)
EXTENDS Integers, FiniteSets

CONSTANTS
  Calls,           \* requests for lookupDeliveryStatus, each made once
  LookupKinds,     \* the kinds of callers and keys they come with
  LookupBudget,    \* BUDGETED_LOOKUPS_PER_HOUR
  Hour,            \* the hour it counts, in ticks
  MaxLookClock     \* bound: ticks in a behaviour

Askers == {"person", "app"}    \* two kinds of caller under one subject
LookKeys == {"message_id", "client_ref", "msisdn"}

ASSUME LookupAssumption ==
  /\ LookupKinds \subseteq [asker : Askers, key : LookKeys]
  /\ IsFiniteSet(Calls) /\ LookupBudget \in Nat /\ Hour \in Nat \ {0} /\ MaxLookClock \in Nat

VARIABLES
  look,       \* call -> its caller, its key and how far it is
  lookRow,    \* call -> its DeliveryLookup row
  admitted,   \* the budgeted calls that were let through (history)
  lookClock

lvars == <<look, lookRow, admitted, lookClock>>

NotMade == [at |-> "new", asker |-> "person", key |-> "message_id", now |-> 0]
NoAccount == [outcome |-> "none", created |-> 0]

LInit ==
  /\ look = [c \in Calls |-> NotMade]
  /\ lookRow = [c \in Calls |-> NoAccount]
  /\ admitted = {}
  /\ lookClock = 0

(* The key kinds a caller's budget counts: an app's references are its own. *)
BudgetedKinds(asker) == IF asker = "person" THEN {"msisdn", "client_ref"} ELSE {"msisdn"}
Budgeted(c) == look[c].key \in BudgetedKinds(look[c].asker)

Step(c, at) == look' = [look EXCEPT ![c].at = at]

(* Caller::of and LookupPlan::from_args have passed: what they refuse reaches no row. *)
StartLookup(c, kind) ==
  /\ look[c].at = "new"
  /\ look' = [look EXCEPT ![c] =
       [at |-> IF kind.key \in BudgetedKinds(kind.asker) THEN "claim" ELSE "read",
        asker |-> kind.asker, key |-> kind.key, now |-> lookClock]]
  /\ UNCHANGED <<lookRow, admitted, lookClock>>

(* claim_budget: the pending row, dated by the database. *)
ClaimPlace(c) ==
  /\ look[c].at = "claim"
  /\ lookRow' = [lookRow EXCEPT ![c] = [outcome |-> "pending", created |-> lookClock]]
  /\ Step(c, "count")
  /\ UNCHANGED <<admitted, lookClock>>

(* Variant: only answered lookups count. *)
UsedByAnswers(c) ==
  Cardinality({d \in Calls :
    /\ lookRow[d].outcome = "answered" /\ lookRow[d].created >= look[c].now - Hour
    /\ look[d].asker = look[c].asker /\ Budgeted(d)})

(* The rows of the caller's subject and kind in the hour before the request, but for those
   that were refused. *)
Used(c) ==
  Cardinality({d \in Calls :
    /\ lookRow[d].outcome \notin {"none", "over_budget"} /\ lookRow[d].created >= look[c].now - Hour
    /\ look[d].asker = look[c].asker /\ Budgeted(d)})

CountPlaces(c) ==
  /\ look[c].at = "count"
  /\ IF Used(c) > LookupBudget
       THEN Step(c, "refuse") /\ UNCHANGED admitted
       ELSE Step(c, "read") /\ admitted' = admitted \cup {c}
  /\ UNCHANGED <<lookRow, lookClock>>

(* settle(over_budget), and the call is refused. *)
RefuseLookup(c) ==
  /\ look[c].at = "refuse"
  /\ lookRow' = [lookRow EXCEPT ![c].outcome = "over_budget"]
  /\ Step(c, "over")
  /\ UNCHANGED <<admitted, lookClock>>

(* The messages and their newest receipts are read. *)
ReadStatuses(c) ==
  /\ look[c].at = "read"
  /\ Step(c, "settle")
  /\ UNCHANGED <<lookRow, admitted, lookClock>>

(* The claimed row is settled, or a row is written, answered; then the answer leaves. *)
AnswerLookup(c) ==
  /\ look[c].at = "settle"
  /\ lookRow' = [lookRow EXCEPT ![c] =
       [outcome |-> "answered", created |-> IF Budgeted(c) THEN @.created ELSE lookClock]]
  /\ Step(c, "over")
  /\ UNCHANGED <<admitted, lookClock>>

(* A statement fails or the process dies: the call fails, and its row stays as it is. *)
LookupFails(c) ==
  /\ look[c].at \notin {"new", "over"}
  /\ Step(c, "over")
  /\ UNCHANGED <<lookRow, admitted, lookClock>>

LookTick ==
  /\ lookClock < MaxLookClock
  /\ lookClock' = lookClock + 1
  /\ UNCHANGED <<look, lookRow, admitted>>

LNext ==
  \/ \E c \in Calls :
       \/ \E kind \in LookupKinds : StartLookup(c, kind)
       \/ ClaimPlace(c) \/ CountPlaces(c) \/ RefuseLookup(c)
       \/ ReadStatuses(c) \/ AnswerLookup(c) \/ LookupFails(c)
  \/ LookTick

LSpec == LInit /\ [][LNext]_lvars

(* No caller is let through for more than the budget in any hour, however many calls come at
   once, take their time between their statements, fail half way or are refused
   (claim_budget: "at most BUDGETED_LOOKUPS_PER_HOUR are admitted however many arrive at
   once, with no lock"). *)
LookupBudgetHolds ==
  \A asker \in Askers, from \in 0 .. MaxLookClock :
    Cardinality({c \in admitted : /\ look[c].asker = asker
                                  /\ lookRow[c].created \in from .. from + Hour}) <= LookupBudget
==========================================================================
