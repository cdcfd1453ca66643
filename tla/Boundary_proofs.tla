-------------------------- MODULE Boundary_proofs --------------------------
(* What the gateway promises at its edges, proved for every value of the      *)
(* constants: the budget of status lookups, the migrations, the keys of       *)
(* webhook receivers, the answers to carriers' callbacks, what the adapters   *)
(* tell of a submission, the sealed transport, the audit chain, backups, what *)
(* a gateway opens when it starts, and how bodies and numbers are read.       *)
(* Each part has the inductive invariant of its module, a lemma for each kind *)
(* of step, and its theorem.                                                  *)
EXTENDS Lookup, Migrate, HookSecrets, Callbacks, Adapters, Sealed, Audit, Backups, Boot, Msisdn,
        FiniteSetTheorems, SequenceTheorems, WellFoundedInduction, TLAPS

-----------------------------------------------------------------------------
(* Loops over a sequence: each has its course, and what holds at its start    *)
(* and is kept by each step holds along it.                                  *)

\* A set of natural numbers that is not empty has a least member.
LEMMA LeastOf ==
  ASSUME NEW T, T \subseteq Nat, T # {}
  PROVE  \E x \in T : \A y \in T : x <= y
<1>1. PICK x \in T : \A y \in T : ~(<<y, x>> \in OpToRel(<, Nat))
  <2>1. IsWellFoundedOn(OpToRel(<, Nat), Nat) BY NatLessThanWellFounded
  <2> QED BY <2>1, WFMin
<1>2. \A y \in T : ~(y < x) /\ x \in Nat /\ y \in Nat BY <1>1 DEF OpToRel
<1> QED BY <1>2

\* A first state is in the set, and a step from a member leads to a member: all are.
LEMMA AllAlong ==
  ASSUME NEW n \in Nat, NEW T, 0 \in T, \A i \in 1 .. n : i - 1 \in T => i \in T
  PROVE  0 .. n \subseteq T
<1> DEFINE bad == {i \in 0 .. n : i \notin T}
<1> SUFFICES ASSUME bad # {} PROVE FALSE OBVIOUS
<1>1. PICK x \in bad : \A y \in bad : x <= y
  <2>1. bad \subseteq Nat OBVIOUS
  <2> HIDE DEF bad
  <2> QED BY <2>1, LeastOf
<1>2. x \in 1 .. n /\ x - 1 \in 0 .. n /\ x - 1 < x OBVIOUS
<1>3. x - 1 \notin bad BY <1>1, <1>2
<1> QED BY <1>2, <1>3

\* c is the course of a loop of n steps through states of S.
Loops(c, steps, base, S, n) ==
  /\ c \in [0 .. n -> S] /\ c[0] = base
  /\ \A i \in 1 .. n : c[i] = steps[i][c[i - 1]]

\* Every loop has its course.
LEMMA CourseOf ==
  ASSUME NEW S, NEW steps, NEW n \in Nat, Len(steps) = n, NEW base \in S,
         \A i \in 1 .. n : steps[i] \in [S -> S]
  PROVE  Loops(Course(steps, base), steps, base, S, n)
<1> DEFINE Follows(f, k) == f[0] = base /\ \A i \in 1 .. k : f[i] = steps[i][f[i - 1]]
           T == {k \in 0 .. n : \E f \in [0 .. k -> S] : Follows(f, k)}
<1>1. 0 \in T
  <2>1. PICK f : f = [i \in 0 .. 0 |-> base] OBVIOUS
  <2>2. f \in [0 .. 0 -> S] BY <2>1
  <2>3. f[0] = base BY <2>1
  <2>4. Follows(f, 0) BY <2>3
  <2>5. \E h \in [0 .. 0 -> S] : Follows(h, 0) BY <2>2, <2>4
  <2> QED BY <2>5
<1>2. ASSUME NEW k \in 1 .. n, k - 1 \in T PROVE k \in T
  <2>1. PICK f \in [0 .. k - 1 -> S] : Follows(f, k - 1) BY <1>2
  <2> DEFINE g == [i \in 0 .. k |-> IF i = k THEN steps[k][f[k - 1]] ELSE f[i]]
  <2>2. f[k - 1] \in S /\ steps[k][f[k - 1]] \in S OBVIOUS
  <2>3. g \in [0 .. k -> S] BY <2>2
  <2>4. \A i \in 0 .. k - 1 : g[i] = f[i] OBVIOUS
  <2>5. g[k] = steps[k][f[k - 1]] OBVIOUS
  <2> HIDE DEF g
  <2>6. Follows(g, k)
    <3>1. g[0] = base BY <2>1, <2>4
    <3>2. ASSUME NEW i \in 1 .. k PROVE g[i] = steps[i][g[i - 1]]
      <4>1. CASE i = k BY <2>4, <2>5, <4>1
      <4>2. CASE i # k
        <5>1. i \in 1 .. k - 1 /\ i - 1 \in 0 .. k - 1 /\ i \in 0 .. k - 1 BY <4>2
        <5> QED BY <2>1, <2>4, <5>1
      <4> QED BY <4>1, <4>2
    <3> QED BY <3>1, <3>2
  <2> QED BY <2>3, <2>6
<1> HIDE DEF T
<1>3. n \in T
  <2>1. 0 .. n \subseteq T BY <1>1, <1>2, AllAlong
  <2> QED BY <2>1
<1> USE DEF T
<1>4. PICK f \in [0 .. n -> S] : Follows(f, n) BY <1>3
<1>5. f = [i \in 0 .. n |-> IF i = 0 THEN base ELSE steps[i][f[i - 1]]]
  <2>1. \A i \in 0 .. n : f[i] = IF i = 0 THEN base ELSE steps[i][f[i - 1]] BY <1>4
  <2> QED BY <2>1
<1> DEFINE c == CHOOSE g : g = [i \in 0 .. n |-> IF i = 0 THEN base ELSE steps[i][g[i - 1]]]
<1>6. c = [i \in 0 .. n |-> IF i = 0 THEN base ELSE steps[i][c[i - 1]]] BY <1>5
<1>7. Course(steps, base) = c BY DEF Course
<1> HIDE DEF c
<1>8. c[0] = base /\ \A i \in 1 .. n : c[i] = steps[i][c[i - 1]]
  <2>1. \A i \in 0 .. n : c[i] = IF i = 0 THEN base ELSE steps[i][c[i - 1]] BY <1>6
  <2>2. 0 \in 0 .. n /\ \A i \in 1 .. n : i \in 0 .. n /\ i # 0 OBVIOUS
  <2> QED BY <2>1, <2>2, Zenon
<1>9. \A i \in 0 .. n : c[i] \in S
  <2> DEFINE U == {i \in 0 .. n : c[i] \in S}
  <2>1. 0 \in U BY <1>8
  <2>2. ASSUME NEW i \in 1 .. n, i - 1 \in U PROVE i \in U BY <1>8, <2>2
  <2> HIDE DEF U
  <2>3. 0 .. n \subseteq U BY <2>1, <2>2, AllAlong
  <2> QED BY <2>3 DEF U
<1>10. c \in [0 .. n -> S] BY <1>6, <1>9
<1> QED BY <1>7, <1>8, <1>10 DEF Loops

-----------------------------------------------------------------------------
(* Lookups.  A call counts after its own row is there, and its row is no   *)
(* older than its request.  So whoever was admitted before it, and has a   *)
(* row within an hour of its own, is among those it counts.                *)

LookState == [at : {"new", "claim", "count", "refuse", "read", "settle", "over"}, asker : Askers,
              key : LookKeys, now : Nat]
Account == [outcome : {"none", "pending", "over_budget", "answered"}, created : Nat]

LookType ==
  /\ look \in [Calls -> LookState] /\ lookRow \in [Calls -> Account]
  /\ lookClock \in Nat /\ admitted \subseteq Calls
  /\ \A c \in Calls : look[c].now <= lookClock

\* A call that counts has its row, and is budgeted.
Counted(c) ==
  /\ Budgeted(c) /\ lookRow[c].created >= look[c].now
  /\ lookRow[c].outcome \in {"pending", "answered"}
CallsPlaced == \A c \in Calls :
  /\ look[c].at \in {"claim", "refuse"} => Budgeted(c) /\ c \notin admitted
  /\ look[c].at = "count" => Counted(c) /\ c \notin admitted
  /\ look[c].at = "new" => c \notin admitted
  /\ c \in admitted => Counted(c)

LookInv == LookType /\ CallsPlaced /\ LookupBudgetHolds

LookStep(c, at) == [look[c] EXCEPT !.at = at]

LEMMA LookEdits ==
  ASSUME LookType, NEW c \in Calls, NEW at \in {"count", "refuse", "read", "settle", "over"}
  PROVE  /\ LookStep(c, at) \in LookState /\ LookStep(c, at).at = at
         /\ LookStep(c, at).asker = look[c].asker /\ LookStep(c, at).key = look[c].key
         /\ LookStep(c, at).now = look[c].now
<1>1. look[c] \in LookState BY DEF LookType
<1> QED BY <1>1 DEF LookStep, LookState

\* A step of one call that leaves its row alone and admits nobody.
LEMMA LookMoves ==
  ASSUME LookInv, NEW c \in Calls, NEW at \in {"count", "refuse", "read", "settle", "over"},
         NEW r \in Account,
         look' = [look EXCEPT ![c] = LookStep(c, at)], lookRow' = [lookRow EXCEPT ![c] = r],
         lookClock' = lookClock, admitted' = admitted,
         c \in admitted => r.created = lookRow[c].created /\ r.outcome \in {"pending", "answered"},
         at = "refuse" => Budgeted(c) /\ c \notin admitted,
         at = "count" => /\ Budgeted(c) /\ c \notin admitted
                         /\ r.created >= look[c].now /\ r.outcome = "pending"
  PROVE  LookInv'
<1>0. /\ look \in [Calls -> LookState] /\ lookRow \in [Calls -> Account]
      /\ LookStep(c, at) \in LookState /\ LookStep(c, at).at = at
      /\ LookStep(c, at).asker = look[c].asker /\ LookStep(c, at).key = look[c].key
      /\ LookStep(c, at).now = look[c].now
  BY LookEdits DEF LookInv, LookType
<1>1. /\ look' \in [Calls -> LookState] /\ look'[c] = LookStep(c, at)
      /\ \A d \in Calls : d # c => look'[d] = look[d]
  BY <1>0
<1>2. /\ lookRow' \in [Calls -> Account] /\ lookRow'[c] = r
      /\ \A d \in Calls : d # c => lookRow'[d] = lookRow[d]
  BY <1>0
<1>3. LookType' BY <1>0, <1>1, <1>2 DEF LookInv, LookType
<1>4. \A d \in Calls : Budgeted(d)' <=> Budgeted(d) BY <1>0, <1>1 DEF Budgeted
<1>5. CallsPlaced'
  <2> SUFFICES ASSUME NEW d \in Calls
               PROVE  /\ look'[d].at \in {"claim", "refuse"} => Budgeted(d)' /\ d \notin admitted
                      /\ look'[d].at = "count" => Counted(d)' /\ d \notin admitted
                      /\ look'[d].at = "new" => d \notin admitted
                      /\ d \in admitted => Counted(d)'
    BY DEF CallsPlaced
  <2>1. CASE d = c BY <1>0, <1>1, <1>2, <1>4, <2>1 DEF LookInv, CallsPlaced, Counted
  <2>2. CASE d # c BY <1>1, <1>2, <1>4, <2>2 DEF LookInv, CallsPlaced, Counted
  <2> QED BY <2>1, <2>2
<1>6. \A d \in admitted : look'[d].asker = look[d].asker /\ lookRow'[d].created = lookRow[d].created
  BY <1>0, <1>1, <1>2 DEF LookInv, LookType
<1>7. LookupBudgetHolds'
  <2> SUFFICES ASSUME NEW asker \in Askers, NEW from \in 0 .. MaxLookClock
               PROVE  Cardinality({d \in admitted : /\ look'[d].asker = asker
                                                    /\ lookRow'[d].created \in from .. from + Hour})
                        <= LookupBudget
    BY DEF LookupBudgetHolds
  <2>1. {d \in admitted : look'[d].asker = asker /\ lookRow'[d].created \in from .. from + Hour}
          = {d \in admitted : look[d].asker = asker /\ lookRow[d].created \in from .. from + Hour}
    BY <1>6
  <2> QED BY <2>1 DEF LookInv, LookupBudgetHolds
<1> QED BY <1>3, <1>5, <1>7 DEF LookInv

\* The call that is let through: those admitted before it within the hour,
\* and it, were all counted.
LEMMA CountInv ==
  ASSUME LookInv, NEW c \in Calls, CountPlaces(c)
  PROVE  LookInv'
<1>0. /\ look[c].at = "count" /\ lookRow' = lookRow /\ lookClock' = lookClock
      /\ look \in [Calls -> LookState] /\ lookRow \in [Calls -> Account]
      /\ Counted(c) /\ c \notin admitted
  BY DEF CountPlaces, LookInv, LookType, CallsPlaced
<1>1. CASE Used(c) > LookupBudget
  <2>1. /\ look' = [look EXCEPT ![c] = LookStep(c, "refuse")] /\ admitted' = admitted
        /\ lookRow' = [lookRow EXCEPT ![c] = lookRow[c]] /\ lookRow[c] \in Account
    BY <1>0, <1>1 DEF CountPlaces, Step, LookStep
  <2> QED BY <1>0, <2>1, LookMoves DEF Counted
<1>2. CASE ~ (Used(c) > LookupBudget)
  <2>1. look' = [look EXCEPT ![c] = LookStep(c, "read")] /\ admitted' = admitted \cup {c}
    BY <1>0, <1>2 DEF CountPlaces, Step, LookStep
  <2>2. /\ LookStep(c, "read") \in LookState /\ LookStep(c, "read").at = "read"
        /\ LookStep(c, "read").asker = look[c].asker /\ LookStep(c, "read").key = look[c].key
        /\ LookStep(c, "read").now = look[c].now
    BY LookEdits DEF LookInv
  <2>3. /\ look' \in [Calls -> LookState] /\ look'[c] = LookStep(c, "read")
        /\ \A d \in Calls : d # c => look'[d] = look[d]
    BY <1>0, <2>1, <2>2
  <2>4. LookType' BY <1>0, <2>1, <2>2, <2>3 DEF LookInv, LookType
  <2>5. \A d \in Calls : (Budgeted(d)' <=> Budgeted(d)) /\ look'[d].asker = look[d].asker
    BY <2>2, <2>3 DEF Budgeted
  <2>6. CallsPlaced'
    <3> SUFFICES ASSUME NEW d \in Calls
                 PROVE  /\ look'[d].at \in {"claim", "refuse"} => Budgeted(d)' /\ d \notin admitted'
                        /\ look'[d].at = "count" => Counted(d)' /\ d \notin admitted'
                        /\ look'[d].at = "new" => d \notin admitted'
                        /\ d \in admitted' => Counted(d)'
      BY DEF CallsPlaced
    <3>1. CASE d = c BY <1>0, <2>2, <2>3, <2>5, <3>1 DEF Counted
    <3>2. CASE d # c BY <1>0, <2>1, <2>3, <2>5, <3>2 DEF LookInv, CallsPlaced, Counted
    <3> QED BY <3>1, <3>2
  <2>7. LookupBudgetHolds'
    <3> SUFFICES ASSUME NEW asker \in Askers, NEW from \in 0 .. MaxLookClock
                 PROVE  Cardinality({d \in admitted' : /\ look'[d].asker = asker
                                                       /\ lookRow'[d].created \in from .. from + Hour})
                          <= LookupBudget
      BY DEF LookupBudgetHolds
    <3> DEFINE W == {d \in admitted : look[d].asker = asker /\ lookRow[d].created \in from .. from + Hour}
               X == {d \in admitted' : look'[d].asker = asker /\ lookRow'[d].created \in from .. from + Hour}
               U == {d \in Calls : /\ lookRow[d].outcome \notin {"none", "over_budget"}
                                   /\ lookRow[d].created >= look[c].now - Hour
                                   /\ look[d].asker = look[c].asker /\ Budgeted(d)}
    <3>1. CASE look[c].asker = asker /\ lookRow[c].created \in from .. from + Hour
      <4>1. X \subseteq U
        <5> SUFFICES ASSUME NEW d \in X PROVE d \in U OBVIOUS
        <5>1. d \in Calls /\ (d = c \/ d \in admitted) BY <2>1 DEF LookInv, LookType
        <5>2. Counted(d) BY <1>0, <5>1 DEF LookInv, CallsPlaced
        <5>3. look[d].asker = look[c].asker BY <2>5, <3>1, <5>1
        <5>4. lookRow[d].created \in from .. from + Hour BY <1>0
        <5>5. /\ lookRow[d].created \in Nat /\ lookRow[c].created \in Nat /\ look[c].now \in Nat
          BY <1>0, <5>1 DEF LookState, Account
        <5>6. look[c].now <= lookRow[c].created BY <1>0, <5>5 DEF Counted
        <5>7. lookRow[d].created >= look[c].now - Hour
          BY <3>1, <5>4, <5>5, <5>6, LookupAssumption
        <5> QED BY <5>1, <5>2, <5>3, <5>7 DEF Counted
      <4>2. IsFiniteSet(U)
        <5>1. U \subseteq Calls OBVIOUS
        <5> QED BY <5>1, FS_Subset, LookupAssumption
      <4>3. Cardinality(X) <= Cardinality(U) /\ Cardinality(X) \in Nat /\ Cardinality(U) \in Nat
        <5> HIDE DEF X, U
        <5> QED BY <4>1, <4>2, FS_Subset, FS_CardinalityType
      <4>4. Cardinality(U) <= LookupBudget
        <5>1. Cardinality(U) = Used(c) BY DEF Used
        <5> HIDE DEF U
        <5> QED BY <1>2, <4>3, <5>1, LookupAssumption
      <4> HIDE DEF X, U
      <4>5. Cardinality(X) <= LookupBudget BY <4>3, <4>4, LookupAssumption
      <4> QED BY <4>5 DEF X
    <3>2. CASE ~ (look[c].asker = asker /\ lookRow[c].created \in from .. from + Hour)
      <4>1. admitted \subseteq Calls BY DEF LookInv, LookType
      <4>2. X = W BY <1>0, <2>1, <2>5, <3>2, <4>1
      <4>3. Cardinality(W) <= LookupBudget BY DEF LookInv, LookupBudgetHolds
      <4> QED BY <4>2, <4>3
    <3> QED BY <3>1, <3>2
  <2> QED BY <2>4, <2>6, <2>7 DEF LookInv
<1> QED BY <1>1, <1>2

LEMMA StartInv ==
  ASSUME LookInv, NEW c \in Calls, NEW kind \in LookupKinds, StartLookup(c, kind)
  PROVE  LookInv'
<1>0. /\ look[c].at = "new" /\ UNCHANGED <<lookRow, admitted, lookClock>>
      /\ look \in [Calls -> LookState] /\ lookRow \in [Calls -> Account]
      /\ c \notin admitted /\ lookClock \in Nat /\ admitted \subseteq Calls
  BY DEF StartLookup, LookInv, LookType, CallsPlaced
<1>1. kind.asker \in Askers /\ kind.key \in LookKeys BY LookupAssumption
<1> DEFINE budgeted == kind.key \in BudgetedKinds(kind.asker)
           r == [at |-> IF budgeted THEN "claim" ELSE "read", asker |-> kind.asker, key |-> kind.key,
                 now |-> lookClock]
<1>2. look' = [look EXCEPT ![c] = r] BY DEF StartLookup
<1>3. /\ r \in LookState /\ r.at \in {"claim", "read"} /\ r.asker = kind.asker /\ r.key = kind.key
      /\ r.now = lookClock /\ (r.at = "claim" => budgeted)
  BY <1>0, <1>1 DEF LookState
<1>4. r.at = "claim" => r.key \in BudgetedKinds(r.asker) BY <1>3
<1> HIDE DEF r, budgeted
<1>5. look' \in [Calls -> LookState] /\ look'[c] = r /\ \A d \in Calls : d # c => look'[d] = look[d]
  BY <1>0, <1>2, <1>3
<1>6. LookType' BY <1>0, <1>3, <1>5 DEF LookInv, LookType
<1>7. CallsPlaced'
  <2> SUFFICES ASSUME NEW d \in Calls
               PROVE  /\ look'[d].at \in {"claim", "refuse"} => Budgeted(d)' /\ d \notin admitted
                      /\ look'[d].at = "count" => Counted(d)' /\ d \notin admitted
                      /\ look'[d].at = "new" => d \notin admitted
                      /\ d \in admitted => Counted(d)'
    BY <1>0 DEF CallsPlaced
  <2>1. CASE d = c BY <1>0, <1>3, <1>4, <1>5, <2>1 DEF Budgeted
  <2>2. CASE d # c BY <1>0, <1>5, <2>2 DEF LookInv, CallsPlaced, Counted, Budgeted
  <2> QED BY <2>1, <2>2
<1>8. \A d \in admitted : look'[d] = look[d] BY <1>0, <1>5
<1>9. LookupBudgetHolds'
  <2> SUFFICES ASSUME NEW asker \in Askers, NEW from \in 0 .. MaxLookClock
               PROVE  Cardinality({d \in admitted : /\ look'[d].asker = asker
                                                    /\ lookRow[d].created \in from .. from + Hour})
                        <= LookupBudget
    BY <1>0 DEF LookupBudgetHolds
  <2>1. {d \in admitted : look'[d].asker = asker /\ lookRow[d].created \in from .. from + Hour}
          = {d \in admitted : look[d].asker = asker /\ lookRow[d].created \in from .. from + Hour}
    BY <1>8
  <2> QED BY <2>1 DEF LookInv, LookupBudgetHolds
<1> QED BY <1>6, <1>7, <1>9 DEF LookInv

\* The other steps of a call.
LEMMA CallInv ==
  ASSUME LookInv, NEW c \in Calls,
         \/ ClaimPlace(c) \/ RefuseLookup(c) \/ ReadStatuses(c)
         \/ AnswerLookup(c) \/ LookupFails(c)
  PROVE  LookInv'
<1>0. /\ look \in [Calls -> LookState] /\ lookRow \in [Calls -> Account]
      /\ lookRow[c] \in Account /\ look[c].now <= lookClock /\ lookClock \in Nat /\ look[c].now \in Nat
  BY DEF LookInv, LookType, LookState
<1>1. /\ lookClock' = lookClock /\ admitted' = admitted
  BY DEF ClaimPlace, RefuseLookup, ReadStatuses, AnswerLookup, LookupFails
<1>2. CASE ClaimPlace(c)
  <2> DEFINE r == [outcome |-> "pending", created |-> lookClock]
  <2>1. /\ look' = [look EXCEPT ![c] = LookStep(c, "count")] /\ lookRow' = [lookRow EXCEPT ![c] = r]
        /\ look[c].at = "claim"
    BY <1>2 DEF ClaimPlace, Step, LookStep
  <2>2. r \in Account /\ r.outcome = "pending" /\ r.created = lookClock BY <1>0 DEF Account
  <2>3. Budgeted(c) /\ c \notin admitted BY <2>1 DEF LookInv, CallsPlaced
  <2> HIDE DEF r
  <2> QED BY <1>0, <1>1, <2>1, <2>2, <2>3, LookMoves
<1>3. CASE RefuseLookup(c)
  <2> DEFINE r == [lookRow[c] EXCEPT !.outcome = "over_budget"]
  <2>1. /\ look' = [look EXCEPT ![c] = LookStep(c, "over")] /\ lookRow' = [lookRow EXCEPT ![c] = r]
        /\ look[c].at = "refuse"
    BY <1>3 DEF RefuseLookup, Step, LookStep
  <2>2. r \in Account BY <1>0 DEF Account
  <2>3. c \notin admitted BY <2>1 DEF LookInv, CallsPlaced
  <2> HIDE DEF r
  <2> QED BY <1>1, <2>1, <2>2, <2>3, LookMoves
<1>4. CASE ReadStatuses(c) \/ LookupFails(c)
  <2>1. PICK at \in {"settle", "over"} :
          /\ look' = [look EXCEPT ![c] = LookStep(c, at)] /\ lookRow' = [lookRow EXCEPT ![c] = lookRow[c]]
    BY <1>0, <1>4 DEF ReadStatuses, LookupFails, Step, LookStep
  <2>2. c \in admitted => lookRow[c].outcome \in {"pending", "answered"} BY DEF LookInv, CallsPlaced, Counted
  <2> QED BY <1>0, <1>1, <2>1, <2>2, LookMoves
<1>5. CASE AnswerLookup(c)
  <2> DEFINE at == IF Budgeted(c) THEN lookRow[c].created ELSE lookClock
             r == [outcome |-> "answered", created |-> at]
  <2>1. /\ look' = [look EXCEPT ![c] = LookStep(c, "over")] /\ lookRow' = [lookRow EXCEPT ![c] = r]
    BY <1>5 DEF AnswerLookup, Step, LookStep
  <2>2. at \in Nat /\ (Budgeted(c) => at = lookRow[c].created) BY <1>0 DEF Account
  <2> HIDE DEF at
  <2>3. r \in Account /\ r.outcome = "answered" /\ r.created = at BY <2>2 DEF Account
  <2>4. c \in admitted => Budgeted(c) BY DEF LookInv, CallsPlaced, Counted
  <2> HIDE DEF r
  <2> QED BY <1>1, <2>1, <2>2, <2>3, <2>4, LookMoves
<1> QED BY <1>2, <1>3, <1>4, <1>5

LEMMA LookStill ==
  ASSUME LookInv, UNCHANGED <<look, lookRow, admitted>>, lookClock' \in Nat, lookClock <= lookClock'
  PROVE  LookInv'
<1>1. LookType'
  <2>1. \A c \in Calls : look[c].now \in Nat BY DEF LookInv, LookType, LookState
  <2> QED BY <2>1 DEF LookInv, LookType
<1>2. CallsPlaced' BY DEF LookInv, CallsPlaced, Counted, Budgeted
<1>3. LookupBudgetHolds' BY DEF LookInv, LookupBudgetHolds
<1> QED BY <1>1, <1>2, <1>3 DEF LookInv

LEMMA LookInit == LInit => LookInv
<1> SUFFICES ASSUME LInit PROVE LookInv OBVIOUS
<1>1. NotMade \in LookState /\ NotMade.at = "new" /\ NotMade.now = 0
  BY DEF NotMade, LookState, Askers, LookKeys
<1>2. NoAccount \in Account BY DEF NoAccount, Account
<1>3. LookType BY <1>1, <1>2 DEF LInit, LookType
<1>4. CallsPlaced BY <1>1 DEF LInit, CallsPlaced
<1>5. LookupBudgetHolds
  <2> SUFFICES ASSUME NEW asker \in Askers, NEW from \in 0 .. MaxLookClock
               PROVE  Cardinality({d \in admitted : /\ look[d].asker = asker
                                                    /\ lookRow[d].created \in from .. from + Hour})
                        <= LookupBudget
    BY DEF LookupBudgetHolds
  <2>1. {d \in admitted : look[d].asker = asker /\ lookRow[d].created \in from .. from + Hour} = {}
    BY DEF LInit
  <2>2. Cardinality({}) = 0 BY FS_EmptySet
  <2> QED BY <2>1, <2>2, LookupAssumption
<1> QED BY <1>3, <1>4, <1>5 DEF LookInv

\* No caller is let through for more than BUDGETED_LOOKUPS_PER_HOUR in any
\* hour, for any number of calls at once (claim_budget in delivery_status.rs,
\* which takes no lock).
THEOREM BudgetNeedsNoLock == LSpec => []LookupBudgetHolds
<1>1. LookInv /\ [LNext]_lvars => LookInv'
  <2> SUFFICES ASSUME LookInv, [LNext]_lvars PROVE LookInv' OBVIOUS
  <2>1. ASSUME NEW c \in Calls, NEW kind \in LookupKinds, StartLookup(c, kind) PROVE LookInv'
    BY <2>1, StartInv
  <2>2. ASSUME NEW c \in Calls, CountPlaces(c) PROVE LookInv' BY <2>2, CountInv
  <2>3. ASSUME NEW c \in Calls,
               \/ ClaimPlace(c) \/ RefuseLookup(c) \/ ReadStatuses(c)
               \/ AnswerLookup(c) \/ LookupFails(c)
        PROVE  LookInv'
    BY <2>3, CallInv
  <2>4. CASE LookTick
    <3>1. lookClock \in Nat BY DEF LookInv, LookType
    <3> QED BY <2>4, <3>1, LookStill DEF LookTick
  <2>5. CASE UNCHANGED lvars
    <3>1. lookClock \in Nat BY DEF LookInv, LookType
    <3> QED BY <2>5, <3>1, LookStill DEF lvars
  <2> QED BY <2>1, <2>2, <2>3, <2>4, <2>5, Zenon DEF LNext
<1>2. LookInv => LookupBudgetHolds BY DEF LookInv
<1> QED BY <1>1, <1>2, LookInit, PTL DEF LSpec

-----------------------------------------------------------------------------
(* Migrations.  Whoever is past the lock holds it, so nobody else applies  *)
(* anything while it looks, and it looks at them in order.                 *)

Migration == [pc : {"idle", "lock", "check", "run", "commit", "done", "failed"}, at : Nat, runs : Nat]
MigType ==
  /\ mig \in [Migrators -> Migration] /\ schema \in Seq(Nat)
  /\ recorded = 1 .. Len(schema)
  /\ \A i \in 1 .. Len(schema) : schema[i] = i

Working == {"check", "run", "commit"}
LockHeld == \A m \in Migrators : mig[m].pc \in Working => migLock = m

InOrder == \A m \in Migrators :
  /\ mig[m].pc \in Working => 1 <= mig[m].at /\ mig[m].at <= Len(schema) + 1
  /\ mig[m].pc \in {"run", "commit"} => mig[m].at = Len(schema) + 1
  /\ mig[m].pc = "done" => Embedded[m] <= Len(schema)

MigInv == MigType /\ LockHeld /\ InOrder

\* The next migration takes effect and is recorded.
LEMMA CommitsNext ==
  ASSUME MigType, NEW m \in Migrators, Committed(m), mig[m].at = Len(schema) + 1
  PROVE  /\ schema' \in Seq(Nat) /\ Len(schema') = Len(schema) + 1 /\ recorded' = 1 .. Len(schema')
         /\ \A i \in 1 .. Len(schema') : schema'[i] = i
<1>1. schema \in Seq(Nat) /\ recorded = 1 .. Len(schema) /\ \A i \in 1 .. Len(schema) : schema[i] = i
  BY DEF MigType
<1>2. schema' = Append(schema, Len(schema) + 1) /\ recorded' = recorded \cup {Len(schema) + 1}
  BY DEF Committed
<1>3. Len(schema) \in Nat BY <1>1
<1>4. schema' \in Seq(Nat) /\ Len(schema') = Len(schema) + 1 BY <1>1, <1>2, <1>3
<1>5. \A i \in 1 .. Len(schema') : schema'[i] = i BY <1>1, <1>2, <1>3, <1>4
<1>6. recorded' = 1 .. Len(schema') BY <1>1, <1>2, <1>3, <1>4
<1> QED BY <1>4, <1>5, <1>6

\* A step of one runner.
LEMMA MigMoves ==
  ASSUME MigInv, NEW m \in Migrators, NEW r \in Migration, mig' = [mig EXCEPT ![m] = r],
         schema' \in Seq(Nat), recorded' = 1 .. Len(schema'), \A i \in 1 .. Len(schema') : schema'[i] = i,
         Len(schema') >= Len(schema), Len(schema') # Len(schema) => migLock = m,
         migLock' # migLock => migLock \in {m, NoMigrator},
         r.pc \in Working => migLock' = m /\ 1 <= r.at /\ r.at <= Len(schema') + 1,
         r.pc \in {"run", "commit"} => r.at = Len(schema') + 1,
         r.pc = "done" => Embedded[m] <= Len(schema')
  PROVE  MigInv'
<1>1. /\ mig' \in [Migrators -> Migration] /\ mig'[m] = r /\ \A o \in Migrators : o # m => mig'[o] = mig[o]
  BY DEF MigInv, MigType
<1>2. MigType' BY <1>1 DEF MigType
<1>3. \A o \in Migrators : o # m /\ mig[o].pc \in Working => migLock = o /\ migLock' = o
  BY MigrateAssumption DEF MigInv, LockHeld
<1>4. LockHeld' BY <1>1, <1>3 DEF LockHeld
<1>5. InOrder'
  <2> SUFFICES ASSUME NEW o \in Migrators
               PROVE  /\ mig'[o].pc \in Working => 1 <= mig'[o].at /\ mig'[o].at <= Len(schema') + 1
                      /\ mig'[o].pc \in {"run", "commit"} => mig'[o].at = Len(schema') + 1
                      /\ mig'[o].pc = "done" => Embedded[o] <= Len(schema')
    BY DEF InOrder
  <2>1. CASE o = m BY <1>1, <2>1
  <2>2. CASE o # m
    <3>1. mig'[o] = mig[o] BY <1>1, <2>2
    <3>2. mig[o].pc \in Working => Len(schema') = Len(schema) BY <1>3, <2>2
    <3>3. schema \in Seq(Nat) BY DEF MigInv, MigType
    <3>4. Len(schema) \in Nat /\ Len(schema') \in Nat BY <3>3
    <3>5. Embedded[o] \in Nat BY MigrateAssumption
    <3> QED BY <3>1, <3>2, <3>4, <3>5 DEF MigInv, InOrder, Working
  <2> QED BY <2>1, <2>2
<1> QED BY <1>2, <1>4, <1>5 DEF MigInv

\* The same when nothing takes effect.
LEMMA MigMovesStill ==
  ASSUME MigInv, NEW m \in Migrators, NEW r \in Migration, mig' = [mig EXCEPT ![m] = r],
         UNCHANGED <<schema, recorded>>,
         migLock' # migLock => migLock \in {m, NoMigrator},
         r.pc \in Working => migLock' = m /\ 1 <= r.at /\ r.at <= Len(schema) + 1,
         r.pc \in {"run", "commit"} => r.at = Len(schema) + 1,
         r.pc = "done" => Embedded[m] <= Len(schema)
  PROVE  MigInv'
<1>1. schema' = schema /\ recorded' = recorded OBVIOUS
<1>2. schema \in Seq(Nat) /\ recorded = 1 .. Len(schema) /\ \A i \in 1 .. Len(schema) : schema[i] = i
  BY DEF MigInv, MigType
<1>3. Len(schema') = Len(schema) /\ Len(schema) \in Nat BY <1>1, <1>2
<1>4. Len(schema') >= Len(schema) BY <1>3
<1>5. recorded' = 1 .. Len(schema') /\ schema' \in Seq(Nat) BY <1>1, <1>2, <1>3
<1>6. \A i \in 1 .. Len(schema') : schema'[i] = i BY <1>1, <1>2, <1>3
<1>7. r.pc \in Working => migLock' = m /\ 1 <= r.at /\ r.at <= Len(schema') + 1 BY <1>3
<1>8. r.pc \in {"run", "commit"} => r.at = Len(schema') + 1 BY <1>3
<1>9. r.pc = "done" => Embedded[m] <= Len(schema') BY <1>3
<1> HIDE DEF Working
<1> QED BY <1>3, <1>4, <1>5, <1>6, <1>7, <1>8, <1>9, MigMoves

LEMMA MigStep ==
  ASSUME MigInv, NEW m \in Migrators,
         \/ StartMigrate(m) \/ TakeMigrateLock(m) \/ CheckApplied(m) \/ RunScripts(m)
         \/ CommitMigration(m) \/ ReleaseMigrateLock(m) \/ MigrateFails(m)
  PROVE  MigInv'
<1>0. /\ mig[m] \in Migration /\ Len(schema) \in Nat /\ mig[m].at \in Nat /\ mig[m].runs \in Nat
      /\ schema \in Seq(Nat) /\ recorded = 1 .. Len(schema) /\ \A i \in 1 .. Len(schema) : schema[i] = i
  BY DEF MigInv, MigType, Migration
<1> DEFINE Rec(pc, at) == [mig[m] EXCEPT !.pc = pc, !.at = at]
<1>1. \A pc, at : MovesTo(m, pc, at) => mig' = [mig EXCEPT ![m] = Rec(pc, at)] BY DEF MovesTo
<1>2. \A pc \in {"check", "run", "commit", "done", "failed"}, at \in Nat :
        Rec(pc, at) \in Migration /\ Rec(pc, at).pc = pc /\ Rec(pc, at).at = at
  BY <1>0 DEF Migration
<1> HIDE DEF Rec
<1>3. /\ mig[m].pc \in Working => migLock = m /\ 1 <= mig[m].at /\ mig[m].at <= Len(schema) + 1
      /\ mig[m].pc \in {"run", "commit"} => mig[m].at = Len(schema) + 1
  BY DEF MigInv, LockHeld, InOrder
<1>4. CASE StartMigrate(m)
  <2> DEFINE r == [pc |-> "lock", at |-> 1, runs |-> mig[m].runs + 1]
  <2>1. mig' = [mig EXCEPT ![m] = r] /\ UNCHANGED <<migLock, schema, recorded>> BY <1>4 DEF StartMigrate
  <2>2. r \in Migration /\ r.pc = "lock" BY <1>0 DEF Migration
  <2> HIDE DEF r
  <2> QED BY <1>0, <2>1, <2>2, MigMovesStill DEF Working
<1>5. CASE TakeMigrateLock(m)
  <2>1. /\ mig' = [mig EXCEPT ![m] = Rec("check", 1)] /\ UNCHANGED <<schema, recorded>>
        /\ migLock = NoMigrator /\ migLock' = m
    BY <1>1, <1>5 DEF TakeMigrateLock
  <2>2. Rec("check", 1) \in Migration /\ Rec("check", 1).pc = "check" /\ Rec("check", 1).at = 1 BY <1>2
  <2>3. 1 <= Len(schema) + 1 BY <1>0
  <2>4. migLock' # migLock => migLock \in {m, NoMigrator} BY <2>1
  <2>5. 1 <= Rec("check", 1).at /\ Rec("check", 1).at <= Len(schema) + 1 BY <2>2, <2>3
  <2>6. Rec("check", 1).pc \notin {"run", "commit"} /\ Rec("check", 1).pc # "done" BY <2>2
  <2> QED BY <2>1, <2>2, <2>4, <2>5, <2>6, MigMovesStill
<1>6. CASE CheckApplied(m)
  <2>1. mig[m].pc = "check" /\ UNCHANGED <<migLock, schema, recorded>> BY <1>6 DEF CheckApplied
  <2>2. migLock = m /\ 1 <= mig[m].at /\ mig[m].at <= Len(schema) + 1 BY <1>3, <2>1 DEF Working
  <2>3. CASE mig[m].at \in recorded
    <3>1. mig' = [mig EXCEPT ![m] = Rec("check", mig[m].at + 1)] BY <1>1, <1>6, <2>3 DEF CheckApplied
    <3>2. PICK n \in Nat : n = mig[m].at + 1 /\ 1 <= n /\ n <= Len(schema) + 1 BY <1>0, <2>3
    <3>3. Rec("check", n) \in Migration /\ Rec("check", n).pc = "check" /\ Rec("check", n).at = n BY <1>2
    <3> QED BY <1>0, <2>1, <2>2, <3>1, <3>2, <3>3, MigMovesStill DEF Working
  <2>4. CASE mig[m].at \notin recorded
    <3>1. mig' = [mig EXCEPT ![m] = Rec("run", mig[m].at)] BY <1>1, <1>6, <2>4 DEF CheckApplied
    <3>2. mig[m].at = Len(schema) + 1 BY <1>0, <2>2, <2>4
    <3>3. /\ Rec("run", mig[m].at) \in Migration /\ Rec("run", mig[m].at).pc = "run"
          /\ Rec("run", mig[m].at).at = mig[m].at
      BY <1>0, <1>2
    <3> QED BY <1>0, <2>1, <2>2, <3>1, <3>2, <3>3, MigMovesStill DEF Working
  <2> QED BY <2>3, <2>4
<1>7. CASE RunScripts(m)
  <2>1. /\ mig' = [mig EXCEPT ![m] = Rec("commit", mig[m].at)] /\ UNCHANGED <<migLock, schema, recorded>>
        /\ mig[m].pc = "run"
    BY <1>1, <1>7 DEF RunScripts
  <2>2. /\ Rec("commit", mig[m].at) \in Migration /\ Rec("commit", mig[m].at).pc = "commit"
        /\ Rec("commit", mig[m].at).at = mig[m].at
    BY <1>0, <1>2
  <2>3. migLock = m /\ mig[m].at = Len(schema) + 1 /\ 1 <= mig[m].at BY <1>3, <2>1 DEF Working
  <2>4. mig[m].at <= Len(schema) + 1 BY <1>0, <2>3
  <2> QED BY <2>1, <2>2, <2>3, <2>4, MigMovesStill DEF Working
<1>8. CASE CommitMigration(m)
  <2>1. /\ mig' = [mig EXCEPT ![m] = Rec("check", mig[m].at + 1)] /\ migLock' = migLock
        /\ mig[m].pc = "commit" /\ Committed(m)
    BY <1>1, <1>8 DEF CommitMigration
  <2>2. migLock = m /\ mig[m].at = Len(schema) + 1 BY <1>3, <2>1 DEF Working
  <2>3. /\ schema' \in Seq(Nat) /\ Len(schema') = Len(schema) + 1 /\ recorded' = 1 .. Len(schema')
        /\ \A i \in 1 .. Len(schema') : schema'[i] = i
    BY <2>1, <2>2, CommitsNext DEF MigInv
  <2>4. PICK n \in Nat : n = mig[m].at + 1 /\ n = Len(schema') + 1 /\ 1 <= n BY <1>0, <2>2, <2>3
  <2>5. Rec("check", n) \in Migration /\ Rec("check", n).pc = "check" /\ Rec("check", n).at = n BY <1>2
  <2>6. Len(schema') >= Len(schema) /\ n <= Len(schema') + 1 BY <1>0, <2>3, <2>4
  <2> QED BY <2>1, <2>2, <2>3, <2>4, <2>5, <2>6, MigMoves
<1>9. CASE ReleaseMigrateLock(m)
  <2>1. /\ mig' = [mig EXCEPT ![m] = Rec("done", mig[m].at)] /\ UNCHANGED <<schema, recorded>>
        /\ mig[m].pc = "check" /\ mig[m].at > Embedded[m] /\ migLock' = NoMigrator
    BY <1>1, <1>9 DEF ReleaseMigrateLock
  <2>2. Rec("done", mig[m].at) \in Migration /\ Rec("done", mig[m].at).pc = "done" BY <1>0, <1>2
  <2>3. migLock = m /\ mig[m].at <= Len(schema) + 1 BY <1>3, <2>1 DEF Working
  <2>4. Embedded[m] <= Len(schema) BY <1>0, <2>1, <2>3, MigrateAssumption
  <2> QED BY <1>0, <2>1, <2>2, <2>3, <2>4, MigMovesStill DEF Working
<1>10. CASE MigrateFails(m)
  <2>1. /\ mig' = [mig EXCEPT ![m] = Rec("failed", mig[m].at)]
        /\ migLock' = IF migLock = m THEN NoMigrator ELSE migLock
        /\ UNCHANGED <<schema, recorded>> \/ (mig[m].pc = "commit" /\ Committed(m))
    BY <1>1, <1>10 DEF MigrateFails
  <2>2. Rec("failed", mig[m].at) \in Migration /\ Rec("failed", mig[m].at).pc = "failed" BY <1>0, <1>2
  <2>3. migLock' # migLock => migLock \in {m, NoMigrator} BY <2>1
  <2>4. CASE UNCHANGED <<schema, recorded>> BY <1>0, <2>1, <2>2, <2>3, <2>4, MigMovesStill DEF Working
  <2>5. CASE mig[m].pc = "commit" /\ Committed(m)
    <3>1. migLock = m /\ mig[m].at = Len(schema) + 1 BY <1>3, <2>5 DEF Working
    <3>2. /\ schema' \in Seq(Nat) /\ Len(schema') = Len(schema) + 1 /\ recorded' = 1 .. Len(schema')
          /\ \A i \in 1 .. Len(schema') : schema'[i] = i
      BY <2>5, <3>1, CommitsNext DEF MigInv
    <3>3. Len(schema') >= Len(schema) BY <1>0, <3>2
    <3> QED BY <2>1, <2>2, <2>3, <3>1, <3>2, <3>3, MigMoves DEF Working
  <2> QED BY <2>1, <2>4, <2>5
<1> QED BY <1>4, <1>5, <1>6, <1>7, <1>8, <1>9, <1>10

\* Every migration takes effect once and in order, and a runner that is done
\* leaves its release's in effect, for any number of runners and releases,
\* wherever they die (run_migrations in sms-migrate).
THEOREM MigrationsApplyOnceInOrder == MgSpec => []AppliedOnceInOrder
<1>1. MgInit => MigInv
  <2> SUFFICES ASSUME MgInit PROVE MigInv OBVIOUS
  <2>1. /\ mig \in [Migrators -> Migration] /\ \A m \in Migrators : mig[m].pc = "idle"
    BY DEF MgInit, Migration
  <2>2. schema \in Seq(Nat) /\ Len(schema) = 0 /\ recorded = {} BY DEF MgInit
  <2> QED BY <2>1, <2>2 DEF MigInv, MigType, LockHeld, InOrder, Working
<1>2. MigInv /\ [MgNext]_mgvars => MigInv'
  <2> SUFFICES ASSUME MigInv, [MgNext]_mgvars PROVE MigInv' OBVIOUS
  <2>1. CASE MgNext BY <2>1, MigStep DEF MgNext
  <2>2. CASE UNCHANGED mgvars BY <2>2 DEF mgvars, MigInv, MigType, LockHeld, InOrder
  <2> QED BY <2>1, <2>2
<1>3. MigInv => AppliedOnceInOrder
  BY DEF MigInv, MigType, InOrder, AppliedOnceInOrder
<1> QED BY <1>1, <1>2, <1>3, PTL DEF MgSpec

-----------------------------------------------------------------------------
(* Webhook secrets.  A call that has written is alone until the receiver    *)
(* has its answer; every row in use has the receiver's keys, or, from the   *)
(* version that call wrote on, that call's.                                  *)

HookRow == [mode : Modes, secret : Nat \cup {Nothing}, prev : Nat \cup {Nothing},
            audience : Audiences \cup {Nothing}, version : Nat]
SaneRow(row) == row \in HookRow /\ (row.mode = "hmac" => row.secret \in Nat /\ row.secret <= row.version)
Receiver == [mode : Modes, secret : Nat \cup {Nothing}, audience : Audiences \cup {Nothing}, since : Nat]
SameKeys(a, b) == a.mode = b.mode /\ a.secret = b.secret /\ a.audience = b.audience

Change == {NoChange} \cup [at : {"begun"}, to : Requested, read : HookRow] \cup [at : {"answered"}, row : HookRow]
Flight == {NoFlight} \cup [at : {"sent"}, row : HookRow] \cup [at : {"refused"}, row : HookRow, by : Receiver]
Answered(o) == change[o].at = "answered"

HookTypes ==
  /\ SaneRow(endpoint) /\ receiver \in Receiver /\ permitted \in BOOLEAN
  /\ change \in [Operators -> Change] /\ flight \in [Deliveries -> Flight]

\* What is known of a row in use.
KeyedRow(row) ==
  /\ SaneRow(row) /\ row.version <= endpoint.version
  /\ \A o \in Operators : Answered(o) /\ row.version >= change[o].row.version =>
       SameKeys(row, change[o].row) /\ row.prev = change[o].row.prev
  /\ row.version >= receiver.since /\ (\A o \in Operators : Answered(o) => row.version < change[o].row.version) =>
       SameKeys(row, receiver)

RowsKeyed ==
  /\ KeyedRow(endpoint) /\ receiver.since <= endpoint.version
  /\ \A d \in Deliveries : flight[d].at = "sent" => KeyedRow(flight[d].row)

\* A call that has written replaced what the receiver has, and announces it.
AnswersAnnounce == \A o \in Operators : Answered(o) =>
  /\ SaneRow(change[o].row) /\ change[o].row.version <= endpoint.version
  /\ receiver.since <= change[o].row.version
  /\ change[o].row.mode = receiver.mode =>
       /\ receiver.mode = "hmac" /\ receiver.secret \in Nat
       /\ change[o].row.prev = receiver.secret /\ change[o].row.secret # receiver.secret
  /\ \A p \in Operators : Answered(p) => p = o

ReadsAreOld == \A p \in Operators : change[p].at = "begun" =>
  /\ change[p].read.version <= endpoint.version
  /\ change[p].read.version = endpoint.version => change[p].read = endpoint
  /\ \A o \in Operators : Answered(o) => change[p].read.version < change[o].row.version

HookInv == HookTypes /\ RowsKeyed /\ AnswersAnnounce /\ ReadsAreOld /\ ReceiverKeepsUp

\* While a call's answer is on its way the receiver has other keys than the row.
LEMMA AnsweredDiffers ==
  ASSUME HookInv, NEW o \in Operators, Answered(o)
  PROVE  ~ SameKeys(receiver, endpoint)
<1>1. change[o].row.version <= endpoint.version BY DEF HookInv, AnswersAnnounce
<1>2. SameKeys(endpoint, change[o].row)
  <2>1. endpoint.version \in Nat /\ change[o].row.version \in Nat
    BY DEF HookInv, HookTypes, AnswersAnnounce, SaneRow, HookRow
  <2> QED BY <1>1, <2>1 DEF HookInv, RowsKeyed, KeyedRow
<1> QED BY <1>2 DEF HookInv, AnswersAnnounce, SameKeys

\* Only the endpoint's version moves.
LEMMA OtherWriteKeeps == ASSUME HookInv, OtherWrite PROVE HookInv'
<1> DEFINE e == [endpoint EXCEPT !.version = @ + 1]
<1>0. /\ endpoint' = e /\ UNCHANGED <<receiver, change, flight, permitted>> BY DEF OtherWrite
<1>1. /\ endpoint \in HookRow /\ endpoint.version \in Nat
      /\ endpoint.mode = "hmac" => endpoint.secret \in Nat /\ endpoint.secret <= endpoint.version
  BY DEF HookInv, HookTypes, SaneRow, HookRow
<1>2. /\ e \in HookRow /\ e.version = endpoint.version + 1 /\ e.mode = endpoint.mode /\ e.secret = endpoint.secret
      /\ e.audience = endpoint.audience /\ e.prev = endpoint.prev
  BY <1>1 DEF HookRow
<1> HIDE DEF e
<1>3. SaneRow(endpoint') BY <1>0, <1>1, <1>2 DEF SaneRow
<1>4. HookTypes' BY <1>0, <1>3 DEF HookInv, HookTypes
<1>5. \A o : Answered(o)' = Answered(o) BY <1>0 DEF Answered
<1>6. ASSUME NEW row, KeyedRow(row) PROVE KeyedRow(row)'
  <2>1. row.version \in Nat BY <1>6 DEF KeyedRow, SaneRow, HookRow
  <2> QED BY <1>0, <1>1, <1>2, <1>5, <1>6, <2>1 DEF KeyedRow, SaneRow, SameKeys
<1>7. KeyedRow(endpoint)' 
  <2>1. \A o \in Operators : Answered(o) => change[o].row.version <= endpoint.version /\ change[o].row.version \in Nat
    BY DEF HookInv, AnswersAnnounce, SaneRow, HookRow
  <2>2. \A o \in Operators : Answered(o) => SameKeys(endpoint, change[o].row) /\ endpoint.prev = change[o].row.prev
    BY <1>1, <2>1 DEF HookInv, RowsKeyed, KeyedRow
  <2>3. (\A o \in Operators : ~ Answered(o)) => SameKeys(endpoint, receiver)
    <3>1. receiver.since \in Nat /\ endpoint.version >= receiver.since
      BY <1>1 DEF HookInv, HookTypes, Receiver, RowsKeyed
    <3> QED BY <3>1 DEF HookInv, RowsKeyed, KeyedRow
  <2>4. \A o \in Operators : Answered(o) => ~ (e.version < change[o].row.version) BY <1>1, <1>2, <2>1
  <2> QED BY <1>0, <1>1, <1>2, <1>3, <1>5, <2>2, <2>3, <2>4 DEF KeyedRow, SameKeys
<1>8. RowsKeyed'
  <2>1. receiver.since \in Nat BY DEF HookInv, HookTypes, Receiver
  <2> QED BY <1>0, <1>1, <1>2, <1>6, <1>7, <2>1 DEF HookInv, RowsKeyed
<1>9. AnswersAnnounce'
  <2>1. \A o \in Operators : Answered(o) => change[o].row.version \in Nat
    BY DEF HookInv, AnswersAnnounce, SaneRow, HookRow
  <2> QED BY <1>0, <1>1, <1>2, <1>5, <2>1 DEF HookInv, AnswersAnnounce
<1>10. ReadsAreOld'
  <2>1. \A p \in Operators : change[p].at = "begun" => change[p].read.version \in Nat
    BY DEF HookInv, HookTypes, Change, NoChange, HookRow
  <2> QED BY <1>0, <1>1, <1>2, <1>5, <2>1 DEF HookInv, ReadsAreOld
<1>11. ReceiverKeepsUp' BY <1>0 DEF HookInv, ReceiverKeepsUp
<1> QED BY <1>4, <1>8, <1>9, <1>10, <1>11 DEF HookInv

\* A call that is alone until now writes a row that follows the one it has read.
LEMMA WriteKeeps ==
  ASSUME HookInv, NEW o \in Operators, NEW row, Writes(o, row), SaneRow(row),
         change[o].at = "begun", Matches(o), row.version = endpoint.version + 1,
         row.mode = endpoint.mode => /\ row.mode = "hmac" /\ row.prev = endpoint.secret
                                     /\ row.secret # endpoint.secret
  PROVE  HookInv'
<1> DEFINE c == [at |-> "answered", row |-> row]
<1>0. /\ endpoint' = row /\ change' = [change EXCEPT ![o] = c] /\ UNCHANGED <<receiver, flight, permitted>>
  BY DEF Writes
<1>1. /\ endpoint.version \in Nat /\ receiver.since \in Nat /\ receiver.since <= endpoint.version
      /\ row \in HookRow /\ row.version \in Nat /\ row.version = endpoint.version + 1
  BY DEF HookInv, HookTypes, RowsKeyed, SaneRow, HookRow, Receiver
<1>2. \A p \in Operators : ~ Answered(p)
  <2> SUFFICES ASSUME NEW p \in Operators, Answered(p) PROVE FALSE OBVIOUS
  <2>1. change[o].read.version < change[p].row.version BY DEF HookInv, ReadsAreOld
  <2>2. change[p].row.version <= endpoint.version /\ change[p].row.version \in Nat
    BY DEF HookInv, AnswersAnnounce, SaneRow, HookRow
  <2> QED BY <1>1, <2>1, <2>2 DEF Matches
<1>3. SameKeys(endpoint, receiver) BY <1>1, <1>2 DEF HookInv, RowsKeyed, KeyedRow
<1>4. c \in Change /\ c.at = "answered" /\ c.row = row BY <1>1 DEF Change
<1> HIDE DEF c
<1>5. /\ change' \in [Operators -> Change] /\ change'[o] = c
      /\ \A p \in Operators : p # o => change'[p] = change[p]
  BY <1>0, <1>4 DEF HookInv, HookTypes
<1>6. \A p \in Operators : Answered(p)' <=> p = o BY <1>2, <1>4, <1>5 DEF Answered
<1>7. HookTypes' BY <1>0, <1>5 DEF HookInv, HookTypes
<1>8. ASSUME NEW q, KeyedRow(q) PROVE KeyedRow(q)'
  <2>1. /\ q.version \in Nat /\ q.version <= endpoint.version /\ SaneRow(q)
        /\ q.version >= receiver.since => SameKeys(q, receiver)
    BY <1>2, <1>8 DEF KeyedRow, SaneRow, HookRow
  <2>2. q.version < row.version /\ q.version <= row.version /\ ~ (q.version >= row.version) BY <1>1, <2>1
  <2> QED BY <1>0, <1>4, <1>5, <1>6, <2>1, <2>2 DEF KeyedRow, SameKeys, SaneRow
<1>9. KeyedRow(endpoint)'
  <2>1. row.version <= row.version /\ ~ (row.version < row.version) BY <1>1
  <2> QED BY <1>0, <1>4, <1>5, <1>6, <2>1 DEF KeyedRow, SameKeys, SaneRow
<1>10. RowsKeyed'
  <2>1. receiver.since <= row.version BY <1>1
  <2> QED BY <1>0, <1>8, <1>9, <2>1 DEF HookInv, RowsKeyed
<1>11. AnswersAnnounce'
  <2>1. receiver.since <= row.version /\ row.version <= row.version BY <1>1
  <2>2. row.mode = receiver.mode => /\ receiver.mode = "hmac" /\ receiver.secret \in Nat
                                    /\ row.prev = receiver.secret /\ row.secret # receiver.secret
    BY <1>3 DEF HookInv, HookTypes, SaneRow, SameKeys
  <2> QED BY <1>0, <1>4, <1>5, <1>6, <2>1, <2>2 DEF AnswersAnnounce, SaneRow
<1>12. ReadsAreOld'
  <2>1. ASSUME NEW p \in Operators, change'[p].at = "begun"
        PROVE  change'[p].read.version < row.version /\ change'[p].read.version \in Nat
    <3>1. p # o /\ change'[p] = change[p] BY <1>4, <1>5, <2>1
    <3>2. change[p].read.version \in Nat BY <2>1, <3>1 DEF HookInv, HookTypes, Change, NoChange, HookRow
    <3> QED BY <1>1, <2>1, <3>1, <3>2 DEF HookInv, ReadsAreOld
  <2>2. \A p \in Operators : change'[p].at = "begun" =>
          change'[p].read.version <= row.version /\ change'[p].read.version # row.version
    BY <1>1, <2>1
  <2> QED BY <1>0, <1>4, <1>5, <1>6, <2>1, <2>2 DEF ReadsAreOld
<1>13. ReceiverKeepsUp' BY <1>0 DEF HookInv, ReceiverKeepsUp
<1> QED BY <1>7, <1>10, <1>11, <1>12, <1>13 DEF HookInv

LEMMA RotateKeeps == ASSUME HookInv, NEW o \in Operators, Rotate(o) PROVE HookInv'
<1>1. /\ change[o].at = "begun" /\ change[o].read.mode = "hmac" /\ Matches(o) /\ Writes(o, Rotated(o))
  BY DEF Rotate
<1>2. change[o].read = endpoint BY <1>1 DEF HookInv, ReadsAreOld, Matches
<1>3. /\ endpoint \in HookRow /\ endpoint.version \in Nat /\ endpoint.secret \in Nat
      /\ endpoint.secret <= endpoint.version /\ endpoint.mode = "hmac"
  BY <1>1, <1>2 DEF HookInv, HookTypes, SaneRow, HookRow
<1>4. PICK n \in Nat : n = endpoint.version + 1 /\ n # endpoint.secret /\ n <= n BY <1>3
<1>5. Rotated(o) = [endpoint EXCEPT !.secret = n, !.prev = endpoint.secret, !.version = n]
  BY <1>2, <1>4 DEF Rotated
<1>6. /\ Rotated(o) \in HookRow /\ Rotated(o).mode = "hmac" /\ Rotated(o).secret = n
      /\ Rotated(o).prev = endpoint.secret /\ Rotated(o).version = n
  BY <1>3, <1>5 DEF HookRow
<1>7. SaneRow(Rotated(o)) BY <1>4, <1>6 DEF SaneRow
<1> QED BY <1>1, <1>4, <1>6, <1>7, WriteKeeps

LEMMA SwitchKeeps == ASSUME HookInv, NEW o \in Operators, Switch(o) PROVE HookInv'
<1>1. change[o].at = "begun" /\ change[o].read.mode # change[o].to.mode /\ Matches(o) BY DEF Switch
<1>2. change[o].read = endpoint BY <1>1 DEF HookInv, ReadsAreOld, Matches
<1>3. endpoint.version \in Nat BY DEF HookInv, HookTypes, SaneRow, HookRow
<1>4. PICK n \in Nat : n = endpoint.version + 1 /\ n <= n BY <1>3
<1>5. change[o].to \in Requested BY <1>1 DEF HookInv, HookTypes, Change, NoChange
<1>6. change[o].to.mode \in Modes /\ change[o].to.audience \in Audiences \cup {Nothing}
  BY <1>5 DEF Requested, Modes
<1> DEFINE row == [mode |-> change[o].to.mode, prev |-> Nothing, version |-> n,
                   secret |-> IF change[o].to.mode = "hmac" THEN n ELSE Nothing,
                   audience |-> IF change[o].to.mode = "hmac" THEN Nothing ELSE change[o].to.audience]
<1>7. Writes(o, row) BY <1>4 DEF Switch
<1>8. row \in HookRow /\ row.mode = change[o].to.mode /\ row.version = n /\ (row.mode = "hmac" => row.secret = n)
  BY <1>4, <1>6 DEF HookRow
<1> HIDE DEF row
<1>9. SaneRow(row) BY <1>4, <1>8 DEF SaneRow
<1>10. row.mode # endpoint.mode BY <1>1, <1>2, <1>8
<1> QED BY <1>1, <1>4, <1>7, <1>8, <1>9, <1>10, WriteKeeps

\* A call that begins or gives up.
LEMMA CallKeeps ==
  ASSUME HookInv, NEW o \in Operators, NEW c \in Change, change' = [change EXCEPT ![o] = c],
         UNCHANGED <<endpoint, receiver, flight, permitted>>, ~ Answered(o), c.at # "answered",
         c.at = "begun" => c.read = endpoint /\ \A p \in Operators : ~ Answered(p)
  PROVE  HookInv'
<1>1. /\ change' \in [Operators -> Change] /\ change'[o] = c
      /\ \A p \in Operators : p # o => change'[p] = change[p]
  BY DEF HookInv, HookTypes
<1>2. \A p \in Operators : (Answered(p)' <=> Answered(p)) /\ (Answered(p) => change'[p] = change[p])
  BY <1>1 DEF Answered
<1>3. HookTypes' BY <1>1 DEF HookInv, HookTypes
<1>4. ASSUME NEW row, KeyedRow(row) PROVE KeyedRow(row)'
  BY <1>2, <1>4 DEF KeyedRow, SaneRow, SameKeys
<1>5. RowsKeyed' BY <1>4 DEF HookInv, RowsKeyed
<1>6. AnswersAnnounce' BY <1>2 DEF HookInv, AnswersAnnounce, SaneRow
<1>7. ReadsAreOld'
  <2>1. endpoint.version \in Nat BY DEF HookInv, HookTypes, SaneRow, HookRow
  <2>2. endpoint.version <= endpoint.version BY <2>1
  <2>3. ASSUME NEW p \in Operators, change'[p].at = "begun"
        PROVE  /\ change'[p].read.version <= endpoint.version
               /\ change'[p].read.version = endpoint.version => change'[p].read = endpoint
               /\ \A q \in Operators : Answered(q) => change'[p].read.version < change[q].row.version
    <3>1. CASE p = o BY <1>1, <2>2, <2>3, <3>1
    <3>2. CASE p # o BY <1>1, <2>3, <3>2 DEF HookInv, ReadsAreOld
    <3> QED BY <3>1, <3>2
  <2> QED BY <1>2, <2>3 DEF ReadsAreOld
<1>8. ReceiverKeepsUp' BY DEF HookInv, ReceiverKeepsUp
<1> QED BY <1>3, <1>5, <1>6, <1>7, <1>8 DEF HookInv

LEMMA TakeUpKeeps == ASSUME HookInv, NEW o \in Operators, TakeUp(o) PROVE HookInv'
<1> DEFINE r == [mode |-> change[o].row.mode, secret |-> change[o].row.secret,
                 audience |-> change[o].row.audience, since |-> change[o].row.version]
<1>0. /\ Answered(o) /\ receiver' = r /\ change' = [change EXCEPT ![o] = NoChange]
      /\ UNCHANGED <<endpoint, flight, permitted>>
  BY DEF TakeUp, Answered
<1>1. /\ SaneRow(change[o].row) /\ change[o].row \in HookRow /\ change[o].row.version <= endpoint.version
      /\ change[o].row.version \in Nat /\ \A p \in Operators : Answered(p) => p = o
  BY <1>0 DEF HookInv, AnswersAnnounce, SaneRow, HookRow
<1>2. r \in Receiver /\ r.since = change[o].row.version /\ SameKeys(change[o].row, r)
  BY <1>1 DEF HookRow, Receiver, SameKeys
<1> HIDE DEF r
<1>3. /\ change' \in [Operators -> Change] /\ change'[o] = NoChange
      /\ \A p \in Operators : p # o => change'[p] = change[p]
  BY <1>0 DEF HookInv, HookTypes, Change
<1>4. \A p \in Operators : ~ Answered(p)' BY <1>1, <1>3 DEF Answered, NoChange
<1>5. HookTypes' BY <1>0, <1>2, <1>3 DEF HookInv, HookTypes
<1>6. ASSUME NEW row, KeyedRow(row) PROVE KeyedRow(row)'
  <2>1. row.version >= change[o].row.version => SameKeys(row, change[o].row) BY <1>0, <1>6 DEF KeyedRow
  <2>2. row.version >= receiver'.since => SameKeys(row, receiver') BY <1>0, <1>2, <2>1 DEF SameKeys
  <2> QED BY <1>0, <1>4, <1>6, <2>2 DEF KeyedRow, SaneRow
<1>7. RowsKeyed' BY <1>0, <1>1, <1>2, <1>6 DEF HookInv, RowsKeyed
<1>8. AnswersAnnounce' BY <1>4 DEF AnswersAnnounce
<1>9. ReadsAreOld'
  <2>1. \A p \in Operators : change'[p].at = "begun" => p # o /\ change'[p] = change[p] BY <1>3 DEF NoChange
  <2> QED BY <1>0, <1>4, <2>1 DEF HookInv, ReadsAreOld
<1>10. ReceiverKeepsUp' BY <1>0 DEF HookInv, ReceiverKeepsUp
<1> QED BY <1>5, <1>7, <1>8, <1>9, <1>10 DEF HookInv

\* A delivery that is made, judged or dropped.
LEMMA FlightKeeps ==
  ASSUME HookInv, NEW d \in Deliveries, NEW f \in Flight, flight' = [flight EXCEPT ![d] = f],
         UNCHANGED <<endpoint, receiver, change, permitted>>, f.at = "sent" => KeyedRow(f.row),
         f.at = "refused" /\ f.row.mode = f.by.mode => f.row.version < f.by.since
  PROVE  HookInv'
<1>1. /\ flight' \in [Deliveries -> Flight] /\ flight'[d] = f
      /\ \A e \in Deliveries : e # d => flight'[e] = flight[e]
  BY DEF HookInv, HookTypes
<1>2. HookTypes' BY <1>1 DEF HookInv, HookTypes
<1>3. \A row : KeyedRow(row) => KeyedRow(row)' BY DEF KeyedRow, Answered, SaneRow, SameKeys
<1>4. RowsKeyed'
  <2>1. \A e \in Deliveries : flight'[e].at = "sent" => KeyedRow(flight'[e].row)
    BY <1>1 DEF HookInv, RowsKeyed
  <2> QED BY <1>3, <2>1 DEF HookInv, RowsKeyed
<1>5. AnswersAnnounce' BY DEF HookInv, AnswersAnnounce, Answered, SaneRow
<1>6. ReadsAreOld' BY DEF HookInv, ReadsAreOld, Answered
<1>7. ReceiverKeepsUp' BY <1>1 DEF HookInv, ReceiverKeepsUp
<1> QED BY <1>2, <1>4, <1>5, <1>6, <1>7 DEF HookInv

\* The receiver refuses, in its own mode, only what is older than its keys.
LEMMA RefusedIsOld ==
  ASSUME HookInv, NEW row, KeyedRow(row), ~ Verifies(row), row.mode = receiver.mode
  PROVE  row.version < receiver.since
<1>1. row.version \in Nat /\ receiver.since \in Nat /\ SaneRow(row) /\ row.mode \in Modes
  BY DEF HookInv, HookTypes, KeyedRow, SaneRow, HookRow, Receiver
<1> SUFFICES ASSUME row.version >= receiver.since PROVE FALSE BY <1>1
<1>2. CASE \A o \in Operators : Answered(o) => row.version < change[o].row.version
  <2>1. SameKeys(row, receiver) BY <1>2 DEF KeyedRow
  <2>2. CASE row.mode = "hmac"
    <3>1. receiver.secret = row.secret /\ row.secret \in Nat BY <1>1, <2>1, <2>2 DEF SameKeys, SaneRow
    <3> QED BY <2>2, <3>1, HookSecretsAssumption DEF Verifies, SignedWith
  <2>3. CASE row.mode # "hmac" BY <1>1, <2>1, <2>3 DEF SameKeys, Verifies, Modes
  <2> QED BY <2>2, <2>3
<1>3. ASSUME NEW o \in Operators, Answered(o), ~ (row.version < change[o].row.version) PROVE FALSE
  <2>1. change[o].row.version \in Nat BY <1>3 DEF HookInv, AnswersAnnounce, SaneRow, HookRow
  <2>2. row.version >= change[o].row.version BY <1>1, <1>3, <2>1
  <2>3. SameKeys(row, change[o].row) /\ row.prev = change[o].row.prev BY <1>3, <2>2 DEF KeyedRow
  <2>4. row.mode = "hmac" /\ receiver.secret \in Nat /\ row.prev = receiver.secret
    BY <1>3, <2>3 DEF HookInv, AnswersAnnounce, SameKeys
  <2> QED BY <2>4, HookSecretsAssumption DEF Verifies, SignedWith
<1> QED BY <1>2, <1>3

LEMMA HookStep == ASSUME HookInv, WNext PROVE HookInv'
<1>0. NoFlight \in Flight /\ NoFlight.at = "idle" /\ NoChange \in Change /\ NoChange.at = "idle"
  BY DEF Flight, Change, NoFlight, NoChange
<1>1. ASSUME NEW o \in Operators, NEW to \in Requested, Begin(o, to) PROVE HookInv'
  <2> DEFINE c == [at |-> "begun", to |-> to, read |-> endpoint]
  <2>1. /\ change[o] = NoChange /\ SameKeys(receiver, endpoint) /\ change' = [change EXCEPT ![o] = c]
        /\ UNCHANGED <<endpoint, receiver, flight, permitted>>
    BY <1>1 DEF Begin, SameKeys
  <2>2. endpoint \in HookRow BY DEF HookInv, HookTypes, SaneRow
  <2>3. c \in Change /\ c.at = "begun" /\ c.read = endpoint BY <2>2 DEF Change
  <2> HIDE DEF c
  <2>4. \A p \in Operators : ~ Answered(p) BY <2>1, AnsweredDiffers
  <2> QED BY <2>1, <2>3, <2>4, CallKeeps
<1>2. ASSUME NEW o \in Operators, ChangeFails(o) PROVE HookInv'
  <2>1. ~ Answered(o) BY <1>2 DEF ChangeFails, Answered
  <2> QED BY <1>0, <1>2, <2>1, CallKeeps DEF ChangeFails
<1>3. ASSUME NEW d \in Deliveries, MakeRequest(d) PROVE HookInv'
  <2> DEFINE f == [at |-> "sent", row |-> endpoint]
  <2>1. flight' = [flight EXCEPT ![d] = f] /\ UNCHANGED <<endpoint, receiver, change, permitted>>
    BY <1>3 DEF MakeRequest
  <2>2. endpoint \in HookRow BY DEF HookInv, HookTypes, SaneRow
  <2>3. f \in Flight /\ f.at = "sent" /\ f.row = endpoint BY <2>2 DEF Flight
  <2> HIDE DEF f
  <2>4. KeyedRow(endpoint) BY DEF HookInv, RowsKeyed
  <2> QED BY <2>1, <2>3, <2>4, FlightKeeps
<1>4. ASSUME NEW d \in Deliveries, Arrive(d) PROVE HookInv'
  <2> DEFINE f == [at |-> "refused", row |-> flight[d].row, by |-> receiver]
  <2>1. /\ flight[d].at = "sent" /\ UNCHANGED <<endpoint, receiver, change, permitted>>
        /\ flight' = [flight EXCEPT ![d] = IF Verifies(flight[d].row) THEN NoFlight ELSE f]
    BY <1>4 DEF Arrive
  <2>2. KeyedRow(flight[d].row) /\ flight[d].row \in HookRow
    BY <2>1 DEF HookInv, RowsKeyed, KeyedRow, SaneRow
  <2>3. receiver \in Receiver BY DEF HookInv, HookTypes
  <2>4. f \in Flight /\ f.at = "refused" /\ f.row = flight[d].row /\ f.by = receiver
    BY <2>2, <2>3 DEF Flight
  <2> HIDE DEF f
  <2>5. CASE Verifies(flight[d].row) BY <1>0, <2>1, <2>5, FlightKeeps
  <2>6. CASE ~ Verifies(flight[d].row)
    <3>1. flight[d].row.mode = receiver.mode => flight[d].row.version < receiver.since
      BY <2>2, <2>6, RefusedIsOld
    <3> QED BY <2>1, <2>4, <2>6, <3>1, FlightKeeps
  <2> QED BY <2>5, <2>6
<1>5. ASSUME NEW d \in Deliveries, Retry(d) PROVE HookInv' BY <1>0, <1>5, FlightKeeps DEF Retry
<1> QED BY <1>1, <1>2, <1>3, <1>4, <1>5, RotateKeeps, SwitchKeeps, TakeUpKeeps, OtherWriteKeeps DEF WNext

\* The receiver of webhooks keeps up with the changes of its endpoint, however
\* rotations, mode switches, other writes of the row and deliveries interleave
\* (rotate_secret and switch_mode with if_match; hooks.rs signing with the row
\* it has read).
THEOREM ReceiversKeepUp == WSpec => []ReceiverKeepsUp
<1>1. WInit => HookInv
  <2> SUFFICES ASSUME WInit PROVE HookInv OBVIOUS
  <2>1. PICK mode \in Modes, a \in Audiences :
          /\ endpoint = [mode |-> mode, secret |-> IF mode = "hmac" THEN 0 ELSE Nothing, prev |-> Nothing,
                         audience |-> IF mode = "hmac" THEN Nothing ELSE a, version |-> 0]
          /\ receiver = [mode |-> mode, secret |-> endpoint.secret, audience |-> endpoint.audience, since |-> 0]
    BY DEF WInit
  <2>2. endpoint \in HookRow /\ endpoint.version = 0 /\ (endpoint.mode = "hmac" => endpoint.secret = 0)
    BY <2>1 DEF HookRow
  <2>3. SaneRow(endpoint) BY <2>2 DEF SaneRow
  <2>4. receiver \in Receiver /\ receiver.since = 0 /\ SameKeys(endpoint, receiver)
    BY <2>1, <2>2 DEF Receiver, HookRow, SameKeys
  <2>5. /\ change \in [Operators -> Change] /\ \A o \in Operators : change[o].at = "idle"
    BY DEF WInit, Change, NoChange
  <2>6. /\ flight \in [Deliveries -> Flight] /\ \A d \in Deliveries : flight[d].at = "idle"
    BY DEF WInit, Flight, NoFlight
  <2>7. permitted \in BOOLEAN BY DEF WInit
  <2>8. HookTypes BY <2>3, <2>4, <2>5, <2>6, <2>7 DEF HookTypes
  <2>9. RowsKeyed BY <2>2, <2>3, <2>4, <2>5, <2>6 DEF RowsKeyed, KeyedRow, Answered
  <2>10. AnswersAnnounce /\ ReadsAreOld /\ ReceiverKeepsUp
    BY <2>5, <2>6 DEF AnswersAnnounce, ReadsAreOld, ReceiverKeepsUp, Answered
  <2> QED BY <2>8, <2>9, <2>10 DEF HookInv
<1>2. HookInv /\ [WNext]_wvars => HookInv'
  <2> SUFFICES ASSUME HookInv, [WNext]_wvars PROVE HookInv' OBVIOUS
  <2>1. CASE UNCHANGED wvars
    BY <2>1 DEF wvars, HookInv, HookTypes, RowsKeyed, KeyedRow, SaneRow, SameKeys, AnswersAnnounce,
                ReadsAreOld, ReceiverKeepsUp, Answered
  <2> QED BY <2>1, HookStep
<1>3. HookInv => ReceiverKeepsUp BY DEF HookInv
<1> QED BY <1>1, <1>2, <1>3, PTL DEF WSpec

-----------------------------------------------------------------------------
(* Carrier callbacks.  Where a request is says what its envelope was found  *)
(* to be; the last fetch bounds all of them.                                 *)

CallPlaces == {"certificate", "permit", "fetch", "verify", "ingest", "ok", "badRequest",
               "forbidden", "unavailable"}
Call == [at : CallPlaces, envelope : Envelopes, left : Nat]
CallTypes ==
  /\ callback \in [CallbackPosts -> {NoCallback} \cup Call]
  /\ certs \subseteq Served /\ IsFiniteSet(certs) /\ Cardinality(certs) <= MaxCachedCerts
  /\ callClock \in Nat

Acceptable(e) == e.ourTopic /\ e.version2 /\ e.cert \in Certs /\ e.wellFormed /\ e.kind # "other"
SoundCall(c) ==
  /\ c.at \in CallPlaces \ {"forbidden"} => Acceptable(c.envelope)
  /\ c.at = "verify" => c.envelope.cert \in Served
  /\ c.at = "forbidden" => ~ Genuine(c.envelope)
  /\ c.at \in {"ingest", "ok", "badRequest"} => Genuine(c.envelope)
  /\ c.at = "ok" /\ c.envelope.kind = "Notification" => c.left = 0
  /\ c.at = "badRequest" => ~ c.envelope.isEvent
CallsSound == \A p \in CallbackPosts : SoundCall(callback[p])

FetchesSpaced ==
  /\ fetchTimes \in [CallbackPosts -> Nat \cup {Unfetched}] /\ lastFetch \in Nat \cup {Unfetched}
  /\ lastFetch # Unfetched => lastFetch <= callClock
  /\ \A p \in CallbackPosts : fetchTimes[p] # Unfetched => lastFetch # Unfetched /\ fetchTimes[p] <= lastFetch
  /\ \A p, q \in CallbackPosts :
       p # q /\ fetchTimes[p] # Unfetched /\ fetchTimes[q] # Unfetched =>
         fetchTimes[p] - fetchTimes[q] \notin (1 - FetchInterval) .. (FetchInterval - 1)

CallbackInv == CallTypes /\ CallsSound /\ FetchesSpaced

Advanced(c, at) == [c EXCEPT !.at = at]

LEMMA AdvancedCall ==
  ASSUME NEW c \in Call, NEW at \in CallPlaces
  PROVE  /\ Advanced(c, at) \in Call /\ Advanced(c, at).at = at
         /\ Advanced(c, at).envelope = c.envelope /\ Advanced(c, at).left = c.left
BY DEF Call, Advanced

\* A request that is somewhere holds an envelope.
LEMMA InProgress ==
  ASSUME CallTypes, NEW p \in CallbackPosts, callback[p].at # "idle"
  PROVE  /\ callback[p] \in Call /\ callback[p].envelope \in Envelopes /\ callback[p].left \in Nat
BY DEF CallTypes, NoCallback, Call

LEMMA Proceeds ==
  ASSUME CallTypes, NEW p \in CallbackPosts, NEW at, Proceed(p, at)
  PROVE  callback' = [callback EXCEPT ![p] = Advanced(callback[p], at)]
BY DEF Proceed, Advanced

\* One request moves; certificates stay served and few, fetches as they were.
LEMMA CallMoves ==
  ASSUME CallbackInv, NEW p \in CallbackPosts, NEW c \in {NoCallback} \cup Call, SoundCall(c),
         callback' = [callback EXCEPT ![p] = c], UNCHANGED <<certs, callClock>>,
         FetchesSpaced'
  PROVE  CallbackInv'
<1>1. /\ callback' \in [CallbackPosts -> {NoCallback} \cup Call] /\ callback'[p] = c
      /\ \A q \in CallbackPosts : q # p => callback'[q] = callback[q]
  BY DEF CallbackInv, CallTypes
<1>2. CallTypes' BY <1>1 DEF CallbackInv, CallTypes
<1>3. CallsSound' BY <1>1 DEF CallbackInv, CallsSound
<1> QED BY <1>2, <1>3 DEF CallbackInv

LEMMA FetchesStill ==
  ASSUME CallbackInv, UNCHANGED <<lastFetch, fetchTimes, callClock>>
  PROVE  FetchesSpaced'
BY DEF CallbackInv, FetchesSpaced

LEMMA IdleIsSound == SoundCall(NoCallback) /\ NoCallback.at = "idle"
BY DEF SoundCall, NoCallback, CallPlaces

LEMMA PostKeeps ==
  ASSUME CallbackInv, NEW p \in CallbackPosts, NEW e \in Envelopes, PostCallback(p, e)
  PROVE CallbackInv'
<1> DEFINE where == IF Acceptable(e) THEN "certificate" ELSE "forbidden"
           c == [at |-> where, envelope |-> e, left |-> e.updates]
<1>1. callback' = [callback EXCEPT ![p] = c] /\ UNCHANGED <<certs, lastFetch, fetchTimes, callClock>>
  BY DEF PostCallback, Acceptable
<1>2. e.updates \in Nat BY CallbacksAssumption
<1>3. c \in Call /\ c.at = where /\ c.envelope = e BY <1>2 DEF Call, CallPlaces
<1>4. Genuine(e) => Acceptable(e) BY CallbacksAssumption DEF Genuine, Acceptable
<1> HIDE DEF c
<1>5. SoundCall(c) BY <1>3, <1>4 DEF SoundCall
<1>6. FetchesSpaced' BY <1>1, FetchesStill
<1> QED BY <1>1, <1>3, <1>5, <1>6, CallMoves

LEMMA LookUpKeeps == ASSUME CallbackInv, NEW p \in CallbackPosts, LookUpCertificate(p) PROVE CallbackInv'
<1>1. callback[p].at = "certificate" /\ UNCHANGED <<certs, lastFetch, fetchTimes, callClock>>
  BY DEF LookUpCertificate
<1>2. callback[p] \in Call /\ Acceptable(callback[p].envelope)
  BY <1>1, InProgress DEF CallbackInv, CallsSound, SoundCall, CallPlaces
<1>3. FetchesSpaced' BY <1>1, FetchesStill
<1>4. PICK at \in {"verify", "permit"} :
        Proceed(p, at) /\ (at = "verify" => callback[p].envelope.cert \in certs)
  BY DEF LookUpCertificate
<1> DEFINE c == Advanced(callback[p], at)
<1>5. c \in Call /\ c.at = at /\ c.envelope = callback[p].envelope
  BY <1>2, AdvancedCall DEF CallPlaces
<1>6. callback' = [callback EXCEPT ![p] = c] BY <1>4, Proceeds DEF CallbackInv
<1> HIDE DEF c
<1>7. SoundCall(c) BY <1>2, <1>4, <1>5 DEF SoundCall, CallbackInv, CallTypes
<1> QED BY <1>1, <1>3, <1>5, <1>6, <1>7, CallMoves

LEMMA PermitKeeps == ASSUME CallbackInv, NEW p \in CallbackPosts, PermitFetch(p) PROVE CallbackInv'
<1>1. callback[p].at = "permit" /\ UNCHANGED <<certs, callClock>> BY DEF PermitFetch
<1>2. callback[p] \in Call /\ Acceptable(callback[p].envelope)
  BY <1>1, InProgress DEF CallbackInv, CallsSound, SoundCall, CallPlaces
<1>3. \A at \in {"unavailable", "fetch"} : Proceed(p, at) =>
        /\ Advanced(callback[p], at) \in Call /\ SoundCall(Advanced(callback[p], at))
        /\ callback' = [callback EXCEPT ![p] = Advanced(callback[p], at)]
  <2> TAKE at \in {"unavailable", "fetch"}
  <2> HAVE Proceed(p, at)
  <2> DEFINE c == Advanced(callback[p], at)
  <2>1. c \in Call /\ c.at = at /\ c.envelope = callback[p].envelope
    BY <1>2, AdvancedCall DEF CallPlaces
  <2>2. callback' = [callback EXCEPT ![p] = c] BY Proceeds DEF CallbackInv
  <2> HIDE DEF c
  <2>3. SoundCall(c) BY <1>2, <2>1 DEF SoundCall
  <2> QED BY <2>1, <2>2, <2>3 DEF c
<1>4. CASE TooSoon
  <2>1. Proceed(p, "unavailable") /\ UNCHANGED <<lastFetch, fetchTimes>> BY <1>4 DEF PermitFetch
  <2>2. FetchesSpaced' BY <1>1, <2>1, FetchesStill
  <2> QED BY <1>1, <1>3, <2>1, <2>2, CallMoves
<1>5. CASE ~ TooSoon
  <2>1. /\ Proceed(p, "fetch") /\ lastFetch' = callClock
        /\ fetchTimes' = [fetchTimes EXCEPT ![p] = callClock]
    BY <1>5 DEF PermitFetch, Permitted
  <2>2. callClock \in Nat /\ FetchInterval \in Nat /\ Unfetched \notin Nat
    BY CallbacksAssumption DEF CallbackInv, CallTypes
  <2>3. /\ fetchTimes' \in [CallbackPosts -> Nat \cup {Unfetched}] /\ fetchTimes'[p] = callClock
        /\ \A q \in CallbackPosts : q # p => fetchTimes'[q] = fetchTimes[q]
    BY <2>1, <2>2 DEF CallbackInv, FetchesSpaced
  <2>4. ASSUME NEW q \in CallbackPosts, q # p, fetchTimes[q] # Unfetched
        PROVE  /\ fetchTimes[q] \in Nat /\ fetchTimes[q] <= callClock
               /\ callClock - fetchTimes[q] >= FetchInterval
    <3>1. /\ fetchTimes[q] \in Nat /\ lastFetch \in Nat /\ lastFetch # Unfetched
          /\ fetchTimes[q] <= lastFetch /\ lastFetch <= callClock
      BY <2>4 DEF CallbackInv, FetchesSpaced
    <3>2. ~ (callClock - lastFetch < FetchInterval) BY <1>5, <3>1 DEF TooSoon
    <3> QED BY <2>2, <3>1, <3>2
  <2>5. FetchesSpaced'
    <3>1. lastFetch' \in Nat /\ lastFetch' # Unfetched /\ lastFetch' <= callClock' BY <1>1, <2>1, <2>2
    <3>2. \A q \in CallbackPosts : fetchTimes'[q] # Unfetched => fetchTimes'[q] <= lastFetch'
      BY <2>1, <2>2, <2>3, <2>4
    <3>3. ASSUME NEW q \in CallbackPosts, NEW r \in CallbackPosts, q # r,
                 fetchTimes'[q] # Unfetched, fetchTimes'[r] # Unfetched
          PROVE  fetchTimes'[q] - fetchTimes'[r] \notin (1 - FetchInterval) .. (FetchInterval - 1)
      <4>1. CASE q = p
        <5>1. fetchTimes'[q] = callClock /\ fetchTimes'[r] = fetchTimes[r] BY <2>3, <3>3, <4>1
        <5>2. fetchTimes[r] \in Nat /\ callClock - fetchTimes[r] >= FetchInterval BY <2>4, <3>3, <4>1, <5>1
        <5> QED BY <2>2, <5>1, <5>2
      <4>2. CASE r = p
        <5>1. fetchTimes'[r] = callClock /\ fetchTimes'[q] = fetchTimes[q] BY <2>3, <3>3, <4>2
        <5>2. fetchTimes[q] \in Nat /\ callClock - fetchTimes[q] >= FetchInterval BY <2>4, <3>3, <4>2, <5>1
        <5> QED BY <2>2, <5>1, <5>2
      <4>3. CASE q # p /\ r # p BY <2>3, <3>3, <4>3 DEF CallbackInv, FetchesSpaced
      <4> QED BY <4>1, <4>2, <4>3
    <3> QED BY <2>3, <3>1, <3>2, <3>3 DEF FetchesSpaced
  <2> QED BY <1>1, <1>3, <2>1, <2>5, CallMoves
<1> QED BY <1>4, <1>5

LEMMA FetchFailsKeeps ==
  ASSUME CallbackInv, NEW p \in CallbackPosts, FetchCertificateFails(p)
  PROVE CallbackInv'
<1>1. /\ callback[p].at = "fetch" /\ UNCHANGED <<certs, lastFetch, fetchTimes, callClock>>
      /\ Proceed(p, "unavailable")
  BY DEF FetchCertificateFails
<1>2. callback[p] \in Call /\ Acceptable(callback[p].envelope)
  BY <1>1, InProgress DEF CallbackInv, CallsSound, SoundCall, CallPlaces
<1>3. FetchesSpaced' BY <1>1, FetchesStill
<1> DEFINE c == Advanced(callback[p], "unavailable")
<1>4. c \in Call /\ c.at = "unavailable" /\ c.envelope = callback[p].envelope
  BY <1>2, AdvancedCall DEF CallPlaces
<1>5. callback' = [callback EXCEPT ![p] = c] BY <1>1, Proceeds DEF CallbackInv
<1> HIDE DEF c
<1>6. SoundCall(c) BY <1>2, <1>4 DEF SoundCall
<1> QED BY <1>1, <1>3, <1>4, <1>5, <1>6, CallMoves

LEMMA FetchKeeps == ASSUME CallbackInv, NEW p \in CallbackPosts, FetchCertificate(p) PROVE CallbackInv'
<1> DEFINE name == callback[p].envelope.cert
           kept == IF Cardinality(certs) >= MaxCachedCerts THEN {} ELSE certs
           c == Advanced(callback[p], "verify")
<1>1. /\ callback[p].at = "fetch" /\ name \in Served /\ certs' = kept \cup {name} /\ Proceed(p, "verify")
      /\ UNCHANGED <<lastFetch, fetchTimes, callClock>>
  BY DEF FetchCertificate
<1>2. callback[p] \in Call /\ Acceptable(callback[p].envelope)
  BY <1>1, InProgress DEF CallbackInv, CallsSound, SoundCall, CallPlaces
<1>3. c \in Call /\ c.at = "verify" /\ c.envelope = callback[p].envelope
  BY <1>2, AdvancedCall DEF CallPlaces
<1>4. callback' = [callback EXCEPT ![p] = c] BY <1>1, Proceeds DEF CallbackInv
<1>5. /\ certs \subseteq Served /\ IsFiniteSet(certs) /\ Cardinality(certs) \in Nat /\ MaxCachedCerts \in Nat \ {0}
  BY CallbacksAssumption, FS_CardinalityType DEF CallbackInv, CallTypes
<1>6. /\ kept \subseteq Served /\ IsFiniteSet(kept) /\ Cardinality(kept) \in Nat
      /\ Cardinality(kept) + 1 <= MaxCachedCerts
  <2>1. CASE Cardinality(certs) >= MaxCachedCerts
    <3>1. kept = {} BY <2>1
    <3> HIDE DEF kept
    <3>2. IsFiniteSet(kept) /\ Cardinality(kept) = 0 BY <3>1, FS_EmptySet
    <3> QED BY <1>5, <3>1, <3>2
  <2>2. CASE ~ (Cardinality(certs) >= MaxCachedCerts)
    <3>1. kept = certs BY <2>2
    <3> HIDE DEF kept
    <3> QED BY <1>5, <2>2, <3>1
  <2> QED BY <2>1, <2>2
<1> HIDE DEF c, kept, name
<1>7. IsFiniteSet(certs') /\ Cardinality(certs') <= MaxCachedCerts
  <2>1. /\ IsFiniteSet(kept \cup {name})
        /\ Cardinality(kept \cup {name}) = IF name \in kept THEN Cardinality(kept) ELSE Cardinality(kept) + 1
    BY <1>6, FS_AddElement
  <2> QED BY <1>1, <1>5, <1>6, <2>1
<1>8. SoundCall(c) BY <1>1, <1>2, <1>3 DEF SoundCall, name
<1>9. /\ callback' \in [CallbackPosts -> {NoCallback} \cup Call] /\ callback'[p] = c
      /\ \A q \in CallbackPosts : q # p => callback'[q] = callback[q]
  BY <1>3, <1>4 DEF CallbackInv, CallTypes
<1>10. CallTypes' BY <1>1, <1>6, <1>7, <1>9 DEF CallbackInv, CallTypes
<1>11. CallsSound' BY <1>8, <1>9 DEF CallbackInv, CallsSound
<1>12. FetchesSpaced' BY <1>1, FetchesStill
<1> QED BY <1>10, <1>11, <1>12 DEF CallbackInv

LEMMA VerifyKeeps == ASSUME CallbackInv, NEW p \in CallbackPosts, VerifySignature(p) PROVE CallbackInv'
<1> DEFINE e == callback[p].envelope
           where == IF ~ e.signed \/ (e.kind = "SubscriptionConfirmation" /\ ~ e.snsUrl) THEN "forbidden"
                    ELSE IF e.kind # "Notification" THEN "ok" ELSE IF e.isEvent THEN "ingest" ELSE "badRequest"
           c == Advanced(callback[p], where)
<1>1. /\ callback[p].at = "verify" /\ UNCHANGED <<certs, lastFetch, fetchTimes, callClock>> /\ Proceed(p, where)
  BY DEF VerifySignature
<1>2. callback[p] \in Call /\ Acceptable(e) /\ e.cert \in Served
  BY <1>1, InProgress DEF CallbackInv, CallsSound, SoundCall, CallPlaces
<1>3. where \in CallPlaces BY DEF CallPlaces
<1>4. /\ where = "forbidden" => ~ Genuine(e)
      /\ where \in {"ingest", "ok", "badRequest"} => Genuine(e)
      /\ where = "ok" => e.kind # "Notification"
      /\ where = "badRequest" => ~ e.isEvent
      /\ where # "verify"
  BY <1>2 DEF Acceptable, Genuine
<1> HIDE DEF where
<1>5. c \in Call /\ c.at = where /\ c.envelope = e
  BY <1>2, <1>3, AdvancedCall
<1>6. callback' = [callback EXCEPT ![p] = c] BY <1>1, Proceeds DEF CallbackInv
<1> HIDE DEF c, e
<1>7. SoundCall(c) BY <1>2, <1>4, <1>5 DEF SoundCall
<1>8. FetchesSpaced' BY <1>1, FetchesStill
<1> QED BY <1>1, <1>5, <1>6, <1>7, <1>8, CallMoves

LEMMA IngestKeeps == ASSUME CallbackInv, NEW p \in CallbackPosts, IngestUpdate(p) PROVE CallbackInv'
<1>1. callback[p].at = "ingest" /\ UNCHANGED <<certs, lastFetch, fetchTimes, callClock>> BY DEF IngestUpdate
<1>2. /\ callback[p] \in Call /\ Acceptable(callback[p].envelope) /\ Genuine(callback[p].envelope)
      /\ callback[p].left \in Nat
  BY <1>1, InProgress DEF CallbackInv, CallsSound, SoundCall, CallPlaces
<1>3. FetchesSpaced' BY <1>1, FetchesStill
<1>4. CASE callback[p].left = 0
  <2> DEFINE c == Advanced(callback[p], "ok")
  <2>1. callback' = [callback EXCEPT ![p] = c] BY <1>4 DEF IngestUpdate, Advanced
  <2>2. c \in Call /\ c.at = "ok" /\ c.envelope = callback[p].envelope /\ c.left = 0
    BY <1>2, <1>4, AdvancedCall DEF CallPlaces
  <2> HIDE DEF c
  <2>3. SoundCall(c) BY <1>2, <2>2 DEF SoundCall
  <2> QED BY <1>1, <1>3, <2>1, <2>2, <2>3, CallMoves
<1>5. CASE callback[p].left # 0
  <2>0. PICK n \in Nat : n = callback[p].left - 1 BY <1>2, <1>5
  <2> DEFINE c == [callback[p] EXCEPT !.left = n]
  <2>1. callback' = [callback EXCEPT ![p] = c] BY <1>5, <2>0 DEF IngestUpdate
  <2>2. c \in Call /\ c.at = "ingest" /\ c.envelope = callback[p].envelope
    BY <1>1, <1>2 DEF Call
  <2> HIDE DEF c
  <2>3. SoundCall(c) BY <1>2, <2>2 DEF SoundCall
  <2> QED BY <1>1, <1>3, <2>1, <2>2, <2>3, CallMoves
<1> QED BY <1>4, <1>5

LEMMA CallTickKeeps == ASSUME CallbackInv, CallTick PROVE CallbackInv'
<1>1. callClock' = callClock + 1 /\ callClock \in Nat /\ UNCHANGED <<callback, certs, lastFetch, fetchTimes>>
  BY DEF CallTick, CallbackInv, CallTypes
<1>2. CallTypes' BY <1>1 DEF CallbackInv, CallTypes
<1>3. CallsSound' BY <1>1 DEF CallbackInv, CallsSound, SoundCall, Acceptable, Genuine
<1>4. FetchesSpaced'
  <2>1. lastFetch # Unfetched => lastFetch <= callClock + 1 BY <1>1 DEF CallbackInv, FetchesSpaced
  <2> QED BY <1>1, <2>1 DEF CallbackInv, FetchesSpaced
<1> QED BY <1>2, <1>3, <1>4 DEF CallbackInv

\* No genuine receipt is given a final answer before it is handled, none but
\* genuine ones are handled, certificates are fetched apart and few are kept,
\* for any number of requests, envelopes and certificates (dlr_handler,
\* authenticate_callback, permit_uncached_fetch).
THEOREM CallbackAnswersAreRight == CSpec => []AnswersAreRight
<1>1. CInit => CallbackInv
  <2> SUFFICES ASSUME CInit PROVE CallbackInv OBVIOUS
  <2>1. MaxCachedCerts \in Nat BY CallbacksAssumption
  <2>2. certs = {} /\ IsFiniteSet(certs) /\ Cardinality(certs) = 0 BY FS_EmptySet DEF CInit
  <2>3. CallTypes BY <2>1, <2>2 DEF CInit, CallTypes
  <2>4. CallsSound BY IdleIsSound DEF CInit, CallsSound
  <2>5. FetchesSpaced BY DEF CInit, FetchesSpaced
  <2> QED BY <2>3, <2>4, <2>5 DEF CallbackInv
<1>2. CallbackInv /\ [CNext]_cvars => CallbackInv'
  <2> SUFFICES ASSUME CallbackInv, [CNext]_cvars PROVE CallbackInv' OBVIOUS
  <2>1. ASSUME NEW p \in CallbackPosts, CallbackEnds(p) PROVE CallbackInv'
    <3>1. callback' = [callback EXCEPT ![p] = NoCallback] /\ UNCHANGED <<certs, lastFetch, fetchTimes, callClock>>
      BY <2>1 DEF CallbackEnds
    <3> QED BY <3>1, IdleIsSound, FetchesStill, CallMoves
  <2>2. CASE UNCHANGED cvars
    BY <2>2 DEF cvars, CallbackInv, CallTypes, CallsSound, SoundCall, FetchesSpaced, Acceptable, Genuine
  <2>3. CASE CNext
   
      BY <2>1, <2>3, PostKeeps, LookUpKeeps, PermitKeeps, FetchKeeps, FetchFailsKeeps, VerifyKeeps, IngestKeeps,
       CallTickKeeps DEF CNext
  <2> QED BY <2>2, <2>3
<1>3. CallbackInv => AnswersAreRight
  BY DEF CallbackInv, CallTypes, CallsSound, SoundCall, FetchesSpaced, AnswersAreRight
<1> QED BY <1>1, <1>2, <1>3, PTL DEF CSpec

-----------------------------------------------------------------------------
(* Provider adapters.  A request in progress is never past its deadline, and *)
(* the deadline of one that may be sent comes before its token's end; what a *)
(* carrier has taken is being answered, or was told as held or acknowledged, *)
(* or as rejected when it came with a 2xx that is not read.                  *)

Waiting == {"token", "fetch", "fetched", "send"}
SubPlaces == Waiting \cup {"rest", "sent", "taken", "told"}
SubShape(r) ==
  r \in [via : {r.via}, at : SubPlaces, token : Int, by : Int, told : {r.told}, refs : {r.refs}]

\* What is known of a submission at a time, and of one its carrier has taken.
SoundSub(s, r, time, isTaken, isMisread) ==
  /\ SubShape(r)
  /\ r.at \in {"token", "fetch", "fetched"} => r.via \in Tokened
  /\ r.at \in Waiting => time <= r.by
  /\ r.at = "fetched" => r.by <= r.token + Latency
  /\ r.at = "send" /\ r.via \in Tokened => r.by < r.token + Lifetime
  /\ isTaken => r.at \in {"taken", "told"}
  /\ isTaken /\ r.at = "told" =>
       r.told = "indeterminate" \/ (r.told = "ack" /\ r.refs = AckRefs(r.via, s)) \/ (isMisread /\ r.told = "rejected")
  /\ r.refs = {} \/ r.refs = AckRefs(r.via, s)

SubsSound ==
  /\ sub = [s \in Submissions |-> sub[s]]
  /\ \A s \in Submissions : SoundSub(s, sub[s], now, s \in taken, s \in misread)

\* A cached token is good for four fifths of its life from its late arrival.
GoodToken(b) ==
  /\ b \in [issued : Int, until : Int]
  /\ b.until = 0 \/ b.until <= b.issued + Latency + (Lifetime * 4) \div 5
BearersGood == bearer = [a \in Tokened |-> bearer[a]] /\ \A a \in Tokened : GoodToken(bearer[a])

AdapterInv == now \in Nat /\ taken \subseteq Submissions /\ stale = {} /\ SubsSound /\ BearersGood

LEMMA Fifths == \E k \in Nat \ {0} : Lifetime = 5 * k /\ (Lifetime * 4) \div 5 = 4 * k /\ 2 * Latency <= k
<1>1. Lifetime \in Nat \ {0} /\ Lifetime % 5 = 0 /\ Latency \in Nat /\ 10 * Latency <= Lifetime
  BY AdapterAssumption
<1>2. PICK k \in Int : Lifetime = 5 * k
  <2>1. Lifetime = 5 * (Lifetime \div 5) BY <1>1
  <2>2. Lifetime \div 5 \in Int BY <1>1
  <2> QED BY <2>1, <2>2
<1>3. k \in Nat \ {0} /\ 2 * Latency <= k BY <1>1, <1>2
<1>4. (Lifetime * 4) \div 5 = 4 * k BY <1>2, <1>3
<1> QED BY <1>2, <1>3, <1>4

\* One submission moves.
LEMMA SubMoves ==
  ASSUME AdapterInv, NEW s \in Submissions, NEW r, sub' = [sub EXCEPT ![s] = r], now' = now,
         taken' = taken \/ taken' = taken \cup {s}, misread' = misread \/ misread' = misread \cup {s},
         stale' = stale, BearersGood',
         SoundSub(s, r, now, s \in taken', s \in misread')
  PROVE  AdapterInv'
<1>1. /\ sub' = [t \in Submissions |-> sub'[t]] /\ sub'[s] = r
      /\ \A t \in Submissions : t # s => sub'[t] = sub[t] 
              /\ (t \in taken' <=> t \in taken) /\ (t \in misread' <=> t \in misread)
  BY DEF AdapterInv, SubsSound
<1>2. \A t \in Submissions : SoundSub(t, sub'[t], now, t \in taken', t \in misread')
  <2> TAKE t \in Submissions
  <2>1. CASE t = s BY <1>1, <2>1
  <2>2. CASE t # s
    <3>1. SoundSub(t, sub[t], now, t \in taken, t \in misread) BY DEF AdapterInv, SubsSound
    <3> QED BY <1>1, <2>2, <3>1 DEF SoundSub
  <2> QED BY <2>1, <2>2
<1>3. SubsSound' BY <1>1, <1>2 DEF SubsSound
<1> QED BY <1>3 DEF AdapterInv

LEMMA BearersStill == ASSUME AdapterInv, bearer' = bearer PROVE BearersGood'
BY DEF AdapterInv, BearersGood, GoodToken

\* The record of a submission whose worker is told of an error, or of success.
ToldOf(r, what) == [AtRest EXCEPT !.via = r.via, !.at = "told", !.told = what]
AckedOf(r, refs) == [AtRest EXCEPT !.via = r.via, !.at = "told", !.told = "ack", !.refs = refs]
LEMMA RestShape ==
  /\ AtRest \in [via : {"none"}, at : SubPlaces, token : Int, by : Int, told : {"nothing"}, refs : {{}}]
  /\ AtRest.at = "rest" /\ AtRest.refs = {} /\ SubShape(AtRest)
BY DEF AtRest, SubShape, SubPlaces, Waiting
LEMMA ToldFields ==
  ASSUME NEW r, NEW what
  PROVE  /\ SubShape(ToldOf(r, what)) /\ ToldOf(r, what).at = "told" /\ ToldOf(r, what).told = what
         /\ ToldOf(r, what).refs = {} /\ ToldOf(r, what).via = r.via
<1> DEFINE x == ToldOf(r, what)
<1>1. x \in [via : {r.via}, at : SubPlaces, token : Int, by : Int, told : {what}, refs : {{}}]
  BY RestShape DEF ToldOf, SubPlaces
<1>2. x.at = "told" BY RestShape DEF ToldOf
<1> HIDE DEF x
<1> QED BY <1>1, <1>2 DEF SubShape, x
LEMMA AckedFields ==
  ASSUME NEW r, NEW refs
  PROVE  /\ SubShape(AckedOf(r, refs)) /\ AckedOf(r, refs).at = "told" /\ AckedOf(r, refs).told = "ack"
         /\ AckedOf(r, refs).refs = refs /\ AckedOf(r, refs).via = r.via
<1> DEFINE x == AckedOf(r, refs)
<1>1. x \in [via : {r.via}, at : SubPlaces, token : Int, by : Int, told : {"ack"}, refs : {refs}]
  BY RestShape DEF AckedOf, SubPlaces
<1>2. x.at = "told" BY RestShape DEF AckedOf
<1> HIDE DEF x
<1> QED BY <1>1, <1>2 DEF SubShape, x

LEMMA TellKeeps ==
  ASSUME AdapterInv, NEW s \in Submissions, NEW what, Tell(s, what), UNCHANGED <<bearer, taken, misread, stale, now>>,
         s \in taken => what = "indeterminate"
  PROVE  AdapterInv'
<1>1. sub' = [sub EXCEPT ![s] = ToldOf(sub[s], what)] BY DEF Tell, ToldOf
<1> DEFINE r == ToldOf(sub[s], what)
<1>2. SubShape(r) /\ r.at = "told" /\ r.told = what /\ r.refs = {} BY ToldFields
<1> HIDE DEF r
<1>3. SoundSub(s, r, now, s \in taken', s \in misread') BY <1>2 DEF SoundSub, Waiting
<1>4. BearersGood' BY BearersStill
<1> QED BY <1>1, <1>3, <1>4, SubMoves DEF r

\* Another 2xx than the API's own is told as rejected.
LEMMA MisreadKeeps == ASSUME AdapterInv, NEW s \in Submissions, UnexpectedSuccess(s) PROVE AdapterInv'
<1> DEFINE r == ToldOf(sub[s], "rejected")
<1>1. /\ sub[s].via \in Tokened /\ misread' = misread \cup {s} /\ UNCHANGED <<bearer, taken, stale, now>>
      /\ Tell(s, SubmitError(sub[s].via, "2xx"))
  BY DEF UnexpectedSuccess
<1>2. SubmitError(sub[s].via, "2xx") = "rejected"
  BY <1>1 DEF SubmitError, Tokened, MtnSubmitError, CommonSubmitStatus
<1>3. sub' = [sub EXCEPT ![s] = r] BY <1>1, <1>2 DEF Tell, ToldOf
<1>4. SubShape(r) /\ r.at = "told" /\ r.told = "rejected" /\ r.refs = {} BY ToldFields
<1> HIDE DEF r
<1>5. SoundSub(s, r, now, s \in taken', s \in misread') BY <1>1, <1>4 DEF SoundSub, Waiting
<1>6. BearersGood' BY <1>1, BearersStill
<1> QED BY <1>1, <1>3, <1>5, <1>6, SubMoves

\* Nothing that is not yet on the wire was taken.
LEMMA NotTaken ==
  ASSUME AdapterInv, NEW s \in Submissions, sub[s].at \notin {"taken", "told"}
  PROVE  s \notin taken
BY DEF AdapterInv, SubsSound, SoundSub

Moved(r, at, token, by) == [r EXCEPT !.at = at, !.token = token, !.by = by]
LEMMA MovedFields ==
  ASSUME NEW r, SubShape(r), NEW at \in SubPlaces, NEW token \in Int, NEW by \in Int
  PROVE  /\ SubShape(Moved(r, at, token, by)) /\ Moved(r, at, token, by).at = at
         /\ Moved(r, at, token, by).token = token /\ Moved(r, at, token, by).by = by
         /\ Moved(r, at, token, by).via = r.via /\ Moved(r, at, token, by).refs = r.refs
         /\ Moved(r, at, token, by).told = r.told
BY DEF Moved, SubShape

LEMMA SubmitKeeps ==
  ASSUME AdapterInv, NEW s \in Submissions, NEW a \in AdapterKeys, Submit(s, a)
  PROVE AdapterInv'
<1>0. now \in Nat /\ Latency \in Nat BY AdapterAssumption DEF AdapterInv
<1>1. PICK n \in Nat : n = now + Latency /\ now <= n BY <1>0
<1> DEFINE at == IF a \in Tokened THEN "token" ELSE "send"
           r == [AtRest EXCEPT !.via = a, !.by = n, !.at = at]
<1>2. sub[s].at = "rest" /\ sub' = [sub EXCEPT ![s] = r] /\ UNCHANGED <<bearer, taken, misread, stale, now>>
  BY <1>1 DEF Submit
<1>3. r \in [via : {a}, at : SubPlaces, token : Int, by : Int, told : {"nothing"}, refs : {{}}]
  <2>1. at \in SubPlaces /\ n \in Int BY DEF SubPlaces, Waiting
  <2> HIDE DEF at
  <2> QED BY <2>1, RestShape
<1>4. r.at = at /\ r.by = n
  <2> HIDE DEF at
  <2> QED BY RestShape
<1>5. SubShape(r) /\ r.at = at /\ r.via = a /\ r.by = n /\ r.refs = {}
  <2> HIDE DEF r
  <2> QED BY <1>3, <1>4 DEF SubShape
<1> HIDE DEF r
<1>6. s \notin taken BY <1>2, NotTaken
<1>7. SoundSub(s, r, now, s \in taken', s \in misread') BY <1>1, <1>2, <1>5, <1>6 DEF SoundSub, Waiting
<1>8. BearersGood' BY <1>2, BearersStill
<1> QED BY <1>2, <1>7, <1>8, SubMoves

LEMMA AccessKeeps == ASSUME AdapterInv, NEW s \in Submissions, AccessToken(s) PROVE AdapterInv'
<1>0. /\ now \in Nat /\ Latency \in Nat /\ Lifetime \in Nat BY AdapterAssumption DEF AdapterInv
<1>1. sub[s].at = "token" /\ UNCHANGED <<bearer, taken, misread, stale, now>> BY DEF AccessToken
<1>2. s \notin taken BY <1>1, NotTaken
<1>3. /\ SubShape(sub[s]) /\ sub[s].via \in Tokened /\ (sub[s].refs = {} \/ sub[s].refs = AckRefs(sub[s].via, s))
  BY <1>1 DEF AdapterInv, SubsSound, SoundSub
<1>4. PICK n \in Nat : n = now + Latency /\ now <= n BY <1>0
<1>5. PICK b : b = bearer[sub[s].via] /\ GoodToken(b) BY <1>3 DEF AdapterInv, BearersGood
<1>6. BearersGood' BY <1>1, BearersStill
<1>7. CASE now < b.until
  <2> DEFINE r == Moved(sub[s], "send", b.issued, n)
  <2>1. sub' = [sub EXCEPT ![s] = r] BY <1>4, <1>5, <1>7 DEF AccessToken, Moved
  <2>2. /\ SubShape(r) /\ r.at = "send" /\ r.token = b.issued /\ r.by = n /\ r.via = sub[s].via
        /\ r.refs = sub[s].refs
    <3>1. b.issued \in Int /\ "send" \in SubPlaces BY <1>5 DEF GoodToken, SubPlaces, Waiting
    <3> QED BY <1>3, <3>1, MovedFields
  <2> HIDE DEF r
  <2>3. n < b.issued + Lifetime
    <3>1. PICK k \in Nat \ {0} : Lifetime = 5 * k /\ (Lifetime * 4) \div 5 = 4 * k /\ 2 * Latency <= k
      BY Fifths
    <3>2. b.issued \in Int /\ b.until \in Int /\ b.until <= b.issued + Latency + 4 * k
      BY <1>0, <1>5, <1>7, <3>1 DEF GoodToken
    <3> QED BY <1>0, <1>4, <1>7, <3>1, <3>2
  <2>4. SoundSub(s, r, now, s \in taken', s \in misread') BY <1>1, <1>2, <1>3, <1>4, <2>2, <2>3 DEF SoundSub, Waiting
  <2> QED BY <1>1, <1>6, <2>1, <2>4, SubMoves
<1>8. CASE ~ (now < b.until)
  <2> DEFINE r == Moved(sub[s], "fetch", -1, n)
  <2>1. sub' = [sub EXCEPT ![s] = r] BY <1>4, <1>5, <1>8 DEF AccessToken, Moved
  <2>2. SubShape(r) /\ r.at = "fetch" /\ r.by = n /\ r.via = sub[s].via /\ r.refs = sub[s].refs
    BY <1>3, MovedFields DEF SubPlaces, Waiting
  <2> HIDE DEF r
  <2>3. SoundSub(s, r, now, s \in taken', s \in misread') BY <1>1, <1>2, <1>3, <1>4, <2>2 DEF SoundSub, Waiting
  <2> QED BY <1>1, <1>6, <2>1, <2>3, SubMoves
<1> QED BY <1>7, <1>8

LEMMA IssuedKeeps == ASSUME AdapterInv, NEW s \in Submissions, TokenIssued(s) PROVE AdapterInv'
<1>0. now \in Nat /\ Latency \in Nat BY AdapterAssumption DEF AdapterInv
<1>1. sub[s].at = "fetch" /\ UNCHANGED <<bearer, taken, misread, stale, now>> BY DEF TokenIssued
<1>2. s \notin taken BY <1>1, NotTaken
<1>3. /\ SubShape(sub[s]) /\ sub[s].via \in Tokened /\ (sub[s].refs = {} \/ sub[s].refs = AckRefs(sub[s].via, s))
  BY <1>1 DEF AdapterInv, SubsSound, SoundSub
<1>4. PICK n \in Nat : n = now + Latency /\ now <= n /\ n <= now + Latency BY <1>0
<1> DEFINE r == Moved(sub[s], "fetched", now, n)
<1>5. sub' = [sub EXCEPT ![s] = r] BY <1>4 DEF TokenIssued, Moved
<1>6. SubShape(r) /\ r.at = "fetched" /\ r.token = now /\ r.by = n /\ r.via = sub[s].via /\ r.refs = sub[s].refs
  BY <1>0, <1>3, MovedFields DEF SubPlaces, Waiting
<1> HIDE DEF r
<1>7. SoundSub(s, r, now, s \in taken', s \in misread') BY <1>1, <1>2, <1>3, <1>4, <1>6 DEF SoundSub, Waiting
<1>8. BearersGood' BY <1>1, BearersStill
<1> QED BY <1>1, <1>5, <1>7, <1>8, SubMoves

LEMMA StoreKeeps == ASSUME AdapterInv, NEW s \in Submissions, StoreToken(s) PROVE AdapterInv'
<1>0. /\ now \in Nat /\ Latency \in Nat /\ Lifetime \in Nat BY AdapterAssumption DEF AdapterInv
<1>1. sub[s].at = "fetched" /\ UNCHANGED <<taken, misread, stale, now>> BY DEF StoreToken
<1>2. s \notin taken BY <1>1, NotTaken
<1>3. /\ SubShape(sub[s]) /\ sub[s].via \in Tokened /\ (sub[s].refs = {} \/ sub[s].refs = AckRefs(sub[s].via, s))
      /\ now <= sub[s].by /\ sub[s].by <= sub[s].token + Latency /\ sub[s].token \in Int /\ sub[s].by \in Int
  BY <1>1 DEF AdapterInv, SubsSound, SoundSub, SubShape, Waiting
<1>4. PICK n \in Nat : n = now + Latency /\ now <= n BY <1>0
<1>5. PICK k \in Nat \ {0} : Lifetime = 5 * k /\ (Lifetime * 4) \div 5 = 4 * k /\ 2 * Latency <= k BY Fifths
<1>6. PICK u \in Int : u = now + (Lifetime * 4) \div 5 /\ u <= sub[s].token + Latency + (Lifetime * 4) \div 5
  <2>1. (Lifetime * 4) \div 5 \in Int BY <1>5
  <2>2. now <= sub[s].token + Latency BY <1>0, <1>3
  <2> QED BY <1>0, <1>3, <2>1, <2>2
<1> DEFINE b == [issued |-> sub[s].token, until |-> u]
           r == Moved(sub[s], "send", sub[s].token, n)
<1>7. bearer' = [bearer EXCEPT ![sub[s].via] = b] BY <1>6 DEF StoreToken
<1>8. sub' = [sub EXCEPT ![s] = r]
  <2>1. sub' = [sub EXCEPT ![s] = [sub[s] EXCEPT !.at = "send", !.by = n]] BY <1>4 DEF StoreToken
  <2>2. [sub[s] EXCEPT !.at = "send", !.by = n] = r BY <1>3 DEF SubShape, Moved
  <2> QED BY <2>1, <2>2
<1>9. GoodToken(b) BY <1>3, <1>6 DEF GoodToken
<1> HIDE DEF b
<1>10. BearersGood'
  <2>1. /\ bearer' = [a \in Tokened |-> bearer'[a]] /\ bearer'[sub[s].via] = b
        /\ \A a \in Tokened : a # sub[s].via => bearer'[a] = bearer[a]
    BY <1>3, <1>7 DEF AdapterInv, BearersGood
  <2> QED BY <1>9, <2>1 DEF AdapterInv, BearersGood, GoodToken
<1>11. SubShape(r) /\ r.at = "send" /\ r.token = sub[s].token /\ r.by = n /\ r.via = sub[s].via /\ r.refs = sub[s].refs
  <2>1. "send" \in SubPlaces /\ n \in Int BY <1>4 DEF SubPlaces, Waiting
  <2>2. PICK x : x = sub[s] OBVIOUS
  <2>3. SubShape(x) /\ x.token \in Int BY <1>3, <2>2
  <2>4. /\ SubShape(Moved(x, "send", x.token, n)) /\ Moved(x, "send", x.token, n).at = "send"
        /\ Moved(x, "send", x.token, n).token = x.token /\ Moved(x, "send", x.token, n).by = n
        /\ Moved(x, "send", x.token, n).via = x.via /\ Moved(x, "send", x.token, n).refs = x.refs
    BY <2>1, <2>3, MovedFields
  <2> QED BY <2>2, <2>4, Zenon
<1> HIDE DEF r
<1>12. n < sub[s].token + Lifetime BY <1>0, <1>3, <1>4, <1>5
<1>13. SoundSub(s, r, now, s \in taken', s \in misread') BY <1>1, <1>2, <1>3, <1>4, <1>11, <1>12 DEF SoundSub, Waiting
<1> QED BY <1>1, <1>8, <1>10, <1>13, SubMoves

\* The request is written or taken: the place alone changes.
LEMMA PlacedKeeps ==
  ASSUME AdapterInv, NEW s \in Submissions, NEW at \in {"sent", "taken"}, sub[s].at \in SubPlaces \ {"told"},
         sub' = [sub EXCEPT ![s].at = at], UNCHANGED <<bearer, misread, stale, now>>,
         taken' = (IF at = "taken" THEN taken \cup {s} ELSE taken), at = "sent" => s \notin taken
  PROVE  AdapterInv'
<1>1. SubShape(sub[s]) /\ (sub[s].refs = {} \/ sub[s].refs = AckRefs(sub[s].via, s))
  BY DEF AdapterInv, SubsSound, SoundSub
<1>2. sub[s].token \in Int /\ sub[s].by \in Int BY <1>1 DEF SubShape
<1> DEFINE r == Moved(sub[s], at, sub[s].token, sub[s].by)
<1>3. sub' = [sub EXCEPT ![s] = r]
  <2>1. sub' = [sub EXCEPT ![s] = [sub[s] EXCEPT !.at = at]] OBVIOUS
  <2>2. [sub[s] EXCEPT !.at = at] = r BY <1>1 DEF SubShape, Moved
  <2> QED BY <2>1, <2>2
<1>4. SubShape(r) /\ r.at = at /\ r.via = sub[s].via /\ r.refs = sub[s].refs
  <2>1. at \in SubPlaces BY DEF SubPlaces
  <2> QED BY <1>1, <1>2, <2>1, MovedFields
<1> HIDE DEF r
<1>5. SoundSub(s, r, now, s \in taken', s \in misread') BY <1>1, <1>4 DEF SoundSub, Waiting
<1>6. BearersGood' BY BearersStill
<1> QED BY <1>3, <1>5, <1>6, SubMoves

LEMMA WriteSubKeeps == ASSUME AdapterInv, NEW s \in Submissions, Write(s) PROVE AdapterInv'
<1>1. sub[s].at = "send" /\ sub' = [sub EXCEPT ![s].at = "sent"] /\ UNCHANGED <<bearer, taken, misread, now>>
  BY DEF Write
<1>2. ~ Dead(s)
  <2>1. /\ now <= sub[s].by /\ sub[s].by \in Int /\ sub[s].token \in Int
        /\ sub[s].via \in Tokened => sub[s].by < sub[s].token + Lifetime
    BY <1>1 DEF AdapterInv, SubsSound, SoundSub, SubShape, Waiting
  <2>2. now \in Nat /\ Lifetime \in Nat BY AdapterAssumption DEF AdapterInv
  <2> QED BY <2>1, <2>2 DEF Dead
<1>3. stale' = stale BY <1>2 DEF Write
<1>4. s \notin taken BY <1>1, NotTaken
<1> QED BY <1>1, <1>3, <1>4, PlacedKeeps DEF SubPlaces, Waiting

LEMMA AckKeeps == ASSUME AdapterInv, NEW s \in Submissions, CarrierAcks(s) PROVE AdapterInv'
<1> DEFINE r == AckedOf(sub[s], AckRefs(sub[s].via, s))
<1>1. sub' = [sub EXCEPT ![s] = r] /\ UNCHANGED <<bearer, taken, misread, stale, now>> BY DEF CarrierAcks, AckedOf
<1>2. SubShape(r) /\ r.at = "told" /\ r.told = "ack" /\ r.refs = AckRefs(sub[s].via, s) /\ r.via = sub[s].via
  BY AckedFields
<1> HIDE DEF r
<1>3. SoundSub(s, r, now, s \in taken', s \in misread') BY <1>2 DEF SoundSub, Waiting
<1>4. BearersGood' BY <1>1, BearersStill
<1> QED BY <1>1, <1>3, <1>4, SubMoves

LEMMA AdapterTickKeeps == ASSUME AdapterInv, ATick PROVE AdapterInv'
<1>1. /\ now' = now + 1 /\ now \in Nat /\ UNCHANGED <<sub, taken, misread, stale>>
      /\ \A s \in Submissions : sub[s].at \in Waiting => now < sub[s].by
      /\ bearer' = [a \in Tokened |-> IF bearer[a].until > now' THEN bearer[a] ELSE NoToken]
  BY DEF ATick, AdapterInv, Waiting
<1>2. ASSUME NEW s \in Submissions PROVE SoundSub(s, sub[s], now', s \in taken, s \in misread)
  <2>1. SoundSub(s, sub[s], now, s \in taken, s \in misread) BY DEF AdapterInv, SubsSound
  <2>2. sub[s].by \in Int BY <2>1 DEF SoundSub, SubShape
  <2>3. sub[s].at \in Waiting => now' <= sub[s].by BY <1>1, <2>2
  <2> QED BY <2>1, <2>3 DEF SoundSub
<1>3. SubsSound' BY <1>1, <1>2 DEF AdapterInv, SubsSound
<1>4. GoodToken(NoToken) BY DEF GoodToken, NoToken
<1>5. \A a \in Tokened : GoodToken(bearer'[a]) BY <1>1, <1>4 DEF AdapterInv, BearersGood
<1>6. bearer' = [a \in Tokened |-> bearer'[a]] BY <1>1
<1>7. BearersGood' BY <1>5, <1>6 DEF BearersGood, GoodToken
<1> QED BY <1>1, <1>3, <1>7 DEF AdapterInv

LEMMA AdapterStep == ASSUME ~ Resets, AdapterInv, ANext PROVE AdapterInv'
<1>1. ASSUME NEW s \in Submissions, TooLong(s) PROVE AdapterInv'
  <2>1. sub[s].at \in {"token", "send"} BY <1>1 DEF TooLong
  <2>2. s \notin taken BY <2>1, NotTaken
  <2> QED BY <1>1, <2>2, TellKeeps DEF TooLong
<1>2. ASSUME NEW s \in Submissions, FetchFails(s) PROVE AdapterInv'
  <2>1. sub[s].at \in {"fetch", "fetched"} BY <1>2 DEF FetchFails
  <2>2. s \notin taken BY <2>1, NotTaken
  <2> QED BY <1>2, <2>2, TellKeeps DEF FetchFails
<1>3. ASSUME NEW s \in Submissions, ConnectFails(s) PROVE AdapterInv'
  <2>1. s \notin taken BY <1>3, NotTaken DEF ConnectFails
  <2> QED BY <1>3, <2>1, TellKeeps DEF ConnectFails
<1>4. ASSUME NEW s \in Submissions, UnreadableAck(s) PROVE AdapterInv' BY <1>4, TellKeeps DEF UnreadableAck
<1>8. ASSUME NEW s \in Submissions, UnexpectedSuccess(s) PROVE AdapterInv'
  BY <1>8, MisreadKeeps
<1>5. ASSUME NEW s \in Submissions, NEW status, CarrierRefuses(s, status) PROVE AdapterInv'
  <2>1. s \notin taken BY <1>5, NotTaken DEF CarrierRefuses
  <2> QED BY <1>5, <2>1, TellKeeps DEF CarrierRefuses
<1>6. ASSUME NEW s \in Submissions, NEW kind \in {"timeout", "body", "request"}, NoAnswer(s, kind)
      PROVE AdapterInv'
  <2>1. kind \in {"timeout", "body"} /\ kind # "connect" BY <1>6 DEF NoAnswer
  <2>2. ClassifyTransport(kind) = "indeterminate" BY <2>1 DEF ClassifyTransport
  <2> QED BY <1>6, <2>2, TellKeeps DEF NoAnswer
<1>7. ASSUME NEW s \in Submissions, CarrierTakes(s) PROVE AdapterInv'
  <2>1. /\ sub[s].at = "sent" /\ sub' = [sub EXCEPT ![s].at = "taken"] /\ taken' = taken \cup {s}
        /\ UNCHANGED <<bearer, misread, stale, now>>
    BY <1>7 DEF CarrierTakes
  <2> QED BY <2>1, PlacedKeeps DEF SubPlaces
<1> QED BY <1>1, <1>2, <1>3, <1>4, <1>5, <1>6, <1>7, <1>8, SubmitKeeps, AccessKeeps, IssuedKeeps, StoreKeeps,
           WriteSubKeeps, AckKeeps, AdapterTickKeeps DEF ANext

\* A carrier that never closes a connection it has read a request from is sent
\* no message twice and asked with no dead token, and while it answers with the
\* 2xx of its API no receipt is lost, for any number of submissions and any life
\* of a token of which a request takes at most a tenth
\* (classify_transport_error, classify_common_submit_status, SubmitAck, TokenCache).
THEOREM AdaptersAreSafe == ASSUME ~ Resets PROVE ASpec => []SubmissionsAreSafe
<1>1. AInit => AdapterInv
  <2> SUFFICES ASSUME AInit PROVE AdapterInv OBVIOUS
  <2>1. \A s \in Submissions : sub[s] = AtRest BY DEF AInit
  <2>2. /\ SubShape(AtRest) /\ AtRest.at = "rest" /\ AtRest.refs = {}
    BY DEF SubShape, AtRest, SubPlaces, Waiting
  <2>3. \A s \in Submissions : SoundSub(s, AtRest, now, FALSE, FALSE) BY <2>2 DEF SoundSub, Waiting
  <2>4. taken = {} /\ misread = {} /\ stale = {} /\ now = 0 BY DEF AInit
  <2>5. \A s \in Submissions : SoundSub(s, sub[s], now, s \in taken, s \in misread)
    BY <2>1, <2>3, <2>4 DEF SoundSub
  <2>6. sub = [s \in Submissions |-> sub[s]] BY DEF AInit
  <2>7. GoodToken(NoToken) BY DEF GoodToken, NoToken
  <2>8. BearersGood BY <2>7 DEF AInit, BearersGood
  <2> QED BY <2>4, <2>5, <2>6, <2>8 DEF AdapterInv, SubsSound
<1>2. AdapterInv /\ [ANext]_avars => AdapterInv'
  <2> SUFFICES ASSUME AdapterInv, [ANext]_avars PROVE AdapterInv' OBVIOUS
  <2>1. CASE UNCHANGED avars
    BY <2>1 DEF avars, AdapterInv, SubsSound, BearersGood, GoodToken, SoundSub
  <2> QED BY <2>1, AdapterStep
<1>3. AdapterInv => SubmissionsAreSafe
  <2> SUFFICES ASSUME AdapterInv PROVE SubmissionsAreSafe OBVIOUS
  <2>1. ASSUME NEW s \in taken, sub[s].at = "told", sub[s].told = "ack"
        PROVE  {t \in Submissions : /\ sub[t].via = sub[s].via
                                    /\ ReceiptRef(sub[s].via, s) \in sub[t].refs} = {s}
    <3>1. s \in Submissions BY DEF AdapterInv
    <3>2. sub[s].refs = AckRefs(sub[s].via, s) BY <2>1, <3>1 DEF AdapterInv, SubsSound, SoundSub
    <3>3. ReceiptRef(sub[s].via, s) \in sub[s].refs
      BY <3>2 DEF ReceiptRef, AckRefs
    <3>4. \A t \in Submissions : sub[t].via = sub[s].via /\ ReceiptRef(sub[s].via, s) \in sub[t].refs => t = s
      <4> SUFFICES ASSUME NEW t \in Submissions, sub[t].via = sub[s].via,
                          ReceiptRef(sub[s].via, s) \in sub[t].refs
                   PROVE  t = s
        OBVIOUS
      <4>1. sub[t].refs = AckRefs(sub[s].via, t) BY DEF AdapterInv, SubsSound, SoundSub
      <4> QED BY <4>1 DEF ReceiptRef, AckRefs, CarrierId, OurReference
    <3> QED BY <3>1, <3>3, <3>4
  <2>2. PossiblySentIsHeld
    BY <2>1 DEF AdapterInv, SubsSound, SoundSub, PossiblySentIsHeld
  <2>3. TokensOutliveRequests BY DEF AdapterInv, TokensOutliveRequests
  <2> QED BY <2>2, <2>3 DEF SubmissionsAreSafe
<1> QED BY <1>1, <1>2, <1>3, PTL DEF ASpec

-----------------------------------------------------------------------------
(* The signed transport.  At any moment of a rotation the key that would be  *)
(* loaded is pinned by everybody, which is why a process may start whenever  *)
(* it likes; and an integrator drops the old pair only when both processes   *)
(* have left its current key.                                                *)

KeyPair == [current : Nat, next : Nat]
RotationInv ==
  /\ keyFiles \in KeyPair /\ pins \in [Integrators -> KeyPair]
  /\ signs \in [{"gateway", "worker"} -> Nat]
  /\ \A c \in Integrators : keyFiles.current \in Pinned(c)
  /\ RotationBreaksNobody

LEMMA RotationInit == SInit => RotationInv
BY DEF SInit, RotationInv, RotationBreaksNobody, KeyPair, Pinned, Absent

LEMMA RotationStep == RotationInv /\ [SNext]_svars => RotationInv'
<1> SUFFICES ASSUME RotationInv, [SNext]_svars PROVE RotationInv' OBVIOUS
<1> USE DEF KeyPair, Absent
<1>1. CASE UNCHANGED <<keyFiles, signs, pins>>
  BY <1>1 DEF RotationInv, RotationBreaksNobody, Pinned
<1>2. CASE Promote
  <2>1. keyFiles' \in KeyPair /\ keyFiles'.current = keyFiles.next /\ UNCHANGED <<signs, pins>>
    BY <1>2 DEF Promote, RotationInv
  <2> QED BY <1>2, <2>1 DEF Promote, RotationInv, RotationBreaksNobody, Pinned
<1>3. CASE Mint
  <2>1. keyFiles' \in KeyPair /\ keyFiles'.current = keyFiles.current /\ UNCHANGED <<signs, pins>>
    BY <1>3 DEF Mint, RotationInv
  <2> QED BY <2>1 DEF RotationInv, RotationBreaksNobody, Pinned
<1>4. ASSUME NEW p \in {"gateway", "worker"}, Start(p) PROVE RotationInv'
  <2>1. /\ signs' \in [{"gateway", "worker"} -> Nat] /\ signs'[p] \in {Absent, keyFiles.current}
        /\ \A q \in {"gateway", "worker"} : q # p => signs'[q] = signs[q]
        /\ UNCHANGED <<keyFiles, pins>>
    BY <1>4 DEF Start, RotationInv
  <2> QED BY <2>1 DEF RotationInv, RotationBreaksNobody, Pinned
<1>5. ASSUME NEW c \in Integrators, Repin(c) PROVE RotationInv'
  <2>1. /\ pins' = [pins EXCEPT ![c] = keyFiles] /\ UNCHANGED <<keyFiles, signs>>
        /\ \A p \in DOMAIN signs : signs[p] = keyFiles.current
    BY <1>5 DEF Repin, Report
  <2>2. \A d \in Integrators : pins'[d] \in KeyPair /\ keyFiles.current \in {pins'[d].current, pins'[d].next}
    BY <2>1 DEF RotationInv, Pinned
  <2> QED BY <2>1, <2>2 DEF RotationInv, RotationBreaksNobody, Pinned
<1> QED BY <1>1, <1>2, <1>3, <1>4, <1>5
     DEF SNext, svars, DropDelivery, HandOver, Seal, SealDelivery, Serve, ServeError, Handled, FromLayer,
         Replay, KeyReused, InFlight, AnswerExpires, EndsAs, NotRead, ReceiveUnsigned, Receive

(* The key that the gateway or the worker signs with is pinned by every     *)
(* integrator, through every rotation in the runbook's order, whenever      *)
(* either process is started (server_keys.rs, envelope.rs: "a rotation is   *)
(* three steps with no flag day").                                          *)
THEOREM RotationsBreakNobody == SSpec => []RotationBreaksNobody
<1>1. SSpec => []RotationInv BY RotationInit, RotationStep, PTL DEF SSpec
<1>2. RotationInv => RotationBreaksNobody BY DEF RotationInv
<1> QED BY <1>1, <1>2, PTL

-----------------------------------------------------------------------------
(* What a caller believes.  An answer is given once, under its key's message *)
(* when it made or found one, and what is taken for the answer to a call is   *)
(* the answer to that call.                                                  *)

AnswerRec == [status : Nat, message : Nat, key : Nat, life : Nat]
Believed == {"sent", "conflict", "key conflict", "error"}
Kinds == {"sent", "conflict", "key conflict", "error", "waiting", "unverified", "unsigned", "not read", "lost"}
OutcomeRec == [kind : Kinds, status : Nat, message : Nat]
Params == UNION {[ParamsOf(t) -> Values] : t \in Templates}
RouteRec == [template : Templates, params : Params]
CallRec ==
  [by : Integrators, route : RouteRec, key : SendKeys \cup {NoKey},
   via : {"sdk", "composer"}, target : {Resolved(ConcretePath(t, ps)) : t \in Templates, ps \in Params},
   answer : AnswerRec, outcome : OutcomeRec]
Scopes == Integrators \X SendKeys
KeptRec == [route : RouteRec \cup {NoRoute}, status : Nat, message : Nat]

CallsType ==
  /\ calls \in Seq(CallRec) /\ signs \in [{"gateway", "worker"} -> Nat]
  /\ stored \in [Scopes -> KeptRec] /\ lives \in [Scopes -> Nat]

\* What holds of one call's outcome.
OutcomeSound(x) ==
  /\ x.outcome.kind \in Believed =>
       x.answer # Unserved /\ x.answer.status = x.outcome.status /\ x.answer.message = x.outcome.message
  /\ x.outcome.kind = "sent" => x.outcome.status = 200

\* What holds of the answer to one call: its message was made for the same
\* request, and is the one kept if nothing has expired since.
MadeFor(n, w) == w \in DOMAIN calls /\ (w = n \/ (SameKey(n, w) /\ calls[w].route = calls[n].route))
AnswerSound(n) ==
  /\ calls[n].answer.status = 200 => MadeFor(n, calls[n].answer.message)
  /\ Keyed(n) => calls[n].answer.life <= lives[Scope(n)]
  /\ Keyed(n) /\ calls[n].answer.status = 200 /\ calls[n].answer.life = lives[Scope(n)] =>
       stored[Scope(n)].status = 200 /\ stored[Scope(n)].message = calls[n].answer.message
\* Of two answers, and of what is kept.
Agree(n, m) ==
  /\ calls[n].answer.status = 200 /\ calls[m].answer.status = 200 /\ SameKey(n, m)
  /\ calls[m].answer.life = calls[n].answer.life
  => calls[m].answer.message = calls[n].answer.message
KeptSound(s) ==
  stored[s].status = 200 =>
    LET w == stored[s].message
    IN  w \in DOMAIN calls /\ Keyed(w) /\ Scope(w) = s /\ calls[w].route = stored[s].route
AnswersInv ==
  /\ \A n \in DOMAIN calls : AnswerSound(n)
  /\ \A n, m \in DOMAIN calls : Agree(n, m)
  /\ \A s \in Scopes : KeptSound(s)
BeliefInv == CallsType /\ AnswersInv /\ \A n \in DOMAIN calls : OutcomeSound(calls[n])

LEMMA BeliefsHold == BeliefInv => BelievedIsAnswered
<1> SUFFICES ASSUME BeliefInv PROVE BelievedIsAnswered OBVIOUS
<1>1. \A n \in DOMAIN calls : OutcomeSound(calls[n]) /\ AnswerSound(n) BY DEF BeliefInv, AnswersInv
<1>2. ASSUME NEW n \in DOMAIN calls, calls[n].outcome.kind \in Believed
      PROVE  calls[n].answer.status = calls[n].outcome.status /\ calls[n].answer.message = calls[n].outcome.message
  BY <1>1, <1>2 DEF OutcomeSound
<1>3. ASSUME NEW n \in DOMAIN calls, calls[n].outcome.kind = "sent"
      PROVE  calls[n].answer.status = 200 /\ calls[n].answer.message = calls[n].outcome.message
  BY <1>1, <1>3, ZenonT(30) DEF OutcomeSound, Believed
<1>4. ASSUME NEW n \in DOMAIN calls, calls[n].outcome.kind = "sent"
      PROVE  MadeFor(n, calls[n].outcome.message)
  <2>1. AnswerSound(n) BY <1>1
  <2> QED BY <1>3, <1>4, <2>1 DEF AnswerSound
<1>5. ASSUME NEW n \in DOMAIN calls, NEW m \in DOMAIN calls, calls[n].outcome.kind = "sent",
             calls[m].outcome.kind = "sent", SameKey(n, m), calls[m].answer.life = calls[n].answer.life
      PROVE  calls[m].outcome.message = calls[n].outcome.message
  <2>1. Agree(n, m) BY DEF BeliefInv, AnswersInv
  <2>2. /\ calls[n].answer.status = 200 /\ calls[n].answer.message = calls[n].outcome.message
        /\ calls[m].answer.status = 200 /\ calls[m].answer.message = calls[m].outcome.message
    BY <1>3, <1>5
  <2> QED BY <1>5, <2>1, <2>2 DEF Agree
<1> QED BY <1>2, <1>4, <1>5 DEF BelievedIsAnswered, Believed, MadeFor

\* What names a request does not change.
SameRequest(x, y) == x.by = y.by /\ x.key = y.key /\ x.route = y.route
LEMMA NamesStay ==
  ASSUME NEW n, SameRequest(calls'[n], calls[n])
  PROVE  (Keyed(n)' <=> Keyed(n)) /\ Scope(n)' = Scope(n)
BY DEF SameRequest, Keyed, Scope

LEMMA ScopeOf ==
  ASSUME CallsType, NEW n \in DOMAIN calls, Keyed(n)
  PROVE  Scope(n) \in Scopes
<1>1. calls[n] \in CallRec BY DEF CallsType
<1> QED BY <1>1 DEF CallRec, Keyed, Scope, Scopes

\* No answer is given: calls are made and come to their end.
LEMMA AnswersStay ==
  ASSUME CallsType, CallsType', AnswersInv, UNCHANGED <<stored, lives>>, DOMAIN calls \subseteq DOMAIN calls',
         \A n \in DOMAIN calls : SameRequest(calls'[n], calls[n]) /\ calls'[n].answer = calls[n].answer,
         \A n \in DOMAIN calls' \ DOMAIN calls : calls'[n].answer = Unserved
  PROVE  AnswersInv'
<1>1. \A n \in DOMAIN calls : (Keyed(n)' <=> Keyed(n)) /\ Scope(n)' = Scope(n) BY NamesStay
<1>2. \A n, m \in DOMAIN calls : SameKey(n, m)' <=> SameKey(n, m) BY <1>1 DEF SameKey
<1>3. ASSUME NEW n \in DOMAIN calls PROVE AnswerSound(n)'
  <2>1. AnswerSound(n) BY DEF AnswersInv
  <2>2. \A w : MadeFor(n, w) => MadeFor(n, w)' BY <1>2 DEF MadeFor, SameRequest
  <2> QED BY <1>1, <2>1, <2>2 DEF AnswerSound
<1>4. ASSUME NEW n \in DOMAIN calls', n \notin DOMAIN calls PROVE AnswerSound(n)' /\ calls'[n].answer.status # 200
  <2>1. calls'[n].answer.status = 0 /\ calls'[n].answer.life = 0 BY <1>4 DEF Unserved
  <2>2. Keyed(n)' => lives'[Scope(n)'] \in Nat
    <3> SUFFICES ASSUME Keyed(n)' PROVE lives'[Scope(n)'] \in Nat OBVIOUS
    <3>1. calls'[n] \in CallRec BY DEF CallsType
    <3>2. <<calls'[n].by, calls'[n].key>> \in Scopes BY <3>1 DEF CallRec, Keyed, Scopes
    <3> QED BY <3>2 DEF CallsType, Scope
  <2> QED BY <2>1, <2>2 DEF AnswerSound
<1>5. ASSUME NEW n \in DOMAIN calls', NEW m \in DOMAIN calls' PROVE Agree(n, m)'
  <2>1. CASE n \in DOMAIN calls /\ m \in DOMAIN calls
    <3>1. Agree(n, m) BY <2>1 DEF AnswersInv
    <3> QED BY <1>2, <2>1, <3>1 DEF Agree
  <2> QED BY <1>4, <2>1 DEF Agree
<1>6. ASSUME NEW s \in Scopes PROVE KeptSound(s)'
  <2>1. KeptSound(s) BY DEF AnswersInv
  <2> QED BY <1>1, <2>1 DEF KeptSound, SameRequest
<1> QED BY <1>3, <1>4, <1>5, <1>6 DEF AnswersInv

WithAnswer(x, a) == [x EXCEPT !.answer = a]
WithOutcome(x, o) == [x EXCEPT !.outcome = o]
LEMMA CallEdits ==
  ASSUME NEW x \in CallRec, NEW a \in AnswerRec, NEW o \in OutcomeRec
  PROVE  /\ WithAnswer(x, a) \in CallRec /\ WithAnswer(x, a).answer = a
         /\ WithAnswer(x, a).outcome = x.outcome /\ SameRequest(WithAnswer(x, a), x)
         /\ WithOutcome(x, o) \in CallRec /\ WithOutcome(x, o).outcome = o
         /\ WithOutcome(x, o).answer = x.answer /\ SameRequest(WithOutcome(x, o), x)
BY DEF WithAnswer, WithOutcome, CallRec, SameRequest

\* One call changes, or none.
LEMMA OneCallChanges ==
  ASSUME CallsType, NEW n \in DOMAIN calls, NEW x \in CallRec, calls' = [calls EXCEPT ![n] = x]
  PROVE  /\ calls' \in Seq(CallRec) /\ DOMAIN calls' = DOMAIN calls /\ calls'[n] = x
         /\ \A m \in DOMAIN calls : m # n => calls'[m] = calls[m]
BY DEF CallsType

\* A call ends in some way that, if it is believed, is its answer's.
LEMMA CallEnds ==
  ASSUME BeliefInv, NEW n \in DOMAIN calls, NEW o \in OutcomeRec, EndsAs(n, o),
         o.kind \in Believed => /\ calls[n].answer # Unserved /\ calls[n].answer.status = o.status
                                /\ calls[n].answer.message = o.message,
         o.kind = "sent" => o.status = 200
  PROVE  BeliefInv'
<1>1. CallsType /\ calls[n] \in CallRec BY DEF BeliefInv, CallsType
<1>2. calls' = [calls EXCEPT ![n] = WithOutcome(calls[n], o)] /\ UNCHANGED <<stored, lives, signs>>
  BY DEF EndsAs, WithOutcome
<1>3. PICK a \in AnswerRec : a = calls[n].answer BY <1>1 DEF CallRec
<1>4. /\ WithOutcome(calls[n], o) \in CallRec /\ WithOutcome(calls[n], o).outcome = o
      /\ WithOutcome(calls[n], o).answer = calls[n].answer /\ SameRequest(WithOutcome(calls[n], o), calls[n])
  BY <1>1, <1>3, CallEdits
<1>5. /\ calls' \in Seq(CallRec) /\ DOMAIN calls' = DOMAIN calls /\ calls'[n] = WithOutcome(calls[n], o)
      /\ \A m \in DOMAIN calls : m # n => calls'[m] = calls[m]
  BY <1>1, <1>2, <1>4, OneCallChanges
<1>6. CallsType' BY <1>1, <1>2, <1>5 DEF CallsType
<1>7. \A m \in DOMAIN calls : SameRequest(calls'[m], calls[m]) /\ calls'[m].answer = calls[m].answer
  BY <1>4, <1>5 DEF SameRequest
<1>8. AnswersInv' BY <1>1, <1>2, <1>5, <1>6, <1>7, AnswersStay DEF BeliefInv
<1>9. \A m \in DOMAIN calls : OutcomeSound(calls'[m]) BY <1>4, <1>5 DEF OutcomeSound, BeliefInv
<1> QED BY <1>5, <1>6, <1>8, <1>9 DEF BeliefInv

LEMMA BeliefInit == SInit => BeliefInv
<1> SUFFICES ASSUME SInit PROVE BeliefInv OBVIOUS
<1>1. calls = <<>> /\ stored = [s \in Scopes |-> NotKept] /\ lives = [s \in Scopes |-> 0]
  BY DEF SInit, Scopes
<1>2. NotKept \in KeptRec /\ NotKept.status = 0 BY DEF NotKept, KeptRec, Absent
<1>3. CallsType BY <1>1, <1>2 DEF CallsType, SInit
<1>4. \A s \in Scopes : KeptSound(s) BY <1>1, <1>2 DEF KeptSound
<1>5. DOMAIN calls = {} BY <1>1
<1> QED BY <1>3, <1>4, <1>5 DEF BeliefInv, AnswersInv

LEMMA SealsKeepBeliefs ==
  ASSUME BeliefInv, NEW c \in Integrators, NEW t \in Templates, NEW k \in SendKeys \cup {NoKey},
         NEW via \in {"sdk", "composer"}, NEW params \in [ParamsOf(t) -> Values], Seal(c, t, params, k, via)
  PROVE  BeliefInv'
<1> DEFINE x == [by |-> c, route |-> [template |-> t, params |-> params], key |-> k, via |-> via,
                 target |-> Resolved(ConcretePath(t, params)), answer |-> Unserved, outcome |-> Unopened]
<1>1. params \in Params BY DEF Params
<1>2. x \in CallRec
  <2>1. Resolved(ConcretePath(t, params)) \in {Resolved(ConcretePath(u, ps)) : u \in Templates, ps \in Params}
    BY <1>1
  <2>2. Unserved \in AnswerRec /\ Unopened \in OutcomeRec
    BY DEF Unserved, Unopened, AnswerRec, OutcomeRec, Absent, Kinds
  <2> QED BY <1>1, <2>1, <2>2 DEF CallRec, RouteRec
<1>3. x.answer = Unserved /\ x.outcome.kind = "waiting" BY DEF Unopened
<1>5. calls' = Append(calls, x) /\ UNCHANGED <<stored, lives, signs>> BY DEF Seal
<1> HIDE DEF x
<1>4. OutcomeSound(x) BY <1>3 DEF OutcomeSound, Believed
<1>6. /\ calls' \in Seq(CallRec) /\ DOMAIN calls' = DOMAIN calls \cup {Len(calls) + 1}
      /\ calls'[Len(calls) + 1] = x /\ \A n \in DOMAIN calls : calls'[n] = calls[n]
  BY <1>2, <1>5 DEF BeliefInv, CallsType
<1>7. CallsType /\ CallsType' /\ AnswersInv BY <1>5, <1>6 DEF BeliefInv, CallsType
<1>8. AnswersInv' BY <1>3, <1>5, <1>6, <1>7, AnswersStay DEF SameRequest
<1> QED BY <1>4, <1>6, <1>7, <1>8 DEF BeliefInv

\* What an answer to call n must be, and what may be kept of it.
GoodAnswer(n, status, message) ==
  /\ status = 200 => MadeFor(n, message)
  /\ status = 200 /\ Keyed(n) => stored'[Scope(n)].status = 200 /\ stored'[Scope(n)].message = message
GoodKept ==
  /\ stored' \in [Scopes -> KeptRec]
  /\ \A s \in Scopes : stored'[s] = stored[s] \/ stored[s].status # 200
  /\ \A s \in Scopes : stored'[s].status = 200 =>
       LET w == stored'[s].message
       IN  w \in DOMAIN calls /\ Keyed(w) /\ Scope(w) = s /\ calls[w].route = stored'[s].route

LEMMA AnsweredKeeps ==
  ASSUME BeliefInv, NEW n \in DOMAIN calls, NEW status \in Nat, NEW message \in Nat, Unanswered(n),
         Answer(n, status, message), GoodAnswer(n, status, message), GoodKept, UNCHANGED <<signs, lives>>
  PROVE  BeliefInv'
<1> DEFINE life == IF Keyed(n) THEN lives[Scope(n)] ELSE 0
           a == [status |-> status, message |-> message, key |-> signs["gateway"], life |-> life]
<1>1. CallsType /\ AnswersInv /\ calls[n] \in CallRec /\ OutcomeSound(calls[n]) BY DEF BeliefInv, CallsType
<1>2. life \in Nat /\ (Keyed(n) => life = lives[Scope(n)]) BY <1>1, ScopeOf DEF CallsType
<1>3. /\ a \in AnswerRec /\ a.status = status /\ a.message = message /\ a.life = life
  BY <1>1, <1>2 DEF AnswerRec, CallsType
<1>4. calls' = [calls EXCEPT ![n] = WithAnswer(calls[n], a)] BY DEF Answer, WithAnswer
<1> HIDE DEF a, life
<1>5. PICK o \in OutcomeRec : o = calls[n].outcome BY <1>1 DEF CallRec
<1>6. /\ WithAnswer(calls[n], a) \in CallRec /\ WithAnswer(calls[n], a).answer = a
      /\ WithAnswer(calls[n], a).outcome = calls[n].outcome /\ SameRequest(WithAnswer(calls[n], a), calls[n])
  BY <1>1, <1>3, <1>5, CallEdits
<1>7. /\ calls' \in Seq(CallRec) /\ DOMAIN calls' = DOMAIN calls /\ calls'[n] = WithAnswer(calls[n], a)
      /\ \A m \in DOMAIN calls : m # n => calls'[m] = calls[m]
  BY <1>1, <1>4, <1>6, OneCallChanges
<1>8. CallsType' BY <1>1, <1>7 DEF CallsType, GoodKept
<1>9. calls[n].outcome.kind \notin Believed BY <1>1 DEF OutcomeSound, Unanswered
<1>10. \A m \in DOMAIN calls : OutcomeSound(calls'[m])
  <2>1. OutcomeSound(WithAnswer(calls[n], a)) BY <1>6, <1>9, ZenonT(30) DEF OutcomeSound, Believed
  <2> QED BY <1>7, <2>1 DEF BeliefInv
<1>11. \A m \in DOMAIN calls : SameRequest(calls'[m], calls[m]) BY <1>6, <1>7 DEF SameRequest
<1>12. \A m \in DOMAIN calls : (Keyed(m)' <=> Keyed(m)) /\ Scope(m)' = Scope(m) BY <1>11, NamesStay
<1>13. \A m, w \in DOMAIN calls : SameKey(m, w)' <=> SameKey(m, w) BY <1>12 DEF SameKey
<1>14. \A m \in DOMAIN calls : \A w : MadeFor(m, w) => MadeFor(m, w)'
  BY <1>7, <1>11, <1>13 DEF MadeFor, SameRequest
<1>15. calls'[n].answer.status = status /\ calls'[n].answer.message = message /\ calls'[n].answer.life = life
  BY <1>3, <1>6, <1>7
<1>16. AnswerSound(n)'
  <2>1. status = 200 => MadeFor(n, message)' BY <1>14 DEF GoodAnswer
  <2>2. Keyed(n) => Scope(n) \in Scopes /\ lives[Scope(n)] \in Nat BY <1>1, ScopeOf DEF CallsType
  <2> QED BY <1>2, <1>12, <1>15, <2>1, <2>2 DEF AnswerSound, GoodAnswer
<1>17. ASSUME NEW m \in DOMAIN calls, m # n PROVE AnswerSound(m)'
  <2>1. AnswerSound(m) /\ calls'[m] = calls[m] BY <1>1, <1>7, <1>17 DEF AnswersInv
  <2>2. Keyed(m) => Scope(m) \in Scopes BY <1>1, ScopeOf
  <2>3. Keyed(m) /\ stored[Scope(m)].status = 200 => stored'[Scope(m)] = stored[Scope(m)] BY <2>2 DEF GoodKept
  <2> QED BY <1>12, <1>14, <2>1, <2>3 DEF AnswerSound
<1>18. ASSUME NEW m \in DOMAIN calls, m # n PROVE Agree(n, m)' /\ Agree(m, n)'
  <2> SUFFICES ASSUME status = 200, calls[m].answer.status = 200, SameKey(n, m), calls[m].answer.life = life
               PROVE  calls[m].answer.message = message
    BY <1>7, <1>13, <1>15, <1>18 DEF Agree, SameKey
  <2>1. Keyed(n) /\ Keyed(m) /\ Scope(m) = Scope(n) /\ Scope(m) \in Scopes BY <1>1, ScopeOf DEF SameKey
  <2>2. stored[Scope(m)].status = 200 /\ stored[Scope(m)].message = calls[m].answer.message
    BY <1>1, <1>2, <2>1 DEF AnswersInv, AnswerSound
  <2>3. stored'[Scope(m)] = stored[Scope(m)] BY <2>1, <2>2 DEF GoodKept
  <2> QED BY <2>1, <2>2, <2>3 DEF GoodAnswer
<1>19. ASSUME NEW m \in DOMAIN calls, NEW w \in DOMAIN calls PROVE Agree(m, w)'
  <2>1. CASE m # n /\ w # n
    <3>1. Agree(m, w) /\ calls'[m] = calls[m] /\ calls'[w] = calls[w] BY <1>1, <1>7, <2>1 DEF AnswersInv
    <3> QED BY <1>13, <3>1 DEF Agree
  <2>2. CASE m = w BY <2>2 DEF Agree
  <2> QED BY <1>18, <2>1, <2>2
<1>20. ASSUME NEW s \in Scopes PROVE KeptSound(s)' BY <1>7, <1>11, <1>12 DEF KeptSound, GoodKept, SameRequest
<1>21. AnswersInv' BY <1>7, <1>16, <1>17, <1>19, <1>20 DEF AnswersInv
<1> QED BY <1>7, <1>8, <1>10, <1>21 DEF BeliefInv

\* The handler's answer, to a request of which nothing is kept.
LEMMA HandledKeeps ==
  ASSUME BeliefInv, NEW n \in DOMAIN calls, NEW status \in Nat, NEW message \in Nat, Handled(n, status, message),
         status = 200 => message = n
  PROVE  BeliefInv'
<1>1. /\ Unanswered(n) /\ ~Remembered(n) /\ Answer(n, status, message) /\ UNCHANGED <<signs, lives>>
      /\ stored' = IF Keyed(n) THEN [stored EXCEPT ![Scope(n)] =
                     [route |-> calls[n].route, status |-> status, message |-> message]] ELSE stored
  BY DEF Handled
<1>2. CallsType /\ AnswersInv /\ calls[n] \in CallRec BY DEF BeliefInv, CallsType
<1>3. calls[n].route \in RouteRec BY <1>2 DEF CallRec
<1>4. GoodAnswer(n, status, message) /\ GoodKept
  <2>1. CASE ~Keyed(n)
    <3>1. stored' = stored BY <1>1, <2>1
    <3>2. \A s \in Scopes : KeptSound(s) BY <1>2 DEF AnswersInv
    <3> QED BY <1>2, <2>1, <3>1, <3>2 DEF GoodAnswer, GoodKept, KeptSound, MadeFor, CallsType
  <2>2. CASE Keyed(n)
    <3> DEFINE r == [route |-> calls[n].route, status |-> status, message |-> message]
    <3>1. Scope(n) \in Scopes /\ stored[Scope(n)] = NotKept BY <1>1, <1>2, <2>2, ScopeOf DEF Remembered
    <3>2. stored[Scope(n)].status = 0 BY <3>1 DEF NotKept
    <3>3. r \in KeptRec /\ r.status = status /\ r.message = message /\ r.route = calls[n].route
      BY <1>3 DEF KeptRec
    <3> HIDE DEF r
    <3>4. stored' = [stored EXCEPT ![Scope(n)] = r] BY <1>1, <2>2 DEF r
    <3>5. /\ stored' \in [Scopes -> KeptRec] /\ stored'[Scope(n)] = r
          /\ \A s \in Scopes : s # Scope(n) => stored'[s] = stored[s]
      BY <1>2, <3>1, <3>3, <3>4 DEF CallsType
    <3>6. \A s \in Scopes : KeptSound(s) BY <1>2 DEF AnswersInv
    <3>7. \A s \in Scopes : stored'[s].status = 200 =>
            LET w == stored'[s].message
            IN  w \in DOMAIN calls /\ Keyed(w) /\ Scope(w) = s /\ calls[w].route = stored'[s].route
      BY <2>2, <3>3, <3>5, <3>6 DEF KeptSound
    <3>8. GoodKept BY <3>2, <3>5, <3>7 DEF GoodKept
    <3> QED BY <3>3, <3>5, <3>8 DEF GoodAnswer, MadeFor
  <2> QED BY <2>1, <2>2
<1> QED BY <1>1, <1>4, AnsweredKeeps

\* The layer's answer: what is kept, or no message at all.
LEMMA LayerKeeps ==
  ASSUME BeliefInv, NEW n \in DOMAIN calls, Replay(n) \/ KeyReused(n) \/ InFlight(n)
  PROVE  BeliefInv'
<1>1. CallsType /\ AnswersInv BY DEF BeliefInv
<1>2. ASSUME NEW status \in Nat, NEW message \in Nat, FromLayer(n, status, message),
             GoodAnswer(n, status, message)
      PROVE  BeliefInv'
  <2>1. Unanswered(n) /\ Answer(n, status, message) /\ UNCHANGED <<signs, stored, lives>> BY <1>2 DEF FromLayer
  <2>2. \A s \in Scopes : KeptSound(s) BY <1>1 DEF AnswersInv
  <2>3. GoodKept BY <1>1, <2>1, <2>2 DEF GoodKept, KeptSound, CallsType
  <2> QED BY <1>2, <2>1, <2>3, AnsweredKeeps
<1>3. CASE Replay(n)
  <2>1. /\ Keyed(n) /\ stored[Scope(n)].route = calls[n].route
        /\ FromLayer(n, stored[Scope(n)].status, stored[Scope(n)].message)
    BY <1>3 DEF Replay, Remembered
  <2>2. Scope(n) \in Scopes BY <1>1, <2>1, ScopeOf
  <2>3. PICK x \in KeptRec : x = stored[Scope(n)] BY <1>1, <2>2 DEF CallsType
  <2>4. stored[Scope(n)].status \in Nat /\ stored[Scope(n)].message \in Nat BY <2>3 DEF KeptRec
  <2>5. KeptSound(Scope(n)) /\ UNCHANGED stored BY <1>1, <2>1, <2>2 DEF AnswersInv, FromLayer
  <2>6. GoodAnswer(n, stored[Scope(n)].status, stored[Scope(n)].message)
    BY <2>1, <2>5 DEF GoodAnswer, KeptSound, MadeFor, SameKey
  <2> QED BY <1>2, <2>1, <2>4, <2>6
<1>4. CASE KeyReused(n)
  <2>1. FromLayer(n, 422, 0) BY <1>4 DEF KeyReused, Absent
  <2> QED BY <1>2, <2>1 DEF GoodAnswer
<1>5. CASE InFlight(n)
  <2>1. FromLayer(n, 409, 0) BY <1>5 DEF InFlight, Absent
  <2> QED BY <1>2, <2>1 DEF GoodAnswer
<1> QED BY <1>3, <1>4, <1>5

LEMMA AnswersKeepBeliefs ==
  ASSUME BeliefInv, NEW n \in DOMAIN calls
  PROVE  /\ Serve(n) => BeliefInv'
         /\ \A status \in ErrorStatuses : ServeError(n, status) => BeliefInv'
<1>1. n \in Nat BY DEF BeliefInv, CallsType
<1>2. Serve(n) => BeliefInv' BY <1>1, HandledKeeps DEF Serve
<1>3. ASSUME NEW status \in ErrorStatuses, ServeError(n, status) PROVE BeliefInv'
  <2>1. status \in Nat /\ status # 200 BY SealedAssumption
  <2>2. Handled(n, status, 0) BY <1>3 DEF ServeError, Absent
  <2> QED BY <2>1, <2>2, HandledKeeps
<1> QED BY <1>2, <1>3

\* What is kept expires: no answer given before is of the key's new life.
LEMMA ExpiryKeepsBeliefs ==
  ASSUME BeliefInv, NEW c \in Integrators, NEW k \in SendKeys, AnswerExpires(c, k)
  PROVE  BeliefInv'
<1> DEFINE t == <<c, k>>
<1>1. t \in Scopes BY DEF Scopes
<1>2. /\ stored' = [stored EXCEPT ![t] = NotKept] /\ lives' = [lives EXCEPT ![t] = @ + 1]
      /\ UNCHANGED <<calls, signs>>
  BY DEF AnswerExpires
<1> HIDE DEF t
<1>3. CallsType /\ AnswersInv BY DEF BeliefInv
<1>4. NotKept \in KeptRec /\ NotKept.status = 0 BY DEF NotKept, KeptRec, Absent
<1>5. /\ CallsType' /\ stored'[t] = NotKept /\ lives'[t] = lives[t] + 1 /\ lives[t] \in Nat
      /\ \A s \in Scopes : s # t => stored'[s] = stored[s] /\ lives'[s] = lives[s]
  BY <1>1, <1>2, <1>3, <1>4 DEF CallsType
<1>6. \A n : (Keyed(n)' <=> Keyed(n)) /\ Scope(n)' = Scope(n) BY <1>2 DEF Keyed, Scope
<1>7. \A n, m : (SameKey(n, m)' <=> SameKey(n, m)) /\ (MadeFor(n, m)' <=> MadeFor(n, m))
  BY <1>2, <1>6 DEF SameKey, MadeFor
<1>8. ASSUME NEW n \in DOMAIN calls PROVE AnswerSound(n)'
  <2>1. AnswerSound(n) /\ calls[n] \in CallRec BY <1>3 DEF AnswersInv, CallsType
  <2>2. calls[n].answer \in AnswerRec BY <2>1 DEF CallRec
  <2>3. calls[n].answer.life \in Nat BY <2>2 DEF AnswerRec
  <2>4. Keyed(n) => Scope(n) \in Scopes BY <1>3, ScopeOf
  <2>5. CASE Keyed(n) /\ Scope(n) = t
    <3>1. calls[n].answer.life <= lives[t] BY <2>1, <2>5 DEF AnswerSound
    <3>2. calls[n].answer.life <= lives'[t] /\ calls[n].answer.life # lives'[t] BY <1>5, <2>3, <3>1
    <3> QED BY <1>2, <1>6, <1>7, <2>1, <2>5, <3>2 DEF AnswerSound
  <2>6. CASE ~(Keyed(n) /\ Scope(n) = t) BY <1>2, <1>5, <1>6, <1>7, <2>1, <2>4, <2>6 DEF AnswerSound
  <2> QED BY <2>5, <2>6
<1>9. \A n, m \in DOMAIN calls : Agree(n, m)' BY <1>2, <1>3, <1>7 DEF AnswersInv, Agree
<1>10. ASSUME NEW s \in Scopes PROVE KeptSound(s)'
  <2>1. KeptSound(s) BY <1>3 DEF AnswersInv
  <2> QED BY <1>2, <1>4, <1>5, <1>6, <2>1 DEF KeptSound
<1>11. AnswersInv' BY <1>2, <1>8, <1>9, <1>10 DEF AnswersInv
<1> QED BY <1>2, <1>5, <1>11 DEF BeliefInv, OutcomeSound

LEMMA ReceiptsKeepBeliefs ==
  ASSUME BeliefInv, NEW n \in DOMAIN calls, NEW m \in DOMAIN calls, NEW status \in ReplyStatuses,
         Receive(n, m, status)
  PROVE  BeliefInv'
<1>a. calls[m] \in CallRec BY DEF BeliefInv, CallsType
<1>b. calls[m].answer \in AnswerRec BY <1>a DEF CallRec
<1>c. calls[m].answer.message \in Nat BY <1>b DEF AnswerRec
<1>0. /\ calls[m].answer.message \in Nat /\ calls[m].answer # Unserved /\ status \in Nat
  <2>1. status \in Nat BY SealedAssumption DEF ReplyStatuses
  <2>2. calls[m].answer # Unserved BY DEF Receive
  <2> QED BY <1>c, <2>1, <2>2
<1>1. CASE Opens(n, m, status)
  <2> DEFINE o == [kind |-> Classify(status), status |-> status, message |-> calls[m].answer.message]
  <2>1. EndsAs(n, o) BY <1>1 DEF Receive
  <2>2. m = n /\ calls[m].answer.status = status BY <1>1 DEF Opens, OpenAnswer, VerifiesFor
  <2>3. Classify(status) \in Kinds /\ (Classify(status) = "sent" => status = 200)
    BY <1>0 DEF Classify, Kinds
  <2>4. o \in OutcomeRec /\ o.kind = Classify(status) /\ o.status = status /\ o.message = calls[m].answer.message
    BY <1>0, <2>3 DEF OutcomeRec
  <2> HIDE DEF o
  <2> QED BY <1>0, <2>1, <2>2, <2>3, <2>4, CallEnds
<1>2. CASE ~Opens(n, m, status)
  <2> DEFINE o == [kind |-> "unverified", status |-> 0, message |-> Absent]
  <2>1. EndsAs(n, o) BY <1>2 DEF Receive
  <2>2. o \in OutcomeRec /\ o.kind = "unverified" BY DEF OutcomeRec, Absent, Kinds
  <2> HIDE DEF o
  <2> QED BY <2>1, <2>2, CallEnds DEF Believed
<1> QED BY <1>1, <1>2

LEMMA OtherEndsKeepBeliefs ==
  ASSUME BeliefInv, NEW n \in DOMAIN calls, NotRead(n) \/ ReceiveUnsigned(n, 401)
  PROVE  BeliefInv'
<1> DEFINE o == [kind |-> "not read", status |-> 0, message |-> Absent]
           u == [kind |-> "unsigned", status |-> 401, message |-> Absent]
<1>1. EndsAs(n, o) \/ EndsAs(n, u) BY DEF NotRead, ReceiveUnsigned
<1>2. o \in OutcomeRec /\ u \in OutcomeRec /\ o.kind = "not read" /\ u.kind = "unsigned"
  BY DEF OutcomeRec, Absent, Kinds
<1> HIDE DEF o, u
<1> QED BY <1>1, <1>2, CallEnds DEF Believed

LEMMA RepinsKeepBeliefs ==
  ASSUME BeliefInv, NEW c \in Integrators, Repin(c)
  PROVE  BeliefInv'
<1> DEFINE lost == [kind |-> "lost", status |-> 0, message |-> Absent]
<1>0. lost \in OutcomeRec /\ lost.kind = "lost" BY DEF OutcomeRec, Absent, Kinds
<1>1. ASSUME NEW n \in DOMAIN calls
      PROVE  /\ calls'[n] \in CallRec /\ OutcomeSound(calls'[n])
             /\ SameRequest(calls'[n], calls[n]) /\ calls'[n].answer = calls[n].answer
  <2>1. calls[n] \in CallRec /\ OutcomeSound(calls[n]) BY DEF BeliefInv, CallsType
  <2>2. calls[n].answer \in AnswerRec BY <2>1 DEF CallRec
  <2>3. CASE calls[n].by = c /\ calls[n].outcome = Unopened
    <3>1. calls'[n] = WithOutcome(calls[n], lost)
      BY <2>1, <2>3 DEF Repin, WithOutcome, CallRec, Unopened
    <3> HIDE DEF lost
    <3>2. /\ WithOutcome(calls[n], lost) \in CallRec /\ WithOutcome(calls[n], lost).outcome = lost
          /\ WithOutcome(calls[n], lost).answer = calls[n].answer
          /\ SameRequest(WithOutcome(calls[n], lost), calls[n])
      BY <1>0, <2>1, <2>2, CallEdits
    <3>3. WithOutcome(calls[n], lost).outcome.kind = "lost" BY <1>0, <3>2
    <3>4. OutcomeSound(WithOutcome(calls[n], lost)) BY <3>3, ZenonT(30) DEF OutcomeSound, Believed
    <3> QED BY <3>1, <3>2, <3>4
  <2>4. CASE ~(calls[n].by = c /\ calls[n].outcome = Unopened)
    <3>1. calls'[n] = calls[n] BY <2>4 DEF Repin
    <3> QED BY <2>1, <3>1 DEF SameRequest
  <2> QED BY <2>3, <2>4
<1>a. calls \in Seq(CallRec) BY DEF BeliefInv, CallsType
<1>b. Len(calls) \in Nat /\ DOMAIN calls = 1 .. Len(calls) BY <1>a
<1>4. DOMAIN calls' = DOMAIN calls /\ calls' = [n \in DOMAIN calls' |-> calls'[n]] BY DEF Repin
<1>2. calls' \in [1 .. Len(calls) -> CallRec] BY <1>1, <1>b, <1>4
<1>3. calls' \in Seq(CallRec) BY <1>2, <1>b, SeqDef
<1>5. CallsType /\ CallsType' /\ AnswersInv /\ UNCHANGED <<stored, lives>> BY <1>3 DEF BeliefInv, CallsType, Repin
<1>6. AnswersInv' BY <1>1, <1>4, <1>5, AnswersStay
<1> QED BY <1>1, <1>4, <1>5, <1>6 DEF BeliefInv

LEMMA BeliefStep == RotationInv /\ BeliefInv /\ [SNext]_svars => BeliefInv'
<1> SUFFICES ASSUME RotationInv, BeliefInv, [SNext]_svars PROVE BeliefInv' OBVIOUS
<1>1. ASSUME UNCHANGED <<calls, stored, lives>>, signs' \in [{"gateway", "worker"} -> Nat] PROVE BeliefInv'
  <2>1. CallsType /\ CallsType' /\ AnswersInv BY <1>1 DEF BeliefInv, CallsType
  <2>2. AnswersInv' BY <1>1, <2>1, AnswersStay DEF SameRequest
  <2> QED BY <1>1, <2>1, <2>2 DEF BeliefInv
<1>2. ASSUME NEW p \in {"gateway", "worker"}, Start(p), keyFiles.current \in Nat PROVE BeliefInv'
  <2>1. signs' \in [{"gateway", "worker"} -> Nat] BY <1>2 DEF Start, BeliefInv, CallsType, Absent
  <2> QED BY <1>1, <1>2, <2>1 DEF Start
<1>3. ASSUME \/ Promote \/ Mint \/ DropDelivery \/ UNCHANGED svars
             \/ \E c \in Integrators : HandOver(c)
             \/ \E e \in Integrators \cup Strays : SealDelivery(e)
      PROVE  BeliefInv'
  BY <1>1, <1>3 DEF Promote, Mint, DropDelivery, svars, HandOver, SealDelivery, BeliefInv, CallsType
<1>4. ASSUME NEW c \in Integrators,
             \/ Repin(c) \/ \E k \in SendKeys : AnswerExpires(c, k)
             \/ \E t \in Templates, k \in SendKeys \cup {NoKey}, via \in {"sdk", "composer"} :
                  \E params \in [ParamsOf(t) -> Values] : Seal(c, t, params, k, via)
      PROVE  BeliefInv'
  BY <1>4, SealsKeepBeliefs, RepinsKeepBeliefs, ExpiryKeepsBeliefs, Zenon
<1>5. ASSUME NEW n \in DOMAIN calls,
             \/ Serve(n) \/ Replay(n) \/ KeyReused(n) \/ InFlight(n) \/ NotRead(n) \/ ReceiveUnsigned(n, 401)
             \/ \E status \in ErrorStatuses : ServeError(n, status)
             \/ \E m \in DOMAIN calls, status \in ReplyStatuses : Receive(n, m, status)
      PROVE  BeliefInv'
  BY <1>5, AnswersKeepBeliefs, LayerKeeps, ReceiptsKeepBeliefs, OtherEndsKeepBeliefs, Zenon
<1>6. keyFiles.current \in Nat BY DEF RotationInv, KeyPair
<1> QED BY <1>2, <1>3, <1>4, <1>5, <1>6, Zenon DEF SNext

(* An answer that an SDK takes for its own is the one the gateway gave to   *)
(* that request, with that status; a message it is told of was made for     *)
(* that caller and that operation; and two of one caller's calls under one  *)
(* Idempotency-Key are told of the same one until what is kept of the first *)
(* expires (core.rs, client.rs, opener.rs; the idempotency layer's          *)
(* principal, key and request hash).                                        *)
THEOREM BeliefsAreAnswers == SSpec => []BelievedIsAnswered
<1>1. SSpec => [](RotationInv /\ BeliefInv)
  BY RotationInit, RotationStep, BeliefInit, BeliefStep, PTL DEF SSpec
<1> QED BY <1>1, BeliefsHold, PTL

-----------------------------------------------------------------------------
(* What a call reaches.  A path that could be made has no dot segment, so a  *)
(* URL parser leaves it as it is; the template it was made from fits it, and *)
(* any other that does has a parameter where that one has a word, so it is   *)
(* not the router's choice.                                                  *)

LEMMA ResolvedIsSame ==
  ASSUME NEW path, path \in Seq(Range(path)), \A i \in DOMAIN path : path[i] \notin {".", ".."}
  PROVE  Resolved(path) = path
<1> DEFINE S == Seq(Range(path))
           steps == [i \in DOMAIN path |-> [out \in S |-> ResolveDots(path[i], out)]]
           n == Len(path)
<1>1. n \in Nat /\ DOMAIN path = 1 .. n /\ <<>> \in S /\ \A i \in 1 .. n : path[i] \in Range(path)
  BY DEF Range
<1>2. Len(steps) = n
  <2>1. DOMAIN steps = 1 .. n BY <1>1
  <2> QED BY <1>1, <2>1
<1>3. \A i \in 1 .. n : /\ steps[i] = [out \in S |-> Append(out, path[i])]
                        /\ steps[i] \in [S -> S]
  <2> SUFFICES ASSUME NEW i \in 1 .. n
               PROVE  steps[i] = [out \in S |-> Append(out, path[i])] /\ steps[i] \in [S -> S]
    OBVIOUS
  <2>1. \A out \in S : ResolveDots(path[i], out) = Append(out, path[i]) BY <1>1 DEF ResolveDots
  <2>2. steps[i] = [out \in S |-> ResolveDots(path[i], out)] BY <1>1
  <2>3. steps[i] = [out \in S |-> Append(out, path[i])] BY <2>1, <2>2
  <2>4. \A out \in S : Append(out, path[i]) \in S BY <1>1, AppendProperties
  <2> QED BY <2>3, <2>4
<1>4. Resolved(path) = Run(steps, <<>>) BY DEF Resolved
<1>5. PICK st : st = steps OBVIOUS
<1>a. Len(st) = n /\ \A i \in 1 .. n : st[i] \in [S -> S] /\ st[i] = [out \in S |-> Append(out, path[i])]
  BY <1>2, <1>3, <1>5
<1> HIDE DEF steps, S, n
<1> DEFINE at == Course(st, <<>>)
<1>6. /\ at \in [0 .. n -> S] /\ at[0] = <<>> /\ \A i \in 1 .. n : at[i] = st[i][at[i - 1]]
      /\ Run(st, <<>>) = at[n]
  <2>1. n \in Nat /\ Len(st) = n /\ <<>> \in S BY <1>1, <1>a
  <2>2. \A i \in 1 .. n : st[i] \in [S -> S] BY <1>a
  <2>3. /\ at \in [0 .. n -> S] /\ at[0] = <<>> /\ \A i \in 1 .. n : at[i] = st[i][at[i - 1]]
    <3>1. Loops(at, st, <<>>, S, n) BY <2>1, <2>2, CourseOf, Zenon
    <3> QED BY <3>1 DEF Loops
  <2>4. Run(st, <<>>) = at[n] BY <2>1 DEF Run
  <2> QED BY <2>3, <2>4
<1> HIDE DEF at
<1> DEFINE T == {i \in 0 .. n : at[i] = SubSeq(path, 1, i)}
<1>7. 0 \in T
  <2>1. SubSeq(path, 1, 0) = <<>> BY SubSeqEmpty
  <2>2. at[0] = SubSeq(path, 1, 0) BY <1>6, <2>1
  <2>3. 0 \in 0 .. n BY <1>1
  <2> QED BY <2>2, <2>3
<1>8. ASSUME NEW i \in 1 .. n, i - 1 \in T PROVE i \in T
  <2>1. at[i - 1] = SubSeq(path, 1, i - 1) /\ at[i - 1] \in S BY <1>6, <1>8
  <2>2. at[i] = Append(at[i - 1], path[i]) /\ i \in 0 .. n
    <3>1. at[i] = st[i][at[i - 1]] BY <1>6, Zenon
    <3>2. st[i] = [out \in S |-> Append(out, path[i])] BY <1>a
    <3> QED BY <1>1, <2>1, <3>1, <3>2
  <2>3. Append(at[i - 1], path[i]) = at[i - 1] \o <<path[i]>>
    BY <1>1, <2>1, AppendIsConcat DEF S
  <2>4. SubSeq(path, 1, i) = SubSeq(path, 1, i - 1) \o <<path[i]>>
    <3>1. 1 \in 1 .. n /\ i \in 1 .. n BY <1>1
    <3> QED BY <1>1, <3>1, SubSeqRecursiveSecond DEF n
  <2> QED BY <2>1, <2>2, <2>3, <2>4
<1> HIDE DEF T
<1>9. n \in T
  <2>1. 0 .. n \subseteq T BY <1>1, <1>7, <1>8, AllAlong
  <2> QED BY <1>1, <2>1
<1>10. at[n] = path BY <1>1, <1>9, SubSeqFull DEF T, n
<1> QED BY <1>4, <1>5, <1>6, <1>10

\* A concrete path, as the template and the parameters have it.
LEMMA PathShape ==
  ASSUME NEW t \in Templates, NEW ps \in [ParamsOf(t) -> Values], ConcretePath(t, ps) # <<>>
  PROVE  /\ ConcretePath(t, ps) \in Seq(Range(ConcretePath(t, ps)))
         /\ Len(ConcretePath(t, ps)) = Len(t) /\ DOMAIN ConcretePath(t, ps) = DOMAIN t
         /\ \A i \in DOMAIN t :
              /\ ConcretePath(t, ps)[i] = IF IsParameter(t[i]) THEN Encode(ps[i]) ELSE t[i]
              /\ ConcretePath(t, ps)[i] \notin {".", ".."}
         /\ \A i \in ParamsOf(t) : ~Unusable(ps[i]) /\ Decode(Encode(ps[i])) = ps[i]
<1>1. t \in Seq(Words) /\ Words \cap {".", ".."} = {} BY TemplatesAssumption
<1>2. Len(t) \in Nat /\ DOMAIN t = 1 .. Len(t) /\ \A i \in DOMAIN t : t[i] \notin {".", ".."} BY <1>1
<1>3. \A i \in ParamsOf(t) : ~Unusable(ps[i]) /\ ps[i] \in Values BY DEF ConcretePath
<1> DEFINE p == [i \in DOMAIN t |-> IF IsParameter(t[i]) THEN Encode(ps[i]) ELSE t[i]]
<1>4. ConcretePath(t, ps) = p BY <1>3 DEF ConcretePath
<1>5. DOMAIN p = 1 .. Len(t) /\ p = [i \in 1 .. Len(t) |-> p[i]] BY <1>2
<1>6. \A i \in DOMAIN t : p[i] = IF IsParameter(t[i]) THEN Encode(ps[i]) ELSE t[i] OBVIOUS
<1> HIDE DEF p
<1>7. \A v \in Values : ~Unusable(v) => Encode(v) \notin {".", ".."} /\ Decode(Encode(v)) = v
  <2>1. "a%252Fb" \notin Values BY TemplatesAssumption
  <2> QED BY <2>1 DEF Unusable, Encode, Decode, EmptyText
<1>8. \A i \in DOMAIN t : p[i] \notin {".", ".."} BY <1>2, <1>3, <1>6, <1>7 DEF ParamsOf
<1>9. p \in Seq(Range(p)) /\ Len(p) = Len(t)
  <2>1. \A i \in 1 .. Len(t) : p[i] \in Range(p) BY <1>5 DEF Range
  <2>2. p \in [1 .. Len(t) -> Range(p)] BY <1>5, <2>1
  <2>3. p \in Seq(Range(p)) BY <1>2, <2>2, SeqDef
  <2> QED BY <1>2, <1>5, <2>3
<1> QED BY <1>2, <1>3, <1>4, <1>5, <1>6, <1>7, <1>8, <1>9

\* The template a path was made from is the one the router chooses for it.
LEMMA RoutedBack ==
  ASSUME NEW t \in Templates, NEW ps \in [ParamsOf(t) -> Values], ConcretePath(t, ps) # <<>>
  PROVE  RouteOf(ConcretePath(t, ps)) = [template |-> t, params |-> ps]
<1> PICK path : path = ConcretePath(t, ps) OBVIOUS
<1>1. /\ path \in Seq(Range(path)) /\ Len(path) = Len(t) /\ DOMAIN path = DOMAIN t
      /\ \A i \in DOMAIN t : path[i] = IF IsParameter(t[i]) THEN Encode(ps[i]) ELSE t[i]
      /\ \A i \in ParamsOf(t) : ~Unusable(ps[i]) /\ Decode(Encode(ps[i])) = ps[i]
  BY PathShape
<1>2. \A u \in Templates : Len(u) \in Nat /\ DOMAIN u = 1 .. Len(u) BY TemplatesAssumption
<1> DEFINE fits == {u \in Templates : FitsPath(u, path)}
<1>3. t \in fits
  <2>1. \A i \in DOMAIN t : IF IsParameter(t[i]) THEN ~Unusable(Decode(path[i])) ELSE t[i] = path[i]
    BY <1>1 DEF ParamsOf
  <2> QED BY <1>1, <2>1 DEF FitsPath
<1>4. ASSUME NEW u \in fits
      PROVE  /\ Len(u) = Len(t) /\ DOMAIN u = DOMAIN t
             /\ \A i \in DOMAIN t : IsParameter(t[i]) => IsParameter(u[i])
             /\ \A i \in DOMAIN t : ~IsParameter(u[i]) => u[i] = path[i]
  <2>1. /\ Len(u) = Len(t) /\ DOMAIN u = DOMAIN t /\ u \in Templates
        /\ \A i \in DOMAIN t : ~IsParameter(u[i]) => u[i] = path[i]
    BY <1>1, <1>2 DEF FitsPath
  <2>2. ~\E i \in DOMAIN t : ~IsParameter(t[i]) /\ ~IsParameter(u[i]) /\ t[i] # u[i] BY <1>1, <2>1
  <2>3. \A i \in ParamsOf(t), v \in Values : IsParameter(u[i]) \/ u[i] # Encode(v)
    <3>1. \/ \E i \in DOMAIN t : ~IsParameter(t[i]) /\ ~IsParameter(u[i]) /\ t[i] # u[i]
          \/ \A i \in ParamsOf(t), v \in Values : IsParameter(u[i]) \/ u[i] # Encode(v)
      BY <2>1, TemplatesAssumption
    <3> QED BY <2>2, <3>1
  <2>4. ASSUME NEW i \in DOMAIN t, IsParameter(t[i]) PROVE IsParameter(u[i])
    <3>1. i \in ParamsOf(t) /\ ps[i] \in Values /\ path[i] = Encode(ps[i]) BY <1>1, <2>4 DEF ParamsOf
    <3> QED BY <2>1, <2>3, <3>1
  <2> QED BY <2>1, <2>4
<1>5. \A u \in fits : ~LiteralFirst(u, t) BY <1>4 DEF LiteralFirst
<1>6. ASSUME NEW u \in fits, u # t PROVE LiteralFirst(t, u)
  <2> DEFINE D == {i \in DOMAIN t : ~IsParameter(t[i]) /\ IsParameter(u[i])}
  <2>0. u \in Templates /\ t \in Seq(Words) /\ u \in Seq(Words) BY TemplatesAssumption
  <2>1. D # {}
    <3> SUFFICES ASSUME D = {} PROVE FALSE OBVIOUS
    <3>1. \A i \in DOMAIN t : t[i] = u[i]
      <4> SUFFICES ASSUME NEW i \in DOMAIN t PROVE t[i] = u[i] OBVIOUS
      <4>1. CASE IsParameter(t[i]) BY <1>4, <4>1 DEF IsParameter
      <4>2. CASE ~IsParameter(t[i])
        <5>1. ~IsParameter(u[i]) BY <4>2
        <5> QED BY <1>1, <1>4, <4>2, <5>1
      <4> QED BY <4>1, <4>2
    <3>2. t = u BY <1>2, <1>4, <2>0, <3>1, SeqEqual
    <3> QED BY <1>6, <3>2
  <2>2. D \subseteq Nat BY <1>2
  <2>3. PICK i \in D : \A j \in D : i <= j
    <3> HIDE DEF D
    <3> QED BY <2>1, <2>2, LeastOf
  <2>4. ASSUME NEW j \in 1 .. i - 1 PROVE IsParameter(t[j]) <=> IsParameter(u[j])
    <3>1. j \in DOMAIN t BY <1>2
    <3>2. j \notin D BY <1>2, <2>3
    <3> QED BY <1>4, <3>1, <3>2
  <2> QED BY <2>3, <2>4 DEF LiteralFirst
<1>7. PICK x : x = CHOOSE u \in fits : \A w \in fits : ~LiteralFirst(w, u) OBVIOUS
<1>8. x \in fits /\ \A w \in fits : ~LiteralFirst(w, x) BY <1>3, <1>5, <1>7
<1>9. x = t BY <1>3, <1>6, <1>8
<1>10. [i \in ParamsOf(t) |-> Decode(path[i])] = ps
  <2>1. \A i \in ParamsOf(t) : Decode(path[i]) = ps[i] BY <1>1 DEF ParamsOf
  <2> QED BY <2>1
<1>11. RouteOf(path) = [template |-> x, params |-> [i \in ParamsOf(x) |-> Decode(path[i])]]
  BY <1>3, <1>7 DEF RouteOf
<1> QED BY <1>9, <1>10, <1>11

Delivered == [endpoint : Integrators \cup Strays \cup {"none"}, key : Nat, openedBy : SUBSET Integrators]
ReachInv ==
  /\ \A n \in DOMAIN calls : RouteOf(calls[n].target) = calls[n].route
  /\ delivery \in Delivered /\ delivery.openedBy \subseteq {delivery.endpoint}

\* After a call is made, nothing changes where it goes.
LEMMA RoutesStay ==
  ASSUME BeliefInv, DOMAIN calls' = DOMAIN calls, delivery' = delivery, ReachInv,
         \A n \in DOMAIN calls : calls'[n].target = calls[n].target /\ calls'[n].route = calls[n].route
  PROVE  ReachInv'
<1>1. \A n \in DOMAIN calls' : RouteOf(calls'[n].target) = calls'[n].route BY DEF ReachInv
<1> QED BY <1>1 DEF ReachInv, RouteOf

LEMMA EditsKeepRoutes ==
  ASSUME NEW x \in CallRec, NEW a \in AnswerRec, NEW o \in OutcomeRec
  PROVE  /\ WithAnswer(x, a).target = x.target /\ WithAnswer(x, a).route = x.route
         /\ WithOutcome(x, o).target = x.target /\ WithOutcome(x, o).route = x.route
BY DEF WithAnswer, WithOutcome, CallRec

\* One call is answered or ends.
LEMMA EditedCalls ==
  ASSUME BeliefInv, ReachInv, NEW n \in DOMAIN calls, UNCHANGED delivery,
         \/ \E a \in AnswerRec : calls' = [calls EXCEPT ![n] = WithAnswer(calls[n], a)]
         \/ \E o \in OutcomeRec : calls' = [calls EXCEPT ![n] = WithOutcome(calls[n], o)]
  PROVE  ReachInv'
<1>1. calls[n] \in CallRec /\ calls \in Seq(CallRec) BY DEF BeliefInv, CallsType
<1>2. \A a \in AnswerRec : /\ WithAnswer(calls[n], a).target = calls[n].target
                           /\ WithAnswer(calls[n], a).route = calls[n].route
  <2>1. \E o : o \in OutcomeRec BY <1>1 DEF CallRec
  <2> QED BY <1>1, <2>1, EditsKeepRoutes
<1>3. \A o \in OutcomeRec : /\ WithOutcome(calls[n], o).target = calls[n].target
                            /\ WithOutcome(calls[n], o).route = calls[n].route
  <2>1. \E a : a \in AnswerRec BY <1>1 DEF CallRec
  <2> QED BY <1>1, <2>1, EditsKeepRoutes
<1>4. DOMAIN calls' = DOMAIN calls /\ \A m \in DOMAIN calls :
        calls'[m].target = calls[m].target /\ calls'[m].route = calls[m].route
  BY <1>1, <1>2, <1>3
<1> QED BY <1>4, RoutesStay

LEMMA ReachInit == SInit => ReachInv
BY DEF SInit, ReachInv, Delivered, NoDelivery, Absent

LEMMA SealsReach ==
  ASSUME BeliefInv, ReachInv, NEW c \in Integrators, NEW t \in Templates, NEW k \in SendKeys \cup {NoKey},
         NEW via \in {"sdk", "composer"}, NEW params \in [ParamsOf(t) -> Values], Seal(c, t, params, k, via)
  PROVE  ReachInv'
<1> DEFINE p == ConcretePath(t, params)
           x == [by |-> c, route |-> [template |-> t, params |-> params], key |-> k, via |-> via,
                 target |-> Resolved(p), answer |-> Unserved, outcome |-> Unopened]
<1>1. p # <<>> /\ calls' = Append(calls, x) /\ UNCHANGED delivery BY DEF Seal
<1>2. Resolved(p) = p BY <1>1, PathShape, ResolvedIsSame
<1>3. RouteOf(p) = [template |-> t, params |-> params] BY <1>1, RoutedBack
<1>4. x.target = p /\ x.route = [template |-> t, params |-> params] BY <1>2
<1> HIDE DEF x, p
<1>5. calls \in Seq(CallRec) BY DEF BeliefInv, CallsType
<1>6. /\ DOMAIN calls' = DOMAIN calls \cup {Len(calls) + 1}
      /\ calls'[Len(calls) + 1] = x /\ \A n \in DOMAIN calls : calls'[n] = calls[n]
  BY <1>1, <1>5
<1>7. \A n \in DOMAIN calls' : RouteOf(calls'[n].target) = calls'[n].route BY <1>3, <1>4, <1>6 DEF ReachInv
<1> QED BY <1>1, <1>7 DEF ReachInv, RouteOf

LEMMA DeliveriesStay ==
  ASSUME BeliefInv, RotationInv, ReachInv, UNCHANGED calls,
         \/ DropDelivery \/ \E c \in Integrators : HandOver(c)
         \/ \E e \in Integrators \cup Strays : SealDelivery(e)
  PROVE  ReachInv'
<1>1. ASSUME DropDelivery PROVE delivery' \in Delivered /\ delivery'.openedBy \subseteq {delivery'.endpoint}
  BY <1>1 DEF DropDelivery, NoDelivery, Delivered, Absent
<1>2. ASSUME NEW e \in Integrators \cup Strays, SealDelivery(e)
      PROVE  delivery' \in Delivered /\ delivery'.openedBy \subseteq {delivery'.endpoint}
  BY <1>2 DEF SealDelivery, Delivered, RotationInv
<1>3. ASSUME NEW c \in Integrators, HandOver(c)
      PROVE  delivery' \in Delivered /\ delivery'.openedBy \subseteq {delivery'.endpoint}
  <2>1. delivery' = [delivery EXCEPT !.openedBy = @ \cup {c}] /\ delivery.endpoint = c
    BY <1>3 DEF HandOver, WebhookOpens
  <2>2. delivery \in Delivered /\ delivery.openedBy \subseteq {delivery.endpoint} BY DEF ReachInv
  <2>3. delivery' \in Delivered /\ delivery'.endpoint = delivery.endpoint
        /\ delivery'.openedBy = delivery.openedBy \cup {c}
    BY <2>1, <2>2 DEF Delivered
  <2> QED BY <2>1, <2>2, <2>3
<1>4. \A n \in DOMAIN calls' : RouteOf(calls'[n].target) = calls'[n].route BY DEF ReachInv
<1> QED BY <1>1, <1>2, <1>3, <1>4 DEF ReachInv, RouteOf

LEMMA AnswersReach ==
  ASSUME BeliefInv, RotationInv, ReachInv, NEW n \in DOMAIN calls,
         \/ Serve(n) \/ Replay(n) \/ KeyReused(n) \/ InFlight(n) \/ NotRead(n) \/ ReceiveUnsigned(n, 401)
         \/ \E status \in ErrorStatuses : ServeError(n, status)
         \/ \E m \in DOMAIN calls, status \in ReplyStatuses : Receive(n, m, status)
  PROVE  ReachInv'
<1>0. /\ \A m \in DOMAIN calls : calls[m] \in CallRec /\ m \in Nat
      /\ CallsType /\ signs["gateway"] \in Nat
  BY DEF BeliefInv, CallsType
<1>1. \A m \in DOMAIN calls : calls[m].key \in SendKeys \cup {NoKey} /\ calls[m].answer \in AnswerRec
  BY <1>0 DEF CallRec
<1>2. ErrorStatuses \subseteq Nat /\ ReplyStatuses \subseteq Nat BY SealedAssumption DEF ReplyStatuses
<1>3. ASSUME NEW status \in Nat, NEW message \in Nat, Answer(n, status, message), UNCHANGED delivery PROVE ReachInv'
  <2> DEFINE life == IF Keyed(n) THEN lives[Scope(n)] ELSE 0
             a == [status |-> status, message |-> message, key |-> signs["gateway"], life |-> life]
  <2>0. life \in Nat BY <1>0, ScopeOf DEF CallsType
  <2>1. a \in AnswerRec BY <1>0, <2>0 DEF AnswerRec
  <2>2. calls' = [calls EXCEPT ![n] = WithAnswer(calls[n], a)] BY <1>3 DEF Answer, WithAnswer
  <2> HIDE DEF a
  <2> QED BY <1>3, <2>1, <2>2, EditedCalls
<1>4. ASSUME NEW o \in OutcomeRec, EndsAs(n, o) PROVE ReachInv'
  <2>1. calls' = [calls EXCEPT ![n] = WithOutcome(calls[n], o)] /\ UNCHANGED delivery
    BY <1>4 DEF EndsAs, WithOutcome
  <2> QED BY <2>1, EditedCalls
<1>5. CASE Serve(n) \/ \E status \in ErrorStatuses : ServeError(n, status)
  <2>1. \E status \in Nat, message \in Nat : Answer(n, status, message) /\ UNCHANGED delivery
    <3>1. CASE Serve(n)
      <4>1. Answer(n, 200, n) /\ UNCHANGED delivery BY <3>1 DEF Serve, Handled
      <4> QED BY <1>0, <4>1
    <3>2. ASSUME NEW status \in ErrorStatuses, ServeError(n, status)
          PROVE  Answer(n, status, 0) /\ UNCHANGED delivery /\ status \in Nat
      BY <1>2, <3>2 DEF ServeError, Handled, Absent
    <3> QED BY <1>5, <3>1, <3>2
  <2> QED BY <1>3, <2>1
<1>6. CASE Replay(n) \/ KeyReused(n) \/ InFlight(n)
  <2>1. ASSUME NEW status \in Nat, NEW message \in Nat, FromLayer(n, status, message) PROVE ReachInv'
    BY <1>3, <2>1 DEF FromLayer
  <2>2. CASE Replay(n)
    <3>1. Keyed(n) /\ FromLayer(n, stored[Scope(n)].status, stored[Scope(n)].message)
      BY <2>2 DEF Replay, Remembered
    <3>2. Scope(n) \in Scopes BY <1>0, <3>1, ScopeOf
    <3>3. PICK x \in KeptRec : x = stored[Scope(n)] BY <1>0, <3>2 DEF CallsType
    <3>4. stored[Scope(n)].status \in Nat /\ stored[Scope(n)].message \in Nat BY <3>3 DEF KeptRec
    <3> QED BY <2>1, <3>1, <3>4
  <2>3. CASE KeyReused(n)
    <3>1. FromLayer(n, 422, 0) BY <2>3 DEF KeyReused, Absent
    <3> QED BY <2>1, <3>1
  <2>4. CASE InFlight(n)
    <3>1. FromLayer(n, 409, 0) BY <2>4 DEF InFlight, Absent
    <3> QED BY <2>1, <3>1
  <2> QED BY <1>6, <2>2, <2>3, <2>4
<1>7. CASE NotRead(n) \/ ReceiveUnsigned(n, 401)
  <2> DEFINE o == [kind |-> "not read", status |-> 0, message |-> Absent]
             u == [kind |-> "unsigned", status |-> 401, message |-> Absent]
  <2>1. EndsAs(n, o) \/ EndsAs(n, u) BY <1>7 DEF NotRead, ReceiveUnsigned
  <2>2. o \in OutcomeRec /\ u \in OutcomeRec BY DEF OutcomeRec, Absent, Kinds
  <2> HIDE DEF o, u
  <2> QED BY <1>4, <2>1, <2>2
<1>8. ASSUME NEW m \in DOMAIN calls, NEW status \in ReplyStatuses, Receive(n, m, status) PROVE ReachInv'
  <2> DEFINE o == [kind |-> Classify(status), status |-> status, message |-> calls[m].answer.message]
             u == [kind |-> "unverified", status |-> 0, message |-> Absent]
  <2>1. EndsAs(n, o) \/ EndsAs(n, u) BY <1>8 DEF Receive
  <2>2. calls[m].answer.message \in Nat /\ status \in Nat /\ Classify(status) \in Kinds
    BY <1>1, <1>2 DEF AnswerRec, Classify, Kinds
  <2>3. o \in OutcomeRec BY <2>2 DEF OutcomeRec
  <2>4. u \in OutcomeRec BY DEF OutcomeRec, Absent, Kinds
  <2> HIDE DEF o, u
  <2> QED BY <1>4, <2>1, <2>3, <2>4
<1> QED BY <1>5, <1>6, <1>7, <1>8

LEMMA ReachStep == RotationInv /\ BeliefInv /\ ReachInv /\ [SNext]_svars => ReachInv'
<1> SUFFICES ASSUME RotationInv, BeliefInv, ReachInv, [SNext]_svars PROVE ReachInv' OBVIOUS
<1>1. CASE UNCHANGED <<calls, delivery>> BY <1>1, RoutesStay
<1>2. ASSUME \/ Promote \/ Mint \/ UNCHANGED svars \/ \E p \in {"gateway", "worker"} : Start(p)
             \/ \E c \in Integrators, k \in SendKeys : AnswerExpires(c, k)
      PROVE  ReachInv'
  BY <1>1, <1>2 DEF Promote, Mint, svars, Start, AnswerExpires
<1>3. ASSUME \/ DropDelivery \/ \E c \in Integrators : HandOver(c)
             \/ \E e \in Integrators \cup Strays : SealDelivery(e)
      PROVE  ReachInv'
  <2>1. UNCHANGED calls BY <1>3 DEF DropDelivery, HandOver, SealDelivery
  <2> QED BY <1>3, <2>1, DeliveriesStay
<1>4. ASSUME NEW c \in Integrators, Repin(c) PROVE ReachInv'
  <2>1. DOMAIN calls' = DOMAIN calls /\ UNCHANGED delivery BY <1>4 DEF Repin
  <2>2. ASSUME NEW n \in DOMAIN calls PROVE calls'[n].target = calls[n].target /\ calls'[n].route = calls[n].route
    <3>1. calls[n] \in CallRec BY DEF BeliefInv, CallsType
    <3>2. calls'[n] = calls[n] \/ calls'[n] = [calls[n] EXCEPT !.outcome.kind = "lost"] BY <1>4 DEF Repin
    <3> QED BY <3>1, <3>2 DEF CallRec
  <2> QED BY <2>1, <2>2, RoutesStay
<1>5. ASSUME NEW c \in Integrators, NEW t \in Templates, NEW k \in SendKeys \cup {NoKey},
             NEW via \in {"sdk", "composer"}, NEW params \in [ParamsOf(t) -> Values], Seal(c, t, params, k, via)
      PROVE  ReachInv'
  BY <1>5, SealsReach
<1>6. ASSUME NEW n \in DOMAIN calls,
             \/ Serve(n) \/ Replay(n) \/ KeyReused(n) \/ InFlight(n) \/ NotRead(n) \/ ReceiveUnsigned(n, 401)
             \/ \E status \in ErrorStatuses : ServeError(n, status)
             \/ \E m \in DOMAIN calls, status \in ReplyStatuses : Receive(n, m, status)
      PROVE  ReachInv'
  BY <1>6, AnswersReach
<1> QED BY <1>2, <1>3, <1>4, <1>5, <1>6, Zenon DEF SNext

(* A call that could be sealed leads on the gateway to the operation and the  *)
(* parameters it was sealed for, whatever a URL parser does on the way; a      *)
(* delivery is opened by the endpoint it was made for alone; and what an SDK   *)
(* takes for its answer is the answer, for any templates, values, keys and     *)
(* integrators that SealedAssumption and TemplatesAssumption admit             *)
(* (concrete_path against route_of, core.rs, opener.rs, webhook.rs).           *)
THEOREM SealedCallsHold == SSpec => []CallsReachAndAreAnswered
<1>1. SSpec => [](RotationInv /\ BeliefInv /\ ReachInv)
  BY RotationInit, RotationStep, BeliefInit, BeliefStep, ReachInit, ReachStep, PTL DEF SSpec
<1>2. RotationInv /\ BeliefInv /\ ReachInv => CallsReachAndAreAnswered
  BY BeliefsHold DEF CallsReachAndAreAnswered, SealedForWhatItReaches, OpenRequest, ReachInv
<1> QED BY <1>1, <1>2, PTL

-----------------------------------------------------------------------------
(* The audit chain.  A transaction is over before an anchor comes as far as   *)
(* its stamp, so the rows of an anchored period are what they will be; one    *)
(* auditor appends, so each period begins where the last one ended.           *)

\* One run at a time (the queue's OneAtATime), of transactions shorter than
\* ANCHOR_LAG; and no anchor is none.
AuditorAppends ==
  /\ \A r, s \in Auditors : r = s
  /\ Auditors \cap Viewers = {}
  /\ CommitTime < AnchorLag
  /\ NoAnchor \notin Int
  /\ \A start, end, fold, prev, hash :
       NoAnchor # [start |-> start, end |-> end, fold |-> fold, prev |-> prev, hash |-> hash]

Mutation == [state : {"none", "open", "committed", "aborted"}, stamp : Nat]
Verifying == [at : {"link", "content", "fold"}, latest : anchors \cup {NoAnchor}, now : Nat]
Writing == [at : {"write"}, latest : anchors \cup {NoAnchor}, now : Nat, fold : SUBSET (Mutations \X Nat)]

AuditType ==
  /\ mutation \in [Mutations -> Mutation] /\ auditClock \in Nat
  /\ auditor \in [Auditors \cup Viewers -> {Resting} \cup Verifying \cup Writing]

\* Nothing that is stamped by then is still open.
Past(moment) == moment \in Int /\ moment <= auditClock - AnchorLag

TransactionsEnd == \A m \in Mutations :
  mutation[m].state = "open" => mutation[m].stamp <= auditClock /\ auditClock <= mutation[m].stamp + CommitTime

AnchorSound(a) ==
  /\ a # NoAnchor /\ Past(a.end) /\ a.fold = RowsInPeriod(a.start, a.end)
  /\ a.hash = ChainHash(a.prev, a.start, a.end, a.fold)
  /\ IF a.start = NoAnchor
       THEN a.prev = Genesis /\ \A b \in anchors : b.end >= a.end
       ELSE /\ a.start \in Int /\ a.start < a.end
            /\ \A b \in anchors : b.end <= a.start \/ b.end >= a.end
            /\ \E b \in anchors : b.end = a.start /\ a.prev = b.hash
  /\ \A b \in anchors : b.end = a.end => b = a

\* Who is to append has read the last anchor, and nobody else appends.
AppenderSound(r) == auditor[r] # Resting =>
  /\ IF auditor[r].latest = NoAnchor THEN anchors = {} ELSE auditor[r].latest \in LatestAnchors
  /\ auditor[r].now <= auditClock
  /\ auditor[r].at = "write" =>
       /\ auditor[r].fold = RowsInPeriod(PeriodStart(r), PeriodEnd(r))
       /\ PeriodStart(r) # NoAnchor => PeriodStart(r) < PeriodEnd(r)

AllCovered == \A m \in Mutations :
  mutation[m].state = "committed" /\ (\E a \in anchors : mutation[m].stamp <= a.end) =>
    \E a \in anchors : <<m, mutation[m].stamp>> \in a.fold

AuditInv ==
  /\ AuditType /\ TransactionsEnd /\ AllCovered /\ alarms = {}
  /\ \A a \in anchors : AnchorSound(a)
  /\ \A r \in Auditors : AppenderSound(r)

LEMMA RowsAre ==
  ASSUME NEW start, NEW end
  PROVE  /\ \A m, s : <<m, s>> \in RowsInPeriod(start, end) <=>
              /\ m \in Mutations /\ s = mutation[m].stamp /\ mutation[m].state = "committed"
              /\ (start # NoAnchor => s > start) /\ s <= end
         /\ AuditType => RowsInPeriod(start, end) \subseteq Mutations \X Nat
BY DEF RowsInPeriod, AuditType, Mutation

LEMMA AuditorKinds ==
  /\ Resting.at = "rest"
  /\ \A x \in Verifying : x.at \in {"link", "content", "fold"} /\ x.latest \in anchors \cup {NoAnchor} /\ x.now \in Nat
  /\ \A x \in Writing : /\ x.at = "write" /\ x.latest \in anchors \cup {NoAnchor} /\ x.now \in Nat
                        /\ x.fold \subseteq Mutations \X Nat
BY DEF Resting, Verifying, Writing

LEMMA OneAnchorEach ==
  ASSUME AuditorAppends PROVE AuditInv => AnchoredOnce
<1> SUFFICES ASSUME AuditInv, NEW m \in Mutations, mutation[m].state = "committed",
                    \E a \in anchors : mutation[m].stamp <= a.end
             PROVE  Cardinality({a \in anchors : <<m, mutation[m].stamp>> \in a.fold}) = 1
  BY DEF AnchoredOnce, AuditInv
<1>1. PICK a \in anchors : <<m, mutation[m].stamp>> \in a.fold BY DEF AuditInv, AllCovered
<1>2. mutation[m].stamp \in Nat BY DEF AuditInv, AuditType, Mutation
<1>3. ASSUME NEW b \in anchors, <<m, mutation[m].stamp>> \in b.fold
      PROVE  /\ b.end \in Int /\ mutation[m].stamp <= b.end
             /\ (b.start # NoAnchor => b.start \in Int /\ b.start < mutation[m].stamp)
  BY <1>3, RowsAre DEF AuditInv, AnchorSound, Past
<1>4. ASSUME NEW b \in anchors, NEW c \in anchors, <<m, mutation[m].stamp>> \in b.fold,
             <<m, mutation[m].stamp>> \in c.fold
      PROVE  ~(b.end < c.end)
  <2>1. AnchorSound(c) BY DEF AuditInv
  <2>2. CASE c.start = NoAnchor BY <1>3, <1>4, <2>1, <2>2 DEF AnchorSound
  <2>3. CASE c.start # NoAnchor BY <1>2, <1>3, <1>4, <2>1, <2>3 DEF AnchorSound
  <2> QED BY <2>2, <2>3
<1>5. ASSUME NEW b \in anchors, <<m, mutation[m].stamp>> \in b.fold PROVE b = a
  <2>1. b.end = a.end BY <1>1, <1>3, <1>4, <1>5
  <2> QED BY <2>1 DEF AuditInv, AnchorSound
<1>6. {b \in anchors : <<m, mutation[m].stamp>> \in b.fold} = {a} BY <1>1, <1>5
<1> QED BY <1>6, FS_Singleton

LEMMA AuditInit == AuInit => AuditInv
<1> SUFFICES ASSUME AuInit PROVE AuditInv OBVIOUS
<1> QED BY DEF AuInit, AuditInv, AuditType, TransactionsEnd, AllCovered, Mutation, AppenderSound

\* What is past is over: a period that ended then has the rows it will have.
LEMMA PastIsSettled ==
  ASSUME AuditorAppends, AuditInv, NEW end, Past(end), NEW m \in Mutations, mutation[m].state = "open"
  PROVE  mutation[m].stamp > end
BY AuditAssumption DEF AuditInv, TransactionsEnd, AuditType, Mutation, Past, AuditorAppends

LEMMA MutationsKeepRows ==
  ASSUME AuditorAppends, AuditInv, NEW start, NEW end, Past(end), NEW m \in Mutations,
         StampRow(m) \/ \E state \in {"committed", "aborted"} : EndMutation(m, state)
  PROVE  RowsInPeriod(start, end)' = RowsInPeriod(start, end)
<1>1. auditClock \in Nat /\ end \in Int /\ end < auditClock
  BY AuditAssumption DEF Past, AuditorAppends, AuditInv, AuditType
<1>2. /\ mutation' \in [Mutations -> Mutation] /\ \A k \in Mutations : k # m => mutation'[k] = mutation[k]
      /\ mutation[m].stamp > end \/ mutation[m].state = "none"
      /\ \/ mutation'[m].stamp = mutation[m].stamp /\ mutation[m].stamp > end
         \/ mutation'[m].state = "open"
  <2>1. CASE StampRow(m)
    BY <2>1, <1>1 DEF StampRow, AuditInv, AuditType, Mutation
  <2>2. ASSUME NEW state \in {"committed", "aborted"}, EndMutation(m, state)
        PROVE  /\ mutation' \in [Mutations -> Mutation] /\ mutation'[m].stamp = mutation[m].stamp
               /\ mutation[m].state = "open"
               /\ \A k \in Mutations : k # m => mutation'[k] = mutation[k]
    BY <2>2 DEF EndMutation, AuditInv, AuditType, Mutation
  <2> QED BY <2>1, <2>2, PastIsSettled
<1>3. ASSUME NEW k \in Mutations
      PROVE  mutation'[k].state = "committed" /\ mutation'[k].stamp <= end <=>
             mutation[k].state = "committed" /\ mutation[k].stamp <= end
  BY <1>1, <1>2 DEF AuditInv, AuditType, Mutation
<1>4. ASSUME NEW k \in Mutations, mutation[k].state = "committed", mutation[k].stamp <= end
      PROVE  mutation'[k].stamp = mutation[k].stamp
  BY <1>1, <1>2, <1>4 DEF AuditInv, AuditType, Mutation
<1> QED BY <1>3, <1>4 DEF RowsInPeriod

LEMMA MutationsKeepAudit ==
  ASSUME AuditorAppends, AuditInv, NEW m \in Mutations,
         StampRow(m) \/ \E state \in {"committed", "aborted"} : EndMutation(m, state)
  PROVE  AuditInv'
<1>0. UNCHANGED <<anchors, auditor, alarms, auditClock>> BY DEF StampRow, EndMutation
<1>1. /\ mutation' \in [Mutations -> Mutation] /\ \A k \in Mutations : k # m => mutation'[k] = mutation[k]
      /\ \/ mutation'[m].state = "open" /\ mutation'[m].stamp = auditClock
         \/ mutation'[m].state # "open" /\ mutation'[m].stamp = mutation[m].stamp /\ mutation[m].state = "open"
  BY DEF StampRow, EndMutation, AuditInv, AuditType, Mutation
<1>2. AuditType' BY <1>0, <1>1 DEF AuditInv, AuditType, Verifying, Writing
<1>3. TransactionsEnd'
  BY <1>0, <1>1, AuditAssumption DEF AuditInv, TransactionsEnd, AuditType, Mutation
<1>4. ASSUME NEW start, NEW end, Past(end) PROVE RowsInPeriod(start, end)' = RowsInPeriod(start, end)
  BY <1>4, MutationsKeepRows
<1>5. AllCovered'
  <2> SUFFICES ASSUME NEW k \in Mutations, mutation'[k].state = "committed",
                      NEW a \in anchors, mutation'[k].stamp <= a.end
               PROVE  \E b \in anchors : <<k, mutation'[k].stamp>> \in b.fold
    BY <1>0 DEF AllCovered
  <2>1. CASE k = m
    <3>1. mutation[m].state = "open" /\ mutation[m].stamp <= a.end BY <1>1, <2>1
    <3>2. Past(a.end) BY DEF AuditInv, AnchorSound
    <3>3. mutation[m].stamp > a.end BY <3>1, <3>2, PastIsSettled
    <3> QED BY <3>1, <3>2, <3>3 DEF AuditInv, AuditType, Mutation, Past
  <2>2. CASE k # m BY <1>1, <2>2 DEF AuditInv, AllCovered
  <2> QED BY <2>1, <2>2
<1>6. ASSUME NEW a \in anchors PROVE AnchorSound(a)'
  <2>1. AnchorSound(a) BY DEF AuditInv
  <2>2. RowsInPeriod(a.start, a.end)' = RowsInPeriod(a.start, a.end) BY <1>4, <2>1 DEF AnchorSound
  <2> QED BY <1>0, <2>1, <2>2 DEF AnchorSound, Past
<1>7. ASSUME NEW r \in Auditors PROVE AppenderSound(r)'
  <2>1. AppenderSound(r) BY DEF AuditInv
  <2>2. ASSUME auditor[r] # Resting, auditor[r].at = "write"
        PROVE  RowsInPeriod(PeriodStart(r), PeriodEnd(r))' = RowsInPeriod(PeriodStart(r), PeriodEnd(r))
    <3>1. auditor[r].now \in Nat /\ auditor[r].now <= auditClock
      BY <2>1, <2>2, AuditorKinds DEF AppenderSound, AuditInv, AuditType
    <3>2. Past(PeriodEnd(r)) BY <3>1, AuditAssumption DEF Past, PeriodEnd, AuditInv, AuditType
    <3>3. PeriodStart(r)' = PeriodStart(r) /\ PeriodEnd(r)' = PeriodEnd(r)
      BY <1>0 DEF PeriodStart, PeriodEnd
    <3>4. PICK s, e : s = PeriodStart(r) /\ e = PeriodEnd(r) OBVIOUS
    <3>5. RowsInPeriod(s, e)' = RowsInPeriod(s, e) BY <1>4, <3>2, <3>4
    <3> QED BY <3>3, <3>4, <3>5 DEF RowsInPeriod
  <2> QED BY <1>0, <2>1, <2>2 DEF AppenderSound, PeriodStart, PeriodEnd, LatestAnchors
<1> QED BY <1>0, <1>2, <1>3, <1>5, <1>6, <1>7 DEF AuditInv

\* An auditor or a viewer takes another position; nothing is written.
LEMMA PositionsKeepAudit ==
  ASSUME AuditInv, NEW r \in Auditors \cup Viewers, NEW x \in {Resting} \cup Verifying \cup Writing,
         Goes(r, x), UNCHANGED <<mutation, anchors, alarms, auditClock>>,
         r \in Auditors => AppenderSound(r)'
  PROVE  AuditInv'
<1>1. AuditType' BY DEF AuditInv, AuditType, Goes, Verifying, Writing
<1>2. TransactionsEnd' /\ AllCovered' BY DEF AuditInv, TransactionsEnd, AllCovered
<1>3. \A a \in anchors : AnchorSound(a)'
  BY DEF AuditInv, AnchorSound, Past, RowsInPeriod
<1>4. ASSUME NEW s \in Auditors PROVE AppenderSound(s)'
  <2>1. CASE s = r BY <2>1
  <2>2. CASE s # r
    <3>1. auditor'[s] = auditor[s] /\ AppenderSound(s) BY <2>2 DEF Goes, AuditInv, AuditType
    <3> QED BY <3>1 DEF AppenderSound, PeriodStart, PeriodEnd, LatestAnchors, RowsInPeriod
  <2> QED BY <2>1, <2>2
<1> QED BY <1>1, <1>2, <1>3, <1>4 DEF AuditInv

LEMMA ReadsKeepAudit ==
  ASSUME AuditInv, NEW r \in Auditors \cup Viewers, ReadLatest(r)
  PROVE  AuditInv'
<1>1. PICK latest \in IF anchors = {} THEN {NoAnchor} ELSE LatestAnchors :
        Goes(r, [at |-> "link", latest |-> latest, now |-> auditClock])
  BY DEF ReadLatest
<1> DEFINE x == [at |-> "link", latest |-> latest, now |-> auditClock]
<1>2. x \in Verifying /\ x.at = "link" /\ x.latest = latest /\ x.now = auditClock
  BY <1>1 DEF Verifying, AuditInv, AuditType, LatestAnchors
<1>3. latest = NoAnchor => anchors = {} BY <1>1 DEF AuditInv, AnchorSound, LatestAnchors
<1>4. latest # NoAnchor => latest \in LatestAnchors BY <1>1
<1>5. Goes(r, x) /\ UNCHANGED <<mutation, anchors, alarms, auditClock>> BY <1>1 DEF ReadLatest
<1> HIDE DEF x
<1>6. auditor'[r] = x BY <1>5 DEF Goes, AuditInv, AuditType
<1>7. AppenderSound(r)' BY <1>2, <1>3, <1>4, <1>5, <1>6 DEF AppenderSound, LatestAnchors, AuditInv, AuditType
<1> QED BY <1>2, <1>5, <1>7, PositionsKeepAudit

Onward(r, at) == [auditor[r] EXCEPT !.at = at]
LEMMA OnwardKeepsAudit ==
  ASSUME AuditInv, NEW r \in Auditors \cup Viewers, auditor[r] \in Verifying, NEW at \in {"content", "fold"},
         Goes(r, Onward(r, at)), UNCHANGED <<mutation, anchors, alarms, auditClock>>
  PROVE  AuditInv'
<1>1. /\ Onward(r, at) \in Verifying /\ Onward(r, at).at = at /\ Onward(r, at).latest = auditor[r].latest
      /\ Onward(r, at).now = auditor[r].now
  BY DEF Onward, Verifying
<1>2. auditor'[r] = Onward(r, at) BY DEF Goes, AuditInv, AuditType
<1>3. auditor[r] # Resting BY AuditorKinds
<1>4. r \in Auditors => AppenderSound(r)'
  BY <1>1, <1>2, <1>3 DEF AuditInv, AppenderSound, LatestAnchors
<1> QED BY <1>1, <1>4, PositionsKeepAudit

LEMMA RestsKeepAudit ==
  ASSUME AuditInv, NEW r \in Auditors \cup Viewers, Goes(r, Resting), UNCHANGED <<mutation, anchors, alarms, auditClock>>
  PROVE  AuditInv'
<1>1. auditor'[r] = Resting BY DEF Goes, AuditInv, AuditType
<1>2. AppenderSound(r)' BY <1>1 DEF AppenderSound
<1> QED BY <1>2, PositionsKeepAudit

\* The chain that is there is linked, and an anchor's period holds its fold.
LEMMA ChainIsLinked == ASSUME AuditInv, NEW a \in anchors PROVE Linked(a)
<1>1. AnchorSound(a) /\ \A b \in anchors : AnchorSound(b) BY DEF AuditInv
<1> DEFINE before == {b \in anchors : b.end < a.end \/ (b.end = a.end /\ b # a)}
           previous == {b \in before : \A c \in before : c.end <= b.end}
<1>2. \A b \in before : b \in anchors /\ b.end \in Int /\ b.end < a.end BY <1>1 DEF AnchorSound, Past
<1>3. \A b \in anchors : b.end \in Int BY <1>1 DEF AnchorSound, Past
<1>4. CASE a.start = NoAnchor
  <2>1. before = {} BY <1>1, <1>2, <1>3, <1>4 DEF AnchorSound
  <2> QED BY <1>1, <1>4, <2>1 DEF Linked, AnchorSound
<1>5. CASE a.start # NoAnchor
  <2>1. PICK b \in anchors : b.end = a.start /\ a.prev = b.hash BY <1>1, <1>5 DEF AnchorSound
  <2>2. b \in before BY <1>1, <1>5, <2>1 DEF AnchorSound
  <2>3. \A c \in before : c.end <= b.end BY <1>1, <1>2, <1>3, <1>5, <2>1 DEF AnchorSound
  <2>4. b \in previous BY <2>2, <2>3
  <2> HIDE DEF before
  <2>5. before # {} /\ \E c \in previous : a.prev = c.hash BY <2>1, <2>2, <2>4
  <2> QED BY <1>1, <2>5 DEF Linked, AnchorSound, before
<1> QED BY <1>4, <1>5
LEMMA ChecksKeepAudit ==
  ASSUME AuditInv, NEW r \in Auditors \cup Viewers, CheckLinkage(r) \/ CheckContent(r)
  PROVE  AuditInv'
<1>1. auditor[r] \in Verifying
  BY AuditorKinds DEF CheckLinkage, CheckContent, AuditInv, AuditType
<1>2. CASE CheckLinkage(r)
  <2>1. \A a \in anchors : Linked(a) BY ChainIsLinked
  <2>2. alarms' = alarms BY <1>2, <2>1 DEF CheckLinkage
  <2> QED BY <1>1, <1>2, <2>2, OnwardKeepsAudit DEF CheckLinkage, Onward
<1>3. CASE CheckContent(r)
  <2>1. auditor[r].latest # NoAnchor => auditor[r].latest \in anchors BY <1>1, AuditorKinds
  <2>2. auditor[r].latest # NoAnchor =>
          RowsInPeriod(auditor[r].latest.start, auditor[r].latest.end) = auditor[r].latest.fold
    BY <2>1 DEF AuditInv, AnchorSound
  <2>3. alarms' = alarms BY <1>3, <2>2 DEF CheckContent
  <2>4. CASE r \in Auditors BY <1>1, <1>3, <2>3, <2>4, OnwardKeepsAudit DEF CheckContent, Onward
  <2>5. CASE r \notin Auditors BY <1>3, <2>3, <2>5, RestsKeepAudit DEF CheckContent
  <2> QED BY <2>4, <2>5
<1> QED BY <1>2, <1>3

LEMMA FoldsKeepAudit ==
  ASSUME AuditInv, NEW r \in Auditors, FoldPeriod(r)
  PROVE  AuditInv'
<1>0. auditor[r] \in Verifying /\ auditor[r].at = "fold" /\ UNCHANGED <<mutation, anchors, alarms, auditClock>>
  BY AuditorKinds DEF FoldPeriod, AuditInv, AuditType
<1>1. AppenderSound(r) /\ auditor[r] # Resting BY <1>0, AuditorKinds DEF AuditInv
<1>2. CASE PeriodStart(r) # NoAnchor /\ PeriodEnd(r) <= PeriodStart(r)
  <2>1. Goes(r, Resting) BY <1>2 DEF FoldPeriod
  <2> QED BY <1>0, <2>1, RestsKeepAudit
<1>3. CASE ~(PeriodStart(r) # NoAnchor /\ PeriodEnd(r) <= PeriodStart(r))
  <2> DEFINE f == RowsInPeriod(PeriodStart(r), PeriodEnd(r))
             x == [at |-> "write", latest |-> auditor[r].latest, now |-> auditor[r].now, fold |-> f]
  <2>1. Goes(r, x) BY <1>3 DEF FoldPeriod
  <2>2. f \subseteq Mutations \X Nat BY RowsAre DEF AuditInv
  <2>3. PICK g \in SUBSET (Mutations \X Nat) : g = f BY <2>2
  <2> HIDE DEF f
  <2>4. /\ x \in Writing /\ x.at = "write" /\ x.latest = auditor[r].latest /\ x.now = auditor[r].now /\ x.fold = f
    BY <1>0, <2>3, AuditorKinds DEF Writing
  <2> HIDE DEF x
  <2>5. auditor'[r] = x BY <2>1 DEF Goes, AuditInv, AuditType
  <2>6. PeriodStart(r)' = PeriodStart(r) /\ PeriodEnd(r)' = PeriodEnd(r) BY <2>4, <2>5 DEF PeriodStart, PeriodEnd
  <2>7. RowsInPeriod(PeriodStart(r), PeriodEnd(r))' = f BY <1>0, <2>6 DEF RowsInPeriod, f
  <2>8. PeriodStart(r) # NoAnchor => PeriodStart(r) < PeriodEnd(r)
    <3>1. PeriodStart(r) # NoAnchor => PeriodStart(r) \in Int
      BY <1>0, AuditorKinds DEF PeriodStart, AuditInv, AnchorSound, Past
    <3>2. PeriodEnd(r) \in Int BY <1>0, AuditorKinds, AuditAssumption DEF PeriodEnd
    <3> QED BY <1>3, <3>1, <3>2
  <2>9. AppenderSound(r)'
    BY <1>0, <1>1, <2>4, <2>5, <2>6, <2>7, <2>8 DEF AppenderSound, LatestAnchors
  <2> QED BY <1>0, <2>1, <2>4, <2>9, PositionsKeepAudit
<1> QED BY <1>2, <1>3

LEMMA AuditTicksKeepAudit ==
  ASSUME AuditInv, AuditTick
  PROVE  AuditInv'
<1>1. auditClock \in Nat /\ auditClock' = auditClock + 1 /\ UNCHANGED <<mutation, anchors, auditor, alarms>>
  BY DEF AuditTick, AuditInv, AuditType
<1>2. AuditType' BY <1>1 DEF AuditInv, AuditType, Verifying, Writing
<1>3. TransactionsEnd'
  BY <1>1, AuditAssumption DEF AuditTick, AuditInv, AuditType, Mutation, TransactionsEnd
<1>4. AllCovered' BY <1>1 DEF AuditInv, AllCovered
<1>5. ASSUME NEW a \in anchors PROVE AnchorSound(a)'
  <2>1. AnchorSound(a) BY DEF AuditInv
  <2>2. Past(a.end)' BY <1>1, <2>1, AuditAssumption DEF AnchorSound, Past
  <2>3. RowsInPeriod(a.start, a.end)' = RowsInPeriod(a.start, a.end) BY <1>1 DEF RowsInPeriod
  <2> QED BY <1>1, <2>1, <2>2, <2>3 DEF AnchorSound
<1>6. ASSUME NEW r \in Auditors PROVE AppenderSound(r)'
  <2>1. AppenderSound(r) BY DEF AuditInv
  <2>2. auditor[r] # Resting => auditor[r].now \in Nat /\ auditor[r].now <= auditClock'
    BY <1>1, <2>1, AuditorKinds DEF AppenderSound, AuditInv, AuditType
  <2> QED BY <1>1, <2>1, <2>2 DEF AppenderSound, PeriodStart, PeriodEnd, LatestAnchors, RowsInPeriod
<1> QED BY <1>1, <1>2, <1>3, <1>4, <1>5, <1>6 DEF AuditInv

\* An anchor is appended after the last one.
LEMMA AppendingKeepsAudit ==
  ASSUME AuditorAppends, AuditInv, NEW r \in Auditors, NEW new, anchors' = anchors \cup {new}, Goes(r, Resting),
         UNCHANGED <<mutation, alarms, auditClock>>, new # NoAnchor, Past(new.end),
         new.fold = RowsInPeriod(new.start, new.end),
         new.hash = ChainHash(new.prev, new.start, new.end, new.fold),
         IF new.start = NoAnchor THEN new.prev = Genesis /\ anchors = {}
         ELSE \E b \in LatestAnchors : new.start = b.end /\ new.prev = b.hash /\ new.start < new.end
  PROVE  AuditInv'
<1>0. /\ new.end \in Int /\ (new.start # NoAnchor => new.start \in Int /\ new.start < new.end)
      /\ \A b \in anchors : b.end \in Int
  BY DEF AuditInv, AnchorSound, Past, LatestAnchors
<1>1. \A s, e : RowsInPeriod(s, e)' = RowsInPeriod(s, e) BY DEF RowsInPeriod
<1>2. \A b \in anchors : b.end < new.end /\ new.start # NoAnchor /\ b.end <= new.start
  BY <1>0 DEF LatestAnchors
<1>3. AuditType'
  <2>1. \A x \in {Resting} \cup Verifying \cup Writing : x \in ({Resting} \cup Verifying \cup Writing)'
    BY DEF Verifying, Writing
  <2> QED BY <2>1 DEF AuditInv, AuditType, Goes
<1>4. TransactionsEnd' BY DEF AuditInv, TransactionsEnd
<1>5. AllCovered'
  <2> SUFFICES ASSUME NEW m \in Mutations, mutation[m].state = "committed",
                      NEW a \in anchors', mutation[m].stamp <= a.end
               PROVE  \E b \in anchors' : <<m, mutation[m].stamp>> \in b.fold
    BY DEF AllCovered
  <2>1. CASE \E b \in anchors : mutation[m].stamp <= b.end BY <2>1 DEF AuditInv, AllCovered
  <2>2. CASE ~\E b \in anchors : mutation[m].stamp <= b.end
    <3>1. a = new BY <2>2
    <3>2. mutation[m].stamp \in Nat BY DEF AuditInv, AuditType, Mutation
    <3>3. new.start # NoAnchor => mutation[m].stamp > new.start
      <4> SUFFICES ASSUME new.start # NoAnchor PROVE mutation[m].stamp > new.start OBVIOUS
      <4>1. PICK b \in anchors : b.end = new.start BY DEF LatestAnchors
      <4> QED BY <1>0, <2>2, <3>2, <4>1
    <3>4. <<m, mutation[m].stamp>> \in new.fold BY <3>1, <3>3, RowsAre
    <3> QED BY <3>4
  <2> QED BY <2>1, <2>2
<1>6. ASSUME NEW a \in anchors PROVE AnchorSound(a)'
  <2>1. AnchorSound(a) BY DEF AuditInv
  <2> HIDE DEF AnchorSound
  <2>2. RowsInPeriod(a.start, a.end)' = RowsInPeriod(a.start, a.end) BY <1>1
  <2>3. a.end \in Int /\ a.end < new.end BY <1>0, <1>2
  <2>4. Past(a.end)' BY <2>1 DEF AnchorSound, Past
  <2>5. \A b \in anchors' : b \in anchors \/ b.end > a.end BY <1>0, <2>3
  <2>6. CASE a.start = NoAnchor
    BY <1>0, <2>1, <2>2, <2>3, <2>4, <2>5, <2>6 DEF AnchorSound
  <2>7. CASE a.start # NoAnchor
    <3>1. /\ a.start \in Int /\ a.start < a.end
          /\ \A b \in anchors : b.end <= a.start \/ b.end >= a.end
          /\ \E b \in anchors : b.end = a.start /\ a.prev = b.hash
          /\ \A b \in anchors : b.end = a.end => b = a
      BY <2>1, <2>7 DEF AnchorSound
    <3>2. \A b \in anchors' : b.end <= a.start \/ b.end >= a.end BY <1>0, <2>3, <2>5, <3>1
    <3>3. \E b \in anchors' : b.end = a.start /\ a.prev = b.hash BY <3>1
    <3>4. \A b \in anchors' : b.end = a.end => b = a BY <2>3, <2>5, <3>1
    <3> QED BY <2>1, <2>2, <2>4, <2>7, <3>1, <3>2, <3>3, <3>4 DEF AnchorSound
  <2> QED BY <2>6, <2>7
<1>7. AnchorSound(new)'
  <2>1. RowsInPeriod(new.start, new.end)' = new.fold /\ Past(new.end)' BY <1>1 DEF Past
  <2>2. \A b \in anchors' : b.end = new.end => b = new BY <1>0, <1>2
  <2>3. CASE new.start = NoAnchor
    <3>1. \A b \in anchors' : b = new BY <2>3
    <3> QED BY <1>0, <2>1, <2>2, <2>3, <3>1 DEF AnchorSound
  <2>4. CASE new.start # NoAnchor
    <3>1. \E b \in anchors' : b.end = new.start /\ new.prev = b.hash BY <2>4 DEF LatestAnchors
    <3>2. \A b \in anchors' : b.end <= new.start \/ b.end >= new.end BY <1>0, <1>2
    <3> QED BY <1>0, <2>1, <2>2, <2>4, <3>1, <3>2 DEF AnchorSound
  <2> QED BY <2>3, <2>4
<1>8. ASSUME NEW s \in Auditors PROVE AppenderSound(s)'
  <2>1. s = r BY DEF AuditorAppends
  <2>2. auditor'[s] = Resting BY <2>1 DEF Goes, AuditInv, AuditType
  <2> QED BY <2>2 DEF AppenderSound
<1> QED BY <1>3, <1>4, <1>5, <1>6, <1>7, <1>8 DEF AuditInv

LEMMA WritesKeepAudit ==
  ASSUME AuditorAppends, AuditInv, NEW r \in Auditors, WriteAnchor(r)
  PROVE  AuditInv'
<1> DEFINE start == PeriodStart(r)
           end == PeriodEnd(r)
           fold == auditor[r].fold
           prev == IF auditor[r].latest = NoAnchor THEN Genesis ELSE auditor[r].latest.hash
           new == [start |-> start, end |-> end, fold |-> fold, prev |-> prev,
                   hash |-> ChainHash(prev, start, end, fold)]
<1>0. /\ anchors' = anchors \cup {new} /\ Goes(r, Resting) /\ UNCHANGED <<mutation, alarms, auditClock>>
      /\ auditor[r].at = "write"
  BY DEF WriteAnchor
<1>1. auditor[r] \in Writing BY <1>0, AuditorKinds DEF AuditInv, AuditType
<1>2. AppenderSound(r) /\ auditor[r] # Resting /\ auditor[r].now \in Nat
  BY <1>1, AuditorKinds DEF AuditInv
<1>3. /\ fold = RowsInPeriod(start, end) /\ (start # NoAnchor => start < end)
      /\ IF auditor[r].latest = NoAnchor THEN anchors = {} ELSE auditor[r].latest \in LatestAnchors
  BY <1>0, <1>2 DEF AppenderSound
<1>4. Past(end)
  BY <1>2, AuditAssumption DEF Past, PeriodEnd, AppenderSound, AuditInv, AuditType
<1>5. /\ new.start = start /\ new.end = end /\ new.fold = fold /\ new.prev = prev
      /\ new.hash = ChainHash(prev, start, end, fold) /\ new # NoAnchor
  BY DEF AuditorAppends
<1>6. \A b \in anchors : b.end # NoAnchor BY DEF AuditInv, AnchorSound, Past, AuditorAppends
<1>7. IF start = NoAnchor THEN prev = Genesis /\ anchors = {}
      ELSE \E b \in LatestAnchors : start = b.end /\ prev = b.hash /\ start < end
  BY <1>3, <1>6 DEF PeriodStart, LatestAnchors
<1> HIDE DEF new, start, end, fold, prev
<1> QED BY <1>0, <1>3, <1>4, <1>5, <1>7, AppendingKeepsAudit

LEMMA AuditStep == ASSUME AuditorAppends PROVE AuditInv /\ [AuNext]_auvars => AuditInv'
<1> SUFFICES ASSUME AuditInv, [AuNext]_auvars PROVE AuditInv' OBVIOUS
<1>1. CASE UNCHANGED auvars
  BY <1>1 DEF auvars, AuditInv, AuditType, TransactionsEnd, AllCovered, AnchorSound, AppenderSound, Past, Verifying,
     Writing, RowsInPeriod, PeriodStart, PeriodEnd, LatestAnchors
<1>2. ASSUME NEW r \in Auditors \cup Viewers,
             ReadLatest(r) \/ CheckLinkage(r) \/ CheckContent(r) \/ AuditorFails(r)
      PROVE  AuditInv'
  BY <1>2, ReadsKeepAudit, ChecksKeepAudit, RestsKeepAudit DEF AuditorFails
<1>3. ASSUME NEW r \in Auditors, FoldPeriod(r) \/ WriteAnchor(r) PROVE AuditInv'
  BY <1>3, FoldsKeepAudit, WritesKeepAudit
<1>4. ASSUME NEW m \in Mutations, StampRow(m) \/ \E state \in {"committed", "aborted"} : EndMutation(m, state)
      PROVE  AuditInv'
  BY <1>4, MutationsKeepAudit
<1> QED BY <1>1, <1>2, <1>3, <1>4, AuditTicksKeepAudit DEF AuNext

(* With one run of anchor_audit at a time and transactions shorter than      *)
(* ANCHOR_LAG, every audited row that the anchors have come to is under       *)
(* exactly one, and no check of the chain, by the job or the console, is      *)
(* alarmed, for any number of writes and viewers, whatever fails half way     *)
(* (anchor_audit.rs run_at, audit_log.rs chain_status).                       *)
THEOREM RowsAnchoredOnce == ASSUME AuditorAppends PROVE AuSpec => []AnchoredOnce
<1>1. AuSpec => []AuditInv BY AuditInit, AuditStep, PTL DEF AuSpec
<1> QED BY <1>1, OneAnchorEach, PTL

-----------------------------------------------------------------------------
(* Backups.  While a backup runs its dump is young, so nobody prunes it, and   *)
(* no other has its name; the health file is touched only then, and what it    *)
(* stands for stays until the file is too old.  A drill may prune manifests     *)
(* after a backup landed, but that one is no older than two runs.               *)

DumpRec == [ts : Nat, of : {"none", "production", "scratch"}, whole : BOOLEAN]
InRun == {"upload", "manifest", "pruneDumps", "pruneManifests", "ended"}
Backer == [pc : InRun \cup {"down", "wait", "dump", "passed", "failed"}, dump : DumpRec, due : Nat]
Running(b) == bk[b].pc \in InRun

BackupType ==
  /\ bnow \in Nat \ {0} /\ dumps \subseteq DumpRec /\ manifests \subseteq Nat
  /\ bk \in [Backers -> Backer] /\ health \in Nat \cup {Long}
  /\ db \in {"live", "restoring", "half"} /\ restored \in BOOLEAN /\ landed \in BOOLEAN

RunSound(b) == Running(b) =>
  /\ bk[b].dump.ts # 0 /\ bk[b].dump.ts <= bnow /\ bnow <= bk[b].dump.ts + MaxRun
  /\ bk[b].dump.of = IF b = "drill" THEN "scratch" ELSE "production"
  /\ bk[b].dump.whole \/ restored
  /\ IF bk[b].pc = "upload" THEN \A d \in dumps : d.ts # bk[b].dump.ts ELSE bk[b].dump \in dumps
  /\ bk[b].pc \notin {"upload", "manifest"} => bk[b].dump.ts \in manifests
NamesDiffer == \A b, c \in Backers : b # c /\ Running(b) /\ Running(c) => bk[b].dump.ts # bk[c].dump.ts
RestoreSound == db # "live" => restored

\* What the health file stands for.
HealthSound == health # Long =>
  /\ health <= bnow
  /\ bnow <= health + 2 * Period =>
       \E d \in Complete : d.ts <= bnow /\ health <= d.ts + MaxRun /\ (d.whole \/ restored)

\* A drill that has pruned the dumps may still prune the manifests.
DrillPrunes == "drill" \in Backers /\ bk["drill"].pc = "pruneManifests"
LandedSound == landed =>
  \E d \in Complete : d.ts <= bnow /\ (DrillPrunes => bk["drill"].dump.ts <= d.ts + MaxRun)

BackupInv ==
  /\ BackupType /\ NamesDiffer /\ RestoreSound /\ HealthSound /\ LandedSound
  /\ \A b \in Backers : RunSound(b)

LEMMA HealthyIsRecoverable == BackupInv => HealthyMeansRecoverable
<1> SUFFICES ASSUME BackupInv PROVE HealthyMeansRecoverable OBVIOUS
<1>1. ASSUME Healthy, health # Long
      PROVE  \E d \in Complete : Age(d.ts) <= 2 * Period + MaxRun /\ (d.whole \/ restored)
  <2>1. health \in Nat /\ bnow \in Nat BY <1>1 DEF BackupInv, BackupType
  <2>2. bnow <= health + 2 * Period BY <1>1, <2>1, BackupAssumption DEF Healthy, Age
  <2>3. PICK d \in Complete : d.ts <= bnow /\ health <= d.ts + MaxRun /\ (d.whole \/ restored)
    BY <1>1, <2>2 DEF BackupInv, HealthSound
  <2>4. d.ts \in Nat BY DEF BackupInv, BackupType, DumpRec, Complete
  <2> QED BY <2>1, <2>2, <2>3, <2>4, BackupAssumption DEF Age
<1>2. landed => Complete # {} BY DEF BackupInv, LandedSound
<1> QED BY <1>1, <1>2 DEF HealthyMeansRecoverable

LEMMA BackupInit == BkInit => BackupInv
<1> SUFFICES ASSUME BkInit PROVE BackupInv OBVIOUS
<1>1. NoDump \in DumpRec BY DEF NoDump, DumpRec
<1>2. BackupType
  <2>1. [pc |-> "down", dump |-> NoDump, due |-> 0] \in Backer BY <1>1 DEF Backer
  <2>2. bk \in [Backers -> Backer] BY <2>1 DEF BkInit
  <2>3. bnow \in Nat \ {0} /\ dumps \subseteq DumpRec /\ manifests \subseteq Nat BY DEF BkInit
  <2> QED BY <2>2, <2>3 DEF BkInit, BackupType
<1>3. \A b \in Backers : ~Running(b) BY DEF BkInit, Running, InRun
<1> QED BY <1>2, <1>3 DEF BkInit, BackupInv, NamesDiffer, RestoreSound, HealthSound, LandedSound, RunSound

LEMMA NothingMoves ==
  ASSUME BackupInv, UNCHANGED <<bnow, dumps, manifests, bk, health, db, restored, landed>>
  PROVE  BackupInv'
<1>1. BackupType' /\ RestoreSound' BY DEF BackupInv, BackupType, RestoreSound
<1>2. Complete' = Complete BY DEF Complete
<1>3. HealthSound' /\ LandedSound' BY <1>2 DEF BackupInv, HealthSound, LandedSound, DrillPrunes
<1>4. NamesDiffer' /\ \A b \in Backers : RunSound(b)' BY DEF BackupInv, NamesDiffer, RunSound, Running
<1> QED BY <1>1, <1>3, <1>4 DEF BackupInv

\* What is young enough stays on the remote.
Keeps ==
  /\ \A d \in dumps : bnow <= d.ts + 2 * Period + MaxRun => d \in dumps'
  /\ \A ts \in manifests : bnow <= ts + 2 * Period + MaxRun => ts \in manifests'

\* A step of one backer, which may add its own dump and prune what is old.
LEMMA OneBackerSteps ==
  ASSUME BackupInv, NEW b \in Backers, NEW x \in Backer, bk' = [bk EXCEPT ![b] = x],
         UNCHANGED <<bnow, db, restored>>, Keeps,
         dumps' \subseteq dumps \/ (bk[b].pc = "upload" /\ dumps' \subseteq dumps \cup {bk[b].dump}),
         manifests' \subseteq Nat, landed' \in BOOLEAN,
         health' = Long \/ health' = health \/ (b # "drill" /\ bk[b].pc = "ended" /\ health' = bnow),
         RunSound(b)', LandedSound',
         x.pc \in InRun => \A c \in Backers \ {b} : Running(c) => x.dump.ts # bk[c].dump.ts
  PROVE  BackupInv'
<1>0. /\ bnow \in Nat \ {0} /\ bk \in [Backers -> Backer] /\ \A c \in Backers : bk[c].dump \in DumpRec
      /\ \A d \in DumpRec : d.ts \in Nat
  BY DEF BackupInv, BackupType, Backer, DumpRec
<1>1. BackupType' BY <1>0 DEF BackupInv, BackupType
<1>2. bk'[b] = x /\ \A c \in Backers : c # b => bk'[c] = bk[c] BY <1>0
<1>3. NamesDiffer' BY <1>2 DEF BackupInv, NamesDiffer, Running
<1>4. RestoreSound' BY DEF BackupInv, RestoreSound
<1>5. ASSUME NEW c \in Backers, Running(c)
      PROVE  /\ bk[c].dump \in dumps => bk[c].dump \in dumps'
             /\ bk[c].dump.ts \in manifests => bk[c].dump.ts \in manifests'
  <2>1. bk[c].dump.ts \in Nat /\ bnow <= bk[c].dump.ts + MaxRun BY <1>0, <1>5 DEF BackupInv, RunSound
  <2>2. bnow <= bk[c].dump.ts + 2 * Period + MaxRun BY <1>0, <2>1, BackupAssumption
  <2> QED BY <2>2 DEF Keeps
<1>6. ASSUME NEW c \in Backers PROVE RunSound(c)'
  <2>1. CASE c = b BY <2>1
  <2>2. CASE c # b
    <3> SUFFICES ASSUME Running(c)' PROVE RunSound(c)' BY DEF RunSound
    <3>1. Running(c) /\ RunSound(c) /\ bk'[c] = bk[c] BY <1>2, <2>2 DEF Running, BackupInv
    <3>2. bk[c].pc = "upload" => \A d \in dumps' : d.ts # bk[c].dump.ts
      <4>1. bk[b].pc = "upload" => Running(b) BY DEF Running, InRun
      <4> QED BY <2>2, <3>1, <4>1 DEF RunSound, BackupInv, NamesDiffer
    <3> QED BY <1>5, <3>1, <3>2 DEF RunSound
  <2> QED BY <2>1, <2>2
<1>7. HealthSound'
  <2>1. CASE health' = Long BY <2>1 DEF HealthSound
  <2>2. CASE health' = health
    <3> SUFFICES ASSUME health # Long, bnow <= health + 2 * Period
                 PROVE  \E d \in Complete' : d.ts <= bnow /\ health <= d.ts + MaxRun /\ (d.whole \/ restored)
      BY <2>2 DEF BackupInv, HealthSound
    <3>1. PICK d \in Complete : d.ts <= bnow /\ health <= d.ts + MaxRun /\ (d.whole \/ restored)
      BY DEF BackupInv, HealthSound
    <3>2. health \in Nat /\ d.ts \in Nat /\ d \in dumps /\ d.ts \in manifests /\ d.of = "production"
      BY <1>0 DEF BackupInv, BackupType, Complete
    <3>3. bnow <= d.ts + 2 * Period + MaxRun BY <1>0, <3>1, <3>2, BackupAssumption
    <3>4. d \in Complete' BY <3>2, <3>3 DEF Keeps, Complete
    <3> QED BY <3>1, <3>4
  <2>3. CASE b # "drill" /\ bk[b].pc = "ended" /\ health' = bnow
    <3>1. Running(b) BY <2>3 DEF Running, InRun
    <3>2. /\ bk[b].dump \in dumps /\ bk[b].dump.ts \in manifests /\ bk[b].dump.of = "production"
          /\ bk[b].dump.ts <= bnow /\ bnow <= bk[b].dump.ts + MaxRun /\ (bk[b].dump.whole \/ restored)
      BY <2>3, <3>1 DEF BackupInv, RunSound
    <3>3. bk[b].dump \in Complete' BY <1>5, <3>1, <3>2 DEF Complete
    <3>4. \E d \in Complete' : d.ts <= bnow /\ bnow <= d.ts + MaxRun /\ (d.whole \/ restored)
      BY <3>2, <3>3
    <3> QED BY <1>0, <2>3, <3>4 DEF HealthSound
  <2> QED BY <2>1, <2>2, <2>3
<1> QED BY <1>1, <1>3, <1>4, <1>6, <1>7 DEF BackupInv
\* A backer goes on with nothing in its hands; the remote is left alone.
LEMMA QuietSteps ==
  ASSUME BackupInv, NEW b \in Backers, NEW x \in Backer, bk' = [bk EXCEPT ![b] = x], x.pc \notin InRun,
         UNCHANGED <<bnow, dumps, manifests, db, restored, landed>>,
         health' = Long \/ health' = health \/ (b # "drill" /\ bk[b].pc = "ended" /\ health' = bnow)
  PROVE  BackupInv'
<1>1. bk'[b] = x /\ \A c \in Backers : c # b => bk'[c] = bk[c] BY DEF BackupInv, BackupType
<1>2. RunSound(b)' BY <1>1 DEF RunSound, Running
<1>3. DrillPrunes' => DrillPrunes /\ bk'["drill"] = bk["drill"] BY <1>1 DEF DrillPrunes, InRun
<1>4. LandedSound' BY <1>3 DEF BackupInv, LandedSound, Complete
<1>5. Keeps /\ manifests' \subseteq Nat /\ landed' \in BOOLEAN BY DEF Keeps, BackupInv, BackupType
<1> QED BY <1>2, <1>4, <1>5, OneBackerSteps

AtPc(b, pc) == [bk[b] EXCEPT !.pc = pc]
LEMMA AtEdits ==
  ASSUME BackupInv, NEW b \in Backers, NEW pc \in InRun \cup {"down", "wait", "dump", "passed", "failed"}
  PROVE  /\ AtPc(b, pc) \in Backer /\ AtPc(b, pc).pc = pc /\ AtPc(b, pc).dump = bk[b].dump
         /\ Steps(b, pc) => bk' = [bk EXCEPT ![b] = AtPc(b, pc)]
<1>1. bk[b] \in Backer BY DEF BackupInv, BackupType
<1> QED BY <1>1 DEF AtPc, Backer, Steps

LEMMA RestsEdits ==
  ASSUME BackupInv, NEW b \in Backers
  PROVE  /\ [pc |-> "down", dump |-> NoDump, due |-> 0] \in Backer
         /\ Rests(b) => \E x \in Backer : x.pc \notin InRun /\ bk' = [bk EXCEPT ![b] = x]
<1>1. NoDump \in DumpRec BY DEF NoDump, DumpRec
<1>2. Upcoming \in Nat BY BackupAssumption DEF Upcoming, BackupInv, BackupType
<1> DEFINE down == [pc |-> "down", dump |-> NoDump, due |-> 0]
           wait == [pc |-> "wait", dump |-> NoDump, due |-> Upcoming]
<1>3. down \in Backer /\ wait \in Backer /\ down.pc \notin InRun /\ wait.pc \notin InRun
  BY <1>1, <1>2 DEF Backer, InRun
<1>4. Rests(b) => bk' = [bk EXCEPT ![b] = down] \/ bk' = [bk EXCEPT ![b] = wait] BY DEF Rests
<1> HIDE DEF down, wait
<1>5. Rests(b) => \E x \in Backer : x.pc \notin InRun /\ bk' = [bk EXCEPT ![b] = x] BY <1>3, <1>4
<1> QED BY <1>3, <1>5 DEF down

LEMMA WaitsKeepBackups ==
  ASSUME BackupInv
  PROVE  /\ \A onStart \in BOOLEAN : StartSchedule(onStart) => BackupInv'
         /\ BackupDue => BackupInv'
         /\ \A b \in Backers : CommandStarts(b) \/ BackupEnds(b) \/ BackupFails(b) => BackupInv'
         /\ \A b \in Backers, anew \in BOOLEAN : BackerStops(b, anew) => BackupInv'
<1>0. "sched" \in Backers /\ "dump" \notin InRun /\ "down" \notin InRun BY BackupAssumption DEF InRun
<1>1. ASSUME NEW b \in Backers, Rests(b), UNCHANGED <<bnow, dumps, manifests, db, restored, landed>>,
             health' = Long \/ health' = health \/ (b # "drill" /\ bk[b].pc = "ended" /\ health' = bnow)
      PROVE  BackupInv'
  <2>1. PICK x \in Backer : x.pc \notin InRun /\ bk' = [bk EXCEPT ![b] = x] BY <1>1, RestsEdits
  <2> QED BY <1>1, <2>1, QuietSteps
<1>2. ASSUME NEW b \in Backers, Steps(b, "dump"), UNCHANGED <<bnow, dumps, manifests, db, restored, landed, health>>
      PROVE  BackupInv'
  <2>1. AtPc(b, "dump") \in Backer /\ AtPc(b, "dump").pc = "dump" /\ bk' = [bk EXCEPT ![b] = AtPc(b, "dump")]
    BY <1>2, AtEdits
  <2> QED BY <1>0, <1>2, <2>1, QuietSteps
<1>3. \A onStart \in BOOLEAN : StartSchedule(onStart) => BackupInv' BY <1>0, <1>1, <1>2 DEF StartSchedule
<1>4. BackupDue => BackupInv' BY <1>0, <1>2 DEF BackupDue
<1>5. \A b \in Backers : CommandStarts(b) => BackupInv' BY <1>2 DEF CommandStarts
<1>6. \A b \in Backers : BackupEnds(b) => BackupInv' BY <1>1 DEF BackupEnds
<1>7. \A b \in Backers : BackupFails(b) => BackupInv' BY <1>1 DEF BackupFails
<1>8. ASSUME NEW b \in Backers, NEW anew \in BOOLEAN, BackerStops(b, anew) PROVE BackupInv'
  <2> DEFINE down == [pc |-> "down", dump |-> NoDump, due |-> 0]
  <2>1. down \in Backer /\ down.pc \notin InRun BY <1>0, RestsEdits
  <2>2. /\ bk' = [bk EXCEPT ![b] = down] /\ UNCHANGED <<bnow, dumps, manifests, db, restored, landed>>
        /\ health' = Long \/ health' = health
    BY <1>8 DEF BackerStops
  <2> HIDE DEF down
  <2> QED BY <2>1, <2>2, QuietSteps
<1> QED BY <1>3, <1>4, <1>5, <1>6, <1>7, <1>8

LEMMA DrillEndsKeepsBackups ==
  ASSUME BackupInv, DrillEnds
  PROVE  BackupInv'
<1> DEFINE pc == IF bk["drill"].dump \in dumps THEN "passed" ELSE "failed"
           x == [pc |-> pc, dump |-> NoDump, due |-> 0]
<1>1. /\ bk' = [bk EXCEPT !["drill"] = x]
      /\ UNCHANGED <<bnow, dumps, manifests, health, marker, db, restored, commands, bfaults, landed>>
  BY DEF DrillEnds
<1>2. pc \in {"passed", "failed"} OBVIOUS
<1> HIDE DEF pc
<1>3. x \in Backer /\ x.pc \notin InRun BY <1>2 DEF Backer, NoDump, DumpRec, InRun
<1> HIDE DEF x
<1>4. CASE "drill" \in Backers BY <1>1, <1>3, <1>4, QuietSteps
<1>5. CASE "drill" \notin Backers
  <2>1. bk' = bk BY <1>1, <1>5 DEF BackupInv, BackupType
  <2> QED BY <1>1, <2>1, NothingMoves
<1> QED BY <1>4, <1>5

LEMMA DumpsKeepBackups ==
  ASSUME BackupInv, NEW b \in Backers, TakeDump(b)
  PROVE  BackupInv'
<1> DEFINE d == [ts |-> bnow, of |-> IF b = "drill" THEN "scratch" ELSE "production",
                 whole |-> b = "drill" \/ db = "live"]
           x == [bk[b] EXCEPT !.pc = "upload", !.dump = d]
<1>0. /\ bk' = [bk EXCEPT ![b] = x] /\ UNCHANGED <<bnow, dumps, manifests, health, db, restored, landed>>
      /\ bk[b].pc = "dump" /\ \A e \in dumps \cup {bk[c].dump : c \in Backers} : e.ts # bnow
  BY DEF TakeDump
<1>1. /\ d \in DumpRec /\ d.ts = bnow /\ d.of = (IF b = "drill" THEN "scratch" ELSE "production")
      /\ (d.whole \/ db # "live")
  BY DEF DumpRec, BackupInv, BackupType
<1>2. d.whole \/ restored BY <1>1 DEF BackupInv, RestoreSound
<1> HIDE DEF d
<1>3. x \in Backer /\ x.pc = "upload" /\ x.dump = d
  <2>1. bk[b] \in Backer BY DEF BackupInv, BackupType
  <2> QED BY <1>1, <2>1 DEF Backer, InRun
<1> HIDE DEF x
<1>4. bk'[b] = x /\ \A c \in Backers : c # b => bk'[c] = bk[c] BY <1>0 DEF BackupInv, BackupType
<1>5. bnow \in Nat \ {0} BY DEF BackupInv, BackupType
<1>6. RunSound(b)' BY <1>0, <1>1, <1>2, <1>3, <1>4, <1>5, BackupAssumption DEF RunSound
<1>7. DrillPrunes' => DrillPrunes /\ bk'["drill"] = bk["drill"] BY <1>3, <1>4 DEF DrillPrunes
<1>8. LandedSound' BY <1>0, <1>7 DEF BackupInv, LandedSound, Complete
<1>9. Keeps /\ manifests' \subseteq Nat /\ landed' \in BOOLEAN BY <1>0 DEF Keeps, BackupInv, BackupType
<1>10. \A c \in Backers \ {b} : x.dump.ts # bk[c].dump.ts BY <1>0, <1>1, <1>3
<1> QED BY <1>0, <1>3, <1>6, <1>8, <1>9, <1>10, OneBackerSteps
\* What a running backup has on the remote is as young as a run.
LEMMA OwnDump ==
  ASSUME BackupInv, NEW b \in Backers, Running(b)
  PROVE  /\ bk[b].dump \in DumpRec /\ bk[b].dump.ts \in Nat \ {0} /\ bk[b].dump.ts <= bnow
         /\ bnow <= bk[b].dump.ts + MaxRun /\ bnow \in Nat
         /\ DrillPrunes => bk["drill"].dump.ts \in Nat /\ bk["drill"].dump.ts <= bk[b].dump.ts + MaxRun
<1>1. \A c \in Backers : bk[c].dump \in DumpRec /\ bk[c].dump.ts \in Nat BY DEF BackupInv, BackupType, Backer, DumpRec
<1>2. /\ bk[b].dump.ts # 0 /\ bk[b].dump.ts <= bnow /\ bnow <= bk[b].dump.ts + MaxRun /\ bnow \in Nat
  BY DEF BackupInv, RunSound, BackupType
<1>3. DrillPrunes => bk["drill"].dump.ts <= bnow BY DEF DrillPrunes, BackupInv, RunSound, Running, InRun
<1> QED BY <1>1, <1>2, <1>3, BackupAssumption DEF DrillPrunes

LEMMA UploadsKeepBackups ==
  ASSUME BackupInv, NEW b \in Backers, UploadDump(b) \/ UploadManifest(b)
  PROVE  BackupInv'
<1>0. Running(b) /\ RunSound(b) BY DEF UploadDump, UploadManifest, Running, InRun, BackupInv
<1>1. /\ bk[b].dump \in DumpRec /\ bk[b].dump.ts \in Nat \ {0} /\ bk[b].dump.ts <= bnow
      /\ bnow <= bk[b].dump.ts + MaxRun /\ bnow \in Nat
      /\ DrillPrunes => bk["drill"].dump.ts <= bk[b].dump.ts + MaxRun
  BY <1>0, OwnDump
<1>2. \A c \in Backers \ {b} : Running(c) => bk[b].dump.ts # bk[c].dump.ts BY <1>0 DEF BackupInv, NamesDiffer
<1>3. CASE UploadDump(b)
  <2> DEFINE x == AtPc(b, "manifest")
  <2>1. x \in Backer /\ x.pc = "manifest" /\ x.dump = bk[b].dump /\ bk' = [bk EXCEPT ![b] = x]
    BY <1>3, AtEdits DEF UploadDump, InRun
  <2>2. /\ bk[b].pc = "upload" /\ UNCHANGED <<bnow, manifests, health, db, restored, landed>>
        /\ dumps' = {d \in dumps : d.ts # bk[b].dump.ts} \cup {bk[b].dump}
    BY <1>3 DEF UploadDump
  <2> HIDE DEF x
  <2>3. dumps' = dumps \cup {bk[b].dump} BY <1>0, <2>2 DEF RunSound
  <2>4. bk'[b] = x /\ \A c \in Backers : c # b => bk'[c] = bk[c] BY <2>1 DEF BackupInv, BackupType
  <2>5. RunSound(b)' BY <1>0, <1>1, <2>1, <2>2, <2>3, <2>4 DEF RunSound
  <2>6. DrillPrunes' => DrillPrunes /\ bk'["drill"] = bk["drill"] BY <2>1, <2>4 DEF DrillPrunes
  <2>7. Complete \subseteq Complete' BY <2>2, <2>3 DEF Complete
  <2>8. LandedSound' BY <2>2, <2>6, <2>7 DEF BackupInv, LandedSound
  <2>9. Keeps /\ manifests' \subseteq Nat /\ landed' \in BOOLEAN
    BY <2>2, <2>3 DEF Keeps, BackupInv, BackupType
  <2> QED BY <1>2, <2>1, <2>2, <2>3, <2>5, <2>8, <2>9, OneBackerSteps
<1>4. CASE UploadManifest(b)
  <2> DEFINE x == AtPc(b, "pruneDumps")
  <2>1. x \in Backer /\ x.pc = "pruneDumps" /\ x.dump = bk[b].dump /\ bk' = [bk EXCEPT ![b] = x]
    BY <1>4, AtEdits DEF UploadManifest, InRun
  <2>2. /\ bk[b].pc = "manifest" /\ UNCHANGED <<bnow, dumps, health, db, restored>>
        /\ manifests' = manifests \cup {bk[b].dump.ts} /\ landed' = (landed \/ b # "drill")
    BY <1>4 DEF UploadManifest
  <2> HIDE DEF x
  <2>4. bk'[b] = x /\ \A c \in Backers : c # b => bk'[c] = bk[c] BY <2>1 DEF BackupInv, BackupType
  <2>5. RunSound(b)' BY <1>0, <1>1, <2>1, <2>2, <2>4 DEF RunSound
  <2>6. DrillPrunes' => DrillPrunes /\ bk'["drill"] = bk["drill"] BY <2>1, <2>4 DEF DrillPrunes
  <2>7. Complete \subseteq Complete' BY <2>2 DEF Complete
  <2>8. LandedSound'
    <3>1. CASE b = "drill"
      <4>1. landed' = landed BY <2>2, <3>1 DEF BackupInv, BackupType
      <4> QED BY <2>2, <2>6, <2>7, <4>1 DEF BackupInv, LandedSound
    <3>2. CASE b # "drill"
      <4>1. bk[b].dump \in Complete' BY <1>0, <2>2, <3>2 DEF RunSound, Complete
      <4> QED BY <1>1, <2>2, <2>6, <4>1 DEF LandedSound
    <3> QED BY <3>1, <3>2
  <2>9. Keeps /\ manifests' \subseteq Nat /\ landed' \in BOOLEAN
    BY <1>1, <2>2 DEF Keeps, BackupInv, BackupType
  <2> QED BY <1>2, <2>1, <2>2, <2>5, <2>8, <2>9, OneBackerSteps
<1> QED BY <1>3, <1>4

LEMMA PruningIsGentle ==
  ASSUME BackupInv, NEW b \in Backers, NEW ts \in Nat
  PROVE  /\ bnow <= ts + 2 * Period + MaxRun => Fresh(b, ts)
         /\ bnow <= ts + 2 * MaxRun /\ b = "drill" => Fresh(b, ts)
         /\ bnow <= ts + MaxRun => Fresh(b, ts)
BY BackupAssumption DEF Fresh, Kept, BackupInv, BackupType

LEMMA PrunesKeepBackups ==
  ASSUME BackupInv, NEW b \in Backers, PruneDumps(b) \/ PruneManifests(b)
  PROVE  BackupInv'
<1>0. Running(b) /\ RunSound(b) BY DEF PruneDumps, PruneManifests, Running, InRun, BackupInv
<1>1. /\ bk[b].dump \in DumpRec /\ bk[b].dump.ts \in Nat \ {0} /\ bk[b].dump.ts <= bnow
      /\ bnow <= bk[b].dump.ts + MaxRun /\ bnow \in Nat
      /\ DrillPrunes => bk["drill"].dump.ts <= bk[b].dump.ts + MaxRun
  BY <1>0, OwnDump
<1>2. \A c \in Backers \ {b} : Running(c) => bk[b].dump.ts # bk[c].dump.ts BY <1>0 DEF BackupInv, NamesDiffer
<1>3. /\ bk[b].pc \in {"pruneDumps", "pruneManifests"} /\ UNCHANGED <<bnow, health, db, restored>>
      /\ dumps' \subseteq dumps /\ manifests' \subseteq manifests
      /\ \A d \in dumps : Fresh(b, d.ts) => d \in dumps'
      /\ \A ts \in manifests : Fresh(b, ts) => ts \in manifests'
  BY DEF PruneDumps, PruneManifests
<1>4. Keeps
  <2>1. \A d \in dumps : d.ts \in Nat BY DEF BackupInv, BackupType, DumpRec
  <2>2. \A ts \in manifests : ts \in Nat BY DEF BackupInv, BackupType
  <2> QED BY <1>3, <2>1, <2>2, PruningIsGentle DEF Keeps
<1>5. bk[b].dump \in dumps' /\ bk[b].dump.ts \in manifests'
  <2>1. Fresh(b, bk[b].dump.ts) BY <1>1, PruningIsGentle
  <2>2. bk[b].dump \in dumps /\ bk[b].dump.ts \in manifests BY <1>0, <1>3 DEF RunSound
  <2> QED BY <1>3, <2>1, <2>2
<1>6. PICK pc \in {"pruneManifests", "ended"} :
        /\ Steps(b, pc) /\ (pc = "ended" <=> bk[b].pc = "pruneManifests")
        /\ IF pc = "ended" THEN landed' = landed ELSE landed' = (landed /\ b # "drill")
  BY DEF PruneDumps, PruneManifests
<1> DEFINE x == AtPc(b, pc)
<1>7. x \in Backer /\ x.pc = pc /\ x.dump = bk[b].dump /\ bk' = [bk EXCEPT ![b] = x]
  BY <1>6, AtEdits DEF InRun
<1> HIDE DEF x
<1>8. bk'[b] = x /\ \A c \in Backers : c # b => bk'[c] = bk[c] BY <1>7 DEF BackupInv, BackupType
<1>9. RunSound(b)' BY <1>0, <1>1, <1>3, <1>5, <1>7, <1>8 DEF RunSound
<1>10. LandedSound'
  <2> SUFFICES ASSUME landed' PROVE LandedSound' BY DEF LandedSound
  <2>1. CASE b # "drill"
    <3>1. bk[b].dump \in Complete' BY <1>0, <1>5, <2>1 DEF RunSound, Complete
    <3>2. DrillPrunes' => DrillPrunes /\ bk'["drill"] = bk["drill"] BY <1>8, <2>1 DEF DrillPrunes
    <3> QED BY <1>1, <1>3, <3>1, <3>2 DEF LandedSound
  <2>2. CASE b = "drill"
    <3>1. pc = "ended" /\ landed /\ DrillPrunes BY <1>6, <2>2 DEF DrillPrunes
    <3>2. PICK d \in Complete : d.ts <= bnow /\ bk["drill"].dump.ts <= d.ts + MaxRun
      BY <3>1 DEF BackupInv, LandedSound
    <3>3. d.ts \in Nat /\ d \in dumps /\ d.ts \in manifests /\ d.of = "production"
      BY DEF Complete, BackupInv, BackupType, DumpRec
    <3>4. bnow <= d.ts + 2 * MaxRun BY <1>1, <2>2, <3>2, <3>3, BackupAssumption
    <3>5. d \in Complete' BY <1>3, <2>2, <3>3, <3>4, PruningIsGentle DEF Complete
    <3>6. ~DrillPrunes' BY <1>7, <1>8, <2>2, <3>1 DEF DrillPrunes
    <3> QED BY <1>3, <3>2, <3>5, <3>6 DEF LandedSound
  <2> QED BY <2>1, <2>2
<1>11. manifests' \subseteq Nat /\ landed' \in BOOLEAN BY <1>3, <1>6 DEF BackupInv, BackupType
<1> QED BY <1>2, <1>3, <1>4, <1>7, <1>9, <1>10, <1>11, OneBackerSteps

LEMMA RestoresKeepBackups ==
  ASSUME BackupInv, BeginRestore \/ \E d \in dumps : EndRestore(d)
  PROVE  BackupInv'
<1>1. /\ UNCHANGED <<bnow, dumps, manifests, bk, health, landed>> /\ (restored => restored')
      /\ db' \in {"live", "restoring", "half"} /\ restored' \in BOOLEAN /\ RestoreSound'
  BY DEF BeginRestore, EndRestore, BackupInv, BackupType, RestoreSound
<1>2. BackupType' BY <1>1 DEF BackupInv, BackupType
<1>3. Complete' = Complete BY <1>1 DEF Complete
<1>4. HealthSound' /\ LandedSound' BY <1>1, <1>3 DEF BackupInv, HealthSound, LandedSound, DrillPrunes
<1>5. NamesDiffer' /\ \A b \in Backers : RunSound(b)'
  BY <1>1 DEF BackupInv, NamesDiffer, RunSound, Running
<1> QED BY <1>1, <1>2, <1>4, <1>5 DEF BackupInv

LEMMA BackupTicksKeepBackups ==
  ASSUME BackupInv, BackupTick
  PROVE  BackupInv'
<1>1. /\ UNCHANGED <<dumps, manifests, bk, health, db, restored, landed>>
      /\ bnow \in Nat \ {0} /\ bnow' = bnow + 1 /\ bnow' \in Nat \ {0}
      /\ \A b \in Backers : bk[b].dump # NoDump => bnow - bk[b].dump.ts < MaxRun
  BY DEF BackupTick, BackupInv, BackupType
<1>2. BackupType' /\ RestoreSound' BY <1>1 DEF BackupInv, BackupType, RestoreSound
<1>3. Complete' = Complete /\ \A d \in Complete : d.ts \in Nat
  BY <1>1 DEF Complete, BackupInv, BackupType, DumpRec
<1>4. HealthSound'
  <2> SUFFICES ASSUME health # Long PROVE HealthSound' BY <1>1 DEF HealthSound
  <2>1. health \in Nat BY DEF BackupInv, BackupType
  <2>2. health <= bnow' BY <1>1, <2>1 DEF BackupInv, HealthSound
  <2>3. bnow' <= health + 2 * Period => bnow <= health + 2 * Period BY <1>1, <2>1, BackupAssumption
  <2>4. ASSUME bnow' <= health + 2 * Period
        PROVE  \E d \in Complete : d.ts <= bnow' /\ health <= d.ts + MaxRun /\ (d.whole \/ restored)
    <3>1. PICK d \in Complete : d.ts <= bnow /\ health <= d.ts + MaxRun /\ (d.whole \/ restored)
      BY <2>3, <2>4 DEF BackupInv, HealthSound
    <3>2. d.ts <= bnow' BY <1>1, <1>3, <3>1
    <3> QED BY <3>1, <3>2
  <2> QED BY <1>1, <1>3, <2>2, <2>4 DEF HealthSound
<1>5. LandedSound'
  <2> SUFFICES ASSUME landed PROVE LandedSound' BY <1>1 DEF LandedSound
  <2>1. PICK d \in Complete : d.ts <= bnow /\ (DrillPrunes => bk["drill"].dump.ts <= d.ts + MaxRun)
    BY DEF BackupInv, LandedSound
  <2>2. d.ts <= bnow' /\ (DrillPrunes' <=> DrillPrunes) BY <1>1, <1>3, <2>1 DEF DrillPrunes
  <2> QED BY <1>1, <1>3, <2>1, <2>2 DEF LandedSound
<1>6. NamesDiffer' BY <1>1 DEF BackupInv, NamesDiffer, Running
<1>7. ASSUME NEW b \in Backers PROVE RunSound(b)'
  <2> SUFFICES ASSUME Running(b) PROVE RunSound(b)' BY <1>1 DEF RunSound, Running
  <2>1. RunSound(b) BY DEF BackupInv
  <2>2. bk[b].dump.ts \in Nat \ {0} /\ bk[b].dump.ts <= bnow BY OwnDump
  <2>3. bk[b].dump # NoDump BY <2>2 DEF NoDump
  <2>4. bk[b].dump.ts <= bnow' /\ bnow' <= bk[b].dump.ts + MaxRun BY <1>1, <2>2, <2>3, BackupAssumption
  <2> QED BY <1>1, <2>1, <2>4 DEF RunSound, Running
<1> QED BY <1>2, <1>4, <1>5, <1>6, <1>7 DEF BackupInv

LEMMA BackupStep == BackupInv /\ [BkNext]_bkvars => BackupInv'
<1> SUFFICES ASSUME BackupInv, [BkNext]_bkvars PROVE BackupInv' OBVIOUS
<1>1. CASE UNCHANGED bkvars BY <1>1, NothingMoves DEF bkvars
<1>2. CASE BkNext
  BY <1>2, WaitsKeepBackups, DrillEndsKeepsBackups, DumpsKeepBackups, UploadsKeepBackups, PrunesKeepBackups,
     RestoresKeepBackups, BackupTicksKeepBackups DEF BkNext
<1> QED BY <1>1, <1>2

(* As long as the health file says healthy, a dump of production with its     *)
(* manifest, no older than two periods and a run, lies on the remote, and is   *)
(* whole unless a restore ran; and a remote on which a backup has landed is    *)
(* never without one until a drill prunes there, for every period, retention   *)
(* and length of a run that BackupAssumption admits (check_health and          *)
(* backup::run of deploy/backup-tool).                                        *)
THEOREM HealthyBackupsRecover == BkSpec => []HealthyMeansRecoverable
<1>1. BkSpec => []BackupInv BY BackupInit, BackupStep, PTL DEF BkSpec
<1> QED BY <1>1, HealthyIsRecoverable, PTL

-----------------------------------------------------------------------------
(* Start-up.  A list of checks accepts what every one of them accepts; the     *)
(* loader accepts for the other containers what it accepts for the gateway;    *)
(* and how far serve has come says what it has found.                          *)

(* A list of checks has no verdict but its first error (lib.rs, load).          *)
LEMMA FirstOfList ==
  ASSUME NEW n \in Nat, NEW v, DOMAIN v = 1 .. n
  PROVE  \/ (\A i \in 1 .. n : v[i] = "accepted") /\ FirstOf(v) = "accepted"
         \/ \E i \in 1 .. n : v[i] # "accepted" /\ FirstOf(v) = v[i]
<1> DEFINE bad == {i \in DOMAIN v : v[i] # "accepted"}
<1>1. CASE bad = {} BY <1>1 DEF FirstOf
<1>2. CASE bad # {}
  <2>1. PICK x \in bad : \A y \in bad : ~(<<y, x>> \in OpToRel(<, Nat))
    <3>1. IsWellFoundedOn(OpToRel(<, Nat), Nat) BY NatLessThanWellFounded
    <3>2. bad \subseteq Nat OBVIOUS
    <3> QED BY <1>2, <3>1, <3>2, WFMin
  <2>2. \A y \in bad : x <= y
    <3>1. bad \subseteq Nat OBVIOUS
    <3> HIDE DEF bad
    <3>2. \A y \in bad : ~(y < x) /\ x \in Nat /\ y \in Nat BY <2>1, <3>1 DEF OpToRel
    <3> QED BY <3>2
  <2>3. PICK c : c = CHOOSE i \in bad : \A j \in bad : i <= j OBVIOUS
  <2>4. c \in bad BY <2>2, <2>3
  <2>5. FirstOf(v) = v[c] BY <1>2, <2>3 DEF FirstOf
  <2> QED BY <2>4, <2>5
<1> QED BY <1>1, <1>2

LEMMA FirstOfTwo == ASSUME NEW a, NEW b
  PROVE  /\ FirstOf(<<a, b>>) \in {"accepted", a, b}
         /\ FirstOf(<<a, b>>) = "accepted" <=> a = "accepted" /\ b = "accepted"
<1> DEFINE v == <<a, b>>
<1>1. DOMAIN v = 1 .. 2 /\ v[1] = a /\ v[2] = b OBVIOUS
<1>2. \A i \in 1 .. 2 : i \in {1, 2} OBVIOUS
<1> HIDE DEF v
<1>3. \/ (\A i \in 1 .. 2 : v[i] = "accepted") /\ FirstOf(v) = "accepted"
      \/ \E i \in 1 .. 2 : v[i] # "accepted" /\ FirstOf(v) = v[i]
  BY <1>1, FirstOfList
<1> QED BY <1>1, <1>2, <1>3 DEF v

LEMMA FirstOfThree == ASSUME NEW a, NEW b, NEW c
  PROVE  /\ FirstOf(<<a, b, c>>) \in {"accepted", a, b, c}
         /\ FirstOf(<<a, b, c>>) = "accepted" <=> a = "accepted" /\ b = "accepted" /\ c = "accepted"
<1> DEFINE v == <<a, b, c>>
<1>1. DOMAIN v = 1 .. 3 /\ v[1] = a /\ v[2] = b /\ v[3] = c OBVIOUS
<1>2. \A i \in 1 .. 3 : i \in {1, 2, 3} OBVIOUS
<1> HIDE DEF v
<1>3. \/ (\A i \in 1 .. 3 : v[i] = "accepted") /\ FirstOf(v) = "accepted"
      \/ \E i \in 1 .. 3 : v[i] # "accepted" /\ FirstOf(v) = v[i]
  BY <1>1, FirstOfList
<1> QED BY <1>1, <1>2, <1>3 DEF v

AuthNames == {"accepted", "NoAuthMethods", "NoWayIn", "AuthMethodDisabled", "AuthMethodNotConfigured"}
LEMMA ResolveVerdict ==
  ASSUME NEW d PROVE /\ Resolve(d) \in AuthNames
                     /\ Resolve(d) = "accepted" <=> (d.explicit => d.listed # {}) /\ (d.explicit => CanAuthenticate(d))
<1> DEFINE a == Unless(d.explicit => d.listed # {}, "NoAuthMethods")
           b == Unless(d.explicit => CanAuthenticate(d), "NoWayIn")
<1>1. /\ a \in {"accepted", "NoAuthMethods"} /\ (a = "accepted" <=> (d.explicit => d.listed # {}))
      /\ b \in {"accepted", "NoWayIn"} /\ (b = "accepted" <=> (d.explicit => CanAuthenticate(d)))
  BY DEF Unless
<1>2. Resolve(d) = FirstOf(<<a, b>>) BY DEF Resolve
<1> HIDE DEF a, b
<1> QED BY <1>1, <1>2, FirstOfTwo DEF AuthNames

BlocksFit(d) ==
  /\ d.human => Permits(d, "human_login")
  /\ d.op => Permits(d, "machine_tokens") \/ Permits(d, "human_login")
  /\ Permits(d, "machine_tokens") /\ d.explicit => d.op
  /\ Permits(d, "human_login") /\ d.explicit => d.human
  /\ d.human => d.op
LEMMA BlocksVerdict ==
  ASSUME NEW d PROVE WithBlocks(d) \in AuthNames /\ (WithBlocks(d) = "accepted" <=> BlocksFit(d))
<1> DEFINE D == "AuthMethodDisabled"  N == "AuthMethodNotConfigured"
           v == <<Unless(d.human => Permits(d, "human_login"), D),
                  Unless(d.op => Permits(d, "machine_tokens") \/ Permits(d, "human_login"), D),
                  Unless(Permits(d, "machine_tokens") /\ d.explicit => d.op, N),
                  Unless(Permits(d, "human_login") /\ d.explicit => d.human, N),
                  Unless(d.human => d.op, N)>>
<1>1. DOMAIN v = 1 .. 5 OBVIOUS
<1>2. /\ v[1] = Unless(d.human => Permits(d, "human_login"), D)
      /\ v[2] = Unless(d.op => Permits(d, "machine_tokens") \/ Permits(d, "human_login"), D)
      /\ v[3] = Unless(Permits(d, "machine_tokens") /\ d.explicit => d.op, N)
      /\ v[4] = Unless(Permits(d, "human_login") /\ d.explicit => d.human, N)
      /\ v[5] = Unless(d.human => d.op, N)
  OBVIOUS
<1>3. WithBlocks(d) = FirstOf(v) BY DEF WithBlocks
<1> HIDE DEF v
<1>4. \A i \in 1 .. 5 : i \in {1, 2, 3, 4, 5} OBVIOUS
<1>5. \A i \in 1 .. 5 : v[i] \in AuthNames BY <1>2, <1>4 DEF Unless, AuthNames
<1>6. (\A i \in 1 .. 5 : v[i] = "accepted") <=> BlocksFit(d)
  <2>1. (\A i \in 1 .. 5 : v[i] = "accepted") <=>
          v[1] = "accepted" /\ v[2] = "accepted" /\ v[3] = "accepted" /\ v[4] = "accepted" /\ v[5] = "accepted"
    BY <1>4
  <2>2. /\ v[1] = "accepted" <=> (d.human => Permits(d, "human_login"))
        /\ v[2] = "accepted" <=> (d.op => Permits(d, "machine_tokens") \/ Permits(d, "human_login"))
        /\ v[3] = "accepted" <=> (Permits(d, "machine_tokens") /\ d.explicit => d.op)
        /\ v[4] = "accepted" <=> (Permits(d, "human_login") /\ d.explicit => d.human)
        /\ v[5] = "accepted" <=> (d.human => d.op)
    BY <1>2 DEF Unless
  <2> QED BY <2>1, <2>2 DEF BlocksFit
<1>7. \/ (\A i \in 1 .. 5 : v[i] = "accepted") /\ FirstOf(v) = "accepted"
      \/ \E i \in 1 .. 5 : v[i] # "accepted" /\ FirstOf(v) = v[i]
  BY <1>1, FirstOfList
<1> QED BY <1>3, <1>5, <1>6, <1>7 DEF AuthNames

LoadNames == AuthNames \cup {"RetiredEnv", "InvalidValue", "UnresolvedPlaceholder", "StubHostInLivemode",
                             "LiteralSecret", "MissingProviderSetting", "FakeSnsCertBaseInLivemode"}
\* What the loader asks of a document, but for the environment and the block only the gateway reads.
DocumentFits(d) ==
  /\ RequireTextSecrets(d) /\ Resolve(d) = "accepted" /\ WithBlocks(d) = "accepted" /\ CheckUrls(d)
  /\ (d.live => LiteralSecrets(d) = {}) /\ ValidateLimits(d) /\ ValidProviders(d) /\ CheckFakeCerts(d)
  /\ ValidateOp(d) /\ ValidateHumanLogin(d)
LEMMA LoadVerdict ==
  ASSUME NEW b, NEW vars, NEW d
  PROVE  /\ Load(b, vars, d) \in LoadNames
         /\ Load(b, vars, d) = "accepted" <=>
              /\ CheckEnv(b, vars, d) /\ ReadBy(b, d) \subseteq vars /\ DocumentFits(d)
              /\ (ReadsSso(b) => ValidateSso(d))
<1> DEFINE I == "InvalidValue"
           v == <<Unless(CheckEnv(b, vars, d), "RetiredEnv"), Unless(RequireTextSecrets(d), I),
                  Unless(ReadBy(b, d) \subseteq vars, "UnresolvedPlaceholder"), Resolve(d), WithBlocks(d),
                  Unless(CheckUrls(d), "StubHostInLivemode"), Unless(d.live => LiteralSecrets(d) = {}, "LiteralSecret"),
                  Unless(ValidateLimits(d), I), Unless(ValidProviders(d), "MissingProviderSetting"),
                  Unless(CheckFakeCerts(d), "FakeSnsCertBaseInLivemode"), Unless(ValidateOp(d), I),
                  Unless(ValidateHumanLogin(d), I), Unless(ReadsSso(b) => ValidateSso(d), I)>>
<1>1. DOMAIN v = 1 .. 13 OBVIOUS
<1>2. /\ v[1] = Unless(CheckEnv(b, vars, d), "RetiredEnv") /\ v[2] = Unless(RequireTextSecrets(d), I)
      /\ v[3] = Unless(ReadBy(b, d) \subseteq vars, "UnresolvedPlaceholder")
      /\ v[4] = Resolve(d) /\ v[5] = WithBlocks(d) /\ v[6] = Unless(CheckUrls(d), "StubHostInLivemode")
      /\ v[7] = Unless(d.live => LiteralSecrets(d) = {}, "LiteralSecret") /\ v[8] = Unless(ValidateLimits(d), I)
      /\ v[9] = Unless(ValidProviders(d), "MissingProviderSetting")
      /\ v[10] = Unless(CheckFakeCerts(d), "FakeSnsCertBaseInLivemode") /\ v[11] = Unless(ValidateOp(d), I)
      /\ v[12] = Unless(ValidateHumanLogin(d), I) /\ v[13] = Unless(ReadsSso(b) => ValidateSso(d), I)
  OBVIOUS
<1>3. Load(b, vars, d) = FirstOf(v) BY DEF Load
<1> HIDE DEF v
<1>4. \A i \in 1 .. 13 : i \in {1, 2, 3, 4, 5, 6, 7, 8, 9, 10, 11, 12, 13} OBVIOUS
<1>5. \A i \in 1 .. 13 : v[i] \in LoadNames
  <2>1. ASSUME NEW ok, NEW e \in LoadNames PROVE Unless(ok, e) \in LoadNames BY DEF Unless, LoadNames, AuthNames
  <2>2. /\ "RetiredEnv" \in LoadNames /\ I \in LoadNames /\ "UnresolvedPlaceholder" \in LoadNames
        /\ "StubHostInLivemode" \in LoadNames /\ "LiteralSecret" \in LoadNames
        /\ "MissingProviderSetting" \in LoadNames /\ "FakeSnsCertBaseInLivemode" \in LoadNames
    BY DEF LoadNames
  <2>3. Resolve(d) \in LoadNames /\ WithBlocks(d) \in LoadNames BY ResolveVerdict, BlocksVerdict DEF LoadNames
  <2>4. /\ v[1] \in LoadNames /\ v[2] \in LoadNames /\ v[3] \in LoadNames /\ v[4] \in LoadNames /\ v[5] \in LoadNames
        /\ v[6] \in LoadNames /\ v[7] \in LoadNames /\ v[8] \in LoadNames /\ v[9] \in LoadNames /\ v[10] \in LoadNames
        /\ v[11] \in LoadNames /\ v[12] \in LoadNames /\ v[13] \in LoadNames
    BY <1>2, <2>1, <2>2, <2>3
  <2> QED BY <1>4, <2>4
<1>6. /\ v[1] = "accepted" <=> CheckEnv(b, vars, d)
      /\ v[2] = "accepted" <=> RequireTextSecrets(d)
      /\ v[3] = "accepted" <=> ReadBy(b, d) \subseteq vars
      /\ v[6] = "accepted" <=> CheckUrls(d)
      /\ v[7] = "accepted" <=> (d.live => LiteralSecrets(d) = {})
      /\ v[8] = "accepted" <=> ValidateLimits(d)
      /\ v[9] = "accepted" <=> ValidProviders(d)
      /\ v[10] = "accepted" <=> CheckFakeCerts(d)
      /\ v[11] = "accepted" <=> ValidateOp(d)
      /\ v[12] = "accepted" <=> ValidateHumanLogin(d)
      /\ v[13] = "accepted" <=> (ReadsSso(b) => ValidateSso(d))
  BY <1>2 DEF Unless
<1>7. (\A i \in 1 .. 13 : v[i] = "accepted") <=>
        /\ v[1] = "accepted" /\ v[2] = "accepted" /\ v[3] = "accepted" /\ v[4] = "accepted" /\ v[5] = "accepted"
        /\ v[6] = "accepted" /\ v[7] = "accepted" /\ v[8] = "accepted" /\ v[9] = "accepted" /\ v[10] = "accepted"
        /\ v[11] = "accepted" /\ v[12] = "accepted" /\ v[13] = "accepted"
  BY <1>4
<1>8. (\A i \in 1 .. 13 : v[i] = "accepted") <=>
        /\ CheckEnv(b, vars, d) /\ ReadBy(b, d) \subseteq vars /\ DocumentFits(d)
        /\ (ReadsSso(b) => ValidateSso(d))
  BY <1>2, <1>6, <1>7 DEF DocumentFits
<1>9. \/ (\A i \in 1 .. 13 : v[i] = "accepted") /\ FirstOf(v) = "accepted"
      \/ \E i \in 1 .. 13 : v[i] # "accepted" /\ FirstOf(v) = v[i]
  BY <1>1, FirstOfList
<1>10. "accepted" \in LoadNames BY DEF LoadNames, AuthNames
<1> QED BY <1>3, <1>5, <1>8, <1>9, <1>10

\* The other containers lack only what they do not read.
LEMMA OthersLoad ==
  ASSUME NEW e \in Environments, NEW d, Load("Gateway", e.gateway, d) = "accepted"
  PROVE  Load("Operator", e.others, d) = "accepted"
<1>1. /\ CheckEnv("Gateway", e.gateway, d) /\ ReadBy("Gateway", d) \subseteq e.gateway /\ DocumentFits(d) BY LoadVerdict
<1>2. /\ ReadBy("Gateway", d) = Referenced(d) /\ ReadBy("Operator", d) = Referenced(d) \ GatewayOnly
  BY DEF ReadBy, ReadsSecurity, ReadsSso, GatewayOnly
<1>3. e.others \cap RetiredVars \subseteq e.gateway /\ e.gateway \ GatewayOnly \subseteq e.others BY BootAssumption
<1>4. CheckEnv("Operator", e.others, d) BY <1>1, <1>3 DEF CheckEnv
<1>5. ReadBy("Operator", d) \subseteq e.others BY <1>1, <1>2, <1>3
<1>6. ~ReadsSso("Operator") BY DEF ReadsSso
<1> QED BY <1>1, <1>4, <1>5, <1>6, LoadVerdict

LEMMA CommandRuns ==
  ASSUME NEW who \in {"rotate-signing-key", "seed-console-client"}, NEW vars, NEW d,
         Load("Operator", vars, d) = "accepted", who = "rotate-signing-key" => OpServed(d),
         who = "seed-console-client" => HumanLoginServed(d)
  PROVE  Refusal(who, vars, d) = "accepted"
<1> DEFINE A == "auth_method_disabled"
           v == <<Load("Operator", vars, d), Unless(who = "worker" => Senders(d) # {}, "no sender"),
                  Unless(who = "mtn-subscribe-dlr" => "mtn_cm" \in d.providers, "no mtn_cm"),
                  Unless(who = "rotate-signing-key" => OpServed(d), A),
                  Unless(who = "provision-client" => MachineTokensServed(d), A),
                  Unless(who = "seed-console-client" => HumanLoginServed(d), A),
                  Unless(who = "register-client" => Permits(d, "keypair"), A)>>
<1>1. DOMAIN v = 1 .. 7 OBVIOUS
<1>2. /\ v[1] = Load("Operator", vars, d) /\ v[2] = Unless(who = "worker" => Senders(d) # {}, "no sender")
      /\ v[3] = Unless(who = "mtn-subscribe-dlr" => "mtn_cm" \in d.providers, "no mtn_cm")
      /\ v[4] = Unless(who = "rotate-signing-key" => OpServed(d), A)
      /\ v[5] = Unless(who = "provision-client" => MachineTokensServed(d), A)
      /\ v[6] = Unless(who = "seed-console-client" => HumanLoginServed(d), A)
      /\ v[7] = Unless(who = "register-client" => Permits(d, "keypair"), A)
  OBVIOUS
<1>3. Refusal(who, vars, d) = FirstOf(v) BY DEF Refusal
<1> HIDE DEF v
<1>4. /\ v[1] = "accepted" /\ v[2] = "accepted" /\ v[3] = "accepted" /\ v[4] = "accepted"
      /\ v[5] = "accepted" /\ v[6] = "accepted" /\ v[7] = "accepted"
  BY <1>2 DEF Unless
<1>5. \A i \in 1 .. 7 : i \in {1, 2, 3, 4, 5, 6, 7} OBVIOUS
<1>6. \A i \in 1 .. 7 : v[i] = "accepted" BY <1>4, <1>5
<1>7. \/ FirstOf(v) = "accepted"
      \/ \E i \in 1 .. 7 : v[i] # "accepted" /\ FirstOf(v) = v[i]
  BY <1>1, FirstOfList
<1> QED BY <1>3, <1>6, <1>7

\* What the loader accepts can be called: NoWayIn and with_blocks between them leave a door.
LEMMA AcceptedHasDoor ==
  ASSUME NEW d \in Documents, NEW vars, Load("Gateway", vars, d) = "accepted" PROVE Doors(d)
<1>1. Resolve(d) = "accepted" /\ WithBlocks(d) = "accepted" BY LoadVerdict DEF DocumentFits
<1>2. (d.explicit => CanAuthenticate(d)) /\ BlocksFit(d) BY <1>1, ResolveVerdict, BlocksVerdict
<1>3. CASE d.explicit BY <1>2, <1>3 DEF CanAuthenticate, BlocksFit, Doors, MachineTokensServed
<1>4. CASE ~d.explicit
  <2>1. Permits(d, "keypair") BY <1>4 DEF Permits, AuthMethods
  <2> QED BY <2>1 DEF Doors
<1> QED BY <1>3, <1>4

Seedable == {"client missing", "client mismatched"}
Mended == {"signing key", "client missing", "client mismatched", "machine client", "provider row"}
Whys == LoadNames \cup Mended \cup {"none", "HashPepper", "ServerKeys", "fake", "no provider", "jit role", "fault"}
BootPlaces == {"down", "failed", "loaded", "providers", "keys", "client", "doors", "serving"}
Uris == {0} \cup {d.client : d \in Documents}
ClientRec == [kind : {"none", "console", "machine"}, uris : Uris]
Carriers == {"orange_cm", "mtn_cm", "aws_sms"}
RowSets == [providers : SUBSET Carriers, key : BOOLEAN, clients : [RowIds -> ClientRec], role : BOOLEAN]
CommandRec == [who : Commands \cup {"none"}, id : RowIds \cup {"none"}, client : Uris]
BootType ==
  /\ written \in Documents /\ environ \in Environments /\ docEdits \in Nat
  /\ gateway \in [at : BootPlaces, doc : Documents, why : Whys]
  /\ rows \in RowSets /\ command \in CommandRec
\* What holds of the gateway g, given the rows.
Accepted(g, e) == Load("Gateway", e.gateway, g.doc) = "accepted"
Opened(g, e, keyed) ==
  /\ g.at \notin {"down", "failed"} => Accepted(g, e)
  /\ g.at \in {"keys", "client"} => OpServed(g.doc) /\ keyed
  /\ g.at \in {"doors", "serving"} /\ OpServed(g.doc) => keyed
  /\ g.at = "serving" => Doors(g.doc)
\* A stop on the console's row says whose id the document names.
Stopped(g, e) ==
  /\ g.at = "failed" /\ g.why \in Mended => Accepted(g, e)
  /\ g.at = "failed" /\ g.why = "signing key" => OpServed(g.doc)
  /\ g.at = "failed" /\ g.why \in Seedable => HumanLoginServed(g.doc) /\ g.doc.id \notin GeneratedIds
  /\ g.at = "failed" /\ g.why = "machine client" => g.doc.id \in GeneratedIds
Described(g, clients, unedited) ==
  g.at \in {"client", "doors", "serving"} /\ HumanLoginServed(g.doc) =>
    /\ clients[g.doc.id].kind = "console"
    /\ unedited => clients[g.doc.id].uris = g.doc.client
\* A generated id is a service's or nobody's, any other never a service's; and a
\* generated id that somebody has read from the document is a service's.
KindsSound(clients) ==
  \A i \in RowIds : clients[i].kind # IF i \in GeneratedIds THEN "console" ELSE "machine"
ServiceOf(clients, id) == id \in GeneratedIds => clients[id].kind = "machine"
IdsSound ==
  /\ ServiceOf(rows.clients, written.id) /\ ServiceOf(rows.clients, gateway.doc.id)
  /\ command.who # "none" => command.id \in RowIds /\ ServiceOf(rows.clients, command.id)
BootInv ==
  /\ BootType /\ Opened(gateway, environ, rows.key) /\ Stopped(gateway, environ)
  /\ Described(gateway, rows.clients, docEdits = 0) /\ KindsSound(rows.clients) /\ IdsSound
  /\ docEdits = 0 => /\ gateway.doc = written
                     /\ command.who # "none" => command.id = written.id /\ command.client = written.client

LEMMA WhysDiffer ==
  /\ "no door" \notin Whys /\ Seedable \subseteq Mended
  /\ \A w \in LoadNames \cup {"HashPepper", "ServerKeys"} : w \in Whys /\ w \notin Mended
  /\ \A w \in {"fake", "no provider", "jit role", "fault"} : w \in Whys /\ w \notin Mended
  /\ Mended \subseteq Whys /\ "signing key" \in Mended /\ "provider row" \in Mended /\ "machine client" \in Mended
  /\ "signing key" \notin Seedable \cup {"machine client", "provider row"}
  /\ "machine client" \notin Seedable \cup {"provider row"} /\ "provider row" \notin Seedable
<1>1. "no door" \notin Whys BY DEF Whys, LoadNames, AuthNames, Mended
<1>2. ASSUME NEW w \in LoadNames \cup {"HashPepper", "ServerKeys"} PROVE w \in Whys /\ w \notin Mended
  <2>1. w \in Whys BY <1>2 DEF Whys
  <2>2. w \notin Mended BY <1>2 DEF Mended, LoadNames, AuthNames
  <2> QED BY <2>1, <2>2
<1>3. ASSUME NEW w \in {"fake", "no provider", "jit role", "fault"} PROVE w \in Whys /\ w \notin Mended
  BY DEF Whys, Mended
<1> QED BY <1>1, <1>2, <1>3 DEF Whys, Mended, Seedable

LEMMA BootIsRight == BootInv => BootHolds
<1> SUFFICES ASSUME BootInv PROVE BootHolds OBVIOUS
<1>1. AnnouncedIsServed
  <2>1. gateway.why # "no door" BY WhysDiffer DEF BootInv, BootType
  <2>2. ASSUME gateway.at = "serving", NEW d, d = gateway.doc
        PROVE  /\ Permits(d, "keypair") \/ "machine" \in Realms(d)
               /\ Discovery(d) \cap {"machine_tokens", "human_login"} # {} => Grants(d) # {} /\ rows.key
               /\ "human_login" \in Discovery(d) =>
                    /\ rows.clients[d.id].kind = "console"
                    /\ docEdits = 0 => rows.clients[d.id].uris = d.client
    <3>1. "machine" \in Realms(d) <=> MachineTokensServed(d) BY DEF Realms
    <3>3. MachineTokensServed(d) => "client_credentials" \in Grants(d) BY DEF Grants
    <3>4. HumanLoginServed(d) => "authorization_code" \in Grants(d) BY DEF Grants
    <3>5. Grants(d) # {} => OpServed(d) BY DEF Grants, OpServed
    <3>6. "machine_tokens" \in Discovery(d) => MachineTokensServed(d) BY DEF Discovery
    <3>7. "human_login" \in Discovery(d) => HumanLoginServed(d) BY DEF Discovery
    <3>8. Doors(d) /\ (OpServed(d) => rows.key) BY <2>2 DEF BootInv, Opened
    <3>9. HumanLoginServed(d) =>
            rows.clients[d.id].kind = "console" /\ (docEdits = 0 => rows.clients[d.id].uris = d.client)
      BY <2>2 DEF BootInv, Described
    <3> QED BY <3>1, <3>3, <3>4, <3>5, <3>6, <3>7, <3>8, <3>9 DEF Doors
  <2> QED BY <2>1, <2>2 DEF AnnouncedIsServed
<1>2. ASSUME gateway.at = "failed" , gateway.why \in Mended
      PROVE  Load("Operator", environ.others, gateway.doc) = "accepted"
  BY <1>2, OthersLoad DEF BootInv, BootType, Stopped, Accepted
<1>3. StoppedServeCanBeMended
  <2>1. gateway.doc.id \in RowIds BY DEF BootInv, BootType, RowIds
  <2>2. ASSUME gateway.at = "failed", gateway.why = "signing key"
        PROVE  Refusal("rotate-signing-key", environ.others, gateway.doc) = "accepted"
    BY <1>2, <2>2, WhysDiffer, CommandRuns DEF BootInv, Stopped
  <2>3. ASSUME gateway.at = "failed", gateway.why \in Seedable
        PROVE  /\ Refusal("seed-console-client", environ.others, gateway.doc) = "accepted"
               /\ rows.clients[gateway.doc.id].kind # "machine"
    <3>1. HumanLoginServed(gateway.doc) /\ gateway.doc.id \notin GeneratedIds BY <2>3 DEF BootInv, Stopped
    <3>2. rows.clients[gateway.doc.id].kind # "machine" BY <2>1, <3>1 DEF BootInv, KindsSound
    <3> QED BY <1>2, <2>3, <3>1, <3>2, WhysDiffer, CommandRuns
  <2>4. ASSUME gateway.at = "failed", gateway.why = "machine client"
        PROVE  rows.clients[gateway.doc.id].kind = "machine"
    BY <2>4 DEF BootInv, Stopped, IdsSound, ServiceOf
  <2>5. ASSUME gateway.at = "failed", gateway.why = "provider row"
        PROVE  Load("Operator", environ.others, gateway.doc) = "accepted"
    BY <1>2, <2>5, WhysDiffer
  <2> QED BY <2>2, <2>3, <2>4, <2>5 DEF StoppedServeCanBeMended, Seedable
<1>4. ServicesKeepTheirRows BY DEF BootInv, KindsSound, ServicesKeepTheirRows, RowIds
<1> QED BY <1>1, <1>3, <1>4 DEF BootHolds

LEMMA GatewayEdits ==
  ASSUME NEW g \in [at : BootPlaces, doc : Documents, why : Whys], NEW at \in BootPlaces, NEW why \in Whys
  PROVE  /\ [g EXCEPT !.at = at] \in [at : {at}, doc : {g.doc}, why : {g.why}]
         /\ [g EXCEPT !.at = "failed", !.why = why] \in [at : {"failed"}, doc : {g.doc}, why : {why}]
OBVIOUS

\* The gateway moves on, or stops; nothing else changes.
LEMMA GatewayKeeps ==
  ASSUME BootInv, NEW h \in [at : BootPlaces, doc : Documents, why : Whys], gateway' = h,
         UNCHANGED <<written, environ, docEdits, rows, command>>, h.doc \in {gateway.doc, written},
         Opened(h, environ, rows.key), Stopped(h, environ), Described(h, rows.clients, docEdits = 0)
  PROVE  BootInv'
<1>1. ServiceOf(rows.clients, h.doc.id) BY DEF BootInv, IdsSound
<1>2. IdsSound' BY <1>1 DEF BootInv, IdsSound
<1>3. BootType' BY DEF BootInv, BootType
<1>4. docEdits = 0 => h.doc = written BY DEF BootInv
<1>5. (docEdits = 0)' <=> docEdits = 0 OBVIOUS
<1>6. Described(h, rows.clients, (docEdits = 0)') BY <1>5 DEF Described
<1> QED BY <1>2, <1>3, <1>4, <1>6 DEF BootInv

LEMMA StopKeeps ==
  ASSUME BootInv, NEW at, At(at), NEW why \in Whys, Stop(why),
         why \in Mended => Accepted(gateway, environ), why = "signing key" => OpServed(gateway.doc),
         why \in Seedable => HumanLoginServed(gateway.doc) /\ gateway.doc.id \notin GeneratedIds,
         why = "machine client" => gateway.doc.id \in GeneratedIds
  PROVE  BootInv'
<1>1. gateway \in [at : BootPlaces, doc : Documents, why : Whys] BY DEF BootInv, BootType
<1>2. PICK h : h = [gateway EXCEPT !.at = "failed", !.why = why] OBVIOUS
<1>3. "failed" \in BootPlaces BY DEF BootPlaces
<1>4. h \in [at : {"failed"}, doc : {gateway.doc}, why : {why}] BY <1>1, <1>2, <1>3, GatewayEdits
<1>5. h.at = "failed" /\ h.doc = gateway.doc /\ h.why = why BY <1>4
<1>6. h \in [at : BootPlaces, doc : Documents, why : Whys] BY <1>1, <1>3, <1>4
<1>7. Opened(h, environ, rows.key) /\ Described(h, rows.clients, docEdits = 0) BY <1>5 DEF Opened, Described
<1>8. Stopped(h, environ) BY <1>5 DEF Stopped, Accepted
<1> QED BY <1>2, <1>5, <1>6, <1>7, <1>8, GatewayKeeps DEF Stop, At

LEMMA GoKeeps ==
  ASSUME BootInv, NEW from, At(from), NEW at \in BootPlaces \ {"failed"}, GoTo(at),
         at # "down" => Accepted(gateway, environ), at \in {"keys", "client"} => OpServed(gateway.doc) /\ rows.key,
         at \in {"doors", "serving"} /\ OpServed(gateway.doc) => rows.key, at = "serving" => Doors(gateway.doc),
         at \in {"client", "doors", "serving"} /\ HumanLoginServed(gateway.doc) =>
           /\ rows.clients[gateway.doc.id].kind = "console"
           /\ docEdits = 0 => rows.clients[gateway.doc.id].uris = gateway.doc.client
  PROVE  BootInv'
<1>1. gateway \in [at : BootPlaces, doc : Documents, why : Whys] BY DEF BootInv, BootType
<1>2. PICK h : h = [gateway EXCEPT !.at = at] OBVIOUS
<1>3. gateway.why \in Whys /\ gateway.doc \in Documents BY <1>1
<1>4. h \in [at : {at}, doc : {gateway.doc}, why : {gateway.why}] BY <1>1, <1>2, <1>3, GatewayEdits
<1>5. h.at = at /\ h.doc = gateway.doc /\ h.why = gateway.why BY <1>4
<1>6. h \in [at : BootPlaces, doc : Documents, why : Whys] BY <1>3, <1>4
<1>7. Opened(h, environ, rows.key) BY <1>5 DEF Opened, Accepted
<1>8. Stopped(h, environ) BY <1>5 DEF Stopped, BootInv
<1>9. Described(h, rows.clients, docEdits = 0) BY <1>5 DEF Described
<1> QED BY <1>2, <1>5, <1>6, <1>7, <1>8, <1>9, GatewayKeeps DEF GoTo, At

LEMMA LoadKeeps == ASSUME BootInv, LoadDocument PROVE BootInv'
<1> DEFINE a == Load("Gateway", environ.gateway, written)
           b == Unless("short pepper" \notin written.flaws, "HashPepper")
           c == Unless(environ.keyFiles, "ServerKeys")
           verdict == FirstOf(<<a, b, c>>)
<1>1. b \in {"accepted", "HashPepper"} /\ c \in {"accepted", "ServerKeys"} /\ a \in LoadNames BY LoadVerdict DEF Unless
<1>2. /\ gateway' = [at |-> IF verdict = "accepted" THEN "loaded" ELSE "failed", doc |-> written, why |-> verdict]
      /\ UNCHANGED <<written, environ, docEdits, rows, command>>
  BY DEF LoadDocument, At
<1> HIDE DEF a, b, c
<1>3. verdict \in {"accepted", a, b, c} /\ (verdict = "accepted" => a = "accepted") BY FirstOfThree
<1> HIDE DEF verdict
<1>4. verdict \in LoadNames \cup {"HashPepper", "ServerKeys"} BY <1>1, <1>3 DEF LoadNames, AuthNames
<1>5. verdict \in Whys /\ verdict \notin Mended BY <1>4, WhysDiffer
<1>6. PICK at \in {"loaded", "failed"} : at = (IF verdict = "accepted" THEN "loaded" ELSE "failed") OBVIOUS
<1>7. PICK h : h = [at |-> at, doc |-> written, why |-> verdict] OBVIOUS
<1>8. h.at = at /\ h.doc = written /\ h.why = verdict BY <1>7
<1>9. written \in Documents /\ at \in BootPlaces BY DEF BootInv, BootType, BootPlaces
<1>10. h \in [at : BootPlaces, doc : Documents, why : Whys] BY <1>5, <1>7, <1>9
<1>11. Opened(h, environ, rows.key) BY <1>3, <1>6, <1>8 DEF Opened, Accepted, a
<1>12. Stopped(h, environ) BY <1>5, <1>8, WhysDiffer DEF Stopped
<1>13. Described(h, rows.clients, docEdits = 0) BY <1>6, <1>8 DEF Described
<1>14. gateway' = h BY <1>2, <1>6, <1>7
<1> QED BY <1>2, <1>8, <1>10, <1>11, <1>12, <1>13, <1>14, GatewayKeeps

LEMMA ServeKeeps ==
  ASSUME BootInv, \/ ResolveProviders \/ LoadSigningKeys \/ CheckConsoleClient \/ BuildSso \/ OpenDoors
                  \/ BootFails \/ StartAgain
  PROVE  BootInv'
<1> DEFINE id == gateway.doc.id
           row == /\ rows.clients[id].kind = "console"
                  /\ docEdits = 0 => rows.clients[id].uris = gateway.doc.client
<1>1. /\ gateway.at \notin {"down", "failed"} => Accepted(gateway, environ)
      /\ gateway.at \in {"keys", "client"} => OpServed(gateway.doc) /\ rows.key
      /\ gateway.at \in {"doors", "serving"} /\ OpServed(gateway.doc) => rows.key
      /\ gateway.at \in {"client", "doors", "serving"} /\ HumanLoginServed(gateway.doc) => row
  BY DEF BootInv, Opened, Described
<1>2. HumanLoginServed(gateway.doc) => OpServed(gateway.doc) BY DEF OpServed
<1>3. CASE ResolveProviders
  <2>1. At("loaded") /\ Accepted(gateway, environ) BY <1>1, <1>3 DEF ResolveProviders, At
  <2>2. CASE Stop("fake") BY <2>1, <2>2, WhysDiffer, StopKeeps
  <2>3. CASE Stop("provider row") BY <2>1, <2>3, WhysDiffer, StopKeeps
  <2>4. CASE Stop("no provider") BY <2>1, <2>4, WhysDiffer, StopKeeps
  <2>5. CASE GoTo("providers") BY <2>1, <2>5, GoKeeps DEF BootPlaces
  <2> QED BY <1>3, <2>2, <2>3, <2>4, <2>5 DEF ResolveProviders
<1>4. CASE LoadSigningKeys
  <2>1. At("providers") /\ Accepted(gateway, environ) BY <1>1, <1>4 DEF LoadSigningKeys, At
  <2>2. CASE ~OpServed(gateway.doc) /\ GoTo("doors") BY <1>2, <2>1, <2>2, GoKeeps DEF BootPlaces
  <2>3. CASE OpServed(gateway.doc) /\ Stop("signing key") BY <2>1, <2>3, WhysDiffer, StopKeeps
  <2>4. CASE OpServed(gateway.doc) /\ rows.key /\ GoTo("keys") BY <2>1, <2>4, GoKeeps DEF BootPlaces
  <2> QED BY <1>4, <2>2, <2>3, <2>4 DEF LoadSigningKeys
<1>5. CASE CheckConsoleClient
  <2>1. At("keys") /\ Accepted(gateway, environ) /\ OpServed(gateway.doc) /\ rows.key
    BY <1>1, <1>5 DEF CheckConsoleClient, At
  <2>2. id \in RowIds /\ ServiceOf(rows.clients, id) BY DEF BootInv, BootType, RowIds, IdsSound
  <2>3. rows.clients[id] \in ClientRec BY <2>2 DEF BootInv, BootType, RowSets
  <2>4. /\ rows.clients[id].kind \in {"none", "console"} => id \notin GeneratedIds
        /\ rows.clients[id].kind = "machine" => id \in GeneratedIds
    BY <2>2, <2>3 DEF ServiceOf, BootInv, KindsSound
  <2>5. CASE ~HumanLoginServed(gateway.doc) /\ GoTo("client") BY <2>1, <2>5, GoKeeps DEF BootPlaces
  <2>6. CASE rows.clients[id] = ConsoleRow(gateway.doc.client) /\ GoTo("client")
    <3>1. row BY <2>6 DEF ConsoleRow
    <3> QED BY <2>1, <2>6, <3>1, GoKeeps DEF BootPlaces
  <2>7. CASE HumanLoginServed(gateway.doc) /\ rows.clients[id].kind = "none" /\ Stop("client missing")
    <3>1. "client missing" \in Seedable BY DEF Seedable
    <3> QED BY <2>1, <2>4, <2>7, <3>1, WhysDiffer, StopKeeps
  <2>8. CASE HumanLoginServed(gateway.doc) /\ rows.clients[id].kind = "console" /\ Stop("client mismatched")
    <3>1. "client mismatched" \in Seedable BY DEF Seedable
    <3> QED BY <2>1, <2>4, <2>8, <3>1, WhysDiffer, StopKeeps
  <2>9. CASE rows.clients[id].kind = "machine" /\ Stop("machine client")
    BY <2>1, <2>4, <2>9, WhysDiffer, StopKeeps
  <2> QED BY <1>5, <2>5, <2>6, <2>7, <2>8, <2>9 DEF CheckConsoleClient
<1>6. CASE BuildSso
  <2>1. /\ At("client") /\ Accepted(gateway, environ) /\ rows.key
        /\ HumanLoginServed(gateway.doc) => row
    BY <1>1, <1>6 DEF BuildSso, At
  <2>2. CASE Stop("jit role") BY <2>1, <2>2, WhysDiffer, StopKeeps
  <2>3. CASE GoTo("doors") BY <2>1, <2>3, GoKeeps DEF BootPlaces
  <2> QED BY <1>6, <2>2, <2>3 DEF BuildSso
<1>7. CASE OpenDoors
  <2>1. /\ At("doors") /\ Accepted(gateway, environ) /\ (OpServed(gateway.doc) => rows.key)
        /\ HumanLoginServed(gateway.doc) => row
    BY <1>1, <1>7 DEF OpenDoors, At
  <2>2. Doors(gateway.doc) BY <2>1, AcceptedHasDoor DEF Accepted, BootInv, BootType
  <2>3. GoTo("serving") BY <1>7, <2>2 DEF OpenDoors
  <2> QED BY <2>1, <2>2, <2>3, GoKeeps DEF BootPlaces
<1>8. CASE BootFails BY <1>8, WhysDiffer, StopKeeps DEF BootFails
<1>9. CASE StartAgain BY <1>9, GoKeeps DEF StartAgain, BootPlaces
<1> QED BY <1>3, <1>4, <1>5, <1>6, <1>7, <1>8, <1>9

\* The rows grow: a key stays, a service's row stays, and a console's stays its own.
GoodClients(clients) ==
  /\ KindsSound(clients) /\ Described(gateway, clients, docEdits = 0)
  /\ \A i \in RowIds : rows.clients[i].kind = "machine" => clients[i].kind = "machine"
LEMMA RowsKeep ==
  ASSUME BootInv, NEW r \in RowSets, rows' = r, rows.key => r.key, GoodClients(r.clients),
         UNCHANGED <<written, environ, docEdits, gateway>>, command' \in {command, NoCommand}
  PROVE  BootInv'
<1>1. Opened(gateway, environ, r.key) BY DEF BootInv, Opened
<1>2. command' = command \/ command'.who = "none" BY DEF NoCommand
<1>3. command' \in CommandRec BY DEF BootInv, BootType, CommandRec, NoCommand, Uris
<1>4. GeneratedIds \subseteq RowIds BY DEF RowIds
<1>5. IdsSound' BY <1>2, <1>4 DEF BootInv, IdsSound, ServiceOf, GoodClients
<1>6. Described(gateway, r.clients, (docEdits = 0)') BY DEF GoodClients, Described
<1>7. docEdits = 0 => (command'.who # "none" => command'.id = written.id /\ command'.client = written.client)
  BY <1>2 DEF BootInv
<1>8. BootType' BY <1>3 DEF BootInv, BootType
<1> QED BY <1>1, <1>5, <1>6, <1>7, <1>8 DEF BootInv, GoodClients

\* No client's row changes.
LEMMA OtherRowsKeep ==
  ASSUME BootInv, NEW r \in RowSets, rows' = r, rows.key => r.key, r.clients = rows.clients,
         UNCHANGED <<written, environ, docEdits, gateway>>, command' \in {command, NoCommand}
  PROVE  BootInv'
<1>1. GoodClients(r.clients) BY DEF BootInv, GoodClients
<1> QED BY <1>1, RowsKeep

LEMMA ClientsKeep ==
  ASSUME BootInv, ReconcileClient \/ \E i \in GeneratedIds : ProvisionService(i)
  PROVE  BootInv'
<1>0. /\ BootType /\ rows \in RowSets /\ rows.clients \in [RowIds -> ClientRec]
      /\ KindsSound(rows.clients) /\ Described(gateway, rows.clients, docEdits = 0)
  BY DEF BootInv, BootType, RowSets
<1>1. gateway.doc.id \in RowIds BY <1>0 DEF BootType, RowIds
<1>2. ASSUME NEW i \in RowIds, NEW x \in ClientRec, CommandWrites(command.who, [rows EXCEPT !.clients[i] = x]),
             x.kind # IF i \in GeneratedIds THEN "console" ELSE "machine",
             rows.clients[i].kind = "machine" => x.kind = "machine",
             rows.clients[i].kind = "console" => x.kind = "console",
             docEdits = 0 /\ i = gateway.doc.id /\ x.kind = "console" => x.uris = gateway.doc.client
      PROVE  BootInv'
  <2>1. PICK r : r = [rows EXCEPT !.clients[i] = x] OBVIOUS
  <2>2. rows' = r /\ UNCHANGED <<written, environ, docEdits, gateway>> /\ command' = NoCommand
    BY <1>2, <2>1 DEF CommandWrites
  <2>4. r \in RowSets /\ r.clients = [rows.clients EXCEPT ![i] = x] /\ r.key = rows.key
    BY <1>0, <2>1 DEF RowSets
  <2>5. r.clients[i] = x /\ \A j \in RowIds : j # i => r.clients[j] = rows.clients[j] BY <1>0, <2>4
  <2>6. KindsSound(r.clients) BY <1>0, <1>2, <2>5 DEF KindsSound
  <2>7. Described(gateway, r.clients, docEdits = 0) BY <1>0, <1>1, <1>2, <2>5 DEF Described
  <2>8. \A j \in RowIds : rows.clients[j].kind = "machine" => r.clients[j].kind = "machine" BY <1>2, <2>5
  <2>9. GoodClients(r.clients) BY <2>6, <2>7, <2>8 DEF GoodClients
  <2> QED BY <2>2, <2>4, <2>9, RowsKeep
<1>3. CASE ReconcileClient
  <2>1. /\ command.who = "seed-console-client" /\ rows.clients[command.id].kind # "machine"
        /\ CommandWrites(command.who, [rows EXCEPT !.clients[command.id] = ConsoleRow(command.client)])
    BY <1>3 DEF ReconcileClient
  <2>2. /\ command.id \in RowIds /\ ServiceOf(rows.clients, command.id)
        /\ docEdits = 0 => gateway.doc = written /\ command.client = written.client
    BY <2>1 DEF BootInv, IdsSound
  <2>3. command.client \in Uris BY <1>0 DEF BootType, CommandRec
  <2>4. PICK x : x = ConsoleRow(command.client) OBVIOUS
  <2>5. x \in ClientRec /\ x.kind = "console" /\ x.uris = command.client BY <2>3, <2>4 DEF ConsoleRow, ClientRec
  <2>6. command.id \notin GeneratedIds BY <2>1, <2>2 DEF ServiceOf
  <2> QED BY <1>2, <2>1, <2>2, <2>4, <2>5, <2>6
<1>4. ASSUME NEW i \in GeneratedIds, ProvisionService(i) PROVE BootInv'
  <2>1. /\ rows.clients[i].kind = "none" /\ CommandWrites(command.who, [rows EXCEPT !.clients[i] = MachineRow])
    BY <1>4 DEF ProvisionService, CommandWrites
  <2>3. PICK x : x = MachineRow OBVIOUS
  <2>4. x \in ClientRec /\ x.kind = "machine" BY <2>3 DEF MachineRow, ClientRec, Uris
  <2>5. i \in RowIds BY DEF RowIds
  <2> QED BY <1>2, <2>1, <2>3, <2>4, <2>5
<1> QED BY <1>3, <1>4

LEMMA CommandsKeep ==
  ASSUME BootInv, \/ ActivateKey \/ CommandEnds \/ CreateRole
                  \/ \E who \in Commands : CommandLoads(who)
                  \/ \E p \in Receivers(written) \cup Senders(written) : SeedDispatch(p)
  PROVE  BootInv'
<1>0. BootType /\ rows \in RowSets BY DEF BootInv, BootType
<1>a. /\ [rows EXCEPT !.key = TRUE] \in RowSets /\ [rows EXCEPT !.key = TRUE].clients = rows.clients
      /\ [rows EXCEPT !.key = TRUE].key
      /\ [rows EXCEPT !.role = TRUE] \in RowSets /\ [rows EXCEPT !.role = TRUE].clients = rows.clients
      /\ [rows EXCEPT !.role = TRUE].key = rows.key
  BY <1>0 DEF RowSets
<1>1. CASE ActivateKey
  <2>1. PICK r : r = [rows EXCEPT !.key = TRUE] OBVIOUS
  <2>2. rows' = r /\ UNCHANGED <<written, environ, docEdits, gateway>> /\ command' = NoCommand
    BY <1>1, <2>1 DEF ActivateKey, CommandWrites
  <2> QED BY <1>a, <2>1, <2>2, OtherRowsKeep
<1>5. CASE CommandEnds
  <2>1. UNCHANGED <<rows, written, environ, docEdits, gateway>> /\ command' = NoCommand
    BY <1>5 DEF CommandEnds, CommandWrites
  <2> QED BY <1>0, <2>1, OtherRowsKeep
<1>2. CASE CreateRole
  <2>1. PICK r : r = [rows EXCEPT !.role = TRUE] OBVIOUS
  <2>2. rows' = r /\ UNCHANGED <<written, environ, docEdits, gateway, command>> BY <1>2, <2>1 DEF CreateRole
  <2> QED BY <1>a, <2>1, <2>2, OtherRowsKeep
<1>3. ASSUME NEW who \in Commands, CommandLoads(who) PROVE BootInv'
  <2>1. /\ command' = [who |-> who, id |-> written.id, client |-> written.client]
        /\ UNCHANGED <<written, environ, docEdits, rows, gateway>>
    BY <1>3 DEF CommandLoads
  <2>2. written.client \in Uris /\ written.id \in RowIds BY <1>0 DEF BootType, Uris, RowIds
  <2>3. /\ command' \in CommandRec /\ command'.client = written.client /\ command'.id = written.id
    BY <2>1, <2>2 DEF CommandRec
  <2>4. IdsSound' BY <2>1, <2>2, <2>3 DEF BootInv, IdsSound
  <2>5. Described(gateway, rows.clients, (docEdits = 0)') BY <2>1 DEF BootInv, Described
  <2> QED BY <2>1, <2>3, <2>4, <2>5 DEF BootInv, BootType
<1>4. ASSUME NEW p \in Receivers(written) \cup Senders(written), SeedDispatch(p) PROVE BootInv'
  <2>1. p \in Carriers BY DEF Receivers, Senders, Carriers
  <2>2. PICK ps : ps = rows.providers \cup {p} OBVIOUS
  <2>3. ps \in SUBSET Carriers BY <1>0, <2>1, <2>2 DEF RowSets
  <2>4. PICK r : r = [rows EXCEPT !.providers = ps] OBVIOUS
  <2>5. rows' = r /\ UNCHANGED <<written, environ, docEdits, gateway, command>>
    BY <1>4, <2>2, <2>4 DEF SeedDispatch
  <2>6. r \in RowSets /\ r.key = rows.key /\ r.clients = rows.clients BY <1>0, <2>3, <2>4 DEF RowSets
  <2> QED BY <2>5, <2>6, OtherRowsKeep
<1> QED BY <1>1, <1>2, <1>3, <1>4, <1>5

(* Starting and stopping, commands and edits of the document, as often as edits are allowed. *)
BootSpec == BtInit /\ [][BtNext]_btvars

(* Whatever documents are written and in whatever order commands run, a gateway that     *)
(* serves has a way in, a key for what it announces and a console's row for the sign-in   *)
(* of people; one that has accepted its document and stops can be mended by the command   *)
(* its error names; and no service's row becomes the console's (serve.rs, doors; gate.rs; *)
(* rotate_signing_key.rs; console_client.rs).                                             *)
THEOREM BootingHolds == BootSpec => []BootHolds
<1>1. BtInit => BootInv
  <2> SUFFICES ASSUME BtInit PROVE BootInv OBVIOUS
  <2>1. PICK rl \in BOOLEAN : rows = [providers |-> {}, key |-> FALSE,
                                      clients |-> [i \in RowIds |-> Unregistered], role |-> rl]
    BY DEF BtInit
  <2>2. Unregistered \in ClientRec /\ Unregistered.kind = "none" BY DEF Unregistered, ClientRec, Uris
  <2>3. rows \in RowSets /\ rows.clients = [i \in RowIds |-> Unregistered] BY <2>1, <2>2 DEF RowSets
  <2>4. gateway \in [at : BootPlaces, doc : Documents, why : Whys] /\ gateway.at = "down" /\ gateway.why = "none"
    BY DEF BtInit, BootPlaces, Whys
  <2>5. command \in CommandRec /\ command.who = "none" BY DEF BtInit, NoCommand, CommandRec, Uris
  <2>6. BootType BY <2>3, <2>4, <2>5 DEF BtInit, BootType
  <2>7. Opened(gateway, environ, rows.key) /\ Stopped(gateway, environ) /\ Described(gateway, rows.clients, docEdits = 0)
    BY <2>4 DEF Opened, Stopped, Described
  <2>8. gateway.doc = written /\ written.id \notin GeneratedIds BY DEF BtInit
  <2>9. KindsSound(rows.clients) BY <2>2, <2>3 DEF KindsSound
  <2>10. IdsSound BY <2>5, <2>8 DEF IdsSound, ServiceOf
  <2> QED BY <2>5, <2>6, <2>7, <2>8, <2>9, <2>10 DEF BootInv
<1>2. BootInv /\ [BtNext]_btvars => BootInv'
  <2> SUFFICES ASSUME BootInv, [BtNext]_btvars PROVE BootInv' OBVIOUS
  <2>1. CASE UNCHANGED btvars
    <3>1. UNCHANGED <<rows, written, environ, docEdits, gateway, command>> BY <2>1 DEF btvars
    <3>2. rows \in RowSets BY DEF BootInv, BootType
    <3> QED BY <3>1, <3>2, OtherRowsKeep
  <2>2. ASSUME NEW d \in Documents, EditDocument(d) PROVE BootInv'
    <3>1. /\ written' = d /\ docEdits' = docEdits + 1 /\ UNCHANGED <<environ, rows, gateway, command>>
          /\ d.id \in GeneratedIds => rows.clients[d.id].kind # "none"
      BY <2>2 DEF EditDocument, CanBeWritten
    <3>2. BootType' /\ docEdits' # 0 BY <3>1 DEF BootInv, BootType
    <3>3. ServiceOf(rows.clients, d.id)
      <4> SUFFICES ASSUME d.id \in GeneratedIds PROVE rows.clients[d.id].kind = "machine" BY DEF ServiceOf
      <4>1. d.id \in RowIds /\ rows.clients[d.id].kind # "console" BY DEF BootInv, KindsSound, RowIds
      <4>2. rows.clients[d.id] \in ClientRec BY <4>1 DEF BootInv, BootType, RowSets
      <4>3. rows.clients[d.id].kind # "none" BY <3>1
      <4> QED BY <4>1, <4>2, <4>3 DEF ClientRec
    <3>4. IdsSound' BY <3>1, <3>3 DEF BootInv, IdsSound
    <3>5. Described(gateway, rows.clients, (docEdits = 0)') BY <3>1, <3>2 DEF BootInv, Described
    <3> QED BY <3>1, <3>2, <3>4, <3>5 DEF BootInv
  <2> QED BY <2>1, <2>2, LoadKeeps, ServeKeeps, ClientsKeep, CommandsKeep DEF BtNext
<1> QED BY <1>1, <1>2, BootIsRight, PTL DEF BootSpec

-----------------------------------------------------------------------------
(* Texts.  A body is a sequence of characters and stays one when it is         *)
(* normalised, so each of its characters costs one unit or two.  Filling parts *)
(* one after the other is then as good as any packing: the parts filled are    *)
(* the fewest for every beginning of the body (PackingInv), since a part that  *)
(* is left could not have held the character after it.                         *)

\* The state a loop ends in is one of its states.
LEMMA RunInside ==
  ASSUME NEW S, NEW steps, NEW n \in Nat, Len(steps) = n, NEW base \in S,
         \A i \in 1 .. n : steps[i] \in [S -> S]
  PROVE  Run(steps, base) \in S
<1>1. Loops(Course(steps, base), steps, base, S, n) BY CourseOf, Zenon
<1>2. Course(steps, base) \in [0 .. n -> S] /\ n \in 0 .. n BY <1>1 DEF Loops
<1>3. Run(steps, base) = Course(steps, base)[n] BY DEF Run
<1> QED BY <1>2, <1>3

LEMMA NfcIsText == ASSUME NEW s \in Seq(Glyphs) PROVE Nfc(s) \in Seq(Glyphs)
<1> DEFINE S == Seq(Glyphs)
           steps == [i \in DOMAIN s |-> [out \in S |-> Compose(out, s[i])]]
<1>1. PICK n \in Nat : n = Len(s) /\ DOMAIN s = 1 .. n OBVIOUS
<1>2. DOMAIN steps = 1 .. n /\ Len(steps) = n
  <2>1. DOMAIN steps = 1 .. n BY <1>1
  <2> QED BY <1>1, <2>1
<1>3. ASSUME NEW i \in 1 .. n PROVE steps[i] \in [S -> S]
  <2>1. ASSUME NEW out \in S PROVE Compose(out, s[i]) \in S
    <3>1. s[i] \in Glyphs /\ "plain" \in Glyphs BY <1>1 DEF Glyphs
    <3>2. Append(out, s[i]) \in S BY <3>1
    <3>3. out # <<>> => Append(Front(out), "plain") \in S
      <4>1. out # <<>> => Front(out) \in S BY DEF Front
      <4> QED BY <3>1, <4>1
    <3> QED BY <3>2, <3>3 DEF Compose
  <2>2. steps[i] = [out \in S |-> Compose(out, s[i])] BY <1>1
  <2> QED BY <2>1, <2>2
<1>4. <<>> \in S OBVIOUS
<1>5. PICK st : st = steps OBVIOUS
<1>6. Nfc(s) = Run(st, <<>>) BY <1>5 DEF Nfc
<1>7. Len(st) = n /\ \A i \in 1 .. n : st[i] \in [S -> S] BY <1>2, <1>3, <1>5
<1> HIDE DEF S, steps
<1>8. Run(st, <<>>) \in S BY <1>4, <1>7, RunInside, Zenon
<1> QED BY <1>6, <1>8 DEF S

LEMMA ReplacedIsText ==
  ASSUME NEW s \in Seq(Glyphs), NEW table, \A c \in DOMAIN table : table[c] \in Seq(Glyphs)
  PROVE  Replaced(s, table) \in Seq(Glyphs)
<1> DEFINE S == Seq(Glyphs)
           steps == [i \in DOMAIN s |-> [out \in S |-> out \o InPlaceOf(s[i], table)]]
<1>1. PICK n \in Nat : n = Len(s) /\ DOMAIN s = 1 .. n OBVIOUS
<1>2. DOMAIN steps = 1 .. n /\ Len(steps) = n
  <2>1. DOMAIN steps = 1 .. n BY <1>1
  <2> QED BY <1>1, <2>1
<1>3. ASSUME NEW i \in 1 .. n PROVE steps[i] \in [S -> S]
  <2>1. InPlaceOf(s[i], table) \in S
    <3>1. s[i] \in Glyphs BY <1>1
    <3>2. <<s[i]>> \in S BY <3>1
    <3> QED BY <3>2 DEF InPlaceOf
  <2>2. PICK t : t = InPlaceOf(s[i], table) OBVIOUS
  <2>3. \A out \in S : out \o t \in S BY <2>1, <2>2
  <2>4. steps[i] = [out \in S |-> out \o InPlaceOf(s[i], table)] BY <1>1
  <2>5. steps[i] = [out \in S |-> out \o t] BY <2>2, <2>4
  <2> QED BY <2>3, <2>5
<1>4. <<>> \in S OBVIOUS
<1>5. PICK st : st = steps OBVIOUS
<1>6. Replaced(s, table) = Run(st, <<>>) BY <1>5 DEF Replaced
<1>7. Len(st) = n /\ \A i \in 1 .. n : st[i] \in [S -> S] BY <1>2, <1>3, <1>5
<1> HIDE DEF S, steps
<1>8. Run(st, <<>>) \in S BY <1>4, <1>7, RunInside, Zenon
<1> QED BY <1>6, <1>8 DEF S

LEMMA NormalIsText == ASSUME NEW s \in Seq(Glyphs) PROVE Normalise(s) \in Seq(Glyphs)
<1>1. Nfc(s) \in Seq(Glyphs) BY NfcIsText
<1>2. ASSUME NEW c \in DOMAIN Substitutions PROVE Substitutions[c] \in Seq(Glyphs)
  <2>1. PICK x : x = "plain" OBVIOUS
  <2>2. x \in Glyphs BY <2>1 DEF Glyphs
  <2>3. <<x>> \in Seq(Glyphs) /\ <<x, x, x>> \in Seq(Glyphs) /\ <<>> \in Seq(Glyphs) BY <2>2
  <2>4. Substitutions = [quote |-> <<x>>, dots |-> <<x, x, x>>, blank |-> <<>>] BY <2>1 DEF Substitutions
  <2>5. c \in {"quote", "dots", "blank"} BY <2>4
  <2>6. Substitutions.quote = <<x>> /\ Substitutions.dots = <<x, x, x>> /\ Substitutions.blank = <<>> BY <2>4
  <2>7. CASE c = "quote" BY <2>3, <2>6, <2>7
  <2>8. CASE c = "dots" BY <2>3, <2>6, <2>8
  <2>9. CASE c = "blank" BY <2>3, <2>6, <2>9
  <2> QED BY <2>5, <2>7, <2>8, <2>9
<1>3. Replaced(Nfc(s), Substitutions) \in Seq(Glyphs) BY <1>1, <1>2, ReplacedIsText
<1> QED BY <1>3 DEF Normalise

\* What characters cost: one unit, or two.
Costs(costs, n) == costs \in [1 .. n -> {1, 2}] /\ Len(costs) = n

LEMMA TotalsOf ==
  ASSUME NEW n \in Nat, NEW costs, Costs(costs, n)
  PROVE  /\ Totals(costs) \in [0 .. n -> Nat] /\ Totals(costs)[0] = 0
         /\ \A i \in 1 .. n : Totals(costs)[i] = Totals(costs)[i - 1] + costs[i]
         /\ Sum(costs) = Totals(costs)[n]
<1>1. PICK st : st = Adding(costs) OBVIOUS
<1>2. DOMAIN costs = 1 .. n /\ \A i \in 1 .. n : costs[i] \in Nat BY DEF Costs
<1>3. DOMAIN st = 1 .. n /\ Len(st) = n
  <2>1. DOMAIN st = 1 .. n BY <1>1, <1>2 DEF Adding
  <2> QED BY <1>1, <1>2, <2>1 DEF Adding
<1>4. \A i \in 1 .. n : st[i] = [k \in Nat |-> k + costs[i]] BY <1>1, <1>2 DEF Adding
<1>5. ASSUME NEW i \in 1 .. n PROVE st[i] \in [Nat -> Nat]
  <2>1. PICK k \in Nat : k = costs[i] BY <1>2
  <2>2. st[i] = [m \in Nat |-> m + k] BY <1>4, <2>1
  <2>3. \A m \in Nat : m + k \in Nat BY <2>1
  <2> QED BY <2>2, <2>3
<1>6. PICK c : c = Course(st, 0) OBVIOUS
<1>7. Loops(c, st, 0, Nat, n)
  <2>1. 0 \in Nat OBVIOUS
  <2> QED BY <1>3, <1>5, <1>6, <2>1, CourseOf, Zenon
<1>8. c \in [0 .. n -> Nat] /\ c[0] = 0 /\ \A i \in 1 .. n : c[i] = st[i][c[i - 1]] BY <1>7 DEF Loops
<1>9. ASSUME NEW i \in 1 .. n PROVE c[i] = c[i - 1] + costs[i]
  <2>1. c[i - 1] \in Nat BY <1>8
  <2>2. c[i] = st[i][c[i - 1]] BY <1>8
  <2> QED BY <1>4, <2>1, <2>2
<1>10. Totals(costs) = c BY <1>1, <1>6 DEF Totals
<1>11. Sum(costs) = c[n] BY <1>1, <1>3, <1>6 DEF Sum, Run
<1> QED BY <1>8, <1>9, <1>10, <1>11

LEMMA LowestOf ==
  ASSUME NEW T, T \subseteq Nat, T # {}
  PROVE  Min(T) \in T /\ \A y \in T : Min(T) <= y
<1>1. \E x \in T : \A y \in T : x <= y BY LeastOf
<1> QED BY <1>1 DEF Min

\* What never falls from one step to the next is at its highest at the end.
LEMMA Climbs ==
  ASSUME NEW n \in Nat, NEW f \in [0 .. n -> Nat], \A i \in 1 .. n : f[i - 1] <= f[i]
  PROVE  \A a, b \in 0 .. n : a <= b => f[a] <= f[b]
<1> SUFFICES ASSUME NEW a \in 0 .. n PROVE \A b \in 0 .. n : a <= b => f[a] <= f[b] OBVIOUS
<1> DEFINE T == {b \in 0 .. n : a <= b => f[a] <= f[b]}
<1>1. 0 \in T OBVIOUS
<1>2. ASSUME NEW i \in 1 .. n, i - 1 \in T PROVE i \in T
  <2>1. i \in 0 .. n /\ i - 1 \in 0 .. n OBVIOUS
  <2>2. f[i - 1] <= f[i] /\ f[a] \in Nat /\ f[i] \in Nat /\ f[i - 1] \in Nat BY <2>1
  <2>3. CASE a <= i - 1 BY <1>2, <2>1, <2>2, <2>3
  <2>4. CASE ~(a <= i - 1)
    <3>1. a <= i => a = i BY <2>4
    <3> QED BY <2>1, <2>2, <3>1
  <2> QED BY <2>3, <2>4
<1> HIDE DEF T
<1>3. 0 .. n \subseteq T BY <1>1, <1>2, AllAlong
<1> QED BY <1>3 DEF T

\* f counts the fewest parts for the first i characters and for fewer of them.
CountsUpTo(f, costs, size, i) ==
  /\ f[0] = 0
  /\ \A k \in 1 .. i : /\ \A j \in Begins(costs, size, k) : f[k] <= 1 + f[j]
                       /\ \E j \in Begins(costs, size, k) : f[k] = 1 + f[j]

LEMMA BeginsThere ==
  ASSUME NEW n \in Nat, NEW costs, Costs(costs, n), NEW size \in Nat, size >= 2, NEW i \in 1 .. n
  PROVE  i - 1 \in Begins(costs, size, i) /\ Begins(costs, size, i) \subseteq 0 .. i - 1
<1>1. PICK t : t = Totals(costs) OBVIOUS
<1>2. t \in [0 .. n -> Nat] /\ t[i] = t[i - 1] + costs[i] BY <1>1, TotalsOf
<1>3. t[i - 1] \in Nat /\ costs[i] \in {1, 2} BY <1>2 DEF Costs
<1>4. t[i] - t[i - 1] <= size BY <1>2, <1>3
<1> QED BY <1>1, <1>4 DEF Begins

LEMMA LeastCounts ==
  ASSUME NEW n \in Nat, NEW costs, Costs(costs, n), NEW size \in Nat, size >= 2
  PROVE  LeastTable(costs, size) \in [0 .. n -> Nat] /\ CountsUpTo(LeastTable(costs, size), costs, size, n)
<1> DEFINE S == [0 .. n -> Nat]
           steps == [i \in DOMAIN costs |-> [least \in [0 .. Len(costs) -> Nat] |->
                       [least EXCEPT ![i] = 1 + Min({least[j] : j \in Begins(costs, size, i)})]]]
           base == [i \in 0 .. n |-> 0]
<1>1. DOMAIN costs = 1 .. n /\ Len(costs) = n BY DEF Costs
<1>2. DOMAIN steps = 1 .. n /\ Len(steps) = n
  <2>1. DOMAIN steps = 1 .. n BY <1>1
  <2> QED BY <2>1
<1>3. \A i \in 1 .. n : steps[i] = [least \in S |->
                       [least EXCEPT ![i] = 1 + Min({least[j] : j \in Begins(costs, size, i)})]]
  BY <1>1
<1>4. ASSUME NEW i \in 1 .. n, NEW least \in S
      PROVE  LET low == Min({least[j] : j \in Begins(costs, size, i)})
             IN /\ low \in Nat /\ \A j \in Begins(costs, size, i) : low <= least[j]
                /\ \E j \in Begins(costs, size, i) : low = least[j]
  <2> DEFINE D == {least[j] : j \in Begins(costs, size, i)}
  <2>1. i - 1 \in Begins(costs, size, i) /\ Begins(costs, size, i) \subseteq 0 .. n
    <3>1. i - 1 \in Begins(costs, size, i) /\ Begins(costs, size, i) \subseteq 0 .. i - 1 BY BeginsThere
    <3>2. 0 .. i - 1 \subseteq 0 .. n OBVIOUS
    <3> QED BY <3>1, <3>2
  <2>2. D \subseteq Nat /\ D # {} BY <2>1
  <2>3. Min(D) \in D /\ \A y \in D : Min(D) <= y
    <3> HIDE DEF D
    <3> QED BY <2>2, LowestOf
  <2>4. PICK low : low = Min(D) OBVIOUS
  <2>5. low \in Nat /\ (\A j \in Begins(costs, size, i) : low <= least[j])
        /\ (\E j \in Begins(costs, size, i) : low = least[j]) BY <2>2, <2>3, <2>4
  <2> QED BY <2>4, <2>5
<1>5. ASSUME NEW i \in 1 .. n PROVE steps[i] \in [S -> S]
  <2>1. ASSUME NEW least \in S
        PROVE  [least EXCEPT ![i] = 1 + Min({least[j] : j \in Begins(costs, size, i)})] \in S
    <3>1. PICK low : low = Min({least[j] : j \in Begins(costs, size, i)}) OBVIOUS
    <3>2. low \in Nat BY <1>4, <3>1
    <3>3. [least EXCEPT ![i] = 1 + low] \in S BY <3>2
    <3> QED BY <3>1, <3>3
  <2> HIDE DEF S, steps
  <2>2. steps[i] = [least \in S |-> [least EXCEPT ![i] = 1 + Min({least[j] : j \in Begins(costs, size, i)})]]
    BY <1>3
  <2> QED BY <2>1, <2>2
<1>6. base \in S OBVIOUS
<1>7. PICK st, b : st = steps /\ b = base OBVIOUS
<1>8. LeastTable(costs, size) = Run(st, b) BY <1>1, <1>7 DEF LeastTable
<1>9. Len(st) = n /\ b \in S /\ b[0] = 0 /\ \A i \in 1 .. n : st[i] \in [S -> S]
  <2>1. b[0] = 0 BY <1>7
  <2> HIDE DEF S, steps, base
  <2> QED BY <1>2, <1>5, <1>6, <1>7, <2>1
<1>10. \A i \in 1 .. n : st[i] = [least \in S |->
                       [least EXCEPT ![i] = 1 + Min({least[j] : j \in Begins(costs, size, i)})]]
  BY <1>3, <1>7
<1> HIDE DEF steps, base
<1>11. PICK c : c = Course(st, b) OBVIOUS
<1>12. Loops(c, st, b, S, n)
  <2> HIDE DEF S
  <2> QED BY <1>9, <1>11, CourseOf, Zenon
<1>13. c \in [0 .. n -> S] /\ c[0] = b /\ \A i \in 1 .. n : c[i] = st[i][c[i - 1]] BY <1>12 DEF Loops
<1>14. Run(st, b) = c[n] BY <1>9, <1>11 DEF Run
<1> DEFINE T == {i \in 0 .. n : CountsUpTo(c[i], costs, size, i)}
<1>15. 0 \in T
  <2>1. c[0][0] = 0 BY <1>9, <1>13
  <2>2. CountsUpTo(c[0], costs, size, 0) BY <2>1 DEF CountsUpTo
  <2> QED BY <2>2
<1>16. ASSUME NEW i \in 1 .. n, i - 1 \in T PROVE i \in T
  <2>1. PICK f \in S : f = c[i - 1] BY <1>13
  <2>2. PICK g \in S : g = c[i]
    <3>1. i \in 0 .. n OBVIOUS
    <3> QED BY <1>13, <3>1
  <2>3. PICK low : low = Min({f[j] : j \in Begins(costs, size, i)}) OBVIOUS
  <2>4. low \in Nat /\ (\A j \in Begins(costs, size, i) : low <= f[j])
        /\ (\E j \in Begins(costs, size, i) : low = f[j]) BY <1>4, <2>3
  <2>5. g = [f EXCEPT ![i] = 1 + low]
    <3>1. g = st[i][f] BY <1>13, <2>1, <2>2
    <3> HIDE DEF S
    <3> QED BY <1>10, <2>3, <3>1
  <2>6. g[i] = 1 + low /\ \A k \in 0 .. i - 1 : g[k] = f[k] BY <2>5
  <2>7. CountsUpTo(f, costs, size, i - 1) BY <1>16, <2>1
  <2>8. \A k \in 1 .. i : Begins(costs, size, k) \subseteq 0 .. k - 1
    <3> SUFFICES ASSUME NEW k \in 1 .. i PROVE Begins(costs, size, k) \subseteq 0 .. k - 1 OBVIOUS
    <3>1. k \in 1 .. n OBVIOUS
    <3> QED BY <3>1, BeginsThere
  <2>9. ASSUME NEW k \in 1 .. i
        PROVE  /\ \A j \in Begins(costs, size, k) : g[k] <= 1 + g[j]
               /\ \E j \in Begins(costs, size, k) : g[k] = 1 + g[j]
    <3>1. \A j \in Begins(costs, size, k) : g[j] = f[j] /\ f[j] \in Nat
      <4>1. \A j \in Begins(costs, size, k) : j \in 0 .. i - 1 /\ j \in 0 .. n BY <2>8
      <4> QED BY <2>6, <4>1
    <3>2. CASE k = i
      <4>1. \A j \in Begins(costs, size, i) : g[j] = f[j] /\ f[j] \in Nat BY <3>1, <3>2
      <4>2. ASSUME NEW j \in Begins(costs, size, i) PROVE g[i] <= 1 + g[j]
        <5>1. PICK x \in Nat : x = f[j] /\ x = g[j] BY <4>1
        <5>2. low \in Nat /\ low <= x /\ g[i] = 1 + low BY <2>4, <2>6, <5>1
        <5> QED BY <5>1, <5>2
      <4>3. \E j \in Begins(costs, size, i) : g[i] = 1 + g[j]
        <5>1. PICK j \in Begins(costs, size, i) : low = f[j] BY <2>4
        <5>2. g[i] = 1 + low /\ g[j] = low BY <2>6, <4>1, <5>1
        <5> QED BY <5>2
      <4> QED BY <3>2, <4>2, <4>3
    <3>3. CASE k # i
      <4>1. k \in 1 .. i - 1 /\ k \in 0 .. i - 1 BY <3>3
      <4>2. g[k] = f[k] BY <2>6, <4>1
      <4>3. /\ \A j \in Begins(costs, size, k) : f[k] <= 1 + f[j]
            /\ \E j \in Begins(costs, size, k) : f[k] = 1 + f[j] BY <2>7, <4>1 DEF CountsUpTo
      <4> QED BY <3>1, <4>2, <4>3
    <3> QED BY <3>2, <3>3
  <2>10. g[0] = 0
    <3>1. f[0] = 0 /\ 0 \in 0 .. i - 1 BY <2>7 DEF CountsUpTo
    <3> QED BY <2>6, <3>1
  <2>11. CountsUpTo(g, costs, size, i) BY <2>9, <2>10 DEF CountsUpTo
  <2>12. i \in 0 .. n OBVIOUS
  <2> QED BY <2>2, <2>11, <2>12
<1> HIDE DEF T, S
<1>17. 0 .. n \subseteq T BY <1>15, <1>16, AllAlong
<1>18. n \in 0 .. n OBVIOUS
<1>19. CountsUpTo(c[n], costs, size, n) BY <1>17, <1>18 DEF T
<1>20. c[n] \in S BY <1>13, <1>18
<1> QED BY <1>8, <1>14, <1>19, <1>20 DEF S

\* The part being filled begins after s characters, and is the last of the fewest parts.
PackingInv(p, total, least, size, i) ==
  \E s \in 0 .. i - 1 :
    /\ p.used = total[i] - total[s] /\ p.used <= size
    /\ least[s] + 1 = p.parts /\ least[s + 1] = p.parts /\ least[i] = p.parts

LEMMA FewestClimb ==
  ASSUME NEW n \in Nat, NEW costs, Costs(costs, n), NEW size \in Nat, size >= 2
  PROVE  /\ \A a, b \in 0 .. n : a <= b => Totals(costs)[a] <= Totals(costs)[b]
         /\ \A a, b \in 0 .. n : a <= b => LeastTable(costs, size)[a] <= LeastTable(costs, size)[b]
<1>1. PICK t : t = Totals(costs) OBVIOUS
<1>2. t \in [0 .. n -> Nat] /\ \A i \in 1 .. n : t[i] = t[i - 1] + costs[i] BY <1>1, TotalsOf
<1>3. \A i \in 1 .. n : t[i - 1] <= t[i]
  <2> SUFFICES ASSUME NEW i \in 1 .. n PROVE t[i - 1] <= t[i] OBVIOUS
  <2>1. i - 1 \in 0 .. n /\ costs[i] \in {1, 2} BY DEF Costs
  <2> QED BY <1>2, <2>1
<1>4. \A a, b \in 0 .. n : a <= b => t[a] <= t[b] BY <1>2, <1>3, Climbs
<1>5. PICK f : f = LeastTable(costs, size) OBVIOUS
<1>6. f \in [0 .. n -> Nat] /\ CountsUpTo(f, costs, size, n) BY <1>5, LeastCounts
<1>7. \A i \in 1 .. n : f[i - 1] <= f[i]
  <2> SUFFICES ASSUME NEW i \in 1 .. n PROVE f[i - 1] <= f[i] OBVIOUS
  <2>1. PICK j \in Begins(costs, size, i) : f[i] = 1 + f[j] BY <1>6 DEF CountsUpTo
  <2>2. j \in 0 .. i - 1 /\ t[i] - t[j] <= size BY <1>1, <2>1 DEF Begins
  <2>3. i - 1 \in 0 .. n /\ j \in 0 .. n /\ i \in 0 .. n BY <2>2
  <2>4. f[i - 1] \in Nat /\ f[j] \in Nat /\ f[i] \in Nat BY <1>6, <2>3
  <2>5. CASE j = i - 1 BY <2>1, <2>4, <2>5
  <2>6. CASE j # i - 1
    <3>1. i - 1 \in 1 .. n /\ j \in 0 .. (i - 1) - 1 BY <2>2, <2>6
    <3>2. t[i - 1] <= t[i] /\ t[i - 1] \in Nat /\ t[i] \in Nat /\ t[j] \in Nat BY <1>2, <1>3, <2>3
    <3>3. t[i - 1] - t[j] <= size BY <2>2, <3>2
    <3>4. j \in Begins(costs, size, i - 1) BY <1>1, <3>1, <3>3 DEF Begins
    <3>5. f[i - 1] <= 1 + f[j] BY <1>6, <3>1, <3>4 DEF CountsUpTo
    <3> QED BY <2>1, <2>4, <3>5
  <2> QED BY <2>5, <2>6
<1>8. \A a, b \in 0 .. n : a <= b => f[a] <= f[b] BY <1>6, <1>7, Climbs
<1> QED BY <1>1, <1>4, <1>5, <1>8

\* One more character, of cost x, is put where the filling has come to.
LEMMA OneMorePacked ==
  ASSUME NEW n \in Nat, NEW costs, Costs(costs, n), NEW size \in Nat, size >= 2,
         NEW i \in 1 .. n, NEW p \in Filling, NEW q, q = Fill(p, costs[i], size),
         IF i = 1 THEN p.parts = 1 /\ p.used = 0
         ELSE PackingInv(p, Totals(costs), LeastTable(costs, size), size, i - 1)
  PROVE  PackingInv(q, Totals(costs), LeastTable(costs, size), size, i)
<1>1. PICK t : t = Totals(costs) OBVIOUS
<1>2. PICK f : f = LeastTable(costs, size) OBVIOUS
<1>3. t \in [0 .. n -> Nat] /\ t[0] = 0 /\ t[i] = t[i - 1] + costs[i] BY <1>1, TotalsOf
<1>4. f \in [0 .. n -> Nat] /\ CountsUpTo(f, costs, size, n) BY <1>2, LeastCounts
<1>5. /\ \A a, b \in 0 .. n : a <= b => t[a] <= t[b]
      /\ \A a, b \in 0 .. n : a <= b => f[a] <= f[b] BY <1>1, <1>2, FewestClimb
<1>6. PICK x \in {1, 2} : x = costs[i] BY DEF Costs
<1>7. i \in 0 .. n /\ i - 1 \in 0 .. n /\ t[i] \in Nat /\ t[i - 1] \in Nat /\ f[i] \in Nat /\ f[i - 1] \in Nat
  BY <1>3, <1>4
<1>8. f[0] = 0 /\ (\A j \in Begins(costs, size, i) : f[i] <= 1 + f[j])
      /\ (\E j \in Begins(costs, size, i) : f[i] = 1 + f[j]) BY <1>4 DEF CountsUpTo
<1>9. \A j : j \in Begins(costs, size, i) <=> j \in 0 .. i - 1 /\ t[i] - t[j] <= size BY <1>1 DEF Begins
<1>10. p.parts \in Nat /\ p.used \in Nat BY DEF Filling
<1>11. t[i] - t[i - 1] <= size /\ f[i] <= 1 + f[i - 1]
  <2>1. t[i] - t[i - 1] <= size /\ i - 1 \in 0 .. i - 1 BY <1>3, <1>6, <1>7
  <2> QED BY <1>8, <1>9, <2>1
<1>12. CASE i = 1
  <2>1. p.used + x <= size /\ p.parts = 1 /\ p.used = 0 BY <1>6, <1>10, <1>12
  <2>2. q.parts = 1 /\ q.used = x BY <1>6, <2>1 DEF Fill
  <2>3. f[1] = 1
    <3>1. PICK j \in Begins(costs, size, i) : f[i] = 1 + f[j] BY <1>8
    <3>2. j = 0 BY <1>9, <1>12, <3>1
    <3> QED BY <1>8, <1>12, <3>1, <3>2
  <2>4. 0 \in 0 .. i - 1 /\ q.used = t[i] - t[0] /\ q.used <= size BY <1>3, <1>6, <1>7, <1>12, <2>1, <2>2
  <2>5. f[0] + 1 = q.parts /\ f[0 + 1] = q.parts /\ f[i] = q.parts BY <1>8, <1>12, <2>2, <2>3
  <2> QED BY <1>1, <1>2, <2>4, <2>5 DEF PackingInv
<1>13. CASE i # 1
  <2>1. PICK s \in 0 .. (i - 1) - 1 : /\ p.used = t[i - 1] - t[s] /\ p.used <= size
                                      /\ f[s] + 1 = p.parts /\ f[s + 1] = p.parts /\ f[i - 1] = p.parts
    BY <1>1, <1>2, <1>13 DEF PackingInv
  <2>2. s \in 0 .. n /\ s + 1 \in 0 .. n /\ t[s] \in Nat /\ f[s] \in Nat /\ s \in 0 .. i - 1 BY <1>3, <1>4, <2>1
  <2>3. CASE p.used + x <= size
    <3>1. q.parts = p.parts /\ q.used = p.used + x BY <1>6, <1>10, <2>3 DEF Fill
    <3>2. q.used = t[i] - t[s] /\ q.used <= size
      <4>1. PICK before \in Nat, start \in Nat, used \in Nat : before = t[i - 1] /\ start = t[s] /\ used = p.used
        BY <1>7, <1>10, <2>2
      <4>2. t[i] = before + x /\ used = before - start BY <1>3, <1>6, <2>1, <4>1
      <4>3. q.used = used + x /\ used + x <= size BY <2>3, <3>1, <4>1
      <4> QED BY <4>1, <4>2, <4>3
    <3>3. f[i] <= p.parts
      <4>1. s \in Begins(costs, size, i) BY <1>9, <2>2, <3>2
      <4>2. f[i] <= 1 + f[s] BY <1>8, <4>1
      <4> QED BY <1>7, <2>1, <2>2, <4>2
    <3>4. f[i - 1] <= f[i] BY <1>5, <1>7
    <3>5. f[i] = p.parts BY <1>7, <1>10, <2>1, <3>3, <3>4
    <3>6. f[s] + 1 = q.parts /\ f[s + 1] = q.parts /\ f[i] = q.parts BY <2>1, <3>1, <3>5
    <3> QED BY <1>1, <1>2, <2>2, <3>2, <3>6 DEF PackingInv
  <2>4. CASE ~(p.used + x <= size)
    <3>1. p.used + x > size BY <1>6, <1>10, <2>4
    <3>2. q.parts = p.parts + 1 /\ q.used = x BY <1>6, <3>1 DEF Fill
    <3>3. f[i] <= p.parts + 1 BY <1>7, <1>11, <2>1
    <3>4. PICK j \in Begins(costs, size, i) : f[i] = 1 + f[j] BY <1>8
    <3>5. j \in 0 .. i - 1 /\ t[i] - t[j] <= size /\ j \in 0 .. n /\ t[j] \in Nat /\ f[j] \in Nat
      <4>1. j \in 0 .. i - 1 /\ t[i] - t[j] <= size BY <1>9, <3>4
      <4>2. j \in 0 .. n BY <4>1
      <4> QED BY <1>3, <1>4, <4>1, <4>2
    <3>6. t[i] - t[s] > size
      <4>1. PICK before \in Nat, start \in Nat, used \in Nat : before = t[i - 1] /\ start = t[s] /\ used = p.used
        BY <1>7, <1>10, <2>2
      <4>2. t[i] = before + x /\ used = before - start BY <1>3, <1>6, <2>1, <4>1
      <4>3. used + x > size BY <3>1, <4>1
      <4> QED BY <4>1, <4>2, <4>3
    <3>7. ~(j <= s)
      <4> SUFFICES ASSUME j <= s PROVE FALSE OBVIOUS
      <4>1. t[j] <= t[s] BY <1>5, <2>2, <3>5
      <4> QED BY <1>7, <2>2, <3>5, <3>6, <4>1
    <3>8. s + 1 <= j BY <2>2, <3>5, <3>7
    <3>9. f[s + 1] <= f[j] BY <1>5, <2>2, <3>5, <3>8
    <3>10. f[i] = q.parts BY <1>7, <1>10, <2>1, <3>2, <3>3, <3>4, <3>5, <3>9
    <3>11. i - 1 \in 0 .. i - 1 /\ (i - 1) + 1 = i OBVIOUS
    <3>12. q.used = t[i] - t[i - 1] /\ q.used <= size BY <1>3, <1>6, <1>7, <1>11, <3>2
    <3>13. f[i - 1] + 1 = q.parts /\ f[(i - 1) + 1] = q.parts BY <2>1, <3>2, <3>10, <3>11
    <3> QED BY <1>1, <1>2, <3>10, <3>11, <3>12, <3>13 DEF PackingInv
  <2> QED BY <2>3, <2>4
<1> QED BY <1>12, <1>13

\* As many parts are filled as there must be.
LEMMA FilledIsFewest ==
  ASSUME NEW n \in Nat \ {0}, NEW costs, Costs(costs, n), NEW size \in Nat, size >= 2
  PROVE  Filled(costs, size) = Fewest(costs, size)
<1> DEFINE steps == [i \in DOMAIN costs |-> [p \in Filling |-> Fill(p, costs[i], size)]]
<1>1. DOMAIN costs = 1 .. n /\ Len(costs) = n BY DEF Costs
<1>2. DOMAIN steps = 1 .. n /\ Len(steps) = n
  <2>1. DOMAIN steps = 1 .. n BY <1>1
  <2> QED BY <2>1
<1>3. \A i \in 1 .. n : steps[i] = [p \in Filling |-> Fill(p, costs[i], size)] BY <1>1
<1>4. ASSUME NEW i \in 1 .. n PROVE steps[i] \in [Filling -> Filling]
  <2>1. PICK x \in Nat : x = costs[i] BY DEF Costs
  <2>2. ASSUME NEW p \in Filling PROVE Fill(p, x, size) \in Filling BY DEF Filling, Fill
  <2>3. steps[i] = [p \in Filling |-> Fill(p, x, size)] BY <1>3, <2>1
  <2> HIDE DEF steps
  <2> QED BY <2>2, <2>3
<1>5. PICK st, b : st = steps /\ b = [parts |-> 1, used |-> 0] OBVIOUS
<1>6. b \in Filling /\ b.parts = 1 /\ b.used = 0 BY <1>5 DEF Filling
<1>7. Filled(costs, size) = Run(st, b).parts BY <1>5 DEF Filled
<1>8. Len(st) = n /\ (\A i \in 1 .. n : st[i] = [p \in Filling |-> Fill(p, costs[i], size)])
      /\ \A i \in 1 .. n : st[i] \in [Filling -> Filling] BY <1>2, <1>3, <1>4, <1>5
<1> HIDE DEF steps
<1>9. PICK c : c = Course(st, b) OBVIOUS
<1>10. Loops(c, st, b, Filling, n) BY <1>6, <1>8, <1>9, CourseOf, Zenon
<1>11. c \in [0 .. n -> Filling] /\ c[0] = b /\ \A i \in 1 .. n : c[i] = st[i][c[i - 1]] BY <1>10 DEF Loops
<1>12. Run(st, b) = c[n] BY <1>8, <1>9 DEF Run
<1> DEFINE T == {i \in 0 .. n : i = 0 \/ PackingInv(c[i], Totals(costs), LeastTable(costs, size), size, i)}
<1>13. 0 \in T OBVIOUS
<1>14. ASSUME NEW i \in 1 .. n, i - 1 \in T PROVE i \in T
  <2>1. PICK p \in Filling : p = c[i - 1] BY <1>11
  <2>2. i \in 0 .. n OBVIOUS
  <2>3. PICK q : q = c[i] OBVIOUS
  <2>4. q = Fill(p, costs[i], size)
    <3>1. q = st[i][p] BY <1>11, <2>1, <2>3
    <3> QED BY <1>8, <3>1
  <2>5. IF i = 1 THEN p.parts = 1 /\ p.used = 0
        ELSE PackingInv(p, Totals(costs), LeastTable(costs, size), size, i - 1)
    <3>1. CASE i = 1 BY <1>6, <1>11, <2>1, <3>1
    <3>2. CASE i # 1 BY <1>14, <2>1, <3>2
    <3> QED BY <3>1, <3>2
  <2>6. PackingInv(q, Totals(costs), LeastTable(costs, size), size, i) BY <2>4, <2>5, OneMorePacked
  <2> QED BY <2>2, <2>3, <2>6
<1> HIDE DEF T
<1>15. 0 .. n \subseteq T BY <1>13, <1>14, AllAlong
<1>16. PackingInv(c[n], Totals(costs), LeastTable(costs, size), size, n)
  <2>1. n \in 0 .. n /\ n # 0 OBVIOUS
  <2> QED BY <1>15, <2>1 DEF T
<1>17. LeastTable(costs, size)[n] = c[n].parts BY <1>16 DEF PackingInv
<1> QED BY <1>1, <1>7, <1>12, <1>17 DEF Fewest

\* Packing takes the fewest parts, one when all fits in one.
LEMMA PackIsFewest ==
  ASSUME NEW n \in Nat, NEW costs, Costs(costs, n), NEW one \in Nat, NEW more \in Nat, more >= 2
  PROVE  Pack(costs, one, more).segments
           = AtMost(IF Sum(costs) <= one THEN 1 ELSE Fewest(costs, more), MaxParts)
<1>1. CASE Sum(costs) <= one
  <2>1. Pack(costs, one, more).segments = 1 BY <1>1 DEF Pack
  <2>2. AtMost(1, MaxParts) = 1 BY EncodingAssumption DEF AtMost
  <2> QED BY <1>1, <2>1, <2>2
<1>2. CASE ~(Sum(costs) <= one)
  <2>1. n # 0
    <3> SUFFICES ASSUME n = 0 PROVE FALSE OBVIOUS
    <3>1. Sum(costs) = Totals(costs)[n] /\ Totals(costs)[0] = 0 BY TotalsOf
    <3>2. Sum(costs) = 0 BY <3>1
    <3> QED BY <1>2, <3>2
  <2>2. Filled(costs, more) = Fewest(costs, more) BY <2>1, FilledIsFewest
  <2>3. Pack(costs, one, more).segments = AtMost(Filled(costs, more), MaxParts) BY <1>2 DEF Pack
  <2> QED BY <1>2, <2>2, <2>3
<1> QED BY <1>1, <1>2

LEMMA BodiesPack == ASSUME body \in Seq(Chars) PROVE FewestSegments
<1>1. PICK s : s = Normalise(body) OBVIOUS
<1>2. s \in Seq(Glyphs)
  <2>1. body \in Seq(Glyphs)
    <3>1. Chars \subseteq Glyphs BY DEF Glyphs
    <3> QED BY <3>1
  <2> QED BY <1>1, <2>1, NormalIsText
<1>3. PICK n \in Nat : n = Len(s) /\ DOMAIN s = 1 .. n BY <1>2
<1> DEFINE gsm7 == \A i \in DOMAIN s : IsGsm7(s[i])
           off == {c \in Range(s) : ~ IsGsm7(c)}
<1>4. gsm7 <=> off = {} BY DEF Range
<1>5. PICK inSeptets : inSeptets = [i \in DOMAIN s |-> Septets(s[i])] OBVIOUS
<1>6. PICK inUnits : inUnits = [i \in DOMAIN s |-> LenUtf16(s[i])] OBVIOUS
<1>7. Costs(inSeptets, n) /\ Costs(inUnits, n)
  <2>1. \A i \in 1 .. n : Septets(s[i]) \in {1, 2} /\ LenUtf16(s[i]) \in {1, 2} BY DEF Septets, LenUtf16
  <2>2. inSeptets \in [1 .. n -> {1, 2}] BY <1>3, <1>5, <2>1
  <2>3. inUnits \in [1 .. n -> {1, 2}] BY <1>3, <1>6, <2>1
  <2> QED BY <2>2, <2>3 DEF Costs
<1>8. /\ Gsm7Single \in Nat /\ Gsm7Concatenated \in Nat /\ Gsm7Concatenated >= 2
      /\ Ucs2Single \in Nat /\ Ucs2Concatenated \in Nat /\ Ucs2Concatenated >= 2
  BY EncodingAssumption
<1> DEFINE costs == [i \in DOMAIN s |-> IF gsm7 THEN Septets(s[i]) ELSE LenUtf16(s[i])]
           size == IF gsm7 THEN [one |-> Gsm7Single, more |-> Gsm7Concatenated]
                           ELSE [one |-> Ucs2Single, more |-> Ucs2Concatenated]
<1>9. SUFFICES Preview(body).packing.segments
                 = AtMost(IF Sum(costs) <= size.one THEN 1 ELSE Fewest(costs, size.more), MaxParts)
  BY <1>1, Zenon DEF FewestSegments
<1>10. Preview(body) = Analyse(s) BY <1>1 DEF Preview
<1>11. Analyse(s).packing = IF off = {} THEN Pack(inSeptets, Gsm7Single, Gsm7Concatenated)
                                       ELSE Pack(inUnits, Ucs2Single, Ucs2Concatenated)
  BY <1>5, <1>6 DEF Analyse
<1> HIDE DEF off
<1>12. CASE gsm7
  <2>1. costs = inSeptets /\ size.one = Gsm7Single /\ size.more = Gsm7Concatenated
    <3> HIDE DEF gsm7
    <3> QED BY <1>5, <1>12
  <2>2. Analyse(s).packing = Pack(inSeptets, Gsm7Single, Gsm7Concatenated)
    <3> HIDE DEF gsm7
    <3> QED BY <1>4, <1>11, <1>12
  <2>3. Pack(inSeptets, Gsm7Single, Gsm7Concatenated).segments
          = AtMost(IF Sum(inSeptets) <= Gsm7Single THEN 1 ELSE Fewest(inSeptets, Gsm7Concatenated), MaxParts)
    BY <1>7, <1>8, PackIsFewest
  <2> HIDE DEF costs, size, gsm7
  <2> QED BY <1>10, <2>1, <2>2, <2>3
<1>13. CASE ~gsm7
  <2>1. costs = inUnits /\ size.one = Ucs2Single /\ size.more = Ucs2Concatenated
    <3> HIDE DEF gsm7
    <3> QED BY <1>6, <1>13
  <2>2. Analyse(s).packing = Pack(inUnits, Ucs2Single, Ucs2Concatenated)
    <3> HIDE DEF gsm7
    <3> QED BY <1>4, <1>11, <1>13
  <2>3. Pack(inUnits, Ucs2Single, Ucs2Concatenated).segments
          = AtMost(IF Sum(inUnits) <= Ucs2Single THEN 1 ELSE Fewest(inUnits, Ucs2Concatenated), MaxParts)
    BY <1>7, <1>8, PackIsFewest
  <2> HIDE DEF costs, size, gsm7
  <2> QED BY <1>10, <2>1, <2>2, <2>3
<1> QED BY <1>12, <1>13

-----------------------------------------------------------------------------
(* Numbers.  Reading one more character is one more step, so separators make   *)
(* no difference wherever they stand, and the digits of a number are read back *)
(* as they are written; the country and the national number then come out the  *)
(* same by a plus and by any region's international prefix.                    *)

\* A loop of one step more.
OneMore(steps, more, S, n) ==
  /\ Len(steps) = n /\ \A i \in 1 .. n : steps[i] \in [S -> S]
  /\ Len(more) = n + 1 /\ (\A i \in 1 .. n : more[i] = steps[i]) /\ more[n + 1] \in [S -> S]

GoesOn(steps, more, base, S, n) ==
  Run(steps, base) \in S /\ Run(more, base) = more[n + 1][Run(steps, base)]

LEMMA OneMoreStep ==
  ASSUME NEW S, NEW n \in Nat, NEW steps, NEW base \in S, NEW more, OneMore(steps, more, S, n)
  PROVE  GoesOn(steps, more, base, S, n)
<1>0. /\ Len(steps) = n /\ \A i \in 1 .. n : steps[i] \in [S -> S]
      /\ Len(more) = n + 1 /\ (\A i \in 1 .. n : more[i] = steps[i]) /\ more[n + 1] \in [S -> S]
  BY DEF OneMore
<1>1. PICK c, d : c = Course(steps, base) /\ d = Course(more, base) OBVIOUS
<1>2. PICK k \in Nat : k = n + 1 OBVIOUS
<1>3. Len(more) = k /\ \A i \in 1 .. k : more[i] \in [S -> S]
  <2>1. \A i \in 1 .. k : i \in 1 .. n \/ i = n + 1 BY <1>2
  <2> QED BY <1>0, <1>2, <2>1
<1>4. Loops(c, steps, base, S, n) BY <1>0, <1>1, CourseOf, Zenon
<1>5. Loops(d, more, base, S, k) BY <1>1, <1>3, CourseOf, Zenon
<1>6. c \in [0 .. n -> S] /\ c[0] = base /\ \A i \in 1 .. n : c[i] = steps[i][c[i - 1]] BY <1>4 DEF Loops
<1>7. d[0] = base /\ \A i \in 1 .. k : d[i] = more[i][d[i - 1]] BY <1>5 DEF Loops
<1> DEFINE T == {i \in 0 .. n : d[i] = c[i]}
<1>8. 0 \in T BY <1>6, <1>7
<1>9. ASSUME NEW i \in 1 .. n, i - 1 \in T PROVE i \in T
  <2>1. i \in 1 .. k /\ i \in 0 .. n BY <1>2
  <2>2. d[i] = more[i][d[i - 1]] BY <1>7, <2>1
  <2>3. d[i - 1] = c[i - 1] BY <1>9
  <2>4. d[i] = c[i] BY <1>0, <1>6, <2>2, <2>3
  <2> QED BY <2>1, <2>4
<1> HIDE DEF T
<1>10. d[n] = c[n] /\ c[n] \in S
  <2>1. 0 .. n \subseteq T BY <1>8, <1>9, AllAlong
  <2>2. n \in 0 .. n OBVIOUS
  <2> QED BY <1>6, <2>1, <2>2 DEF T
<1>11. d[k] = more[k][d[k - 1]] /\ k - 1 = n
  <2>1. k \in 1 .. k /\ k - 1 = n BY <1>2
  <2> QED BY <1>7, <2>1
<1>12. Run(steps, base) = c[n] /\ Run(more, base) = d[k] BY <1>0, <1>1, <1>3 DEF Run
<1> QED BY <1>2, <1>10, <1>11, <1>12 DEF GoesOn

Signs == Keys \cup Digits \cup {"+"}
Unread == [error |-> "none", digits |-> <<>>, plus |-> FALSE]
ReadSteps(input) == [i \in DOMAIN input |-> [s \in Reading |-> Read(s, input[i])]]
ReadAll(input) == Run(ReadSteps(input), Unread)

LEMMA ReadIsReading == ASSUME NEW s \in Reading, NEW c PROVE Read(s, c) \in Reading
<1>1. s.digits \in Seq(Digits) /\ (c \in Digits => Append(s.digits, c) \in Seq(Digits)) BY DEF Reading
<1>2. CASE c \in Separators
  <2>1. c \notin Digits /\ c # "+" BY <1>2 DEF Separators, Digits
  <2>2. Read(s, c) = s BY <1>2, <2>1 DEF Read
  <2> QED BY <2>2
<1>3. CASE c \notin Separators /\ c = "+" /\ ~s.plus /\ s.digits = <<>>
  <2>1. "+" \notin Digits BY DEF Digits
  <2>2. Read(s, c) = [s EXCEPT !.plus = TRUE] BY <1>3, <2>1 DEF Read
  <2> QED BY <2>2 DEF Reading
<1>4. CASE c \notin Separators /\ ~(c = "+" /\ ~s.plus /\ s.digits = <<>>) /\ c \in Digits
  <2>1. Read(s, c) = [s EXCEPT !.digits = Append(s.digits, c)] BY <1>4 DEF Read
  <2> QED BY <1>1, <1>4, <2>1 DEF Reading
<1>5. CASE c \notin Separators /\ ~(c = "+" /\ ~s.plus /\ s.digits = <<>>) /\ c \notin Digits
  <2>1. Read(s, c) = [s EXCEPT !.error = "InvalidCharacter"] BY <1>5 DEF Read
  <2> QED BY <2>1 DEF Reading
<1> QED BY <1>2, <1>3, <1>4, <1>5

LEMMA ReadingSteps ==
  ASSUME NEW input \in Seq(Signs)
  PROVE  /\ Len(ReadSteps(input)) = Len(input)
         /\ \A i \in 1 .. Len(input) : /\ ReadSteps(input)[i] \in [Reading -> Reading]
                                       /\ ReadSteps(input)[i] = [s \in Reading |-> Read(s, input[i])]
         /\ Unread \in Reading
<1>1. PICK n \in Nat : n = Len(input) /\ DOMAIN input = 1 .. n OBVIOUS
<1>2. PICK st : st = ReadSteps(input) OBVIOUS
<1>3. DOMAIN st = 1 .. n /\ \A i \in 1 .. n : st[i] = [s \in Reading |-> Read(s, input[i])]
  BY <1>1, <1>2 DEF ReadSteps
<1>4. Len(st) = n BY <1>1, <1>2, <1>3 DEF ReadSteps
<1>5. ASSUME NEW i \in 1 .. n PROVE st[i] \in [Reading -> Reading]
  <2>1. \A s \in Reading : Read(s, input[i]) \in Reading BY ReadIsReading
  <2> QED BY <1>3, <2>1
<1>6. Unread \in Reading
  <2>1. <<>> \in Seq(Digits) OBVIOUS
  <2> QED BY <2>1 DEF Unread, Reading
<1> QED BY <1>1, <1>2, <1>3, <1>4, <1>5, <1>6

LEMMA ReadOneMore ==
  ASSUME NEW input \in Seq(Signs), NEW c \in Signs
  PROVE  ReadAll(input) \in Reading /\ ReadAll(Append(input, c)) = Read(ReadAll(input), c)
<1>1. PICK n \in Nat : n = Len(input) OBVIOUS
<1>2. PICK longer \in Seq(Signs) : longer = Append(input, c)
  <2>1. Append(input, c) \in Seq(Signs) BY AppendProperties
  <2> QED BY <2>1
<1>3. Len(longer) = n + 1 /\ longer[n + 1] = c /\ \A i \in 1 .. n : longer[i] = input[i] BY <1>1, <1>2
<1>4. PICK st, more : st = ReadSteps(input) /\ more = ReadSteps(longer) OBVIOUS
<1>5. /\ Len(st) = n /\ \A i \in 1 .. n : /\ st[i] \in [Reading -> Reading]
                                          /\ st[i] = [s \in Reading |-> Read(s, input[i])]
      /\ Unread \in Reading
  BY <1>1, <1>4, ReadingSteps
<1>6. /\ Len(more) = n + 1
      /\ \A i \in 1 .. n + 1 : /\ more[i] \in [Reading -> Reading]
                               /\ more[i] = [s \in Reading |-> Read(s, longer[i])]
  BY <1>3, <1>4, ReadingSteps
<1>7. \A i \in 1 .. n : more[i] = st[i]
  <2> SUFFICES ASSUME NEW i \in 1 .. n PROVE more[i] = st[i] OBVIOUS
  <2>1. i \in 1 .. n + 1 /\ longer[i] = input[i] BY <1>3
  <2> QED BY <1>5, <1>6, <2>1
<1>8. n + 1 \in 1 .. n + 1 OBVIOUS
<1>9. more[n + 1] \in [Reading -> Reading] /\ more[n + 1] = [s \in Reading |-> Read(s, c)] BY <1>3, <1>6, <1>8
<1>10. Run(st, Unread) \in Reading /\ Run(more, Unread) = more[n + 1][Run(st, Unread)]
  <2>1. OneMore(st, more, Reading, n) BY <1>5, <1>6, <1>7, <1>9 DEF OneMore
  <2>2. n \in Nat /\ Unread \in Reading BY <1>5
  <2>3. GoesOn(st, more, Unread, Reading, n) BY <2>1, <2>2, OneMoreStep
  <2> QED BY <2>3 DEF GoesOn
<1>11. Run(more, Unread) = Read(Run(st, Unread), c) BY <1>9, <1>10
<1> QED BY <1>2, <1>4, <1>10, <1>11 DEF ReadAll

LEMMA ReadNothing == ReadAll(<<>>) = Unread
<1>1. PICK e : e = <<>> OBVIOUS
<1>2. e \in Seq(Signs) /\ Len(e) = 0 BY <1>1
<1>3. Len(ReadSteps(e)) = 0 /\ Unread \in Reading
      /\ \A i \in 1 .. 0 : ReadSteps(e)[i] \in [Reading -> Reading] BY <1>2, ReadingSteps
<1>4. 0 \in Nat OBVIOUS
<1>5. Loops(Course(ReadSteps(e), Unread), ReadSteps(e), Unread, Reading, 0) BY <1>3, <1>4, CourseOf, Zenon
<1> QED BY <1>1, <1>3, <1>5 DEF Loops, ReadAll, Run

\* Digits after a beginning are read as they are.
LEMMA ReadDigits ==
  ASSUME NEW begin \in Seq(Signs), NEW digits \in Seq(Digits), NEW r, r = ReadAll(begin)
  PROVE  ReadAll(begin \o digits) = [error |-> r.error, digits |-> r.digits \o digits, plus |-> r.plus]
<1>1. PICK n \in Nat : n = Len(digits) /\ DOMAIN digits = 1 .. n OBVIOUS
<1>2. \A i \in 0 .. n : SubSeq(digits, 1, i) \in Seq(Digits) BY <1>1
<1>3. r \in Reading
  <2>1. "+" \in Signs BY DEF Signs
  <2> QED BY <2>1, ReadOneMore
<1>4. Digits \subseteq Signs BY DEF Signs
<1> DEFINE upTo(i) == [error |-> r.error, digits |-> r.digits \o SubSeq(digits, 1, i), plus |-> r.plus]
           T == {i \in 0 .. n : ReadAll(begin \o SubSeq(digits, 1, i)) = upTo(i)}
<1>5. 0 \in T
  <2>1. SubSeq(digits, 1, 0) = <<>> BY SubSeqEmpty
  <2>2. begin \o <<>> = begin /\ r.digits \o <<>> = r.digits BY <1>3 DEF Reading
  <2>3. [error |-> r.error, digits |-> r.digits, plus |-> r.plus] = r BY <1>3 DEF Reading
  <2>4. upTo(0) = r BY <2>1, <2>2, <2>3, Zenon
  <2>5. ReadAll(begin \o SubSeq(digits, 1, 0)) = r BY <2>1, <2>2
  <2>6. 0 \in 0 .. n OBVIOUS
  <2> QED BY <2>4, <2>5, <2>6
<1>6. ASSUME NEW i \in 1 .. n, i - 1 \in T PROVE i \in T
  <2>1. i \in 0 .. n /\ i - 1 \in 0 .. n OBVIOUS
  <2>2. PICK x \in Digits : x = digits[i] BY <1>1
  <2>3. PICK t \in Seq(Digits) : t = SubSeq(digits, 1, i - 1) BY <1>2, <2>1
  <2>4. SubSeq(digits, 1, i) = Append(t, x)
    <3>1. SubSeq(digits, 1, i) = SubSeq(digits, 1, i - 1) \o <<digits[i]>>
      <4>1. 1 \in 1 .. n /\ i \in 1 .. n OBVIOUS
      <4> QED BY <1>1, <4>1, SubSeqRecursiveSecond
    <3> QED BY <2>2, <2>3, <3>1, AppendIsConcat
  <2>5. PICK y \in Reading : y = ReadAll(begin \o t) /\ y = upTo(i - 1)
    <3>1. ReadAll(begin \o t) = upTo(i - 1) BY <1>6, <2>3
    <3>2. begin \o t \in Seq(Signs) BY <1>4
    <3>3. ReadAll(begin \o t) \in Reading BY <1>4, <2>2, <3>2, ReadOneMore
    <3> QED BY <3>1, <3>3
  <2>6. begin \o Append(t, x) = Append(begin \o t, x) BY <1>4, <2>2
  <2>7. ReadAll(Append(begin \o t, x)) = Read(y, x)
    <3>1. begin \o t \in Seq(Signs) /\ x \in Signs BY <1>4, <2>2
    <3> QED BY <2>5, <3>1, ReadOneMore
  <2>8. Read(y, x) = [y EXCEPT !.digits = Append(y.digits, x)]
    <3>1. x \notin Separators /\ x # "+" BY DEF Digits, Separators
    <3> QED BY <3>1 DEF Read
  <2>9. y.error = r.error /\ y.plus = r.plus /\ y.digits = r.digits \o t BY <2>3, <2>5
  <2>10. Append(r.digits \o t, x) = r.digits \o Append(t, x)
    <3>1. PICK d \in Seq(Digits) : d = r.digits BY <1>3 DEF Reading
    <3>2. d \o t \in Seq(Digits) /\ Append(d \o t, x) = (d \o t) \o <<x>> /\ Append(t, x) = t \o <<x>>
      BY ConcatProperties, AppendIsConcat
    <3>3. <<x>> \in Seq(Digits) BY <2>2
    <3>4. (d \o t) \o <<x>> = d \o (t \o <<x>>) BY <3>3, ConcatAssociative
    <3>5. Append(d \o t, x) = d \o Append(t, x) BY <3>2, <3>4
    <3> QED BY <3>1, <3>5
  <2>11. [y EXCEPT !.digits = Append(y.digits, x)]
           = [error |-> r.error, digits |-> r.digits \o Append(t, x), plus |-> r.plus]
    <3>1. PICK d : d = r.digits \o Append(t, x) OBVIOUS
    <3>2. Append(y.digits, x) = d BY <2>9, <2>10, <3>1
    <3>3. PICK e, b, v : e = y.error /\ b = y.plus /\ v = y.digits OBVIOUS
    <3>4. y = [error |-> e, digits |-> v, plus |-> b] BY <3>3 DEF Reading
    <3>5. [y EXCEPT !.digits = d] = [error |-> e, digits |-> d, plus |-> b] BY <3>4
    <3>6. e = r.error /\ b = r.plus BY <2>9, <3>3
    <3> QED BY <3>1, <3>2, <3>5, <3>6
  <2>12. ReadAll(begin \o SubSeq(digits, 1, i)) = upTo(i) BY <2>4, <2>6, <2>7, <2>8, <2>11
  <2> QED BY <2>1, <2>12
<1> HIDE DEF T
<1>7. n \in T
  <2>1. 0 .. n \subseteq T BY <1>5, <1>6, AllAlong
  <2> QED BY <2>1
<1>8. SubSeq(digits, 1, n) = digits BY <1>1, SubSeqFull
<1>9. ReadAll(begin \o SubSeq(digits, 1, n)) = upTo(n) BY <1>7 DEF T
<1> QED BY <1>8, <1>9

\* Separators make no difference.
LEMMA StrippedReadsTheSame ==
  ASSUME NEW input \in Seq(Keys)
  PROVE  ReadAll(Stripped(input)) = ReadAll(input)
<1> DEFINE S == Seq(Keys)
           steps == [i \in DOMAIN input |-> [out \in S |->
                       IF input[i] \in Separators THEN out ELSE Append(out, input[i])]]
<1>1. PICK n \in Nat : n = Len(input) /\ DOMAIN input = 1 .. n OBVIOUS
<1>2. DOMAIN steps = 1 .. n /\ Len(steps) = n
  <2>1. DOMAIN steps = 1 .. n BY <1>1
  <2> QED BY <1>1, <2>1
<1>3. \A i \in 1 .. n : steps[i] = [out \in S |-> IF input[i] \in Separators THEN out ELSE Append(out, input[i])]
  BY <1>1
<1>4. ASSUME NEW i \in 1 .. n PROVE steps[i] \in [S -> S]
  <2>1. PICK x \in Keys : x = input[i] BY <1>1
  <2>2. \A out \in S : Append(out, x) \in S BY AppendProperties
  <2>3. steps[i] = [out \in S |-> IF x \in Separators THEN out ELSE Append(out, x)] BY <1>3, <2>1
  <2> HIDE DEF S, steps
  <2> QED BY <2>2, <2>3
<1>5. PICK st : st = steps OBVIOUS
<1>6. Stripped(input) = Run(st, <<>>) BY <1>5 DEF Stripped
<1>7. /\ Len(st) = n /\ \A i \in 1 .. n : st[i] \in [S -> S]
      /\ \A i \in 1 .. n : st[i] = [out \in S |-> IF input[i] \in Separators THEN out ELSE Append(out, input[i])]
  BY <1>2, <1>3, <1>4, <1>5
<1> HIDE DEF steps
<1>8. PICK d : d = Course(st, <<>>) OBVIOUS
<1>9. Loops(d, st, <<>>, S, n)
  <2>1. <<>> \in S OBVIOUS
  <2> HIDE DEF S
  <2> QED BY <1>7, <1>8, <2>1, CourseOf, Zenon
<1>10. d \in [0 .. n -> S] /\ d[0] = <<>> /\ \A i \in 1 .. n : d[i] = st[i][d[i - 1]] BY <1>9 DEF Loops
<1>11. Run(st, <<>>) = d[n] BY <1>7, <1>8 DEF Run
<1>12. \A s \in S : s \in Seq(Signs)
  <2>1. Keys \subseteq Signs BY DEF Signs
  <2> QED BY <2>1
<1>13. PICK rd : rd = ReadSteps(input) OBVIOUS
<1>14. /\ Len(rd) = n /\ Unread \in Reading
       /\ \A i \in 1 .. n : /\ rd[i] \in [Reading -> Reading]
                            /\ rd[i] = [s \in Reading |-> Read(s, input[i])]
  BY <1>1, <1>12, <1>13, ReadingSteps
<1>15. PICK c : c = Course(rd, Unread) OBVIOUS
<1>16. Loops(c, rd, Unread, Reading, n)
  <2>1. \A i \in 1 .. n : rd[i] \in [Reading -> Reading] BY <1>14
  <2>2. Len(rd) = n /\ Unread \in Reading /\ n \in Nat BY <1>14
  <2> QED BY <1>15, <2>1, <2>2, CourseOf, Zenon
<1>17. c \in [0 .. n -> Reading] /\ c[0] = Unread /\ \A i \in 1 .. n : c[i] = rd[i][c[i - 1]] BY <1>16 DEF Loops
<1>18. ReadAll(input) = c[n] BY <1>13, <1>14, <1>15 DEF ReadAll, Run
<1> DEFINE T == {i \in 0 .. n : ReadAll(d[i]) = c[i]}
<1>19. 0 \in T
  <2>1. 0 \in 0 .. n /\ ReadAll(d[0]) = c[0] BY <1>10, <1>17, ReadNothing
  <2> QED BY <2>1
<1>20. ASSUME NEW i \in 1 .. n, i - 1 \in T PROVE i \in T
  <2>1. i \in 0 .. n /\ i - 1 \in 0 .. n OBVIOUS
  <2>2. PICK x \in Keys : x = input[i] BY <1>1
  <2>3. PICK y \in S : y = d[i - 1] BY <1>10, <2>1
  <2>4. PICK r \in Reading : r = c[i - 1] BY <1>17, <2>1
  <2>5. ReadAll(y) = r BY <1>20, <2>3, <2>4
  <2>6. d[i] = IF x \in Separators THEN y ELSE Append(y, x)
    <3>1. d[i] = st[i][y] BY <1>10, <2>3
    <3>2. st[i] = [out \in S |-> IF x \in Separators THEN out ELSE Append(out, x)] BY <1>7, <2>2
    <3> HIDE DEF S
    <3> QED BY <3>1, <3>2
  <2>7. c[i] = Read(r, x)
    <3>1. c[i] = rd[i][r] BY <1>17, <2>4
    <3>2. rd[i] = [s \in Reading |-> Read(s, x)] BY <1>14, <2>2
    <3> QED BY <3>1, <3>2
  <2>8. CASE x \in Separators
    <3>1. Read(r, x) = r
      <4>1. x \notin Digits /\ x # "+" BY <2>8 DEF Separators, Digits
      <4> QED BY <2>8, <4>1 DEF Read
    <3>2. ReadAll(d[i]) = c[i] BY <2>5, <2>6, <2>7, <2>8, <3>1
    <3> QED BY <2>1, <3>2
  <2>9. CASE x \notin Separators
    <3>1. y \in Seq(Signs) /\ x \in Signs BY <1>12, <2>2, <2>3 DEF Signs
    <3>2. ReadAll(Append(y, x)) = Read(ReadAll(y), x) BY <3>1, ReadOneMore
    <3>3. ReadAll(d[i]) = c[i] BY <2>5, <2>6, <2>7, <2>9, <3>2
    <3> QED BY <2>1, <3>3
  <2> QED BY <2>8, <2>9
<1> HIDE DEF T
<1>21. n \in T
  <2>1. 0 .. n \subseteq T BY <1>19, <1>20, AllAlong
  <2> QED BY <2>1
<1> QED BY <1>6, <1>11, <1>18, <1>21 DEF T

\* sanitise, by what was read.
LEMMA SanitisedIsRead ==
  ASSUME NEW input
  PROVE  Sanitise(input) = IF ReadAll(input).error = "none" /\ ReadAll(input).digits = <<>>
                             THEN [ReadAll(input) EXCEPT !.error = "Empty"] ELSE ReadAll(input)
BY Zenon DEF Sanitise, ReadAll, ReadSteps, Unread

LEMMA SanitisedOf ==
  ASSUME NEW input \in Seq(Signs)
  PROVE  /\ Sanitise(input).digits \in Seq(Digits) /\ Sanitise(input).plus \in BOOLEAN
<1>1. PICK y : y = ReadAll(input) OBVIOUS
<1>2. y \in Reading
  <2>1. "+" \in Signs BY DEF Signs
  <2> QED BY <1>1, <2>1, ReadOneMore
<1>3. Sanitise(input) = IF y.error = "none" /\ y.digits = <<>> THEN [y EXCEPT !.error = "Empty"] ELSE y
  BY <1>1, SanitisedIsRead
<1>4. PICK z : z = [y EXCEPT !.error = "Empty"] OBVIOUS
<1>5. z.digits = y.digits /\ z.plus = y.plus BY <1>2, <1>4 DEF Reading
<1> QED BY <1>2, <1>3, <1>4, <1>5 DEF Reading

\* A number as it is kept: in a region's plan, and no longer than it may be.
KeptAs(g, nat, m) ==
  /\ g \in Regions /\ nat \in Seq(Digits) /\ nat # <<>>
  /\ LineTypeOf(g, nat) # "unallocated" /\ ~(1 + Len(nat) > MaxE164)
  /\ m = [error |-> "none", e164 |-> <<"+", CodeOf[g]>> \o nat, type |-> LineTypeOf(g, nat)]

LEMMA DialledOf ==
  ASSUME NEW r \in Regions, NEW s, s.digits \in Seq(Digits), NEW at, at = Dial(r, s), at.error = "none"
  PROVE  at.region \in Regions /\ at.national \in Seq(Digits)
<1>1. \A d \in Seq(Digits) : AfterCode(d).error = "none" =>
        AfterCode(d).region \in Regions /\ AfterCode(d).national \in Seq(Digits)
  <2> SUFFICES ASSUME NEW d \in Seq(Digits), AfterCode(d).error = "none"
               PROVE  AfterCode(d).region \in Regions /\ AfterCode(d).national \in Seq(Digits)
    OBVIOUS
  <2> DEFINE owners == {q \in Regions : d # <<>> /\ CodeOf[q] = Head(d)}
  <2>1. CASE owners = {}
    <3>1. AfterCode(d) = [error |-> "UnknownCountryCode"] BY <2>1 DEF AfterCode
    <3> QED BY <3>1
  <2>2. CASE owners # {}
    <3>1. AfterCode(d) = [error |-> "none", region |-> CHOOSE q \in owners : TRUE, national |-> Tail(d)]
      BY <2>2 DEF AfterCode
    <3>2. (CHOOSE q \in owners : TRUE) \in owners BY <2>2
    <3>3. d # <<>> BY <2>2
    <3>4. Tail(d) \in Seq(Digits) BY <3>3
    <3> QED BY <3>1, <3>2, <3>4
  <2> QED BY <2>1, <2>2
<1>2. PICK d \in Seq(Digits) : d = s.digits OBVIOUS
<1>3. PICK idd \in Seq(Digits) : idd = Idd[r] BY MsisdnAssumption
<1>4. CASE Len(d) < 2
  <2>1. at = [error |-> "BadLength"] BY <1>2, <1>4 DEF Dial
  <2> QED BY <2>1
<1>5. CASE ~(Len(d) < 2) /\ s.plus
  <2>1. at = AfterCode(d) BY <1>2, <1>5 DEF Dial
  <2> QED BY <1>1, <2>1
<1>6. CASE ~(Len(d) < 2) /\ ~s.plus /\ IsStrictPrefix(idd, d)
  <2>1. at = AfterCode(SubSeq(d, Len(idd) + 1, Len(d))) BY <1>2, <1>3, <1>6 DEF Dial
  <2>2. SubSeq(d, Len(idd) + 1, Len(d)) \in Seq(Digits) OBVIOUS
  <2> QED BY <1>1, <2>1, <2>2
<1>7. CASE ~(Len(d) < 2) /\ ~s.plus /\ ~IsStrictPrefix(idd, d)
  <2>1. at = [error |-> "none", region |-> r,
              national |-> IF Head(d) = CodeOf[r] /\ d \notin General[r] /\ Tail(d) \in General[r]
                             THEN Tail(d) ELSE d]
    BY <1>2, <1>3, <1>7 DEF Dial
  <2>2. Tail(d) \in Seq(Digits)
    <3>1. d # <<>> BY <1>7
    <3> QED BY <3>1
  <2> QED BY <2>1, <2>2
<1> QED BY <1>4, <1>5, <1>6, <1>7

LEMMA ParsedIsKept ==
  ASSUME NEW r \in Regions, NEW s, s.digits \in Seq(Digits), NEW m, m = Parsed(s, r), m.error = "none"
  PROVE  \E g, nat : KeptAs(g, nat, m)
<1>1. s.error = "none" /\ m = Dialled(Dial(r, s)) BY DEF Parsed, Refused
<1>2. PICK at : at = Dial(r, s) OBVIOUS
<1>3. at.error = "none" /\ m = Judged(at.region, at.national, LineTypeOf(at.region, at.national))
  BY <1>1, <1>2 DEF Dialled, Refused
<1>4. PICK g, nat : g = at.region /\ nat = at.national OBVIOUS
<1>5. g \in Regions /\ nat \in Seq(Digits) BY <1>2, <1>3, <1>4, DialledOf
<1>6. PICK type : type = LineTypeOf(g, nat) OBVIOUS
<1>7. m = Judged(g, nat, type) BY <1>3, <1>4, <1>6
<1>8. \A why \in {"LegacyEightDigit", "Unallocated", "BadLength"} : Refused(why).error # "none" BY DEF Refused
<1>9. ~(1 + Len(nat) > MaxE164) BY <1>7, <1>8 DEF Judged
<1>10. type # "unallocated" BY <1>7, <1>8, <1>9 DEF Judged
<1>11. m = [error |-> "none", e164 |-> <<"+", CodeOf[g]>> \o nat, type |-> type] BY <1>7, <1>9, <1>10 DEF Judged
<1>12. nat # <<>>
  <2>1. nat \in General[g] BY <1>6, <1>10 DEF LineTypeOf
  <2> QED BY <1>5, <2>1, MsisdnAssumption
<1> QED BY <1>5, <1>6, <1>9, <1>10, <1>11, <1>12 DEF KeptAs

\* What stands after a beginning.
LEMMA AfterBeginning ==
  ASSUME NEW a \in Seq(Signs), NEW b \in Seq(Signs), b # <<>>
  PROVE  IsStrictPrefix(a, a \o b) /\ SubSeq(a \o b, Len(a) + 1, Len(a \o b)) = b
<1>1. PICK c \in Seq(Signs) : c = a \o b BY ConcatProperties
<1>2. PICK k \in Nat : k = Len(a) OBVIOUS
<1>3. PICK l \in Nat : l = Len(b) OBVIOUS
<1>4. Len(c) = k + l /\ \A i \in 1 .. k + l : c[i] = IF i <= k THEN a[i] ELSE b[i - k]
  BY <1>1, <1>2, <1>3, ConcatProperties
<1>5. l > 0 BY <1>3
<1>6. SubSeq(a, 1, k) = SubSeq(c, 1, k)
  <2>0. SubSeq(a, 1, k) \in Seq(Signs) /\ SubSeq(c, 1, k) \in Seq(Signs) BY <1>2, <1>4
  <2>1. PICK x \in Seq(Signs) : x = SubSeq(a, 1, k) BY <2>0
  <2>2. PICK y \in Seq(Signs) : y = SubSeq(c, 1, k) BY <2>0
  <2>3. Len(x) = k /\ \A i \in 1 .. k : x[i] = a[i] BY <1>2, <2>1
  <2>4. Len(y) = k /\ \A i \in 1 .. k : y[i] = c[i] BY <1>4, <2>2
  <2>5. ASSUME NEW i \in 1 .. k PROVE x[i] = y[i]
    <3>1. i \in 1 .. k + l /\ i <= k OBVIOUS
    <3>2. c[i] = a[i] BY <1>4, <3>1
    <3> QED BY <2>3, <2>4, <3>2
  <2>6. x = y BY <2>3, <2>4, <2>5
  <2> QED BY <2>1, <2>2, <2>6
<1>7. a # c BY <1>2, <1>4, <1>5
<1>8. SubSeq(c, k + 1, k + l) = b
  <2>0. SubSeq(c, k + 1, k + l) \in Seq(Signs) BY <1>4
  <2>1. PICK y \in Seq(Signs) : y = SubSeq(c, k + 1, k + l) BY <2>0
  <2>2. Len(y) = l /\ \A i \in 1 .. l : y[i] = c[k + i] BY <1>4, <2>1
  <2>3. \A i \in 1 .. l : y[i] = b[i]
    <3> SUFFICES ASSUME NEW i \in 1 .. l PROVE y[i] = b[i] OBVIOUS
    <3>1. k + i \in 1 .. k + l /\ ~(k + i <= k) /\ (k + i) - k = i OBVIOUS
    <3> QED BY <1>4, <2>2, <3>1
  <2>4. y = b BY <1>3, <2>2, <2>3
  <2> QED BY <2>1, <2>4
<1> QED BY <1>1, <1>2, <1>4, <1>6, <1>7, <1>8 DEF IsStrictPrefix, IsPrefix

\* A calling code and a number of its plan, dialled with a plus or with the region's own prefix.
LEMMA ParsedAgain ==
  ASSUME NEW q \in Regions, NEW g, NEW nat, NEW m, KeptAs(g, nat, m), NEW s, s.error = "none",
         \/ s.plus = TRUE /\ s.digits = <<CodeOf[g]>> \o nat
         \/ s.plus = FALSE /\ s.digits = Idd[q] \o (<<CodeOf[g]>> \o nat)
  PROVE  Parsed(s, q) = m
<1>1. PICK code \in Digits : code = CodeOf[g] BY MsisdnAssumption DEF KeptAs
<1>2. nat \in Seq(Digits) /\ nat # <<>> /\ g \in Regions BY DEF KeptAs
<1>3. PICK d \in Seq(Digits) : d = <<code>> \o nat
  <2>1. <<code>> \in Seq(Digits) BY <1>1
  <2> QED BY <1>2, <2>1, ConcatProperties
<1>4. d # <<>> /\ Head(d) = code /\ Tail(d) = nat /\ Len(d) >= 2
  <2>1. <<code>> \in Seq(Digits) /\ Len(<<code>>) = 1 BY <1>1
  <2>2. PICK l \in Nat : l = Len(nat) BY <1>2
  <2>3. l > 0 BY <1>2, <2>2
  <2>4. Len(d) = 1 + l BY <1>2, <1>3, <2>1, <2>2, ConcatProperties
  <2>5. Head(d) = code /\ Tail(d) = nat BY <1>1, <1>2, <1>3
  <2> QED BY <2>3, <2>4, <2>5
<1> DEFINE owners == {p \in Regions : d # <<>> /\ CodeOf[p] = Head(d)}
<1>5. g \in owners BY <1>1, <1>2, <1>4
<1>6. PICK h : h = CHOOSE p \in owners : TRUE OBVIOUS
<1>7. h \in Regions /\ CodeOf[h] = code
  <2>1. h \in owners BY <1>5, <1>6
  <2> QED BY <1>4, <2>1
<1>8. AfterCode(d) = [error |-> "none", region |-> h, national |-> nat] BY <1>4, <1>5, <1>6 DEF AfterCode
<1>9. LineTypeOf(h, nat) = LineTypeOf(g, nat)
  <2>1. General[h] = General[g] /\ Plan[h] = Plan[g] BY <1>1, <1>2, <1>7, MsisdnAssumption
  <2> QED BY <2>1 DEF LineTypeOf, Has
<1>10. Dialled(AfterCode(d)) = m
  <2>1. PICK at : at = AfterCode(d) OBVIOUS
  <2>2. at.error = "none" /\ at.region = h /\ at.national = nat BY <1>8, <2>1
  <2>3. Dialled(at) = Judged(h, nat, LineTypeOf(h, nat)) BY <2>2 DEF Dialled
  <2>4. PICK type : type = LineTypeOf(g, nat) OBVIOUS
  <2>5. Dialled(at) = Judged(h, nat, type) BY <1>9, <2>3, <2>4
  <2>6. Judged(h, nat, type) = [error |-> "none", e164 |-> <<"+", CodeOf[h]>> \o nat, type |-> type]
    BY <2>4 DEF Judged, KeptAs
  <2>7. m = [error |-> "none", e164 |-> <<"+", CodeOf[g]>> \o nat, type |-> type] BY <2>4 DEF KeptAs
  <2> QED BY <1>1, <1>7, <2>1, <2>5, <2>6, <2>7
<1>11. Parsed(s, q) = Dialled(Dial(q, s)) BY DEF Parsed
<1>12. CASE s.plus = TRUE /\ s.digits = d
  <2>1. Dial(q, s) = AfterCode(d) BY <1>4, <1>12 DEF Dial
  <2> QED BY <1>10, <1>11, <2>1
<1>13. CASE s.plus = FALSE /\ s.digits = Idd[q] \o d
  <2>1. PICK a \in Seq(Digits) : a = Idd[q] BY MsisdnAssumption
  <2>2. PICK c \in Seq(Digits) : c = a \o d BY ConcatProperties
  <2>3. Len(c) >= 2
    <3>1. Len(c) = Len(a) + Len(d) BY <2>2, ConcatProperties
    <3>2. Len(a) \in Nat /\ Len(d) \in Nat OBVIOUS
    <3> QED BY <1>4, <3>1, <3>2
  <2>4. IsStrictPrefix(a, c) /\ SubSeq(c, Len(a) + 1, Len(c)) = d
    <3>1. Digits \subseteq Signs BY DEF Signs
    <3>2. a \in Seq(Signs) /\ d \in Seq(Signs) BY <3>1
    <3> QED BY <1>4, <2>2, <3>2, AfterBeginning
  <2>5. s.digits = c /\ ~s.plus BY <1>13, <2>1, <2>2
  <2>6. ~(Len(c) < 2) BY <2>3
  <2>7. Dial(q, s) = AfterCode(SubSeq(c, Len(a) + 1, Len(c))) BY <2>1, <2>3, <2>4, <2>5, <2>6 DEF Dial
  <2> QED BY <1>10, <1>11, <2>4, <2>7
<1> QED BY <1>1, <1>3, <1>12, <1>13

LEMMA OneSpelling == ASSUME typed \in Seq(Keys) PROVE OneNumberPerSubscriber
<1> SUFFICES ASSUME NEW r \in Regions, NEW m, m = ParseIn(typed, r), m.error = "none"
             PROVE  /\ \A q \in Regions :
                         /\ ParseIn(m.e164, q) = m
                         /\ ParseIn(Idd[q] \o SubSeq(m.e164, 2, Len(m.e164)), q) = m
                         /\ ParseMobileIn(m.e164, q).error = ParseMobileIn(typed, r).error
                    /\ ParseIn(Stripped(typed), r) = m
  BY DEF OneNumberPerSubscriber
<1>1. typed \in Seq(Signs)
  <2>1. Keys \subseteq Signs BY DEF Signs
  <2> QED BY <2>1
<1>2. PICK g, nat : KeptAs(g, nat, m)
  <2>1. Sanitise(typed).digits \in Seq(Digits) BY <1>1, SanitisedOf
  <2>2. m = Parsed(Sanitise(typed), r) BY DEF ParseIn
  <2> QED BY <2>1, <2>2, ParsedIsKept
<1>3. PICK code \in Digits : code = CodeOf[g] BY <1>2, MsisdnAssumption DEF KeptAs
<1>4. nat \in Seq(Digits) /\ nat # <<>> /\ m.e164 = <<"+", code>> \o nat BY <1>2, <1>3 DEF KeptAs
<1>5. PICK d \in Seq(Digits) : d = <<code>> \o nat
  <2>1. <<code>> \in Seq(Digits) BY <1>3
  <2> QED BY <1>4, <2>1, ConcatProperties
<1>6. d # <<>> BY <1>3, <1>4, <1>5
<1>7. PICK plus : plus = <<"+">> OBVIOUS
<1>8. plus \in Seq(Signs) /\ Len(plus) = 1 /\ d \in Seq(Signs)
  <2>1. "+" \in Signs /\ Digits \subseteq Signs BY DEF Signs
  <2> QED BY <1>7, <2>1
<1>9. m.e164 = plus \o d
  <2>1. code \in Signs /\ "+" \in Signs /\ Digits \subseteq Signs BY <1>3 DEF Signs
  <2>2. <<code>> \in Seq(Signs) /\ nat \in Seq(Signs) BY <1>4, <2>1
  <2>3. (plus \o <<code>>) \o nat = plus \o (<<code>> \o nat) BY <1>8, <2>2, ConcatAssociative
  <2>4. plus \o <<code>> = <<"+", code>>
    <3>1. PICK p \in Signs : p = "+" BY <2>1
    <3>2. PICK a, b : a = <<p>> /\ b = <<code>> OBVIOUS
    <3>3. a \in Seq(Signs) /\ b \in Seq(Signs) /\ Len(a) = 1 /\ Len(b) = 1 /\ a[1] = p /\ b[1] = code
      BY <2>1, <3>1, <3>2
    <3>4. PICK c \in Seq(Signs) : c = a \o b BY <3>3, ConcatProperties
    <3>5. Len(c) = 2 /\ c[1] = p /\ c[2] = code
      <4>1. PICK k \in Nat : k = Len(a) BY <3>3
      <4>2. PICK l \in Nat : l = Len(b) BY <3>3
      <4>3. Len(c) = k + l /\ \A i \in 1 .. k + l : c[i] = IF i <= k THEN a[i] ELSE b[i - k]
        BY <3>3, <3>4, <4>1, <4>2, ConcatProperties
      <4>4. k = 1 /\ l = 1 BY <3>3, <4>1, <4>2
      <4>5. c[1] = a[1] BY <4>3, <4>4
      <4>6. c[2] = b[1] BY <4>3, <4>4
      <4> QED BY <3>3, <4>3, <4>4, <4>5, <4>6
    <3>6. PICK e : e = <<p, code>> OBVIOUS
    <3>7. e \in Seq(Signs) /\ Len(e) = 2 /\ e[1] = p /\ e[2] = code BY <2>1, <3>1, <3>6
    <3>8. \A i \in 1 .. 2 : c[i] = e[i]
      <4>1. \A i \in 1 .. 2 : i = 1 \/ i = 2 OBVIOUS
      <4> QED BY <3>5, <3>7, <4>1
    <3>9. c = e BY <3>5, <3>7, <3>8
    <3> QED BY <1>7, <3>1, <3>2, <3>4, <3>6, <3>9
  <2> QED BY <1>4, <1>5, <2>3, <2>4
<1>10. SubSeq(m.e164, 2, Len(m.e164)) = d
  <2>1. SubSeq(plus \o d, Len(plus) + 1, Len(plus \o d)) = d BY <1>6, <1>8, AfterBeginning
  <2>2. Len(plus) + 1 = 2 BY <1>8
  <2> QED BY <1>9, <2>1, <2>2
<1>11. ReadAll(plus) = [error |-> "none", digits |-> <<>>, plus |-> TRUE]
  <2>0. <<>> \in Seq(Signs) OBVIOUS
  <2>1. PICK e \in Seq(Signs) : e = <<>> BY <2>0
  <2>2. "+" \in Signs BY DEF Signs
  <2>3. ReadAll(Append(e, "+")) = Read(ReadAll(e), "+") BY <2>2, ReadOneMore
  <2>4. Append(e, "+") = plus BY <1>7, <2>1
  <2>5. ReadAll(e) = Unread BY <2>1, ReadNothing
  <2>6. Read(Unread, "+") = [Unread EXCEPT !.plus = TRUE]
    <3>1. "+" \notin Separators /\ "+" \notin Digits /\ ~Unread.plus /\ Unread.digits = <<>>
      BY DEF Separators, Digits, Unread
    <3> QED BY <3>1 DEF Read
  <2>7. [Unread EXCEPT !.plus = TRUE] = [error |-> "none", digits |-> <<>>, plus |-> TRUE]
    <3>1. PICK x, y, z : x = "none" /\ y = <<>> /\ z = TRUE OBVIOUS
    <3>2. [[error |-> x, digits |-> y, plus |-> FALSE] EXCEPT !.plus = z] = [error |-> x, digits |-> y, plus |-> z]
      OBVIOUS
    <3> QED BY <3>1, <3>2 DEF Unread
  <2> QED BY <2>3, <2>4, <2>5, <2>6, <2>7
<1>12. Sanitise(plus \o d) = [error |-> "none", digits |-> d, plus |-> TRUE]
  <2>1. PICK y : y = ReadAll(plus) OBVIOUS
  <2>2. y.error = "none" /\ y.digits = <<>> /\ y.plus = TRUE BY <1>11, <2>1
  <2>3. ReadAll(plus \o d) = [error |-> y.error, digits |-> y.digits \o d, plus |-> y.plus]
    BY <1>8, <2>1, ReadDigits
  <2>4. <<>> \o d = d BY ConcatEmptySeq
  <2>5. ReadAll(plus \o d) = [error |-> "none", digits |-> d, plus |-> TRUE] BY <2>2, <2>3, <2>4
  <2>6. ReadAll(plus \o d).digits # <<>> BY <1>6, <2>5
  <2> QED BY <2>5, <2>6, SanitisedIsRead
<1>13. ASSUME NEW c \in Seq(Digits), c # <<>>
       PROVE  Sanitise(c) = [error |-> "none", digits |-> c, plus |-> FALSE]
  <2>1. PICK y : y = ReadAll(<<>>) OBVIOUS
  <2>2. y.error = "none" /\ y.digits = <<>> /\ y.plus = FALSE BY <2>1, ReadNothing DEF Unread
  <2>3. <<>> \in Seq(Signs) OBVIOUS
  <2>4. ReadAll(<<>> \o c) = [error |-> y.error, digits |-> y.digits \o c, plus |-> y.plus]
    BY <2>1, <2>3, ReadDigits
  <2>5. <<>> \o c = c BY ConcatEmptySeq
  <2>6. ReadAll(c) = [error |-> "none", digits |-> c, plus |-> FALSE] BY <2>2, <2>4, <2>5
  <2>7. ReadAll(c).digits # <<>> BY <1>13, <2>6
  <2> QED BY <2>6, <2>7, SanitisedIsRead
<1>14. ASSUME NEW q \in Regions PROVE ParseIn(m.e164, q) = m
  <2>1. PICK s : s = Sanitise(plus \o d) OBVIOUS
  <2>2. s.error = "none" /\ s.plus = TRUE /\ s.digits = <<CodeOf[g]>> \o nat BY <1>3, <1>5, <1>12, <2>1
  <2>3. Parsed(s, q) = m BY <1>2, <2>2, ParsedAgain
  <2> QED BY <1>9, <2>1, <2>3 DEF ParseIn
<1>15. ASSUME NEW q \in Regions PROVE ParseIn(Idd[q] \o SubSeq(m.e164, 2, Len(m.e164)), q) = m
  <2>1. PICK a \in Seq(Digits) : a = Idd[q] BY MsisdnAssumption
  <2>2. PICK c \in Seq(Digits) : c = a \o d BY ConcatProperties
  <2>3. c # <<>> BY <1>6, <2>2, ConcatEqualIffEmpty
  <2>4. PICK s : s = Sanitise(c) OBVIOUS
  <2>5. s = [error |-> "none", digits |-> c, plus |-> FALSE] BY <1>13, <2>3, <2>4
  <2>6. s.error = "none" /\ s.plus = FALSE /\ s.digits = Idd[q] \o (<<CodeOf[g]>> \o nat)
    BY <1>3, <1>5, <2>1, <2>2, <2>5
  <2>7. Parsed(s, q) = m BY <1>2, <2>6, ParsedAgain
  <2> QED BY <1>10, <2>1, <2>2, <2>4, <2>7 DEF ParseIn
<1>16. ASSUME NEW q \in Regions PROVE ParseMobileIn(m.e164, q).error = ParseMobileIn(typed, r).error
  BY <1>14 DEF ParseMobileIn
<1>17. ParseIn(Stripped(typed), r) = m
  <2>1. ReadAll(Stripped(typed)) = ReadAll(typed) BY StrippedReadsTheSame
  <2>2. Sanitise(Stripped(typed)) = Sanitise(typed) BY <2>1, SanitisedIsRead
  <2> QED BY <2>2 DEF ParseIn
<1> QED BY <1>14, <1>15, <1>16, <1>17

-----------------------------------------------------------------------------
(* Operators.  The rows that were put in place are the usable ones, the longest *)
(* prefixes first (EntriesInv), so the first that fits is the longest that does. *)

Joined(c, a, b, R, k, l) ==
  c \in Seq(R) /\ Len(c) = k + l /\ \A i \in 1 .. k + l : c[i] = IF i <= k THEN a[i] ELSE b[i - k]

LEMMA Joins ==
  ASSUME NEW R, NEW a \in Seq(R), NEW b \in Seq(R), NEW k, k = Len(a), NEW l, l = Len(b), NEW c, c = a \o b
  PROVE  Joined(c, a, b, R, k, l)
BY ConcatProperties DEF Joined

\* A row put at its place, and the others before and after it.
Inserted(new, out, p, row, R, n) ==
  /\ new \in Seq(R) /\ Len(new) = n + 1
  /\ \A k \in 1 .. n + 1 : new[k] = IF k < p THEN out[k] ELSE IF k = p THEN row ELSE out[k - 1]

LEMMA InsertedAt ==
  ASSUME NEW R, NEW out \in Seq(R), NEW n \in Nat, n = Len(out), NEW p \in 1 .. n + 1, NEW row \in R,
         NEW new, new = InsertAt(out, p, row)
  PROVE  Inserted(new, out, p, row, R, n)
<1>1. PICK a : a = SubSeq(out, 1, p - 1) OBVIOUS
<1>2. PICK b : b = SubSeq(out, p, n) OBVIOUS
<1>3. PICK c : c = <<row>> OBVIOUS
<1>4. a \in Seq(R) /\ Len(a) = p - 1 /\ \A k \in 1 .. p - 1 : a[k] = out[k] BY <1>1
<1>5. b \in Seq(R) /\ Len(b) = n - p + 1 /\ \A k \in 1 .. n - p + 1 : b[k] = out[p + k - 1]
  <2>1. b \in Seq(R) BY <1>2
  <2>2. CASE p <= n BY <1>2, <2>1, <2>2
  <2>3. CASE ~(p <= n)
    <3>1. p = n + 1 BY <2>3
    <3>2. b = <<>> BY <1>2, <3>1, SubSeqEmpty
    <3> QED BY <2>1, <3>1, <3>2
  <2> QED BY <2>2, <2>3
<1>6. c \in Seq(R) /\ Len(c) = 1 /\ c[1] = row BY <1>3
<1>7. PICK ac : ac = a \o c OBVIOUS
<1>8. PICK l \in Nat : l = p - 1 OBVIOUS
<1>9. Len(a) = l BY <1>4, <1>8
<1>10. ac \in Seq(R) /\ Len(ac) = p /\ ac[p] = row /\ \A k \in 1 .. p - 1 : ac[k] = out[k]
  <2>1. ac \in Seq(R) BY <1>4, <1>6, <1>7, ConcatProperties
  <2>2. Len(ac) = l + 1 /\ \A i \in 1 .. l + 1 : ac[i] = IF i <= l THEN a[i] ELSE c[i - l]
    <3>1. Joined(ac, a, c, R, l, 1) BY <1>4, <1>6, <1>7, <1>9, Joins
    <3> QED BY <3>1 DEF Joined
  <2>3. Len(ac) = p BY <1>8, <2>2
  <2>4. ac[p] = row
    <3>1. p \in 1 .. l + 1 /\ ~(p <= l) /\ p - l = 1 BY <1>8
    <3> QED BY <1>6, <2>2, <3>1
  <2>5. ASSUME NEW k \in 1 .. p - 1 PROVE ac[k] = out[k]
    <3>1. k \in 1 .. l + 1 /\ k <= l BY <1>8
    <3> QED BY <1>4, <2>2, <3>1
  <2> QED BY <2>1, <2>3, <2>4, <2>5
<1>11. new = ac \o b BY <1>1, <1>2, <1>3, <1>7 DEF InsertAt
<1>12. PICK z \in Nat : z = n - p + 1 OBVIOUS
<1>13. PICK q \in Nat : q = p OBVIOUS
<1>14. Len(ac) = q /\ Len(b) = z BY <1>5, <1>10, <1>12, <1>13
<1>15. new \in Seq(R) /\ Len(new) = q + z /\ \A i \in 1 .. q + z : new[i] = IF i <= q THEN ac[i] ELSE b[i - q]
  <2>1. Joined(new, ac, b, R, q, z) BY <1>5, <1>10, <1>11, <1>14, Joins
  <2> QED BY <2>1 DEF Joined
<1>16. q + z = n + 1 BY <1>12, <1>13
<1>17. ASSUME NEW k \in 1 .. n + 1
       PROVE  new[k] = IF k < p THEN out[k] ELSE IF k = p THEN row ELSE out[k - 1]
  <2>1. new[k] = IF k <= q THEN ac[k] ELSE b[k - q] BY <1>15, <1>16
  <2>2. CASE k < p
    <3>1. k \in 1 .. p - 1 /\ k <= q BY <1>13, <2>2
    <3> QED BY <1>10, <2>1, <2>2, <3>1
  <2>3. CASE k = p BY <1>10, <1>13, <2>1, <2>3
  <2>4. CASE k > p
    <3>1. k - q \in 1 .. n - p + 1 /\ ~(k <= q) /\ p + (k - q) - 1 = k - 1 BY <1>13, <2>4
    <3> QED BY <1>5, <2>1, <2>4, <3>1
  <2> QED BY <2>2, <2>3, <2>4
<1> QED BY <1>15, <1>16, <1>17 DEF Inserted

\* The entries of the first i rows.
EntriesInv(out, table, i) ==
  /\ \A k \in DOMAIN out : \E j \in 1 .. i : Usable(table[j]) /\ out[k] = table[j]
  /\ \A j \in 1 .. i : Usable(table[j]) => \E k \in DOMAIN out : out[k] = table[j]
  /\ \A a, b \in DOMAIN out : a <= b => Len(out[b].prefix) <= Len(out[a].prefix)

LEMMA PlacedInOrder ==
  ASSUME NEW R, \A x \in R : Len(x.prefix) \in Nat, NEW table, NEW i \in Nat \ {0}, table[i] \in R,
         Usable(table[i]), NEW out \in Seq(R), EntriesInv(out, table, i - 1),
         NEW new, new = Placed(out, table[i])
  PROVE  new \in Seq(R) /\ EntriesInv(new, table, i)
<1>1. PICK n \in Nat : n = Len(out) /\ DOMAIN out = 1 .. n OBVIOUS
<1>2. PICK row \in R : row = table[i] OBVIOUS
<1> DEFINE shorter == {k \in DOMAIN out : Len(out[k].prefix) < Len(row.prefix)}
           places == shorter \cup {n + 1}
<1>3. PICK p : p = Min(places) OBVIOUS
<1>4. p \in places /\ \A k \in places : p <= k
  <2>1. places \subseteq Nat /\ places # {} BY <1>1
  <2> HIDE DEF places
  <2> QED BY <1>3, <2>1, LowestOf
<1>5. p \in 1 .. n + 1 BY <1>1, <1>4
<1>6. new = InsertAt(out, p, row) BY <1>1, <1>2, <1>3 DEF Placed
<1>7. /\ new \in Seq(R) /\ Len(new) = n + 1
      /\ \A k \in 1 .. n + 1 : new[k] = IF k < p THEN out[k] ELSE IF k = p THEN row ELSE out[k - 1]
  <2> HIDE DEF places
  <2>1. Inserted(new, out, p, row, R, n) BY <1>1, <1>2, <1>5, <1>6, InsertedAt
  <2> QED BY <2>1 DEF Inserted
<1>8. DOMAIN new = 1 .. n + 1 BY <1>7
<1>9. \A k \in 1 .. n : out[k] \in R /\ Len(out[k].prefix) \in Nat BY <1>1
<1>10. Len(row.prefix) \in Nat OBVIOUS
<1>11. \A k \in 1 .. n : k < p => Len(row.prefix) <= Len(out[k].prefix)
  <2> SUFFICES ASSUME NEW k \in 1 .. n, k < p PROVE Len(row.prefix) <= Len(out[k].prefix) OBVIOUS
  <2>1. k \notin places BY <1>4, <1>5
  <2>2. ~(Len(out[k].prefix) < Len(row.prefix)) BY <1>1, <2>1
  <2> QED BY <1>9, <1>10, <2>2
<1>12. \A k \in 1 .. n : p <= k => Len(out[k].prefix) <= Len(row.prefix)
  <2> SUFFICES ASSUME NEW k \in 1 .. n, p <= k PROVE Len(out[k].prefix) <= Len(row.prefix) OBVIOUS
  <2>1. p \in 1 .. n /\ p # n + 1 BY <1>5
  <2>2. Len(out[p].prefix) < Len(row.prefix) BY <1>4, <2>1
  <2>3. Len(out[k].prefix) <= Len(out[p].prefix) BY <1>1, <2>1 DEF EntriesInv
  <2>4. PICK x \in Nat, y \in Nat, z \in Nat :
          x = Len(out[k].prefix) /\ y = Len(out[p].prefix) /\ z = Len(row.prefix) BY <1>9, <1>10, <2>1
  <2>5. x <= y /\ y < z BY <2>2, <2>3, <2>4
  <2>6. x <= z BY <2>5
  <2> QED BY <2>4, <2>6
<1> HIDE DEF shorter, places
<1>13. ASSUME NEW k \in DOMAIN new PROVE \E j \in 1 .. i : Usable(table[j]) /\ new[k] = table[j]
  <2>1. CASE k = p
    <3>1. new[k] = table[i] /\ i \in 1 .. i BY <1>2, <1>7, <1>8, <2>1
    <3> QED BY <3>1
  <2>2. CASE k # p
    <3>1. PICK o \in 1 .. n : new[k] = out[o]
      <4>1. CASE k < p
        <5>1. k \in 1 .. n /\ new[k] = out[k] BY <1>5, <1>7, <1>8, <4>1
        <5> QED BY <5>1
      <4>2. CASE k > p
        <5>1. k - 1 \in 1 .. n /\ new[k] = out[k - 1] BY <1>5, <1>7, <1>8, <4>2
        <5> QED BY <5>1
      <4> QED BY <1>5, <1>8, <2>2, <4>1, <4>2
    <3>2. PICK j \in 1 .. i - 1 : Usable(table[j]) /\ out[o] = table[j] BY <1>1 DEF EntriesInv
    <3>3. j \in 1 .. i OBVIOUS
    <3> QED BY <3>1, <3>2, <3>3
  <2> QED BY <2>1, <2>2
<1>14. ASSUME NEW j \in 1 .. i, Usable(table[j]) PROVE \E k \in DOMAIN new : new[k] = table[j]
  <2>1. CASE j = i
    <3>1. p \in DOMAIN new /\ new[p] = table[i] BY <1>2, <1>5, <1>7, <1>8
    <3> QED BY <2>1, <3>1
  <2>2. CASE j # i
    <3>1. j \in 1 .. i - 1 BY <2>2
    <3>2. PICK o \in 1 .. n : out[o] = table[j] BY <1>1, <1>14, <3>1 DEF EntriesInv
    <3>3. CASE o < p
      <4>1. o \in 1 .. n + 1 /\ new[o] = out[o] BY <1>7, <3>3
      <4> QED BY <1>8, <3>2, <4>1
    <3>4. CASE ~(o < p)
      <4>1. o + 1 \in 1 .. n + 1 /\ ~(o + 1 < p) /\ o + 1 # p /\ (o + 1) - 1 = o BY <1>5, <3>4
      <4>2. new[o + 1] = out[o] BY <1>7, <4>1
      <4> QED BY <1>8, <3>2, <4>1, <4>2
    <3> QED BY <3>3, <3>4
  <2> QED BY <2>1, <2>2
<1>15. ASSUME NEW a \in DOMAIN new, NEW b \in DOMAIN new, a <= b
       PROVE  Len(new[b].prefix) <= Len(new[a].prefix)
  <2>0. \A x, y \in 1 .. n : x <= y => Len(out[y].prefix) <= Len(out[x].prefix) BY <1>1 DEF EntriesInv
  <2>1. a \in 1 .. n + 1 /\ b \in 1 .. n + 1 BY <1>8
  <2>2. CASE a = b
    <3>1. new[a] \in R BY <1>7, <1>8
    <3> QED BY <2>2, <3>1
  <2>3. CASE b < p
    <3>1. a \in 1 .. n /\ b \in 1 .. n /\ new[a] = out[a] /\ new[b] = out[b] BY <1>5, <1>7, <1>15, <2>1, <2>3
    <3> QED BY <1>15, <2>0, <3>1
  <2>4. CASE a < p /\ b = p
    <3>1. a \in 1 .. n /\ new[a] = out[a] /\ new[b] = row BY <1>5, <1>7, <2>1, <2>4
    <3> QED BY <1>11, <2>4, <3>1
  <2>5. CASE a < p /\ b > p
    <3>1. a \in 1 .. n /\ b - 1 \in 1 .. n /\ a <= b - 1 BY <1>5, <2>1, <2>5
    <3>2. new[a] = out[a] BY <1>5, <1>7, <2>1, <2>5
    <3>3. new[b] = out[b - 1] BY <1>5, <1>7, <2>1, <2>5
    <3> QED BY <2>0, <3>1, <3>2, <3>3
  <2>6. CASE a = p /\ b > p
    <3>1. b - 1 \in 1 .. n /\ p <= b - 1 BY <1>5, <2>1, <2>6
    <3>2. new[a] = row BY <1>5, <1>7, <2>1, <2>6
    <3>3. new[b] = out[b - 1] BY <1>5, <1>7, <2>1, <2>6
    <3> QED BY <1>12, <3>1, <3>2, <3>3
  <2>7. CASE a > p /\ b > p
    <3>1. a - 1 \in 1 .. n /\ b - 1 \in 1 .. n /\ a - 1 <= b - 1 BY <1>5, <1>15, <2>1, <2>7
    <3>2. new[a] = out[a - 1] BY <1>5, <1>7, <2>1, <2>7
    <3>3. new[b] = out[b - 1] BY <1>5, <1>7, <2>1, <2>7
    <3> QED BY <2>0, <3>1, <3>2, <3>3
  <2> QED BY <1>5, <1>15, <2>1, <2>2, <2>3, <2>4, <2>5, <2>6, <2>7
<1> QED BY <1>7, <1>13, <1>14, <1>15 DEF EntriesInv

\* A row has a place among any others.
LEMMA PlacedAmong ==
  ASSUME NEW R, \A x \in R : Len(x.prefix) \in Nat, NEW row \in R, NEW out \in Seq(R)
  PROVE  Placed(out, row) \in Seq(R)
<1>1. PICK n \in Nat : n = Len(out) /\ DOMAIN out = 1 .. n OBVIOUS
<1> DEFINE places == {k \in DOMAIN out : Len(out[k].prefix) < Len(row.prefix)} \cup {n + 1}
<1>2. PICK p : p = Min(places) OBVIOUS
<1>3. places \subseteq 1 .. n + 1 /\ places # {} BY <1>1
<1>4. places \subseteq Nat BY <1>3
<1>5. PICK new : new = InsertAt(out, p, row) OBVIOUS
<1>6. Placed(out, row) = new BY <1>1, <1>2, <1>5 DEF Placed
<1> HIDE DEF places
<1>7. p \in 1 .. n + 1
  <2>1. p \in places BY <1>2, <1>3, <1>4, LowestOf
  <2> QED BY <1>3, <2>1
<1>8. Inserted(new, out, p, row, R, n) BY <1>1, <1>5, <1>7, InsertedAt
<1> QED BY <1>6, <1>8 DEF Inserted

\* The table is the usable rows in order.
LEMMA EntriesOf ==
  ASSUME NEW table \in PrefixRows, NEW n \in Nat, n = Len(table)
  PROVE  Entries(table) \in Seq(Range(table)) /\ EntriesInv(Entries(table), table, n)
<1>1. PICK R : R = Range(table) OBVIOUS
<1>2. table \in Seq(R) /\ \A x \in R : Len(x.prefix) \in Nat
  <2>1. table \in Seq(R) /\ \A x \in R : x.prefix \in Seq(Range(x.prefix)) BY <1>1, MsisdnAssumption
  <2> QED BY <2>1
<1>3. DOMAIN table = 1 .. n /\ \A i \in 1 .. n : table[i] \in R BY <1>2
<1> DEFINE S == Seq(R)
           steps == [i \in DOMAIN table |-> [out \in S |->
                       IF Usable(table[i]) THEN Placed(out, table[i]) ELSE out]]
<1>4. Entries(table) = Run(steps, <<>>) BY <1>1 DEF Entries
<1>5. Len(steps) = n BY <1>3
<1>6. \A i \in 1 .. n : steps[i] = [out \in S |-> IF Usable(table[i]) THEN Placed(out, table[i]) ELSE out]
  BY <1>3
<1>7. <<>> \in S OBVIOUS
<1> HIDE DEF steps
<1>8. ASSUME NEW i \in 1 .. n PROVE steps[i] \in [S -> S]
  <2>1. \A out \in S : Placed(out, table[i]) \in S BY <1>2, <1>3, PlacedAmong
  <2>2. PICK L : L = S OBVIOUS
  <2>3. \A out \in L : (IF Usable(table[i]) THEN Placed(out, table[i]) ELSE out) \in L BY <2>1, <2>2
  <2>4. steps[i] = [out \in L |-> IF Usable(table[i]) THEN Placed(out, table[i]) ELSE out] BY <1>6, <2>2
  <2>5. steps[i] \in [L -> L] BY <2>3, <2>4, Zenon
  <2> QED BY <2>2, <2>5
<1>9. PICK c : c = Course(steps, <<>>) OBVIOUS
<1>10. Loops(c, steps, <<>>, S, n)
  <2> HIDE DEF S
  <2> QED BY <1>5, <1>7, <1>8, <1>9, CourseOf, Zenon
<1>11. Run(steps, <<>>) = c[n] BY <1>5, <1>9 DEF Run
<1> DEFINE T == {i \in 0 .. n : EntriesInv(c[i], table, i)}
<1>12. 0 \in T
  <2>1. c[0] = <<>> BY <1>10 DEF Loops
  <2>2. EntriesInv(<<>>, table, 0) BY DEF EntriesInv
  <2> QED BY <2>1, <2>2
<1>13. ASSUME NEW i \in 1 .. n, i - 1 \in T PROVE i \in T
  <2>1. EntriesInv(c[i - 1], table, i - 1) BY <1>13
  <2>2. PICK out \in S : out = c[i - 1] BY <1>10 DEF Loops
  <2>3. c[i] = IF Usable(table[i]) THEN Placed(out, table[i]) ELSE out
    <3>1. c[i] = steps[i][out] BY <1>10, <2>2 DEF Loops
    <3>2. PICK L : L = S OBVIOUS
    <3>3. steps[i] = [o \in L |-> IF Usable(table[i]) THEN Placed(o, table[i]) ELSE o] /\ out \in L
      BY <1>6, <2>2, <3>2
    <3> QED BY <3>1, <3>3, Zenon
  <2>4. CASE Usable(table[i])
    <3>1. PICK new : new = Placed(out, table[i]) OBVIOUS
    <3>2. i \in Nat \ {0} OBVIOUS
    <3>3. EntriesInv(new, table, i) BY <1>2, <1>3, <2>1, <2>2, <2>4, <3>1, <3>2, PlacedInOrder
    <3>4. c[i] = new BY <2>3, <2>4, <3>1
    <3>5. i \in 0 .. n OBVIOUS
    <3> QED BY <3>3, <3>4, <3>5
  <2>5. CASE ~Usable(table[i])
    <3>1. c[i] = out BY <2>3, <2>5
    <3>2. EntriesInv(out, table, i)
      <4>1. \A k \in DOMAIN out : \E j \in 1 .. i : Usable(table[j]) /\ out[k] = table[j]
        <5>1. 1 .. i - 1 \subseteq 1 .. i OBVIOUS
        <5> QED BY <2>1, <2>2, <5>1 DEF EntriesInv
      <4>2. ASSUME NEW j \in 1 .. i, Usable(table[j]) PROVE \E k \in DOMAIN out : out[k] = table[j]
        <5>1. j # i BY <2>5, <4>2
        <5>2. j \in 1 .. i - 1 BY <5>1
        <5> QED BY <2>1, <2>2, <4>2, <5>2 DEF EntriesInv
      <4> QED BY <2>1, <2>2, <4>1, <4>2 DEF EntriesInv
    <3>3. i \in 0 .. n OBVIOUS
    <3> QED BY <3>1, <3>2, <3>3
  <2> QED BY <2>4, <2>5
<1> HIDE DEF T
<1>14. n \in T
  <2>1. 0 .. n \subseteq T BY <1>12, <1>13, AllAlong
  <2> QED BY <2>1
<1>15. EntriesInv(c[n], table, n) BY <1>14 DEF T
<1>16. c[n] \in S BY <1>10 DEF Loops
<1> QED BY <1>1, <1>4, <1>11, <1>15, <1>16

\* The first entry that fits is the longest usable row that does.
LEMMA LookedUp ==
  ASSUME NEW table \in PrefixRows, NEW national,
         NEW fit, fit = {i \in DOMAIN table : Usable(table[i]) /\ IsPrefix(table[i].prefix, national)}
  PROVE  LookupNational(table, national) \in
           IF fit = {} THEN {"none"}
           ELSE {table[i].operator : i \in {j \in fit : \A k \in fit : Len(table[k].prefix) <= Len(table[j].prefix)}}
<1>1. table \in Seq(Range(table)) BY MsisdnAssumption
<1>2. PICK n \in Nat : n = Len(table) /\ DOMAIN table = 1 .. n BY <1>1
<1>3. PICK entries : entries = Entries(table) OBVIOUS
<1>4. entries \in Seq(Range(table)) /\ EntriesInv(entries, table, n) BY <1>2, <1>3, EntriesOf
<1> DEFINE matching == {i \in DOMAIN entries : IsPrefix(entries[i].prefix, national)}
<1>5. LookupNational(table, national)
        = IF matching = {} THEN "none" ELSE entries[CHOOSE i \in matching : \A j \in matching : i <= j].operator
  BY <1>3 DEF LookupNational
<1>6. \A j \in fit : \E k \in matching : entries[k] = table[j]
  <2> SUFFICES ASSUME NEW j \in fit PROVE \E k \in matching : entries[k] = table[j] OBVIOUS
  <2>1. j \in 1 .. n /\ Usable(table[j]) /\ IsPrefix(table[j].prefix, national) BY <1>2
  <2>2. PICK k \in DOMAIN entries : entries[k] = table[j] BY <1>4, <2>1 DEF EntriesInv
  <2> QED BY <2>1, <2>2
<1>7. \A k \in matching : \E j \in fit : entries[k] = table[j]
  <2> SUFFICES ASSUME NEW k \in matching PROVE \E j \in fit : entries[k] = table[j] OBVIOUS
  <2>1. PICK j \in 1 .. n : Usable(table[j]) /\ entries[k] = table[j] BY <1>4 DEF EntriesInv
  <2>2. j \in fit BY <1>2, <2>1
  <2> QED BY <2>1, <2>2
<1>8. matching \subseteq Nat BY <1>4
<1>9. \A a, b \in matching : a <= b => Len(entries[b].prefix) <= Len(entries[a].prefix) BY <1>4 DEF EntriesInv
<1> HIDE DEF matching
<1>10. CASE fit = {}
  <2>1. matching = {} BY <1>7, <1>10
  <2> QED BY <1>5, <1>10, <2>1
<1>11. CASE fit # {}
  <2>1. matching # {} BY <1>6, <1>11
  <2>2. PICK x : x = CHOOSE i \in matching : \A j \in matching : i <= j OBVIOUS
  <2>3. x \in matching /\ \A j \in matching : x <= j
    <3>1. \E i \in matching : \A j \in matching : i <= j BY <1>8, <2>1, LeastOf
    <3> QED BY <2>2, <3>1
  <2>4. PICK j \in fit : entries[x] = table[j] BY <1>7, <2>3
  <2>5. ASSUME NEW k \in fit PROVE Len(table[k].prefix) <= Len(table[j].prefix)
    <3>1. PICK y \in matching : entries[y] = table[k] BY <1>6
    <3>2. Len(entries[y].prefix) <= Len(entries[x].prefix) BY <1>9, <2>3
    <3> QED BY <2>4, <3>1, <3>2
  <2>6. LookupNational(table, national) = table[j].operator BY <1>5, <2>1, <2>2, <2>4
  <2> QED BY <1>11, <2>5, <2>6
<1> QED BY <1>10, <1>11

LEMMA LongestWins == ASSUME prefixRows \in PrefixRows PROVE LongestPrefixWins
<1>1. ASSUME NEW national, NEW fit,
             fit = {i \in DOMAIN prefixRows : Usable(prefixRows[i]) /\ IsPrefix(prefixRows[i].prefix, national)}
      PROVE  LookupNational(prefixRows, national) \in
               IF fit = {} THEN {"none"}
               ELSE {prefixRows[i].operator : i \in
                       {j \in fit : \A k \in fit : Len(prefixRows[k].prefix) <= Len(prefixRows[j].prefix)}}
  BY <1>1, LookedUp
<1> QED BY <1>1 DEF LongestPrefixWins

-----------------------------------------------------------------------------
\* What was typed is a text, and the table is one of those it is looked up in.
TextInv == body \in Seq(Chars) /\ typed \in Seq(Keys) /\ prefixRows \in PrefixRows

LEMMA TextsStart == TInit => TextInv
BY DEF TInit, EInit, NInit, TextInv

LEMMA TextsStep == TextInv /\ [TNext]_<<evars, nvars>> => TextInv'
<1> SUFFICES ASSUME TextInv, [TNext]_<<evars, nvars>> PROVE TextInv' OBVIOUS
<1>1. CASE ENext /\ UNCHANGED nvars
  <2>1. PICK c \in Chars : Type(c) BY <1>1 DEF ENext
  <2>2. body' \in Seq(Chars) BY <2>1 DEF Type, TextInv
  <2> QED BY <1>1, <2>2 DEF TextInv, nvars
<1>2. CASE NNext /\ UNCHANGED evars
  <2>1. PICK c \in Keys : Press(c) BY <1>2 DEF NNext
  <2>2. typed' \in Seq(Keys) /\ prefixRows' = prefixRows BY <2>1 DEF Press, TextInv
  <2> QED BY <1>2, <2>2 DEF TextInv, evars
<1>3. CASE UNCHANGED <<evars, nvars>> BY <1>3 DEF TextInv, evars, nvars
<1> QED BY <1>1, <1>2, <1>3 DEF TNext

\* Whatever body is typed it is packed into the fewest parts its alphabet allows, whatever
\* number is typed has one spelling wherever it is dialled from, and its operator is that of the
\* longest prefix any row gives it (Encoding::analyse and pack, Msisdn::parse_in,
\* OperatorPrefixTable::lookup_national), for texts of any length, any plans and any tables.
THEOREM TextsHold == TSpec => []TextsAreReadRight
<1>1. TextInv => TextsAreReadRight
  BY BodiesPack, OneSpelling, LongestWins DEF TextInv, TextsAreReadRight, NumbersAgree
<1> QED BY TextsStart, TextsStep, <1>1, PTL DEF TSpec
=============================================================================
