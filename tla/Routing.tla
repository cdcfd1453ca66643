------------------------------ MODULE Routing ------------------------------
(***************************************************************************)
(* Which route a message takes, and what its provider's failures do to     *)
(* the next ones: select_route (sms-routing engine.rs), the reads around   *)
(* it in the worker (sms-worker routing.rs), failover and the provider's   *)
(* circuit breaker (dispatch.rs, breaker.rs).  Routes and providers are    *)
(* read by two statements, a provider's row is read before the submission  *)
(* and written after it under if_match, and submissions run side by side.  *)
(***************************************************************************)
EXTENDS Integers, FiniteSets, FiniteSetsExt

CONSTANTS
  RouteIds,      \* ids of routes: numbers, in the order of the ids
  ProviderIds,
  RouteTable,    \* tables the run starts from: functions from RouteIds to routes
  Candidate,     \* the message: operator, class, app and the prefixes of its national number
  DrawUnits,     \* a draw is a multiple of 1/DrawUnits
  Draws,         \* the multiples that submissions draw; the properties are of all of them
  Slots,         \* submissions that may run at once
  MaxHops,       \* MAX_FAILOVER_HOPS
  Threshold,     \* PROVIDER_BREAKER.failure_threshold
  OpenTime,      \* PROVIDER_BREAKER.open_duration, in ticks
  Unset            \* a predicate that is not set

(* A route's row: a priority and a weight, and what it asks of a message. *)
IsRow(r) ==
  r \in [priority : Int, weight : Int, enabled : BOOLEAN, operator : {r.operator}, class : {r.class},
         app : {r.app}, prefix : {r.prefix}, provider : {r.provider}]

ASSUME RoutingAssumption ==
  /\ RouteIds \subseteq Nat /\ IsFiniteSet(RouteIds) /\ DrawUnits \in Nat \ {0}
  /\ Draws \subseteq 0..DrawUnits - 1 /\ MaxHops \in Nat
  /\ Threshold \in Nat \ {0} /\ OpenTime \in Nat \ {0} /\ IsFiniteSet(Slots)
  /\ \A table \in RouteTable : DOMAIN table = RouteIds /\ \A id \in RouteIds : IsRow(table[id])

VARIABLES
  route,      \* the Route rows
  prov,       \* the Provider rows
  slot,       \* slot -> the message it is submitting (`been`, the routes it has been sent over
              \* since it was claimed, is history)
  fails       \* provider -> Unavailable answers since its row was last reset or opened that the
              \* database gave an answer to (counted, or refused by if_match); an operator's edit
              \* takes it back to what the row counts (history)

rvars == <<route, prov, slot, fails>>

Never == -1     \* circuitOpenUntil is null

---------------------------------------------------------------------------
(* The engine *)

(* failing_predicate: what is set must match. *)
Fits(r) ==
  /\ r.operator \in {Unset, Candidate.operator}
  /\ r.class \in {Unset, Candidate.class}
  /\ r.app \in {Unset, Candidate.app}
  /\ r.prefix = Unset \/ r.prefix \in Candidate.prefixes

(* evaluate_one: the first reason a route is out, or eligible. *)
Outcome(routes, avail, exclude, id) ==
  CASE id \in exclude                        -> "excluded"
    [] ~routes[id].enabled                   -> "disabled"
    [] ~Fits(routes[id])                     -> "predicate_failed"
    [] routes[id].provider \notin avail      -> "provider_unavailable"
    [] OTHER                                 -> "eligible"

Eligible(routes, avail, exclude) ==
  {id \in RouteIds : Outcome(routes, avail, exclude, id) = "eligible"}

(* The eligible routes of the highest priority; the query's order is that of their ids. *)
Band(routes, avail, exclude) ==
  LET ok == Eligible(routes, avail, exclude)
  IN {id \in ok : \A k \in ok : routes[k].priority <= routes[id].priority}

Clamp(draw) == IF draw < 0 THEN 0 ELSE IF draw >= DrawUnits THEN DrawUnits - 1 ELSE draw

(* What the routes of a set weigh together, as the number of tickets they hold: as many as
   its weight for each, and none for one of a negative weight. *)
Tickets(routes, ids) == UNION {{id} \X (1 .. routes[id].weight) : id \in ids}
WeightOf(routes, ids) == Cardinality(Tickets(routes, ids))

(* Each route's share ends where the next one's begins: as long as its weight, or all of them
   the same when no weight is positive. *)
ShareEnd(routes, band, id) ==
  LET upTo == {k \in band : k <= id}
  IN IF WeightOf(routes, band) = 0 THEN Cardinality(upTo) ELSE WeightOf(routes, upTo)
Denom(routes, band) ==
  IF WeightOf(routes, band) = 0 THEN Cardinality(band) ELSE WeightOf(routes, band)

(* Variant: the end of a share belongs to the route before it. *)
FallsBeforeInclusive(routes, band, draw) ==
  {id \in band : draw * Denom(routes, band) <= ShareEnd(routes, band, id) * DrawUnits}

(* The routes before whose end the draw falls. *)
FallsBefore(routes, band, draw) ==
  {id \in band : draw * Denom(routes, band) < ShareEnd(routes, band, id) * DrawUnits}

(* pick_weighted: the first of them, or the last of all. *)
PickWeighted(routes, band, draw) ==
  LET hit == FallsBefore(routes, band, draw)
  IN IF hit = {} THEN Max(band) ELSE Min(hit)

(* select_route: the winners, one or none. *)
SelectRoute(routes, avail, exclude, draw) ==
  LET band == Band(routes, avail, exclude)
  IN IF Cardinality(band) <= 1 THEN band ELSE {PickWeighted(routes, band, Clamp(draw))}

(* convert_provider: which providers are available, the circuit counted in. *)
WorkerAvailable == {p \in ProviderIds : prov[p].active /\ prov[p].open <= 0}

---------------------------------------------------------------------------
(* The worker *)

Idle == [at |-> "idle"]

(* decide reads the routes ... *)
ReadRoutes(s, exclude, been) ==
  slot' = [slot EXCEPT ![s] = [at |-> "routes", table |-> route, exclude |-> exclude, been |-> been]]

(* A message is claimed and to be routed. *)
StartRouting(s) ==
  /\ slot[s].at = "idle"
  /\ ReadRoutes(s, {}, {})
  /\ UNCHANGED <<route, prov, fails>>

(* ... and then the providers, draws, and selects. *)
Select(s, draw) ==
  /\ slot[s].at = "routes"
  /\ LET won == SelectRoute(slot[s].table, WorkerAvailable, slot[s].exclude, draw)
     IN slot' = [slot EXCEPT ![s] =
          IF won = {} THEN Idle
          ELSE [at |-> "routed", exclude |-> slot[s].exclude, been |-> slot[s].been, via |-> won,
                provider |-> {slot[s].table[id].provider : id \in won}]]
  /\ UNCHANGED <<route, prov, fails>>

(* resolve_provider: the provider's row is read, and the message submitted. *)
Resolve(s, p) ==
  /\ slot[s].at = "routed" /\ p \in slot[s].provider
  /\ slot' = [slot EXCEPT ![s] =
       [at |-> "submitted", exclude |-> slot[s].exclude, been |-> slot[s].been, via |-> slot[s].via,
        p |-> p, failures |-> prov[p].failures, wasOpen |-> prov[p].open # Never, match |-> TRUE]]
  /\ UNCHANGED <<route, prov, fails>>

(* A write of a provider's row is a new version of it: every copy of it fails if_match. *)
Outdate(p, s, then) ==
  slot' = [t \in Slots |-> IF t = s THEN then
             ELSE IF slot[t].at = "submitted" /\ slot[t].p = p THEN [slot[t] EXCEPT !.match = FALSE]
             ELSE slot[t]]

(* Accepted: reset_provider_failures, unless there is nothing to reset in the copy. *)
Accepted(s) ==
  /\ slot[s].at = "submitted"
  /\ LET p == slot[s].p
     IN IF slot[s].match /\ (slot[s].failures # 0 \/ slot[s].wasOpen)
          THEN /\ prov' = [prov EXCEPT ![p].failures = 0, ![p].open = Never]
               /\ fails' = [fails EXCEPT ![p] = 0]
               /\ Outdate(p, s, Idle)
          ELSE slot' = [slot EXCEPT ![s] = Idle] /\ UNCHANGED <<prov, fails>>
  /\ UNCHANGED route

(* Variant: the circuit opens one failure late. *)
OnFailureLate(failures) ==
  [opens |-> failures + 1 > Threshold, failures |-> IF failures + 1 > Threshold THEN 0 ELSE failures + 1]

(* breaker::on_failure, of the count read before the submission. *)
OnFailure(failures) ==
  [opens |-> failures + 1 >= Threshold, failures |-> IF failures + 1 >= Threshold THEN 0 ELSE failures + 1]

Matches(s) == slot[s].match

ToFailover(s) ==
  [at |-> "failover", exclude |-> slot[s].exclude, been |-> slot[s].been, via |-> slot[s].via]

(* Unavailable: record_provider_failure, and on to failover. *)
Unavailable(s) ==
  /\ slot[s].at = "submitted"
  /\ LET p == slot[s].p
         new == OnFailure(slot[s].failures)
     IN IF Matches(s)
          THEN /\ prov' = [prov EXCEPT ![p].failures = new.failures,
                                       ![p].open = IF new.opens THEN OpenTime ELSE @]
               /\ fails' = [fails EXCEPT ![p] = IF new.opens THEN 0 ELSE @ + 1]
               /\ Outdate(p, s, ToFailover(s))
          ELSE /\ fails' = [fails EXCEPT ![p] = @ + 1]
               /\ slot' = [slot EXCEPT ![s] = ToFailover(s)]
               /\ UNCHANGED prov
  /\ UNCHANGED route

(* Unavailable, and the database fails: record_provider_failure warns, the count is lost
   whatever the copy, and failover goes on as before. *)
UnavailableUnrecorded(s) ==
  /\ slot[s].at = "submitted"
  /\ slot' = [slot EXCEPT ![s] = ToFailover(s)]
  /\ UNCHANGED <<route, prov, fails>>

(* Permanent, or no such provider or adapter: failover without a word to the breaker. *)
Permanent(s) ==
  /\ slot[s].at = "submitted"
  /\ slot' = [slot EXCEPT ![s] = ToFailover(s)]
  /\ UNCHANGED <<route, prov, fails>>

(* Any other answer, an acceptance whose reset the database fails to write, or the death of
   the process, ends the submission. *)
Ends(s) ==
  /\ slot[s].at \in {"routed", "submitted", "failover"}
  /\ slot' = [slot EXCEPT ![s] = Idle]
  /\ UNCHANGED <<route, prov, fails>>

Tried(exclude, via) == exclude \cup via

(* attempt_failover: MAX_FAILOVER_HOPS routes may have been left, then it is exhausted. *)
Failover(s) ==
  /\ slot[s].at = "failover"
  /\ LET tried == Tried(slot[s].exclude, slot[s].via)
     IN IF Cardinality(tried) > MaxHops THEN slot' = [slot EXCEPT ![s] = Idle]
        ELSE ReadRoutes(s, tried, slot[s].been \cup slot[s].via)
  /\ UNCHANGED <<route, prov, fails>>

(* An operator switches a route or a provider. *)
SwitchRoute(id) ==
  /\ route' = [route EXCEPT ![id].enabled = ~@]
  /\ UNCHANGED <<prov, slot, fails>>

SwitchProvider(p) ==
  /\ prov' = [prov EXCEPT ![p].active = ~@]
  /\ slot' = [t \in Slots |-> IF slot[t].at = "submitted" /\ slot[t].p = p
                               THEN [slot[t] EXCEPT !.match = FALSE] ELSE slot[t]]
  /\ fails' = [fails EXCEPT ![p] = prov[p].failures]
  /\ UNCHANGED route

(* Time passes for the open circuits; circuitOpenUntil stays set when it is past. *)
CircuitTick ==
  /\ \E p \in ProviderIds : prov[p].open > 0
  /\ prov' = [p \in ProviderIds |-> IF prov[p].open > 0 THEN [prov[p] EXCEPT !.open = @ - 1] ELSE prov[p]]
  /\ UNCHANGED <<route, slot, fails>>

RInit ==
  /\ route \in RouteTable
  /\ prov \in [ProviderIds -> [active : BOOLEAN, failures : {0}, open : {Never}]]
  /\ slot = [s \in Slots |-> Idle]
  /\ fails = [p \in ProviderIds |-> 0]

RNext ==
  \/ \E s \in Slots :
       \/ StartRouting(s)
       \/ \E draw \in Draws : Select(s, draw)
       \/ \E p \in ProviderIds : Resolve(s, p)
       \/ Accepted(s)
       \/ Unavailable(s)
       \/ UnavailableUnrecorded(s)
       \/ Permanent(s)
       \/ Ends(s)
       \/ Failover(s)
  \/ \E id \in RouteIds : SwitchRoute(id)
  \/ \E p \in ProviderIds : SwitchProvider(p)
  \/ CircuitTick

RSpec == RInit /\ [][RNext]_rvars

---------------------------------------------------------------------------
(* Properties *)

(* select_route against what routing means: there is a winner when some route is eligible,
   it is eligible and of the highest priority, and over all draws the routes of that
   priority win in proportion to their weights, or equally when none has a weight, each as
   near to its share as whole draws allow: by less than one draw, and exactly when the shares
   are whole (select_route and pick_weighted in engine.rs, at every range's edge). *)
FairShares(routes, avail, exclude) ==
  LET ok == Eligible(routes, avail, exclude)
      won(draw) == SelectRoute(routes, avail, exclude, draw)
      top == {id \in ok : \A k \in ok : routes[k].priority <= routes[id].priority}
      weight(id) == IF routes[id].weight > 0 THEN routes[id].weight ELSE 0
      unweighted == \A id \in top : weight(id) = 0
      share(id) == IF unweighted THEN 1 ELSE weight(id)
      total == IF unweighted THEN Cardinality(top) ELSE WeightOf(routes, top)
      wins(id) == Cardinality({draw \in 0 .. DrawUnits - 1 : id \in won(draw)})
  IN /\ \A draw \in -1 .. DrawUnits + 1 :
          won(draw) \subseteq top /\ Cardinality(won(draw)) = IF ok = {} THEN 0 ELSE 1
     /\ \A id \in top : /\ wins(id) * total < share(id) * DrawUnits + total
                        /\ wins(id) * total + total > share(id) * DrawUnits

(* It depends on the tables alone, so the states with no submission under way are enough. *)
WinnersAreFair == (\A s \in Slots : slot[s] = Idle) => FairShares(route, WorkerAvailable, {})

(* Failover moves on: from its claim on, a message is never sent over a route it has been
   sent over, and over at most MAX_FAILOVER_HOPS others, although routes and providers come
   and go between the decisions (attempt_failover in dispatch.rs). *)
FailoverMovesOn ==
  \A s \in Slots : slot[s].at \in {"routed", "submitted"} =>
     /\ slot[s].via \cap slot[s].been = {}
     /\ Cardinality(slot[s].been) <= MaxHops

(* Among the routes of the highest priority that a message may take, the draw gives each its
   share (select_route, pick_weighted), in every table and as routes and providers are
   switched; and a failover gives a message a route it has not been on (attempt_failover). *)
RoutesAreFair == WinnersAreFair /\ FailoverMovesOn

(* A circuit opens for failures that happened and in time: never with fewer than the
   threshold of them since the provider last accepted a message with a reset or opened,
   whatever submissions answer in between with counts read long before; and although
   failures recorded at once refuse each other, of n submissions side by side one at least
   is counted, so a circuit stays closed for no more than n failures for each one of the
   threshold (record_provider_failure under if_match, which drops the others). Failures
   the database fails to record are in neither count: while it does, nothing opens. *)
CircuitOpensWhenDue ==
  [][\A p \in ProviderIds :
       /\ prov'[p].open > prov[p].open => fails[p] + 1 >= Threshold
       /\ fails'[p] <= Cardinality(Slots) * Threshold]_rvars
============================================================================
