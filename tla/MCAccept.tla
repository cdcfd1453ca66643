------------------------------ MODULE MCAccept ------------------------------
(***************************************************************************)
(* Two explorations of Accept from every initial state: the callers with   *)
(* all they can do while the drain sleeps, and the drain with all it can   *)
(* meet once one message is inserted.                                      *)
(***************************************************************************)
EXTENDS Accept, TLC
CONSTANTS s1, s2, h1, h2, p1, p2, d1, d2
VARIABLE focus

Kind(class, ref, key) == [class |-> class, ref |-> ref, httpKey |-> key]
MCKinds == {Kind("otp", TRUE, FALSE), Kind("otp", FALSE, TRUE),
            Kind("marketing", TRUE, TRUE), Kind("marketing", FALSE, FALSE)}
MCEvents == Sends \X (0..MaxTries - 1) \X {"created", "updated"}

(* Sends meet only in the quota's count, so the two are of one kind. *)
MCInit ==
  /\ Init
  /\ \/ /\ focus = "callers" /\ active = {p1}
        /\ send[s1] = send[s2]
     \/ focus = "drain" /\ \A s \in Sends : send[s] = Kind("otp", TRUE, FALSE)

Callers == focus = "callers" /\ Next /\ drainer' = drainer /\ faults' = faults /\ silent' = silent
           /\ (event' = event \/ messages' # messages)
DrainRuns ==
  /\ focus = "drain"
  /\ Next /\ changes' = 0 /\ handler'[h2] = Free /\ tries'[s1] <= 1 /\ tries'[s2] = 0
  /\ messages # {} => UNCHANGED avars

MCNext == (Callers \/ DrainRuns) /\ focus' = focus

MCSpec ==
  MCInit /\ [][MCNext]_<<vars, focus>>
  /\ \A d \in Drainers : WF_<<vars, focus>>(focus = "drain" /\ Drain(d) /\ UNCHANGED <<avars, focus>>)

(* Every event gets through, in the exploration in which the drain runs: the outbox is empty
   again in the end, however the endpoints change and although some of the subscriber's
   statements fail (the tick of drain.rs comes every TICK_INTERVAL and takes again what an
   earlier one left). *)
OutboxEmpties ==
  focus = "drain" /\ (\E e \in Events : event[e] = "undelivered")
     ~> \A e \in Events : event[e] # "undelivered"
=============================================================================
