---------------------------- MODULE DispatchLife ----------------------------
(* The send path implements MessageLife: a row's state is where its message is, what the
   providers took are its copies, and the receipts that made it undelivered are what it
   lost.  It does so while no dispatcher dies and no write fails: a death after a provider
   took the message and before the row says so hands it over again. *)
EXTENDS Dispatch

LifeOf(state) ==
  CASE state \in {"accepted", "queued", "undelivered"} -> "waiting"
    [] state = "routed"    -> "trying"
    [] state = "submitted" -> "held"
    [] state = "uncertain" -> "unknown"
    [] OTHER               -> state

Promise == INSTANCE MessageLife WITH
  Msgs <- Messages,
  life <- [m \in Messages |-> LifeOf(rows[m].state)],
  copies <- [m \in Messages |-> Len(sent[m])],
  lost <- refuted

\* Claims, leases, submissions, receipts and expiry, in every order they can meet, do to a
\* message only what MessageLife allows: in particular a row is never put back to be tried
\* while a carrier has it (take_lease, write_transition, next_state, expire_matching), and
\* an unknown one is never handed over again ("`uncertain` is never resubmitted").
ImplementsMessageLife == Promise!LSpec
=============================================================================
