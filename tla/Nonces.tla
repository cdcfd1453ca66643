------------------------------- MODULE Nonces -------------------------------
(***************************************************************************)
(* The table of envelope nonces: record_if_unseen of PgNonceStore          *)
(* (sms-api envelope.rs) run by several requests at once, on any replica,  *)
(* while the job sweep_envelope_nonces deletes expired rows.  Every        *)
(* statement is a transaction of its own, so steps of all of them          *)
(* interleave.  A row is identified by the attempt that inserted it: an    *)
(* attempt inserts at most one.                                            *)
(***************************************************************************)
EXTENDS Naturals, FiniteSets

CONSTANTS
  NonceNames,  \* nonces
  Attempts,    \* bound: calls of record_if_unseen
  Window,      \* time a nonce is kept, in ticks
  MaxClock,    \* bound: the clock
  NoRow

ASSUME NoncesAssumption ==
  /\ Window \in Nat \ {0} /\ MaxClock \in Nat
  /\ NoRow \notin [by : Attempts, exp : Nat]

VARIABLES
  nrow,    \* nonce -> its row (the column is unique)
  call,    \* attempt -> its progress
  sweep,   \* the running sweep: the rows it still deletes
  clock,
  won      \* nonce -> the row of its last acceptance (history)

nvars == <<nrow, call, sweep, clock, won>>

Fresh == [at |-> "new"]
Closed(ok) == [at |-> IF ok THEN "accepted" ELSE "refused"]

(* The row of a nonce is the unique constraint's: an insert of a second one fails. *)
InsertRow(a, onDuplicate) ==
  LET c == call[a]
  IN IF nrow[c.nonce] = NoRow
       THEN /\ nrow' = [nrow EXCEPT ![c.nonce] = [by |-> a, exp |-> c.exp]]
            /\ call' = [call EXCEPT ![a] = Closed(TRUE)]
            /\ won' = [won EXCEPT ![c.nonce] = nrow'[c.nonce]]
       ELSE /\ call' = [call EXCEPT ![a] = onDuplicate]
            /\ UNCHANGED <<nrow, won>>

(* A verified envelope arrives with its nonce, to be kept for the window. *)
Arrive(a, n) ==
  /\ call[a] = Fresh
  /\ call' = [call EXCEPT ![a] = [at |-> "insert", nonce |-> n, exp |-> clock + Window, seen |-> NoRow]]
  /\ UNCHANGED <<nrow, sweep, clock, won>>

RecordInsert(a) ==
  /\ call[a].at = "insert"
  /\ InsertRow(a, [call[a] EXCEPT !.at = "read"])
  /\ UNCHANGED <<sweep, clock>>

(* The row in the way is read: gone, still valid, or expired and to be deleted. *)
RecordRead(a) ==
  /\ call[a].at = "read"
  /\ LET r == nrow[call[a].nonce]
     IN call' = [call EXCEPT ![a] =
          IF r = NoRow THEN [@ EXCEPT !.at = "again"]
          ELSE IF r.exp > clock THEN Closed(FALSE)
          ELSE [@ EXCEPT !.at = "delete", !.seen = r.by]]
  /\ UNCHANGED <<nrow, sweep, clock, won>>

(* Variant: deletion by nonce, whoever's row it is by now. *)
DeleteRowByNonce(n, id) == [nrow EXCEPT ![n] = NoRow]

(* Deletion by id: a row that is gone, or another one in its place, is left alone. *)
DeleteRow(n, id) == IF nrow[n] # NoRow /\ nrow[n].by = id THEN [nrow EXCEPT ![n] = NoRow] ELSE nrow

RecordDelete(a) ==
  /\ call[a].at = "delete"
  /\ nrow' = DeleteRow(call[a].nonce, call[a].seen)
  /\ call' = [call EXCEPT ![a].at = "again"]
  /\ UNCHANGED <<sweep, clock, won>>

(* insert_once_more: a duplicate now is a request that was faster. *)
RecordAgain(a) ==
  /\ call[a].at = "again"
  /\ InsertRow(a, Closed(FALSE))
  /\ UNCHANGED <<sweep, clock>>

(* run_at: a batch of expired rows is read, and each is deleted by its id. *)
SweepRead ==
  /\ sweep = {}
  /\ sweep' = {<<n, nrow[n].by>> : n \in {x \in NonceNames : nrow[x] # NoRow /\ nrow[x].exp < clock}}
  /\ sweep' # {}
  /\ UNCHANGED <<nrow, call, clock, won>>

SweepDelete(n, id) ==
  /\ <<n, id>> \in sweep
  /\ nrow' = DeleteRow(n, id)
  /\ sweep' = sweep \ {<<n, id>>}
  /\ UNCHANGED <<call, clock, won>>

NTick ==
  /\ clock < MaxClock
  /\ clock' = clock + 1
  /\ UNCHANGED <<nrow, call, sweep, won>>

NInit ==
  /\ nrow = [n \in NonceNames |-> NoRow]
  /\ call = [a \in Attempts |-> Fresh]
  /\ sweep = {}
  /\ clock = 1
  /\ won = [n \in NonceNames |-> NoRow]

NNext ==
  \/ \E a \in Attempts :
       \/ \E n \in NonceNames : Arrive(a, n)
       \/ RecordInsert(a)
       \/ RecordRead(a)
       \/ RecordDelete(a)
       \/ RecordAgain(a)
  \/ SweepRead
  \/ \E n \in NonceNames, id \in Attempts : SweepDelete(n, id)
  \/ NTick

NSpec == NInit /\ [][NNext]_nvars

(* A nonce is accepted once in its window: it is accepted again only when the expiry given
   to its last acceptance has passed, with requests and sweeps deleting and inserting its
   row at the same time (record_if_unseen in envelope.rs). *)
AcceptedOnceInWindow ==
  [][\A n \in NonceNames : won'[n] # won[n] => won[n] = NoRow \/ won[n].exp <= clock]_nvars
=============================================================================
