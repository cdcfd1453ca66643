--------------------------- MODULE Dispatch_proofs ---------------------------
(***************************************************************************)
(* Safety of Dispatch for every number of messages, dispatchers and        *)
(* receivers, every table of routes and every setting of the limits and    *)
(* timers.                                                                 *)
(*                                                                         *)
(* The argument is the one the code relies on.  Every writer decides on a  *)
(* copy of the row.  A copy never has a version newer than the row's, and  *)
(* a copy whose version is the row's agrees with it in every column the    *)
(* decision reads (GoodCopies): versions only grow, and no write leaves    *)
(* the version as it was.  A write that passes if_match is therefore a     *)
(* decision on the current row, and only the copies whose version has been *)
(* passed by can be wrong; their writes have no effect.                    *)
(*                                                                         *)
(* The second half proves that the send path implements MessageLife while  *)
(* nothing fails, from the same invariant and from where the copies of a   *)
(* message are (LinkInv).                                                  *)
(***************************************************************************)
EXTENDS DispatchLife, FiniteSetTheorems, TLAPS

\* The columns a decision reads, timers apart.
Same(r, s) == /\ r.state = s.state
              /\ r.attempts = s.attempts
              /\ r.route = s.route
              /\ r.excluded = s.excluded

\* The reference of row r is one its provider gave, given what was sent.
HasReference(log, r) == /\ r.ref \in DOMAIN log
                        /\ log[r.ref] = ProviderOf[r.route]

\* What holds of each row by itself: an unsent message has no version yet, an
\* accepted one has tried no route, one past the routing pass is on a route,
\* and the limits are kept.
GoodRow(log, r) ==
    /\ r.state = "none" => r.version = 0
    /\ r.state = "accepted" => r.excluded = {}
    /\ r.state \in {"queued", "routed", "submitted", "uncertain", "undelivered"}
         => r.route \in Routes
    /\ r.attempts <= MaxAttempts
    /\ Cardinality(r.excluded) <= MaxHops
    /\ r.route \notin r.excluded
    /\ r.state \in {"submitted", "delivered", "undelivered"} => HasReference(log, r)

GoodRows == \A m \in Messages : GoodRow(sent[m], rows[m])

\* What a dispatcher has on hand came from rows it may work on.
WorkOnHand ==
    \A w \in Dispatchers, m \in Messages :
        /\ ~(m \in todo[w] /\ m \in claimed[w])
        /\ m \in todo[w] => snap[w][m].state \in Claimable
        /\ m \in claimed[w] => snap[w][m].state = "routed" /\ snap[w][m].route \in Routes

\* A dispatcher's copy is not newer than its row, and agrees with it when it
\* has the same version.
GoodCopies ==
    \A w \in Dispatchers, m \in Messages :
        m \in todo[w] \/ m \in claimed[w]
          => /\ snap[w][m].version <= rows[m].version
             /\ snap[w][m].version = rows[m].version => Same(snap[w][m], rows[m])

\* The moves next_state proposes.
DlrMoves == {<<edge[1], edge[3]>> : edge \in DlrEdges}

\* The same of the version a receiver read: the move it decided on still
\* starts from the state the row is in.
GoodReceipts ==
    \A h \in Receivers :
        dlr[h] # NoDlr
          => LET r == rows[dlr[h].msg] IN
             /\ dlr[h].version <= r.version
             /\ dlr[h].version = r.version => /\ <<r.state, dlr[h].target>> \in DlrMoves
                                              /\ HasReference(sent[dlr[h].msg], r)

\* And of the versions expire_stale read.
GoodExpiry ==
    \A m \in Messages :
        expiring[m] # 0
          => /\ expiring[m] <= rows[m].version
             /\ expiring[m] = rows[m].version
                  => rows[m].state \in {"submitted", "uncertain", "undelivered"}

\* The reference a dispatcher is about to store is the one it got for the
\* message it is submitting.
AckMatches ==
    \A w \in Dispatchers, m \in Messages :
        First(claimed[w], m) /\ (pc[w] = "accepted" \/ answer[w] = "Ok")
          => /\ ack[w] \in DOMAIN sent[m]
             /\ sent[m][ack[w]] = ProviderOf[snap[w][m].route]

IInv == /\ TypeOK
        /\ NoIllegalTransition
        /\ GoodRows
        /\ WorkOnHand
        /\ GoodCopies
        /\ OneWriterPerClaim
        /\ GoodReceipts
        /\ GoodExpiry
        /\ AckMatches

-----------------------------------------------------------------------------
(* How the table may change in a step: versions grow, and a row whose      *)
(* version stays is the same but for its timers.  What was accepted stays  *)
(* accepted.                                                               *)

RowsAdvance ==
    \A m \in Messages :
        /\ rows[m].version <= rows'[m].version
        /\ rows'[m].version = rows[m].version
             => Same(rows'[m], rows[m]) /\ rows'[m].ref = rows[m].ref

SentGrows ==
    \A m \in Messages : \A k \in DOMAIN sent[m] :
        k \in DOMAIN sent'[m] /\ sent'[m][k] = sent[m][k]

\* The columns of a row, and the parts of a receiver's note.
LEMMA RowColumns ==
    ASSUME NEW r \in Row
    PROVE  /\ r.state \in MessageState \cup {"none"} /\ r.version \in Nat
           /\ r.attempts \in Nat /\ r.lease \in Int /\ r.expires \in Nat /\ r.wait \in Nat
           /\ r.idle \in Nat /\ r.route \in Routes \cup {NoRoute}
           /\ r.excluded \in SUBSET Routes /\ r.ref \in Nat
BY DEF Row

\* What a receiver that has read a receipt is about to write (ingest_one).
LEMMA ReceiptParts ==
    ASSUME TypeOK, NEW h \in Receivers, dlr[h] # NoDlr
    PROVE  /\ dlr[h] \in [target : MessageState, msg : Messages, version : Nat]
           /\ dlr[h].target \in MessageState /\ dlr[h].msg \in Messages
           /\ dlr[h].version \in Nat
<1>1. dlr[h] \in [target : MessageState, msg : Messages, version : Nat] \cup {NoDlr}
    BY DEF TypeOK
<1> QED
    BY <1>1

\* Writes by others, and time, leave a dispatcher's copies as good as they
\* were: a row whose version has not moved has not changed.
LEMMA KeptCopies ==
    ASSUME TypeOK, rows' \in [Messages -> Row], GoodCopies, RowsAdvance,
           UNCHANGED <<snap, todo, claimed>>
    PROVE  GoodCopies'
<1> SUFFICES ASSUME NEW w \in Dispatchers, NEW m \in Messages,
                    m \in todo[w] \/ m \in claimed[w]
             PROVE  /\ snap[w][m].version <= rows'[m].version
                    /\ snap[w][m].version = rows'[m].version => Same(snap[w][m], rows'[m])
    BY DEF GoodCopies
<1>1. snap[w][m].version \in Nat /\ rows[m].version \in Nat /\ rows'[m].version \in Nat
    <2>1. snap[w][m] \in Row /\ rows[m] \in Row /\ rows'[m] \in Row
        BY DEF TypeOK
    <2> QED
        BY <2>1, RowColumns
<1>2. /\ snap[w][m].version <= rows[m].version
      /\ snap[w][m].version = rows[m].version => Same(snap[w][m], rows[m])
    BY DEF GoodCopies
<1>3. /\ rows[m].version <= rows'[m].version
      /\ rows'[m].version = rows[m].version => Same(rows'[m], rows[m])
    BY DEF RowsAdvance
<1> QED
    BY <1>1, <1>2, <1>3 DEF Same

\* They give no dispatcher a hold on a row that it did not have.
LEMMA KeptWriter ==
    ASSUME TypeOK, rows' \in [Messages -> Row], GoodCopies, RowsAdvance, OneWriterPerClaim,
           UNCHANGED <<snap, todo>>, \A w \in Dispatchers : claimed'[w] \subseteq claimed[w]
    PROVE  OneWriterPerClaim'
<1>1. ASSUME NEW w \in Dispatchers, NEW m \in Messages, Holds(w, m)'
      PROVE  Holds(w, m)
    <2>1. snap[w][m].version \in Nat /\ rows[m].version \in Nat /\ rows'[m].version \in Nat
        <3>1. snap[w][m] \in Row /\ rows[m] \in Row /\ rows'[m] \in Row
            BY DEF TypeOK
        <3> QED
            BY <3>1, RowColumns
    <2>2. m \in claimed[w] /\ snap[w][m].version = rows'[m].version
        BY <1>1 DEF Holds
    <2>3. snap[w][m].version <= rows[m].version /\ rows[m].version <= rows'[m].version
        BY <2>2 DEF GoodCopies, RowsAdvance
    <2> QED
        BY <2>1, <2>2, <2>3 DEF Holds
<1> QED
    BY <1>1 DEF OneWriterPerClaim

\* Nor do they spoil what a receiver has decided (ingest_one).
LEMMA KeptReceipts ==
    ASSUME TypeOK, rows' \in [Messages -> Row], GoodReceipts, RowsAdvance, SentGrows,
           UNCHANGED dlr
    PROVE  GoodReceipts'
<1> SUFFICES ASSUME NEW h \in Receivers, dlr[h] # NoDlr
             PROVE  LET r == rows'[dlr[h].msg] IN
                    /\ dlr[h].version <= r.version
                    /\ dlr[h].version = r.version => /\ <<r.state, dlr[h].target>> \in DlrMoves
                                                     /\ HasReference(sent'[dlr[h].msg], r)
    BY DEF GoodReceipts
<1> DEFINE m == dlr[h].msg
<1>1. m \in Messages /\ dlr[h].version \in Nat
    BY ReceiptParts
<1>2. rows[m].version \in Nat /\ rows'[m].version \in Nat
    <2>1. rows[m] \in Row /\ rows'[m] \in Row
        BY <1>1 DEF TypeOK
    <2> QED
        BY <2>1, RowColumns
<1>3. /\ dlr[h].version <= rows[m].version
      /\ dlr[h].version = rows[m].version => /\ <<rows[m].state, dlr[h].target>> \in DlrMoves
                                             /\ HasReference(sent[m], rows[m])
    BY DEF GoodReceipts
<1>4. /\ rows[m].version <= rows'[m].version
      /\ rows'[m].version = rows[m].version
           => Same(rows'[m], rows[m]) /\ rows'[m].ref = rows[m].ref
    BY <1>1 DEF RowsAdvance
<1>5. dlr[h].version <= rows'[m].version
    BY <1>1, <1>2, <1>3, <1>4
<1>6. ASSUME dlr[h].version = rows'[m].version
      PROVE  /\ <<rows'[m].state, dlr[h].target>> \in DlrMoves
             /\ HasReference(sent'[m], rows'[m])
    <2>1. rows'[m].version = rows[m].version
        BY <1>1, <1>2, <1>3, <1>4, <1>6
    <2>2. Same(rows'[m], rows[m]) /\ rows'[m].ref = rows[m].ref /\ HasReference(sent[m], rows[m])
        BY <2>1, <1>3, <1>4, <1>6
    <2>3. <<rows'[m].state, dlr[h].target>> \in DlrMoves
        BY <2>1, <2>2, <1>3, <1>6 DEF Same
    <2>4. HasReference(sent'[m], rows'[m])
        <3>1. /\ rows[m].ref \in DOMAIN sent[m]
              /\ sent[m][rows[m].ref] = ProviderOf[rows[m].route]
            BY <2>2 DEF HasReference
        <3>2. /\ rows[m].ref \in DOMAIN sent'[m]
              /\ sent'[m][rows[m].ref] = sent[m][rows[m].ref]
            BY <3>1, <1>1 DEF SentGrows
        <3> QED
            BY <2>2, <3>1, <3>2 DEF HasReference, Same
    <2> QED
        BY <2>3, <2>4
<1> QED
    BY <1>5, <1>6

\* Nor what expire_stale has selected (expire_matching).
LEMMA KeptExpiry ==
    ASSUME TypeOK, rows' \in [Messages -> Row], GoodExpiry, RowsAdvance,
           \A m \in Messages : expiring'[m] \in {0, expiring[m]}
    PROVE  GoodExpiry'
<1> SUFFICES ASSUME NEW m \in Messages, expiring'[m] # 0
             PROVE  /\ expiring'[m] <= rows'[m].version
                    /\ expiring'[m] = rows'[m].version
                         => rows'[m].state \in {"submitted", "uncertain", "undelivered"}
    BY DEF GoodExpiry
<1>1. expiring'[m] = expiring[m] /\ expiring[m] # 0
    OBVIOUS
<1>2. expiring[m] \in Nat /\ rows[m].version \in Nat /\ rows'[m].version \in Nat
    <2>1. rows[m] \in Row /\ rows'[m] \in Row /\ expiring[m] \in Nat
        BY DEF TypeOK
    <2> QED
        BY <2>1, RowColumns
<1>3. /\ expiring[m] <= rows[m].version
      /\ expiring[m] = rows[m].version
           => rows[m].state \in {"submitted", "uncertain", "undelivered"}
    BY <1>1 DEF GoodExpiry
<1> QED
    BY <1>1, <1>2, <1>3 DEF RowsAdvance, Same

\* A longer record of submissions keeps the references of the rows valid.
LEMMA KeptRows ==
    ASSUME \A m \in Messages : GoodRow(sent[m], rows'[m]), SentGrows
    PROVE  GoodRows'
BY DEF GoodRows, GoodRow, HasReference, SentGrows

-----------------------------------------------------------------------------
(* The one way rows change other than by time: Write.                      *)

\* What if_match's update adds to a proposal: the version and updatedAt.
LEMMA TouchedRow ==
    ASSUME NEW new \in Row, NEW v \in Nat, NEW log
    PROVE  /\ Touched(new, v) \in Row
           /\ Touched(new, v).version = v + 1
           /\ Same(Touched(new, v), new) /\ Touched(new, v).ref = new.ref
           /\ new.state # "none" /\ GoodRow(log, new) => GoodRow(log, Touched(new, v))
<1>1. /\ Touched(new, v) \in Row
      /\ Touched(new, v).version = v + 1
    <2> DEFINE n == v + 1
    <2>1. n \in Nat /\ 0 \in Nat
        OBVIOUS
    <2> HIDE DEF n
    <2>2. [new EXCEPT !.version = n, !.idle = 0] \in Row
        BY <2>1 DEF Row
    <2>3. [new EXCEPT !.version = n, !.idle = 0].version = n
        BY DEF Row
    <2> QED
        BY <2>2, <2>3 DEF Touched, n
<1>2. /\ Same(Touched(new, v), new) /\ Touched(new, v).ref = new.ref
    BY DEF Touched, Row, Same
<1>3. ASSUME new.state # "none", GoodRow(log, new)
      PROVE  GoodRow(log, Touched(new, v))
    BY <1>2, <1>3 DEF Same, GoodRow, HasReference
<1> QED
    BY <1>1, <1>2, <1>3

\* A proposal the trigger accepts and that keeps the row good.
GoodProposal(m, new) == /\ new.state # "none"
                        /\ Permitted(rows[m].state, new.state)
                        /\ GoodRow(sent[m], new)

\* The compare-and-swap: whatever is proposed on a stale version has no
\* effect, and a good proposal on the current one keeps the table good.
LEMMA WriteKeepsRows ==
    ASSUME TypeOK, GoodRows, NEW m \in Messages, NEW v \in Nat, NEW new \in Row,
           Write(m, v, new), v = rows[m].version => GoodProposal(m, new)
    PROVE  /\ rows' \in [Messages -> Row] /\ sm001' = sm001 /\ RowsAdvance
           /\ \A k \in Messages : GoodRow(sent[k], rows'[k])
           /\ v # rows[m].version => rows' = rows
           /\ v = rows[m].version => rows' = [rows EXCEPT ![m] = Touched(new, v)]
<1>1. rows \in [Messages -> Row]
    BY DEF TypeOK
<1>2. \A k \in Messages : rows[k].version \in Nat
    BY <1>1, RowColumns
<1>3. CASE v # rows[m].version
    <2>1. rows' = rows /\ sm001' = sm001
        BY <1>3 DEF Write, CasWins, rowVars
    <2> QED
        BY <2>1, <1>1, <1>2, <1>3 DEF RowsAdvance, Same, GoodRows
<1>4. CASE v = rows[m].version
    <2>1. rows' = [rows EXCEPT ![m] = Touched(new, v)] /\ sm001' = sm001
        BY <1>4 DEF Write, CasWins, GoodProposal
    <2>2. /\ Touched(new, v) \in Row
          /\ Touched(new, v).version = v + 1
          /\ GoodRow(sent[m], Touched(new, v))
        BY <1>4, TouchedRow DEF GoodProposal
    <2>3. rows' \in [Messages -> Row]
        BY <1>1, <2>1, <2>2
    <2>4. RowsAdvance
        BY <1>1, <1>2, <1>4, <2>1, <2>2 DEF RowsAdvance, Same
    <2>5. \A k \in Messages : GoodRow(sent[k], rows'[k])
        BY <1>1, <2>1, <2>2 DEF GoodRows
    <2> QED
        BY <1>4, <2>1, <2>3, <2>4, <2>5
<1> QED
    BY <1>3, <1>4

-----------------------------------------------------------------------------
(* What each writer proposes.                                              *)

\* new is a row with these columns; what the timers are does not matter.
Columns(new, state, attempts, route, excluded, ref) ==
    /\ new \in Row
    /\ new.state = state /\ new.attempts = attempts /\ new.route = route
    /\ new.excluded = excluded /\ new.ref = ref

\* A proposal that sets state and leaseUntil (write_transition, take_lease).
LEMMA StateAndLease ==
    ASSUME NEW r \in Row, NEW state \in MessageState, NEW lease \in Int
    PROVE  Columns([r EXCEPT !.state = state, !.lease = lease],
                   state, r.attempts, r.route, r.excluded, r.ref)
BY DEF Columns, Row

\* A proposal that also sets the route (apply_routing_decision) and the
\* routes to leave out (write_failover).
LEMMA StateRouteAndLease ==
    ASSUME NEW r \in Row, NEW state \in MessageState, NEW lease \in Int,
           NEW route \in Routes, NEW excluded \in SUBSET Routes
    PROVE  /\ Columns([r EXCEPT !.state = state, !.route = route, !.lease = lease],
                      state, r.attempts, route, r.excluded, r.ref)
           /\ Columns([r EXCEPT !.state = state, !.route = route, !.excluded = excluded,
                                !.lease = lease],
                      state, r.attempts, route, excluded, r.ref)
<1>1. Columns([r EXCEPT !.state = state, !.route = route, !.lease = lease],
              state, r.attempts, route, r.excluded, r.ref)
    BY DEF Columns, Row
<1>2. Columns([r EXCEPT !.state = state, !.route = route, !.excluded = excluded,
                        !.lease = lease],
              state, r.attempts, route, excluded, r.ref)
    BY DEF Columns, Row
<1> QED
    BY <1>1, <1>2

\* leaseUntil stays a number of ticks.
LEMMA ClipIsInt ==
    ASSUME NEW t \in Int
    PROVE  Clip(t) \in Int
BY DEF Clip

\* take_lease, from a claimable copy s that agrees with the row r.
LEMMA LeaseProposal ==
    ASSUME NEW s \in Row, NEW r \in Row, NEW late \in Nat, NEW log, s.state \in Claimable,
           NEW new \in LeaseWrites(s, r, late)
    PROVE  /\ new \in Row
           /\ new.state \in {"queued", "rejected", "routed", "failed"}
           /\ Same(s, r) /\ GoodRow(log, r)
                => /\ Permitted(r.state, new.state)
                   /\ GoodRow(log, new)
<1>0. /\ Clip(-late) \in Int /\ Clip(DispatchLease - late) \in Int
    BY ClipIsInt, BoundsAssumption
<1>b. {"queued", "rejected", "routed", "failed"} \subseteq MessageState
    BY DEF MessageState, Claimable, Terminal
<1>a. /\ MaxAttempts \in Nat /\ r.attempts \in Nat /\ s.attempts \in Nat
      /\ r.excluded \in SUBSET Routes
    BY RowColumns, BoundsAssumption
<1>1. CASE s.state = "accepted"
    <2>1. PICK win \in Routes \cup {NoRoute} :
             new = IF win = NoRoute
                   THEN [r EXCEPT !.state = "rejected", !.lease = Clip(-late)]
                   ELSE [r EXCEPT !.state = "queued", !.route = win, !.lease = Clip(-late)]
        BY <1>1 DEF LeaseWrites, RoutingWrites, Decide
    <2>2. CASE win = NoRoute
        <3>c. Columns(new, "rejected", r.attempts, r.route, r.excluded, r.ref)
            BY <1>0, <1>b, <2>1, <2>2, StateAndLease
        <3> QED
            BY <1>1, <3>c DEF Columns, Same, GoodRow, HasReference, Permitted, Edges
    <2>3. CASE win \in Routes
        <3>c. Columns(new, "queued", r.attempts, win, r.excluded, r.ref)
            BY <1>0, <1>a, <1>b, <2>1, <2>3, RoutesAssumption, StateRouteAndLease
        <3> QED
            BY <1>1, <2>3, <3>c DEF Columns, Same, GoodRow, HasReference, Permitted, Edges
    <2> QED
        BY <2>2, <2>3
<1>2. CASE s.state = "queued" /\ s.attempts >= MaxAttempts
    <2>1. new = [r EXCEPT !.state = "failed", !.lease = Clip(-late)]
        BY <1>2, <1>a DEF LeaseWrites, FailMaxAttempts
    <2>c. Columns(new, "failed", r.attempts, r.route, r.excluded, r.ref)
        BY <1>0, <1>b, <1>2, <2>1, StateAndLease
    <2> QED
        BY <1>2, <2>c DEF Columns, Same, GoodRow, HasReference, Permitted, Edges
<1>3. CASE s.state = "queued" /\ s.attempts < MaxAttempts
    <2>1. new = [r EXCEPT !.state = "routed", !.attempts = s.attempts + 1,
                          !.lease = Clip(DispatchLease - late)]
        BY <1>3, <1>a DEF LeaseWrites
    <2>2. s.attempts + 1 \in Nat /\ s.attempts + 1 <= MaxAttempts
        BY <1>3, <1>a
    <2>c. Columns(new, "routed", s.attempts + 1, r.route, r.excluded, r.ref)
        BY <1>0, <1>b, <1>3, <2>1, <2>2 DEF Columns, Row
    <2> QED
        BY <1>3, <2>2, <2>c DEF Columns, Same, GoodRow, HasReference, Permitted, Edges
<1>4. CASE s.state = "routed"
    <2>1. new = [r EXCEPT !.state = "routed", !.lease = Clip(DispatchLease - late)]
        BY <1>4 DEF LeaseWrites
    <2>c. Columns(new, "routed", r.attempts, r.route, r.excluded, r.ref)
        BY <1>0, <1>b, <1>4, <2>1, StateAndLease
    <2> QED
        BY <1>4, <2>c DEF Columns, Same, GoodRow, HasReference, Permitted, Edges
<1>5. CASE s.state = "undelivered" /\ s.attempts >= MaxAttempts
    <2>1. new = [r EXCEPT !.state = "failed", !.lease = Clip(-late)]
        BY <1>5, <1>a DEF LeaseWrites, FailMaxAttempts
    <2>c. Columns(new, "failed", r.attempts, r.route, r.excluded, r.ref)
        BY <1>0, <1>b, <1>5, <2>1, StateAndLease
    <2> QED
        BY <1>5, <2>c DEF Columns, Same, GoodRow, HasReference, Permitted, Edges
<1>6. CASE s.state = "undelivered" /\ s.attempts < MaxAttempts
    <2>1. new = [r EXCEPT !.state = "queued", !.lease = Clip(-late)]
        BY <1>6, <1>a DEF LeaseWrites
    <2>c. Columns(new, "queued", r.attempts, r.route, r.excluded, r.ref)
        BY <1>0, <1>b, <1>6, <2>1, StateAndLease
    <2> QED
        BY <1>6, <2>c DEF Columns, Same, GoodRow, HasReference, Permitted, Edges
<1> QED
    BY <1>1, <1>2, <1>3, <1>4, <1>5, <1>6, <1>a DEF Claimable

\* The write of a submission's outcome, from a routed copy s.
LEMMA OutcomeProposal ==
    ASSUME NEW s \in Row, NEW r \in Row, NEW log, NEW a \in Answers, NEW ref \in Nat,
           s.state = "routed", s.route \in Routes,
           a = "Ok" => ref \in DOMAIN log /\ log[ref] = ProviderOf[s.route],
           NEW new \in OutcomeWrites(s, r, a, ref)
    PROVE  /\ new \in Row
           /\ new.state \in {"submitted", "queued", "failed", "uncertain"}
           /\ Same(s, r) /\ GoodRow(log, r)
                => /\ Permitted(r.state, new.state)
                   /\ GoodRow(log, new)
<1>0. MaxHops \in Nat /\ RetryBackoff \in Int /\ -1 \in Int /\ 0 \in Int /\ IsFiniteSet(Routes)
    BY BoundsAssumption, RoutesAssumption
<1>b. {"submitted", "queued", "failed", "uncertain"} \subseteq MessageState
    BY DEF MessageState, Claimable, Terminal
<1>1. CASE new = Settles(r, a, ref)
    <2>1. CASE a = "Ok"
        <3>1. new = [r EXCEPT !.state = "submitted", !.ref = ref]
            BY <1>1, <2>1 DEF Settles
        <3>c. Columns(new, "submitted", r.attempts, r.route, r.excluded, ref)
            BY <1>0, <1>b, <2>1, <3>1 DEF Columns, Row
        <3> QED
            BY <2>1, <3>c DEF Columns, Same, GoodRow, HasReference, Permitted, Edges
    <2>2. CASE a \in {"Transient", "Unavailable"}
        <3>1. new = [r EXCEPT !.state = "queued", !.lease = RetryBackoff]
            BY <1>1, <2>2 DEF Settles
        <3>c. Columns(new, "queued", r.attempts, r.route, r.excluded, r.ref)
            BY <1>0, <1>b, <3>1, StateAndLease
        <3> QED
            BY <3>c DEF Columns, Same, GoodRow, HasReference, Permitted, Edges
    <2>3. CASE a \in {"Permanent", "Rejected"}
        <3>1. new = [r EXCEPT !.state = "failed", !.lease = -1]
            BY <1>1, <2>3 DEF Settles
        <3>c. Columns(new, "failed", r.attempts, r.route, r.excluded, r.ref)
            BY <1>0, <1>b, <3>1, StateAndLease
        <3> QED
            BY <3>c DEF Columns, Same, GoodRow, HasReference, Permitted, Edges
    <2>4. CASE a = "Indeterminate"
        <3>1. new = [r EXCEPT !.state = "uncertain", !.lease = -1]
            BY <1>1, <2>4 DEF Settles
        <3>c. Columns(new, "uncertain", r.attempts, r.route, r.excluded, r.ref)
            BY <1>0, <1>b, <3>1, StateAndLease
        <3> QED
            BY <3>c DEF Columns, Same, GoodRow, HasReference, Permitted, Edges
    <2> QED
        BY <2>1, <2>2, <2>3, <2>4 DEF Answers, Refusals
<1>2. CASE new \in Reroutes(s, r)
    <2> DEFINE gone == Tried(s)
    <2>1. gone \in SUBSET Routes
        BY RowColumns DEF Tried
    <2>2. Cardinality(gone) \in Nat
        BY <1>0, <2>1, FS_Subset, FS_CardinalityType
    <2>3. PICK win \in Routes \ gone :
             /\ ~(Cardinality(gone) > MaxHops)
             /\ new = [r EXCEPT !.state = "queued", !.route = win, !.excluded = gone,
                                !.lease = 0]
        BY <1>2 DEF Reroutes, Decide
    <2>4. Cardinality(gone) <= MaxHops
        BY <1>0, <2>2, <2>3
    <2> HIDE DEF gone
    <2>c. Columns(new, "queued", r.attempts, win, gone, r.ref)
        BY <1>0, <1>b, <2>1, <2>3, StateRouteAndLease
    <2> QED
        BY <2>3, <2>4, <2>c DEF Columns, Same, GoodRow, HasReference, Permitted, Edges
<1> QED
    BY <1>1, <1>2 DEF OutcomeWrites

\* next_state agrees with message_state_transitions.
LEMMA MovesAreLegal ==
    ASSUME NEW from, NEW to, <<from, to>> \in DlrMoves
    PROVE  <<from, to>> \in Edges /\ from \in {"submitted", "uncertain", "undelivered"}
BY DEF DlrMoves, DlrEdges, Edges

\* ingest_one's write and expire_matching's, along an edge of the table.
LEMMA ReceiptProposal ==
    ASSUME NEW r \in Row, NEW log, NEW target \in MessageState
    PROVE  /\ ReceiptWrite(r, target) \in Row
           /\ ReceiptWrite(r, target).state = target
           /\ <<r.state, target>> \in Edges /\ HasReference(log, r) /\ GoodRow(log, r)
              /\ r.state \in {"submitted", "uncertain", "undelivered"}
                => GoodRow(log, ReceiptWrite(r, target))
<1> DEFINE new == ReceiptWrite(r, target)
<1>1. Columns(new, target, r.attempts, r.route, r.excluded, r.ref)
    <2>1. DlrBackoff \in Int /\ r.lease \in Int
        BY BoundsAssumption, RowColumns
    <2>2. CASE target = "undelivered"
        BY <2>1, <2>2, StateAndLease DEF ReceiptWrite
    <2>3. CASE target # "undelivered"
        BY <2>1, <2>3, StateAndLease DEF ReceiptWrite
    <2> QED
        BY <2>2, <2>3
<1> QED
    BY <1>1 DEF Columns, GoodRow, HasReference, Edges

\* expire_matching's write.
LEMMA ExpiryProposal ==
    ASSUME NEW r \in Row, NEW log
    PROVE  /\ [r EXCEPT !.state = "expired"] \in Row
           /\ [r EXCEPT !.state = "expired"].state = "expired"
           /\ GoodRow(log, r) => GoodRow(log, [r EXCEPT !.state = "expired"])
BY DEF Row, MessageState, Terminal, Claimable, GoodRow, HasReference

-----------------------------------------------------------------------------
(* Steps that leave the dispatchers' work alone.                           *)

\* A step that does not touch the table.
LEMMA QuietTable ==
    ASSUME TypeOK, rows' = rows
    PROVE  rows' \in [Messages -> Row] /\ RowsAdvance
<1>1. \A m \in Messages : rows[m].version \in Nat
    BY RowColumns DEF TypeOK
<1> QED
    BY <1>1 DEF TypeOK, RowsAdvance, Same

\* A step that changes the table in a good way, or not at all, and leaves the
\* dispatchers alone keeps everything said of rows and dispatchers.
LEMMA TableStep ==
    ASSUME IInv, rows' \in [Messages -> Row], sm001' = sm001, RowsAdvance,
           \A m \in Messages : GoodRow(sent[m], rows'[m]),
           UNCHANGED <<pc, todo, claimed, snap, answer, ack, sent>>
    PROVE  /\ NoIllegalTransition' /\ GoodRows' /\ WorkOnHand' /\ GoodCopies'
           /\ OneWriterPerClaim' /\ AckMatches'
<1> USE DEF IInv
<1>1. SentGrows
    BY DEF SentGrows
<1>2. NoIllegalTransition'
    BY DEF NoIllegalTransition
<1>3. GoodRows'
    BY <1>1, KeptRows
<1>4. WorkOnHand'
    BY DEF WorkOnHand
<1>5. GoodCopies'
    BY KeptCopies
<1>6. OneWriterPerClaim'
    BY KeptWriter
<1>7. AckMatches'
    BY DEF AckMatches, First
<1> QED
    BY <1>2, <1>3, <1>4, <1>5, <1>6, <1>7

\* sendMessage preserves the invariant.
LEMMA SendMessageStep ==
    ASSUME IInv, NEW m \in Messages, SendMessage(m)
    PROVE  IInv'
<1> USE DEF IInv
<1> DEFINE inserted(delay) ==
             [NoRow EXCEPT !.state = "accepted", !.version = 1, !.wait = Remaining(delay),
                           !.expires = Remaining(delay + Validity)]
<1>1. PICK delay \in Delays : rows' = [rows EXCEPT ![m] = inserted(delay)]
    BY DEF SendMessage
<1>2. rows \in [Messages -> Row]
    BY DEF TypeOK
<1>3. \A k \in Messages : rows[k].version \in Nat
    BY <1>2, RowColumns
<1>4. rows[m].version = 0
    BY DEF SendMessage, GoodRows, GoodRow
<1>5. /\ inserted(delay) \in Row /\ inserted(delay).version = 1
      /\ \A log : GoodRow(log, inserted(delay))
    <2>1. /\ Remaining(delay) \in Nat /\ Remaining(delay + Validity) \in Nat
          /\ MaxAttempts \in Nat /\ MaxHops \in Nat
        BY BoundsAssumption DEF Remaining
    <2>2. /\ NoRow \in Row /\ NoRow.attempts = 0 /\ NoRow.excluded = {}
        BY DEF NoRow, Row
    <2>3. ASSUME NEW wait \in Nat, NEW expires \in Nat
          PROVE  LET n == [NoRow EXCEPT !.state = "accepted", !.version = 1, !.wait = wait,
                                        !.expires = expires] IN
                 /\ n \in Row
                 /\ n.state = "accepted" /\ n.version = 1 /\ n.attempts = NoRow.attempts
                 /\ n.excluded = NoRow.excluded
        BY <2>2 DEF Row, MessageState, Claimable
    <2>4. /\ inserted(delay) \in Row
          /\ inserted(delay).state = "accepted" /\ inserted(delay).version = 1
          /\ inserted(delay).attempts = 0 /\ inserted(delay).excluded = {}
        BY <2>1, <2>2, <2>3
    <2>5. Cardinality({}) = 0
        BY FS_EmptySet, Zenon
    <2>6. NoRoute \notin {} /\ 0 <= MaxAttempts /\ 0 <= MaxHops
        BY <2>1
    <2>7. ASSUME NEW log
          PROVE  GoodRow(log, inserted(delay))
        BY <2>4, <2>5, <2>6 DEF GoodRow
    <2> QED
        BY <2>4, <2>7
<1> HIDE DEF inserted
<1>6. rows' \in [Messages -> Row]
    BY <1>1, <1>2, <1>5
<1>7. RowsAdvance
    BY <1>1, <1>2, <1>3, <1>4, <1>5 DEF RowsAdvance, Same
<1>8. \A k \in Messages : GoodRow(sent[k], rows'[k])
    BY <1>1, <1>2, <1>5 DEF GoodRows
<1>9. UNCHANGED <<sm001, pc, stale, todo, claimed, snap, answer, ack, sent, refuted, dlr,
                  expiring, crashes>>
    BY DEF SendMessage, workerVars
<1>10. TypeOK'
    BY <1>6, <1>9 DEF TypeOK, WorkLists
<1>11. GoodReceipts' /\ GoodExpiry'
    BY <1>6, <1>7, <1>9, KeptReceipts, KeptExpiry DEF SentGrows, TypeOK
<1> QED
    BY <1>6, <1>7, <1>8, <1>9, <1>10, <1>11, TableStep

\* So does the passing of time: timers are no part of a decision's copy.
LEMMA TickStep ==
    ASSUME IInv, Tick
    PROVE  IInv'
<1> USE DEF IInv
<1> DEFINE aged(r) == [r EXCEPT !.lease = Down(@, -1), !.expires = Down(@, 0),
                                !.wait = Down(@, 0),
                                !.idle = IF r.state = "uncertain"
                                         THEN Up(@, UncertainGrace) ELSE 0]
<1>1. rows \in [Messages -> Row] /\ \A m \in Messages : rows[m].version \in Nat
    BY RowColumns DEF TypeOK
<1>2. rows' = [m \in Messages |-> aged(rows[m])]
    BY DEF Tick
<1>3. ASSUME NEW r \in Row
      PROVE  /\ aged(r) \in Row /\ aged(r).version = r.version
             /\ Same(aged(r), r) /\ aged(r).ref = r.ref
    <2>1. /\ Down(r.lease, -1) \in Int /\ Down(r.expires, 0) \in Nat /\ Down(r.wait, 0) \in Nat
          /\ (IF r.state = "uncertain" THEN Up(r.idle, UncertainGrace) ELSE 0) \in Nat
        BY RowColumns, BoundsAssumption DEF Down, Up
    <2>2. ASSUME NEW lease \in Int, NEW expires \in Nat, NEW wait \in Nat, NEW idle \in Nat
          PROVE  LET n == [r EXCEPT !.lease = lease, !.expires = expires, !.wait = wait,
                                    !.idle = idle] IN
                 n \in Row /\ n.version = r.version /\ Same(n, r) /\ n.ref = r.ref
        BY DEF Row, Same
    <2> QED
        BY <2>1, <2>2 DEF Row
<1> HIDE DEF aged
<1>4. rows' \in [Messages -> Row] /\ RowsAdvance
    BY <1>1, <1>2, <1>3 DEF RowsAdvance
<1>5. \A m \in Messages : GoodRow(sent[m], rows'[m])
    BY <1>1, <1>2, <1>3 DEF GoodRows, GoodRow, HasReference, Same
<1>6. UNCHANGED <<sm001, pc, todo, claimed, snap, answer, ack, sent, refuted, dlr, expiring,
                  crashes>>
    BY DEF Tick
<1>7. stale' \in [Dispatchers -> Nat]
    <2>1. \A w \in Dispatchers : stale[w] \in Nat
        BY DEF TypeOK
    <2>2. \A w \in Dispatchers : Up(stale[w], DispatchLease + 1) \in Nat
        BY <2>1, BoundsAssumption DEF Up
    <2> QED
        BY <2>2 DEF Tick
<1>8. TypeOK'
    BY <1>4, <1>6, <1>7 DEF TypeOK, WorkLists
<1>9. GoodReceipts' /\ GoodExpiry'
    BY <1>4, <1>6, KeptReceipts, KeptExpiry DEF SentGrows, TypeOK
<1> QED
    BY <1>4, <1>5, <1>6, <1>8, <1>9, TableStep

\* ingest_one up to its write.
LEMMA ReadReceiptStep ==
    ASSUME IInv, NEW h \in Receivers, ReadReceipt(h)
    PROVE  IInv'
<1> USE DEF IInv
<1>1. UNCHANGED <<rows, sm001, pc, stale, todo, claimed, snap, answer, ack, sent, refuted,
                  expiring, crashes>>
    BY DEF ReadReceipt, rowVars, workerVars
<1>2. PICK m \in Messages, edge \in DlrEdges :
         /\ HasReference(sent[m], rows[m])
         /\ edge[1] = rows[m].state
         /\ dlr' = [dlr EXCEPT ![h] = [target |-> edge[3], msg |-> m,
                                       version |-> rows[m].version]]
    BY DEF ReadReceipt, HasReference
<1>3. <<edge[1], edge[3]>> \in DlrMoves /\ edge[3] \in MessageState
    BY DEF DlrMoves, DlrEdges, MessageState, Terminal, Claimable
<1>4. rows' \in [Messages -> Row] /\ RowsAdvance /\ rows[m].version \in Nat
    BY <1>1, QuietTable, RowColumns DEF TypeOK
<1>5. TypeOK'
    BY <1>1, <1>2, <1>3, <1>4 DEF TypeOK, WorkLists
<1>6. GoodReceipts'
    <2> SUFFICES ASSUME NEW x \in Receivers, dlr'[x] # NoDlr
                 PROVE  LET r == rows[dlr'[x].msg] IN
                        /\ dlr'[x].version <= r.version
                        /\ dlr'[x].version = r.version
                             => /\ <<r.state, dlr'[x].target>> \in DlrMoves
                                /\ HasReference(sent[dlr'[x].msg], r)
        BY <1>1 DEF GoodReceipts
    <2>1. CASE x = h
        <3>1. dlr'[x].msg = m /\ dlr'[x].version = rows[m].version /\ dlr'[x].target = edge[3]
            BY <1>2, <2>1 DEF TypeOK
        <3> QED
            BY <1>2, <1>3, <1>4, <3>1
    <2>2. CASE x # h
        <3>1. dlr'[x] = dlr[x]
            BY <1>2, <2>2 DEF TypeOK
        <3> QED
            BY <3>1 DEF GoodReceipts
    <2> QED
        BY <2>1, <2>2
<1>7. GoodExpiry'
    BY <1>1, <1>4, KeptExpiry
<1>8. \A k \in Messages : GoodRow(sent[k], rows'[k])
    BY <1>1 DEF GoodRows
<1> QED
    BY <1>1, <1>4, <1>5, <1>6, <1>7, <1>8, TableStep

\* A receiver that is done has nothing left that could be out of date.
LEMMA ReceiptDone ==
    ASSUME TypeOK, rows' \in [Messages -> Row], GoodReceipts, RowsAdvance, UNCHANGED sent,
           NEW h \in Receivers, dlr' = [dlr EXCEPT ![h] = NoDlr]
    PROVE  GoodReceipts'
<1> DEFINE others == [dlr EXCEPT ![h] = NoDlr]
<1> SUFFICES ASSUME NEW x \in Receivers, dlr'[x] # NoDlr
             PROVE  LET r == rows'[dlr'[x].msg] IN
                    /\ dlr'[x].version <= r.version
                    /\ dlr'[x].version = r.version
                         => /\ <<r.state, dlr'[x].target>> \in DlrMoves
                            /\ HasReference(sent[dlr'[x].msg], r)
    BY DEF GoodReceipts
<1> DEFINE m == dlr[x].msg
<1>1. x # h /\ dlr'[x] = dlr[x] /\ dlr[x] # NoDlr
    BY DEF TypeOK
<1>2. m \in Messages /\ dlr[x].version \in Nat
    BY <1>1, ReceiptParts
<1>3. rows[m].version \in Nat /\ rows'[m].version \in Nat
    <2>1. rows[m] \in Row /\ rows'[m] \in Row
        BY <1>2 DEF TypeOK
    <2> QED
        BY <2>1, RowColumns
<1>4. /\ dlr[x].version <= rows[m].version
      /\ dlr[x].version = rows[m].version => /\ <<rows[m].state, dlr[x].target>> \in DlrMoves
                                             /\ HasReference(sent[m], rows[m])
    BY <1>1 DEF GoodReceipts
<1>5. /\ rows[m].version <= rows'[m].version
      /\ rows'[m].version = rows[m].version
           => Same(rows'[m], rows[m]) /\ rows'[m].ref = rows[m].ref
    BY <1>2 DEF RowsAdvance
<1> QED
    BY <1>1, <1>2, <1>3, <1>4, <1>5 DEF Same, HasReference

\* ingest_one's write, applied or lost.
LEMMA ApplyReceiptStep ==
    ASSUME IInv, NEW h \in Receivers, ApplyReceipt(h)
    PROVE  IInv'
<1> USE DEF IInv
<1> DEFINE m == dlr[h].msg
           v == dlr[h].version
           new == ReceiptWrite(rows[m], dlr[h].target)
<1>1. /\ dlr[h] # NoDlr /\ Write(m, v, new)
      /\ dlr' = [dlr EXCEPT ![h] = NoDlr]
      /\ UNCHANGED <<pc, stale, todo, claimed, snap, answer, ack, sent, expiring, crashes>>
    BY DEF ApplyReceipt, workerVars
<1>2. m \in Messages /\ v \in Nat /\ dlr[h].target \in MessageState
    BY <1>1, ReceiptParts
<1>3. rows[m] \in Row /\ rows[m].ref \in Nat
    BY <1>2, RowColumns DEF TypeOK
<1>4. new \in Row /\ new.state = dlr[h].target
    BY <1>2, <1>3, ReceiptProposal
<1>5. ASSUME v = rows[m].version
      PROVE  GoodProposal(m, new)
    <2>0. <<rows[m].state, dlr[h].target>> \in DlrMoves /\ HasReference(sent[m], rows[m])
        BY <1>1, <1>5 DEF GoodReceipts
    <2>1. /\ <<rows[m].state, dlr[h].target>> \in Edges /\ HasReference(sent[m], rows[m])
          /\ rows[m].state \in {"submitted", "uncertain", "undelivered"}
        BY <2>0, MovesAreLegal
    <2>2. GoodRow(sent[m], rows[m])
        BY <1>2 DEF GoodRows
    <2>3. GoodRow(sent[m], new)
        BY <1>2, <1>3, <2>1, <2>2, ReceiptProposal
    <2> QED
        BY <1>2, <1>4, <2>1, <2>3 DEF GoodProposal, Permitted, MessageState, Claimable, Terminal
<1> HIDE DEF m, v, new
<1>6. /\ rows' \in [Messages -> Row] /\ sm001' = sm001 /\ RowsAdvance
      /\ \A k \in Messages : GoodRow(sent[k], rows'[k])
    BY <1>1, <1>2, <1>4, <1>5, WriteKeepsRows
<1>7. GoodReceipts' /\ GoodExpiry'
    BY <1>1, <1>6, ReceiptDone, KeptExpiry
<1>8. refuted' \in [Messages -> SUBSET Nat]
    BY <1>3 DEF ApplyReceipt, TypeOK, m
<1>9. TypeOK'
    BY <1>1, <1>6, <1>8 DEF TypeOK, WorkLists
<1> QED
    BY <1>1, <1>6, <1>7, <1>9, TableStep

\* A receipt that is dropped between the two.
LEMMA DropReceiptStep ==
    ASSUME IInv, NEW h \in Receivers, DropReceipt(h)
    PROVE  IInv'
<1> USE DEF IInv
<1>1. /\ dlr' = [dlr EXCEPT ![h] = NoDlr]
      /\ UNCHANGED <<rows, sm001, pc, stale, todo, claimed, snap, answer, ack, sent, refuted,
                     expiring, crashes>>
    BY DEF DropReceipt, rowVars, workerVars
<1>2. rows' \in [Messages -> Row] /\ RowsAdvance
    BY <1>1, QuietTable
<1>3. TypeOK'
    BY <1>1, <1>2 DEF TypeOK, WorkLists
<1>4. GoodReceipts' /\ GoodExpiry'
    BY <1>1, <1>2, ReceiptDone, KeptExpiry
<1>5. \A m \in Messages : GoodRow(sent[m], rows'[m])
    BY <1>1 DEF GoodRows
<1> QED
    BY <1>1, <1>2, <1>3, <1>4, <1>5, TableStep

\* run_at's selection.
LEMMA ExpireReadStep ==
    ASSUME IInv, ExpireRead
    PROVE  IInv'
<1> USE DEF IInv
<1>1. UNCHANGED <<rows, sm001, pc, stale, todo, claimed, snap, answer, ack, sent, refuted, dlr,
                  crashes>>
    BY DEF ExpireRead, rowVars, workerVars
<1>2. PICK rule \in {"submitted", "uncertain", "undelivered"} :
         expiring' = [m \in Messages |-> IF Overdue(rule, rows[m])
                                         THEN rows[m].version ELSE 0]
    BY DEF ExpireRead
<1>3. \A m \in Messages : rows[m].version \in Nat
    BY RowColumns DEF TypeOK
<1>4. rows' \in [Messages -> Row] /\ RowsAdvance
    BY <1>1, QuietTable
<1>5. expiring' \in [Messages -> Nat]
    BY <1>2, <1>3
<1>6. TypeOK'
    BY <1>1, <1>4, <1>5 DEF TypeOK, WorkLists
<1>7. GoodExpiry'
    BY <1>1, <1>2, <1>3 DEF GoodExpiry, Overdue
<1>8. GoodReceipts'
    BY <1>1, <1>4, KeptReceipts DEF SentGrows
<1>9. \A k \in Messages : GoodRow(sent[k], rows'[k])
    BY <1>1 DEF GoodRows
<1> QED
    BY <1>1, <1>4, <1>6, <1>7, <1>8, <1>9, TableStep

\* expire_matching's write, applied or lost.
LEMMA ExpireWriteStep ==
    ASSUME IInv, NEW m \in Messages, ExpireWrite(m)
    PROVE  IInv'
<1> USE DEF IInv
<1> DEFINE v == expiring[m]
           new == [rows[m] EXCEPT !.state = "expired"]
<1>1. /\ v # 0 /\ Write(m, v, new)
      /\ expiring' = [expiring EXCEPT ![m] = 0]
      /\ UNCHANGED <<pc, stale, todo, claimed, snap, answer, ack, sent, refuted, dlr, crashes>>
    BY DEF ExpireWrite, workerVars
<1>2. v \in Nat /\ rows[m] \in Row
    BY DEF TypeOK
<1>3. new \in Row /\ new.state = "expired"
    BY <1>2, ExpiryProposal
<1>4. ASSUME v = rows[m].version
      PROVE  GoodProposal(m, new)
    <2>1. rows[m].state \in {"submitted", "uncertain", "undelivered"}
        BY <1>1, <1>4 DEF GoodExpiry
    <2>2. Permitted(rows[m].state, "expired")
        BY <2>1 DEF Permitted, Edges
    <2>3. GoodRow(sent[m], new)
        BY <1>2, ExpiryProposal DEF GoodRows
    <2> QED
        BY <1>3, <2>2, <2>3 DEF GoodProposal
<1> HIDE DEF v, new
<1>5. /\ rows' \in [Messages -> Row] /\ sm001' = sm001 /\ RowsAdvance
      /\ \A k \in Messages : GoodRow(sent[k], rows'[k])
    BY <1>1, <1>2, <1>3, <1>4, WriteKeepsRows
<1>6. TypeOK'
    BY <1>1, <1>5 DEF TypeOK, WorkLists
<1>7. \A k \in Messages : expiring'[k] \in {0, expiring[k]}
    BY <1>1 DEF TypeOK
<1>8. GoodReceipts' /\ GoodExpiry'
    BY <1>1, <1>5, <1>7, KeptReceipts, KeptExpiry DEF SentGrows
<1> QED
    BY <1>1, <1>5, <1>6, <1>8, TableStep

\* expire_stale failing part of the way.
LEMMA ExpireFailsStep ==
    ASSUME IInv, ExpireFails
    PROVE  IInv'
<1> USE DEF IInv
<1>1. /\ expiring' = [m \in Messages |-> 0]
      /\ UNCHANGED <<rows, sm001, pc, stale, todo, claimed, snap, answer, ack, sent, refuted,
                     dlr, crashes>>
    BY DEF ExpireFails, rowVars, workerVars
<1>2. rows' \in [Messages -> Row] /\ RowsAdvance
    BY <1>1, QuietTable
<1>3. TypeOK'
    BY <1>1, <1>2 DEF TypeOK, WorkLists
<1>4. GoodReceipts' /\ GoodExpiry'
    BY <1>1, <1>2, KeptReceipts, KeptExpiry DEF SentGrows
<1>5. \A m \in Messages : GoodRow(sent[m], rows'[m])
    BY <1>1 DEF GoodRows
<1> QED
    BY <1>1, <1>2, <1>3, <1>4, <1>5, TableStep

-----------------------------------------------------------------------------
(* Steps of a dispatcher.                                                  *)

\* Message::candidates: fresh copies agree with their rows.
LEMMA ReadCandidatesStep ==
    ASSUME IInv, NEW w \in Dispatchers, ReadCandidates(w)
    PROVE  IInv'
<1> USE DEF IInv
<1> DEFINE batch == FirstOf(Candidates, Budget)
           copies == [m \in Messages |-> IF m \in batch THEN rows[m] ELSE NoRow]
<1>1. /\ pc[w] = "idle" /\ batch # {}
      /\ pc' = [pc EXCEPT ![w] = "claiming"]
      /\ stale' = [stale EXCEPT ![w] = 0]
      /\ todo' = [todo EXCEPT ![w] = batch]
      /\ snap' = [snap EXCEPT ![w] = copies]
      /\ UNCHANGED <<rows, sm001, claimed, answer, ack, sent, refuted, dlr, expiring, crashes>>
    BY DEF ReadCandidates, rowVars
<1>2. batch \subseteq Messages /\ \A m \in batch : rows[m].state \in Claimable
    BY DEF FirstOf, Candidates
<1>3. rows \in [Messages -> Row] /\ NoRow \in Row
    BY DEF TypeOK, NoRow, Row
<1>4. copies \in [Messages -> Row] /\ \A m \in batch : copies[m] = rows[m]
    BY <1>2, <1>3
<1>5. \A m \in Messages : rows[m].version \in Nat
    BY <1>3, RowColumns
<1> HIDE DEF batch, copies
<1>6. todo[w] = {} /\ claimed[w] = {} /\ answer[w] = "none"
    BY <1>1 DEF TypeOK, WorkLists
<1>7. /\ todo'[w] = batch /\ snap'[w] = copies /\ pc'[w] = "claiming"
      /\ \A x \in Dispatchers \ {w} : todo'[x] = todo[x] /\ snap'[x] = snap[x] /\ pc'[x] = pc[x]
    BY <1>1 DEF TypeOK
<1>8. TypeOK'
    <2>1. \A x \in Dispatchers : WorkLists(x)'
        BY <1>1, <1>6, <1>7 DEF TypeOK, WorkLists
    <2> QED
        BY <1>1, <1>2, <1>4, <2>1 DEF TypeOK, Pc
<1>9. rows' \in [Messages -> Row] /\ RowsAdvance /\ SentGrows
    BY <1>1, QuietTable DEF SentGrows
<1>10. GoodRows' /\ NoIllegalTransition' /\ GoodReceipts' /\ GoodExpiry'
    BY <1>1, <1>9, KeptReceipts, KeptExpiry DEF GoodRows, NoIllegalTransition
<1>11. WorkOnHand'
    BY <1>1, <1>2, <1>4, <1>6, <1>7 DEF WorkOnHand
<1>12. GoodCopies'
    BY <1>1, <1>2, <1>4, <1>5, <1>6, <1>7 DEF GoodCopies, Same
<1>13. OneWriterPerClaim'
    <2>1. ASSUME NEW x \in Dispatchers, NEW m \in Messages, Holds(x, m)'
          PROVE  Holds(x, m)
        BY <1>1, <1>6, <1>7, <2>1 DEF Holds
    <2> QED
        BY <2>1 DEF OneWriterPerClaim
<1>14. AckMatches'
    BY <1>1, <1>6, <1>7 DEF AckMatches, First
<1> QED
    BY <1>8, <1>10, <1>11, <1>12, <1>13, <1>14

\* One compare-and-swap of lease_candidates.  The winner's copy is the new
\* version, which no other dispatcher can have.
LEMMA TakeLeaseStep ==
    ASSUME IInv, NEW w \in Dispatchers, TakeLease(w)
    PROVE  IInv'
<1> USE DEF IInv
<1> DEFINE Turn(m, new) ==
      LET old == snap[w][m]
          rest == todo[w] \ {m}
          won == CasWins(m, old.version) /\ new.state = "routed" IN
      /\ First(todo[w], m)
      /\ Write(m, old.version, new)
      /\ claimed' = [claimed EXCEPT ![w] = IF won THEN @ \cup {m} ELSE @]
      /\ snap' = [snap EXCEPT ![w][m] = IF won THEN rows'[m] ELSE NoRow]
      /\ todo' = [todo EXCEPT ![w] = rest]
      /\ pc' = [pc EXCEPT ![w] = IF rest # {} THEN "claiming"
                                 ELSE IF claimed'[w] = {} THEN "idle" ELSE "submitting"]
      /\ stale' = [stale EXCEPT ![w] = IF rest # {} THEN @ ELSE 0]
<1>a. PICK m \in Messages :
         \E new \in LeaseWrites(snap[w][m], rows[m], stale[w]) : Turn(m, new)
    BY DEF TakeLease
<1>b. PICK new \in LeaseWrites(snap[w][m], rows[m], stale[w]) : Turn(m, new)
    BY <1>a
<1> DEFINE old == snap[w][m]
           rest == todo[w] \ {m}
           won == CasWins(m, old.version) /\ new.state = "routed"
<1>1. /\ First(todo[w], m)
      /\ Write(m, old.version, new)
      /\ claimed' = [claimed EXCEPT ![w] = IF won THEN @ \cup {m} ELSE @]
      /\ snap' = [snap EXCEPT ![w][m] = IF won THEN rows'[m] ELSE NoRow]
      /\ todo' = [todo EXCEPT ![w] = rest]
      /\ pc' = [pc EXCEPT ![w] = IF rest # {} THEN "claiming"
                                 ELSE IF claimed'[w] = {} THEN "idle" ELSE "submitting"]
      /\ stale' = [stale EXCEPT ![w] = IF rest # {} THEN @ ELSE 0]
    BY <1>b
<1> HIDE DEF Turn
<1>2. /\ pc[w] = "claiming"
      /\ UNCHANGED <<answer, ack, sent, refuted, dlr, expiring, crashes>>
    BY DEF TakeLease
<1>3. m \in todo[w] /\ m \notin claimed[w] /\ old.state \in Claimable /\ answer[w] = "none"
    BY <1>1, <1>2 DEF First, WorkOnHand, TypeOK, WorkLists
<1>4. old \in Row /\ rows[m] \in Row /\ stale[w] \in Nat /\ NoRow \in Row
    BY SMTT(30) DEF TypeOK, NoRow, Row
<1>5. old.version \in Nat /\ \A k \in Messages : rows[k].version \in Nat
    BY <1>4, RowColumns DEF TypeOK
<1>6. /\ new \in Row
      /\ new.state \in {"queued", "rejected", "routed", "failed"}
      /\ Same(old, rows[m]) => Permitted(rows[m].state, new.state) /\ GoodRow(sent[m], new)
    <2>1. GoodRow(sent[m], rows[m])
        BY DEF GoodRows
    <2> QED
        BY <1>3, <1>4, <2>1, LeaseProposal
<1>7. ASSUME old.version = rows[m].version
      PROVE  GoodProposal(m, new)
    BY <1>3, <1>6, <1>7 DEF GoodCopies, GoodProposal
<1>8. /\ rows' \in [Messages -> Row] /\ sm001' = sm001 /\ RowsAdvance
      /\ \A k \in Messages : GoodRow(sent[k], rows'[k])
      /\ old.version = rows[m].version => rows' = [rows EXCEPT ![m] = Touched(new, old.version)]
    BY <1>1, <1>5, <1>6, <1>7, WriteKeepsRows
<1>9. ASSUME won
      PROVE  /\ rows'[m] \in Row /\ rows'[m].state = "routed" /\ rows'[m].route \in Routes
             /\ rows'[m].version = rows[m].version + 1
    <2>1. rows'[m] = Touched(new, old.version) /\ old.version = rows[m].version
        BY <1>8, <1>9 DEF CasWins, TypeOK
    <2>2. new.state = "routed" /\ GoodRow(sent[m], new)
        BY <1>7, <1>9, <2>1 DEF GoodProposal
    <2> QED
        BY <1>5, <1>6, <2>1, <2>2, TouchedRow DEF Same, GoodRow
<1>10. /\ snap' \in [Dispatchers -> [Messages -> Row]]
       /\ \A x \in Dispatchers, k \in Messages :
            ~(x = w /\ k = m) => snap'[x][k] = snap[x][k]
       /\ won => snap'[w][m] = rows'[m]
    <2> DEFINE copy == IF won THEN rows'[m] ELSE NoRow
    <2>1. copy \in Row
        BY <1>4, <1>9
    <2>2. snap' = [snap EXCEPT ![w][m] = copy]
        BY <1>1
    <2> HIDE DEF copy
    <2>3. snap' \in [Dispatchers -> [Messages -> Row]] /\ snap'[w][m] = copy
        BY <2>1, <2>2 DEF TypeOK
    <2>4. \A x \in Dispatchers, k \in Messages : ~(x = w /\ k = m) => snap'[x][k] = snap[x][k]
        BY <2>2 DEF TypeOK
    <2> QED
        BY <2>3, <2>4 DEF copy
<1>11. /\ todo'[w] = rest
       /\ claimed'[w] = (IF won THEN claimed[w] \cup {m} ELSE claimed[w])
       /\ \A x \in Dispatchers \ {w} : todo'[x] = todo[x] /\ claimed'[x] = claimed[x]
                                       /\ pc'[x] = pc[x]
    BY <1>1 DEF TypeOK
<1>12. pc'[w] = (IF rest # {} THEN "claiming"
                 ELSE IF claimed'[w] = {} THEN "idle" ELSE "submitting")
    BY <1>1 DEF TypeOK
<1> HIDE DEF old, won
<1>13. TypeOK'
    <2>1. \A x \in Dispatchers : WorkLists(x)'
        BY <1>2, <1>3, <1>11, <1>12 DEF TypeOK, WorkLists
    <2>2. /\ pc' \in [Dispatchers -> Pc] /\ stale' \in [Dispatchers -> Nat]
          /\ todo' \in [Dispatchers -> SUBSET Messages]
          /\ claimed' \in [Dispatchers -> SUBSET Messages]
        BY <1>1, <1>4 DEF TypeOK, Pc
    <2> QED
        BY <1>2, <1>8, <1>10, <2>1, <2>2 DEF TypeOK
<1>14. GoodRows' /\ NoIllegalTransition' /\ GoodReceipts' /\ GoodExpiry'
    BY <1>2, <1>8, KeptRows, KeptReceipts, KeptExpiry DEF SentGrows, NoIllegalTransition
<1>15. WorkOnHand'
    BY <1>3, <1>9, <1>10, <1>11 DEF WorkOnHand
<1>16. GoodCopies'
    <2> SUFFICES ASSUME NEW x \in Dispatchers, NEW k \in Messages,
                        k \in todo'[x] \/ k \in claimed'[x]
                 PROVE  /\ snap'[x][k].version <= rows'[k].version
                        /\ snap'[x][k].version = rows'[k].version
                             => Same(snap'[x][k], rows'[k])
        BY DEF GoodCopies
    <2>1. CASE x = w /\ k = m
        <3>1. won
            BY <1>3, <1>11, <2>1
        <3> QED
            BY <1>5, <1>9, <1>10, <2>1, <3>1 DEF Same
    <2>2. CASE ~(x = w /\ k = m)
        <3>1. k \in todo[x] \/ k \in claimed[x]
            BY <1>11, <2>2
        <3>2. snap'[x][k] = snap[x][k] /\ snap[x][k] \in Row /\ rows'[k] \in Row
            BY <1>8, <1>10, <2>2 DEF TypeOK
        <3>3. snap[x][k].version \in Nat /\ rows'[k].version \in Nat /\ rows[k].version \in Nat
            BY <1>5, <3>2, RowColumns
        <3> QED
            BY <1>8, <3>1, <3>2, <3>3 DEF GoodCopies, RowsAdvance, Same
    <2> QED
        BY <2>1, <2>2
<1>17. OneWriterPerClaim'
    <2>1. ASSUME NEW x \in Dispatchers, NEW k \in Messages, Holds(x, k)', ~(x = w /\ k = m)
          PROVE  Holds(x, k) /\ ~(won /\ k = m)
        <3>1. k \in claimed[x] /\ snap[x][k].version = rows'[k].version
            BY <1>10, <1>11, <2>1 DEF Holds
        <3>2. snap[x][k].version <= rows[k].version /\ rows[k].version <= rows'[k].version
            BY <1>8, <3>1 DEF GoodCopies, RowsAdvance
        <3>3. snap[x][k].version \in Nat /\ rows[k].version \in Nat /\ rows'[k].version \in Nat
            <4>1. snap[x][k] \in Row /\ rows'[k] \in Row
                BY <1>8 DEF TypeOK
            <4> QED
                BY <1>5, <4>1, RowColumns
        <3> QED
            BY <1>9, <3>1, <3>2, <3>3 DEF Holds
    <2>2. ASSUME Holds(w, m)'
          PROVE  won
        BY <1>3, <1>11, <2>2 DEF Holds
    <2> SUFFICES ASSUME NEW k \in Messages, NEW x \in Dispatchers, NEW y \in Dispatchers,
                        Holds(x, k)', Holds(y, k)'
                 PROVE  x = y
        BY DEF OneWriterPerClaim
    <2>3. CASE k # m \/ (x # w /\ y # w)
        BY <2>1, <2>3 DEF OneWriterPerClaim
    <2>4. CASE k = m /\ (x = w \/ y = w)
        BY <2>1, <2>2, <2>4
    <2> QED
        BY <2>3, <2>4
<1>18. AckMatches'
    <2> SUFFICES ASSUME NEW x \in Dispatchers, NEW k \in Messages, First(claimed'[x], k),
                        pc'[x] = "accepted" \/ answer'[x] = "Ok"
                 PROVE  /\ ack'[x] \in DOMAIN sent'[k]
                        /\ sent'[k][ack'[x]] = ProviderOf[snap'[x][k].route]
        BY DEF AckMatches, First
    <2>1. x # w
        BY <1>2, <1>3, <1>12
    <2> QED
        BY <1>2, <1>10, <1>11, <2>1 DEF AckMatches
<1> QED
    BY <1>13, <1>14, <1>15, <1>16, <1>17, <1>18

\* ClaimAborts and Crash: the dispatcher forgets what it had on hand.
LEMMA ResetStep ==
    ASSUME IInv, NEW w \in Dispatchers, Reset(w), crashes' \in 0..MaxCrashes,
           UNCHANGED <<rows, sm001, sent, refuted, dlr, expiring>>
    PROVE  IInv'
<1> USE DEF IInv
<1>1. /\ todo'[w] = {} /\ claimed'[w] = {} /\ pc'[w] = "idle" /\ answer'[w] = "none"
      /\ \A x \in Dispatchers \ {w} :
           /\ todo'[x] = todo[x] /\ claimed'[x] = claimed[x] /\ snap'[x] = snap[x]
           /\ pc'[x] = pc[x] /\ answer'[x] = answer[x] /\ ack'[x] = ack[x]
    BY DEF Reset, TypeOK
<1>2. NoRow \in Row
    BY DEF NoRow, Row
<1>3. TypeOK'
    <2>1. \A x \in Dispatchers : WorkLists(x)'
        BY <1>1, ZenonT(30) DEF TypeOK, WorkLists
    <2>2. /\ pc' \in [Dispatchers -> Pc] /\ stale' \in [Dispatchers -> Nat]
          /\ todo' \in [Dispatchers -> SUBSET Messages]
          /\ claimed' \in [Dispatchers -> SUBSET Messages]
          /\ answer' \in [Dispatchers -> Answers \cup {"none"}]
          /\ ack' \in [Dispatchers -> Nat]
        BY DEF TypeOK, Pc, Reset
    <2>3. snap' \in [Dispatchers -> [Messages -> Row]]
        BY <1>2 DEF TypeOK, Reset
    <2> QED
        BY <2>1, <2>2, <2>3 DEF TypeOK
<1>4. rows' \in [Messages -> Row] /\ RowsAdvance /\ SentGrows
    BY QuietTable DEF SentGrows
<1>5. GoodRows' /\ NoIllegalTransition' /\ GoodReceipts' /\ GoodExpiry'
    BY <1>4, KeptReceipts, KeptExpiry DEF GoodRows, NoIllegalTransition
<1>6. WorkOnHand'
    BY <1>1 DEF WorkOnHand
<1>7. GoodCopies'
    BY <1>1 DEF GoodCopies
<1>8. OneWriterPerClaim'
    <2>1. ASSUME NEW x \in Dispatchers, NEW m \in Messages, Holds(x, m)'
          PROVE  Holds(x, m)
        BY <1>1, <2>1 DEF Holds
    <2> QED
        BY <2>1 DEF OneWriterPerClaim
<1>9. AckMatches'
    BY <1>1 DEF AckMatches, First
<1> QED
    BY <1>3, <1>5, <1>6, <1>7, <1>8, <1>9

\* The provider call begins.
LEMMA SubmitStep ==
    ASSUME IInv, NEW w \in Dispatchers, Submit(w)
    PROVE  IInv'
<1> USE DEF IInv
<1>1. /\ pc[w] = "submitting" /\ pc' = [pc EXCEPT ![w] = "calling"]
      /\ UNCHANGED <<rows, sm001, stale, todo, claimed, snap, answer, ack, sent, refuted, dlr,
                     expiring, crashes>>
    BY DEF Submit, rowVars
<1>2. pc'[w] = "calling" /\ \A x \in Dispatchers \ {w} : pc'[x] = pc[x]
    BY <1>1 DEF TypeOK
<1>3. TypeOK'
    <2>1. \A x \in Dispatchers : WorkLists(x)'
        BY <1>1, <1>2 DEF TypeOK, WorkLists
    <2> QED
        BY <1>1, <2>1 DEF TypeOK, Pc
<1>4. rows' \in [Messages -> Row] /\ RowsAdvance /\ SentGrows
    BY <1>1, QuietTable DEF SentGrows
<1>5. GoodRows' /\ NoIllegalTransition' /\ GoodReceipts' /\ GoodExpiry'
    BY <1>1, <1>4, KeptReceipts, KeptExpiry DEF GoodRows, NoIllegalTransition
<1>6. WorkOnHand' /\ GoodCopies'
    BY <1>1, <1>4, KeptCopies DEF WorkOnHand
<1>7. OneWriterPerClaim'
    BY <1>1, <1>4, KeptWriter
<1>8. AckMatches'
    BY <1>1, <1>2 DEF AckMatches, First
<1> QED
    BY <1>3, <1>5, <1>6, <1>7, <1>8

\* The provider takes the message: the references given before stay valid.
LEMMA ProviderAcceptsStep ==
    ASSUME IInv, NEW w \in Dispatchers, ProviderAccepts(w)
    PROVE  IInv'
<1> USE DEF IInv
<1>1. PICK m \in Messages :
         /\ First(claimed[w], m)
         /\ sent' = [sent EXCEPT ![m] = Append(@, ProviderOf[snap[w][m].route])]
         /\ ack' = [ack EXCEPT ![w] = Len(sent[m]) + 1]
    BY DEF ProviderAccepts
<1> DEFINE provider == ProviderOf[snap[w][m].route]
<1>2. /\ pc[w] = "calling" /\ pc' = [pc EXCEPT ![w] = "accepted"]
      /\ UNCHANGED <<rows, sm001, stale, todo, claimed, snap, answer, refuted, dlr, expiring,
                     crashes>>
    BY DEF ProviderAccepts, rowVars
<1>3. provider \in Providers
    <2>1. snap[w][m].route \in Routes
        BY <1>1 DEF First, WorkOnHand
    <2> QED
        BY <2>1, ProviderOfAssumption
<1> HIDE DEF provider
<1>4. sent[m] \in Seq(Providers) /\ Len(sent[m]) \in Nat
    BY DEF TypeOK
<1>5. /\ sent'[m] = Append(sent[m], provider)
      /\ \A k \in Messages \ {m} : sent'[k] = sent[k]
      /\ sent' \in [Messages -> Seq(Providers)]
    BY <1>1, <1>3, <1>4 DEF TypeOK, provider
<1>6. SentGrows
    BY <1>3, <1>4, <1>5 DEF SentGrows
<1>7. /\ pc'[w] = "accepted" /\ ack'[w] = Len(sent[m]) + 1
      /\ \A x \in Dispatchers \ {w} : pc'[x] = pc[x] /\ ack'[x] = ack[x]
    BY <1>1, <1>2 DEF TypeOK
<1>8. TypeOK'
    <2>1. \A x \in Dispatchers : WorkLists(x)'
        BY <1>2, <1>7 DEF TypeOK, WorkLists
    <2>2. pc' \in [Dispatchers -> Pc] /\ ack' \in [Dispatchers -> Nat]
        BY <1>1, <1>2, <1>4 DEF TypeOK, Pc
    <2> QED
        BY <1>2, <1>5, <2>1, <2>2 DEF TypeOK
<1>9. rows' \in [Messages -> Row] /\ RowsAdvance
    BY <1>2, QuietTable
<1>10. \A k \in Messages : GoodRow(sent[k], rows'[k])
    BY <1>2 DEF GoodRows
<1>11. GoodRows' /\ NoIllegalTransition' /\ GoodReceipts' /\ GoodExpiry'
    BY <1>2, <1>6, <1>9, <1>10, KeptRows, KeptReceipts, KeptExpiry DEF NoIllegalTransition
<1>12. WorkOnHand' /\ GoodCopies' /\ OneWriterPerClaim'
    BY <1>2, <1>9, KeptCopies, KeptWriter DEF WorkOnHand
<1>13. AckMatches'
    <2> SUFFICES ASSUME NEW x \in Dispatchers, NEW k \in Messages, First(claimed[x], k),
                        pc'[x] = "accepted" \/ answer[x] = "Ok"
                 PROVE  /\ ack'[x] \in DOMAIN sent'[k]
                        /\ sent'[k][ack'[x]] = ProviderOf[snap[x][k].route]
        BY <1>2 DEF AckMatches, First
    <2>1. CASE x = w
        <3>1. k = m
            BY <1>1, <2>1, MessagesAssumption DEF First
        <3>2. sent'[m][Len(sent[m]) + 1] = provider /\ Len(sent[m]) + 1 \in DOMAIN sent'[m]
            BY <1>3, <1>4, <1>5
        <3> QED
            BY <1>7, <2>1, <3>1, <3>2 DEF provider
    <2>2. CASE x # w
        BY <1>6, <1>7, <2>2 DEF AckMatches, SentGrows
    <2> QED
        BY <2>1, <2>2
<1> QED
    BY <1>8, <1>11, <1>12, <1>13

\* The provider's answer reaches the dispatcher.
LEMMA ProviderAnswersStep ==
    ASSUME IInv, NEW w \in Dispatchers, ProviderAnswers(w)
    PROVE  IInv'
<1> USE DEF IInv
<1>1. PICK a \in Answers : /\ (pc[w] = "calling" /\ a # "Ok") \/ pc[w] = "accepted"
                           /\ answer' = [answer EXCEPT ![w] = a]
    BY DEF ProviderAnswers, Answers, Refusals
<1>2. /\ pc' = [pc EXCEPT ![w] = "answered"]
      /\ UNCHANGED <<rows, sm001, stale, todo, claimed, snap, ack, sent, refuted, dlr, expiring,
                     crashes>>
    BY DEF ProviderAnswers, rowVars
<1>3. /\ pc'[w] = "answered" /\ answer'[w] = a /\ a # "none"
      /\ \A x \in Dispatchers \ {w} : pc'[x] = pc[x] /\ answer'[x] = answer[x]
    BY <1>1, <1>2 DEF TypeOK, Answers, Refusals
<1>4. TypeOK'
    <2>1. \A x \in Dispatchers : WorkLists(x)'
        BY <1>1, <1>2, <1>3 DEF TypeOK, WorkLists
    <2> QED
        BY <1>1, <1>2, <2>1 DEF TypeOK, Pc
<1>5. rows' \in [Messages -> Row] /\ RowsAdvance /\ SentGrows
    BY <1>2, QuietTable DEF SentGrows
<1>6. GoodRows' /\ NoIllegalTransition' /\ GoodReceipts' /\ GoodExpiry'
    BY <1>2, <1>5, KeptReceipts, KeptExpiry DEF GoodRows, NoIllegalTransition
<1>7. WorkOnHand' /\ GoodCopies' /\ OneWriterPerClaim'
    BY <1>2, <1>5, KeptCopies, KeptWriter DEF WorkOnHand
<1>8. AckMatches'
    BY <1>1, <1>2, <1>3 DEF AckMatches, First
<1> QED
    BY <1>4, <1>6, <1>7, <1>8

\* WriteOutcome and OutcomeLost: done with row m, whatever became of it.
LEMMA FinishStep ==
    ASSUME IInv, NEW w \in Dispatchers, NEW m \in Messages, pc[w] = "answered",
           First(claimed[w], m), Finish(w, m), rows' \in [Messages -> Row], sm001' = sm001,
           RowsAdvance, \A k \in Messages : GoodRow(sent[k], rows'[k])
    PROVE  IInv'
<1> USE DEF IInv
<1>1. /\ claimed'[w] = claimed[w] \ {m} /\ answer'[w] = "none" /\ m \in claimed[w]
      /\ pc'[w] = IF claimed[w] = {m} THEN "idle" ELSE "submitting"
      /\ \A x \in Dispatchers \ {w} :
           claimed'[x] = claimed[x] /\ pc'[x] = pc[x] /\ answer'[x] = answer[x]
           /\ ack'[x] = ack[x]
      /\ UNCHANGED <<stale, todo, sent, refuted, dlr, expiring, crashes>>
    BY DEF Finish, TypeOK, First
<1>2. /\ snap' \in [Dispatchers -> [Messages -> Row]]
      /\ \A x \in Dispatchers, k \in Messages :
           ~(x = w /\ k = m) => snap'[x][k] = snap[x][k]
    <2>1. NoRow \in Row
        BY DEF NoRow, Row
    <2>2. snap' = [snap EXCEPT ![w][m] = NoRow]
        BY DEF Finish
    <2> QED
        BY <2>1, <2>2 DEF TypeOK
<1>3. todo[w] = {}
    BY DEF TypeOK, WorkLists
<1>4. TypeOK'
    <2>1. \A x \in Dispatchers : WorkLists(x)'
        <3>1. WorkLists(w)'
            <4>1. CASE claimed[w] = {m}
                BY <1>1, <1>3, <4>1 DEF WorkLists
            <4>2. CASE claimed[w] # {m}
                <5>1. claimed'[w] # {} /\ pc'[w] = "submitting"
                    BY <1>1, <4>2
                <5> QED
                    BY <1>1, <1>3, <5>1 DEF WorkLists
            <4> QED
                BY <4>1, <4>2
        <3>2. ASSUME NEW x \in Dispatchers \ {w}
              PROVE  WorkLists(x)'
            BY <1>1, <3>2 DEF TypeOK, WorkLists
        <3> QED
            BY <3>1, <3>2
    <2>2. /\ pc' \in [Dispatchers -> Pc] /\ claimed' \in [Dispatchers -> SUBSET Messages]
          /\ answer' \in [Dispatchers -> Answers \cup {"none"}] /\ ack' \in [Dispatchers -> Nat]
        BY DEF TypeOK, Pc, Finish
    <2> QED
        BY <1>1, <1>2, <2>1, <2>2 DEF TypeOK
<1>5. GoodRows' /\ NoIllegalTransition' /\ GoodReceipts' /\ GoodExpiry'
    BY <1>1, KeptRows, KeptReceipts, KeptExpiry DEF SentGrows, NoIllegalTransition
<1>6. ASSUME NEW x \in Dispatchers, NEW k \in Messages, k \in todo'[x] \/ k \in claimed'[x]
      PROVE  /\ k \in todo[x] \/ k \in claimed[x]
             /\ snap'[x][k] = snap[x][k]
    BY <1>1, <1>2, <1>3, <1>6
<1>7. WorkOnHand'
    BY <1>1, <1>6 DEF WorkOnHand
<1>8. ASSUME NEW x \in Dispatchers, NEW k \in Messages, k \in todo'[x] \/ k \in claimed'[x]
      PROVE  /\ snap[x][k].version \in Nat /\ rows[k].version \in Nat /\ rows'[k].version \in Nat
             /\ snap[x][k].version <= rows[k].version /\ rows[k].version <= rows'[k].version
             /\ snap[x][k].version = rows[k].version => Same(snap[x][k], rows[k])
    <2>1. snap[x][k] \in Row /\ rows[k] \in Row /\ rows'[k] \in Row
        BY DEF TypeOK
    <2> QED
        BY <1>6, <1>8, <2>1, RowColumns DEF GoodCopies, RowsAdvance
<1>9. GoodCopies'
    BY <1>6, <1>8 DEF GoodCopies, RowsAdvance, Same
<1>10. OneWriterPerClaim'
    <2>1. ASSUME NEW x \in Dispatchers, NEW k \in Messages, Holds(x, k)'
          PROVE  Holds(x, k)
        BY <1>1, <1>6, <1>8, <2>1 DEF Holds
    <2> QED
        BY <2>1 DEF OneWriterPerClaim
<1>11. AckMatches'
    <2> SUFFICES ASSUME NEW x \in Dispatchers, NEW k \in Messages, First(claimed'[x], k),
                        pc'[x] = "accepted" \/ answer'[x] = "Ok"
                 PROVE  /\ ack'[x] \in DOMAIN sent'[k]
                        /\ sent'[k][ack'[x]] = ProviderOf[snap'[x][k].route]
        BY DEF AckMatches, First
    <2>1. x # w
        BY <1>1
    <2> QED
        BY <1>1, <1>2, <2>1 DEF AckMatches
<1> QED
    BY <1>4, <1>5, <1>7, <1>9, <1>10, <1>11

\* write_submitted, write_transition or write_failover, applied or lost.
LEMMA WriteOutcomeStep ==
    ASSUME IInv, NEW w \in Dispatchers, WriteOutcome(w)
    PROVE  IInv'
<1> USE DEF IInv
<1>1. PICK m \in Messages :
         /\ First(claimed[w], m)
         /\ \E new \in OutcomeWrites(snap[w][m], rows[m], answer[w], ack[w]) :
              Write(m, snap[w][m].version, new)
         /\ Finish(w, m)
    BY DEF WriteOutcome
<1> DEFINE old == snap[w][m]
<1>2. PICK new \in OutcomeWrites(old, rows[m], answer[w], ack[w]) : Write(m, old.version, new)
    BY <1>1
<1>3. /\ pc[w] = "answered" /\ answer[w] \in Answers /\ ack[w] \in Nat
      /\ old \in Row /\ rows[m] \in Row /\ old.version \in Nat
    <2>1. pc[w] = "answered" /\ answer[w] \in Answers /\ ack[w] \in Nat
        BY DEF WriteOutcome, TypeOK, WorkLists
    <2>2. old \in Row /\ rows[m] \in Row
        BY DEF TypeOK
    <2> QED
        BY <2>1, <2>2, RowColumns
<1>4. m \in claimed[w] /\ old.state = "routed" /\ old.route \in Routes
    BY <1>1 DEF First, WorkOnHand
<1>5. answer[w] = "Ok" => ack[w] \in DOMAIN sent[m] /\ sent[m][ack[w]] = ProviderOf[old.route]
    BY <1>1 DEF AckMatches
<1>6. GoodRow(sent[m], rows[m])
    BY DEF GoodRows
<1>7. /\ new \in Row
      /\ new.state \in {"submitted", "queued", "failed", "uncertain"}
      /\ Same(old, rows[m]) => Permitted(rows[m].state, new.state) /\ GoodRow(sent[m], new)
    <2> HIDE DEF old
    <2> QED
        BY <1>2, <1>3, <1>4, <1>5, <1>6, OutcomeProposal
<1>8. ASSUME old.version = rows[m].version
      PROVE  GoodProposal(m, new)
    BY <1>4, <1>7, <1>8 DEF GoodCopies, GoodProposal
<1>9. /\ rows' \in [Messages -> Row] /\ sm001' = sm001 /\ RowsAdvance
      /\ \A k \in Messages : GoodRow(sent[k], rows'[k])
    BY <1>2, <1>3, <1>7, <1>8, WriteKeepsRows
<1> QED
    BY <1>1, <1>3, <1>9, FinishStep

\* The same with the write failing.
LEMMA OutcomeLostStep ==
    ASSUME IInv, NEW w \in Dispatchers, OutcomeLost(w)
    PROVE  IInv'
<1> USE DEF IInv
<1>1. PICK m \in Messages : First(claimed[w], m) /\ Finish(w, m)
    BY DEF OutcomeLost
<1>2. pc[w] = "answered" /\ rows' = rows /\ sm001' = sm001
    BY DEF OutcomeLost, rowVars
<1>3. rows' \in [Messages -> Row] /\ RowsAdvance
    BY <1>2, QuietTable
<1>4. \A k \in Messages : GoodRow(sent[k], rows'[k])
    BY <1>2 DEF GoodRows
<1> QED
    BY <1>1, <1>2, <1>3, <1>4, FinishStep

\* A dispatcher that dies or aborts its claim forgets what it had read.
LEMMA ForgetStep ==
    ASSUME IInv, NEW w \in Dispatchers, ClaimAborts(w) \/ Crash(w)
    PROVE  IInv'
<1>1. /\ Reset(w) /\ UNCHANGED <<rows, sm001, sent, refuted, dlr, expiring>>
    BY DEF ClaimAborts, Crash, rowVars
<1>2. crashes' \in 0..MaxCrashes
    BY BoundsAssumption DEF ClaimAborts, Crash, IInv, TypeOK
<1> QED
    BY <1>1, <1>2, ResetStep

-----------------------------------------------------------------------------
(* The invariant.                                                          *)

\* The empty tables satisfy the invariant.
LEMMA InitHolds == Init => IInv
<1> SUFFICES ASSUME Init PROVE IInv
    OBVIOUS
<1> USE DEF Init
<1>1. /\ NoRow \in Row /\ NoRow.state = "none" /\ NoRow.version = 0 /\ NoRow.attempts = 0
      /\ NoRow.excluded = {}
    BY DEF NoRow, Row
<1>2. TypeOK
    <2>1. /\ rows \in [Messages -> Row] /\ snap \in [Dispatchers -> [Messages -> Row]]
        BY <1>1
    <2>2. /\ crashes \in 0..MaxCrashes /\ sent \in [Messages -> Seq(Providers)]
        BY BoundsAssumption
    <2>3. \A w \in Dispatchers : WorkLists(w)
        BY DEF WorkLists
    <2> QED
        BY <2>1, <2>2, <2>3 DEF TypeOK, Pc
<1>3. Cardinality({}) = 0
    BY FS_EmptySet, Zenon
<1>4. GoodRows
    <2>1. MaxAttempts \in Nat /\ MaxHops \in Nat
        BY BoundsAssumption
    <2>2. \A log : GoodRow(log, NoRow)
        BY <1>1, <1>3, <2>1 DEF GoodRow
    <2> QED
        BY <2>2 DEF GoodRows
<1> QED
    BY <1>2, <1>4 DEF IInv, NoIllegalTransition, WorkOnHand, GoodCopies, OneWriterPerClaim,
        Holds, GoodReceipts, GoodExpiry, AckMatches, First

\* Every step preserves it, action by action.
LEMMA StepHolds == IInv /\ [Next]_vars => IInv'
<1> SUFFICES ASSUME IInv, [Next]_vars PROVE IInv'
    OBVIOUS
<1>1. ASSUME NEW m \in Messages, SendMessage(m) \/ ExpireWrite(m)
      PROVE  IInv'
    BY <1>1, SendMessageStep, ExpireWriteStep
<1>2. ASSUME NEW w \in Dispatchers, DispatcherStep(w) \/ Crash(w)
      PROVE  IInv'
    BY <1>2, ReadCandidatesStep, TakeLeaseStep, ForgetStep, SubmitStep, ProviderAcceptsStep,
        ProviderAnswersStep, WriteOutcomeStep, OutcomeLostStep DEF DispatcherStep
<1>3. ASSUME NEW h \in Receivers, ReadReceipt(h) \/ ApplyReceipt(h) \/ DropReceipt(h)
      PROVE  IInv'
    BY <1>3, ReadReceiptStep, ApplyReceiptStep, DropReceiptStep
<1>4. CASE ExpireRead \/ ExpireFails \/ Tick
    BY <1>4, ExpireReadStep, ExpireFailsStep, TickStep
<1>5. CASE UNCHANGED vars
    <2>1. UNCHANGED <<rows, pc, stale, todo, claimed, snap, answer, ack, sent, refuted, dlr,
                      expiring, crashes, sm001>>
        BY <1>5 DEF vars
    <2>2. rows' \in [Messages -> Row] /\ RowsAdvance
        BY <2>1, QuietTable DEF IInv
    <2>3. TypeOK'
        BY <2>1 DEF IInv, TypeOK, WorkLists
    <2>4. GoodReceipts' /\ GoodExpiry'
        BY <2>1, <2>2, KeptReceipts, KeptExpiry DEF IInv, SentGrows
    <2>5. \A m \in Messages : GoodRow(sent[m], rows'[m])
        BY <2>1 DEF IInv, GoodRows
    <2> QED
        BY <2>1, <2>2, <2>3, <2>4, <2>5, TableStep DEF IInv
<1> QED
    BY <1>1, <1>2, <1>3, <1>4, <1>5 DEF Next

\* The invariant holds in every reachable state.
THEOREM Invariance == Spec => []IInv
BY InitHolds, StepHolds, PTL DEF Spec

-----------------------------------------------------------------------------
(* What follows from it.                                                   *)

\* The variables keep their types and a dispatcher's work lists fit where it
\* is in its tick, whatever the interleaving.
THEOREM TypeCorrect == Spec => []TypeOK
<1>1. IInv => TypeOK
    BY DEF IInv
<1> QED
    BY <1>1, Invariance, PTL

\* No interleaving of dispatchers, receipts and expire_stale makes a writer
\* propose an edge that message_state_transitions lacks: the SM001 alarm
\* (sms_sm001_total) can only come from code outside these writers.
THEOREM NeverSM001 == Spec => []NoIllegalTransition
<1>1. IInv => NoIllegalTransition
    BY DEF IInv
<1> QED
    BY <1>1, Invariance, PTL

\* The attempts of a message stay within maxAttempts.
THEOREM AttemptsBounded == Spec => []AttemptsWithinBudget
<1>1. IInv => AttemptsWithinBudget
    BY DEF IInv, GoodRows, GoodRow, AttemptsWithinBudget
<1> QED
    BY <1>1, Invariance, PTL

\* Failover stays within MAX_FAILOVER_HOPS and does not return to a route.
THEOREM HopsBounded == Spec => []FailoverBounded
<1>1. IInv => FailoverBounded
    BY DEF IInv, GoodRows, GoodRow, FailoverBounded
<1> QED
    BY <1>1, Invariance, PTL

\* At most one dispatcher can still write the outcome of a message.
THEOREM SingleWriter == Spec => []OneWriterPerClaim
<1>1. IInv => OneWriterPerClaim
    BY DEF IInv
<1> QED
    BY <1>1, Invariance, PTL

\* A message said to be with a provider has that provider's reference.
THEOREM ReferenceKnown == Spec => []HandedOverHasReference
<1>1. IInv => HandedOverHasReference
    BY DEF IInv, GoodRows, GoodRow, HasReference, HandedOverHasReference
<1> QED
    BY <1>1, Invariance, PTL

-----------------------------------------------------------------------------
(* The send path implements MessageLife while nothing fails.               *)

\* One dispatcher, as the lease of the dispatch role has it, that does not die, and
\* writes that do not fail for reasons of their own.
NothingFails ==
    /\ \A v, w \in Dispatchers : v = w
    /\ MaxCrashes = 0
    /\ ~DbFaults

\* n copies of a message were handed over and lost are those reported as failed: nothing
\* was sent for a new one, nothing is under way for one that waits, and of one a provider
\* has the latest copy is, under the reference the row holds.
RowLink(state, ref, n, lost) ==
    /\ state \in {"none", "accepted"} => n = 0
    /\ state \in {"none", "accepted", "queued", "undelivered"} => lost = 1..n
    /\ state = "submitted" => n > 0 /\ ref = n /\ lost = 1..(n - 1)

RowLinks ==
    \A m \in Messages : RowLink(rows[m].state, rows[m].ref, Len(sent[m]), refuted[m])

\* What is routed is on its dispatcher's list, in the current version; what is still to be
\* leased was not routed.
ClaimLinks ==
    /\ \A m \in Messages : rows[m].state = "routed" => \E w \in Dispatchers : m \in claimed[w]
    /\ \A w \in Dispatchers, m \in Messages :
         /\ m \in claimed[w] => snap[w][m].version = rows[m].version
         /\ m \in todo[w] => snap[w][m].state # "routed"

\* The provider took the message w is submitting, and w is to know.
Took(w) == pc[w] = "accepted" \/ answer[w] = "Ok"

\* Nothing is under way for a message on a dispatcher's list, but for the one it is
\* submitting once the provider took it or did not answer.
CopyLinks ==
    \A w \in Dispatchers, m \in Messages :
        m \in claimed[w] =>
          /\ First(claimed[w], m) /\ Took(w)
               => RowLink("submitted", ack[w], Len(sent[m]), refuted[m])
          /\ ~(First(claimed[w], m) /\ (Took(w) \/ answer[w] = "Indeterminate"))
               => RowLink("queued", 0, Len(sent[m]), refuted[m])

LinkInv == RowLinks /\ ClaimLinks /\ CopyLinks

\* What is on a dispatcher's list is routed.
LEMMA ClaimedIsRouted ==
    ASSUME IInv, LinkInv, NEW w \in Dispatchers, NEW m \in Messages, m \in claimed[w]
    PROVE  rows[m].state = "routed"
BY DEF IInv, LinkInv, ClaimLinks, GoodCopies, WorkOnHand, Same

\* What of the table the links are about.
SameRow(m) ==
    /\ rows'[m].state = rows[m].state
    /\ rows'[m].version = rows[m].version
    /\ rows'[m].ref = rows[m].ref

\* Others than the dispatcher do not touch what is routed: their steps keep the links.
LEMMA OthersKeepLinks ==
    ASSUME IInv, LinkInv, UNCHANGED <<pc, todo, claimed, snap, answer, ack, sent>>,
           \A m \in Messages :
              \/ SameRow(m) /\ refuted'[m] = refuted[m]
              \/ /\ rows[m].state # "routed" /\ rows'[m].state # "routed"
                 /\ RowLink(rows'[m].state, rows'[m].ref, Len(sent[m]), refuted'[m])
    PROVE  LinkInv'
<1>1. RowLinks'
    BY DEF LinkInv, RowLinks, SameRow
<1>2. ASSUME NEW w \in Dispatchers, NEW m \in Messages, m \in claimed[w]
      PROVE  SameRow(m) /\ refuted'[m] = refuted[m]
    BY <1>2, ClaimedIsRouted
<1>3. ClaimLinks'
    BY <1>2 DEF LinkInv, ClaimLinks, SameRow
<1>4. CopyLinks'
    BY <1>2 DEF LinkInv, CopyLinks, First, Took
<1> QED
    BY <1>1, <1>3, <1>4 DEF LinkInv

-----------------------------------------------------------------------------
(* Steps of MessageLife, from what happens to one row.                     *)

\* The states of a row, as MessageLife names them.
LEMMA LifeOfState ==
    /\ LifeOf("none") = "none" /\ LifeOf("accepted") = "waiting"
    /\ LifeOf("queued") = "waiting" /\ LifeOf("undelivered") = "waiting"
    /\ LifeOf("routed") = "trying" /\ LifeOf("submitted") = "held"
    /\ LifeOf("uncertain") = "unknown" /\ LifeOf("delivered") = "delivered"
    /\ LifeOf("failed") = "failed" /\ LifeOf("expired") = "expired"
    /\ LifeOf("rejected") = "rejected"
BY DEF LifeOf

\* A step that leaves every message where it is.
LEMMA NothingMoves ==
    ASSUME \A m \in Messages : LifeOf(rows'[m].state) = LifeOf(rows[m].state),
           sent' = sent, refuted' = refuted
    PROVE  UNCHANGED Promise!lvars
<1>1. [m \in Messages |-> LifeOf(rows[m].state)]' = [m \in Messages |-> LifeOf(rows[m].state)]
    OBVIOUS
<1>2. [m \in Messages |-> Len(sent[m])]' = [m \in Messages |-> Len(sent[m])]
    OBVIOUS
<1> QED
    BY <1>1, <1>2 DEF Promise!lvars

\* A step that moves one message.
LEMMA OneMoves ==
    ASSUME NEW m \in Messages, NEW from, NEW to,
           \A k \in Messages \ {m} : rows'[k].state = rows[k].state,
           LifeOf(rows[m].state) \in from, LifeOf(rows'[m].state) = to, sent' = sent
    PROVE  /\ Promise!Move(m, from, to)
           /\ [k \in Messages |-> Len(sent[k])]' = [k \in Messages |-> Len(sent[k])]
BY DEF Promise!Move
-----------------------------------------------------------------------------
(* What each step does to the links, and to MessageLife.                   *)

\* A step of the send path keeps the links and does what MessageLife allows.
Implements == LinkInv' /\ [Promise!LNext]_(Promise!lvars)

\* The insert of sendMessage accepts the message.
LEMMA SendMessageLives ==
    ASSUME IInv, LinkInv, NEW m \in Messages, SendMessage(m)
    PROVE  Implements
<1> DEFINE inserted(delay) ==
             [NoRow EXCEPT !.state = "accepted", !.version = 1, !.wait = Remaining(delay),
                           !.expires = Remaining(delay + Validity)]
<1>1. PICK delay \in Delays : rows' = [rows EXCEPT ![m] = inserted(delay)]
    BY DEF SendMessage
<1>2. rows[m].state = "none" /\ refuted' = refuted
      /\ UNCHANGED <<pc, todo, claimed, snap, answer, ack, sent>>
    BY DEF SendMessage, workerVars
<1>3. inserted(delay).state = "accepted"
    BY DEF NoRow
<1> HIDE DEF inserted
<1>4. /\ rows'[m].state = "accepted" /\ \A k \in Messages \ {m} : rows'[k] = rows[k]
    BY <1>1, <1>3 DEF IInv, TypeOK
<1>5. RowLink("accepted", rows'[m].ref, Len(sent[m]), refuted[m])
    BY <1>2 DEF LinkInv, RowLinks, RowLink
<1>6. LinkInv'
    BY <1>2, <1>4, <1>5, OthersKeepLinks DEF SameRow
<1>7. Promise!Accept(m)
    BY <1>2, <1>4, OneMoves, LifeOfState DEF Promise!Accept
<1> QED
    BY <1>6, <1>7 DEF Implements, Promise!LNext

\* Time moves no message.
LEMMA TickLives ==
    ASSUME IInv, LinkInv, Tick
    PROVE  Implements
<1>1. ASSUME NEW m \in Messages
      PROVE  SameRow(m)
    <2>1. rows[m] \in Row
        BY DEF IInv, TypeOK
    <2>2. rows'[m] = [rows[m] EXCEPT !.lease = Down(@, -1), !.expires = Down(@, 0),
                                     !.wait = Down(@, 0),
                                     !.idle = IF rows[m].state = "uncertain"
                                              THEN Up(@, UncertainGrace) ELSE 0]
        BY DEF Tick
    <2> QED
        BY <2>1, <2>2 DEF Row, SameRow
<1>2. UNCHANGED <<pc, todo, claimed, snap, answer, ack, sent, refuted>>
    BY DEF Tick
<1>3. LinkInv'
    BY <1>1, <1>2, OthersKeepLinks
<1>4. UNCHANGED Promise!lvars
    BY <1>1, <1>2, NothingMoves DEF SameRow
<1> QED
    BY <1>3, <1>4 DEF Implements

\* Nor does reading, or a step that leaves everything as it is.
LEMMA ReadingLives ==
    ASSUME IInv, LinkInv,
           UNCHANGED <<rows, pc, todo, claimed, snap, answer, ack, sent, refuted>>
    PROVE  Implements
<1>1. LinkInv'
    BY OthersKeepLinks DEF SameRow
<1>2. UNCHANGED Promise!lvars
    BY NothingMoves
<1> QED
    BY <1>1, <1>2 DEF Implements

\* A write that is in effect, or none: the other rows stay as they are.
LEMMA WrittenRow ==
    ASSUME IInv, NEW m \in Messages, NEW v \in Nat, NEW new \in Row, Write(m, v, new),
           v = rows[m].version => GoodProposal(m, new)
    PROVE  /\ v # rows[m].version => rows' = rows
           /\ \A k \in Messages \ {m} : rows'[k] = rows[k]
           /\ v = rows[m].version => /\ rows'[m].state = new.state /\ rows'[m].ref = new.ref
                                     /\ rows'[m].version = v + 1
<1>1. /\ v # rows[m].version => rows' = rows
      /\ v = rows[m].version => rows' = [rows EXCEPT ![m] = Touched(new, v)]
    BY WriteKeepsRows DEF IInv
<1>2. /\ Touched(new, v).state = new.state /\ Touched(new, v).ref = new.ref
      /\ Touched(new, v).version = v + 1
    BY TouchedRow DEF Same
<1> QED
    BY <1>1, <1>2 DEF IInv, TypeOK

\* expire_stale gives up on what a provider has or lost.
LEMMA ExpireWriteLives ==
    ASSUME IInv, LinkInv, NEW m \in Messages, ExpireWrite(m)
    PROVE  Implements
<1> DEFINE new == [rows[m] EXCEPT !.state = "expired"]
<1>1. /\ expiring[m] # 0 /\ Write(m, expiring[m], new) /\ refuted' = refuted
      /\ UNCHANGED <<pc, todo, claimed, snap, answer, ack, sent>>
    BY DEF ExpireWrite, workerVars
<1>2. expiring[m] \in Nat /\ rows[m] \in Row /\ GoodRow(sent[m], rows[m])
    BY DEF IInv, TypeOK, GoodRows
<1>3. new \in Row /\ new.state = "expired" /\ GoodRow(sent[m], new)
    BY <1>2, ExpiryProposal
<1> HIDE DEF new
<1>4. expiring[m] = rows[m].version => rows[m].state \in {"submitted", "uncertain", "undelivered"}
    BY <1>1 DEF IInv, GoodExpiry
<1>5. expiring[m] = rows[m].version => GoodProposal(m, new)
    BY <1>3, <1>4 DEF GoodProposal, Permitted, Edges
<1>6. /\ expiring[m] # rows[m].version => rows' = rows
      /\ \A k \in Messages \ {m} : rows'[k] = rows[k]
      /\ expiring[m] = rows[m].version => rows'[m].state = "expired"
    BY <1>1, <1>2, <1>3, <1>5, WrittenRow
<1>7. CASE expiring[m] = rows[m].version
    <2>1. LinkInv'
        BY <1>1, <1>4, <1>6, <1>7, OthersKeepLinks DEF SameRow, RowLink
    <2>2. Promise!GiveUp(m)
        <3>1. LifeOf(rows[m].state) \in {"waiting", "held", "unknown"}
            BY <1>4, <1>7, LifeOfState
        <3>2. LifeOf(rows'[m].state) = "expired"
            BY <1>6, <1>7, LifeOfState
        <3>3. Promise!Move(m, {"waiting", "held", "unknown"}, "expired")
            BY <1>1, <1>6, <3>1, <3>2, OneMoves
        <3> QED
            BY <1>1, <3>3 DEF Promise!GiveUp
    <2> QED
        BY <2>1, <2>2 DEF Implements, Promise!LNext
<1>8. CASE expiring[m] # rows[m].version
    BY <1>1, <1>6, <1>8, ReadingLives
<1> QED
    BY <1>7, <1>8
\* A receipt ends the message, loses track of it, or bounces it: what bounced is the copy
\* under the row's reference, the latest one.
LEMMA ApplyReceiptLives ==
    ASSUME IInv, LinkInv, NEW h \in Receivers, ApplyReceipt(h)
    PROVE  Implements
<1> DEFINE m == dlr[h].msg
           v == dlr[h].version
           target == dlr[h].target
           new == ReceiptWrite(rows[m], target)
<1>1. /\ dlr[h] # NoDlr /\ Write(m, v, new)
      /\ refuted' = [refuted EXCEPT ![m] = IF CasWins(m, v) /\ target = "undelivered"
                                           THEN @ \cup {rows[m].ref} ELSE @]
      /\ UNCHANGED <<pc, todo, claimed, snap, answer, ack, sent>>
    BY DEF ApplyReceipt, workerVars
<1>2. m \in Messages /\ v \in Nat /\ target \in MessageState
    BY <1>1, ReceiptParts DEF IInv
<1>3. rows[m] \in Row /\ GoodRow(sent[m], rows[m]) /\ refuted[m] \in SUBSET Nat
      /\ Len(sent[m]) \in Nat /\ sent[m] \in Seq(Providers)
    BY <1>2 DEF IInv, TypeOK, GoodRows
<1>4. new \in Row /\ new.state = target /\ new.ref = rows[m].ref
    BY <1>2, <1>3, ReceiptProposal, BoundsAssumption, ZenonT(30) DEF ReceiptWrite, Row
<1>5. ASSUME v = rows[m].version
      PROVE  /\ <<rows[m].state, target>> \in DlrMoves /\ HasReference(sent[m], rows[m])
             /\ GoodProposal(m, new)
    <2>0. <<rows[m].state, target>> \in DlrMoves /\ HasReference(sent[m], rows[m])
        BY <1>1, <1>5 DEF IInv, GoodReceipts
    <2>1. /\ <<rows[m].state, target>> \in Edges
          /\ rows[m].state \in {"submitted", "uncertain", "undelivered"}
        BY <2>0, MovesAreLegal
    <2>2. GoodRow(sent[m], new)
        BY <1>2, <1>3, <2>0, <2>1, ReceiptProposal
    <2> QED
        BY <1>2, <1>4, <2>0, <2>1, <2>2 DEF GoodProposal, Permitted, MessageState, Claimable, Terminal
<1> HIDE DEF m, v, new, target
<1>6. /\ v # rows[m].version => rows' = rows
      /\ \A k \in Messages \ {m} : rows'[k] = rows[k]
      /\ v = rows[m].version => rows'[m].state = target /\ rows'[m].ref = rows[m].ref
    BY <1>1, <1>2, <1>4, <1>5, WrittenRow
<1>7. ASSUME v # rows[m].version \/ target # "undelivered"
      PROVE  refuted' = refuted
    BY <1>1, <1>7 DEF CasWins, IInv, TypeOK
<1>8. CASE v # rows[m].version
    BY <1>1, <1>6, <1>7, <1>8, ReadingLives
<1>9. CASE v = rows[m].version /\ target # "undelivered"
    <2>1. /\ rows[m].state \in {"submitted", "uncertain", "undelivered"}
          /\ target \in {"delivered", "uncertain", "expired", "failed"}
          /\ target = "uncertain" => rows[m].state = "submitted"
          /\ target = "delivered" => rows[m].state \in {"submitted", "uncertain"}
        BY <1>5, <1>9 DEF DlrMoves, DlrEdges
    <2>2. LinkInv'
        BY <1>1, <1>2, <1>6, <1>7, <1>9, <2>1, OthersKeepLinks DEF SameRow, RowLink
    <2>3. Len(sent[m]) > 0
        BY <1>3, <1>5, <1>9 DEF HasReference
    <2>4. refuted' = refuted /\ rows'[m].state = target
        BY <1>6, <1>7, <1>9
    <2>5. CASE target = "delivered"
        <3>1. LifeOf(rows[m].state) \in {"held", "unknown"} /\ LifeOf(rows'[m].state) = "delivered"
            BY <2>1, <2>4, <2>5, LifeOfState
        <3>2. Promise!Move(m, {"held", "unknown"}, "delivered")
            BY <1>1, <1>2, <1>6, <3>1, OneMoves
        <3>3. Promise!Deliver(m)
            BY <1>1, <1>2, <2>3, <2>4, <3>2 DEF Promise!Deliver
        <3> QED
            BY <1>2, <2>2, <3>3 DEF Implements, Promise!LNext
    <2>6. CASE target = "uncertain"
        <3>1. LifeOf(rows[m].state) \in {"trying", "held"} /\ LifeOf(rows'[m].state) = "unknown"
            BY <2>1, <2>4, <2>6, LifeOfState
        <3>2. Promise!Move(m, {"trying", "held"}, "unknown")
            BY <1>1, <1>2, <1>6, <3>1, OneMoves
        <3>3. Promise!LoseTrack(m)
            BY <1>1, <2>4, <3>2 DEF Promise!LoseTrack
        <3> QED
            BY <1>2, <2>2, <3>3 DEF Implements, Promise!LNext
    <2>7. CASE target \in {"expired", "failed"}
        <3>1. /\ LifeOf(rows[m].state) \in {"waiting", "held", "unknown"}
              /\ LifeOf(rows'[m].state) = target
            BY <2>1, <2>4, <2>7, LifeOfState
        <3>2. Promise!Move(m, {"waiting", "held", "unknown"}, target)
            BY <1>1, <1>2, <1>6, <3>1, OneMoves
        <3>3. Promise!GiveUp(m)
            BY <1>1, <2>4, <2>7, <3>2 DEF Promise!GiveUp
        <3> QED
            BY <1>2, <2>2, <3>3 DEF Implements, Promise!LNext
    <2> QED
        BY <2>1, <2>5, <2>6, <2>7
<1>10. CASE v = rows[m].version /\ target = "undelivered"
    <2>1. rows[m].state = "submitted"
        BY <1>5, <1>10 DEF DlrMoves, DlrEdges
    <2>2. Len(sent[m]) > 0 /\ rows[m].ref = Len(sent[m]) /\ refuted[m] = 1..(Len(sent[m]) - 1)
        BY <1>2, <2>1 DEF LinkInv, RowLinks, RowLink
    <2>3. refuted' = [refuted EXCEPT ![m] = refuted[m] \cup {rows[m].ref}]
        BY <1>1, <1>10 DEF CasWins
    <2>4. refuted[m] \cup {rows[m].ref} = 1..Len(sent[m])
        BY <1>3, <2>2
    <2>5. refuted' = [refuted EXCEPT ![m] = 1..Len(sent[m])]
        BY <2>3, <2>4
    <2>6. refuted'[m] = 1..Len(sent[m]) /\ \A k \in Messages \ {m} : refuted'[k] = refuted[k]
        BY <1>2, <2>5 DEF IInv, TypeOK
    <2>7. LinkInv'
        BY <1>1, <1>2, <1>6, <1>10, <2>1, <2>6, OthersKeepLinks DEF SameRow, RowLink
    <2>8. LifeOf(rows[m].state) \in {"held"} /\ LifeOf(rows'[m].state) = "waiting"
        BY <1>6, <1>10, <2>1, LifeOfState
    <2>9. Promise!Move(m, {"held"}, "waiting")
        BY <1>1, <1>2, <1>6, <2>8, OneMoves
    <2>10. Promise!Bounce(m)
        BY <1>1, <1>2, <2>5, <2>9 DEF Promise!Bounce
    <2> QED
        BY <1>2, <2>7, <2>10 DEF Implements, Promise!LNext
<1> QED
    BY <1>8, <1>9, <1>10

-----------------------------------------------------------------------------
(* The dispatcher's steps.                                                 *)

\* Nothing is under way for what is on the list of a dispatcher that has yet to call.
LEMMA NothingUnderWay ==
    ASSUME IInv, LinkInv, NEW w \in Dispatchers, NEW m \in Messages, m \in claimed[w],
           pc[w] \notin {"accepted", "answered"}
    PROVE  refuted[m] = 1..Len(sent[m])
<1>1. answer[w] = "none"
    BY DEF IInv, TypeOK, WorkLists
<1> QED
    BY <1>1 DEF LinkInv, CopyLinks, RowLink, Took

\* A batch is read when nothing is claimed, so nothing in it is routed.
LEMMA ReadCandidatesLives ==
    ASSUME NothingFails, IInv, LinkInv, NEW w \in Dispatchers, ReadCandidates(w)
    PROVE  Implements
<1> DEFINE batch == FirstOf(Candidates, Budget)
<1>1. /\ pc[w] = "idle"
      /\ pc' = [pc EXCEPT ![w] = "claiming"]
      /\ todo' = [todo EXCEPT ![w] = batch]
      /\ snap' = [snap EXCEPT ![w] = [m \in Messages |-> IF m \in batch THEN rows[m] ELSE NoRow]]
      /\ UNCHANGED <<rows, claimed, answer, ack, sent, refuted>>
    BY DEF ReadCandidates, rowVars
<1> HIDE DEF batch
<1>2. \A x \in Dispatchers : x = w
    BY DEF NothingFails
<1>3. claimed[w] = {} /\ answer[w] = "none"
    BY <1>1 DEF IInv, TypeOK, WorkLists
<1>4. /\ todo'[w] = batch
      /\ \A m \in Messages : m \in batch => snap'[w][m] = rows[m]
    BY <1>1 DEF IInv, TypeOK
<1>5. \A m \in Messages : rows[m].state # "routed"
    BY <1>2, <1>3 DEF LinkInv, ClaimLinks
<1>6. LinkInv'
    BY <1>1, <1>2, <1>3, <1>4, <1>5 DEF LinkInv, RowLinks, ClaimLinks, CopyLinks
<1>7. UNCHANGED Promise!lvars
    BY <1>1, NothingMoves
<1> QED
    BY <1>6, <1>7 DEF Implements
\* A lease is the start of an attempt, gives up, or moves the row on where it waits.
LEMMA TakeLeaseLives ==
    ASSUME NothingFails, IInv, LinkInv, NEW w \in Dispatchers, TakeLease(w)
    PROVE  Implements
<1> DEFINE Turn(m, new) ==
      LET old == snap[w][m]
          rest == todo[w] \ {m}
          won == CasWins(m, old.version) /\ new.state = "routed" IN
      /\ First(todo[w], m)
      /\ Write(m, old.version, new)
      /\ claimed' = [claimed EXCEPT ![w] = IF won THEN @ \cup {m} ELSE @]
      /\ snap' = [snap EXCEPT ![w][m] = IF won THEN rows'[m] ELSE NoRow]
      /\ todo' = [todo EXCEPT ![w] = rest]
      /\ pc' = [pc EXCEPT ![w] = IF rest # {} THEN "claiming"
                                 ELSE IF claimed'[w] = {} THEN "idle" ELSE "submitting"]
<1>a. PICK m \in Messages :
         \E new \in LeaseWrites(snap[w][m], rows[m], stale[w]) : Turn(m, new)
    BY DEF TakeLease
<1>b. PICK new \in LeaseWrites(snap[w][m], rows[m], stale[w]) : Turn(m, new)
    BY <1>a
<1> DEFINE old == snap[w][m]
           won == CasWins(m, old.version) /\ new.state = "routed"
           copy == IF won THEN rows'[m] ELSE NoRow
<1>1. /\ m \in todo[w]
      /\ Write(m, old.version, new)
      /\ claimed' = [claimed EXCEPT ![w] = IF won THEN claimed[w] \cup {m} ELSE claimed[w]]
      /\ snap' = [snap EXCEPT ![w][m] = copy]
      /\ todo' = [todo EXCEPT ![w] = todo[w] \ {m}]
      /\ \E at \in {"claiming", "idle", "submitting"} : pc' = [pc EXCEPT ![w] = at]
    BY <1>b DEF First
<1> HIDE DEF Turn, copy
<1>2. pc[w] = "claiming" /\ UNCHANGED <<answer, ack, sent, refuted>>
    BY DEF TakeLease
<1>3. /\ old.state \in Claimable /\ old.state # "routed" /\ answer[w] = "none"
      /\ m \notin claimed[w]
    BY <1>1, <1>2 DEF IInv, WorkOnHand, TypeOK, WorkLists, LinkInv, ClaimLinks
<1>4. old \in Row /\ rows[m] \in Row /\ stale[w] \in Nat /\ old.version \in Nat
    <2>1. old \in Row /\ rows[m] \in Row /\ stale[w] \in Nat
        BY DEF IInv, TypeOK
    <2> QED
        BY <2>1, RowColumns
<1>5. /\ new \in Row
      /\ new.state \in {"queued", "rejected", "routed", "failed"}
      /\ Same(old, rows[m]) => Permitted(rows[m].state, new.state) /\ GoodRow(sent[m], new)
    <2>1. GoodRow(sent[m], rows[m])
        BY DEF IInv, GoodRows
    <2> QED
        BY <1>3, <1>4, <2>1, LeaseProposal
<1>6. ASSUME old.version = rows[m].version
      PROVE  /\ GoodProposal(m, new)
             /\ rows[m].state \in {"accepted", "queued", "undelivered"}
    BY <1>1, <1>3, <1>5, <1>6 DEF IInv, GoodCopies, GoodProposal, Same, Claimable
<1>7. /\ old.version # rows[m].version => rows' = rows
      /\ \A k \in Messages \ {m} : rows'[k] = rows[k]
      /\ old.version = rows[m].version => rows'[m].state = new.state
    BY <1>1, <1>4, <1>5, <1>6, WrittenRow
<1>8. \A x \in Dispatchers : x = w
    BY DEF NothingFails
<1>9. /\ pc'[w] \in {"claiming", "idle", "submitting"} /\ todo'[w] = todo[w] \ {m}
      /\ claimed'[w] = (IF won THEN claimed[w] \cup {m} ELSE claimed[w])
      /\ \A k \in Messages \ {m} : snap'[w][k] = snap[w][k]
      /\ won => snap'[w][m] = rows'[m]
    BY <1>1 DEF IInv, TypeOK, copy
<1>w. won <=> old.version = rows[m].version /\ new.state = "routed"
    BY DEF CasWins
<1> HIDE DEF old, won
<1>10. RowLink(rows[m].state, rows[m].ref, Len(sent[m]), refuted[m]) /\ Len(sent[m]) \in Nat
    BY DEF LinkInv, RowLinks, IInv, TypeOK
<1>11. RowLinks'
    <2>1. RowLink(rows'[m].state, rows'[m].ref, Len(sent[m]), refuted[m])
        BY <1>5, <1>6, <1>7, <1>10 DEF RowLink
    <2> QED
        BY <1>2, <1>7, <2>1 DEF LinkInv, RowLinks
<1>12. ClaimLinks'
    <2>1. ASSUME NEW k \in Messages, rows'[k].state = "routed"
          PROVE  k \in claimed'[w]
        <3>1. CASE won /\ k = m
            BY <1>9, <3>1
        <3>2. CASE ~(won /\ k = m)
            <4>1. rows[k].state = "routed"
                BY <1>7, <1>w, <2>1, <3>2
            <4> QED
                BY <1>8, <1>9, <4>1 DEF LinkInv, ClaimLinks
        <3> QED
            BY <3>1, <3>2
    <2>2. ASSUME NEW k \in Messages, k \in claimed'[w]
          PROVE  snap'[w][k].version = rows'[k].version
        BY <1>3, <1>7, <1>9, <2>2 DEF LinkInv, ClaimLinks
    <2>3. ASSUME NEW k \in Messages, k \in todo'[w]
          PROVE  snap'[w][k].state # "routed"
        BY <1>9, <2>3 DEF LinkInv, ClaimLinks
    <2> QED
        BY <1>8, <2>1, <2>2, <2>3 DEF ClaimLinks
<1>13. CopyLinks'
    <2>1. ASSUME NEW k \in Messages, k \in claimed'[w]
          PROVE  refuted[k] = 1..Len(sent[k])
        <3>1. CASE k \in claimed[w]
            BY <1>2, <3>1, NothingUnderWay
        <3>2. CASE k = m /\ won
            BY <1>6, <1>10, <1>w, <3>2 DEF RowLink
        <3> QED
            BY <1>9, <2>1, <3>1, <3>2
    <2> QED
        BY <1>2, <1>3, <1>8, <1>9, <2>1 DEF CopyLinks, RowLink, Took
<1>14. LinkInv'
    BY <1>11, <1>12, <1>13 DEF LinkInv
<1>15. CASE old.version # rows[m].version
    <2>1. UNCHANGED Promise!lvars
        BY <1>2, <1>7, <1>15, NothingMoves
    <2> QED
        BY <1>14, <2>1 DEF Implements
<1>16. CASE old.version = rows[m].version
    <2>1. Permitted(rows[m].state, new.state) /\ rows'[m].state = new.state
        BY <1>6, <1>7, <1>16 DEF GoodProposal
    <2>2. LifeOf(rows[m].state) = "waiting"
        BY <1>6, <1>16, LifeOfState
    <2>3. CASE new.state = "queued"
        <3>1. \A k \in Messages : LifeOf(rows'[k].state) = LifeOf(rows[k].state)
            BY <1>7, <2>1, <2>2, <2>3, LifeOfState
        <3>2. UNCHANGED Promise!lvars
            BY <1>2, <3>1, NothingMoves
        <3> QED
            BY <1>14, <3>2 DEF Implements
    <2>4. CASE new.state = "routed"
        <3>1. LifeOf(rows[m].state) \in {"waiting"} /\ LifeOf(rows'[m].state) = "trying"
            BY <2>1, <2>2, <2>4, LifeOfState
        <3>2. Promise!Move(m, {"waiting"}, "trying")
            BY <1>2, <1>7, <3>1, OneMoves
        <3>3. Promise!Try(m)
            BY <1>2, <3>2 DEF Promise!Try
        <3> QED
            BY <1>14, <3>3 DEF Implements, Promise!LNext
    <2>5. CASE new.state = "failed"
        <3>1. /\ LifeOf(rows[m].state) \in {"waiting", "held", "unknown"}
              /\ LifeOf(rows'[m].state) = "failed"
            BY <2>1, <2>2, <2>5, LifeOfState
        <3>2. Promise!Move(m, {"waiting", "held", "unknown"}, "failed")
            BY <1>2, <1>7, <3>1, OneMoves
        <3>3. Promise!GiveUp(m)
            BY <1>2, <3>2 DEF Promise!GiveUp
        <3> QED
            BY <1>14, <3>3 DEF Implements, Promise!LNext
    <2>6. CASE new.state = "rejected"
        <3>1. rows[m].state = "accepted"
            BY <1>6, <1>16, <2>1, <2>6 DEF Permitted, Edges
        <3>2. Len(sent[m]) = 0
            BY <1>10, <3>1 DEF RowLink
        <3>3. LifeOf(rows[m].state) \in {"waiting"} /\ LifeOf(rows'[m].state) = "rejected"
            BY <2>1, <2>2, <2>6, LifeOfState
        <3>4. Promise!Move(m, {"waiting"}, "rejected")
            BY <1>2, <1>7, <3>3, OneMoves
        <3>5. Promise!GiveUp(m)
            BY <1>2, <3>2, <3>4 DEF Promise!GiveUp
        <3> QED
            BY <1>14, <3>5 DEF Implements, Promise!LNext
    <2> QED
        BY <1>5, <2>3, <2>4, <2>5, <2>6
<1> QED
    BY <1>15, <1>16

\* The call to the provider begins.
LEMMA SubmitLives ==
    ASSUME NothingFails, IInv, LinkInv, NEW w \in Dispatchers, Submit(w)
    PROVE  Implements
<1>1. /\ pc[w] = "submitting" /\ pc' = [pc EXCEPT ![w] = "calling"]
      /\ UNCHANGED <<rows, todo, claimed, snap, answer, ack, sent, refuted>>
    BY DEF Submit, rowVars
<1>2. \A x \in Dispatchers : x = w
    BY DEF NothingFails
<1>3. pc'[w] = "calling" /\ answer[w] = "none"
    BY <1>1 DEF IInv, TypeOK, WorkLists
<1>4. \A m \in Messages : m \in claimed[w] => refuted[m] = 1..Len(sent[m])
    BY <1>1, NothingUnderWay
<1>5. CopyLinks'
    BY <1>1, <1>2, <1>3, <1>4 DEF CopyLinks, RowLink, Took
<1>6. RowLinks' /\ ClaimLinks'
    BY <1>1 DEF LinkInv, RowLinks, ClaimLinks
<1>7. UNCHANGED Promise!lvars
    BY <1>1, NothingMoves
<1> QED
    BY <1>5, <1>6, <1>7 DEF Implements, LinkInv

\* The provider takes a copy, of a message that has none under way.
LEMMA ProviderAcceptsLives ==
    ASSUME NothingFails, IInv, LinkInv, NEW w \in Dispatchers, ProviderAccepts(w)
    PROVE  Implements
<1>1. PICK m \in Messages :
         /\ First(claimed[w], m)
         /\ sent' = [sent EXCEPT ![m] = Append(@, ProviderOf[snap[w][m].route])]
         /\ ack' = [ack EXCEPT ![w] = Len(sent[m]) + 1]
    BY DEF ProviderAccepts
<1>2. /\ pc[w] = "calling" /\ pc' = [pc EXCEPT ![w] = "accepted"]
      /\ UNCHANGED <<rows, todo, claimed, snap, answer, refuted>>
    BY DEF ProviderAccepts, rowVars
<1>3. \A x \in Dispatchers : x = w
    BY DEF NothingFails
<1>4. m \in claimed[w] /\ rows[m].state = "routed" /\ refuted[m] = 1..Len(sent[m])
    BY <1>1, <1>2, ClaimedIsRouted, NothingUnderWay DEF First
<1>5. /\ Len(sent[m]) \in Nat /\ Len(sent'[m]) = Len(sent[m]) + 1
      /\ \A k \in Messages \ {m} : sent'[k] = sent[k]
    <2>1. sent[m] \in Seq(Providers)
        BY DEF IInv, TypeOK
    <2>2. sent'[m] = Append(sent[m], ProviderOf[snap[w][m].route])
        BY <1>1 DEF IInv, TypeOK
    <2>3. snap[w][m].route \in Routes
        BY <1>4 DEF IInv, WorkOnHand
    <2>4. ProviderOf[snap[w][m].route] \in Providers
        BY <2>3, ProviderOfAssumption
    <2> QED
        BY <1>1, <2>1, <2>2, <2>4 DEF IInv, TypeOK
<1>6. pc'[w] = "accepted" /\ ack'[w] = Len(sent[m]) + 1 /\ answer[w] = "none"
    BY <1>1, <1>2 DEF IInv, TypeOK, WorkLists
<1>7. RowLinks'
    BY <1>2, <1>4, <1>5 DEF LinkInv, RowLinks, RowLink
<1>8. ClaimLinks'
    BY <1>2 DEF LinkInv, ClaimLinks
<1>9. CopyLinks'
    <2> SUFFICES ASSUME NEW k \in Messages, k \in claimed[w]
                 PROVE  /\ First(claimed[w], k)
                             => RowLink("submitted", ack'[w], Len(sent'[k]), refuted[k])
                        /\ ~First(claimed[w], k)
                             => RowLink("queued", 0, Len(sent'[k]), refuted[k])
        BY <1>2, <1>3, <1>6 DEF CopyLinks, First, Took
    <2>1. CASE k = m
        BY <1>1, <1>4, <1>5, <1>6, <2>1 DEF RowLink
    <2>2. CASE k # m
        <3>1. ~First(claimed[w], k)
            BY <1>1, <2>2, MessagesAssumption DEF First
        <3>2. refuted[k] = 1..Len(sent[k])
            BY <1>2, NothingUnderWay
        <3> QED
            BY <1>5, <2>2, <3>1, <3>2 DEF RowLink
    <2> QED
        BY <2>1, <2>2
<1>10. Promise!HandOver(m)
    <2>1. LifeOf(rows[m].state) = "trying"
        BY <1>4, LifeOfState
    <2>2. [k \in Messages |-> Len(sent[k])]'
            = [[k \in Messages |-> Len(sent[k])] EXCEPT ![m] = @ + 1]
        BY <1>5
    <2> QED
        BY <1>2, <1>4, <2>1, <2>2 DEF Promise!HandOver, Promise!Clear
<1> QED
    BY <1>7, <1>8, <1>9, <1>10 DEF Implements, LinkInv, Promise!LNext
\* The answer: a refusal is of a message with no copy under way.
LEMMA ProviderAnswersLives ==
    ASSUME NothingFails, IInv, LinkInv, NEW w \in Dispatchers, ProviderAnswers(w)
    PROVE  Implements
<1>1. PICK a \in Answers : /\ \/ pc[w] = "calling" /\ a # "Ok"
                              \/ pc[w] = "accepted" /\ a \in {"Ok", "Indeterminate"}
                           /\ answer' = [answer EXCEPT ![w] = a]
    BY DEF ProviderAnswers, Answers, Refusals
<1>2. /\ pc' = [pc EXCEPT ![w] = "answered"]
      /\ UNCHANGED <<rows, todo, claimed, snap, ack, sent, refuted>>
    BY DEF ProviderAnswers, rowVars
<1>3. \A x \in Dispatchers : x = w
    BY DEF NothingFails
<1>4. pc'[w] = "answered" /\ answer'[w] = a /\ answer[w] = "none"
    BY <1>1, <1>2 DEF IInv, TypeOK, WorkLists
<1>5. RowLinks' /\ ClaimLinks'
    BY <1>2 DEF LinkInv, RowLinks, ClaimLinks
<1>6. CopyLinks'
    <2> SUFFICES ASSUME NEW m \in Messages, m \in claimed[w]
                 PROVE  /\ First(claimed[w], m) /\ a = "Ok"
                             => RowLink("submitted", ack[w], Len(sent[m]), refuted[m])
                        /\ ~(First(claimed[w], m) /\ a \in {"Ok", "Indeterminate"})
                             => RowLink("queued", 0, Len(sent[m]), refuted[m])
        BY <1>2, <1>3, <1>4 DEF CopyLinks, First, Took
    <2>1. CASE pc[w] = "calling"
        BY <1>1, <2>1, NothingUnderWay DEF RowLink
    <2>2. CASE pc[w] = "accepted"
        BY <1>1, <1>4, <2>2 DEF LinkInv, CopyLinks, Took
    <2> QED
        BY <1>1, <2>1, <2>2
<1>7. UNCHANGED Promise!lvars
    BY <1>2, NothingMoves
<1> QED
    BY <1>5, <1>6, <1>7 DEF Implements, LinkInv

\* What the write of an outcome says of the answer.
LEMMA OutcomeStates ==
    ASSUME NEW s \in Row, NEW r \in Row, NEW a \in Answers, NEW ref \in Nat,
           NEW new \in OutcomeWrites(s, r, a, ref)
    PROVE  /\ a = "Ok" => new.state = "submitted" /\ new.ref = ref
           /\ a \in Refusals => new.state \in {"queued", "failed"}
           /\ a = "Indeterminate" => new.state = "uncertain"
<1>1. CASE new = Settles(r, a, ref)
    <2>1. CASE a = "Ok"
        <3>1. new = [r EXCEPT !.state = "submitted", !.ref = ref]
            BY <1>1, <2>1 DEF Settles
        <3> QED
            BY <2>1, <3>1 DEF Row, Refusals
    <2>2. CASE a \in {"Transient", "Unavailable"}
        <3>1. new = [r EXCEPT !.state = "queued", !.lease = RetryBackoff]
            BY <1>1, <2>2 DEF Settles
        <3> QED
            BY <2>2, <3>1 DEF Row
    <2>3. CASE a \in {"Permanent", "Rejected"}
        <3>1. new = [r EXCEPT !.state = "failed", !.lease = -1]
            BY <1>1, <2>3 DEF Settles
        <3> QED
            BY <2>3, <3>1 DEF Row
    <2>4. CASE a = "Indeterminate"
        <3>1. new = [r EXCEPT !.state = "uncertain", !.lease = -1]
            BY <1>1, <2>4 DEF Settles
        <3> QED
            BY <2>4, <3>1 DEF Row, Refusals
    <2> QED
        BY <2>1, <2>2, <2>3, <2>4 DEF Answers, Refusals
<1>2. CASE new # Settles(r, a, ref)
    <2>1. a \in {"Unavailable", "Permanent"} /\ new \in Reroutes(s, r)
        BY <1>2 DEF OutcomeWrites
    <2>2. PICK win \in Routes :
             new = [r EXCEPT !.state = "queued", !.route = win, !.excluded = Tried(s), !.lease = 0]
        BY <2>1 DEF Reroutes, Decide
    <2>3. new.state = "queued"
        BY <2>2 DEF Row
    <2> QED
        BY <2>1, <2>3
<1> QED
    BY <1>1, <1>2

\* The outcome is written: the row says that the provider has the message, that nobody
\* knows, or that it may be tried again or has failed, the last two with no copy under way.
LEMMA WriteOutcomeLives ==
    ASSUME NothingFails, IInv, LinkInv, NEW w \in Dispatchers, WriteOutcome(w)
    PROVE  Implements
<1>1. PICK m \in Messages :
         /\ First(claimed[w], m)
         /\ \E new \in OutcomeWrites(snap[w][m], rows[m], answer[w], ack[w]) :
              Write(m, snap[w][m].version, new)
         /\ Finish(w, m)
    BY DEF WriteOutcome
<1> DEFINE old == snap[w][m]
<1>2. PICK new \in OutcomeWrites(old, rows[m], answer[w], ack[w]) : Write(m, old.version, new)
    BY <1>1
<1>3. /\ pc[w] = "answered" /\ answer[w] \in Answers /\ ack[w] \in Nat
      /\ old \in Row /\ rows[m] \in Row /\ old.version \in Nat
    <2>1. pc[w] = "answered" /\ answer[w] \in Answers /\ ack[w] \in Nat
        BY DEF WriteOutcome, IInv, TypeOK, WorkLists
    <2>2. old \in Row /\ rows[m] \in Row
        BY DEF IInv, TypeOK
    <2> QED
        BY <2>1, <2>2, RowColumns
<1>4. /\ m \in claimed[w] /\ old.state = "routed" /\ old.route \in Routes
      /\ rows[m].state = "routed" /\ old.version = rows[m].version
    BY <1>1, ClaimedIsRouted DEF First, IInv, WorkOnHand, LinkInv, ClaimLinks
<1>5. answer[w] = "Ok" => ack[w] \in DOMAIN sent[m] /\ sent[m][ack[w]] = ProviderOf[old.route]
    BY <1>1 DEF IInv, AckMatches
<1>6. GoodRow(sent[m], rows[m]) /\ Same(old, rows[m])
    BY <1>4 DEF IInv, GoodRows, GoodCopies
<1> HIDE DEF old
<1>7. new \in Row /\ GoodProposal(m, new)
    BY <1>2, <1>3, <1>4, <1>5, <1>6, OutcomeProposal, ZenonT(30) DEF GoodProposal
<1>8. /\ answer[w] = "Ok" => new.state = "submitted" /\ new.ref = ack[w]
      /\ answer[w] \in Refusals => new.state \in {"queued", "failed"}
      /\ answer[w] = "Indeterminate" => new.state = "uncertain"
    BY <1>2, <1>3, OutcomeStates
<1>9. /\ \A k \in Messages \ {m} : rows'[k] = rows[k]
      /\ rows'[m].state = new.state /\ rows'[m].ref = new.ref
    BY <1>2, <1>3, <1>4, <1>7, WrittenRow
<1>10. \A x \in Dispatchers : x = w
    BY DEF NothingFails
<1>11. /\ claimed'[w] = claimed[w] \ {m} /\ answer'[w] = "none"
       /\ pc'[w] \in {"idle", "submitting"}
       /\ UNCHANGED <<todo, sent, refuted>>
       /\ \A k \in Messages \ {m} : snap'[w][k] = snap[w][k]
    BY <1>1 DEF Finish, IInv, TypeOK
<1>12. todo[w] = {}
    BY <1>3 DEF IInv, TypeOK, WorkLists
<1>13. Len(sent[m]) \in Nat
    BY DEF IInv, TypeOK
<1>14. /\ answer[w] = "Ok" => RowLink("submitted", ack[w], Len(sent[m]), refuted[m])
       /\ answer[w] \in Refusals => refuted[m] = 1..Len(sent[m])
    BY <1>1, <1>3, <1>4 DEF LinkInv, CopyLinks, RowLink, Took, Refusals
<1>15. RowLinks'
    <2>1. RowLink(rows'[m].state, rows'[m].ref, Len(sent[m]), refuted[m])
        BY <1>3, <1>8, <1>9, <1>14 DEF RowLink, Answers, Refusals
    <2> QED
        BY <1>9, <1>11, <2>1 DEF LinkInv, RowLinks
<1>16. ClaimLinks'
    <2>1. rows'[m].state # "routed"
        BY <1>3, <1>8, <1>9 DEF Answers, Refusals
    <2>2. ASSUME NEW k \in Messages, rows'[k].state = "routed"
          PROVE  k \in claimed'[w]
        BY <1>9, <1>10, <1>11, <2>1, <2>2 DEF LinkInv, ClaimLinks
    <2>3. ASSUME NEW k \in Messages, k \in claimed'[w]
          PROVE  snap'[w][k].version = rows'[k].version
        BY <1>9, <1>11, <2>3 DEF LinkInv, ClaimLinks
    <2> QED
        BY <1>10, <1>11, <1>12, <2>2, <2>3 DEF ClaimLinks
<1>17. CopyLinks'
    <2>1. ASSUME NEW k \in Messages, k \in claimed'[w]
          PROVE  RowLink("queued", 0, Len(sent[k]), refuted[k])
        <3>1. k \in claimed[w] /\ k # m
            BY <1>11, <2>1
        <3>2. ~First(claimed[w], k)
            BY <1>1, <3>1, MessagesAssumption DEF First
        <3> QED
            BY <3>1, <3>2 DEF LinkInv, CopyLinks
    <2> QED
        BY <1>10, <1>11, <2>1 DEF CopyLinks, Took
<1>18. LinkInv'
    BY <1>15, <1>16, <1>17 DEF LinkInv
<1>19. LifeOf(rows[m].state) = "trying"
    BY <1>4, LifeOfState
<1>20. CASE answer[w] = "Ok"
    <2>1. LifeOf(rows[m].state) \in {"trying"} /\ LifeOf(rows'[m].state) = "held"
        BY <1>8, <1>9, <1>19, <1>20, LifeOfState
    <2>2. Promise!Move(m, {"trying"}, "held")
        BY <1>9, <1>11, <2>1, OneMoves
    <2>3. refuted[m] # 1..Len(sent[m])
        <3>1. Len(sent[m]) > 0 /\ refuted[m] = 1..(Len(sent[m]) - 1)
            BY <1>14, <1>20 DEF RowLink
        <3>2. Len(sent[m]) \in 1..Len(sent[m]) /\ Len(sent[m]) \notin 1..(Len(sent[m]) - 1)
            BY <1>13, <3>1
        <3> QED
            BY <3>1, <3>2
    <2>4. Promise!Held(m)
        BY <1>11, <2>2, <2>3 DEF Promise!Held, Promise!Clear
    <2> QED
        BY <1>18, <2>4 DEF Implements, Promise!LNext
<1>21. CASE answer[w] \in Refusals
    <2>1. PICK to \in {"waiting", "failed"} : LifeOf(rows'[m].state) = to
        BY <1>8, <1>9, <1>21, LifeOfState
    <2>2. LifeOf(rows[m].state) \in {"trying"}
        BY <1>19
    <2>3. Promise!Move(m, {"trying"}, to)
        BY <1>9, <1>11, <2>1, <2>2, OneMoves
    <2>4. Promise!Refused(m)
        BY <1>11, <1>14, <1>21, <2>3 DEF Promise!Refused, Promise!Clear
    <2> QED
        BY <1>18, <2>4 DEF Implements, Promise!LNext
<1>22. CASE answer[w] = "Indeterminate"
    <2>1. LifeOf(rows[m].state) \in {"trying", "held"} /\ LifeOf(rows'[m].state) = "unknown"
        BY <1>8, <1>9, <1>19, <1>22, LifeOfState
    <2>2. Promise!Move(m, {"trying", "held"}, "unknown")
        BY <1>9, <1>11, <2>1, OneMoves
    <2>3. Promise!LoseTrack(m)
        BY <1>11, <2>2 DEF Promise!LoseTrack
    <2> QED
        BY <1>18, <2>3 DEF Implements, Promise!LNext
<1> QED
    BY <1>3, <1>20, <1>21, <1>22 DEF Answers

-----------------------------------------------------------------------------
(* The refinement.                                                         *)

\* Every step of the send path is one of MessageLife, or changes nothing it speaks of.
LEMMA StepLives ==
    ASSUME NothingFails, IInv, LinkInv, [Next]_vars
    PROVE  Implements
<1>1. ASSUME NEW m \in Messages, SendMessage(m) \/ ExpireWrite(m)
      PROVE  Implements
    BY <1>1, SendMessageLives, ExpireWriteLives
<1>2. ASSUME NEW w \in Dispatchers, DispatcherStep(w) \/ Crash(w)
      PROVE  Implements
    <2>1. ~ClaimAborts(w) /\ ~OutcomeLost(w)
        BY DEF ClaimAborts, OutcomeLost, NothingFails
    <2>2. ~Crash(w)
        BY DEF Crash, NothingFails, IInv, TypeOK
    <2> QED
        BY <1>2, <2>1, <2>2, ReadCandidatesLives, TakeLeaseLives, SubmitLives,
            ProviderAcceptsLives, ProviderAnswersLives, WriteOutcomeLives DEF DispatcherStep
<1>3. ASSUME NEW h \in Receivers, ReadReceipt(h) \/ ApplyReceipt(h) \/ DropReceipt(h)
      PROVE  Implements
    <2>1. CASE ReadReceipt(h) \/ DropReceipt(h)
        <3>1. UNCHANGED <<rows, pc, todo, claimed, snap, answer, ack, sent, refuted>>
            BY <2>1 DEF ReadReceipt, DropReceipt, rowVars, workerVars
        <3> QED
            BY <3>1, ReadingLives
    <2> QED
        BY <1>3, <2>1, ApplyReceiptLives
<1>4. CASE ExpireRead \/ ExpireFails \/ UNCHANGED vars
    <2>1. UNCHANGED <<rows, pc, todo, claimed, snap, answer, ack, sent, refuted>>
        BY <1>4 DEF ExpireRead, ExpireFails, rowVars, workerVars, vars
    <2> QED
        BY <2>1, ReadingLives
<1>5. CASE Tick
    BY <1>5, TickLives
<1> QED
    BY <1>1, <1>2, <1>3, <1>4, <1>5 DEF Next

\* While nothing fails, the send path does to a message only what MessageLife allows
\* (ImplementsMessageLife): claims, submissions, receipts and expiry, for any number of
\* messages and receivers, any routes, limits and timers.  The lease of the dispatch role
\* makes its dispatcher the only one.
THEOREM DispatchImplementsLife ==
    ASSUME NothingFails
    PROVE  Spec => ImplementsMessageLife
<1>1. Init => LinkInv
    <2> SUFFICES ASSUME Init PROVE LinkInv
        OBVIOUS
    <2> USE DEF Init
    <2>1. NoRow.state = "none"
        BY DEF NoRow
    <2>2. RowLinks
        BY <2>1 DEF RowLinks, RowLink
    <2>3. ClaimLinks /\ CopyLinks
        BY <2>1 DEF ClaimLinks, CopyLinks
    <2> QED
        BY <2>2, <2>3 DEF LinkInv
<1>2. Init => Promise!LInit
    <2>1. NoRow.state = "none"
        BY DEF NoRow
    <2> QED
        BY <2>1, LifeOfState DEF Init, Promise!LInit
<1>3. IInv /\ LinkInv /\ [Next]_vars => LinkInv' /\ [Promise!LNext]_(Promise!lvars)
    BY StepLives DEF Implements
<1> QED
    BY <1>1, <1>2, <1>3, Invariance, PTL DEF Spec, ImplementsMessageLife, Promise!LSpec

-----------------------------------------------------------------------------
(* What MessageLife promises, said of the send path.                       *)

Kept == INSTANCE MessageLife_proofs WITH
    Msgs <- Messages,
    life <- [m \in Messages |-> LifeOf(rows[m].state)],
    copies <- [m \in Messages |-> Len(sent[m])],
    lost <- refuted

LEMMA SameSteps == [Promise!LNext]_(Promise!lvars) <=> [Kept!LNext]_(Kept!lvars)
<1>1. ASSUME NEW m \in Messages
      PROVE  /\ Promise!Accept(m) <=> Kept!Accept(m)
             /\ Promise!Try(m) <=> Kept!Try(m)
             /\ Promise!HandOver(m) <=> Kept!HandOver(m)
             /\ Promise!Held(m) <=> Kept!Held(m)
             /\ Promise!Refused(m) <=> Kept!Refused(m)
             /\ Promise!LoseTrack(m) <=> Kept!LoseTrack(m)
             /\ Promise!Bounce(m) <=> Kept!Bounce(m)
             /\ Promise!Deliver(m) <=> Kept!Deliver(m)
             /\ Promise!GiveUp(m) <=> Kept!GiveUp(m)
    BY Zenon DEF Promise!Accept, Promise!Try, Promise!HandOver, Promise!Held, Promise!Refused,
        Promise!LoseTrack, Promise!Bounce, Promise!Deliver, Promise!GiveUp, Promise!Move,
        Promise!Clear, Kept!Accept, Kept!Try, Kept!HandOver, Kept!Held, Kept!Refused,
        Kept!LoseTrack, Kept!Bounce, Kept!Deliver, Kept!GiveUp, Kept!Move, Kept!Clear
<1>2. (UNCHANGED Promise!lvars) <=> (UNCHANGED Kept!lvars)
    BY DEF Promise!lvars, Kept!lvars
<1> QED
    BY <1>1, <1>2 DEF Promise!LNext, Kept!LNext

LEMMA KeepsPromise ==
    ASSUME NothingFails
    PROVE  Spec => Kept!LSpec
<1>1. Promise!LInit => Kept!LInit
    BY DEF Promise!LInit, Kept!LInit
<1> QED
    BY <1>1, SameSteps, DispatchImplementsLife, PTL
    DEF ImplementsMessageLife, Promise!LSpec, Kept!LSpec

\* Of the copies of a message that providers took, all but the latest were reported as
\* failed: while nothing fails, nobody is sent the same message twice, whatever is retried,
\* rerouted or redelivered (handle_submit_error, next_state, take_lease).
OneCopyUnderWay ==
    \A m \in Messages : \A k \in 1..Len(sent[m]) : k < Len(sent[m]) => k \in refuted[m]

\* It follows from the refinement and from what MessageLife promises.
THEOREM NoSecondCopy ==
    ASSUME NothingFails
    PROVE  Spec => []OneCopyUnderWay
<1>1. Kept!OneLiveCopy => OneCopyUnderWay
    BY DEF Kept!OneLiveCopy, OneCopyUnderWay
<1> QED
    BY <1>1, KeepsPromise, Kept!LifeOneLiveCopy, PTL

\* A message that ended, or whose outcome is unknown, is handed to no provider any more,
\* and an end is never taken back: the whole point of uncertain ("never resubmitted",
\* terminal_outcome) and of message_state_transitions.
EndsAreFinal ==
    [][\A m \in Messages :
          rows[m].state \in {"delivered", "failed", "expired", "rejected", "uncertain"} =>
            /\ Len(sent'[m]) = Len(sent[m])
            /\ rows[m].state # "uncertain" => rows'[m].state = rows[m].state]_vars

LEMMA EndsOfLife ==
    ASSUME NEW s, NEW t
    PROVE  /\ s \in {"delivered", "failed", "expired", "rejected"} => LifeOf(s) = s
           /\ LifeOf(t) \in {"delivered", "failed", "expired", "rejected"} => t = LifeOf(t)
BY DEF LifeOf

\* The send path settles a message for good, and makes no copy of an unknown one.
THEOREM SendPathSettles ==
    ASSUME NothingFails
    PROVE  Spec => EndsAreFinal
<1> DEFINE Final == \A m \in Messages :
             rows[m].state \in {"delivered", "failed", "expired", "rejected", "uncertain"} =>
               /\ Len(sent'[m]) = Len(sent[m])
               /\ rows[m].state # "uncertain" => rows'[m].state = rows[m].state
<1>1. [Kept!StaysSettled]_(Kept!lvars) => [Final]_vars
    <2>1. (UNCHANGED Kept!lvars) => Kept!StaysSettled
        BY DEF Kept!lvars, Kept!StaysSettled
    <2>2. Kept!StaysSettled => Final
        <3> SUFFICES ASSUME Kept!StaysSettled, NEW m \in Messages,
                            rows[m].state \in {"delivered", "failed", "expired", "rejected",
                                               "uncertain"}
                     PROVE  /\ Len(sent'[m]) = Len(sent[m])
                            /\ rows[m].state # "uncertain" => rows'[m].state = rows[m].state
            OBVIOUS
        <3>1. LifeOf(rows[m].state) \in Kept!Ends \cup {"unknown"}
            BY EndsOfLife, LifeOfState DEF Kept!Ends
        <3>2. /\ Len(sent'[m]) = Len(sent[m])
              /\ LifeOf(rows[m].state) \in Kept!Ends =>
                   LifeOf(rows'[m].state) = LifeOf(rows[m].state)
            BY <3>1 DEF Kept!StaysSettled
        <3> QED
            BY <3>2, EndsOfLife DEF Kept!Ends
    <2> QED
        BY <2>1, <2>2
<1> QED
    BY <1>1, KeepsPromise, Kept!LifeSettles, PTL DEF EndsAreFinal, Kept!SettledIsSettled
=============================================================================
