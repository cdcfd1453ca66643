---------------------------- MODULE Access_proofs ----------------------------
(***************************************************************************)
(* Who a caller is, for any number of requests, nonces, people, accounts   *)
(* and keys: a nonce is accepted once in its window, a person signs in as  *)
(* himself and once per start, what a rotation retires stays published as  *)
(* long as a token it signed may live, a former standing is acted on for   *)
(* no longer than its cache allows, only the operator's keys pair, a key   *)
(* once served by the identity provider serves while the provider fails,   *)
(* nobody's password guessing keeps another person out, and the commands   *)
(* that set the accounts up leave what they report.                        *)
(***************************************************************************)
EXTENDS Nonces, SignIn, OpKeys, Signers, IdpKeys, Login, Setup, FunctionTheorems,
        FiniteSetTheorems, SequenceTheorems, WellFoundedInduction, TLAPS

-----------------------------------------------------------------------------
(* Nonces.  A row is deleted by its id, and an id is never used again: the *)
(* attempt that inserted the row is over (RowsAreSettled).  So what a      *)
(* request or a sweep has found expired is all it can delete               *)
(* (DeletersFoundExpired), and the row of the last acceptance is there     *)
(* until its expiry (WonIsKept).                                           *)

NonceRow == [by : Attempts, exp : Nat]
Working == [at : {"insert", "read", "delete", "again"}, nonce : NonceNames, exp : Nat,
            seen : Attempts \cup {NoRow}]
Shapes == {Fresh, Closed(TRUE), Closed(FALSE)} \cup Working

NonceType ==
  /\ nrow \in [NonceNames -> NonceRow \cup {NoRow}]
  /\ won \in [NonceNames -> NonceRow \cup {NoRow}]
  /\ call \in [Attempts -> Shapes]
  /\ sweep \subseteq NonceNames \X Attempts
  /\ clock \in Nat

\* Attempt id can only delete an expired row of nonce n, now and later.
MayDelete(n, id) ==
  /\ id \in Attempts /\ call[id].at = "accepted"
  /\ nrow[n] # NoRow /\ nrow[n].by = id => nrow[n].exp <= clock

RowsAreSettled ==
  \A n \in NonceNames : nrow[n] # NoRow => call[nrow[n].by].at = "accepted"

DeletersFoundExpired ==
  /\ \A a \in Attempts : call[a].at = "delete" => MayDelete(call[a].nonce, call[a].seen)
  /\ \A x \in sweep : MayDelete(x[1], x[2])

WonIsKept ==
  \A n \in NonceNames : won[n] = NoRow \/ nrow[n] = won[n] \/ won[n].exp <= clock

NonceInv == NonceType /\ RowsAreSettled /\ DeletersFoundExpired /\ WonIsKept

LEMMA ShapeAt ==
  ASSUME NEW c \in Shapes
  PROVE  /\ c.at \in {"insert", "read", "delete", "again"} => c \in Working
         /\ c.at \in {"new", "accepted", "refused", "insert", "read", "delete", "again"}
BY DEF Shapes, Fresh, Closed, Working

\* Attempt a moves on, and was not over.
LEMMA CallMoves ==
  ASSUME NonceType, NEW a \in Attempts, NEW c \in Shapes, call' = [call EXCEPT ![a] = c],
         call[a].at # "accepted"
  PROVE  /\ call' \in [Attempts -> Shapes]
         /\ call'[a] = c /\ \A b \in Attempts : b # a => call'[b] = call[b]
         /\ \A b \in Attempts : call[b].at = "accepted" => call'[b].at = "accepted"
BY DEF NonceType

\* The table's rows only go away, and no attempt comes back to life: what may
\* be deleted stays so.
LEMMA MayDeleteKept ==
  ASSUME NonceType, NEW n \in NonceNames, NEW id, MayDelete(n, id), clock' \in Nat, clock' >= clock,
         \A b \in Attempts : call[b].at = "accepted" => call'[b].at = "accepted",
         \/ nrow'[n] = nrow[n] \/ nrow'[n] = NoRow
         \/ nrow'[n] \in NonceRow /\ call[nrow'[n].by].at # "accepted"
  PROVE  MayDelete(n, id)'
BY DEF MayDelete, NonceType, NonceRow

\* record_if_unseen's insert, first or once more: over whatever was there.
LEMMA InsertRowInv ==
  ASSUME NonceInv, NEW a \in Attempts, call[a].at \in {"insert", "again"}, NEW d \in Shapes,
         d.at \in {"read", "refused"}, InsertRow(a, d), UNCHANGED <<sweep, clock>>
  PROVE  /\ NonceInv'
         /\ \A n \in NonceNames : won'[n] # won[n] => won[n] = NoRow \/ won[n].exp <= clock
<1>1. call[a] \in Working BY ShapeAt DEF NonceInv, NonceType
<1>2. PICK n \in NonceNames : n = call[a].nonce BY <1>1 DEF Working
<1>3. CASE nrow[n] = NoRow
  <2> DEFINE r == [by |-> a, exp |-> call[a].exp]
  <2>1. r \in NonceRow /\ r.by = a BY <1>1 DEF NonceRow, Working
  <2> HIDE DEF r
  <2>2. /\ nrow' = [nrow EXCEPT ![n] = r] /\ call' = [call EXCEPT ![a] = Closed(TRUE)]
        /\ won' = [won EXCEPT ![n] = nrow'[n]]
    BY <1>2, <1>3 DEF InsertRow, r
  <2>3. /\ nrow'[n] = r /\ won'[n] = r
        /\ \A m \in NonceNames : m # n => nrow'[m] = nrow[m] /\ won'[m] = won[m]
    BY <2>2 DEF NonceInv, NonceType
  <2>4. Closed(TRUE) \in Shapes /\ Closed(TRUE).at = "accepted" BY DEF Shapes, Closed
  <2>5. /\ call' \in [Attempts -> Shapes]
        /\ call'[a].at = "accepted" /\ \A b \in Attempts : b # a => call'[b] = call[b]
        /\ \A b \in Attempts : call[b].at = "accepted" => call'[b].at = "accepted"
    BY <2>2, <2>4, CallMoves DEF NonceInv
  <2>6. NonceType'
    BY <2>1, <2>2, <2>5 DEF NonceInv, NonceType
  <2>7. RowsAreSettled'
    BY <2>1, <2>3, <2>5 DEF NonceInv, NonceType, NonceRow, RowsAreSettled
  <2>8. ASSUME NEW m \in NonceNames, NEW id, MayDelete(m, id) PROVE MayDelete(m, id)'
    BY <2>1, <2>3, <2>5, <2>8, MayDeleteKept DEF NonceInv, NonceType
  <2>9. DeletersFoundExpired'
    <3>1. ASSUME NEW b \in Attempts, call'[b].at = "delete"
          PROVE  MayDelete(call[b].nonce, call[b].seen)' /\ call'[b] = call[b]
      <4>1. b # a /\ call'[b] = call[b] /\ call[b].at = "delete" BY <2>5, <3>1
      <4>2. call[b] \in Working BY <4>1, ShapeAt DEF NonceInv, NonceType
      <4>3. PICK m, id : m \in NonceNames /\ m = call[b].nonce /\ id = call[b].seen
        BY <4>2 DEF Working
      <4>4. MayDelete(m, id) BY <4>1, <4>3 DEF NonceInv, DeletersFoundExpired
      <4> QED BY <2>8, <4>1, <4>3, <4>4 DEF MayDelete
    <3>2. ASSUME NEW x \in sweep PROVE MayDelete(x[1], x[2])'
      BY <2>8, <3>2 DEF NonceInv, NonceType, DeletersFoundExpired
    <3> QED BY <3>1, <3>2 DEF DeletersFoundExpired, MayDelete
  <2>10. WonIsKept' BY <2>3 DEF NonceInv, WonIsKept
  <2>11. \A m \in NonceNames : won'[m] # won[m] => won[m] = NoRow \/ won[m].exp <= clock
    BY <1>3, <2>3 DEF NonceInv, WonIsKept
  <2> QED BY <2>6, <2>7, <2>9, <2>10, <2>11 DEF NonceInv
<1>4. CASE nrow[n] # NoRow
  <2>1. call' = [call EXCEPT ![a] = d] /\ UNCHANGED <<nrow, won>>
    BY <1>2, <1>4 DEF InsertRow
  <2>2. /\ call' \in [Attempts -> Shapes]
        /\ call'[a] = d /\ \A b \in Attempts : b # a => call'[b] = call[b]
        /\ \A b \in Attempts : call[b].at = "accepted" => call'[b].at = "accepted"
    BY <2>1, CallMoves DEF NonceInv
  <2>3. NonceType' BY <2>1, <2>2 DEF NonceInv, NonceType
  <2>4. RowsAreSettled' BY <2>1, <2>2 DEF NonceInv, NonceType, NonceRow, RowsAreSettled
  <2>5. DeletersFoundExpired'
    BY <2>1, <2>2 DEF NonceInv, DeletersFoundExpired, MayDelete
  <2> QED BY <2>1, <2>3, <2>4, <2>5 DEF NonceInv, WonIsKept
<1> QED BY <1>3, <1>4

\* Deletion by id of a row that was found expired.
LEMMA DeleteRowEffect ==
  ASSUME NonceInv, NEW n \in NonceNames, NEW id, MayDelete(n, id), nrow' = DeleteRow(n, id),
         UNCHANGED <<won, clock>>
  PROVE  /\ nrow' \in [NonceNames -> NonceRow \cup {NoRow}]
         /\ \A m \in NonceNames : nrow'[m] = nrow[m] \/ nrow'[m] = NoRow
         /\ WonIsKept'
<1>1. nrow' = nrow \/ (nrow' = [nrow EXCEPT ![n] = NoRow] /\ nrow[n] # NoRow /\ nrow[n].by = id)
  BY DEF DeleteRow
<1>2. nrow' \in [NonceNames -> NonceRow \cup {NoRow}]
      /\ \A m \in NonceNames : nrow'[m] = nrow[m] \/ nrow'[m] = NoRow
  BY <1>1 DEF NonceInv, NonceType
<1>3. CASE nrow' = nrow BY <1>2, <1>3 DEF NonceInv, WonIsKept
<1>4. CASE nrow' = [nrow EXCEPT ![n] = NoRow] /\ nrow[n] # NoRow /\ nrow[n].by = id
  <2>1. nrow[n].exp <= clock BY <1>4 DEF MayDelete
  <2>2. \A m \in NonceNames : m # n => nrow'[m] = nrow[m] BY <1>4 DEF NonceInv, NonceType
  <2>3. WonIsKept' BY <2>1, <2>2 DEF NonceInv, WonIsKept
  <2> QED BY <1>2, <2>3
<1> QED BY <1>1, <1>3, <1>4

LEMMA NonceNext ==
  ASSUME NonceInv, [NNext]_nvars
  PROVE  /\ NonceInv'
         /\ \A n \in NonceNames : won'[n] # won[n] => won[n] = NoRow \/ won[n].exp <= clock
<1>a. \A a \in Attempts : call[a].at = "delete" =>
        call[a].nonce \in NonceNames /\ MayDelete(call[a].nonce, call[a].seen)
  <2> TAKE a \in Attempts
  <2>1. call[a].at = "delete" => call[a] \in Working BY ShapeAt DEF NonceInv, NonceType
  <2> QED BY <2>1 DEF NonceInv, DeletersFoundExpired, Working
<1>1. ASSUME NEW a \in Attempts, NEW n \in NonceNames, Arrive(a, n) PROVE NonceInv'
  <2> DEFINE c == [at |-> "insert", nonce |-> n, exp |-> clock + Window, seen |-> NoRow]
  <2>1. c \in Shapes /\ c.at = "insert"
    <3>1. clock + Window \in Nat BY NoncesAssumption DEF NonceInv, NonceType
    <3>2. c \in Working /\ c.at = "insert" BY <3>1 DEF Working
    <3> HIDE DEF c
    <3> QED BY <3>2 DEF Shapes
  <2> HIDE DEF c
  <2>2. call' = [call EXCEPT ![a] = c] /\ call[a].at = "new" /\ UNCHANGED <<nrow, sweep, clock, won>>
    BY <1>1 DEF Arrive, c, Fresh
  <2>3. /\ call' \in [Attempts -> Shapes]
        /\ call'[a] = c /\ \A b \in Attempts : b # a => call'[b] = call[b]
        /\ \A b \in Attempts : call[b].at = "accepted" => call'[b].at = "accepted"
    BY <2>1, <2>2, CallMoves DEF NonceInv
  <2>4. NonceType' BY <2>2, <2>3 DEF NonceInv, NonceType
  <2>5. RowsAreSettled' BY <2>2, <2>3 DEF NonceInv, NonceType, NonceRow, RowsAreSettled
  <2>6. DeletersFoundExpired'
    BY <2>1, <2>2, <2>3 DEF NonceInv, DeletersFoundExpired, MayDelete
  <2> QED BY <2>2, <2>4, <2>5, <2>6 DEF NonceInv, WonIsKept
<1>2. ASSUME NEW a \in Attempts, RecordRead(a) PROVE NonceInv'
  <2>1. call[a] \in Working /\ call[a].at = "read" /\ UNCHANGED <<nrow, sweep, clock, won>>
    BY <1>2, ShapeAt DEF RecordRead, NonceInv, NonceType
  <2>2. PICK n \in NonceNames : n = call[a].nonce BY <2>1 DEF Working
  <2>3. PICK c \in Shapes :
          /\ call' = [call EXCEPT ![a] = c]
          /\ c.at = "delete" => /\ c.nonce = n /\ nrow[n] # NoRow /\ c.seen = nrow[n].by
                                /\ ~(nrow[n].exp > clock)
    <3>1. CASE nrow[n] = NoRow
      <4>1. [call[a] EXCEPT !.at = "again"] \in Shapes
            /\ [call[a] EXCEPT !.at = "again"].at = "again"
        BY <2>1 DEF Shapes, Working
      <4> QED BY <1>2, <2>2, <3>1, <4>1 DEF RecordRead
    <3>2. CASE nrow[n] # NoRow /\ nrow[n].exp > clock
      <4>1. Closed(FALSE) \in Shapes /\ Closed(FALSE).at = "refused" BY DEF Shapes, Closed
      <4> QED BY <1>2, <2>2, <3>2, <4>1 DEF RecordRead
    <3>3. CASE nrow[n] # NoRow /\ ~(nrow[n].exp > clock)
      <4> DEFINE c == [call[a] EXCEPT !.at = "delete", !.seen = nrow[n].by]
      <4>0. nrow[n].by \in Attempts BY <3>3 DEF NonceInv, NonceType, NonceRow
      <4>1. c \in Shapes /\ c.nonce = n /\ c.seen = nrow[n].by
        BY <2>1, <2>2, <4>0 DEF Shapes, Working
      <4>2. call' = [call EXCEPT ![a] = c] BY <1>2, <2>2, <3>3 DEF RecordRead
      <4> HIDE DEF c
      <4> QED BY <3>3, <4>1, <4>2
    <3> QED BY <3>1, <3>2, <3>3
  <2>4. /\ call' \in [Attempts -> Shapes]
        /\ call'[a] = c /\ \A b \in Attempts : b # a => call'[b] = call[b]
        /\ \A b \in Attempts : call[b].at = "accepted" => call'[b].at = "accepted"
    BY <2>1, <2>3, CallMoves DEF NonceInv
  <2>5. NonceType' BY <2>1, <2>4 DEF NonceInv, NonceType
  <2>6. RowsAreSettled' BY <2>1, <2>4 DEF NonceInv, NonceType, NonceRow, RowsAreSettled
  <2>7. DeletersFoundExpired'
    <3>1. nrow[n] # NoRow => /\ nrow[n].by \in Attempts /\ nrow[n].exp \in Nat /\ clock \in Nat
                             /\ call[nrow[n].by].at = "accepted"
      BY DEF NonceInv, NonceType, NonceRow, RowsAreSettled
    <3>2. c.at = "delete" => MayDelete(n, c.seen)'
      BY <2>1, <2>3, <2>4, <3>1 DEF MayDelete
    <3> QED BY <2>1, <2>3, <2>4, <3>2 DEF NonceInv, DeletersFoundExpired, MayDelete
  <2> QED BY <2>1, <2>5, <2>6, <2>7 DEF NonceInv, WonIsKept
<1>d. ASSUME NEW n \in NonceNames, NEW id, MayDelete(n, id), nrow' = DeleteRow(n, id),
             UNCHANGED <<won, clock>>, call' \in [Attempts -> Shapes], sweep' \subseteq sweep,
             \A b \in Attempts : call[b].at = "accepted" => call'[b].at = "accepted",
             \A b \in Attempts : call'[b].at = "delete" => call'[b] = call[b]
      PROVE  NonceInv'
  <2>1. /\ nrow' \in [NonceNames -> NonceRow \cup {NoRow}]
        /\ \A m \in NonceNames : nrow'[m] = nrow[m] \/ nrow'[m] = NoRow
        /\ WonIsKept'
    BY <1>d, DeleteRowEffect
  <2>2. NonceType' BY <1>d, <2>1 DEF NonceInv, NonceType
  <2>3. RowsAreSettled' BY <1>d, <2>1 DEF NonceInv, NonceType, NonceRow, RowsAreSettled
  <2>4. DeletersFoundExpired'
    <3>1. ASSUME NEW m \in NonceNames, NEW i, MayDelete(m, i) PROVE MayDelete(m, i)'
      BY <1>d, <2>1, <3>1 DEF MayDelete
    <3>2. ASSUME NEW b \in Attempts, call'[b].at = "delete"
          PROVE  MayDelete(call[b].nonce, call[b].seen)' /\ call'[b] = call[b]
      <4>1. call'[b] = call[b] BY <1>d, <3>2
      <4>2. call[b].nonce \in NonceNames /\ MayDelete(call[b].nonce, call[b].seen)
        BY <1>a, <3>2, <4>1
      <4>3. PICK m, i : m \in NonceNames /\ m = call[b].nonce /\ i = call[b].seen BY <4>2
      <4>4. MayDelete(m, i)' BY <3>1, <4>2, <4>3
      <4> QED BY <4>1, <4>3, <4>4 DEF MayDelete
    <3>3. ASSUME NEW x \in sweep PROVE MayDelete(x[1], x[2])'
      BY <3>1, <3>3 DEF NonceInv, NonceType, DeletersFoundExpired
    <3> QED BY <1>d, <3>2, <3>3 DEF DeletersFoundExpired, MayDelete
  <2> QED BY <2>1, <2>2, <2>3, <2>4 DEF NonceInv
<1>3. ASSUME NEW a \in Attempts, RecordDelete(a) PROVE NonceInv'
  <2>1. call[a] \in Working /\ call[a].at = "delete" /\ UNCHANGED <<sweep, clock, won>>
        /\ call' = [call EXCEPT ![a] = [call[a] EXCEPT !.at = "again"]]
    BY <1>3, ShapeAt DEF RecordDelete, NonceInv, NonceType
  <2>2. PICK n, id : n \in NonceNames /\ n = call[a].nonce /\ id = call[a].seen BY <2>1 DEF Working
  <2>3. MayDelete(n, id) /\ nrow' = DeleteRow(n, id) BY <1>3, <1>a, <2>1, <2>2 DEF RecordDelete
  <2>4. [call[a] EXCEPT !.at = "again"] \in Shapes /\ [call[a] EXCEPT !.at = "again"].at = "again"
    BY <2>1 DEF Shapes, Working
  <2>5. /\ call' \in [Attempts -> Shapes]
        /\ call'[a].at = "again" /\ \A b \in Attempts : b # a => call'[b] = call[b]
        /\ \A b \in Attempts : call[b].at = "accepted" => call'[b].at = "accepted"
    BY <2>1, <2>4, CallMoves DEF NonceInv
  <2> QED BY <1>d, <2>1, <2>2, <2>3, <2>5
<1>4. ASSUME SweepRead PROVE NonceInv'
  <2>1. /\ UNCHANGED <<nrow, call, clock, won>>
        /\ sweep' = {<<n, nrow[n].by>> : n \in {x \in NonceNames : nrow[x] # NoRow
                                                                   /\ nrow[x].exp < clock}}
    BY <1>4 DEF SweepRead
  <2>2. \A n \in NonceNames : nrow[n] # NoRow =>
          nrow[n].by \in Attempts /\ nrow[n].exp \in Nat /\ call[nrow[n].by].at = "accepted"
    BY DEF NonceInv, NonceType, NonceRow, RowsAreSettled
  <2>3. NonceType' BY <2>1, <2>2 DEF NonceInv, NonceType
  <2>4. \A x \in sweep' : MayDelete(x[1], x[2])'
    <3> TAKE x \in sweep'
    <3>1. PICK n \in NonceNames : x = <<n, nrow[n].by>> /\ nrow[n] # NoRow /\ nrow[n].exp < clock
      BY <2>1
    <3>2. nrow[n].exp <= clock BY <2>2, <3>1 DEF NonceInv, NonceType
    <3> QED BY <2>1, <2>2, <3>1, <3>2 DEF MayDelete
  <2> QED BY <2>1, <2>3, <2>4
          DEF NonceInv, DeletersFoundExpired, MayDelete, RowsAreSettled, WonIsKept
<1>5. ASSUME NEW n \in NonceNames, NEW id \in Attempts, SweepDelete(n, id) PROVE NonceInv'
  <2>1. MayDelete(n, id)
    <3>1. <<n, id>> \in sweep BY <1>5 DEF SweepDelete
    <3> QED BY <3>1 DEF NonceInv, DeletersFoundExpired
  <2> QED BY <1>5, <1>d, <2>1 DEF SweepDelete, NonceInv, NonceType
<1>6. ASSUME NTick PROVE NonceInv'
  <2>1. UNCHANGED <<nrow, call, sweep, won>> /\ clock' = clock + 1 BY <1>6 DEF NTick
  <2>2. NonceType' BY <2>1 DEF NonceInv, NonceType
  <2>3. ASSUME NEW m \in NonceNames, NEW i, MayDelete(m, i) PROVE MayDelete(m, i)'
    BY <2>1, <2>3 DEF MayDelete, NonceInv, NonceType, NonceRow
  <2>4. DeletersFoundExpired'
    <3>1. \A a \in Attempts : call[a].at = "delete" => MayDelete(call[a].nonce, call[a].seen)'
      <4> TAKE a \in Attempts
      <4>1. CASE call[a].at = "delete"
        <5>1. PICK m, i : m \in NonceNames /\ m = call[a].nonce /\ i = call[a].seen BY <1>a, <4>1
        <5>2. MayDelete(m, i)' BY <1>a, <2>3, <4>1, <5>1
        <5> QED BY <2>1, <5>1, <5>2 DEF MayDelete
      <4> QED BY <4>1
    <3>2. \A x \in sweep : MayDelete(x[1], x[2])'
      BY <2>3 DEF NonceInv, NonceType, DeletersFoundExpired
    <3> QED BY <2>1, <3>1, <3>2 DEF DeletersFoundExpired, MayDelete
  <2>5. WonIsKept' BY <2>1 DEF NonceInv, NonceType, NonceRow, WonIsKept
  <2> QED BY <2>1, <2>2, <2>4, <2>5 DEF NonceInv, RowsAreSettled
<1>7. ASSUME UNCHANGED nvars PROVE NonceInv'
  BY <1>7 DEF nvars, NonceInv, NonceType, RowsAreSettled, DeletersFoundExpired, MayDelete, WonIsKept
<1>8. ASSUME NEW a \in Attempts, RecordInsert(a) \/ RecordAgain(a)
      PROVE  /\ NonceInv'
             /\ \A n \in NonceNames : won'[n] # won[n] => won[n] = NoRow \/ won[n].exp <= clock
  <2>1. CASE RecordInsert(a)
    <3> DEFINE d == [call[a] EXCEPT !.at = "read"]
    <3>1. call[a] \in Working BY <2>1, ShapeAt DEF RecordInsert, NonceInv, NonceType
    <3>2. d \in Shapes /\ d.at = "read" BY <3>1 DEF Shapes, Working
    <3>3. InsertRow(a, d) /\ UNCHANGED <<sweep, clock>> /\ call[a].at = "insert"
      BY <2>1 DEF RecordInsert
    <3> HIDE DEF d
    <3> QED BY <3>2, <3>3, InsertRowInv
  <2>2. CASE RecordAgain(a)
    <3>1. Closed(FALSE) \in Shapes /\ Closed(FALSE).at = "refused" BY DEF Shapes, Closed
    <3> QED BY <2>2, <3>1, InsertRowInv DEF RecordAgain
  <2> QED BY <1>8, <2>1, <2>2
<1>9. won' = won \/ \E a \in Attempts : RecordInsert(a) \/ RecordAgain(a)
  BY DEF NNext, nvars, Arrive, RecordRead, RecordDelete, SweepRead, SweepDelete, NTick
<1>10. NonceInv'
  BY <1>1, <1>2, <1>3, <1>4, <1>5, <1>6, <1>7, <1>8 DEF NNext
<1> QED BY <1>8, <1>9, <1>10

\* record_if_unseen and the sweep never delete what they did not find
\* expired, whatever they interleave with.
THEOREM NonceInvariance == NSpec => []NonceInv
<1>1. NInit => NonceInv
  BY DEF NInit, NonceInv, NonceType, Shapes, Fresh, RowsAreSettled, DeletersFoundExpired, WonIsKept
<1>2. NonceInv /\ [NNext]_nvars => NonceInv' BY NonceNext
<1> QED BY <1>1, <1>2, PTL DEF NSpec

\* A nonce is accepted again only when the expiry of its last acceptance has
\* passed (record_if_unseen).
THEOREM NonceOncePerWindow == NSpec => AcceptedOnceInWindow
<1>1. NonceInv /\ [NNext]_nvars =>
        [\A n \in NonceNames : won'[n] # won[n] => won[n] = NoRow \/ won[n].exp <= clock]_nvars
  BY NonceNext
<1> QED BY <1>1, NonceInvariance, PTL DEF NSpec, AcceptedOnceInWindow

-----------------------------------------------------------------------------
(* Sign-in.  A start is worth one code because at most one thing carries   *)
(* it at a time: a live transaction, a callback that consumed one, or the  *)
(* code itself (OneCarrier).  A person is signed in as himself because a   *)
(* link and the account it names are made together and never change        *)
(* (LinksAreOwners), and a callback in its second round has seen the link  *)
(* (RoundsSettle).                                                         *)

Txn == [life : {"none", "live", "expired", "gone"}, retry : BOOLEAN, root : Logins \cup {NoOne}]
Naming == {"resolve", "linked", "scan", "held", "insert", "clash", "issue"}
Visit == [pc : {"away", "found", "consumed"} \cup Naming, login : Logins \cup {NoOne},
          claims : ClaimSets \cup {NoOne}, round : 0..2, user : Spellings \cup {NoOne}]
Account == [owner : People \cup {"local"}, active : BOOLEAN]

SignInType ==
  /\ txn \in [Logins -> Txn]
  /\ visit \in [Visits -> Visit]
  /\ account \in [Spellings -> Account \cup {NoOne}]
  /\ fedLink \in [People -> Spellings \cup {NoOne}]
  /\ codes \in [Logins -> Nat]

\* A callback that holds a start: it consumed the transaction.
Holds(v) == visit[v].pc \in Naming \cup {"consumed"}
RootOf(v) == txn[visit[v].login].root

\* Starts are the roots of what they led to, and callbacks know a transaction.
RootsStarted ==
  /\ \A l \in Logins : txn[l].life # "none" =>
       txn[l].root \in Logins /\ txn[txn[l].root].life # "none"
  /\ \A l \in Logins : codes[l] # 0 => txn[l].life # "none"
  /\ \A v \in Visits : visit[v].pc # "away" =>
       visit[v].login \in Logins /\ txn[visit[v].login].life # "none"
  /\ \A v \in Visits : Holds(v) => txn[visit[v].login].life = "gone"

OneCarrier ==
  /\ \A l \in Logins : codes[l] <= 1
  /\ \A k, l \in Logins : txn[k].life = "live" /\ txn[l].life = "live" /\ txn[k].root = txn[l].root
       => k = l
  /\ \A v, w \in Visits : Holds(v) /\ Holds(w) /\ RootOf(v) = RootOf(w) => v = w
  /\ \A l \in Logins : txn[l].life = "live" =>
       codes[txn[l].root] = 0 /\ \A v \in Visits : Holds(v) => RootOf(v) # txn[l].root
  /\ \A v \in Visits : Holds(v) => codes[RootOf(v)] = 0

\* An account made for a person is the one the person's link names.
LinksAreOwners ==
  /\ \A p \in People : fedLink[p] # NoOne =>
       account[fedLink[p]] # NoOne /\ account[fedLink[p]].owner = p
  /\ \A s \in Spellings : \A p \in People :
       account[s] # NoOne /\ account[s].owner = p => fedLink[p] = s

\* What resolve_user knows where it is.
RoundsSettle ==
  \A v \in Visits : visit[v].pc \in Naming =>
    /\ visit[v].claims \in ClaimSets /\ visit[v].claims.group /\ visit[v].claims.mfa
    /\ visit[v].round \in {1, 2}
    /\ visit[v].pc \in {"scan", "held", "insert"} => visit[v].round = 1
    /\ visit[v].round = 2 => fedLink[Who(v)] # NoOne
    /\ visit[v].pc \in {"linked", "issue"} => visit[v].user # NoOne /\ fedLink[Who(v)] = visit[v].user

CodesWereEarned ==
  \A r \in signedIn :
    /\ r.claims \in ClaimSets /\ r.claims.group /\ r.claims.mfa
    /\ r.user \in Spellings /\ fedLink[r.claims.who] = r.user

SignInInv ==
  SignInType /\ RootsStarted /\ OneCarrier /\ LinksAreOwners /\ RoundsSettle /\ CodesWereEarned

LEMMA AwayType == Away \in Visit /\ Away.pc = "away"
BY DEF Away, Visit

LEMMA VisitMoves ==
  ASSUME SignInType, NEW v \in Visits, NEW r \in Visit, visit' = [visit EXCEPT ![v] = r]
  PROVE  /\ visit' \in [Visits -> Visit]
         /\ visit'[v] = r /\ \A w \in Visits : w # v => visit'[w] = visit[w]
BY DEF SignInType

\* What an edit of a callback's record keeps.
Edited(x, pc, n, u) == [x EXCEPT !.pc = pc, !.round = n, !.user = u]
LEMMA VisitEdits ==
  ASSUME NEW x \in Visit, NEW pc \in Naming, NEW n \in {1, 2},
         NEW u \in Spellings \cup {NoOne}
  PROVE  /\ Edited(x, pc, n, u) \in Visit /\ Edited(x, pc, n, u).pc = pc
         /\ Edited(x, pc, n, u).login = x.login /\ Edited(x, pc, n, u).claims = x.claims
         /\ Edited(x, pc, n, u).round = n /\ Edited(x, pc, n, u).user = u
<1> DEFINE C == ClaimSets \cup {NoOne}
           U == Spellings \cup {NoOne}
           L == Logins \cup {NoOne}
           P == {"away", "found", "consumed"} \cup Naming
<1>1. Visit = [pc : P, login : L, claims : C, round : 0..2, user : U] BY DEF Visit
<1>2. pc \in P /\ u \in U /\ n \in 0..2 OBVIOUS
<1> HIDE DEF C, U, L, P
<1> QED BY <1>1, <1>2 DEF Edited

LEMMA VisitFound ==
  ASSUME NEW x \in Visit, NEW l \in Logins
  PROVE  LET r == [x EXCEPT !.pc = "found", !.login = l] IN
         r \in Visit /\ r.pc = "found" /\ r.login = l
<1> DEFINE C == ClaimSets \cup {NoOne}
           U == Spellings \cup {NoOne}
           L == Logins \cup {NoOne}
           P == {"away", "found", "consumed"} \cup Naming
<1>1. Visit = [pc : P, login : L, claims : C, round : 0..2, user : U] BY DEF Visit
<1>2. "found" \in P /\ l \in L OBVIOUS
<1> HIDE DEF C, U, L, P
<1> QED BY <1>1, <1>2

Admitted(x, c) == [x EXCEPT !.pc = "resolve", !.claims = c, !.round = 1]
LEMMA VisitAdmitted ==
  ASSUME NEW x \in Visit, NEW c \in ClaimSets
  PROVE  /\ Admitted(x, c) \in Visit /\ Admitted(x, c).pc = "resolve" /\ Admitted(x, c).login = x.login
         /\ Admitted(x, c).claims = c /\ Admitted(x, c).round = 1
<1> DEFINE C == ClaimSets \cup {NoOne}
           U == Spellings \cup {NoOne}
           L == Logins \cup {NoOne}
           P == {"away", "found", "consumed"} \cup Naming
<1>1. Visit = [pc : P, login : L, claims : C, round : 0..2, user : U] BY DEF Visit
<1>2. "resolve" \in P /\ c \in C /\ 1 \in 0..2 BY DEF Naming
<1> HIDE DEF C, U, L, P
<1> QED BY <1>1, <1>2 DEF Admitted

\* A callback that keeps its transaction, or leaves, carries nothing new.
LEMMA CarriersKept ==
  ASSUME SignInInv, UNCHANGED <<txn, codes>>, NEW v \in Visits, NEW r \in Visit,
         visit' = [visit EXCEPT ![v] = r],
         r.pc # "away" => r.login = visit[v].login /\ visit[v].pc # "away",
         r.pc \in Naming \cup {"consumed"} => Holds(v)
  PROVE  RootsStarted' /\ OneCarrier'
<1>1. visit'[v] = r /\ \A w \in Visits : w # v => visit'[w] = visit[w]
  BY VisitMoves DEF SignInInv
<1>2. \A w \in Visits : Holds(w)' => Holds(w) /\ RootOf(w)' = RootOf(w)
  BY <1>1 DEF Holds, RootOf, Naming
<1>3. \A w \in Visits : visit'[w].pc # "away" => visit[w].pc # "away" /\ visit'[w].login = visit[w].login
  BY <1>1
<1>4. RootsStarted' BY <1>2, <1>3 DEF SignInInv, RootsStarted, Holds, Naming
<1>5. OneCarrier' BY <1>2 DEF SignInInv, OneCarrier
<1> QED BY <1>4, <1>5

\* One callback's step that makes no link leaves the others where they are.
LEMMA OthersSettle ==
  ASSUME SignInInv, UNCHANGED fedLink, NEW v \in Visits,
         \A w \in Visits : w # v => visit'[w] = visit[w],
         visit'[v].pc \in Naming =>
           /\ visit'[v].claims \in ClaimSets /\ visit'[v].claims.group /\ visit'[v].claims.mfa
           /\ visit'[v].round \in {1, 2}
           /\ visit'[v].pc \in {"scan", "held", "insert"} => visit'[v].round = 1
           /\ visit'[v].round = 2 => fedLink[visit'[v].claims.who] # NoOne
           /\ visit'[v].pc \in {"linked", "issue"} =>
                visit'[v].user # NoOne /\ fedLink[visit'[v].claims.who] = visit'[v].user
  PROVE  RoundsSettle'
BY DEF SignInInv, RoundsSettle, Who

\* The browser is sent away.
LEMMA LeaveInv ==
  ASSUME SignInInv, NEW v \in Visits, Leave(v), UNCHANGED <<txn, account, fedLink, codes, signedIn>>
  PROVE  SignInInv'
<1>1. visit' = [visit EXCEPT ![v] = Away] BY DEF Leave
<1>2. /\ visit' \in [Visits -> Visit]
      /\ visit'[v] = Away /\ \A w \in Visits : w # v => visit'[w] = visit[w]
  BY <1>1, AwayType, VisitMoves DEF SignInInv
<1>3. RootsStarted' /\ OneCarrier' BY <1>1, AwayType, CarriersKept DEF Naming
<1>4. RoundsSettle' BY <1>2, AwayType, OthersSettle DEF Naming
<1> QED BY <1>2, <1>3, <1>4 DEF SignInInv, SignInType, LinksAreOwners, CodesWereEarned

\* resolve_user moves to another stage of a round, with what it knows.
LEMMA StageInv ==
  ASSUME SignInInv, NEW v \in Visits, visit[v].pc \in Naming, NEW pc \in Naming,
         NEW n \in {1, 2}, NEW u \in Spellings \cup {NoOne},
         visit' = [visit EXCEPT ![v] = Edited(visit[v], pc, n, u)],
         pc \in {"scan", "held", "insert"} => n = 1,
         n = 2 => fedLink[Who(v)] # NoOne,
         pc \in {"linked", "issue"} => u # NoOne /\ fedLink[Who(v)] = u,
         UNCHANGED <<txn, account, fedLink, codes, signedIn>>
  PROVE  SignInInv' /\ visit'[v].pc = pc /\ \A w \in Visits : w # v => visit'[w] = visit[w]
<1> DEFINE r == Edited(visit[v], pc, n, u)
<1>0. visit[v] \in Visit BY DEF SignInInv, SignInType
<1>1. /\ r \in Visit /\ r.pc = pc /\ r.login = visit[v].login /\ r.claims = visit[v].claims
      /\ r.round = n /\ r.user = u
  BY <1>0, VisitEdits, SMTT(20)
<1> HIDE DEF r
<1>2. visit' = [visit EXCEPT ![v] = r] BY DEF r
<1>3. /\ visit' \in [Visits -> Visit]
      /\ visit'[v] = r /\ \A w \in Visits : w # v => visit'[w] = visit[w]
  BY <1>1, <1>2, VisitMoves DEF SignInInv
<1>4. RootsStarted' /\ OneCarrier' BY <1>1, <1>2, CarriersKept DEF Naming, Holds
<1>5. RoundsSettle' BY <1>1, <1>3, OthersSettle, SMTT(30) DEF SignInInv, RoundsSettle, Who
<1> QED BY <1>1, <1>3, <1>4, <1>5 DEF SignInInv, SignInType, LinksAreOwners, CodesWereEarned

\* Transactions begin, expire and are reaped.
LEMMA TxnInv ==
  ASSUME SignInInv, NEW l \in Logins, StartLogin(l) \/ TxnExpires(l) \/ ReapExpired(l)
  PROVE  SignInInv'
<1>1. UNCHANGED <<visit, account, fedLink, codes, signedIn>>
  BY DEF StartLogin, TxnExpires, ReapExpired
<1>2. PICK t \in Txn : /\ txn' = [txn EXCEPT ![l] = t]
                       /\ \/ txn[l].life = "none" /\ t.life = "live" /\ t.root = l
                          \/ /\ txn[l].life \in {"live", "expired"} /\ t.root = txn[l].root
                             /\ t.life \in {"expired", "gone"}
  <2>1. CASE StartLogin(l)
    <3> DEFINE s == [life |-> "live", retry |-> FALSE, root |-> l]
    <3>1. s \in Txn /\ s.life = "live" /\ s.root = l BY DEF Txn
    <3>2. txn' = [txn EXCEPT ![l] = s] /\ txn[l] = Unused BY <2>1 DEF StartLogin
    <3>3. txn[l].life = "none" BY <3>2 DEF Unused
    <3> HIDE DEF s
    <3> QED BY <3>1, <3>2, <3>3
  <2>2. CASE TxnExpires(l) \/ ReapExpired(l)
    <3>1. ASSUME NEW x \in {"expired", "gone"}
          PROVE  /\ [txn[l] EXCEPT !.life = x] \in Txn /\ [txn[l] EXCEPT !.life = x].life = x
                 /\ [txn[l] EXCEPT !.life = x].root = txn[l].root
      BY DEF SignInInv, SignInType, Txn
    <3>2. \E x \in {"expired", "gone"} : /\ txn' = [txn EXCEPT ![l] = [txn[l] EXCEPT !.life = x]]
                                         /\ txn[l].life \in {"live", "expired"}
      BY <2>2 DEF TxnExpires, ReapExpired
    <3> QED BY <3>1, <3>2
  <2> QED BY <2>1, <2>2
<1>3. txn' \in [Logins -> Txn] /\ txn'[l] = t /\ \A k \in Logins : k # l => txn'[k] = txn[k]
  BY <1>2 DEF SignInInv, SignInType
<1>4. RootsStarted'
  BY <1>1, <1>2, <1>3 DEF SignInInv, RootsStarted, Holds, Naming
<1>5. OneCarrier'
  <2>1. \A v \in Visits : Holds(v)' = Holds(v) BY <1>1 DEF Holds
  <2>2. \A v \in Visits : Holds(v) => RootOf(v)' = RootOf(v) /\ txn[RootOf(v)].life # "none"
    <3> TAKE v \in Visits
    <3> HAVE Holds(v)
    <3>1. visit[v].login \in Logins /\ txn[visit[v].login].life = "gone"
      BY DEF SignInInv, RootsStarted, Holds, Naming
    <3>2. txn'[visit[v].login].root = txn[visit[v].login].root BY <1>2, <1>3, <3>1
    <3> QED BY <1>1, <3>1, <3>2 DEF RootOf, SignInInv, RootsStarted
  <2>3. CASE txn[l].life = "none"
    <3>1. \A k \in Logins : txn[k].life # "none" => txn[k].root # l
      BY <2>3 DEF SignInInv, RootsStarted
    <3>2. codes[l] = 0 BY <2>3 DEF SignInInv, RootsStarted
    <3>3. t.life = "live" /\ t.root = l BY <1>2, <2>3
    <3> QED BY <1>1, <1>3, <2>1, <2>2, <2>3, <3>1, <3>2, <3>3 DEF SignInInv, OneCarrier
  <2>4. CASE txn[l].life # "none"
    <3>1. \A k \in Logins : txn'[k].life = "live" => txn'[k] = txn[k] BY <1>2, <1>3, <2>4
    <3> QED BY <1>1, <2>1, <2>2, <3>1 DEF SignInInv, OneCarrier
  <2> QED BY <2>3, <2>4
<1> QED BY <1>1, <1>3, <1>4, <1>5
        DEF SignInInv, SignInType, LinksAreOwners, RoundsSettle, Who, CodesWereEarned

\* consume_transaction.
LEMMA ConsumeInv ==
  ASSUME SignInInv, NEW v \in Visits, (\E l \in Logins : LookUp(v, l)) \/ Consume(v)
  PROVE  SignInInv'
<1>1. ASSUME NEW l \in Logins, LookUp(v, l) PROVE SignInInv'
  <2> DEFINE r == [Away EXCEPT !.pc = "found", !.login = l]
  <2>1. r \in Visit /\ r.pc = "found" /\ r.login = l
    BY AwayType, VisitFound
  <2> HIDE DEF r
  <2>2. /\ UNCHANGED <<txn, account, fedLink, codes, signedIn>> /\ visit[v].pc = "away"
        /\ visit' = [visit EXCEPT ![v] = r] /\ txn[l].life \in {"live", "expired"}
    BY <1>1 DEF LookUp, r
  <2>3. /\ visit' \in [Visits -> Visit]
        /\ visit'[v] = r /\ \A w \in Visits : w # v => visit'[w] = visit[w]
    BY <2>1, <2>2, VisitMoves DEF SignInInv
  <2>4. \A w \in Visits : Holds(w)' => Holds(w) /\ RootOf(w)' = RootOf(w) /\ visit'[w] = visit[w]
    BY <2>1, <2>2, <2>3 DEF Holds, RootOf, Naming
  <2>5. RootsStarted' BY <2>1, <2>2, <2>3, <2>4 DEF SignInInv, RootsStarted
  <2>6. OneCarrier' BY <2>2, <2>4 DEF SignInInv, OneCarrier
  <2>7. RoundsSettle' BY <2>1, <2>2, <2>3, OthersSettle DEF Naming
  <2> QED BY <2>2, <2>3, <2>5, <2>6, <2>7
          DEF SignInInv, SignInType, LinksAreOwners, CodesWereEarned
<1>2. ASSUME Consume(v) PROVE SignInInv'
  <2>0. visit[v].pc = "found" /\ UNCHANGED <<account, fedLink, codes, signedIn>>
    BY <1>2 DEF Consume
  <2>1. PICK l \in Logins : l = visit[v].login /\ txn[l].life # "none"
    BY <2>0 DEF SignInInv, RootsStarted
  <2>2. PICK t \in Txn : txn' = [txn EXCEPT ![l] = t] /\ t.life = "gone" /\ t.root = txn[l].root
    <3>1. /\ [txn[l] EXCEPT !.life = "gone"] \in Txn /\ [txn[l] EXCEPT !.life = "gone"].life = "gone"
          /\ [txn[l] EXCEPT !.life = "gone"].root = txn[l].root
      BY DEF SignInInv, SignInType, Txn
    <3> QED BY <1>2, <2>1, <3>1 DEF Consume
  <2>3. txn' \in [Logins -> Txn] /\ txn'[l] = t /\ \A k \in Logins : k # l => txn'[k] = txn[k]
    BY <2>2 DEF SignInInv, SignInType
  <2>4. PICK r \in Visit :
          /\ visit' = [visit EXCEPT ![v] = r]
          /\ \/ r.pc = "away"
             \/ r.pc = "consumed" /\ r.login = l /\ txn[l].life = "live"
    <3>1. CASE txn[l].life = "live"
      <4>1. /\ [visit[v] EXCEPT !.pc = "consumed"] \in Visit
            /\ [visit[v] EXCEPT !.pc = "consumed"].pc = "consumed"
            /\ [visit[v] EXCEPT !.pc = "consumed"].login = l
        BY <2>1 DEF SignInInv, SignInType, Visit
      <4> QED BY <1>2, <2>1, <3>1, <4>1 DEF Consume, Goto
    <3>2. CASE txn[l].life # "live" BY <1>2, <2>1, <3>2, AwayType DEF Consume, Leave
    <3> QED BY <3>1, <3>2
  <2>5. /\ visit' \in [Visits -> Visit]
        /\ visit'[v] = r /\ \A w \in Visits : w # v => visit'[w] = visit[w]
    BY <2>4, VisitMoves DEF SignInInv
  <2>6. \A k \in Logins : txn'[k].root = txn[k].root /\ (txn[k].life # "none" <=> txn'[k].life # "none")
    BY <2>1, <2>2, <2>3
  <2>7. \A w \in Visits : w # v => /\ Holds(w)' = Holds(w)
                                   /\ Holds(w) => RootOf(w)' = RootOf(w)
    <3> TAKE w \in Visits
    <3>1. Holds(w) => visit[w].login \in Logins BY DEF SignInInv, RootsStarted, Holds, Naming
    <3> QED BY <2>5, <2>6, <3>1 DEF Holds, RootOf
  <2>8. RootsStarted'
    <3>1. \A w \in Visits : visit'[w].pc # "away" =>
            visit'[w].login \in Logins /\ txn'[visit'[w].login].life # "none"
      BY <2>1, <2>2, <2>3, <2>4, <2>5, <2>6 DEF SignInInv, RootsStarted
    <3>2. \A w \in Visits : Holds(w)' => txn'[visit'[w].login].life = "gone"
      <4> TAKE w \in Visits
      <4>1. CASE w = v BY <2>2, <2>3, <2>4, <2>5, <4>1 DEF Holds, Naming
      <4>2. CASE w # v
        <5>1. Holds(w) => visit[w].login \in Logins /\ txn[visit[w].login].life = "gone"
          BY DEF SignInInv, RootsStarted, Holds, Naming
        <5> QED BY <2>2, <2>3, <2>5, <2>7, <4>2, <5>1
      <4> QED BY <4>1, <4>2
    <3> QED BY <2>0, <2>6, <3>1, <3>2 DEF SignInInv, RootsStarted
  <2>9. OneCarrier'
    <3>1. \A k \in Logins : txn'[k].life = "live" => k # l /\ txn[k].life = "live" BY <2>2, <2>3
    <3>2. Holds(v)' => txn[l].life = "live" /\ RootOf(v)' = txn[l].root
      BY <2>2, <2>3, <2>4, <2>5 DEF Holds, RootOf, Naming
    <3> QED BY <2>0, <2>6, <2>7, <3>1, <3>2 DEF SignInInv, OneCarrier
  <2>10. RoundsSettle' BY <2>0, <2>4, <2>5, OthersSettle DEF Naming
  <2> QED BY <2>0, <2>3, <2>5, <2>8, <2>9, <2>10
          DEF SignInInv, SignInType, LinksAreOwners, CodesWereEarned
<1> QED BY <1>1, <1>2

\* The verdict: refused, sent round again for the second factor, or admitted.
LEMMA CompleteInv ==
  ASSUME SignInInv, NEW v \in Visits, Complete(v)
  PROVE  SignInInv'
<1>0. visit[v].pc = "consumed" /\ UNCHANGED <<account, fedLink, codes, signedIn>> BY DEF Complete
<1>1. CASE Leave(v) /\ UNCHANGED txn BY <1>0, <1>1, LeaveInv
<1>2. CASE BeginRetry(v)
  <2>1. PICK k \in Logins : k = visit[v].login /\ txn[k].life = "gone" /\ txn[k].root \in Logins
                            /\ txn[txn[k].root].life # "none"
    BY <1>0 DEF SignInInv, RootsStarted, Holds
  <2>2. PICK l \in Logins :
          /\ txn[l] = Unused
          /\ txn' = [txn EXCEPT ![l] = [life |-> "live", retry |-> TRUE, root |-> txn[k].root]]
    BY <1>2, <2>1 DEF BeginRetry
  <2>3. PICK t \in Txn : txn' = [txn EXCEPT ![l] = t] /\ t.life = "live" /\ t.root = txn[k].root
    <3> DEFINE s == [life |-> "live", retry |-> TRUE, root |-> txn[k].root]
    <3>1. s \in Txn /\ s.life = "live" /\ s.root = txn[k].root BY <2>1 DEF Txn
    <3>2. txn' = [txn EXCEPT ![l] = s] BY <2>2
    <3> HIDE DEF s
    <3> QED BY <3>1, <3>2
  <2>4. txn[l].life = "none" BY <2>2 DEF Unused
  <2>5. txn' \in [Logins -> Txn] /\ txn'[l] = t /\ \A j \in Logins : j # l => txn'[j] = txn[j]
    BY <2>3 DEF SignInInv, SignInType
  <2>6. /\ visit' \in [Visits -> Visit]
        /\ visit'[v] = Away /\ \A w \in Visits : w # v => visit'[w] = visit[w]
    <3>1. visit' = [visit EXCEPT ![v] = Away] BY <1>2 DEF BeginRetry, Leave
    <3> QED BY <3>1, AwayType, VisitMoves DEF SignInInv
  <2>7. \A w \in Visits : Holds(w)' => w # v /\ Holds(w) /\ RootOf(w)' = RootOf(w)
                                       /\ visit[w].login \in Logins /\ visit[w].login # l
    <3> TAKE w \in Visits
    <3> HAVE Holds(w)'
    <3>1. w # v /\ Holds(w) BY <2>6, AwayType DEF Holds, Naming
    <3>2. visit[w].login \in Logins /\ txn[visit[w].login].life # "none"
      BY <3>1 DEF SignInInv, RootsStarted, Holds, Naming
    <3> QED BY <2>4, <2>5, <2>6, <3>1, <3>2 DEF RootOf
  <2>8. RootsStarted'
    <3>1. \A j \in Logins : txn[j].life # "none" => j # l /\ txn'[j] = txn[j] BY <2>4, <2>5
    <3>2. \A j \in Logins : txn'[j].life # "none" =>
            txn'[j].root \in Logins /\ txn'[txn'[j].root].life # "none"
      <4> TAKE j \in Logins
      <4>1. CASE j = l BY <2>1, <2>3, <2>5, <3>1, <4>1
      <4>2. CASE j # l BY <2>5, <3>1, <4>2 DEF SignInInv, RootsStarted
      <4> QED BY <4>1, <4>2
    <3>3. \A j \in Logins : codes'[j] # 0 => txn'[j].life # "none"
      BY <1>0, <3>1 DEF SignInInv, RootsStarted
    <3>4. \A w \in Visits : visit'[w].pc # "away" =>
            visit'[w].login \in Logins /\ txn'[visit'[w].login].life # "none"
      BY <2>6, <3>1, AwayType DEF SignInInv, RootsStarted
    <3>5. \A w \in Visits : Holds(w)' => txn'[visit'[w].login].life = "gone"
      BY <2>5, <2>6, <2>7 DEF SignInInv, RootsStarted
    <3> QED BY <3>2, <3>3, <3>4, <3>5 DEF RootsStarted
  <2>9. OneCarrier'
    <3>1. Holds(v) /\ RootOf(v) = txn[k].root BY <1>0, <2>1 DEF Holds, RootOf
    <3>2. codes[txn[k].root] = 0 /\ \A w \in Visits : Holds(w)' => RootOf(w)' # txn[k].root
      BY <2>7, <3>1 DEF SignInInv, OneCarrier
    <3>3. \A j \in Logins : txn'[j].life = "live" /\ j # l => txn'[j] = txn[j] /\ txn[j].root # txn[k].root
      BY <2>5, <3>1 DEF SignInInv, OneCarrier
    <3> QED BY <1>0, <2>3, <2>5, <2>7, <3>2, <3>3 DEF SignInInv, OneCarrier
  <2>10. RoundsSettle' BY <1>0, <2>6, AwayType, OthersSettle DEF Naming
  <2> QED BY <1>0, <2>5, <2>6, <2>8, <2>9, <2>10
          DEF SignInInv, SignInType, LinksAreOwners, CodesWereEarned
<1>3. ASSUME NEW c \in ClaimSets, Evaluate(c, txn[visit[v].login].retry) = "admit", UNCHANGED txn,
             visit' = [visit EXCEPT ![v].pc = "resolve", ![v].claims = c, ![v].round = 1]
      PROVE  SignInInv'
  <2>1. c.group /\ c.mfa BY <1>3 DEF Evaluate, ClaimSets
  <2>2. visit[v] \in Visit BY DEF SignInInv, SignInType
  <2>3. PICK r \in Visit : /\ visit' = [visit EXCEPT ![v] = r]
                           /\ r.pc = "resolve" /\ r.login = visit[v].login /\ r.claims = c /\ r.round = 1
    <3>1. visit' = [visit EXCEPT ![v] = Admitted(visit[v], c)] BY <1>3 DEF Admitted
    <3> QED BY <2>2, <3>1, VisitAdmitted
  <2>4. /\ visit' \in [Visits -> Visit]
        /\ visit'[v] = r /\ \A w \in Visits : w # v => visit'[w] = visit[w]
    BY <2>3, VisitMoves DEF SignInInv
  <2>5. RootsStarted' /\ OneCarrier' BY <1>0, <1>3, <2>3, CarriersKept DEF Naming, Holds
  <2>6. RoundsSettle' BY <1>0, <2>1, <2>3, <2>4, OthersSettle
  <2> QED BY <1>0, <1>3, <2>4, <2>5, <2>6
          DEF SignInInv, SignInType, LinksAreOwners, CodesWereEarned
<1> QED BY <1>1, <1>2, <1>3 DEF Complete

Moved(x, pc) == [x EXCEPT !.pc = pc]
Linked(x, pc, u) == [x EXCEPT !.pc = pc, !.user = u]
Again(x, pc, n) == [x EXCEPT !.pc = pc, !.round = n]
LEMMA EditedParts ==
  ASSUME NEW x \in Visit, NEW pc, NEW n, NEW u
  PROVE  /\ Moved(x, pc) = Edited(x, pc, x.round, x.user)
         /\ Linked(x, pc, u) = Edited(x, pc, x.round, u)
         /\ Again(x, pc, n) = Edited(x, pc, n, x.user)
BY DEF Visit, Edited, Moved, Linked, Again

\* A stage of resolve_user that makes no account, in the form StageInv takes;
\* an address is a clash only when it is held and its person has no link.
LEMMA ResolveStep ==
  ASSUME SignInInv, NEW v \in Visits, visit[v].pc \in Naming,
         UNCHANGED <<txn, account, fedLink, codes, signedIn>>,
         \/ FindLink(v) \/ FindActiveUser(v) \/ EmailHeldLocally(v) \/ RecheckLink(v)
         \/ Provision(v)
  PROVE  \/ Leave(v)
         \/ \E pc \in Naming, n \in {1, 2}, u \in Spellings \cup {NoOne} :
              /\ visit' = [visit EXCEPT ![v] = Edited(visit[v], pc, n, u)]
              /\ pc \in {"scan", "held", "insert"} => n = 1
              /\ n = 2 => fedLink[Who(v)] # NoOne
              /\ pc \in {"linked", "issue"} => u # NoOne /\ fedLink[Who(v)] = u
              /\ pc = "clash" => fedLink[Who(v)] = NoOne
<1>0. visit[v] \in Visit BY DEF SignInInv, SignInType
<1>1. /\ visit[v].round \in {1, 2} /\ visit[v].user \in Spellings \cup {NoOne}
      /\ visit[v].claims \in ClaimSets
      /\ visit[v].pc \in {"scan", "held", "insert"} => visit[v].round = 1
      /\ visit[v].round = 2 => fedLink[Who(v)] # NoOne
      /\ visit[v].pc \in {"linked", "issue"} =>
           visit[v].user # NoOne /\ fedLink[Who(v)] = visit[v].user
  BY <1>0 DEF SignInInv, RoundsSettle, Visit
<1>2. Who(v) \in People BY <1>1 DEF Who, ClaimSets
<1>3. fedLink[Who(v)] \in Spellings \cup {NoOne} BY <1>2 DEF SignInInv, SignInType
<1>4. \A pc : Goto(v, pc) => visit' = [visit EXCEPT ![v] = Edited(visit[v], pc, visit[v].round, visit[v].user)]
  <2>1. \A pc : Goto(v, pc) => visit' = [visit EXCEPT ![v] = Moved(visit[v], pc)] BY DEF Goto, Moved
  <2>2. \A pc : Moved(visit[v], pc) = Edited(visit[v], pc, visit[v].round, visit[v].user)
    BY <1>0, EditedParts
  <2> QED BY <2>1, <2>2
<1>5. NextRound(v) /\ visit[v].round = 1 =>
        visit' = [visit EXCEPT ![v] = Edited(visit[v], "resolve", 2, visit[v].user)]
  <2> HAVE NextRound(v) /\ visit[v].round = 1
  <2>1. visit[v].round # 2 OBVIOUS
  <2>2. visit' = [visit EXCEPT ![v].pc = "resolve", ![v].round = 2] BY <2>1, Zenon DEF NextRound
  <2>3. visit' = [visit EXCEPT ![v] = Again(visit[v], "resolve", 2)]
    BY <2>2 DEF SignInInv, SignInType, Again
  <2> QED BY <1>0, <2>3, EditedParts
<1>6. CASE FindLink(v)
  <2>1. CASE fedLink[Who(v)] # NoOne
    <3>1. visit' = [visit EXCEPT ![v] = Edited(visit[v], "linked", visit[v].round, fedLink[Who(v)])]
      <4>1. visit' = [visit EXCEPT ![v] = Linked(visit[v], "linked", fedLink[Who(v)])]
        BY <1>6, <2>1 DEF FindLink, SignInInv, SignInType, Linked
      <4> QED BY <1>0, <4>1, EditedParts
    <3> QED BY <1>1, <1>3, <2>1, <3>1 DEF Naming
  <2>2. CASE fedLink[Who(v)] = NoOne
    <3>1. visit[v].round = 1 BY <1>1, <2>2
    <3>2. Leave(v) \/ Goto(v, "scan") BY <1>6, <2>2 DEF FindLink
    <3> QED BY <1>1, <1>4, <3>1, <3>2 DEF Naming
  <2> QED BY <2>1, <2>2
<1>7. CASE FindActiveUser(v)
  <2>1. visit[v].pc = "linked" /\ (Leave(v) \/ Goto(v, "issue")) BY <1>7 DEF FindActiveUser
  <2> QED BY <1>1, <1>4, <2>1 DEF Naming
<1>8. CASE EmailHeldLocally(v)
  <2>1. visit[v].pc = "scan" /\ (Goto(v, "held") \/ Goto(v, "insert")) BY <1>8 DEF EmailHeldLocally
  <2> QED BY <1>1, <1>4, <2>1 DEF Naming
<1>9. CASE RecheckLink(v)
  <2>1. /\ visit[v].pc = "held"
        /\ \/ fedLink[Who(v)] # NoOne /\ NextRound(v)
           \/ fedLink[Who(v)] = NoOne /\ Goto(v, "clash")
    BY <1>9 DEF RecheckLink
  <2> QED BY <1>1, <1>4, <1>5, <2>1 DEF Naming
<1>10. CASE Provision(v)
  <2>1. visit[v].pc = "insert" BY <1>10 DEF Provision
  <2>2. \/ Goto(v, "held")
        \/ fedLink[Who(v)] # NoOne /\ NextRound(v)
        \/ fedLink[Who(v)] = NoOne /\ fedLink' = [fedLink EXCEPT ![Who(v)] = Email(v)]
    <3>1. CASE account[Email(v)] # NoOne 
      <4>1. Goto(v, "held") BY <1>10, <3>1 DEF Provision, Goto
      <4> QED BY <4>1
    <3>2. CASE account[Email(v)] = NoOne /\ fedLink[Who(v)] # NoOne BY <1>10, <3>2 DEF Provision
    <3>3. CASE account[Email(v)] = NoOne /\ fedLink[Who(v)] = NoOne
      BY <1>10, <3>3 DEF Provision
    <3> QED BY <3>1, <3>2, <3>3
  <2>3. Email(v) \in Spellings BY <1>1 DEF Email, ClaimSets
  <2>4. Goto(v, "held") \/ (fedLink[Who(v)] # NoOne /\ NextRound(v))
    BY <1>2, <2>2, <2>3, SignInAssumption DEF SignInInv, SignInType
  <2> QED BY <1>1, <1>4, <1>5, <2>1, <2>4 DEF Naming
<1> QED BY <1>6, <1>7, <1>8, <1>9, <1>10

\* A stage of resolve_user that makes no account.
LEMMA ResolveInv ==
  ASSUME SignInInv, NEW v \in Visits, UNCHANGED <<txn, account, fedLink, codes, signedIn>>,
         \/ FindLink(v) \/ FindActiveUser(v) \/ EmailHeldLocally(v) \/ RecheckLink(v)
         \/ Provision(v)
  PROVE  /\ SignInInv'
         /\ visit'[v].pc = "clash" => fedLink[Who(v)] = NoOne
         /\ \A w \in Visits : w # v => visit'[w] = visit[w]
<1>1. visit[v].pc \in Naming
  BY DEF FindLink, FindActiveUser, EmailHeldLocally, RecheckLink, Provision, Naming
<1>2. CASE Leave(v)
  <2>1. visit' = [visit EXCEPT ![v] = Away] BY <1>2 DEF Leave
  <2>2. visit'[v].pc # "clash" /\ \A w \in Visits : w # v => visit'[w] = visit[w]
    BY <2>1, AwayType, VisitMoves DEF SignInInv
  <2> QED BY <1>2, <2>2, LeaveInv
<1>3. ASSUME NEW pc \in Naming, NEW n \in {1, 2}, NEW u \in Spellings \cup {NoOne},
             visit' = [visit EXCEPT ![v] = Edited(visit[v], pc, n, u)],
             pc \in {"scan", "held", "insert"} => n = 1,
             n = 2 => fedLink[Who(v)] # NoOne,
             pc \in {"linked", "issue"} => u # NoOne /\ fedLink[Who(v)] = u,
             pc = "clash" => fedLink[Who(v)] = NoOne
      PROVE  /\ SignInInv'
             /\ visit'[v].pc = "clash" => fedLink[Who(v)] = NoOne
             /\ \A w \in Visits : w # v => visit'[w] = visit[w]
  BY <1>1, <1>3, StageInv
<1> QED BY <1>1, <1>2, <1>3, ResolveStep

\* The account and its link, made in one transaction for a person who has none.
LEMMA ProvisionInv ==
  ASSUME SignInInv, NEW v \in Visits, Provision(v), account[Email(v)] = NoOne, fedLink[Who(v)] = NoOne
  PROVE  /\ SignInInv' /\ visit'[v].pc = "issue" /\ \A w \in Visits : w # v => visit'[w] = visit[w]
<1>0. visit[v].pc = "insert" /\ UNCHANGED <<txn, codes, signedIn>> BY DEF Provision
<1>1. /\ visit[v] \in Visit /\ visit[v].claims \in ClaimSets /\ visit[v].claims.group
      /\ visit[v].claims.mfa /\ visit[v].round = 1
  BY <1>0 DEF SignInInv, SignInType, RoundsSettle, Naming
<1>2. PICK p, e : p \in People /\ p = Who(v) /\ e \in Spellings /\ e = Email(v)
  BY <1>1 DEF Who, Email, ClaimSets
<1>3. /\ account' = [account EXCEPT ![e] = [owner |-> p, active |-> TRUE]]
      /\ fedLink' = [fedLink EXCEPT ![p] = e]
      /\ visit' = [visit EXCEPT ![v].pc = "issue", ![v].user = e]
  BY <1>2, Zenon DEF Provision
<1>4. PICK r \in Visit : /\ visit' = [visit EXCEPT ![v] = r] /\ r.pc = "issue" /\ r.user = e
                         /\ r.login = visit[v].login /\ r.claims = visit[v].claims /\ r.round = 1
  <2>1. visit' = [visit EXCEPT ![v] = Linked(visit[v], "issue", e)]
    BY <1>3 DEF SignInInv, SignInType, Linked
  <2>2. Linked(visit[v], "issue", e) = Edited(visit[v], "issue", 1, e) BY <1>1, EditedParts
  <2>3. LET r == Edited(visit[v], "issue", 1, e) IN
          /\ r \in Visit /\ r.pc = "issue" /\ r.user = e /\ r.login = visit[v].login
          /\ r.claims = visit[v].claims /\ r.round = 1
    <3>1. "issue" \in Naming /\ 1 \in {1, 2} /\ e \in Spellings \cup {NoOne} BY <1>2 DEF Naming
    <3> QED BY <1>1, <3>1, VisitEdits, SMTT(20)
  <2> QED BY <2>1, <2>2, <2>3
<1>5. /\ visit' \in [Visits -> Visit]
      /\ visit'[v] = r /\ \A w \in Visits : w # v => visit'[w] = visit[w]
  BY <1>4, VisitMoves DEF SignInInv
<1>6. PICK a \in Account : account' = [account EXCEPT ![e] = a] /\ a.owner = p
  <2>1. [owner |-> p, active |-> TRUE] \in Account /\ [owner |-> p, active |-> TRUE].owner = p
    BY <1>2 DEF Account
  <2> QED BY <1>3, <2>1
<1>7. a # NoOne /\ e # NoOne BY <1>2, <1>6, SignInAssumption DEF Account
<1>8. /\ account' \in [Spellings -> Account \cup {NoOne}]
      /\ account'[e] = a /\ \A s \in Spellings : s # e => account'[s] = account[s]
  BY <1>2, <1>6 DEF SignInInv, SignInType
<1>9. /\ fedLink' \in [People -> Spellings \cup {NoOne}]
      /\ fedLink'[p] = e /\ \A q \in People : q # p => fedLink'[q] = fedLink[q]
  BY <1>2, <1>3 DEF SignInInv, SignInType
<1>10. account[e] = NoOne /\ fedLink[p] = NoOne BY <1>2
<1>11. \A q \in People : fedLink[q] # NoOne => q # p /\ fedLink'[q] = fedLink[q] /\ fedLink[q] # e
                                              /\ fedLink[q] \in Spellings
  BY <1>9, <1>10 DEF SignInInv, SignInType, LinksAreOwners
<1>12. LinksAreOwners'
  <2>1. ASSUME NEW q \in People, fedLink'[q] # NoOne
        PROVE  account'[fedLink'[q]] # NoOne /\ account'[fedLink'[q]].owner = q
    <3>1. CASE q = p BY <1>6, <1>7, <1>8, <1>9, <3>1
    <3>2. CASE q # p
      <4>1. fedLink[q] # NoOne /\ fedLink'[q] = fedLink[q] BY <1>9, <2>1, <3>2
      <4> QED BY <1>8, <1>11, <4>1 DEF SignInInv, LinksAreOwners
    <3> QED BY <3>1, <3>2
  <2>2. ASSUME NEW s \in Spellings, NEW q \in People, account'[s] # NoOne, account'[s].owner = q
        PROVE  fedLink'[q] = s
    <3>1. CASE s = e BY <1>6, <1>8, <1>9, <2>2, <3>1
    <3>2. CASE s # e
      <4>1. fedLink[q] = s BY <1>8, <2>2, <3>2 DEF SignInInv, LinksAreOwners
      <4>2. s # NoOne BY SignInAssumption
      <4> QED BY <1>11, <4>1, <4>2
    <3> QED BY <3>1, <3>2
  <2> QED BY <2>1, <2>2 DEF LinksAreOwners
<1>13. RoundsSettle'
  <2>1. ASSUME NEW w \in Visits, w # v, visit[w].pc \in Naming
        PROVE  /\ visit[w].round = 2 => fedLink'[visit[w].claims.who] # NoOne
               /\ visit[w].pc \in {"linked", "issue"} => fedLink'[visit[w].claims.who] = visit[w].user
    <3>1. visit[w].claims.who \in People BY <2>1 DEF SignInInv, RoundsSettle, ClaimSets
    <3> QED BY <1>11, <2>1, <3>1 DEF SignInInv, RoundsSettle, Who
  <2>2. visit'[v].claims.who = p BY <1>2, <1>4, <1>5 DEF Who
  <2> QED BY <1>1, <1>4, <1>5, <1>7, <1>9, <2>1, <2>2 DEF SignInInv, RoundsSettle, Who
<1>14. CodesWereEarned'
  <2>1. \A x \in signedIn : x.claims.who \in People BY DEF SignInInv, CodesWereEarned, ClaimSets
  <2>2. \A x \in signedIn : fedLink'[x.claims.who] = x.user
    BY <1>11, <2>1, SignInAssumption DEF SignInInv, CodesWereEarned
  <2> QED BY <1>0, <2>2 DEF SignInInv, CodesWereEarned
<1>15. RootsStarted' /\ OneCarrier' BY <1>0, <1>4, CarriersKept DEF Naming, Holds
<1> QED BY <1>0, <1>4, <1>5, <1>8, <1>9, <1>12, <1>13, <1>14, <1>15 DEF SignInInv, SignInType

\* The console's code: the start's carrier turns into it.
LEMMA IssueInv ==
  ASSUME SignInInv, NEW v \in Visits, IssueConsoleCode(v)
  PROVE  SignInInv' /\ visit'[v].pc # "clash" /\ \A w \in Visits : w # v => visit'[w] = visit[w]
<1>0. visit[v].pc = "issue" /\ UNCHANGED <<txn, account, fedLink>> BY DEF IssueConsoleCode
<1>1. Holds(v) /\ visit[v].login \in Logins /\ txn[visit[v].login].life = "gone"
  BY <1>0 DEF SignInInv, RootsStarted, Holds, Naming
<1>2. PICK k \in Logins : k = RootOf(v) /\ txn[k].life # "none" /\ codes[k] = 0
  BY <1>1 DEF SignInInv, RootsStarted, OneCarrier, RootOf
<1>3. codes' = [codes EXCEPT ![k] = 1]
  BY <1>2 DEF IssueConsoleCode, RootOf, SignInInv, SignInType
<1>4. codes' \in [Logins -> Nat] /\ codes'[k] = 1 /\ \A l \in Logins : l # k => codes'[l] = codes[l]
  BY <1>3 DEF SignInInv, SignInType
<1>5. /\ visit' \in [Visits -> Visit]
      /\ visit'[v] = Away /\ \A w \in Visits : w # v => visit'[w] = visit[w]
  <2>1. visit' = [visit EXCEPT ![v] = Away] BY DEF IssueConsoleCode, Leave
  <2> QED BY <2>1, AwayType, VisitMoves DEF SignInInv
<1>6. \A w \in Visits : Holds(w)' => w # v /\ Holds(w) /\ RootOf(w)' = RootOf(w) /\ RootOf(w) # k
  <2> TAKE w \in Visits
  <2> HAVE Holds(w)'
  <2>1. w # v BY <1>5, AwayType DEF Holds, Naming
  <2>2. Holds(w) /\ RootOf(w)' = RootOf(w) BY <1>0, <1>5, <2>1 DEF Holds, RootOf
  <2> QED BY <1>1, <1>2, <2>1, <2>2 DEF SignInInv, OneCarrier
<1>7. RootsStarted'
  <2>1. \A w \in Visits : visit'[w].pc # "away" => visit'[w] = visit[w] BY <1>5, AwayType
  <2>2. \A l \in Logins : codes'[l] # 0 => txn'[l].life # "none"
    BY <1>0, <1>2, <1>4 DEF SignInInv, RootsStarted
  <2>3. \A w \in Visits : Holds(w)' => txn'[visit'[w].login].life = "gone"
    BY <1>0, <1>5, <1>6 DEF SignInInv, RootsStarted
  <2> QED BY <1>0, <2>1, <2>2, <2>3 DEF SignInInv, RootsStarted
<1>8. OneCarrier'
  <2>1. \A l \in Logins : txn[l].life = "live" => txn[l].root # k /\ txn[l].root \in Logins
    BY <1>1, <1>2 DEF SignInInv, OneCarrier, RootsStarted
  <2>2. \A w \in Visits : Holds(w)' => RootOf(w) \in Logins
    <3> TAKE w \in Visits
    <3> HAVE Holds(w)'
    <3>1. visit[w].login \in Logins /\ txn[visit[w].login].life = "gone"
      BY <1>6 DEF SignInInv, RootsStarted, Holds, Naming
    <3> QED BY <3>1 DEF SignInInv, RootsStarted, RootOf
  <2> QED BY <1>0, <1>4, <1>6, <2>1, <2>2 DEF SignInInv, OneCarrier
<1>9. RoundsSettle' BY <1>0, <1>5, AwayType, OthersSettle DEF Naming
<1>10. CodesWereEarned'
  <2> DEFINE x == [claims |-> visit[v].claims, user |-> visit[v].user]
  <2>1. visit[v] \in Visit BY DEF SignInInv, SignInType
  <2>2. /\ visit[v].claims \in ClaimSets /\ visit[v].claims.group /\ visit[v].claims.mfa
        /\ visit[v].user # NoOne /\ fedLink[visit[v].claims.who] = visit[v].user
    BY <1>0 DEF SignInInv, RoundsSettle, Who, Naming
  <2>3. visit[v].user \in Spellings BY <2>1, <2>2 DEF Visit
  <2>4. x.claims = visit[v].claims /\ x.user = visit[v].user OBVIOUS
  <2>5. signedIn' = signedIn \cup {x} BY DEF IssueConsoleCode
  <2> HIDE DEF x
  <2> QED BY <1>0, <2>2, <2>3, <2>4, <2>5 DEF SignInInv, CodesWereEarned
<1> QED BY <1>0, <1>4, <1>5, <1>7, <1>8, <1>9, <1>10, AwayType
        DEF SignInInv, SignInType, LinksAreOwners

\* An administrator makes a local account, or switches an account off.
LEMMA AdminInv ==
  ASSUME SignInInv, NEW e \in Spellings, ProvisionLocal(e) \/ SwitchOff(e)
  PROVE  SignInInv'
<1>1. UNCHANGED <<txn, visit, fedLink, codes, signedIn>> BY DEF ProvisionLocal, SwitchOff
<1>2. PICK a \in Account : /\ account' = [account EXCEPT ![e] = a]
                           /\ \/ account[e] = NoOne /\ a.owner = "local"
                              \/ account[e] # NoOne /\ a.owner = account[e].owner
  <2>1. CASE ProvisionLocal(e)
    <3> DEFINE a == [owner |-> "local", active |-> TRUE]
    <3>1. a \in Account /\ a.owner = "local" BY DEF Account
    <3>2. account' = [account EXCEPT ![e] = a] /\ account[e] = NoOne BY <2>1 DEF ProvisionLocal
    <3> HIDE DEF a
    <3> QED BY <3>1, <3>2
  <2>2. CASE SwitchOff(e)
    <3>1. account[e] \in Account /\ account[e] # NoOne BY <2>2 DEF SwitchOff, SignInInv, SignInType
    <3>2. [account[e] EXCEPT !.active = FALSE] \in Account
          /\ [account[e] EXCEPT !.active = FALSE].owner = account[e].owner
      BY <3>1 DEF Account
    <3>3. account' = [account EXCEPT ![e] = [account[e] EXCEPT !.active = FALSE]]
      BY <2>2 DEF SwitchOff
    <3> QED BY <3>1, <3>2, <3>3
  <2> QED BY <2>1, <2>2
<1>3. /\ account' \in [Spellings -> Account \cup {NoOne}]
      /\ account'[e] = a /\ \A s \in Spellings : s # e => account'[s] = account[s]
  BY <1>2 DEF SignInInv, SignInType
<1>4. a # NoOne BY SignInAssumption DEF Account
<1>5. LinksAreOwners'
  <2>1. ASSUME NEW p \in People, fedLink[p] # NoOne
        PROVE  account'[fedLink[p]] # NoOne /\ account'[fedLink[p]].owner = p
    <3>1. fedLink[p] \in Spellings /\ account[fedLink[p]] # NoOne /\ account[fedLink[p]].owner = p
      BY <2>1 DEF SignInInv, SignInType, LinksAreOwners
    <3> QED BY <1>2, <1>3, <1>4, <3>1
  <2>2. ASSUME NEW s \in Spellings, NEW p \in People, account'[s] # NoOne, account'[s].owner = p
        PROVE  fedLink[p] = s
    <3>1. p # "local" BY SignInAssumption
    <3>2. account[s] # NoOne /\ account[s].owner = p BY <1>2, <1>3, <2>2, <3>1
    <3> QED BY <3>2 DEF SignInInv, LinksAreOwners
  <2> QED BY <1>1, <2>1, <2>2 DEF LinksAreOwners
<1>6. RootsStarted' /\ OneCarrier'
  BY <1>1 DEF SignInInv, RootsStarted, OneCarrier, Holds, RootOf
<1> QED BY <1>1, <1>3, <1>5, <1>6 DEF SignInInv, SignInType, RoundsSettle, Who, CodesWereEarned

LEMMA SignInNext == SignInInv /\ [SNext]_svars => SignInInv'
<1> SUFFICES ASSUME SignInInv, [SNext]_svars PROVE SignInInv'
  OBVIOUS
<1>1. ASSUME NEW v \in Visits, TurnedAway(v) \/ RefuseClash(v) PROVE SignInInv'
  BY <1>1, LeaveInv DEF TurnedAway, RefuseClash
<1>2. ASSUME NEW v \in Visits,
             FindLink(v) \/ FindActiveUser(v) \/ EmailHeldLocally(v) \/ RecheckLink(v)
      PROVE  SignInInv'
  <2>1. UNCHANGED <<txn, account, fedLink, codes, signedIn>>
    BY <1>2 DEF FindLink, FindActiveUser, EmailHeldLocally, RecheckLink
  <2> QED BY <1>2, <2>1, ResolveInv
<1>3. ASSUME NEW v \in Visits, Provision(v) PROVE SignInInv'
  <2>1. CASE account[Email(v)] = NoOne /\ fedLink[Who(v)] = NoOne BY <1>3, <2>1, ProvisionInv
  <2>2. CASE ~ (account[Email(v)] = NoOne /\ fedLink[Who(v)] = NoOne)
    <3>1. UNCHANGED <<account, fedLink>> /\ UNCHANGED <<txn, codes, signedIn>>
      BY <1>3, <2>2, Zenon DEF Provision
    <3> QED BY <1>3, <3>1, ResolveInv
  <2> QED BY <2>1, <2>2
<1>4. CASE UNCHANGED svars
  <2>1. UNCHANGED <<txn, visit, account, fedLink, codes, signedIn>> BY <1>4 DEF svars
  <2> QED BY <2>1 DEF SignInInv, SignInType, RootsStarted, OneCarrier, Holds, RootOf,
                      LinksAreOwners, RoundsSettle, Who, CodesWereEarned
<1> QED BY <1>1, <1>2, <1>3, <1>4, TxnInv, ConsumeInv, CompleteInv, IssueInv, AdminInv DEF SNext

\* Sign-in keeps its books: one carrier per start, links and accounts made
\* together (consume_transaction, resolve_user, issue_console_code).
THEOREM SignInInvariance == SSpec => []SignInInv
<1>1. SInit => SignInInv
  <2> SUFFICES ASSUME SInit PROVE SignInInv
    OBVIOUS
  <2>1. /\ \A l \in Logins : txn[l] = Unused /\ codes[l] = 0
        /\ \A v \in Visits : visit[v] = Away /\ ~ Holds(v)
        /\ \A e \in Spellings : account[e] = NoOne
        /\ \A p \in People : fedLink[p] = NoOne
    BY DEF SInit, Holds, Naming, Away
  <2>2. Unused \in Txn /\ Unused.life = "none" BY DEF Unused, Txn
  <2>3. SignInType BY <2>2, AwayType DEF SInit, SignInType
  <2>4. RootsStarted /\ OneCarrier BY <2>1, <2>2, AwayType DEF RootsStarted, OneCarrier
  <2>5. LinksAreOwners /\ RoundsSettle BY <2>1, AwayType DEF LinksAreOwners, RoundsSettle, Naming
  <2> QED BY <2>3, <2>4, <2>5 DEF SignInInv, CodesWereEarned, SInit
<1> QED BY <1>1, SignInNext, PTL DEF SSpec

\* A start is worth one console code, and a code is for the person the
\* provider named, in the group, with a second factor, in the account made
\* for that person (complete_login, resolve_user).
THEOREM SignedInOnceAsSelf == SSpec => []SignedInAsSelf
<1>1. SignInInv => SignedInAsSelf
  <2> SUFFICES ASSUME SignInInv PROVE SignedInAsSelf
    OBVIOUS
  <2>1. \A l \in Logins : codes[l] <= 1 BY DEF SignInInv, OneCarrier
  <2>2. \A r \in signedIn : /\ r.claims.who \in People /\ r.claims.group /\ r.claims.mfa
                            /\ r.user \in Spellings /\ fedLink[r.claims.who] = r.user
    BY DEF SignInInv, CodesWereEarned, ClaimSets
  <2>3. \A r \in signedIn : account[r.user].owner = r.claims.who
    BY <2>2, SignInAssumption DEF SignInInv, LinksAreOwners
  <2> QED BY <2>1, <2>2, <2>3 DEF SignedInAsSelf
<1> QED BY <1>1, SignInInvariance, PTL

\* Only the second look at the link reports a clash.
LEMMA ClashStep ==
  ASSUME SignInInv, SNext, NEW v \in Visits, visit[v].pc # "clash", visit'[v].pc = "clash"
  PROVE  RecheckLink(v) /\ fedLink[Who(v)] = NoOne
<1>1. visit \in [Visits -> Visit] BY DEF SignInInv, SignInType
<1>2. visit' # visit OBVIOUS
<1>3. PICK w \in Visits :
        \/ \E l \in Logins : LookUp(w, l)
        \/ Consume(w) \/ TurnedAway(w) \/ Complete(w)
        \/ FindLink(w) \/ FindActiveUser(w) \/ EmailHeldLocally(w) \/ RecheckLink(w)
        \/ Provision(w) \/ RefuseClash(w) \/ IssueConsoleCode(w)
  BY <1>2 DEF SNext, StartLogin, TxnExpires, ReapExpired, ProvisionLocal, SwitchOff
<1>4. ASSUME NEW x PROVE Goto(w, x) => visit'[w].pc = x /\ \A u \in Visits : u # w => visit'[u] = visit[u]
  BY <1>1 DEF Goto, Visit
<1>5. Leave(w) => visit'[w].pc = "away" /\ \A u \in Visits : u # w => visit'[u] = visit[u]
  BY <1>1, AwayType DEF Leave
<1>6. ASSUME NEW x, NEW n, visit' = [visit EXCEPT ![w].pc = x, ![w].round = n]
      PROVE  visit'[w].pc = x /\ \A u \in Visits : u # w => visit'[u] = visit[u]
  BY <1>1, <1>6 DEF Visit
<1>7. NextRound(w) => visit'[w].pc # "clash" /\ \A u \in Visits : u # w => visit'[u] = visit[u]
  <2>1. CASE visit[w].round = 2 BY <1>4, <2>1 DEF NextRound
  <2>2. CASE visit[w].round # 2 BY <1>6, <2>2 DEF NextRound
  <2> QED BY <2>1, <2>2
<1>8. RecheckLink(w) /\ w = v /\ fedLink[Who(w)] = NoOne
  <2>1. CASE \E l \in Logins : LookUp(w, l) BY <1>1, <2>1 DEF LookUp, Away
  <2>2. CASE Consume(w)
    <3>1. Goto(w, "consumed") \/ Leave(w) BY <2>2 DEF Consume
    <3> QED BY <1>4, <1>5, <3>1
  <2>3. CASE TurnedAway(w) \/ RefuseClash(w) \/ IssueConsoleCode(w)
    BY <1>5, <2>3 DEF TurnedAway, RefuseClash, IssueConsoleCode
  <2>4. CASE Complete(w)
    <3>1. Leave(w) \/ \E c : visit' = [visit EXCEPT ![w].pc = "resolve", ![w].claims = c, ![w].round = 1]
      BY <2>4 DEF Complete, BeginRetry
    <3>2. ASSUME NEW c, visit' = [visit EXCEPT ![w].pc = "resolve", ![w].claims = c, ![w].round = 1]
          PROVE  visit'[w].pc = "resolve" /\ \A u \in Visits : u # w => visit'[u] = visit[u]
      BY <1>1, <3>2 DEF Visit
    <3> QED BY <1>5, <3>1, <3>2
  <2>5. CASE FindLink(w)
    <3>1. \/ Leave(w) \/ Goto(w, "scan")
          \/ visit' = [visit EXCEPT ![w].pc = "linked", ![w].user = fedLink[Who(w)]]
      BY <2>5 DEF FindLink
    <3>2. ASSUME NEW u, visit' = [visit EXCEPT ![w].pc = "linked", ![w].user = u]
          PROVE  visit'[w].pc = "linked" /\ \A z \in Visits : z # w => visit'[z] = visit[z]
      BY <1>1, <3>2 DEF Visit
    <3> QED BY <1>4, <1>5, <3>1, <3>2
  <2>6. CASE FindActiveUser(w) \/ EmailHeldLocally(w)
    <3>1. Leave(w) \/ Goto(w, "issue") \/ Goto(w, "held") \/ Goto(w, "insert")
      BY <2>6 DEF FindActiveUser, EmailHeldLocally
    <3> QED BY <1>4, <1>5, <3>1
  <2>7. CASE RecheckLink(w)
    <3>1. (fedLink[Who(w)] = NoOne /\ Goto(w, "clash")) \/ NextRound(w) BY <2>7 DEF RecheckLink
    <3> QED BY <1>4, <1>7, <2>7, <3>1
  <2>8. CASE Provision(w)
    <3>1. \/ Goto(w, "held") \/ NextRound(w)
          \/ visit' = [visit EXCEPT ![w].pc = "issue", ![w].user = Email(w)]
      BY <2>8, Zenon DEF Provision
    <3>2. ASSUME NEW u, visit' = [visit EXCEPT ![w].pc = "issue", ![w].user = u]
          PROVE  visit'[w].pc = "issue" /\ \A z \in Visits : z # w => visit'[z] = visit[z]
      BY <1>1, <3>2 DEF Visit
    <3> QED BY <1>4, <1>7, <3>1, <3>2
  <2> QED BY <1>3, <2>1, <2>2, <2>3, <2>4, <2>5, <2>6, <2>7, <2>8
<1> QED BY <1>8

\* Two first sign-ins of one person never refuse each other, and the second
\* round always settles (resolve_user's loop).
THEOREM OwnRaceSettles == SSpec => OwnRaceIsNotAClash
<1> DEFINE Good == \A v \in Visits :
             /\ visit'[v].pc # "exhausted"
             /\ visit[v].pc # "clash" /\ visit'[v].pc = "clash" =>
                  \A s \in Holders(Email(v)) : account[s].owner # Who(v)
<1>1. SignInInv /\ [SNext]_svars => [Good]_svars
  <2> SUFFICES ASSUME SignInInv, SNext PROVE Good
    OBVIOUS
  <2>1. ASSUME NEW v \in Visits PROVE visit'[v].pc # "exhausted"
    <3>1. visit'[v] \in Visit BY SignInNext DEF SignInInv, SignInType
    <3> QED BY <3>1 DEF Visit, Naming
  <2>2. ASSUME NEW v \in Visits, visit[v].pc # "clash", visit'[v].pc = "clash",
               NEW s \in Holders(Email(v))
        PROVE  account[s].owner # Who(v)
    <3>1. visit[v].pc = "held" /\ fedLink[Who(v)] = NoOne BY <2>2, ClashStep DEF RecheckLink
    <3>2. Who(v) \in People BY <3>1 DEF SignInInv, RoundsSettle, Naming, Who, ClaimSets
    <3>3. s \in Spellings /\ account[s] # NoOne /\ s # NoOne
      BY <2>2, SignInAssumption DEF Holders
    <3> QED BY <3>1, <3>2, <3>3 DEF SignInInv, LinksAreOwners
  <2> QED BY <2>1, <2>2
<1> QED BY <1>1, SignInInvariance, PTL DEF SSpec, OwnRaceIsNotAClash

-----------------------------------------------------------------------------
(* Signing keys, with one operator that rotates them at a time.  A key     *)
(* that signs is published for an Overlap from when it was last seen to be *)
(* active: by the ring, by a load that has just read it.  A token signed   *)
(* with it lasts no longer than that when the ring is fresh, and the ring  *)
(* is when no refresh was missed.                                          *)

\* Two rotations at once could retire each other's key (see README.md).
OneOperator == \A o, p \in Rotators : o = p

KeyRow == [made : BOOLEAN, active : BOOLEAN, until : Int]
Rotation == [pc : {"rest", "made", "retire"}, key : Int, todo : SUBSET SigKeys]
Ring == [sign : SigKeys, keys : SUBSET SigKeys, due : Int, asof : Int, missed : BOOLEAN]
Loads == {"refresh"} \cup Doors
Loading == [pc : {"rest", "queued", "reading", "loaded", "half"}, kid : Int, sign : Int,
            keys : SUBSET SigKeys]
TokenRecord == [kid : SigKeys, exp : Int, fresh : BOOLEAN]

KeysType ==
  /\ sigkey \in [SigKeys -> KeyRow]
  /\ rotation \in [Rotators -> Rotation]
  /\ ring \in [Servers -> Ring]
  /\ loader \in [Servers -> [Loads -> Loading]]
  /\ minted \subseteq TokenRecord
  /\ keyClock \in Nat

\* Key k is published up to the instant e.
Lasts(k, e) == k \in SigKeys /\ sigkey[k].made /\ (sigkey[k].active \/ sigkey[k].until >= e)

\* What a rotation creates is not what it retires.
RotationKeepsOne ==
  /\ ActiveKeys # {}
  /\ \A o \in Rotators : rotation[o].pc # "rest" =>
       rotation[o].key \in ActiveKeys /\ rotation[o].key \notin rotation[o].todo

\* The refresh of a process is under way, as far as its ring can tell.
Refreshing(s) == loader[s]["refresh"].pc \in {"reading", "loaded", "half"}

\* The keys of a ring are read again an interval after they were, unless a
\* refresh was missed.
OnTime(s) ==
  /\ ring[s].due <= keyClock + Refresh /\ ring[s].asof <= keyClock
  /\ ~ ring[s].missed => /\ keyClock <= ring[s].asof + Refresh
                         /\ ~ Refreshing(s) => ring[s].due <= ring[s].asof + Refresh
RefreshOnTime == \A s \in Servers : OnTime(s)

RingsPublished == \A s \in Servers : Lasts(ring[s].sign, ring[s].asof + Overlap)
LoadsPublished ==
  \A s \in Servers : \A x \in Loads :
    loader[s][x].pc \in {"loaded", "half"} => Lasts(loader[s][x].sign, keyClock + Overlap)
TokensPublished ==
  \A t \in minted : /\ keyClock < t.exp /\ t.exp <= keyClock + TokenTtl
                    /\ t.fresh => Lasts(t.kid, t.exp)

KeyInv ==
  KeysType /\ RotationKeepsOne /\ RefreshOnTime /\ RingsPublished /\ LoadsPublished /\ TokensPublished

LEMMA KeyNumbers ==
  /\ Overlap \in Nat /\ Refresh \in Nat /\ TokenTtl \in Nat /\ Refresh > 0 /\ TokenTtl > 0
  /\ Overlap > Refresh + TokenTtl /\ MaxKeys \in Nat /\ MaxKeys > 0
BY OverlapAssumption

LEMMA NewestIsOne ==
  ASSUME NEW S \in SUBSET SigKeys, S # {}
  PROVE  NewestFirst(S) \in S
<1> DEFINE T == {MaxKeys - k : k \in S}
<1>1. T \subseteq Nat /\ T # {}
  <2>1. \A k \in S : MaxKeys - k \in Nat BY KeyNumbers DEF SigKeys
  <2> QED BY <2>1
<1>2. PICK x \in T : \A y \in T : ~ (<<y, x>> \in OpToRel(<, Nat))
  BY <1>1, NatLessThanWellFounded, WFMin
<1>3. \A y \in T : x <= y
  <2> TAKE y \in T
  <2>1. x \in Nat /\ y \in Nat BY <1>1
  <2>2. ~ (y < x) BY <1>2, <2>1 DEF OpToRel
  <2> QED BY <2>1, <2>2
<1>4. PICK k \in S : x = MaxKeys - k BY <1>2
<1>5. \A j \in S : j <= k
  <2> TAKE j \in S
  <2>1. MaxKeys - j \in T OBVIOUS
  <2>2. j \in Nat /\ k \in Nat BY DEF SigKeys
  <2> QED BY <1>3, <1>4, <2>1, <2>2, KeyNumbers
<1> QED BY <1>5 DEF NewestFirst

\* A step of the key rows that leaves every key published as long as it may
\* have to be.
LEMMA KeyRowsMove ==
  ASSUME KeyInv, UNCHANGED <<ring, loader, minted, keyClock>>,
         \A k \in SigKeys, e \in Int : Lasts(k, e) /\ e <= keyClock + Overlap => Lasts(k, e)'
  PROVE  RefreshOnTime' /\ RingsPublished' /\ LoadsPublished' /\ TokensPublished'
<1>1. RefreshOnTime' BY DEF KeyInv, RefreshOnTime, OnTime, Refreshing
<1>2. RingsPublished'
  <2> SUFFICES ASSUME NEW s \in Servers PROVE Lasts(ring[s].sign, ring[s].asof + Overlap)'
    BY DEF RingsPublished
  <2>1. ring[s] \in Ring /\ keyClock \in Nat BY DEF KeyInv, KeysType
  <2>2. PICK k \in SigKeys : k = ring[s].sign BY <2>1 DEF Ring
  <2>3. ring[s].asof \in Int /\ ring[s].asof <= keyClock
    BY <2>1 DEF Ring, KeyInv, RefreshOnTime, OnTime
  <2>4. PICK e \in Int : e = ring[s].asof + Overlap /\ e <= keyClock + Overlap
    BY <2>1, <2>3, KeyNumbers
  <2>5. Lasts(k, e) BY <2>2, <2>4 DEF KeyInv, RingsPublished
  <2>6. Lasts(k, e)' BY <2>4, <2>5
  <2> QED BY <2>2, <2>4, <2>6 DEF Lasts
<1>3. LoadsPublished'
  <2> SUFFICES ASSUME NEW s \in Servers, NEW x \in Loads, loader[s][x].pc \in {"loaded", "half"}
               PROVE  Lasts(loader[s][x].sign, keyClock + Overlap)'
    BY DEF LoadsPublished
  <2>1. Lasts(loader[s][x].sign, keyClock + Overlap) BY DEF KeyInv, LoadsPublished
  <2>2. PICK k \in SigKeys : k = loader[s][x].sign BY <2>1 DEF Lasts
  <2>3. PICK e \in Int : e = keyClock + Overlap BY KeyNumbers DEF KeyInv, KeysType
  <2>4. Lasts(k, e)' BY <2>1, <2>2, <2>3
  <2> QED BY <2>2, <2>3, <2>4 DEF Lasts
<1>4. TokensPublished'
  <2> SUFFICES ASSUME NEW t \in minted
               PROVE  keyClock < t.exp /\ t.exp <= keyClock + TokenTtl /\ (t.fresh => Lasts(t.kid, t.exp)')
    BY DEF TokensPublished
  <2>1. t \in TokenRecord BY DEF KeyInv, KeysType
  <2>2. PICK k \in SigKeys, e \in Int : k = t.kid /\ e = t.exp BY <2>1 DEF TokenRecord
  <2>3. keyClock < t.exp /\ t.exp <= keyClock + TokenTtl /\ (t.fresh => Lasts(k, e))
    BY <2>2 DEF KeyInv, TokensPublished
  <2>4. keyClock \in Int BY DEF KeyInv, KeysType
  <2>5. t.fresh => Lasts(k, e)' BY <2>2, <2>3, <2>4, KeyNumbers
  <2> QED BY <2>2, <2>3, <2>5 DEF Lasts
<1> QED BY <1>1, <1>2, <1>3, <1>4

\* What may become of a ring and of the load x that touches it.
RingMay(s, x, r, g) ==
  /\ g.due <= keyClock + Refresh /\ g.asof <= keyClock
  /\ ~ g.missed => keyClock <= g.asof + Refresh
  /\ ~ g.missed /\ (IF x = "refresh" THEN r.pc \notin {"reading", "loaded", "half"}
                    ELSE ~ Refreshing(s)) => g.due <= g.asof + Refresh
  /\ Lasts(g.sign, g.asof + Overlap)

\* A step of one load, with what it does to its process's ring.
LEMMA LoadMoves ==
  ASSUME KeyInv, NEW s \in Servers, NEW x \in Loads, NEW r \in Loading, NEW g \in Ring,
         loader' = [loader EXCEPT ![s][x] = r], ring' = [ring EXCEPT ![s] = g],
         UNCHANGED <<sigkey, rotation, minted, keyClock>>,
         r.pc \in {"loaded", "half"} => Lasts(r.sign, keyClock + Overlap),
         RingMay(s, x, r, g)
  PROVE  KeyInv'
<1>1. /\ loader' \in [Servers -> [Loads -> Loading]]
      /\ loader'[s][x] = r
      /\ \A z \in Servers, y \in Loads : (z # s \/ y # x) => loader'[z][y] = loader[z][y]
  BY DEF KeyInv, KeysType
<1>2. ring' \in [Servers -> Ring] /\ ring'[s] = g /\ \A z \in Servers : z # s => ring'[z] = ring[z]
  BY DEF KeyInv, KeysType
<1>3. KeysType' BY <1>1, <1>2 DEF KeyInv, KeysType
<1>4. RotationKeepsOne' BY DEF KeyInv, RotationKeepsOne, ActiveKeys
<1>r. "refresh" \in Loads BY DEF Loads
<1>5. RefreshOnTime'
  <2> SUFFICES ASSUME NEW z \in Servers PROVE OnTime(z)' BY DEF RefreshOnTime
  <2>1. CASE z = s
    <3>1. Refreshing(s)' <=> IF x = "refresh" THEN r.pc \in {"reading", "loaded", "half"} ELSE Refreshing(s)
      BY <1>1, <1>r DEF Refreshing
    <3> QED BY <1>2, <2>1, <3>1 DEF OnTime, RingMay
  <2>2. CASE z # s
    <3>1. Refreshing(z)' <=> Refreshing(z) BY <1>1, <1>r, <2>2 DEF Refreshing
    <3>2. OnTime(z) /\ ring'[z] = ring[z] BY <1>2, <2>2 DEF KeyInv, RefreshOnTime
    <3> QED BY <3>1, <3>2 DEF OnTime
  <2> QED BY <2>1, <2>2
<1>7. RingsPublished'
  <2> SUFFICES ASSUME NEW z \in Servers PROVE Lasts(ring'[z].sign, ring'[z].asof + Overlap)
    BY DEF RingsPublished, Lasts
  <2> QED BY <1>2 DEF RingMay, KeyInv, RingsPublished
<1>8. LoadsPublished'
  <2> SUFFICES ASSUME NEW z \in Servers, NEW y \in Loads, loader'[z][y].pc \in {"loaded", "half"}
               PROVE  Lasts(loader'[z][y].sign, keyClock + Overlap)
    BY DEF LoadsPublished, Lasts
  <2>1. CASE z = s /\ y = x BY <1>1, <2>1
  <2>2. CASE z # s \/ y # x BY <1>1, <2>2 DEF KeyInv, LoadsPublished
  <2> QED BY <2>1, <2>2
<1>9. TokensPublished' BY DEF KeyInv, TokensPublished, Lasts
<1> QED BY <1>3, <1>4, <1>5, <1>7, <1>8, <1>9 DEF KeyInv

\* What is known of a ring and its key.
LEMMA RingLasts ==
  ASSUME KeyInv, NEW s \in Servers
  PROVE  /\ ring[s] \in Ring /\ keyClock \in Nat
         /\ ring[s].due \in Int /\ ring[s].due <= keyClock + Refresh
         /\ ring[s].asof \in Int /\ ring[s].asof <= keyClock
         /\ ~ ring[s].missed => keyClock <= ring[s].asof + Refresh
         /\ Lasts(ring[s].sign, ring[s].asof + Overlap)
<1>1. ring[s] \in Ring /\ keyClock \in Nat BY DEF KeyInv, KeysType
<1>2. ring[s].due \in Int /\ ring[s].asof \in Int BY <1>1 DEF Ring
<1>3. OnTime(s) /\ Lasts(ring[s].sign, ring[s].asof + Overlap) BY DEF KeyInv, RefreshOnTime, RingsPublished
<1> QED BY <1>1, <1>2, <1>3 DEF OnTime

\* A load that does not sign anything new, and is not the end of a refresh
\* unless that was missed.
LEMMA QuietLoad ==
  ASSUME KeyInv, NEW s \in Servers, NEW x \in Loads, NEW r \in Loading, NEW g \in Ring,
         loader' = [loader EXCEPT ![s][x] = r], ring' = [ring EXCEPT ![s] = g],
         UNCHANGED <<sigkey, rotation, minted, keyClock>>,
         g.sign = ring[s].sign, g.asof = ring[s].asof, g.due <= keyClock + Refresh,
         ring[s].missed => g.missed, x = "refresh" \/ g.due = ring[s].due,
         r.pc \in {"loaded", "half"} => Lasts(r.sign, keyClock + Overlap),
         x = "refresh" => r.pc \in {"reading", "loaded", "half"} \/ g.missed
  PROVE  KeyInv'
<1>1. OnTime(s) /\ Lasts(ring[s].sign, ring[s].asof + Overlap) BY DEF KeyInv, RefreshOnTime, RingsPublished
<1>2. RingMay(s, x, r, g) BY <1>1 DEF RingMay, OnTime
<1> QED BY <1>2, LoadMoves

LEMMA LoadingEdits ==
  ASSUME NEW y \in Loading, NEW p \in {"queued", "reading", "half"}, NEW i \in Int,
         NEW k \in SigKeys, NEW S \in SUBSET SigKeys
  PROVE  /\ [y EXCEPT !.pc = p] \in Loading /\ [y EXCEPT !.pc = p].pc = p
         /\ [y EXCEPT !.pc = p].sign = y.sign
         /\ [y EXCEPT !.pc = p, !.kid = i] \in Loading /\ [y EXCEPT !.pc = p, !.kid = i].pc = p
         /\ [y EXCEPT !.pc = "loaded", !.sign = k, !.keys = S] \in Loading
         /\ [y EXCEPT !.pc = "loaded", !.sign = k, !.keys = S].sign = k
<1>1. k \in Int BY DEF SigKeys
<1> QED BY <1>1 DEF Loading

LEMMA QueuedType ==
  ASSUME NEW y \in Loading, NEW i \in Int
  PROVE  /\ [y EXCEPT !.pc = "queued", !.kid = i] \in Loading
         /\ [y EXCEPT !.pc = "queued", !.kid = i].pc = "queued"
BY DEF Loading

LEMMA RestingType == Resting \in Loading /\ Resting.pc = "rest"
BY DEF Resting, Loading

\* The refresh and the loads.
LEMMA LoadInv ==
  ASSUME KeyInv, NEW s \in Servers, NEW x \in Loads,
         \/ x = "refresh" /\ RefreshTick(s)
         \/ LoadSigningKeys(s, x) \/ ReloadFails(s, x) \/ PublishKeySet(s, x) \/ PublishTokens(s, x)
  PROVE  KeyInv'
<1>0. /\ loader[s][x] \in Loading /\ ring[s] \in Ring /\ keyClock \in Nat
      /\ loader \in [Servers -> [Loads -> Loading]] /\ ring \in [Servers -> Ring]
  BY DEF KeyInv, KeysType
<1>1. ring[s].due \in Int /\ ring[s].due <= keyClock + Refresh BY RingLasts
<1>2. CASE x = "refresh" /\ RefreshTick(s)
  <2> DEFINE r == [loader[s][x] EXCEPT !.pc = "reading"]
             g == [ring[s] EXCEPT !.due = ring[s].due + Refresh]
  <2>1. r \in Loading /\ r.pc = "reading" BY <1>0 DEF Loading
  <2>2. /\ g \in Ring /\ g.sign = ring[s].sign /\ g.asof = ring[s].asof /\ g.missed = ring[s].missed
        /\ g.due = ring[s].due + Refresh
    <3>1. ring[s].due + Refresh \in Int BY <1>1, KeyNumbers
    <3> QED BY <1>0, <3>1 DEF Ring
  <2>3. /\ loader' = [loader EXCEPT ![s][x] = r] /\ ring' = [ring EXCEPT ![s] = g]
        /\ UNCHANGED <<sigkey, rotation, minted, keyClock>> /\ ring[s].due <= keyClock
    BY <1>2 DEF RefreshTick
  <2> HIDE DEF r, g
  <2>6. g.due <= keyClock + Refresh BY <1>0, <1>1, <2>2, <2>3, KeyNumbers
  <2>7. r.pc \notin {"loaded", "half"} BY <2>1
  <2> QED BY <1>2, <2>1, <2>2, <2>3, <2>6, <2>7, QuietLoad
<1>3. CASE LoadSigningKeys(s, x)
  <2>1. ActiveKeys # {} /\ ActiveKeys \in SUBSET SigKeys /\ PublishedKeys \in SUBSET SigKeys
    BY DEF KeyInv, RotationKeepsOne, ActiveKeys, PublishedKeys
  <2>2. PICK k \in ActiveKeys : k = NewestFirst(ActiveKeys) BY <2>1, NewestIsOne
  <2>3. k \in SigKeys /\ Lasts(k, keyClock + Overlap) BY <2>2 DEF ActiveKeys, Lasts
  <2> DEFINE r == [loader[s][x] EXCEPT !.pc = "loaded", !.sign = k, !.keys = PublishedKeys]
  <2>4. r \in Loading /\ r.sign = k /\ r.pc = "loaded" BY <1>0, <2>1, <2>3, LoadingEdits, ZenonT(30) DEF Loading
  <2>5. /\ loader' = [loader EXCEPT ![s][x] = r] /\ ring' = [ring EXCEPT ![s] = ring[s]]
        /\ UNCHANGED <<sigkey, rotation, minted, keyClock>>
    BY <1>0, <1>3, <2>1, <2>2 DEF LoadSigningKeys
  <2> HIDE DEF r
  <2> QED BY <1>0, <1>1, <2>3, <2>4, <2>5, QuietLoad
<1>4. CASE PublishKeySet(s, x)
  <2> DEFINE r == [loader[s][x] EXCEPT !.pc = "half"]
             g == [ring[s] EXCEPT !.keys = loader[s][x].keys]
  <2>1. r \in Loading /\ r.pc = "half" /\ r.sign = loader[s][x].sign BY <1>0 DEF Loading
  <2>2. /\ g \in Ring /\ g.sign = ring[s].sign /\ g.due = ring[s].due
        /\ g.asof = ring[s].asof /\ g.missed = ring[s].missed
    <3>1. loader[s][x].keys \in SUBSET SigKeys BY <1>0 DEF Loading
    <3> QED BY <1>0, <3>1 DEF Ring
  <2>3. /\ loader' = [loader EXCEPT ![s][x] = r] /\ ring' = [ring EXCEPT ![s] = g]
        /\ UNCHANGED <<sigkey, rotation, minted, keyClock>> /\ loader[s][x].pc = "loaded"
    BY <1>4 DEF PublishKeySet
  <2>4. Lasts(r.sign, keyClock + Overlap) BY <2>1, <2>3 DEF KeyInv, LoadsPublished
  <2> HIDE DEF r, g
  <2> QED BY <1>1, <2>1, <2>2, <2>3, <2>4, QuietLoad
<1>5. CASE PublishTokens(s, x)
  <2>1. loader[s][x].pc = "half" BY <1>5 DEF PublishTokens
  <2>2. Lasts(loader[s][x].sign, keyClock + Overlap) BY <2>1 DEF KeyInv, LoadsPublished
  <2>3. PICK k \in SigKeys : k = loader[s][x].sign BY <2>2 DEF Lasts
  <2> DEFINE g == [ring[s] EXCEPT !.sign = k, !.asof = keyClock, !.missed = FALSE]
  <2>4. g \in Ring /\ g.sign = k /\ g.due = ring[s].due /\ g.asof = keyClock
    <3>1. keyClock \in Int BY <1>0
    <3> QED BY <1>0, <3>1 DEF Ring
  <2>5. /\ loader' = [loader EXCEPT ![s][x] = Resting] /\ ring' = [ring EXCEPT ![s] = g]
        /\ UNCHANGED <<sigkey, rotation, minted, keyClock>>
    BY <1>5, <2>3 DEF PublishTokens
  <2> HIDE DEF g
  <2>6. RingMay(s, x, Resting, g) BY <1>0, <1>1, <2>2, <2>3, <2>4, KeyNumbers DEF RingMay
  <2> QED BY <2>4, <2>5, <2>6, RestingType, LoadMoves
<1>6. CASE ReloadFails(s, x)
  <2> DEFINE g == [ring[s] EXCEPT !.missed = ring[s].missed \/ x = "refresh"]
  <2>1. /\ g \in Ring /\ g.sign = ring[s].sign /\ g.due = ring[s].due /\ g.asof = ring[s].asof
        /\ g.missed = (ring[s].missed \/ x = "refresh")
    BY <1>0 DEF Ring
  <2>2. /\ loader' = [loader EXCEPT ![s][x] = Resting] /\ ring' = [ring EXCEPT ![s] = g]
        /\ UNCHANGED <<sigkey, rotation, minted, keyClock>>
    BY <1>6 DEF ReloadFails
  <2> HIDE DEF g
  <2> QED BY <1>1, <2>1, <2>2, RestingType, QuietLoad
<1> QED BY <1>2, <1>3, <1>4, <1>5, <1>6

\* A door that meets a key it does not know.
LEMMA DoorInv ==
  ASSUME KeyInv, NEW s \in Servers, NEW d \in Doors,
         (\E kid \in 0 .. MaxKeys : UnknownKid(s, d, kid)) \/ KeyFor(s, d)
  PROVE  KeyInv'
<1>0. d \in Loads /\ d # "refresh" BY OverlapAssumption DEF Loads
<1>1. /\ loader[s][d] \in Loading /\ ring[s] \in Ring /\ ring \in [Servers -> Ring]
      /\ loader \in [Servers -> [Loads -> Loading]]
  BY <1>0 DEF KeyInv, KeysType
<1>2. /\ UNCHANGED <<sigkey, rotation, minted, keyClock>> /\ ring' = [ring EXCEPT ![s] = ring[s]]
  BY <1>1 DEF UnknownKid, KeyFor
<1>3. PICK r \in Loading : loader' = [loader EXCEPT ![s][d] = r] /\ r.pc \in {"rest", "queued", "reading"}
  <2>1. ASSUME NEW kid \in 0 .. MaxKeys, UnknownKid(s, d, kid)
        PROVE  loader' = [loader EXCEPT ![s][d] = [loader[s][d] EXCEPT !.pc = "queued", !.kid = kid]]
    BY <1>0, <1>1, <2>1 DEF UnknownKid
  <2>2. \A kid \in Int : /\ [loader[s][d] EXCEPT !.pc = "queued", !.kid = kid] \in Loading
                        /\ [loader[s][d] EXCEPT !.pc = "queued", !.kid = kid].pc = "queued"
    BY <1>1, QueuedType
  <2>3. CASE \E kid \in 0 .. MaxKeys : UnknownKid(s, d, kid) 
    <3>1. PICK kid \in 0 .. MaxKeys : UnknownKid(s, d, kid) BY <2>3
    <3>2. kid \in Int OBVIOUS
    <3> QED BY <2>1, <2>2, <3>1, <3>2
  <2>4. CASE KeyFor(s, d)
    <3>1. /\ [loader[s][d] EXCEPT !.pc = "reading"] \in Loading
          /\ [loader[s][d] EXCEPT !.pc = "reading"].pc = "reading"
      BY <1>1 DEF Loading
    <3>2. \/ loader' = [loader EXCEPT ![s][d] = Resting]
          \/ loader' = [loader EXCEPT ![s][d] = [loader[s][d] EXCEPT !.pc = "reading"]]
      BY <2>4 DEF KeyFor, StartReload
    <3> QED BY <3>1, <3>2, RestingType
  <2> QED BY <2>3, <2>4
<1>4. ring[s].due <= keyClock + Refresh /\ r.pc \notin {"loaded", "half"} BY <1>3, RingLasts
<1> QED BY <1>0, <1>1, <1>2, <1>3, <1>4, QuietLoad

\* The operator's rotation.
LEMMA RotationInv ==
  ASSUME KeyInv, OneOperator, NEW o \in Rotators,
         CreateKey(o) \/ ReadPrevious(o) \/ Retire(o) \/ EndRotation(o)
  PROVE  KeyInv'
<1>0. /\ sigkey \in [SigKeys -> KeyRow] /\ rotation \in [Rotators -> Rotation] /\ keyClock \in Nat
      /\ \A p \in Rotators : p = o
  BY DEF KeyInv, KeysType, OneOperator
<1>1. /\ ActiveKeys # {}
      /\ rotation[o].pc # "rest" => rotation[o].key \in ActiveKeys /\ rotation[o].key \notin rotation[o].todo
  BY DEF KeyInv, RotationKeepsOne
<1>2. SUFFICES
        /\ UNCHANGED <<ring, loader, minted, keyClock>>
        /\ sigkey' \in [SigKeys -> KeyRow] /\ rotation' \in [Rotators -> Rotation]
        /\ \A k \in SigKeys, e \in Int : Lasts(k, e) /\ e <= keyClock + Overlap => Lasts(k, e)'
        /\ ActiveKeys' # {}
        /\ rotation'[o].pc # "rest" =>
             rotation'[o].key \in ActiveKeys' /\ rotation'[o].key \notin rotation'[o].todo
  <2>1. KeysType' BY <1>2 DEF KeyInv, KeysType
  <2>2. RotationKeepsOne' BY <1>0, <1>2 DEF RotationKeepsOne
  <2>3. RefreshOnTime' /\ RingsPublished' /\ LoadsPublished' /\ TokensPublished'
    BY <1>2, KeyRowsMove
  <2> QED BY <2>1, <2>2, <2>3 DEF KeyInv
<1>3. CASE CreateKey(o)
  <2>1. PICK k \in SigKeys :
          /\ ~ sigkey[k].made
          /\ sigkey' = [sigkey EXCEPT ![k] = ActiveKey]
          /\ rotation' = [rotation EXCEPT ![o] = [NoRotation EXCEPT !.pc = "made", !.key = k]]
    BY <1>3 DEF CreateKey
  <2>2. UNCHANGED <<ring, loader, minted, keyClock>> BY <1>3 DEF CreateKey
  <2>3. ActiveKey \in KeyRow /\ ActiveKey.made /\ ActiveKey.active BY DEF ActiveKey, KeyRow
  <2>4. /\ sigkey' \in [SigKeys -> KeyRow] /\ sigkey'[k] = ActiveKey
        /\ \A j \in SigKeys : j # k => sigkey'[j] = sigkey[j]
    BY <1>0, <2>1, <2>3
  <2> DEFINE r == [NoRotation EXCEPT !.pc = "made", !.key = k]
  <2>5. r \in Rotation /\ r.key = k /\ r.todo = {}
    <3>1. k \in Int BY DEF SigKeys
    <3> QED BY <3>1 DEF NoRotation, Rotation
  <2>6. rotation' \in [Rotators -> Rotation] /\ rotation'[o] = r
    <3>1. rotation' = [rotation EXCEPT ![o] = r] BY <2>1
    <3> HIDE DEF r
    <3> QED BY <1>0, <2>5, <3>1
  <2> HIDE DEF r
  <2>7. \A j \in SigKeys, e \in Int : Lasts(j, e) => Lasts(j, e)' BY <2>1, <2>4 DEF Lasts
  <2>8. k \in ActiveKeys' BY <2>3, <2>4 DEF ActiveKeys
  <2> QED BY <2>2, <2>4, <2>5, <2>6, <2>7, <2>8
<1>4. CASE ReadPrevious(o)
  <2> DEFINE r == [rotation[o] EXCEPT !.pc = "retire", !.todo = ActiveKeys \ {rotation[o].key}]
  <2>1. /\ rotation[o].pc = "made" /\ rotation' = [rotation EXCEPT ![o] = r]
        /\ UNCHANGED <<sigkey, ring, loader, minted, keyClock>>
    BY <1>4 DEF ReadPrevious
  <2>2. ActiveKeys \ {rotation[o].key} \in SUBSET SigKeys /\ rotation[o] \in Rotation
    BY <1>0 DEF ActiveKeys
  <2>3. r \in Rotation /\ r.key = rotation[o].key /\ r.todo = ActiveKeys \ {rotation[o].key}
    BY <2>2 DEF Rotation
  <2> HIDE DEF r
  <2>4. rotation' \in [Rotators -> Rotation] /\ rotation'[o] = r BY <1>0, <2>1, <2>3
  <2>5. ActiveKeys' = ActiveKeys BY <2>1 DEF ActiveKeys
  <2>6. \A k \in SigKeys, e \in Int : Lasts(k, e) => Lasts(k, e)' BY <2>1 DEF Lasts
  <2> QED BY <1>0, <1>1, <2>1, <2>3, <2>4, <2>5, <2>6
<1>5. CASE Retire(o)
  <2>1. PICK k \in rotation[o].todo :
          /\ sigkey' = [sigkey EXCEPT ![k].active = FALSE, ![k].until = keyClock + Overlap]
          /\ rotation' = [rotation EXCEPT ![o].todo = @ \ {k}]
    BY <1>5 DEF Retire
  <2>2. rotation[o].pc = "retire" /\ UNCHANGED <<ring, loader, minted, keyClock>> BY <1>5 DEF Retire
  <2>3. rotation[o] \in Rotation /\ k \in SigKeys BY <1>0, <2>1 DEF Rotation
  <2> DEFINE r == [rotation[o] EXCEPT !.todo = rotation[o].todo \ {k}]
             retired == [sigkey[k] EXCEPT !.active = FALSE, !.until = keyClock + Overlap]
  <2>4. r \in Rotation /\ r.key = rotation[o].key /\ r.todo = rotation[o].todo \ {k} BY <2>3 DEF Rotation
  <2>5. retired \in KeyRow /\ retired.made = sigkey[k].made /\ retired.until = keyClock + Overlap
    <3>1. sigkey[k] \in KeyRow /\ keyClock + Overlap \in Int BY <1>0, <2>3, KeyNumbers
    <3> QED BY <3>1 DEF KeyRow
  <2>6. rotation' = [rotation EXCEPT ![o] = r] /\ sigkey' = [sigkey EXCEPT ![k] = retired] BY <2>1
  <2> HIDE DEF r, retired
  <2>7. rotation' \in [Rotators -> Rotation] /\ rotation'[o] = r BY <1>0, <2>4, <2>6
  <2>8. /\ sigkey' \in [SigKeys -> KeyRow] /\ sigkey'[k] = retired
        /\ \A j \in SigKeys : j # k => sigkey'[j] = sigkey[j]
    BY <1>0, <2>3, <2>5, <2>6
  <2>9. \A j \in SigKeys, e \in Int : Lasts(j, e) /\ e <= keyClock + Overlap => Lasts(j, e)'
    BY <2>5, <2>8 DEF Lasts
  <2>10. rotation[o].key \in ActiveKeys' BY <1>1, <2>1, <2>2, <2>8 DEF ActiveKeys
  <2> QED BY <1>1, <2>2, <2>4, <2>7, <2>8, <2>9, <2>10
<1>6. CASE EndRotation(o)
  <2>1. /\ rotation' = [rotation EXCEPT ![o] = NoRotation]
        /\ UNCHANGED <<sigkey, ring, loader, minted, keyClock>>
    BY <1>6 DEF EndRotation
  <2>2. NoRotation \in Rotation /\ NoRotation.pc = "rest" BY DEF NoRotation, Rotation
  <2>3. rotation' \in [Rotators -> Rotation] /\ rotation'[o] = NoRotation BY <1>0, <2>1, <2>2
  <2>4. ActiveKeys' = ActiveKeys BY <2>1 DEF ActiveKeys
  <2>5. \A k \in SigKeys, e \in Int : Lasts(k, e) => Lasts(k, e)' BY <2>1 DEF Lasts
  <2> QED BY <1>0, <1>1, <2>1, <2>2, <2>3, <2>4, <2>5
<1> QED BY <1>3, <1>4, <1>5, <1>6

\* A token is signed with the ring's key.
LEMMA MintInv ==
  ASSUME KeyInv, NEW s \in Servers, Mint(s)
  PROVE  KeyInv'
<1> DEFINE tok == [kid |-> ring[s].sign, exp |-> keyClock + TokenTtl, fresh |-> RingFresh(s)]
<1>1. minted' = minted \cup {tok} /\ UNCHANGED <<sigkey, rotation, ring, loader, keyClock>>
  BY DEF Mint
<1>2. ring[s].sign \in SigKeys /\ keyClock \in Nat /\ keyClock + TokenTtl \in Int
  BY RingLasts, KeyNumbers DEF Ring
<1>3. /\ tok \in TokenRecord /\ tok.kid = ring[s].sign /\ tok.exp = keyClock + TokenTtl
      /\ tok.fresh = RingFresh(s)
  BY <1>2 DEF TokenRecord, RingFresh
<1> HIDE DEF tok
<1>5. KeysType' BY <1>1, <1>3 DEF KeyInv, KeysType
<1>6. /\ ring[s].asof \in Int /\ Lasts(ring[s].sign, ring[s].asof + Overlap)
      /\ sigkey[ring[s].sign].until \in Int
  BY <1>2, RingLasts DEF KeyInv, KeysType, KeyRow
<1>7. RingFresh(s) => tok.exp <= ring[s].asof + Overlap BY <1>3 DEF RingFresh
<1>8. tok.fresh => Lasts(tok.kid, tok.exp) BY <1>2, <1>3, <1>6, <1>7, KeyNumbers DEF Lasts
<1>9. keyClock < tok.exp /\ tok.exp <= keyClock + TokenTtl BY <1>2, <1>3, KeyNumbers
<1>10. TokensPublished' BY <1>1, <1>8, <1>9 DEF KeyInv, TokensPublished, Lasts
<1>11. RotationKeepsOne' /\ RefreshOnTime'
  BY <1>1 DEF KeyInv, RotationKeepsOne, RefreshOnTime, OnTime, Refreshing, ActiveKeys
<1>12. RingsPublished' /\ LoadsPublished'
  BY <1>1 DEF KeyInv, RingsPublished, LoadsPublished, Lasts
<1> QED BY <1>5, <1>10, <1>11, <1>12 DEF KeyInv

\* Time passes when nothing it makes older is in between.
LEMMA KTickInv ==
  ASSUME KeyInv, KTick
  PROVE  KeyInv'
<1>0. /\ keyClock \in Nat /\ keyClock' = keyClock + 1
      /\ minted' = {t \in minted : t.exp > keyClock'}
      /\ UNCHANGED <<sigkey, rotation, loader>>
      /\ \A s \in Servers :
           /\ loader[s]["refresh"].pc = "reading" \/ ring[s].due > keyClock
           /\ \A x \in Loads : loader[s][x].pc \notin {"loaded", "half"}
  BY DEF KTick, KeyInv, KeysType, Loads
<1>r. /\ ring' \in [Servers -> Ring]
      /\ \A s \in Servers :
           /\ ring'[s].sign = ring[s].sign /\ ring'[s].due = ring[s].due /\ ring'[s].asof = ring[s].asof
           /\ ring'[s].missed = (ring[s].missed \/ loader[s]["refresh"].pc = "reading")
  <2>1. ASSUME NEW s \in Servers, NEW b \in BOOLEAN
        PROVE  /\ [ring[s] EXCEPT !.missed = b] \in Ring /\ [ring[s] EXCEPT !.missed = b].sign = ring[s].sign
               /\ [ring[s] EXCEPT !.missed = b].due = ring[s].due
               /\ [ring[s] EXCEPT !.missed = b].asof = ring[s].asof /\ [ring[s] EXCEPT !.missed = b].missed = b
    BY DEF KeyInv, KeysType, Ring
  <2>2. ring' = [s \in Servers |->
                   [ring[s] EXCEPT !.missed = ring[s].missed \/ loader[s]["refresh"].pc = "reading"]]
    BY DEF KTick
  <2>3. \A s \in Servers : (ring[s].missed \/ loader[s]["refresh"].pc = "reading") \in BOOLEAN OBVIOUS
  <2> QED BY <2>1, <2>2, <2>3
<1>1. KeysType' BY <1>0, <1>r DEF KeyInv, KeysType
<1>2. RotationKeepsOne' BY <1>0 DEF KeyInv, RotationKeepsOne, ActiveKeys
<1>3. RefreshOnTime'
  <2> SUFFICES ASSUME NEW s \in Servers PROVE OnTime(s)' BY DEF RefreshOnTime
  <2>1. /\ OnTime(s) /\ ring[s].due \in Int /\ ring[s].asof \in Int
        /\ loader[s]["refresh"].pc \notin {"loaded", "half"}
    BY <1>0, RingLasts DEF KeyInv, RefreshOnTime, Loads
  <2>2. ring'[s].due <= keyClock' + Refresh /\ ring'[s].asof <= keyClock'
    BY <1>0, <1>r, <2>1, KeyNumbers DEF OnTime
  <2>3. ASSUME ~ ring'[s].missed
        PROVE  keyClock' <= ring'[s].asof + Refresh /\ ring'[s].due <= ring'[s].asof + Refresh
    <3>1. ~ Refreshing(s) /\ ~ ring[s].missed /\ ring[s].due > keyClock
      BY <1>0, <1>r, <2>1, <2>3 DEF Refreshing
    <3>2. ring[s].due <= ring[s].asof + Refresh BY <2>1, <3>1 DEF OnTime
    <3> QED BY <1>0, <1>r, <2>1, <3>1, <3>2, KeyNumbers
  <2> QED BY <2>2, <2>3 DEF OnTime
<1>4. RingsPublished' BY <1>0, <1>r DEF KeyInv, RingsPublished, Lasts
<1>5. LoadsPublished' BY <1>0 DEF LoadsPublished
<1>6. TokensPublished'
  <2> SUFFICES ASSUME NEW t \in minted, t.exp > keyClock'
               PROVE  keyClock' < t.exp /\ t.exp <= keyClock' + TokenTtl /\ (t.fresh => Lasts(t.kid, t.exp))
    BY <1>0 DEF TokensPublished, Lasts
  <2>1. t.exp \in Int BY DEF KeyInv, KeysType, TokenRecord
  <2>2. t.exp <= keyClock + TokenTtl /\ (t.fresh => Lasts(t.kid, t.exp)) BY DEF KeyInv, TokensPublished
  <2> QED BY <1>0, <2>1, <2>2, KeyNumbers
<1> QED BY <1>1, <1>2, <1>3, <1>4, <1>5, <1>6 DEF KeyInv

LEMMA KeyInit == KInit => KeyInv
<1> SUFFICES ASSUME KInit PROVE KeyInv OBVIOUS
<1>0. 1 \in SigKeys /\ 0 \notin SigKeys BY KeyNumbers DEF SigKeys
<1>1. ActiveKey \in KeyRow /\ AbsentKey \in KeyRow /\ ActiveKey.made /\ ActiveKey.active
  BY DEF ActiveKey, AbsentKey, KeyRow
<1>2. NoRotation \in Rotation /\ NoRotation.pc = "rest" BY DEF NoRotation, Rotation
<1>3. \A s \in Servers : /\ ring[s] \in Ring /\ ring[s].sign = 1 /\ ring[s].due = Refresh
                         /\ ring[s].asof = 0
  BY <1>0, KeyNumbers DEF KInit, Ring
<1>4. keyClock = 0 /\ minted = {} BY DEF KInit
<1>5. KeysType
  <2>1. sigkey \in [SigKeys -> KeyRow] BY <1>1 DEF KInit
  <2>2. rotation \in [Rotators -> Rotation] BY <1>2 DEF KInit
  <2>3. ring \in [Servers -> Ring] BY <1>0, KeyNumbers DEF KInit, Ring
  <2>4. loader \in [Servers -> [Loads -> Loading]] BY RestingType DEF KInit, Loads
  <2> QED BY <1>4, <2>1, <2>2, <2>3, <2>4 DEF KeysType
<1>6. sigkey[1] = ActiveKey BY <1>0 DEF KInit
<1>7. RotationKeepsOne BY <1>0, <1>1, <1>2, <1>6 DEF KInit, RotationKeepsOne, ActiveKeys
<1>8. RefreshOnTime BY <1>3, <1>4, KeyNumbers DEF RefreshOnTime, OnTime
<1>9. RingsPublished BY <1>0, <1>1, <1>3, <1>6 DEF RingsPublished, Lasts
<1>10. LoadsPublished BY RestingType DEF KInit, LoadsPublished, Loads
<1>11. TokensPublished BY <1>4 DEF TokensPublished
<1> QED BY <1>5, <1>7, <1>8, <1>9, <1>10, <1>11 DEF KeyInv

LEMMA KeyStep ==
  ASSUME KeyInv, OneOperator, [KNext]_kvars
  PROVE  KeyInv'
<1>1. CASE UNCHANGED kvars
  BY <1>1 DEF kvars, KeyInv, KeysType, RotationKeepsOne, RefreshOnTime, RingsPublished, LoadsPublished,
              TokensPublished, Lasts, OnTime, Refreshing, ActiveKeys
<1>2. CASE KNext
  <2>1. ASSUME NEW o \in Rotators, CreateKey(o) \/ ReadPrevious(o) \/ Retire(o) \/ EndRotation(o)
        PROVE  KeyInv'
    BY <2>1, RotationInv
  <2>2. ASSUME NEW s \in Servers,
               \/ RefreshTick(s)
               \/ \E x \in Loads : \/ LoadSigningKeys(s, x) \/ ReloadFails(s, x)
                                   \/ PublishKeySet(s, x) \/ PublishTokens(s, x)
        PROVE  KeyInv'
    <3>1. "refresh" \in Loads BY DEF Loads
    <3> QED BY <2>2, <3>1, LoadInv
  <2>3. ASSUME NEW s \in Servers, NEW d \in Doors,
               (\E kid \in 0 .. MaxKeys : UnknownKid(s, d, kid)) \/ KeyFor(s, d)
        PROVE  KeyInv'
    BY <2>3, DoorInv
  <2>4. ASSUME NEW s \in Servers, Mint(s) PROVE KeyInv' BY <2>4, MintInv
  <2>5. CASE KTick BY <2>5, KTickInv
  <2> QED BY <1>2, <2>1, <2>2, <2>3, <2>4, <2>5, Zenon DEF KNext, Loads
<1> QED BY <1>1, <1>2

\* The keys of the provider: with one operator who rotates at a time, KeyInv
\* always holds of rotate_signing_key, the refresh and the forced reloads, failed
\* and slow ones included.
THEOREM KeyInvariance ==
  ASSUME OneOperator
  PROVE  KSpec => []KeyInv
<1>1. KeyInv /\ [KNext]_kvars => KeyInv' BY KeyStep
<1> QED BY <1>1, KeyInit, PTL DEF KSpec

\* A token that has not expired was signed with a key the database still
\* publishes, when the key was read within the overlap less a token's life; and
\* it was as long as no refresh was missed, for every overlap the configuration
\* accepts (rotation_overlap_secs > refresh_interval_secs + ACCESS_TOKEN_TTL_SECS).
THEOREM TokensOutliveRotation ==
  ASSUME OneOperator
  PROVE  KSpec => []LiveTokensVerify
<1>1. ASSUME KeyInv, NEW t \in minted, t.fresh PROVE t.kid \in PublishedKeys
  <2>1. t \in TokenRecord /\ keyClock \in Nat BY <1>1 DEF KeyInv, KeysType
  <2>2. t.exp \in Int /\ t.kid \in SigKeys BY <2>1 DEF TokenRecord
  <2>3. keyClock < t.exp /\ Lasts(t.kid, t.exp) BY <1>1 DEF KeyInv, TokensPublished
  <2>4. sigkey[t.kid].until \in Int BY <1>1, <2>2 DEF KeyInv, KeysType, KeyRow
  <2> QED BY <2>1, <2>2, <2>3, <2>4 DEF Lasts, PublishedKeys
<1>2. ASSUME KeyInv, NEW s \in Servers, ~ ring[s].missed PROVE RingFresh(s)
  BY <1>2, RingLasts, KeyNumbers DEF RingFresh
<1>3. KeyInv => LiveTokensVerify BY <1>1, <1>2 DEF LiveTokensVerify
<1> QED BY <1>3, KeyInvariance, PTL

-----------------------------------------------------------------------------
(* Signers.  A client's key has an owner from the start, so a client that  *)
(* is created with the pairing scope has none.  What is read is as old as  *)
(* its lookup is slow, what is cached no older than its age besides.       *)

SignerKey == [owner : Owners, revoked : BOOLEAN, left : Nat, by : {"caller", "operator"}]
Held == [val : Standing, age : Nat, old : Nat]
LookupOf == [stage : {"look", "fetch", "store", "served"}, door : {"signed", "token"},
             key : Keys \cup {None}, who : Owners, aim : {"users", "other"}, rounds : Nat,
             guard : BOOLEAN, val : Standing \cup {None}, old : Nat, spent : Nat]

RegistryType ==
  /\ row \in [Owners -> Row \cup {None}]
  /\ key \in [Keys -> SignerKey \cup {None}]
  /\ cli \in [user : Users, key : ConsoleKeys] \cup {None}

UsersUnscoped == \A u \in Users : row[u] # None => row[u].scopes = {}
KeysHaveOwners ==
  \A k \in ClientKeys : key[k] # None => key[k].owner \in Clients /\ row[key[k].owner] # None

RegistryInv == RegistryType /\ UsersUnscoped /\ KeysHaveOwners /\ PairingKeysAreOperators

\* A standing v as it is given to owner o.
Unscoped(o, v) == v \in Standing /\ (o \in Users => v.scopes = {})

CacheInv ==
  /\ cache \in [Owners -> Held \cup {None}]
  /\ \A o \in Owners : cache[o] # None =>
       Unscoped(o, cache[o].val) /\ cache[o].old <= cache[o].age + FetchTime

Sound(r) ==
  /\ r \in LookupOf
  /\ r.stage \in {"look", "fetch"} => r.old = 0 /\ r.spent = 0
  /\ r.stage = "store" => r.old <= r.spent /\ r.spent <= FetchTime /\ Unscoped(r.who, r.val)
  /\ r.stage = "served" =>
       /\ r.old < StandingTtl + FetchTime
       /\ r.door = "token" => r.val.role \notin DeviceOnlyRoles /\ "pair" \notin r.val.scopes

RequestsInv ==
  /\ req = [q \in Requests |-> req[q]]
  /\ \A q \in Requests : req[q] = Idle \/ req[q] = Ended \/ Sound(req[q])

SignerInv == RegistryInv /\ CacheInv /\ RequestsInv

LEMMA SignerNumbers ==
  StandingTtl \in Nat /\ StandingTtl > 0 /\ FetchTime \in Nat /\ KeyLife \in Nat /\ KeyLife > 0
BY SignersAssumption

LEMMA NewRows ==
  /\ \A role \in Roles : [live |-> TRUE, role |-> role, scopes |-> {}] \in Row
  /\ \A S \in Scopes : NewClient(S) \in Row /\ NewClient(S).scopes = S /\ NewClient(S) # None
  /\ \A r \in Row : r # None
  /\ \A role \in UserRoles : role \in Roles
<1>1. \A r \in Row : r # None BY NoneAssumption
<1>2. \A S \in Scopes : NewClient(S) \in Row /\ NewClient(S).scopes = S BY DEF NewClient, Row, Roles
<1>3. {} \in Scopes BY DEF Scopes
<1>4. \A role \in Roles : [live |-> TRUE, role |-> role, scopes |-> {}] \in Row BY <1>3 DEF Row
<1> QED BY <1>1, <1>2, <1>4 DEF Roles

LEMMA NewKeys ==
  /\ \A c \in Clients, by \in {"caller", "operator"} :
       /\ NewClientKey(c, by) \in SignerKey
       /\ NewClientKey(c, by).owner = c /\ NewClientKey(c, by).by = by
  /\ \A u \in Users : NewConsoleKey(u) \in SignerKey
BY SignerNumbers DEF NewClientKey, NewConsoleKey, SignerKey, Owners

\* A step of the registry: a client keeps its row and gets no pairing scope
\* it did not have, and a client's key is one that was there or is new.
LEMMA RegistryMoves ==
  ASSUME RegistryInv, RegistryType',
         \A u \in Users : row'[u] # None => row'[u].scopes = {},
         \A c \in Clients : row[c] # None =>
            row'[c] # None /\ ("pair" \in row'[c].scopes => "pair" \in row[c].scopes),
         \A k \in ClientKeys :
            \/ key'[k] = None
            \/ key[k] # None /\ key'[k].owner = key[k].owner /\ key'[k].by = key[k].by
            \/ /\ key'[k].owner \in Clients /\ row'[key'[k].owner] # None
               /\ key'[k].by = "operator" \/ "pair" \notin row'[key'[k].owner].scopes
  PROVE  RegistryInv'
<1>1. UsersUnscoped' BY DEF UsersUnscoped
<1>2. KeysHaveOwners' BY DEF RegistryInv, KeysHaveOwners
<1>3. PairingKeysAreOperators' BY DEF RegistryInv, KeysHaveOwners, PairingKeysAreOperators
<1> QED BY <1>1, <1>2, <1>3 DEF RegistryInv

LEMMA RegistryStill ==
  ASSUME RegistryInv, UNCHANGED <<row, key>>, cli' \in [user : Users, key : ConsoleKeys] \cup {None}
  PROVE  RegistryInv'
BY DEF RegistryInv, RegistryType, UsersUnscoped, KeysHaveOwners, PairingKeysAreOperators

\* One row is written.
LEMMA RowWritten ==
  ASSUME RegistryInv, NEW o \in Owners, NEW r \in Row, row' = [row EXCEPT ![o] = r],
         UNCHANGED <<key, cli>>,
         o \in Users => r.scopes = {},
         row[o] # None /\ o \in Clients => ("pair" \in r.scopes => "pair" \in row[o].scopes)
  PROVE  RegistryInv'
<1>1. /\ row' \in [Owners -> Row \cup {None}] /\ row'[o] = r
      /\ \A x \in Owners : x # o => row'[x] = row[x]
  BY DEF RegistryInv, RegistryType
<1>2. RegistryType' BY <1>1 DEF RegistryInv, RegistryType
<1>3. r # None BY NewRows
<1>4. \A u \in Users : row'[u] # None => row'[u].scopes = {}
  BY <1>1 DEF RegistryInv, UsersUnscoped, Owners
<1>5. \A c \in Clients : row[c] # None =>
         row'[c] # None /\ ("pair" \in row'[c].scopes => "pair" \in row[c].scopes)
  BY <1>1, <1>3 DEF Owners
<1> QED BY <1>2, <1>4, <1>5, RegistryMoves

\* One key is written.
LEMMA KeyWritten ==
  ASSUME RegistryInv, NEW k \in Keys, NEW r \in SignerKey, key' = [key EXCEPT ![k] = r],
         row' = row, cli' \in [user : Users, key : ConsoleKeys] \cup {None},
         k \in ClientKeys =>
           \/ key[k] # None /\ r.owner = key[k].owner /\ r.by = key[k].by
           \/ /\ r.owner \in Clients /\ row[r.owner] # None
              /\ r.by = "operator" \/ "pair" \notin row[r.owner].scopes
  PROVE  RegistryInv'
<1>1. /\ key' \in [Keys -> SignerKey \cup {None}] /\ key'[k] = r
      /\ \A x \in Keys : x # k => key'[x] = key[x]
  BY DEF RegistryInv, RegistryType
<1>2. RegistryType' BY <1>1 DEF RegistryInv, RegistryType
<1>3. \A u \in Users : row'[u] # None => row'[u].scopes = {} BY DEF RegistryInv, UsersUnscoped
<1>4. \A x \in ClientKeys :
        \/ key'[x] = None
        \/ key[x] # None /\ key'[x].owner = key[x].owner /\ key'[x].by = key[x].by
        \/ /\ key'[x].owner \in Clients /\ row'[key'[x].owner] # None
           /\ key'[x].by = "operator" \/ "pair" \notin row'[key'[x].owner].scopes
  <2> TAKE x \in ClientKeys
  <2>1. x \in Keys BY DEF Keys
  <2>2. CASE x = k BY <1>1, <2>2
  <2>3. CASE x # k BY <1>1, <2>1, <2>3
  <2> QED BY <2>2, <2>3
<1> QED BY <1>2, <1>3, <1>4, RegistryMoves

LEMMA RowEdits ==
  ASSUME NEW r \in Row, NEW live \in BOOLEAN, NEW role \in Roles
  PROVE  /\ [r EXCEPT !.live = live, !.role = role] \in Row
         /\ [r EXCEPT !.live = live, !.role = role].scopes = r.scopes
BY DEF Row

LEMMA KeyEdits ==
  ASSUME NEW r \in SignerKey, NEW n \in Nat
  PROVE  /\ [r EXCEPT !.revoked = TRUE] \in SignerKey
         /\ [r EXCEPT !.revoked = TRUE].owner = r.owner /\ [r EXCEPT !.revoked = TRUE].by = r.by
         /\ [r EXCEPT !.left = n] \in SignerKey
BY DEF SignerKey

LEMMA KeyKinds == ClientKeys \cap ConsoleKeys = {} /\ Clients \cap Users = {}
BY SignersAssumption

\* client_keys::register, by an API caller or by the operator.
LEMMA RegisterInv ==
  ASSUME RegistryInv, NEW c \in Clients, NEW k \in ClientKeys, NEW by \in {"caller", "operator"},
         RegisterClientKey(c, k, by), UNCHANGED <<row, cli>>
  PROVE  RegistryInv'
<1>1. CASE key[k] = None
  <2>1. key' = [key EXCEPT ![k] = NewClientKey(c, by)] BY <1>1 DEF RegisterClientKey
  <2>2. row[c] # None /\ (by = "operator" \/ "pair" \notin row[c].scopes) BY DEF RegisterClientKey
  <2>3. k \in Keys /\ cli' \in [user : Users, key : ConsoleKeys] \cup {None}
    BY DEF Keys, RegistryInv, RegistryType
  <2>4. PICK r \in SignerKey : r = NewClientKey(c, by) /\ r.owner = c /\ r.by = by BY NewKeys
  <2>5. /\ r.owner \in Clients /\ row[r.owner] # None
        /\ r.by = "operator" \/ "pair" \notin row[r.owner].scopes
    BY <2>2, <2>4
  <2>6. key' = [key EXCEPT ![k] = r] /\ row' = row BY <2>1, <2>4
  <2> QED BY <2>3, <2>5, <2>6, KeyWritten
<1>2. CASE key[k] # None
  <2>1. key' = key BY <1>2 DEF RegisterClientKey
  <2> QED BY <2>1, RegistryStill DEF RegistryInv, RegistryType
<1> QED BY <1>1, <1>2

\* The operations of a served request.
LEMMA OperateInv ==
  ASSUME RegistryInv, NEW q \in Requests, Operate(q)
  PROVE  RegistryInv'
<1>0. /\ row \in [Owners -> Row \cup {None}] /\ key \in [Keys -> SignerKey \cup {None}]
      /\ cli \in [user : Users, key : ConsoleKeys] \cup {None}
  BY DEF RegistryInv, RegistryType
<1>1. ASSUME NEW u \in Users, NEW live \in BOOLEAN, NEW role \in UserRoles, PatchUser(q, u, live, role)
      PROVE  RegistryInv'
  <2>1. row' = [row EXCEPT ![u] = [row[u] EXCEPT !.live = live, !.role = role]] /\ UNCHANGED <<key, cli>>
    BY <1>1 DEF PatchUser
  <2>2. u \in Owners /\ row[u] # None BY <1>1 DEF PatchUser, Owners
  <2>3. row[u] \in Row /\ role \in Roles /\ row[u].scopes = {} /\ u \notin Clients
    BY <1>0, <2>2, NewRows, KeyKinds DEF RegistryInv, UsersUnscoped
  <2>4. {} \in Scopes BY DEF Scopes
  <2> DEFINE r == [row[u] EXCEPT !.live = live, !.role = role]
  <2>5. r \in Row /\ r.scopes = {} BY <2>3, <2>4, RowEdits
  <2> HIDE DEF r
  <2>6. row' = [row EXCEPT ![u] = r] BY <2>1 DEF r
  <2> QED BY <2>1, <2>2, <2>3, <2>5, <2>6, RowWritten
<1>2. ASSUME NEW u \in Users, NEW role \in UserRoles, ProvisionUser(q, u, role)
      PROVE  RegistryInv'
  <2> DEFINE r == [live |-> TRUE, role |-> role, scopes |-> {}]
  <2>1. row' = [row EXCEPT ![u] = r] /\ UNCHANGED <<key, cli>> BY <1>2 DEF ProvisionUser
  <2>2. r \in Row /\ r.scopes = {} /\ u \in Owners /\ u \notin Clients
    BY NewRows, KeyKinds DEF Owners
  <2> HIDE DEF r
  <2> QED BY <2>1, <2>2, RowWritten
<1>3. ASSUME NEW c \in Clients, NEW live \in BOOLEAN, NEW S \in Scopes, PatchClient(q, c, live, S)
      PROVE  RegistryInv'
  <2>1. /\ row' = [row EXCEPT ![c] = [row[c] EXCEPT !.live = live, !.scopes = S]] /\ UNCHANGED <<key, cli>>
        /\ row[c] # None /\ (S = row[c].scopes \/ "pair" \notin S)
    BY <1>3 DEF PatchClient
  <2>2. c \in Owners /\ c \notin Users BY KeyKinds DEF Owners
  <2>3. row[c] \in Row /\ "app" \in Roles BY <1>0, <2>1, <2>2 DEF Roles
  <2> DEFINE r == [row[c] EXCEPT !.live = live, !.scopes = S]
  <2>4. r \in Row /\ r.scopes = S BY <2>3 DEF Row
  <2> HIDE DEF r
  <2>5. row' = [row EXCEPT ![c] = r] BY <2>1 DEF r
  <2> QED BY <2>1, <2>2, <2>4, <2>5, RowWritten
<1>4. ASSUME NEW c \in Clients, NEW k \in ClientKeys, NEW S \in Scopes, ProvisionAppClient(q, c, k, S)
      PROVE  RegistryInv'
  <2>1. /\ row' = [row EXCEPT ![c] = NewClient(S)] /\ key' = [key EXCEPT ![k] = NewClientKey(c, "caller")]
        /\ "pair" \notin S /\ row[c] = None /\ cli' = cli
    BY <1>4 DEF ProvisionAppClient
  <2>2. c \in Owners /\ k \in Keys /\ c \notin Users BY KeyKinds DEF Owners, Keys
  <2>3. /\ NewClient(S) \in Row /\ NewClient(S).scopes = S /\ NewClient(S) # None
        /\ NewClientKey(c, "caller") \in SignerKey /\ NewClientKey(c, "caller").owner = c
    BY NewRows, NewKeys
  <2>4. /\ row' \in [Owners -> Row \cup {None}] /\ row'[c] = NewClient(S)
        /\ \A x \in Owners : x # c => row'[x] = row[x]
    BY <1>0, <2>1, <2>2, <2>3
  <2>5. /\ key' \in [Keys -> SignerKey \cup {None}] /\ key'[k] = NewClientKey(c, "caller")
        /\ \A x \in Keys : x # k => key'[x] = key[x]
    BY <1>0, <2>1, <2>2, <2>3
  <2>6. RegistryType' BY <1>0, <2>1, <2>4, <2>5 DEF RegistryType
  <2>7. \A u \in Users : row'[u] # None => row'[u].scopes = {}
    BY <2>2, <2>4 DEF RegistryInv, UsersUnscoped, Owners
  <2>8. \A x \in Clients : row[x] # None =>
           row'[x] # None /\ ("pair" \in row'[x].scopes => "pair" \in row[x].scopes)
    BY <2>1, <2>4 DEF Owners
  <2>9. \A x \in ClientKeys : x = k \/ key'[x] = key[x] BY <2>5 DEF Keys
  <2>10. /\ key'[k].owner \in Clients /\ row'[key'[k].owner] # None
         /\ "pair" \notin row'[key'[k].owner].scopes
    BY <2>1, <2>3, <2>4, <2>5
  <2>11. \A x \in ClientKeys :
        \/ key'[x] = None
        \/ key[x] # None /\ key'[x].owner = key[x].owner /\ key'[x].by = key[x].by
        \/ /\ key'[x].owner \in Clients /\ row'[key'[x].owner] # None
           /\ key'[x].by = "operator" \/ "pair" \notin row'[key'[x].owner].scopes
    <3> TAKE x \in ClientKeys
    <3>1. CASE x = k BY <2>10, <3>1
    <3>2. CASE x # k BY <2>9, <3>2
    <3> QED BY <3>1, <3>2
  <2> QED BY <2>6, <2>7, <2>8, <2>11, RegistryMoves
<1>5. ASSUME NEW c \in Clients, NEW k \in ClientKeys, RegisterAppClientKey(q, c, k)
      PROVE  RegistryInv'
  BY <1>5, RegisterInv DEF RegisterAppClientKey
<1>6. ASSUME NEW k \in Keys, Revoke(q, k) PROVE RegistryInv'
  <2>1. /\ key' = [key EXCEPT ![k] = [key[k] EXCEPT !.revoked = TRUE]] /\ key[k] # None
        /\ UNCHANGED <<row, cli>>
    BY <1>6 DEF Revoke
  <2>2. key[k] \in SignerKey BY <1>0, <2>1
  <2> DEFINE r == [key[k] EXCEPT !.revoked = TRUE]
  <2>3. r \in SignerKey /\ r.owner = key[k].owner /\ r.by = key[k].by BY <2>2, KeyEdits
  <2> HIDE DEF r
  <2>4. key' = [key EXCEPT ![k] = r] BY <2>1 DEF r
  <2> QED BY <1>0, <2>1, <2>3, <2>4, KeyWritten
<1>7. ASSUME NEW p \in Persons, NEW k \in ConsoleKeys, NEW u \in Users, RegisterConsoleKey(q, p, k, u)
      PROVE  RegistryInv'
  <2>1. key' = [key EXCEPT ![k] = NewConsoleKey(u)] /\ cli' = cli BY <1>7 DEF RegisterConsoleKey
  <2>2. k \in Keys /\ k \notin ClientKeys /\ u \in Owners /\ u \notin Clients
    BY KeyKinds DEF Keys, Owners
  <2> DEFINE r == [live |-> TRUE, role |-> "admin", scopes |-> {}]
  <2>3. r \in Row /\ r.scopes = {} BY NewRows DEF Roles
  <2>4. row' = row \/ row' = [row EXCEPT ![u] = r] BY <1>7 DEF RegisterConsoleKey
  <2> HIDE DEF r
  <2>5. row' \in [Owners -> Row \cup {None}] /\ \A x \in Owners : x = u \/ row'[x] = row[x]
    BY <1>0, <2>3, <2>4
  <2>6. /\ key' \in [Keys -> SignerKey \cup {None}] /\ \A x \in Keys : x # k => key'[x] = key[x]
    BY <1>0, <2>1, <2>2, NewKeys
  <2>7. RegistryType' BY <1>0, <2>1, <2>5, <2>6 DEF RegistryType
  <2>8. \A x \in Users : row'[x] # None => row'[x].scopes = {}
    <3>1. row'[u] = row[u] \/ row'[u] = r BY <1>0, <2>2, <2>4
    <3> QED BY <2>3, <2>5, <3>1 DEF RegistryInv, UsersUnscoped, Owners
  <2>9. \A c \in Clients : row'[c] = row[c] BY <2>2, <2>5 DEF Owners
  <2>10. \A x \in ClientKeys : key'[x] = key[x] BY <2>2, <2>6 DEF Keys
  <2> QED BY <2>7, <2>8, <2>9, <2>10, RegistryMoves
<1> QED BY <1>1, <1>2, <1>3, <1>4, <1>5, <1>6, <1>7 DEF Operate

\* The operator's commands.
LEMMA CommandInv ==
  ASSUME RegistryInv, Command
  PROVE  RegistryInv'
<1>0. /\ row \in [Owners -> Row \cup {None}] /\ key \in [Keys -> SignerKey \cup {None}]
      /\ cli \in [user : Users, key : ConsoleKeys] \cup {None}
  BY DEF RegistryInv, RegistryType
<1>1. ASSUME NEW c \in Clients, NEW S \in Scopes, CliCreateClient(c, S) \/ CliProvisionTokenClient(c, S)
      PROVE  RegistryInv'
  <2>1. row' = [row EXCEPT ![c] = NewClient(S)] /\ row[c] = None /\ UNCHANGED <<key, cli>>
    BY <1>1 DEF CliCreateClient, CliProvisionTokenClient
  <2>2. c \in Owners /\ c \notin Users BY KeyKinds DEF Owners
  <2> QED BY <2>1, <2>2, NewRows, RowWritten
<1>2. ASSUME NEW c \in Clients, NEW k \in ClientKeys, CliRegisterKey(c, k) PROVE RegistryInv'
  BY <1>2, RegisterInv DEF CliRegisterKey
<1>3. ASSUME NEW u \in Users, NEW k \in ConsoleKeys, CliPairRead(u, k) PROVE RegistryInv'
  <2>1. cli' = [user |-> u, key |-> k] /\ UNCHANGED <<row, key>> BY <1>3 DEF CliPairRead
  <2> QED BY <2>1, RegistryStill
<1>4. CASE CliPairWrite
  <2>1. cli # None /\ cli' = None /\ row' = row BY <1>4 DEF CliPairWrite
  <2>2. PICK u \in Users, k \in ConsoleKeys : cli = [user |-> u, key |-> k] BY <1>0, <2>1
  <2>3. key' = IF key[k] = None THEN [key EXCEPT ![k] = NewConsoleKey(u)] ELSE key
    BY <1>4, <2>2 DEF CliPairWrite
  <2>4. k \in Keys /\ k \notin ClientKeys BY KeyKinds DEF Keys
  <2>5. CASE key[k] = None BY <2>1, <2>3, <2>4, <2>5, NewKeys, KeyWritten
  <2>6. CASE key[k] # None BY <2>1, <2>3, <2>6, RegistryStill
  <2> QED BY <2>5, <2>6
<1>5. ASSUME NEW u \in Users, NEW role \in UserRoles, CliProvisionUser(u, role) PROVE RegistryInv'
  <2> DEFINE r == [live |-> TRUE, role |-> role, scopes |-> {}]
  <2>1. row' = [row EXCEPT ![u] = r] /\ UNCHANGED <<key, cli>> BY <1>5 DEF CliProvisionUser
  <2>2. r \in Row /\ r.scopes = {} /\ u \in Owners /\ u \notin Clients
    BY NewRows, KeyKinds DEF Owners
  <2> HIDE DEF r
  <2> QED BY <2>1, <2>2, RowWritten
<1> QED BY <1>1, <1>2, <1>3, <1>4, <1>5 DEF Command

\* What a lookup reads is a standing, and a person's has no scopes.
LEMMA LoadUnscoped ==
  ASSUME RegistryInv, NEW o \in Owners, Load(o) # None
  PROVE  Unscoped(o, Load(o))
<1>1. row[o] # None /\ Load(o) = [role |-> row[o].role, scopes |-> row[o].scopes] BY DEF Load
<1>2. row[o] \in Row BY <1>1 DEF RegistryInv, RegistryType
<1> QED BY <1>1, <1>2 DEF Unscoped, Row, Standing, RegistryInv, UsersUnscoped

\* A standing at hand, young enough, leaves a sound request.
LEMMA GrantedSound ==
  ASSUME NEW r \in LookupOf, NEW val, NEW old \in Nat, Unscoped(r.who, val),
         old < StandingTtl + FetchTime
  PROVE  Granted(r, val, old) = Ended \/ Sound(Granted(r, val, old))
<1>0. val \in Standing /\ (r.who \in Users => val.scopes = {}) BY DEF Unscoped
<1>1. CASE r.door = "token" /\ val.role \in DeviceOnlyRoles BY <1>1 DEF Granted
<1>2. CASE ~ (r.door = "token" /\ val.role \in DeviceOnlyRoles) /\ r.rounds > 1
  <2> DEFINE g == r.rounds = 2 /\ r.aim = "users" /\ val.role = "owner"
             x == [r EXCEPT !.stage = "look", !.rounds = r.rounds - 1, !.val = None, !.old = 0,
                            !.spent = 0, !.guard = g]
  <2>1. g \in BOOLEAN /\ r.rounds - 1 \in Nat
    <3>1. r.rounds \in Nat BY DEF LookupOf
    <3> QED BY <1>2, <3>1
  <2>2. Granted(r, val, old) = x BY <1>2 DEF Granted
  <2> HIDE DEF g
  <2>3. x \in LookupOf /\ x.stage = "look" /\ x.old = 0 /\ x.spent = 0 BY <2>1 DEF LookupOf
  <2> HIDE DEF x
  <2> QED BY <2>2, <2>3 DEF Sound
<1>3. CASE ~ (r.door = "token" /\ val.role \in DeviceOnlyRoles) /\ ~ (r.rounds > 1)
  <2> DEFINE v == IF r.door = "token" /\ r.who \in Clients
                  THEN [val EXCEPT !.scopes = EffectiveScopes(val.scopes, oauth[r.who])] ELSE val
             x == [r EXCEPT !.stage = "served", !.old = old, !.spent = 0, !.val = v]
  <2>1. Granted(r, val, old) = x BY <1>3 DEF Granted
  <2>2. v \in Standing /\ v.role = val.role
    <3>1. val.scopes \in Scopes BY <1>0 DEF Standing
    <3>2. EffectiveScopes(val.scopes, oauth[r.who]) \in Scopes BY <3>1 DEF EffectiveScopes, Scopes
    <3> HIDE DEF v
    <3>3. CASE r.door = "token" /\ r.who \in Clients
      <4>1. v = [val EXCEPT !.scopes = EffectiveScopes(val.scopes, oauth[r.who])] BY <3>3 DEF v
      <4> QED BY <1>0, <3>2, <4>1 DEF Standing
    <3>4. CASE ~ (r.door = "token" /\ r.who \in Clients) BY <1>0, <3>4 DEF v
    <3> QED BY <3>3, <3>4
  <2>3. r.door = "token" => "pair" \notin v.scopes
    <3>1. CASE r.door = "token" /\ r.who \in Clients
      <4>1. v = [val EXCEPT !.scopes = EffectiveScopes(val.scopes, oauth[r.who])] BY <3>1
      <4>2. v.scopes = EffectiveScopes(val.scopes, oauth[r.who]) BY <1>0, <4>1 DEF Standing
      <4> QED BY <4>2 DEF EffectiveScopes
    <3>2. CASE r.who \notin Clients
      <4>1. r.who \in Users BY <3>2 DEF LookupOf, Owners
      <4> QED BY <1>0, <3>2, <4>1
    <3> QED BY <3>1, <3>2
  <2> HIDE DEF v
  <2>4. /\ x \in LookupOf /\ x.stage = "served" /\ x.old = old /\ x.val = v /\ x.door = r.door
    BY <2>2 DEF LookupOf
  <2> HIDE DEF x
  <2> QED BY <1>3, <2>1, <2>2, <2>3, <2>4 DEF Sound
<1> QED BY <1>1, <1>2, <1>3

\* One request moves on, the cache aside.
LEMMA RequestMoves ==
  ASSUME RequestsInv, NEW q \in Requests, NEW r, r = Ended \/ Sound(r), req' = [req EXCEPT ![q] = r]
  PROVE  RequestsInv'
<1>1. /\ req' = [p \in Requests |-> req'[p]] /\ req'[q] = r
      /\ \A p \in Requests : p # q => req'[p] = req[p]
  BY DEF RequestsInv
<1>2. \A p \in Requests : req'[p] = Idle \/ req'[p] = Ended \/ Sound(req'[p])
  BY <1>1 DEF RequestsInv
<1> QED BY <1>1, <1>2 DEF RequestsInv, Sound, Unscoped

\* A request that is under way is sound.
LEMMA UnderWay ==
  ASSUME RequestsInv, NEW q \in Requests, req[q].stage \notin {"idle", "ended"}
  PROVE  Sound(req[q])
BY DEF RequestsInv, Idle, Ended

\* The lookups.
LEMMA LookupsInv ==
  ASSUME SignerInv, NEW q \in Requests, Lookup(q)
  PROVE  CacheInv' /\ RequestsInv' /\ UNCHANGED <<row, key, cli>>
<1>0. /\ RegistryInv /\ CacheInv /\ RequestsInv BY DEF SignerInv
<1>1. ASSUME NEW k \in Keys, NEW aim \in {"users", "other"}, Verify(q, k, aim)
      PROVE  CacheInv' /\ RequestsInv' /\ UNCHANGED <<row, key, cli>>
  <2> DEFINE n == IF aim = "users" THEN 3 ELSE 2
             r == [stage |-> "look", door |-> "signed", key |-> k, who |-> key[k].owner, aim |-> aim,
                   rounds |-> n, guard |-> FALSE, val |-> None, old |-> 0, spent |-> 0]
  <2>1. req' = [req EXCEPT ![q] = r] /\ UNCHANGED <<row, key, cli, cache>> /\ key[k] # None
    BY <1>1 DEF Verify, KeyLive
  <2>2. n \in Nat /\ key[k].owner \in Owners
    <3>1. key[k] \in SignerKey BY <1>0, <2>1 DEF RegistryInv, RegistryType
    <3> QED BY <3>1 DEF SignerKey
  <2> HIDE DEF n
  <2>3. r \in LookupOf /\ r.stage = "look" /\ r.old = 0 /\ r.spent = 0 BY <2>2 DEF LookupOf
  <2> HIDE DEF r
  <2>4. Sound(r) BY <2>3 DEF Sound
  <2>5. RequestsInv' BY <1>0, <2>1, <2>4, RequestMoves
  <2> QED BY <1>0, <2>1, <2>5 DEF CacheInv, Unscoped
<1>2. ASSUME NEW o \in Owners, Token(q, o)
      PROVE  CacheInv' /\ RequestsInv' /\ UNCHANGED <<row, key, cli>>
  <2> DEFINE r == [stage |-> "look", door |-> "token", key |-> None, who |-> o, aim |-> "other",
                   rounds |-> 1, guard |-> FALSE, val |-> None, old |-> 0, spent |-> 0]
  <2>1. req' = [req EXCEPT ![q] = r] /\ UNCHANGED <<row, key, cli, cache>> BY <1>2 DEF Token
  <2>2. r \in LookupOf /\ r.stage = "look" /\ r.old = 0 /\ r.spent = 0 BY DEF LookupOf
  <2> HIDE DEF r
  <2>3. Sound(r) BY <2>2 DEF Sound
  <2>4. RequestsInv' BY <1>0, <2>1, <2>3, RequestMoves
  <2> QED BY <1>0, <2>1, <2>4 DEF CacheInv, Unscoped
<1>3. CASE Look(q)
  <2>1. Sound(req[q]) /\ req[q].stage = "look" BY <1>0, <1>3, UnderWay DEF Look
  <2>2. req[q] \in LookupOf /\ req[q].old = 0 /\ req[q].spent = 0 /\ req[q].who \in Owners
    BY <2>1 DEF Sound, LookupOf
  <2>3. PICK r : /\ req' = [req EXCEPT ![q] = r]
                 /\ \/ r = Ended
                    \/ /\ CacheHit(req[q].who)
                       /\ r = Granted(req[q], cache[req[q].who].val, cache[req[q].who].old)
                    \/ r = [req[q] EXCEPT !.stage = "fetch"]
    BY <1>3 DEF Look
  <2>4. UNCHANGED <<row, key, cli, cache>> BY <1>3 DEF Look
  <2>5. r = Ended \/ Sound(r)
    <3>1. CASE CacheHit(req[q].who) /\ r = Granted(req[q], cache[req[q].who].val, cache[req[q].who].old)
      <4> DEFINE c == cache[req[q].who]
      <4>1. c # None /\ c.age < StandingTtl BY <3>1 DEF CacheHit
      <4>2. c \in Held /\ Unscoped(req[q].who, c.val) /\ c.old <= c.age + FetchTime
        BY <1>0, <2>2, <4>1 DEF CacheInv
      <4>3. r = Granted(req[q], c.val, c.old) BY <3>1
      <4> HIDE DEF c
      <4>4. c.old \in Nat /\ c.age \in Nat BY <4>2 DEF Held
      <4>5. c.old < StandingTtl + FetchTime BY <4>1, <4>2, <4>4, SignerNumbers
      <4> QED BY <2>2, <4>2, <4>3, <4>4, <4>5, GrantedSound
    <3>2. CASE r = [req[q] EXCEPT !.stage = "fetch"]
      <4>1. r \in LookupOf /\ r.stage = "fetch" /\ r.old = 0 /\ r.spent = 0 BY <2>2, <3>2 DEF LookupOf
      <4> QED BY <4>1 DEF Sound
    <3> QED BY <2>3, <3>1, <3>2
  <2>6. RequestsInv' BY <1>0, <2>3, <2>5, RequestMoves
  <2> QED BY <1>0, <2>4, <2>6 DEF CacheInv, Unscoped
<1>4. CASE FetchRead(q)
  <2>1. Sound(req[q]) /\ req[q].stage = "fetch" BY <1>0, <1>4, UnderWay DEF FetchRead
  <2>2. req[q] \in LookupOf /\ req[q].old = 0 /\ req[q].spent = 0 /\ req[q].who \in Owners
    BY <2>1 DEF Sound, LookupOf
  <2>3. PICK r : /\ req' = [req EXCEPT ![q] = r]
                 /\ \/ r = Ended
                    \/ /\ Load(req[q].who) # None
                       /\ r = [req[q] EXCEPT !.stage = "store", !.val = Load(req[q].who)]
    BY <1>4 DEF FetchRead
  <2>4. UNCHANGED <<row, key, cli, cache>> BY <1>4 DEF FetchRead
  <2>5. r = Ended \/ Sound(r)
    <3> SUFFICES ASSUME Load(req[q].who) # None,
                        r = [req[q] EXCEPT !.stage = "store", !.val = Load(req[q].who)]
                 PROVE  Sound(r)
      BY <2>3
    <3>1. PICK v : v = Load(req[q].who) /\ Unscoped(req[q].who, v) BY <1>0, <2>2, LoadUnscoped
    <3>2. v \in Standing /\ r = [req[q] EXCEPT !.stage = "store", !.val = v] BY <3>1 DEF Unscoped
    <3>3. /\ r \in LookupOf /\ r.stage = "store" /\ r.old = 0 /\ r.spent = 0 /\ r.val = v
          /\ r.who = req[q].who
      BY <2>2, <3>2 DEF LookupOf
    <3> QED BY <3>1, <3>3, SignerNumbers DEF Sound
  <2>6. RequestsInv' BY <1>0, <2>3, <2>5, RequestMoves
  <2> QED BY <1>0, <2>4, <2>6 DEF CacheInv, Unscoped
<1>5. CASE FetchStore(q)
  <2>1. Sound(req[q]) /\ req[q].stage = "store" BY <1>0, <1>5, UnderWay DEF FetchStore
  <2>2. /\ req[q] \in LookupOf /\ req[q].old <= req[q].spent /\ req[q].spent <= FetchTime
        /\ Unscoped(req[q].who, req[q].val)
    BY <2>1 DEF Sound
  <2>3. req[q].who \in Owners /\ req[q].old \in Nat /\ req[q].spent \in Nat BY <2>2 DEF LookupOf
  <2> DEFINE r == req[q]
             c == [val |-> r.val, age |-> 0, old |-> r.old]
             g == Granted(r, r.val, r.old)
  <2>4. /\ cache' = [cache EXCEPT ![r.who] = c] /\ req' = [req EXCEPT ![q] = g]
        /\ UNCHANGED <<row, key, cli>>
    BY <1>5 DEF FetchStore
  <2>5. c \in Held /\ c.val = r.val /\ c.age = 0 /\ c.old = r.old BY <2>2, <2>3 DEF Held, Unscoped
  <2>6. g = Ended \/ Sound(g)
    <3>1. r.old < StandingTtl + FetchTime BY <2>2, <2>3, SignerNumbers
    <3> QED BY <2>2, <2>3, <3>1, GrantedSound
  <2> HIDE DEF g, c
  <2>7. RequestsInv' BY <1>0, <2>4, <2>6, RequestMoves
  <2>8. /\ cache' \in [Owners -> Held \cup {None}] /\ cache'[r.who] = c
        /\ \A o \in Owners : o # r.who => cache'[o] = cache[o]
    BY <1>0, <2>3, <2>4, <2>5 DEF CacheInv
  <2>9. c.old <= c.age + FetchTime BY <2>2, <2>3, <2>5, SignerNumbers
  <2>10. \A o \in Owners : cache'[o] # None =>
           Unscoped(o, cache'[o].val) /\ cache'[o].old <= cache'[o].age + FetchTime
    <3> SUFFICES ASSUME NEW o \in Owners, cache'[o] # None
                 PROVE  Unscoped(o, cache'[o].val) /\ cache'[o].old <= cache'[o].age + FetchTime
      OBVIOUS
    <3>1. CASE o = r.who BY <2>2, <2>5, <2>8, <2>9, <3>1
    <3>2. CASE o # r.who BY <1>0, <2>8, <3>2 DEF CacheInv
    <3> QED BY <3>1, <3>2
  <2>11. CacheInv' BY <2>8, <2>10 DEF CacheInv, Unscoped
  <2> QED BY <2>4, <2>7, <2>11
<1>6. CASE Answer(q)
  <2>1. req' = [req EXCEPT ![q] = Ended] /\ UNCHANGED <<row, key, cli, cache>> BY <1>6 DEF Answer
  <2>2. RequestsInv' BY <1>0, <2>1, RequestMoves
  <2> QED BY <1>0, <2>1, <2>2 DEF CacheInv, Unscoped
<1> QED BY <1>1, <1>2, <1>3, <1>4, <1>5, <1>6 DEF Lookup

\* What passes time ages by one at most.
LEMMA Aging ==
  ASSUME NEW o, NEW v, NEW n \in Nat
  PROVE  Stale(o, v, n) \in Nat /\ Stale(o, v, n) <= n + 1
<1>1. Older(n) \in Nat /\ Older(n) <= n + 1 BY DEF Older
<1> QED BY <1>1 DEF Stale

LEMMA HeldEdits ==
  ASSUME NEW m \in Nat, NEW n \in Nat, NEW c \in Held
  PROVE  LET d == [c EXCEPT !.age = m, !.old = n]
         IN d \in Held /\ d.val = c.val /\ d.age = m /\ d.old = n
BY DEF Held

Waited(r, m, n) == [r EXCEPT !.spent = m, !.old = n]

LEMMA StoreEdits ==
  ASSUME NEW m \in Nat, NEW n \in Nat, NEW r \in LookupOf
  PROVE  /\ Waited(r, m, n) \in LookupOf /\ Waited(r, m, n).stage = r.stage
         /\ Waited(r, m, n).old = n /\ Waited(r, m, n).spent = m
         /\ Waited(r, m, n).who = r.who /\ Waited(r, m, n).val = r.val
BY DEF LookupOf, Waited

LEMMA TickInv ==
  ASSUME SignerInv, Tick
  PROVE  SignerInv'
<1>0. RegistryInv /\ CacheInv /\ RequestsInv BY DEF SignerInv
<1>1. RegistryInv'
  <2>1. UNCHANGED <<row, cli>> BY DEF Tick
  <2>2. \A k \in Keys : key'[k] \in SignerKey \cup {None}
    <3> SUFFICES ASSUME NEW k \in Keys PROVE key'[k] \in SignerKey \cup {None} OBVIOUS
    <3>1. key'[k] = IF k \in ConsoleKeys /\ key[k] # None /\ key[k].left > 0
                    THEN [key[k] EXCEPT !.left = key[k].left - 1] ELSE key[k]
      BY DEF Tick
    <3>2. key[k] \in SignerKey \cup {None} BY <1>0 DEF RegistryInv, RegistryType
    <3>3. CASE k \in ConsoleKeys /\ key[k] # None /\ key[k].left > 0
      <4>1. key[k] \in SignerKey BY <3>2, <3>3
      <4>2. key[k].left - 1 \in Nat
        <5>1. key[k].left \in Nat BY <4>1 DEF SignerKey
        <5> QED BY <3>3, <5>1
      <4> QED BY <3>1, <3>3, <4>1, <4>2, KeyEdits
    <3>4. CASE ~ (k \in ConsoleKeys /\ key[k] # None /\ key[k].left > 0) BY <3>1, <3>2, <3>4
    <3> QED BY <3>3, <3>4
  <2>3. key' = [k \in Keys |-> key'[k]] BY DEF Tick
  <2>4. RegistryType' BY <1>0, <2>1, <2>2, <2>3 DEF RegistryInv, RegistryType
  <2>5. \A k \in ClientKeys : key'[k] = key[k] BY KeyKinds DEF Tick, Keys
  <2>6. \A u \in Users : row'[u] # None => row'[u].scopes = {} BY <1>0, <2>1 DEF RegistryInv, UsersUnscoped
  <2> QED BY <1>0, <2>1, <2>4, <2>5, <2>6, RegistryMoves
<1>2. CacheInv'
  <2>1. \A o \in Owners : \/ cache'[o] = None
                         \/ /\ cache[o] # None
                            /\ cache'[o] = [cache[o] EXCEPT !.age = cache[o].age + 1,
                                                            !.old = Stale(o, cache[o].val, cache[o].old)]
    BY DEF Tick
  <2>2. ASSUME NEW o \in Owners, cache'[o] # None
        PROVE  /\ cache'[o] \in Held /\ Unscoped(o, cache'[o].val)
               /\ cache'[o].old <= cache'[o].age + FetchTime
    <3> DEFINE c == cache[o]
               n == Stale(o, c.val, c.old)
    <3>1. c # None /\ cache'[o] = [c EXCEPT !.age = c.age + 1, !.old = n] BY <2>1, <2>2
    <3>2. c \in Held /\ Unscoped(o, c.val) /\ c.old <= c.age + FetchTime BY <1>0, <3>1 DEF CacheInv
    <3>3. c.age \in Nat /\ c.old \in Nat BY <3>2 DEF Held
    <3>4. n \in Nat /\ n <= c.old + 1 BY <3>3, Aging
    <3> HIDE DEF n, c
    <3>5. /\ cache'[o] \in Held /\ cache'[o].val = c.val /\ cache'[o].age = c.age + 1
          /\ cache'[o].old = n
      <4>1. PICK m \in Nat : m = c.age + 1 BY <3>3
      <4>2. cache'[o] = [c EXCEPT !.age = m, !.old = n] BY <3>1, <4>1
      <4>3. LET d == [c EXCEPT !.age = m, !.old = n]
            IN d \in Held /\ d.val = c.val /\ d.age = m /\ d.old = n
        BY <3>2, <3>4, HeldEdits
      <4> QED BY <4>1, <4>2, <4>3
    <3> QED BY <3>2, <3>3, <3>4, <3>5, SignerNumbers
  <2>3. cache' = [o \in Owners |-> cache'[o]] BY DEF Tick
  <2>4. cache' \in [Owners -> Held \cup {None}] BY <2>2, <2>3
  <2> QED BY <2>2, <2>4 DEF CacheInv, Unscoped
<1>3. RequestsInv'
  <2>1. req' = [q \in Requests |-> req'[q]] BY DEF Tick
  <2>2. ASSUME NEW q \in Requests PROVE req'[q] = Idle \/ req'[q] = Ended \/ Sound(req'[q])
    <3>1. CASE req[q].stage # "store"
      <4>1. req'[q] = req[q] BY <3>1 DEF Tick
      <4> QED BY <1>0, <4>1 DEF RequestsInv
    <3>2. CASE req[q].stage = "store"
      <4> DEFINE r == req[q]
                 n == Stale(r.who, r.val, r.old)
      <4>1. Sound(r) BY <1>0, <3>2, UnderWay
      <4>2. r \in LookupOf /\ r.old <= r.spent /\ Unscoped(r.who, r.val) BY <3>2, <4>1 DEF Sound
      <4>3. r.old \in Nat /\ r.spent \in Nat BY <4>2 DEF LookupOf
      <4>4. r.spent < FetchTime BY <3>2 DEF Tick
      <4>5. req'[q] = [r EXCEPT !.spent = r.spent + 1, !.old = n] BY <3>2 DEF Tick
      <4>6. n \in Nat /\ n <= r.old + 1 BY <4>3, Aging
      <4> HIDE DEF n, r
      <4>7. r.stage = "store" BY <3>2 DEF r
      <4>8. /\ req'[q] \in LookupOf /\ req'[q].stage = "store" /\ req'[q].old = n
            /\ req'[q].spent = r.spent + 1 /\ req'[q].who = r.who /\ req'[q].val = r.val
        <5>1. PICK m \in Nat : m = r.spent + 1 BY <4>3
        <5>2. req'[q] = Waited(r, m, n) BY <4>5, <5>1 DEF Waited
        <5> QED BY <4>2, <4>6, <4>7, <5>1, <5>2, StoreEdits
      <4>9. req'[q].old <= req'[q].spent /\ req'[q].spent <= FetchTime
        BY <4>2, <4>3, <4>4, <4>6, <4>8, SignerNumbers
      <4> QED BY <4>2, <4>8, <4>9 DEF Sound
    <3> QED BY <3>1, <3>2
  <2> QED BY <2>1, <2>2 DEF RequestsInv, Sound, Unscoped
<1> QED BY <1>1, <1>2, <1>3 DEF SignerInv

LEMMA SignersInit == Init => SignerInv
<1> SUFFICES ASSUME Init PROVE SignerInv OBVIOUS
<1>1. PICK u \in Users, ku \in ConsoleKeys, C \in SUBSET Clients, S \in Scopes,
          by \in {"caller", "operator"}, kc \in [ClientKeys -> Clients \cup {None}] :
       /\ \A k \in ClientKeys : kc[k] \in C \cup {None}
       /\ by = "caller" => "pair" \notin S
       /\ row = [o \in Owners |->
                  CASE o = u -> [live |-> TRUE, role |-> "owner", scopes |-> {}]
                    [] o \in C -> NewClient(S)
                    [] OTHER -> None]
       /\ key = [k \in Keys |->
                  CASE k = ku -> NewConsoleKey(u)
                    [] k \in ClientKeys /\ kc[k] # None -> NewClientKey(kc[k], by)
                    [] OTHER -> None]
  BY DEF Init
<1> DEFINE r0 == [live |-> TRUE, role |-> "owner", scopes |-> {}]
<1>2. r0 \in Row /\ r0.scopes = {} BY NewRows DEF Roles
<1>3. \A o \in Owners : row[o] = IF o = u THEN r0 ELSE IF o \in C THEN NewClient(S) ELSE None
  <2>1. u \notin C BY KeyKinds
  <2> QED BY <1>1, <2>1
<1>4. \A k \in Keys : key[k] = IF k = ku THEN NewConsoleKey(u)
                             ELSE IF k \in ClientKeys /\ kc[k] # None THEN NewClientKey(kc[k], by) ELSE None
  <2>1. ku \notin ClientKeys BY KeyKinds
  <2> QED BY <1>1, <2>1
<1>5. row = [o \in Owners |-> row[o]] /\ key = [k \in Keys |-> key[k]] BY <1>1
<1> HIDE DEF r0
<1>6. row \in [Owners -> Row \cup {None}] BY <1>2, <1>3, <1>5, NewRows
<1>7. key \in [Keys -> SignerKey \cup {None}]
  <2>1. \A k \in ClientKeys : kc[k] # None => kc[k] \in Clients BY <1>1
  <2> QED BY <1>4, <1>5, <2>1, NewKeys
<1>8. UsersUnscoped
  <2>1. \A x \in Users : x \in Owners /\ x \notin C BY KeyKinds DEF Owners
  <2> QED BY <1>2, <1>3, <2>1 DEF UsersUnscoped
<1>9. ASSUME NEW k \in ClientKeys, key[k] # None
      PROVE  /\ key[k].owner \in Clients /\ row[key[k].owner] # None
             /\ "pair" \in row[key[k].owner].scopes => key[k].by = "operator"
  <2>1. k \in Keys /\ k # ku BY KeyKinds DEF Keys
  <2>2. kc[k] # None /\ key[k] = NewClientKey(kc[k], by) BY <1>4, <1>9, <2>1
  <2>3. kc[k] \in C /\ kc[k] \in Clients /\ kc[k] # u /\ kc[k] \in Owners
    BY <1>1, <2>2, KeyKinds DEF Owners
  <2>4. key[k].owner = kc[k] /\ key[k].by = by BY <2>2, <2>3, NewKeys
  <2>5. row[kc[k]] = NewClient(S) BY <1>3, <2>3
  <2> QED BY <1>1, <2>3, <2>4, <2>5, NewRows
<1>10. KeysHaveOwners /\ PairingKeysAreOperators BY <1>9 DEF KeysHaveOwners, PairingKeysAreOperators
<1>11. RegistryInv BY <1>6, <1>7, <1>8, <1>10 DEF Init, RegistryInv, RegistryType
<1>12. CacheInv BY DEF Init, CacheInv
<1>13. RequestsInv BY DEF Init, RequestsInv
<1> QED BY <1>11, <1>12, <1>13 DEF SignerInv

LEMMA SignersStep ==
  ASSUME SignerInv, [Next]_vars
  PROVE  SignerInv'
<1>0. RegistryInv /\ CacheInv /\ RequestsInv BY DEF SignerInv
<1>1. ASSUME NEW q \in Requests, Lookup(q) PROVE SignerInv'
  <2>1. CacheInv' /\ RequestsInv' /\ UNCHANGED <<row, key, cli>> BY <1>1, LookupsInv
  <2>2. RegistryInv' BY <1>0, <2>1, RegistryStill DEF RegistryInv, RegistryType
  <2> QED BY <2>1, <2>2 DEF SignerInv
<1>2. ASSUME NEW q \in Requests, Operate(q) PROVE SignerInv'
  <2>1. RegistryInv' BY <1>0, <1>2, OperateInv
  <2>2. req' = [req EXCEPT ![q] = Ended] /\ cache' = cache
    BY <1>2 DEF Operate, PatchUser, ProvisionUser, PatchClient, ProvisionAppClient, RegisterAppClientKey,
                Revoke, RegisterConsoleKey, Done
  <2>3. RequestsInv' BY <1>0, <2>2, RequestMoves
  <2>4. CacheInv' BY <1>0, <2>2 DEF CacheInv, Unscoped
  <2> QED BY <2>1, <2>3, <2>4 DEF SignerInv
<1>3. CASE Command
  <2>1. RegistryInv' BY <1>0, <1>3, CommandInv
  <2>2. UNCHANGED <<req, cache>>
    BY <1>3 DEF Command, CliCreateClient, CliRegisterKey, CliPairRead, CliPairWrite, CliProvisionUser,
                CliProvisionTokenClient
  <2>3. RequestsInv' BY <1>0, <2>2 DEF RequestsInv, Sound, Unscoped
  <2>4. CacheInv' BY <1>0, <2>2 DEF CacheInv, Unscoped
  <2> QED BY <2>1, <2>3, <2>4 DEF SignerInv
<1>4. CASE Tick BY <1>4, TickInv
<1>5. CASE UNCHANGED vars
  <2>1. RegistryInv' BY <1>0, <1>5, RegistryStill DEF vars, RegistryInv, RegistryType
  <2>2. CacheInv' /\ RequestsInv' BY <1>0, <1>5 DEF vars, CacheInv, RequestsInv, Sound, Unscoped
  <2> QED BY <2>1, <2>2 DEF SignerInv
<1> QED BY <1>1, <1>2, <1>3, <1>4, <1>5 DEF Next

\* The registry, the cache and the requests always satisfy SignerInv (the
\* operations of signers.rs, client_keys.rs, console_keys.rs and cache.rs).
THEOREM SignerInvariance == Spec => []SignerInv
<1>1. SignerInv /\ [Next]_vars => SignerInv' BY SignersStep
<1> QED BY <1>1, SignersInit, PTL DEF Spec

\* A client that holds the pairing scope has only keys of the operator's
\* (pair_scope.rs and Registrant in client_keys.rs).
THEOREM OnlyOperatorsPair == Spec => []PairingKeysAreOperators
<1>1. SignerInv => PairingKeysAreOperators BY DEF SignerInv, RegistryInv
<1> QED BY <1>1, SignerInvariance, PTL

\* A former standing is acted on for less than STANDING_TTL and the lookup
\* together, and never by a token as an owner or an admin (signers.rs,
\* refuse_device_only_role in bearer.rs).
THEOREM StandingsExpire == Spec => []StandingFresh
<1>1. SignerInv => StandingFresh
  <2> SUFFICES ASSUME SignerInv, NEW q \in Requests, req[q].stage = "served"
               PROVE  /\ req[q].old < StandingTtl + FetchTime
                      /\ req[q].door = "token" =>
                           req[q].val.role \notin DeviceOnlyRoles /\ "pair" \notin req[q].val.scopes
    BY DEF StandingFresh
  <2>1. Sound(req[q]) BY UnderWay DEF SignerInv
  <2> QED BY <2>1 DEF Sound
<1> QED BY <1>1, SignerInvariance, PTL

-----------------------------------------------------------------------------
(* The identity provider's keys.  The flight over the keys belongs to one   *)
(* task from its second look at the cache until it stores what it fetched    *)
(* (Flying), so what is stored is as old as one answer; and a task that       *)
(* finds no document, and cannot get one, asked before any key was cached.    *)

DocAts == {"doc", "docFly", "docQueued", "docRecheck", "docFetch", "served", "unavailable"}
KeyAts == DocAts \cup {"fly", "queued", "recheck", "fetch", "store", "refused"}
Looking == {"docFly", "docQueued", "docRecheck", "docFetch"}
Flying == Looking \cup {"recheck", "doc", "fetch", "store"}

Time == Nat \cup {Never}
DocTask == [at : DocAts, want : {"document"}, had : BOOLEAN]
KeyTask == [at : KeyAts, want : {"key"}, kid : Kids, known : BOOLEAN, had : BOOLEAN, keys : SUBSET Kids,
            answered : Time, asked : Nat, met : BOOLEAN, missed : BOOLEAN]

IdpType ==
  /\ published \in [Kids -> Time] /\ document \in Time /\ jwks \in [keys : SUBSET Kids, fetched : Time]
  /\ jwksFlight \in Tasks \cup {Nobody} /\ idpClock \in Nat
  /\ task \in [Tasks -> {NoTask} \cup DocTask \cup KeyTask]

\* k is not published, or only from that moment on.
NotBefore(k, moment) == published[k] = Never \/ published[k] >= moment

CacheSound ==
  /\ jwks.keys # {} => jwks.fetched # Never
  /\ jwks.fetched # Never =>
       /\ document # Never /\ jwks.fetched <= idpClock
       /\ \A k \in Kids \ jwks.keys : NotBefore(k, jwks.fetched - AnswerTime)

\* When the key of a refused task came into use.
CameLate(t) ==
  published[task[t].kid] = Never \/ published[task[t].kid] > task[t].asked - MinRefresh - AnswerTime

AnswerSound(t) ==
  /\ task[t].answered \in Nat /\ task[t].asked <= task[t].answered
  /\ task[t].answered <= idpClock /\ idpClock <= task[t].answered + AnswerTime
  /\ \A k \in Kids \ task[t].keys : NotBefore(k, task[t].answered)

KeySound(t) ==
  /\ task[t].at \in Flying => jwksFlight = t
  /\ task[t].asked <= idpClock
  /\ task[t].known \/ task[t].kid \in jwks.keys => task[t].met
  /\ ~task[t].known \/ task[t].kid \notin jwks.keys => task[t].missed
  /\ task[t].had => document # Never
  /\ task[t].at \in Looking /\ ~task[t].had => task[t].missed
  /\ task[t].at \in {"fetch", "store"} => document # Never
  /\ task[t].at = "store" => AnswerSound(t)
  /\ task[t].at = "served" => task[t].met
  /\ task[t].at \in {"refused", "unavailable"} => task[t].missed
  /\ task[t].at = "refused" => CameLate(t)

DocSound(t) == task[t].had => document # Never
IdpInv ==
  /\ IdpType /\ CacheSound
  /\ \A t \in Tasks : (task[t] \in KeyTask => KeySound(t)) /\ (task[t] \in DocTask => DocSound(t))

LEMMA TaskKinds ==
  /\ NoTask.at = "idle"
  /\ \A x \in DocTask : x.at \in DocAts /\ x.want = "document" /\ x.had \in BOOLEAN
  /\ \A x \in KeyTask : /\ x.at \in KeyAts /\ x.want = "key" /\ x.kid \in Kids /\ x.known \in BOOLEAN
                        /\ x.had \in BOOLEAN /\ x.keys \subseteq Kids /\ x.answered \in Time /\ x.asked \in Nat
                        /\ x.met \in BOOLEAN /\ x.missed \in BOOLEAN
BY DEF NoTask, DocTask, KeyTask

LEMMA KeysServe == IdpInv => KnownKeysServe
<1> SUFFICES ASSUME IdpInv, NEW t \in Tasks
    PROVE /\ task[t].at = "served" /\ task[t].want = "key" => task[t].met
          /\ task[t].at \in {"refused", "unavailable"} /\ task[t].want = "key" => task[t].missed
          /\ task[t].at = "refused" =>
               \/ published[task[t].kid] = Never
               \/ published[task[t].kid] > task[t].asked - MinRefresh - AnswerTime
          /\ task[t].at \in {"fetch", "store"} => jwksFlight = t
  BY DEF KnownKeysServe
<1>1. CASE task[t] \in KeyTask
  BY <1>1 DEF IdpInv, KeySound, Flying, CameLate
<1>2. CASE task[t] = NoTask BY <1>2, TaskKinds
<1>3. CASE task[t] \in DocTask BY <1>3, TaskKinds DEF DocAts
<1> QED BY <1>1, <1>2, <1>3 DEF IdpInv, IdpType

LEMMA IdpInit == IInit => IdpInv
<1> SUFFICES ASSUME IInit PROVE IdpInv OBVIOUS
<1>1. \A t \in Tasks : task[t] \notin KeyTask /\ task[t] \notin DocTask
  BY TaskKinds DEF IInit, KeyAts, DocAts
<1>2. IdpType BY DEF IInit, IdpType, Time
<1>3. CacheSound BY DEF IInit, CacheSound
<1> QED BY <1>1, <1>2, <1>3 DEF IdpInv

\* A step of one task that fetches no keys: what the others hold, they keep.
LEMMA OneTaskMoves ==
  ASSUME IdpInv, NEW t \in Tasks, NEW x \in {NoTask} \cup DocTask \cup KeyTask,
         task' = [task EXCEPT ![t] = x], UNCHANGED <<published, jwks, idpClock>>,
         document' = document \/ document' \in Nat, jwksFlight' \in Tasks \cup {Nobody},
         \A u \in Tasks \ {t} : jwksFlight = u => jwksFlight' = u,
         x \in KeyTask => KeySound(t)', x \in DocTask => DocSound(t)'
  PROVE  IdpInv'
<1>1. IdpType' BY DEF IdpInv, IdpType, Time
<1>2. document # Never => document' # Never BY IdpKeysAssumption DEF IdpInv, IdpType, Time
<1>3. CacheSound' BY <1>2 DEF IdpInv, CacheSound, NotBefore
<1>4. ASSUME NEW u \in Tasks, task'[u] \in KeyTask PROVE KeySound(u)'
  <2>1. CASE u = t BY <1>4, <2>1 DEF IdpInv, IdpType
  <2>2. CASE u # t
    <3>1. task'[u] = task[u] BY <2>2 DEF IdpInv, IdpType
    <3>2. KeySound(u) BY <1>4, <3>1 DEF IdpInv
    <3>3. jwksFlight = u => jwksFlight' = u BY <2>2
    <3> HIDE DEF KeySound
    <3> QED BY <1>2, <3>1, <3>2, <3>3 DEF KeySound, AnswerSound, CameLate, NotBefore
  <2> QED BY <2>1, <2>2
<1>5. ASSUME NEW u \in Tasks, task'[u] \in DocTask PROVE DocSound(u)'
  <2>1. CASE u = t BY <1>5, <2>1 DEF IdpInv, IdpType
  <2>2. CASE u # t
    <3>1. task'[u] = task[u] BY <2>2 DEF IdpInv, IdpType
    <3> QED BY <1>2, <1>5, <3>1 DEF IdpInv, DocSound
  <2> QED BY <2>1, <2>2
<1> QED BY <1>1, <1>3, <1>4, <1>5 DEF IdpInv

GoneTo(t, at) == [task[t] EXCEPT !.at = at]
LEMMA GoneToEdits ==
  ASSUME NEW t \in Tasks
  PROVE  /\ \A at \in KeyAts : task[t] \in KeyTask =>
              /\ GoneTo(t, at) \in KeyTask /\ GoneTo(t, at).at = at
              /\ \A f \in {"kid", "known", "had", "keys", "answered", "asked", "met", "missed"} :
                   GoneTo(t, at)[f] = task[t][f]
         /\ \A at \in DocAts : task[t] \in DocTask => GoneTo(t, at) \in DocTask /\ GoneTo(t, at).had = task[t].had
BY DEF GoneTo, KeyTask, DocTask

\* A task that needs a key goes on without an answer in its hands.
LEMMA KeyTaskMoves ==
  ASSUME IdpInv, NEW t \in Tasks, task[t] \in KeyTask, NEW at \in KeyAts \ {"store"}, Moves(t, at),
         UNCHANGED <<published, jwks, idpClock>>, document' = document \/ document' \in Nat,
         jwksFlight' \in Tasks \cup {Nobody}, \A u \in Tasks \ {t} : jwksFlight = u => jwksFlight' = u,
         at \in Flying => jwksFlight' = t,
         at \in Looking /\ ~task[t].had => task[t].missed,
         at = "fetch" => document' # Never,
         at = "served" => task[t].met,
         at \in {"refused", "unavailable"} => task[t].missed,
         at = "refused" => CameLate(t)
  PROVE  IdpInv'
<1>1. task' = [task EXCEPT ![t] = GoneTo(t, at)] BY DEF Moves, GoneTo
<1>0. \A x \in KeyTask : x \notin DocTask BY TaskKinds
<1>2. /\ GoneTo(t, at) \in KeyTask /\ GoneTo(t, at).at = at
      /\ GoneTo(t, at).kid = task[t].kid /\ GoneTo(t, at).known = task[t].known /\ GoneTo(t, at).had = task[t].had
      /\ GoneTo(t, at).asked = task[t].asked
      /\ GoneTo(t, at).met = task[t].met /\ GoneTo(t, at).missed = task[t].missed
  BY GoneToEdits
<1>3. task'[t] = GoneTo(t, at) BY <1>1 DEF IdpInv, IdpType
<1>4. KeySound(t) BY DEF IdpInv
<1>5. document # Never => document' # Never BY IdpKeysAssumption DEF IdpInv, IdpType, Time
<1>6. KeySound(t)' BY <1>2, <1>3, <1>4, <1>5 DEF KeySound, CameLate, Looking, Flying
<1> QED BY <1>0, <1>1, <1>2, <1>6, OneTaskMoves

\* A task that needs only the document.
LEMMA DocTaskMoves ==
  ASSUME IdpInv, NEW t \in Tasks, NEW x \in {NoTask} \cup DocTask, task' = [task EXCEPT ![t] = x],
         UNCHANGED <<published, jwks, idpClock>>, document' = document \/ document' \in Nat,
         jwksFlight' = jwksFlight \/ (jwksFlight = t /\ jwksFlight' = Nobody),
         x \in DocTask /\ x.had => document' # Never
  PROVE  IdpInv'
<1>1. x \notin KeyTask BY TaskKinds DEF KeyAts, DocAts
<1>2. jwksFlight' \in Tasks \cup {Nobody} /\ \A u \in Tasks \ {t} : jwksFlight = u => jwksFlight' = u
  BY DEF IdpInv, IdpType
<1>3. task'[t] = x BY DEF IdpInv, IdpType
<1>4. x \in DocTask => DocSound(t)' BY <1>3 DEF DocSound
<1> QED BY <1>1, <1>2, <1>4, OneTaskMoves

LEMMA PublishingKeepsInv ==
  ASSUME IdpInv, NEW k \in Kids, ChangeKeys(k)
  PROVE  IdpInv'
<1>1. /\ published' \in [Kids -> Time] /\ published'[k] \in {idpClock, Never}
      /\ \A j \in Kids : j # k => published'[j] = published[j]
      /\ UNCHANGED <<document, jwks, jwksFlight, task, idpClock>>
  BY DEF ChangeKeys, IdpInv, IdpType, Time
<1>2. \A j \in Kids, m \in Int : NotBefore(j, m) /\ m <= idpClock => NotBefore(j, m)'
  BY <1>1 DEF NotBefore
<1>3. IdpType' BY <1>1 DEF IdpInv, IdpType
<1>4. CacheSound'
  <2>1. jwks.fetched \in Time BY DEF IdpInv, IdpType
  <2>2. ASSUME jwks.fetched # Never, NEW j \in Kids \ jwks.keys PROVE NotBefore(j, jwks.fetched - AnswerTime)'
    <3>1. PICK f \in Nat : f = jwks.fetched BY <2>1, <2>2 DEF Time
    <3>2. f <= idpClock /\ NotBefore(j, f - AnswerTime) BY <2>2, <3>1 DEF IdpInv, CacheSound
    <3>3. f - AnswerTime \in Int /\ f - AnswerTime <= idpClock
      BY <3>1, <3>2, IdpKeysAssumption DEF IdpInv, IdpType
    <3>4. NotBefore(j, f - AnswerTime)' BY <1>1, <1>2, <3>2, <3>3 DEF NotBefore
    <3> QED BY <1>1, <3>1, <3>4
  <2> QED BY <1>1, <2>2 DEF IdpInv, CacheSound
<1>5. ASSUME NEW t \in Tasks, task[t] \in KeyTask PROVE KeySound(t)'
  <2>1. KeySound(t) /\ task[t].kid \in Kids /\ task[t].asked \in Nat BY <1>5, TaskKinds DEF IdpInv
  <2>2. AnswerSound(t) => AnswerSound(t)' BY <1>1, <1>2 DEF AnswerSound
  <2>3. CameLate(t) => CameLate(t)'
    <3>1. idpClock > task[t].asked - MinRefresh - AnswerTime /\ task[t].asked \in Nat
      BY <2>1, IdpKeysAssumption DEF KeySound, IdpInv, IdpType
    <3> QED BY <1>1, <2>1, <3>1 DEF CameLate
  <2> QED BY <1>1, <2>1, <2>2, <2>3 DEF KeySound
<1>6. \A t \in Tasks : task[t] \in DocTask => DocSound(t)' BY <1>1 DEF IdpInv, DocSound
<1> QED BY <1>1, <1>3, <1>4, <1>5, <1>6 DEF IdpInv

\* A fresh cache without the key: it was published no earlier than an answer before.
LEMMA FreshCacheRefuses ==
  ASSUME IdpInv, NEW k \in Kids \ jwks.keys, NEW asked \in Nat, asked <= idpClock,
         Younger(jwks.fetched, MinRefresh)
  PROVE  published[k] = Never \/ published[k] > asked - MinRefresh - AnswerTime
<1>1. PICK f \in Nat : f = jwks.fetched /\ idpClock - f < MinRefresh
  BY DEF Younger, IdpInv, IdpType, Time
<1>2. NotBefore(k, f - AnswerTime) BY <1>1 DEF Younger, IdpInv, CacheSound
<1>3. published[k] \in Time /\ idpClock \in Nat BY DEF IdpInv, IdpType
<1> QED BY <1>1, <1>2, <1>3, IdpKeysAssumption DEF NotBefore, Time

LEMMA AsksKeepInv ==
  ASSUME IdpInv, NEW t \in Tasks
  PROVE  /\ NeedDocument(t) => IdpInv'
         /\ \A k \in Kids : FindKey(t, k) => IdpInv'
<1>1. ASSUME NeedDocument(t) PROVE IdpInv'
  <2> DEFINE x == [at |-> "doc", want |-> "document", had |-> FALSE]
  <2>1. x \in DocTask /\ ~x.had BY DEF DocTask, DocAts
  <2>2. task' = [task EXCEPT ![t] = x] /\ UNCHANGED <<published, document, jwks, jwksFlight, idpClock>>
    BY <1>1 DEF NeedDocument
  <2> HIDE DEF x
  <2> QED BY <2>1, <2>2, DocTaskMoves
<1>2. ASSUME NEW k \in Kids, FindKey(t, k) PROVE IdpInv'
  <2> DEFINE known == k \in jwks.keys
             at == IF known /\ Younger(jwks.fetched, JwksTtl) THEN "served"
                   ELSE IF Younger(jwks.fetched, MinRefresh)
                     THEN IF known THEN "served" ELSE "refused"
                   ELSE "fly"
             x == [at |-> at, want |-> "key", kid |-> k, known |-> known, had |-> FALSE,
                   keys |-> {}, answered |-> Never, asked |-> idpClock, met |-> known, missed |-> ~known]
  <2>1. task' = [task EXCEPT ![t] = x] /\ UNCHANGED <<published, document, jwks, jwksFlight, idpClock>>
    BY <1>2 DEF FindKey
  <2>2. /\ at \in {"served", "refused", "fly"} /\ (at = "served" => known)
        /\ (at = "refused" => ~known /\ Younger(jwks.fetched, MinRefresh))
    OBVIOUS
  <2>3. idpClock \in Nat BY DEF IdpInv, IdpType
  <2> HIDE DEF at
  <2>4. x \in KeyTask BY <2>2, <2>3 DEF KeyTask, KeyAts, DocAts, Time
  <2>5. /\ x.at = at /\ x.kid = k /\ x.known = known /\ x.had = FALSE /\ x.asked = idpClock
        /\ x.met = known /\ x.missed = ~known
    OBVIOUS
  <2> HIDE DEF x
  <2>6. task'[t] = x BY <2>1 DEF IdpInv, IdpType
  <2>7. at = "refused" => published[k] = Never \/ published[k] > idpClock - MinRefresh - AnswerTime
    BY <2>2, <2>3, FreshCacheRefuses
  <2>8. KeySound(t)'
    <3>1. /\ task'[t].at = at /\ task'[t].kid = k /\ (task'[t].known <=> known) /\ ~task'[t].had
          /\ task'[t].asked = idpClock /\ (task'[t].met <=> known) /\ (task'[t].missed <=> ~known)
      BY <2>5, <2>6
    <3>2. at \notin Flying \cup Looking \cup {"fetch", "store", "unavailable"} BY <2>2 DEF Looking, Flying
    <3>3. CameLate(t)' \/ at # "refused" BY <2>1, <2>7, <3>1 DEF CameLate
    <3> QED BY <2>1, <2>2, <2>3, <3>1, <3>2, <3>3 DEF KeySound
  <2>9. jwksFlight' \in Tasks \cup {Nobody} BY <2>1 DEF IdpInv, IdpType
  <2>10. x \notin DocTask BY <2>4, TaskKinds
  <2> QED BY <2>1, <2>4, <2>8, <2>9, <2>10, OneTaskMoves
<1> QED BY <1>1, <1>2

LEMMA KeyFlightsKeepInv ==
  ASSUME IdpInv, NEW t \in Tasks, FlyForKeys(t) \/ FlightFree(t) \/ RecheckKeys(t)
  PROVE  IdpInv'
<1>1. task[t].at \in {"fly", "queued", "recheck"} BY DEF FlyForKeys, FlightFree, RecheckKeys
<1>2. task[t] \in KeyTask BY <1>1, TaskKinds DEF IdpInv, IdpType, DocAts
<1>3. KeySound(t) /\ task[t].kid \in Kids /\ task[t].asked \in Nat BY <1>2, TaskKinds DEF IdpInv
<1>4. UNCHANGED <<published, document, jwks, idpClock>> BY DEF FlyForKeys, FlightFree, RecheckKeys
<1>5. jwksFlight \in Tasks \cup {Nobody} BY DEF IdpInv, IdpType
<1> USE DEF KeyAts, DocAts, Flying, Looking
<1>6. CASE jwksFlight = Nobody /\ jwksFlight' = t /\ Moves(t, "recheck")
  <2>1. \A u \in Tasks : jwksFlight # u BY <1>6, IdpKeysAssumption
  <2> QED BY <1>2, <1>4, <1>6, <2>1, KeyTaskMoves
<1>7. CASE FlyForKeys(t) /\ jwksFlight # Nobody
  <2>1. UNCHANGED jwksFlight /\ Moves(t, IF task[t].known THEN "served" ELSE "queued")
    BY <1>7 DEF FlyForKeys
  <2>2. CASE task[t].known
    <3>1. Moves(t, "served") /\ task[t].met BY <1>3, <2>1, <2>2 DEF KeySound
    <3> QED BY <1>2, <1>4, <1>5, <2>1, <3>1, KeyTaskMoves
  <2>3. CASE ~task[t].known
    <3>1. Moves(t, "queued") BY <2>1, <2>3
    <3> QED BY <1>2, <1>4, <1>5, <2>1, <3>1, KeyTaskMoves
  <2> QED BY <2>2, <2>3
<1>8. CASE RecheckKeys(t)
  <2>0. jwksFlight = t BY <1>3, <1>8 DEF RecheckKeys, KeySound
  <2>1. CASE Younger(jwks.fetched, MinRefresh) /\ task[t].kid \in jwks.keys
    <3>1. Moves(t, "served") /\ task[t].met /\ jwksFlight' = Nobody BY <1>3, <1>8, <2>1 DEF RecheckKeys, KeySound
    <3> QED BY <1>2, <1>4, <2>0, <3>1, KeyTaskMoves
  <2>2. CASE Younger(jwks.fetched, MinRefresh) /\ task[t].kid \notin jwks.keys
    <3>1. Moves(t, "refused") /\ task[t].missed /\ jwksFlight' = Nobody BY <1>3, <1>8, <2>2 DEF RecheckKeys, KeySound
    <3>2. task[t].asked <= idpClock BY <1>3 DEF KeySound
    <3>3. CameLate(t) BY <1>3, <2>2, <3>2, FreshCacheRefuses DEF CameLate
    <3> QED BY <1>2, <1>4, <2>0, <3>1, <3>3, KeyTaskMoves
  <2>3. CASE ~Younger(jwks.fetched, MinRefresh)
    <3>1. Moves(t, "doc") /\ jwksFlight' = t BY <1>8, <2>0, <2>3 DEF RecheckKeys
    <3> QED BY <1>2, <1>4, <2>0, <3>1, KeyTaskMoves
  <2> QED BY <2>1, <2>2, <2>3
<1> QED BY <1>6, <1>7, <1>8 DEF FlyForKeys, FlightFree

LEMMA GotIsNot == \A t \in Tasks : Got(t) \in {"served", "fetch"} BY DEF Got

\* What the document's flight gives a task, whether it needs the keys or not.
LEMMA DocumentServes ==
  ASSUME IdpInv, NEW t \in Tasks, task[t].at \in Looking, NEW at \in Looking \cup {Got(t), "unavailable"},
         Moves(t, at), UNCHANGED <<published, jwks, idpClock>>, document' = document \/ document' \in Nat,
         \/ jwksFlight' = jwksFlight /\ at # "unavailable"
         \/ at = "unavailable" /\ jwksFlight' = IF jwksFlight = t THEN Nobody ELSE jwksFlight,
         at = Got(t) => document' # Never,
         at = "unavailable" => ~task[t].had
  PROVE  IdpInv'
<1> USE DEF KeyAts, DocAts, Flying, Looking
<1>0. jwksFlight \in Tasks \cup {Nobody} BY DEF IdpInv, IdpType
<1>1. CASE task[t] \in DocTask
  <2>1. at \in DocAts BY <1>1, TaskKinds DEF Got
  <2>2. task' = [task EXCEPT ![t] = GoneTo(t, at)] /\ GoneTo(t, at) \in DocTask
    BY <1>1, <2>1, GoneToEdits DEF Moves, GoneTo
  <2>3. GoneTo(t, at).had => document' # Never
    BY <1>1, <2>1, GoneToEdits, IdpKeysAssumption DEF IdpInv, DocSound
  <2> QED BY <1>0, <2>2, <2>3, DocTaskMoves
<1>2. CASE task[t] \in KeyTask
  <2>1. KeySound(t) /\ task[t].want = "key" BY <1>2, TaskKinds DEF IdpInv
  <2>2. jwksFlight = t BY <2>1 DEF KeySound
  <2>3. Got(t) = "fetch" BY <2>1 DEF Got
  <2>4. at \in KeyAts \ {"store"} /\ at \notin {"served", "refused"} BY <2>3
  <2>5. at \in Looking \cup {"unavailable"} /\ ~task[t].had => task[t].missed BY <2>1, <2>3 DEF KeySound
  <2>6. jwksFlight' \in Tasks \cup {Nobody} /\ (at \in Flying => jwksFlight' = t)
    BY <1>0, <2>2, <2>4
  <2>7. at = "fetch" => document' # Never BY <2>3
  <2>8. at \in {"refused", "unavailable"} => task[t].missed BY <2>4, <2>5
  <2> QED BY <1>2, <2>2, <2>4, <2>5, <2>6, <2>7, <2>8, KeyTaskMoves
<1>3. CASE task[t] = NoTask BY <1>3, TaskKinds
<1> QED BY <1>1, <1>2, <1>3 DEF IdpInv, IdpType

LEMMA DocumentsKeepInv ==
  ASSUME IdpInv, NEW t \in Tasks
  PROVE  /\ FlyForDocument(t) \/ DocumentFlightFree(t) \/ RecheckDocument(t) => IdpInv'
         /\ \A good \in BOOLEAN : FetchDocument(t, good) => IdpInv'
<1> USE DEF Looking
<1>0. task[t].at \in Looking /\ task[t].had => document # Never
  <2>1. CASE task[t] \in KeyTask BY <2>1 DEF IdpInv, KeySound
  <2>2. CASE task[t] \in DocTask BY <2>2 DEF IdpInv, DocSound
  <2>3. CASE task[t] = NoTask BY <2>3, TaskKinds
  <2> QED BY <2>1, <2>2, <2>3 DEF IdpInv, IdpType
<1>1. ASSUME FlyForDocument(t) PROVE IdpInv'
  <2>0. task[t].at \in Looking /\ UNCHANGED <<published, document, jwks, jwksFlight, idpClock>>
    BY <1>1 DEF FlyForDocument
  <2>1. CASE docFlight = Nobody
    <3>1. Moves(t, "docRecheck") BY <1>1, <2>1 DEF FlyForDocument
    <3> QED BY <2>0, <3>1, DocumentServes, GotIsNot
  <2>2. CASE docFlight # Nobody /\ task[t].had
    <3>1. Moves(t, Got(t)) /\ document # Never BY <1>0, <1>1, <2>0, <2>2 DEF FlyForDocument
    <3> QED BY <2>0, <3>1, DocumentServes, GotIsNot
  <2>3. CASE docFlight # Nobody /\ ~task[t].had
    <3>1. Moves(t, "docQueued") BY <1>1, <2>3 DEF FlyForDocument
    <3> QED BY <2>0, <3>1, DocumentServes, GotIsNot
  <2> QED BY <2>1, <2>2, <2>3
<1>2. ASSUME DocumentFlightFree(t) PROVE IdpInv'
  <2>1. /\ task[t].at \in Looking /\ UNCHANGED <<published, document, jwks, jwksFlight, idpClock>>
        /\ Moves(t, "docRecheck")
    BY <1>2 DEF DocumentFlightFree
  <2> QED BY <2>1, DocumentServes, GotIsNot
<1>3. ASSUME RecheckDocument(t) PROVE IdpInv'
  <2>0. task[t].at \in Looking /\ UNCHANGED <<published, document, jwks, jwksFlight, idpClock>>
    BY <1>3 DEF RecheckDocument
  <2>1. CASE Younger(document, DocTtl)
    <3>1. Moves(t, Got(t)) /\ document # Never BY <1>3, <2>1 DEF RecheckDocument, Younger
    <3> QED BY <2>0, <3>1, DocumentServes, GotIsNot
  <2>2. CASE ~Younger(document, DocTtl)
    <3>1. Moves(t, "docFetch") BY <1>3, <2>2 DEF RecheckDocument
    <3> QED BY <2>0, <3>1, DocumentServes, GotIsNot
  <2> QED BY <2>1, <2>2
<1>4. ASSUME NEW good \in BOOLEAN, FetchDocument(t, good) PROVE IdpInv'
  <2>0. /\ task[t].at \in Looking /\ UNCHANGED <<published, jwks, idpClock>>
        /\ idpClock \in Nat /\ document' = IF good THEN idpClock ELSE document
        /\ Moves(t, IF good \/ task[t].had THEN Got(t) ELSE "unavailable")
        /\ jwksFlight' = IF ~good /\ ~task[t].had /\ jwksFlight = t THEN Nobody ELSE jwksFlight
    BY <1>4 DEF FetchDocument, IdpInv, IdpType
  <2>1. document' = document \/ document' \in Nat BY <2>0
  <2>2. CASE good \/ task[t].had
    <3>1. document' # Never BY <1>0, <2>0, <2>2, IdpKeysAssumption
    <3>2. Moves(t, Got(t)) /\ jwksFlight' = jwksFlight BY <2>0, <2>2
    <3> QED BY <2>0, <2>1, <3>1, <3>2, DocumentServes, GotIsNot
  <2>3. CASE ~(good \/ task[t].had)
    <3>1. Moves(t, "unavailable") /\ jwksFlight' = IF jwksFlight = t THEN Nobody ELSE jwksFlight
      BY <2>0, <2>3
    <3> QED BY <2>0, <2>1, <2>3, <3>1, DocumentServes, GotIsNot
  <2> QED BY <2>2, <2>3
<1> QED BY <1>1, <1>2, <1>3, <1>4

LEMMA ReadsKeepInv ==
  ASSUME IdpInv, NEW t \in Tasks, ReadDocument(t)
  PROVE  IdpInv'
<1> DEFINE at == IF Younger(document, DocTtl) THEN Got(t) ELSE "docFly"
           had == document # Never
           x == [task[t] EXCEPT !.at = at, !.had = had]
<1>0. /\ task' = [task EXCEPT ![t] = x] /\ UNCHANGED <<published, document, jwks, jwksFlight, idpClock>>
      /\ task[t].at = "doc" /\ had \in BOOLEAN
  BY DEF ReadDocument
<1>1. at = "docFly" \/ (at = Got(t) /\ document # Never) BY DEF Younger
<1> HIDE DEF at, had
<1>2. CASE task[t] \in DocTask
  <2>1. at \in DocAts BY <1>1, <1>2, TaskKinds DEF Got, DocAts
  <2>2. x \in DocTask /\ x.had = had BY <1>0, <1>2, <2>1 DEF DocTask
  <2> HIDE DEF x
  <2> QED BY <1>0, <2>2, DocTaskMoves DEF had
<1>3. CASE task[t] \in KeyTask
  <2>1. at = "docFly" \/ (at = "fetch" /\ document # Never) BY <1>1, <1>3, TaskKinds DEF Got
  <2>2. /\ x \in KeyTask /\ x.at = at /\ x.had = had /\ x.kid = task[t].kid /\ x.known = task[t].known
        /\ x.asked = task[t].asked /\ x.met = task[t].met /\ x.missed = task[t].missed
    BY <1>0, <1>3, <2>1 DEF KeyTask, KeyAts, DocAts
  <2> HIDE DEF x
  <2>3. task'[t] = x BY <1>0 DEF IdpInv, IdpType
  <2>4. KeySound(t) BY <1>3 DEF IdpInv
  <2>5. document = Never => jwks.keys = {} BY DEF IdpInv, CacheSound
  <2>6. document = Never => task[t].missed BY <2>4, <2>5, <1>3, TaskKinds DEF KeySound
  <2>7. KeySound(t)'
    BY <1>0, <2>1, <2>2, <2>3, <2>4, <2>6 DEF KeySound, Looking, Flying, had
  <2>8. jwksFlight' \in Tasks \cup {Nobody} BY <1>0 DEF IdpInv, IdpType
  <2>9. x \notin DocTask BY <2>2, TaskKinds
  <2> QED BY <1>0, <2>2, <2>7, <2>8, <2>9, OneTaskMoves
<1>4. CASE task[t] = NoTask BY <1>0, <1>4, TaskKinds
<1> QED BY <1>2, <1>3, <1>4 DEF IdpInv, IdpType

LEMMA FetchersAreKeyTasks ==
  ASSUME IdpInv, NEW t \in Tasks, task[t].at \in {"fetch", "store"}
  PROVE  /\ task[t] \in KeyTask /\ KeySound(t) /\ jwksFlight = t
         /\ \A u \in Tasks \ {t} : task[u] \in KeyTask => task[u].at \notin Flying
<1>1. task[t] \in KeyTask BY TaskKinds DEF IdpInv, IdpType, DocAts
<1>2. KeySound(t) /\ jwksFlight = t BY <1>1 DEF IdpInv, KeySound, Flying
<1> QED BY <1>1, <1>2 DEF IdpInv, KeySound

LEMMA AnswersKeepInv ==
  ASSUME IdpInv, NEW t \in Tasks, AnswerKeys(t)
  PROVE  IdpInv'
<1> DEFINE ks == {k \in Kids : published[k] # Never}
           x == [task[t] EXCEPT !.at = "store", !.answered = idpClock, !.keys = ks]
<1>0. /\ task' = [task EXCEPT ![t] = x] /\ UNCHANGED <<published, document, jwks, jwksFlight, idpClock>>
      /\ task[t].at = "fetch" /\ ks \subseteq Kids /\ idpClock \in Nat
  BY DEF AnswerKeys, IdpInv, IdpType
<1>1. task[t] \in KeyTask /\ KeySound(t) /\ jwksFlight = t BY <1>0, FetchersAreKeyTasks
<1>2. \A k \in Kids \ ks : published[k] = Never OBVIOUS
<1> HIDE DEF ks
<1>3. /\ x \in KeyTask /\ x.at = "store" /\ x.answered = idpClock /\ x.keys = ks /\ x.had = task[t].had
      /\ x.kid = task[t].kid /\ x.known = task[t].known /\ x.asked = task[t].asked
      /\ x.met = task[t].met /\ x.missed = task[t].missed
  BY <1>0, <1>1 DEF KeyTask, KeyAts, Time
<1> HIDE DEF x
<1>4. task'[t] = x BY <1>0 DEF IdpInv, IdpType
<1>5. task[t].asked <= idpClock /\ document # Never BY <1>0, <1>1 DEF KeySound
<1>6. AnswerSound(t)'
  BY <1>0, <1>2, <1>3, <1>4, <1>5, IdpKeysAssumption DEF AnswerSound, NotBefore
<1>7. KeySound(t)' BY <1>0, <1>1, <1>3, <1>4, <1>5, <1>6 DEF KeySound, Looking
<1>8. x \notin DocTask BY <1>3, TaskKinds
<1> QED BY <1>0, <1>1, <1>3, <1>7, <1>8, OneTaskMoves

LEMMA FailuresKeepInv ==
  ASSUME IdpInv, NEW t \in Tasks, FetchFails(t)
  PROVE  IdpInv'
<1>1. /\ task[t].at \in {"fetch", "store"} /\ jwksFlight' = Nobody
      /\ Moves(t, IF task[t].known THEN "served" ELSE "unavailable")
      /\ UNCHANGED <<published, document, jwks, idpClock>>
  BY DEF FetchFails
<1>2. task[t] \in KeyTask /\ KeySound(t) /\ jwksFlight = t BY <1>1, FetchersAreKeyTasks
<1> USE DEF KeyAts, DocAts, Flying, Looking
<1>3. CASE task[t].known
  <2>1. Moves(t, "served") /\ task[t].met BY <1>1, <1>2, <1>3 DEF KeySound
  <2> QED BY <1>1, <1>2, <2>1, KeyTaskMoves
<1>4. CASE ~task[t].known
  <2>1. Moves(t, "unavailable") /\ task[t].missed BY <1>1, <1>2, <1>4 DEF KeySound
  <2> QED BY <1>1, <1>2, <2>1, KeyTaskMoves
<1> QED BY <1>3, <1>4

LEMMA EndsKeepInv ==
  ASSUME IdpInv, NEW t \in Tasks, TaskEnds(t)
  PROVE  IdpInv'
<1>1. NoTask \notin DocTask BY TaskKinds DEF DocAts
<1> QED BY <1>1, DocTaskMoves DEF TaskEnds

LEMMA TicksKeepInv ==
  ASSUME IdpInv, IdpTick
  PROVE  IdpInv'
<1>1. /\ idpClock \in Nat /\ idpClock' = idpClock + 1
      /\ UNCHANGED <<published, document, jwks, docFlight, jwksFlight, task>>
  BY DEF IdpTick, IdpInv, IdpType
<1>2. IdpType' BY <1>1 DEF IdpInv, IdpType
<1>3. CacheSound'
  <2>1. jwks.fetched # Never => jwks.fetched \in Nat /\ jwks.fetched <= idpClock
    BY DEF IdpInv, IdpType, CacheSound, Time
  <2> QED BY <1>1, <2>1 DEF IdpInv, CacheSound, NotBefore
<1>4. ASSUME NEW t \in Tasks, task[t] \in KeyTask PROVE KeySound(t)'
  <2>1. KeySound(t) /\ task[t].asked \in Nat BY <1>4, TaskKinds DEF IdpInv
  <2>2. task[t].at = "store" => AnswerSound(t)'
    <3> SUFFICES ASSUME task[t].at = "store" PROVE AnswerSound(t)' OBVIOUS
    <3>1. AnswerSound(t) BY <2>1 DEF KeySound
    <3>2. idpClock < task[t].answered + AnswerTime BY DEF IdpTick
    <3>3. PICK a \in Nat : a = task[t].answered BY <3>1 DEF AnswerSound
    <3>4. a <= idpClock' /\ idpClock' <= a + AnswerTime
      BY <1>1, <3>1, <3>2, <3>3, IdpKeysAssumption DEF AnswerSound
    <3> QED BY <1>1, <3>1, <3>3, <3>4 DEF AnswerSound, NotBefore
  <2>3. CameLate(t)' <=> CameLate(t) BY <1>1 DEF CameLate
  <2>4. task[t].asked <= idpClock' BY <1>1, <2>1 DEF KeySound
  <2> QED BY <1>1, <2>1, <2>2, <2>3, <2>4 DEF KeySound
<1>5. \A t \in Tasks : task[t] \in DocTask => DocSound(t)' BY <1>1 DEF IdpInv, DocSound
<1> QED BY <1>1, <1>2, <1>3, <1>4, <1>5 DEF IdpInv

\* What a store does to a task that was waiting for some key meanwhile, and
\* to the one that stores.
Meets(x, ks) == [x EXCEPT !.met = @ \/ x.kid \in ks, !.missed = @ \/ x.kid \notin ks]
MeetsAndEnds(x, ks) == [Meets(x, ks) EXCEPT !.at = IF x.kid \in x.keys THEN "served" ELSE "refused"]

LEMMA MeetingEdits ==
  ASSUME NEW x \in KeyTask, NEW ks \in SUBSET Kids
  PROVE  /\ Meets(x, ks) \in KeyTask /\ Meets(x, ks).at = x.at
         /\ MeetsAndEnds(x, ks) \in KeyTask
         /\ MeetsAndEnds(x, ks).at = IF x.kid \in x.keys THEN "served" ELSE "refused"
         /\ \A y \in {Meets(x, ks), MeetsAndEnds(x, ks)} :
              /\ y.kid = x.kid /\ y.known = x.known /\ y.had = x.had /\ y.keys = x.keys
              /\ y.answered = x.answered /\ y.asked = x.asked
              /\ (y.met <=> x.met \/ x.kid \in ks) /\ (y.missed <=> x.missed \/ x.kid \notin ks)
<1> DEFINE at == IF x.kid \in x.keys THEN "served" ELSE "refused"
<1>0. at \in KeyAts BY DEF KeyAts, DocAts
<1> HIDE DEF at
<1>1. PICK met \in BOOLEAN, missed \in BOOLEAN :
        met = (x.met \/ x.kid \in ks) /\ missed = (x.missed \/ x.kid \notin ks)
  OBVIOUS
<1>2. Meets(x, ks) = [x EXCEPT !.met = met, !.missed = missed] BY <1>1 DEF Meets
<1>3. MeetsAndEnds(x, ks) = [[x EXCEPT !.met = met, !.missed = missed] EXCEPT !.at = at]
  BY <1>2 DEF MeetsAndEnds, at
<1>4. /\ Meets(x, ks) \in KeyTask /\ Meets(x, ks).at = x.at
      /\ MeetsAndEnds(x, ks) \in KeyTask /\ MeetsAndEnds(x, ks).at = at
  BY <1>0, <1>2, <1>3 DEF KeyTask
<1>5. \A y \in {Meets(x, ks), MeetsAndEnds(x, ks)} :
        /\ y.kid = x.kid /\ y.known = x.known /\ y.had = x.had /\ y.keys = x.keys
        /\ y.answered = x.answered /\ y.asked = x.asked /\ y.met = met /\ y.missed = missed
  <2> DEFINE m == [x EXCEPT !.met = met, !.missed = missed]
             e == [m EXCEPT !.at = at]
  <2>1. /\ m \in KeyTask /\ m.kid = x.kid /\ m.known = x.known /\ m.had = x.had /\ m.keys = x.keys
        /\ m.answered = x.answered /\ m.asked = x.asked /\ m.met = met /\ m.missed = missed
    BY DEF KeyTask
  <2> HIDE DEF m
  <2>2. /\ e.kid = m.kid /\ e.known = m.known /\ e.had = m.had /\ e.keys = m.keys
        /\ e.answered = m.answered /\ e.asked = m.asked /\ e.met = m.met /\ e.missed = m.missed
    BY <2>1 DEF KeyTask
  <2>3. Meets(x, ks) = m /\ MeetsAndEnds(x, ks) = e BY <1>2, <1>3 DEF m
  <2> HIDE DEF e
  <2> QED BY <2>1, <2>2, <2>3
<1> QED BY <1>1, <1>4, <1>5 DEF at
LEMMA StoresKeepInv ==
  ASSUME IdpInv, NEW t \in Tasks, StoreKeys(t)
  PROVE  IdpInv'
<1> DEFINE ks == task[t].keys
<1>0. /\ task[t].at = "store" /\ jwks' = [keys |-> ks, fetched |-> idpClock] /\ jwksFlight' = Nobody
      /\ UNCHANGED <<published, document, idpClock>> /\ idpClock \in Nat
  BY DEF StoreKeys, IdpInv, IdpType
<1>1. /\ task[t] \in KeyTask /\ KeySound(t) /\ jwksFlight = t
      /\ \A u \in Tasks \ {t} : task[u] \in KeyTask => task[u].at \notin Flying
  BY <1>0, FetchersAreKeyTasks
<1>2. ks \subseteq Kids /\ task[t].kid \in Kids /\ task[t].asked \in Nat BY <1>1, TaskKinds
<1>3. AnswerSound(t) /\ document # Never BY <1>0, <1>1 DEF KeySound
<1>4. jwks'.keys = ks /\ jwks'.fetched = idpClock /\ jwks' \in [keys : SUBSET Kids, fetched : Time]
  BY <1>0, <1>2 DEF Time
<1>5. ASSUME NEW u \in Tasks
      PROVE  task'[u] = IF task[u] \notin KeyTask THEN task[u]
                        ELSE IF u = t THEN MeetsAndEnds(task[u], ks) ELSE Meets(task[u], ks)
  <2>1. CASE task[u] \in KeyTask
    <3>1. task[u].at # "idle" /\ task[u].want = "key" BY <2>1, TaskKinds DEF KeyAts, DocAts
    <3> QED BY <2>1, <3>1 DEF StoreKeys, MeetsAndEnds, Meets
  <2>2. CASE task[u] \notin KeyTask
    <3>1. ~(task[u].at # "idle" /\ task[u].want = "key") /\ u # t
      BY <1>1, <2>2, TaskKinds DEF IdpInv, IdpType
    <3> QED BY <2>2, <3>1 DEF StoreKeys
  <2> QED BY <2>1, <2>2
<1>6. \A u \in Tasks : task'[u] \in {NoTask} \cup DocTask \cup KeyTask
  BY <1>2, <1>5, MeetingEdits DEF IdpInv, IdpType
<1>7. IdpType'
  <2>1. task' \in [Tasks -> {NoTask} \cup DocTask \cup KeyTask] BY <1>6 DEF StoreKeys
  <2> QED BY <1>0, <1>4, <2>1 DEF IdpInv, IdpType
<1>8. CacheSound'
  <2>1. PICK a \in Nat : a = task[t].answered /\ a <= idpClock /\ idpClock <= a + AnswerTime
    BY <1>3 DEF AnswerSound
  <2>2. ASSUME NEW k \in Kids \ ks PROVE NotBefore(k, idpClock - AnswerTime)
    <3>1. NotBefore(k, a) /\ published[k] \in Time BY <1>3, <2>1 DEF AnswerSound, IdpInv, IdpType
    <3> QED BY <1>0, <2>1, <3>1, IdpKeysAssumption DEF NotBefore, Time
  <2>3. \A k \in Kids \ ks : published'[k] = Never \/ published'[k] >= jwks'.fetched - AnswerTime
    BY <1>0, <1>4, <2>2 DEF NotBefore
  <2>4. jwks'.fetched # Never /\ document' # Never /\ jwks'.fetched <= idpClock'
    BY <1>0, <1>3, <1>4, IdpKeysAssumption
  <2> QED BY <1>4, <2>3, <2>4 DEF CacheSound, NotBefore
<1>9. ASSUME NEW u \in Tasks, task'[u] \in KeyTask PROVE KeySound(u)'
  <2>1. task[u] \in KeyTask BY <1>5, <1>9
  <2>2. KeySound(u) /\ task[u].kid \in Kids /\ task[u].asked \in Nat BY <2>1, TaskKinds DEF IdpInv
  <2>3. CASE u = t
    <3> DEFINE y == MeetsAndEnds(task[t], ks)
    <3>1. /\ y.at = (IF task[t].kid \in ks THEN "served" ELSE "refused")
          /\ y.kid = task[t].kid /\ y.known = task[t].known /\ y.had = task[t].had
          /\ y.asked = task[t].asked
          /\ (y.met <=> task[t].met \/ task[t].kid \in ks) /\ (y.missed <=> task[t].missed \/ task[t].kid \notin ks)
      BY <1>1, <1>2, MeetingEdits
    <3>2. task'[t] = y BY <1>1, <1>5
    <3> HIDE DEF y
    <3>3. y.at = "refused" => CameLate(t)'
      <4> SUFFICES ASSUME task[t].kid \notin ks PROVE CameLate(t)' BY <3>1
      <4>1. NotBefore(task[t].kid, task[t].answered) BY <1>2, <1>3 DEF AnswerSound
      <4>2. PICK a \in Nat : a = task[t].answered /\ task[t].asked <= a BY <1>3 DEF AnswerSound
      <4>3. published[task[t].kid] \in Time BY <1>2 DEF IdpInv, IdpType
      <4>4. published[task[t].kid] = Never \/ published[task[t].kid] > task[t].asked - MinRefresh - AnswerTime
        BY <1>2, <4>1, <4>2, <4>3, IdpKeysAssumption DEF NotBefore, Time
      <4> QED BY <1>0, <3>1, <3>2, <4>4 DEF CameLate
    <3>4. y.at \notin Flying \cup Looking \cup {"fetch", "store", "unavailable"} BY <3>1 DEF Flying, Looking
    <3>5. task[t].asked <= idpClock BY <1>1 DEF KeySound
    <3> QED BY <1>0, <1>3, <1>4, <2>2, <2>3, <3>1, <3>2, <3>3, <3>4, <3>5 DEF KeySound
  <2>4. CASE u # t
    <3> DEFINE y == Meets(task[u], ks)
    <3>1. /\ y.at = task[u].at
          /\ y.kid = task[u].kid /\ y.known = task[u].known /\ y.had = task[u].had
          /\ y.asked = task[u].asked
          /\ (y.met <=> task[u].met \/ task[u].kid \in ks) /\ (y.missed <=> task[u].missed \/ task[u].kid \notin ks)
      BY <1>2, <2>1, MeetingEdits
    <3>2. task'[u] = y BY <1>5, <2>1, <2>4
    <3> HIDE DEF y
    <3>3. y.at \notin Flying BY <1>1, <2>1, <2>4, <3>1
    <3>4. y.at \notin Looking \cup {"fetch", "store"} BY <3>3 DEF Flying
    <3>5. CameLate(u) => CameLate(u)' BY <1>0, <3>1, <3>2 DEF CameLate
    <3>6. (task[u].known => task[u].met) /\ (~task[u].known => task[u].missed) BY <2>2 DEF KeySound
    <3> QED BY <1>0, <1>3, <1>4, <2>2, <3>1, <3>2, <3>3, <3>4, <3>5, <3>6 DEF KeySound
  <2> QED BY <2>3, <2>4
<1>10. ASSUME NEW u \in Tasks, task'[u] \in DocTask PROVE DocSound(u)'
  BY <1>0, <1>3, <1>10 DEF DocSound
<1> QED BY <1>7, <1>8, <1>9, <1>10 DEF IdpInv

LEMMA IdpStep == IdpInv /\ [INext]_ivars => IdpInv'
<1> SUFFICES ASSUME IdpInv, [INext]_ivars PROVE IdpInv' OBVIOUS
<1>1. CASE UNCHANGED ivars
  BY <1>1 DEF ivars, IdpInv, IdpType, CacheSound, KeySound, DocSound, AnswerSound, CameLate, NotBefore
<1>2. ASSUME NEW t \in Tasks,
             \/ NeedDocument(t) \/ \E k \in Kids : FindKey(t, k)
             \/ FlyForKeys(t) \/ FlightFree(t) \/ RecheckKeys(t)
             \/ ReadDocument(t) \/ FlyForDocument(t) \/ DocumentFlightFree(t) \/ RecheckDocument(t)
             \/ \E good \in BOOLEAN : FetchDocument(t, good)
             \/ AnswerKeys(t) \/ StoreKeys(t) \/ FetchFails(t) \/ TaskEnds(t)
      PROVE  IdpInv'
  BY <1>2, AsksKeepInv, KeyFlightsKeepInv, ReadsKeepInv, DocumentsKeepInv, AnswersKeepInv, StoresKeepInv,
     FailuresKeepInv, EndsKeepInv, Zenon
<1> QED BY <1>1, <1>2, PublishingKeepsInv, TicksKeepInv DEF INext

(* A broken identity provider stops nobody whose key is held, a withdrawn    *)
(* key stops, a new one is found within MinRefresh and an answer's time, and  *)
(* one task fetches at a time, for any number of requests and keys and       *)
(* whichever of them are dropped (find_key, fetch_jwks, metadata).         *)
THEOREM KeysServeWhileTheProviderFails == ISpec => []KnownKeysServe
<1>1. ISpec => []IdpInv BY IdpInit, IdpStep, PTL DEF ISpec
<1> QED BY <1>1, KeysServe, PTL

-----------------------------------------------------------------------------
(* Signing in with a password.  What everyone's bucket lacks has been taken   *)
(* from the addresses' own first: it lacks no more than they do, less one for *)
(* each request that has taken its own and comes for one of everyone's        *)
(* (PaidFor).  That lasts over a refill, by which an address gains no more    *)
(* than its share, as long as there is room for those that lack anything, and *)
(* with room for them an empty bucket would lack more than they can.          *)

PostAts == {"email", "aggregate", "throttled", "crowdedOut", "account", "credential", "verify", "stamp"}
SigningIn(x) == x \in [at : PostAts, email : Addresses, version : {x.version}, known : {x.known}]

\* The tokens the addresses' buckets lack, and the requests that have taken one of their own.
Lacking(b) == {w \in BucketKeys \X (1 .. EmailBurst) : w[2] > b[w[1]]}
Taken(po) == {r \in Posts : po[r].at = "aggregate"}

PaidFor(b, all, po) == AllBurst + Cardinality(Taken(po)) <= all + Cardinality(Lacking(b))

LoginInv ==
  /\ bucket \in [BucketKeys -> 0 .. EmailBurst] /\ everyone \in Nat
  /\ post = [r \in Posts |-> post[r]] /\ \A r \in Posts : post[r] = NoPost \/ SigningIn(post[r])
  /\ crowd \in SUBSET BucketKeys /\ \A k \in BucketKeys : bucket[k] < EmailBurst => k \in crowd
  /\ RoomFor(crowd) => PaidFor(bucket, everyone, post)

LEMMA LackingFinite == ASSUME NEW b PROVE IsFiniteSet(Lacking(b)) /\ Cardinality(Lacking(b)) \in Nat
<1>1. IsFiniteSet(1 .. EmailBurst) BY LoginAssumption, FS_Interval
<1>2. IsFiniteSet(BucketKeys) BY LoginAssumption
<1>3. IsFiniteSet(BucketKeys \X (1 .. EmailBurst)) BY <1>1, <1>2, FS_Product
<1>4. Lacking(b) \in SUBSET (BucketKeys \X (1 .. EmailBurst)) BY DEF Lacking
<1>5. IsFiniteSet(Lacking(b)) BY <1>3, <1>4, FS_Subset
<1> QED BY <1>5, FS_CardinalityType

LEMMA CrowdFinite ==
  ASSUME NEW K \in SUBSET BucketKeys PROVE IsFiniteSet(K) /\ Cardinality(K) \in Nat
<1>1. IsFiniteSet(BucketKeys) BY LoginAssumption
<1>2. IsFiniteSet(K) BY <1>1, FS_Subset
<1> QED BY <1>2, FS_CardinalityType

\* Where the buckets of K's addresses alone lack anything, they lack no more than their bursts.
LEMMA LackingBounded ==
  ASSUME NEW b, NEW K \in SUBSET BucketKeys, b \in [BucketKeys -> 0 .. EmailBurst],
         \A k \in BucketKeys : b[k] < EmailBurst => k \in K
  PROVE  Cardinality(Lacking(b)) <= EmailBurst * Cardinality(K)
<1>1. IsFiniteSet(1 .. EmailBurst) /\ Cardinality(1 .. EmailBurst) = EmailBurst BY LoginAssumption, FS_Interval
<1>2. IsFiniteSet(K) /\ Cardinality(K) \in Nat BY CrowdFinite
<1>3. /\ IsFiniteSet(K \X (1 .. EmailBurst))
      /\ Cardinality(K \X (1 .. EmailBurst)) = Cardinality(K) * EmailBurst
  BY <1>1, <1>2, FS_Product
<1>4. ASSUME NEW v \in Lacking(b) PROVE v \in K \X (1 .. EmailBurst)
  <2>1. PICK j \in BucketKeys, i \in 1 .. EmailBurst : v = <<j, i>> /\ i > b[j] BY DEF Lacking
  <2>2. b[j] < EmailBurst BY <2>1, LoginAssumption
  <2> QED BY <2>1, <2>2
<1>5. Lacking(b) \in SUBSET (K \X (1 .. EmailBurst)) BY <1>4
<1>6. Cardinality(Lacking(b)) <= Cardinality(K \X (1 .. EmailBurst)) BY <1>3, <1>5, FS_Subset
<1>7. Cardinality(K) * EmailBurst = EmailBurst * Cardinality(K) BY <1>2, LoginAssumption
<1> QED BY <1>3, <1>6, <1>7

\* Where there is room for some addresses there is room for fewer.
LEMMA RoomForFewer ==
  ASSUME NEW K \in SUBSET BucketKeys, NEW L \in SUBSET K, RoomFor(K) PROVE RoomFor(L)
<1>1. IsFiniteSet(K) /\ Cardinality(K) \in Nat BY CrowdFinite
<1>2. Cardinality(L) <= Cardinality(K) /\ Cardinality(L) \in Nat BY <1>1, FS_Subset, FS_CardinalityType
<1>3. PICK m \in Nat, n \in Nat : m = Cardinality(L) /\ n = Cardinality(K) /\ m <= n BY <1>1, <1>2
<1>4. EmailBurst * m <= EmailBurst * n /\ EmailRefill * m <= EmailRefill * n BY <1>3, LoginAssumption
<1>5. EmailBurst * n <= AllBurst /\ EmailRefill * n <= AllRefill BY <1>3 DEF RoomFor
<1>6. PICK a \in Int, c \in Int, d \in Int, e \in Int :
        a = EmailBurst * m /\ c = EmailBurst * n /\ d = EmailRefill * m /\ e = EmailRefill * n
  BY <1>3, LoginAssumption
<1>7. a <= AllBurst /\ d <= AllRefill BY <1>4, <1>5, <1>6, LoginAssumption
<1> QED BY <1>3, <1>6, <1>7 DEF RoomFor

LEMMA TakenFinite ==
  ASSUME NEW po PROVE IsFiniteSet(Taken(po)) /\ Cardinality(Taken(po)) \in Nat
<1>1. Taken(po) \in SUBSET Posts BY DEF Taken
<1>2. IsFiniteSet(Taken(po)) BY <1>1, LoginAssumption, FS_Subset
<1> QED BY <1>2, FS_CardinalityType

LEMMA LoginInit == PInit => LoginInv
<1> SUFFICES ASSUME PInit PROVE LoginInv OBVIOUS
<1>1. bucket = [k \in BucketKeys |-> EmailBurst] /\ everyone = AllBurst /\ everyone \in Nat /\ crowd = {}
  BY LoginAssumption DEF PInit
<1>2. bucket \in [BucketKeys -> 0 .. EmailBurst] /\ \A k \in BucketKeys : ~(bucket[k] < EmailBurst)
  BY <1>1, LoginAssumption
<1>3. post = [r \in Posts |-> post[r]] /\ \A r \in Posts : post[r] = NoPost BY DEF PInit
<1>4. Taken(post) = {} BY <1>3 DEF Taken, NoPost
<1>5. Cardinality(Taken(post)) = 0 BY <1>4, FS_EmptySet
<1>6. PaidFor(bucket, everyone, post) BY <1>1, <1>5, LackingFinite, LoginAssumption DEF PaidFor
<1> QED BY <1>1, <1>2, <1>3, <1>6 DEF LoginInv

\* A request goes on, with nothing more of its own bucket than it has taken.
LEMMA PostGoesOn ==
  ASSUME LoginInv, NEW r \in Posts, NEW y, post' = [post EXCEPT ![r] = y], y = NoPost \/ SigningIn(y)
  PROVE  /\ post' = [q \in Posts |-> post'[q]] /\ \A q \in Posts : post'[q] = NoPost \/ SigningIn(post'[q])
         /\ post'[r] = y /\ \A q \in Posts : q # r => post'[q] = post[q]
BY DEF LoginInv

LEMMA QuietPost ==
  ASSUME LoginInv, NEW r \in Posts, NEW y, post' = [post EXCEPT ![r] = y], y = NoPost \/ SigningIn(y),
         y.at # "aggregate", UNCHANGED <<bucket, everyone, crowd>>
  PROVE  LoginInv'
<1>1. /\ post' = [q \in Posts |-> post'[q]] /\ \A q \in Posts : post'[q] = NoPost \/ SigningIn(post'[q])
      /\ post'[r] = y /\ \A q \in Posts : q # r => post'[q] = post[q]
  BY PostGoesOn
<1>2. Taken(post') \in SUBSET Taken(post) BY <1>1 DEF Taken
<1>3. Cardinality(Taken(post')) <= Cardinality(Taken(post)) BY <1>2, TakenFinite, FS_Subset
<1>4. Cardinality(Taken(post)) \in Nat /\ Cardinality(Taken(post')) \in Nat /\ Cardinality(Lacking(bucket)) \in Nat
  BY TakenFinite, LackingFinite
<1>5. RoomFor(crowd) => PaidFor(bucket, everyone, post') BY <1>3, <1>4, LoginAssumption DEF LoginInv, PaidFor
<1> QED BY <1>1, <1>5 DEF LoginInv

PostAt(x, at) == [x EXCEPT !.at = at]
LEMMA AtFields ==
  ASSUME NEW x, SigningIn(x), NEW at \in PostAts
  PROVE  SigningIn(PostAt(x, at)) /\ PostAt(x, at).at = at
BY DEF SigningIn, PostAt

\* A request at a place of admit is under way, and its address has a bucket.
LEMMA HasBucket ==
  ASSUME LoginInv, NEW r \in Posts, post[r].at # "idle"
  PROVE  /\ SigningIn(post[r]) /\ Key(r) \in BucketKeys /\ bucket[Key(r)] \in 0 .. EmailBurst
<1>1. SigningIn(post[r]) BY DEF LoginInv, NoPost
<1>2. post[r].email \in Addresses BY <1>1 DEF SigningIn
<1>3. Key(r) \in BucketKeys BY <1>2 DEF Key, BucketKeys
<1> QED BY <1>1, <1>3 DEF LoginInv

\* The address's bucket pays for the request's coming to everyone's.
LEMMA OwnTokenKeeps ==
  ASSUME LoginInv, NEW r \in Posts, TakeOwn(r, "email")
  PROVE  LoginInv'
<1>0. post[r].at = "email" /\ UNCHANGED everyone BY DEF TakeOwn
<1>1. SigningIn(post[r]) /\ Key(r) \in BucketKeys /\ bucket[Key(r)] \in 0 .. EmailBurst BY <1>0, HasBucket
<1>2. CASE bucket[Key(r)] > 0
  <2> DEFINE k == Key(r)
             w == <<k, bucket[k]>>
             y == PostAt(post[r], "aggregate")
  <2>1. bucket' = [bucket EXCEPT ![k] = @ - 1] BY <1>2 DEF TakeOwn
  <2>2. post' = [post EXCEPT ![r] = y] BY <1>2 DEF TakeOwn, To, PostAt, LoginInv
  <2>3. SigningIn(y) /\ y.at = "aggregate" BY <1>1, AtFields DEF PostAts
  <2> HIDE DEF y
  <2>4. /\ post' = [q \in Posts |-> post'[q]] /\ \A q \in Posts : post'[q] = NoPost \/ SigningIn(post'[q])
        /\ post'[r] = y /\ \A q \in Posts : q # r => post'[q] = post[q]
    BY <2>2, <2>3, PostGoesOn
  <2>5. /\ bucket' \in [BucketKeys -> 0 .. EmailBurst] /\ bucket'[k] = bucket[k] - 1
        /\ \A j \in BucketKeys : j # k => bucket'[j] = bucket[j]
    BY <1>1, <1>2, <2>1, LoginAssumption DEF LoginInv
  <2>6. w \notin Lacking(bucket) /\ w \in Lacking(bucket')
    BY <1>1, <1>2, <2>5, LoginAssumption DEF Lacking
  <2>7. ASSUME NEW v \in Lacking(bucket) PROVE v \in Lacking(bucket')
    <3>1. PICK j \in BucketKeys, i \in 1 .. EmailBurst : v = <<j, i>> /\ i > bucket[j] BY DEF Lacking
    <3>2. bucket[j] \in 0 .. EmailBurst BY DEF LoginInv
    <3>3. i > bucket'[j] BY <1>1, <2>5, <3>1, <3>2
    <3> QED BY <3>1, <3>3 DEF Lacking
  <2>8. Cardinality(Lacking(bucket')) >= Cardinality(Lacking(bucket)) + 1
    <3>1. Lacking(bucket) \cup {w} \in SUBSET Lacking(bucket') BY <2>6, <2>7
    <3>2. Cardinality(Lacking(bucket) \cup {w}) = Cardinality(Lacking(bucket)) + 1
      BY <2>6, LackingFinite, FS_AddElement
    <3>3. Cardinality(Lacking(bucket) \cup {w}) <= Cardinality(Lacking(bucket')) BY <3>1, LackingFinite, FS_Subset
    <3> QED BY <3>2, <3>3, LackingFinite
  <2>9. Cardinality(Taken(post')) <= Cardinality(Taken(post)) + 1
    <3>1. Taken(post') \in SUBSET (Taken(post) \cup {r}) BY <2>4 DEF Taken
    <3>2. IsFiniteSet(Taken(post) \cup {r}) /\ Cardinality(Taken(post) \cup {r}) <= Cardinality(Taken(post)) + 1
      BY TakenFinite, FS_AddElement, SMTT(30)
    <3>3. Cardinality(Taken(post')) <= Cardinality(Taken(post) \cup {r}) BY <3>1, <3>2, FS_Subset
    <3>4. Cardinality(Taken(post) \cup {r}) \in Nat BY <3>2, FS_CardinalityType
    <3> QED BY <3>2, <3>3, <3>4, TakenFinite
  <2>10. crowd' = crowd \cup {k} /\ crowd' \in SUBSET BucketKeys
    BY <1>1, <1>2 DEF TakeOwn, LoginInv
  <2>11. ASSUME NEW j \in BucketKeys, bucket'[j] < EmailBurst PROVE j \in crowd'
    <3>1. CASE j = k BY <2>10, <3>1
    <3>2. CASE j # k BY <2>5, <2>10, <2>11, <3>2 DEF LoginInv
    <3> QED BY <3>1, <3>2
  <2>12. ASSUME RoomFor(crowd') PROVE PaidFor(bucket', everyone, post')
    <3>1. /\ Cardinality(Lacking(bucket)) \in Nat /\ Cardinality(Lacking(bucket')) \in Nat
          /\ Cardinality(Taken(post)) \in Nat /\ Cardinality(Taken(post')) \in Nat
      BY LackingFinite, TakenFinite
    <3>2. crowd \in SUBSET crowd' BY <2>10
    <3>3. RoomFor(crowd) BY <2>10, <2>12, <3>2, RoomForFewer
    <3>4. everyone \in Nat /\ AllBurst + Cardinality(Taken(post)) <= everyone + Cardinality(Lacking(bucket))
      BY <3>3 DEF LoginInv, PaidFor
    <3>5. AllBurst + Cardinality(Taken(post')) <= everyone + Cardinality(Lacking(bucket'))
      BY <2>8, <2>9, <3>1, <3>4, LoginAssumption
    <3> QED BY <3>5 DEF PaidFor
  <2> HIDE DEF k, w
  <2>13. everyone' \in Nat /\ (RoomFor(crowd') => PaidFor(bucket', everyone', post'))
    BY <1>0, <2>12 DEF LoginInv
  <2> QED BY <2>4, <2>5, <2>10, <2>11, <2>13 DEF LoginInv
<1>3. CASE ~(bucket[Key(r)] > 0)
  <2> DEFINE y == PostAt(post[r], "throttled")
  <2>1. post' = [post EXCEPT ![r] = y] /\ UNCHANGED <<bucket, crowd>> BY <1>3 DEF TakeOwn, To, PostAt, LoginInv
  <2>2. SigningIn(y) /\ y.at = "throttled" BY <1>1, AtFields DEF PostAts
  <2> HIDE DEF y
  <2> QED BY <1>0, <2>1, <2>2, QuietPost
<1> QED BY <1>2, <1>3

\* A request that comes to an empty bucket of everyone's is refused.
LEMMA SharedTokenKeeps ==
  ASSUME LoginInv, NEW r \in Posts, TakeShared(r, "aggregate")
  PROVE  LoginInv'
<1>0. post[r].at = "aggregate" /\ UNCHANGED <<bucket, crowd>> BY DEF TakeShared
<1>1. SigningIn(post[r]) BY <1>0, HasBucket
<1>2. CASE ~(everyone > 0)
  <2> DEFINE y == PostAt(post[r], "crowdedOut")
  <2>1. post' = [post EXCEPT ![r] = y] /\ UNCHANGED everyone BY <1>2 DEF TakeShared, To, PostAt, LoginInv
  <2>2. SigningIn(y) /\ y.at = "crowdedOut" BY <1>1, AtFields DEF PostAts
  <2> HIDE DEF y
  <2> QED BY <1>0, <2>1, <2>2, QuietPost
<1>3. CASE everyone > 0
  <2> DEFINE y == PostAt(post[r], "account")
  <2>1. everyone' = everyone - 1 /\ post' = [post EXCEPT ![r] = y] BY <1>3 DEF TakeShared, To, PostAt, LoginInv
  <2>2. SigningIn(y) /\ y.at = "account" BY <1>1, AtFields DEF PostAts
  <2> HIDE DEF y
  <2>3. /\ post' = [q \in Posts |-> post'[q]] /\ \A q \in Posts : post'[q] = NoPost \/ SigningIn(post'[q])
        /\ post'[r] = y /\ \A q \in Posts : q # r => post'[q] = post[q]
    BY <2>1, <2>2, PostGoesOn
  <2>4. r \in Taken(post) BY <1>0 DEF Taken
  <2>5. IsFiniteSet(Taken(post) \ {r}) /\ Cardinality(Taken(post) \ {r}) = Cardinality(Taken(post)) - 1
    BY <2>4, TakenFinite, FS_RemoveElement
  <2>6. Taken(post') \in SUBSET (Taken(post) \ {r}) BY <2>2, <2>3 DEF Taken
  <2>7. Cardinality(Taken(post')) <= Cardinality(Taken(post)) - 1 BY <2>5, <2>6, FS_Subset
  <2>8. /\ Cardinality(Taken(post)) \in Nat /\ Cardinality(Taken(post')) \in Nat
        /\ Cardinality(Lacking(bucket)) \in Nat /\ everyone \in Nat /\ everyone' \in Nat
    BY <1>3, <2>1, TakenFinite, LackingFinite DEF LoginInv
  <2>9. ASSUME RoomFor(crowd) PROVE PaidFor(bucket, everyone', post')
    <3>1. AllBurst + Cardinality(Taken(post)) <= everyone + Cardinality(Lacking(bucket))
      BY <2>9 DEF LoginInv, PaidFor
    <3>2. AllBurst + Cardinality(Taken(post')) <= everyone' + Cardinality(Lacking(bucket))
      BY <2>1, <2>7, <2>8, <3>1, LoginAssumption
    <3> QED BY <3>2 DEF PaidFor
  <2> QED BY <1>0, <2>3, <2>8, <2>9 DEF LoginInv
<1> QED BY <1>2, <1>3

\* What the addresses' buckets gain by a refill is no more than their shares.
LEMMA RefillGains ==
  ASSUME LoginInv, RefillBuckets
  PROVE  Cardinality(Lacking(bucket)) <= Cardinality(Lacking(bucket')) + EmailRefill * Cardinality(crowd)
<1>0. EmailRefill \in Nat /\ EmailBurst \in Nat /\ crowd \in SUBSET BucketKeys BY LoginAssumption DEF LoginInv
<1>1. ASSUME NEW k \in BucketKeys
      PROVE  bucket'[k] \in 0 .. EmailBurst /\ bucket'[k] <= bucket[k] + EmailRefill /\ bucket[k] \in 0 .. EmailBurst
  BY <1>0 DEF RefillBuckets, LoginInv
<1>2. IsFiniteSet(crowd) /\ Cardinality(crowd) \in Nat BY <1>0, CrowdFinite
<1> DEFINE gained == Lacking(bucket) \ Lacking(bucket')
           room == crowd \X (1 .. EmailRefill)
           g == [v \in gained |-> <<v[1], v[2] - bucket[v[1]]>>]
<1>3. IsFiniteSet(room) /\ Cardinality(room) = Cardinality(crowd) * EmailRefill
  <2>1. IsFiniteSet(1 .. EmailRefill) /\ Cardinality(1 .. EmailRefill) = EmailRefill BY <1>0, FS_Interval
  <2> QED BY <1>2, <2>1, FS_Product
<1>4. ASSUME NEW v \in gained
      PROVE  /\ v = <<v[1], v[2]>> /\ v[1] \in crowd /\ v[2] \in Nat
             /\ v[2] - bucket[v[1]] \in 1 .. EmailRefill /\ bucket[v[1]] \in Nat
  <2>1. PICK j \in BucketKeys, i \in 1 .. EmailBurst : v = <<j, i>> /\ i > bucket[j] BY DEF Lacking
  <2>2. ~(i > bucket'[j]) BY <2>1 DEF Lacking
  <2>3. i - bucket[j] \in 1 .. EmailRefill BY <1>0, <1>1, <2>1, <2>2
  <2>4. bucket[j] < EmailBurst BY <1>0, <1>1, <2>1
  <2>5. j \in crowd BY <2>4 DEF LoginInv
  <2> QED BY <1>1, <2>1, <2>3, <2>5
<1>5. g \in Injection(gained, room)
  <2>1. g \in [gained -> room] BY <1>4
  <2>2. ASSUME NEW a \in gained, NEW b \in gained, g[a] = g[b] PROVE a = b
    <3>1. a[1] = b[1] /\ a[2] - bucket[a[1]] = b[2] - bucket[b[1]] BY <2>2
    <3>2. a[2] = b[2] BY <1>4, <3>1
    <3> QED BY <1>4, <3>1, <3>2
  <2> QED BY <2>1, <2>2 DEF Injection, IsInjective
<1>6. IsFiniteSet(gained) /\ Cardinality(gained) <= Cardinality(room) BY <1>3, <1>5, FS_Injection
<1>7. Cardinality(Lacking(bucket)) <= Cardinality(Lacking(bucket')) + Cardinality(gained)
  <2>1. Lacking(bucket) \in SUBSET (Lacking(bucket') \cup gained) OBVIOUS
  <2> HIDE DEF gained
  <2>2. /\ IsFiniteSet(Lacking(bucket') \cup gained) /\ IsFiniteSet(Lacking(bucket') \cap gained)
        /\ Cardinality(Lacking(bucket') \cup gained)
             = Cardinality(Lacking(bucket')) + Cardinality(gained) - Cardinality(Lacking(bucket') \cap gained)
    <3>1. Lacking(bucket') \cap gained \in SUBSET gained OBVIOUS
    <3> QED BY <1>6, <3>1, LackingFinite, FS_Union, FS_Subset
  <2>3. Cardinality(Lacking(bucket)) <= Cardinality(Lacking(bucket') \cup gained) BY <2>1, <2>2, FS_Subset
  <2>4. Cardinality(Lacking(bucket') \cap gained) \in Nat /\ Cardinality(gained) \in Nat
    BY <1>6, <2>2, FS_CardinalityType
  <2> QED BY <2>2, <2>3, <2>4, LackingFinite
<1>8. Cardinality(gained) \in Nat BY <1>6, FS_CardinalityType
<1> HIDE DEF gained, room, g
<1>9. PICK a \in Int : a = EmailRefill * Cardinality(crowd) /\ Cardinality(room) = a BY <1>0, <1>2, <1>3
<1>10. Cardinality(Lacking(bucket)) <= Cardinality(Lacking(bucket')) + a
  BY <1>6, <1>7, <1>8, <1>9, LackingFinite
<1> QED BY <1>9, <1>10

LEMMA RefillsKeep == ASSUME LoginInv, RefillBuckets PROVE LoginInv'
<1>0. UNCHANGED post /\ EmailRefill \in Nat /\ EmailBurst \in Nat /\ AllBurst \in Nat /\ AllRefill \in Nat
  BY LoginAssumption DEF RefillBuckets
<1>1. ASSUME NEW k \in BucketKeys
      PROVE  bucket'[k] \in 0 .. EmailBurst /\ bucket'[k] >= bucket[k] /\ bucket[k] \in 0 .. EmailBurst
  BY <1>0 DEF RefillBuckets, LoginInv
<1>2. bucket' = [k \in BucketKeys |-> bucket'[k]] BY DEF RefillBuckets
<1>3. bucket' \in [BucketKeys -> 0 .. EmailBurst] BY <1>1, <1>2
<1>4. Taken(post) = {} BY DEF RefillBuckets, Taken
<1>5. Cardinality(Taken(post)) = 0 BY <1>4, FS_EmptySet
<1>6. /\ everyone \in Nat /\ everyone' \in Nat
      /\ everyone' = IF everyone + AllRefill > AllBurst THEN AllBurst ELSE everyone + AllRefill
  BY <1>0 DEF RefillBuckets, LoginInv
<1>7. /\ Cardinality(Lacking(bucket)) \in Nat /\ Cardinality(Lacking(bucket')) \in Nat BY LackingFinite
<1>8. CASE everyone' = AllBurst
  <2>1. crowd' = {k \in BucketKeys : bucket'[k] < EmailBurst} BY <1>8 DEF RefillBuckets
  <2>2. PaidFor(bucket', everyone', post) BY <1>0, <1>5, <1>7, <1>8 DEF PaidFor
  <2>3. crowd' \in SUBSET BucketKeys /\ \A k \in BucketKeys : bucket'[k] < EmailBurst => k \in crowd' BY <2>1
  <2> QED BY <1>0, <1>3, <1>6, <2>2, <2>3 DEF LoginInv
<1>9. CASE everyone' # AllBurst
  <2>1. UNCHANGED crowd /\ everyone' = everyone + AllRefill BY <1>6, <1>9 DEF RefillBuckets
  <2>2. ASSUME RoomFor(crowd) PROVE PaidFor(bucket', everyone', post)
    <3>1. crowd \in SUBSET BucketKeys BY DEF LoginInv
    <3>2. Cardinality(crowd) \in Nat BY <3>1, CrowdFinite
    <3>3. PICK a \in Int : a = EmailRefill * Cardinality(crowd) BY <1>0, <3>2
    <3>4. a <= AllRefill BY <2>2, <3>3 DEF RoomFor
    <3>5. Cardinality(Lacking(bucket)) <= Cardinality(Lacking(bucket')) + a BY <3>3, RefillGains
    <3>6. AllBurst <= everyone + Cardinality(Lacking(bucket)) BY <1>0, <1>5, <2>2 DEF LoginInv, PaidFor
    <3>7. AllBurst <= everyone' + Cardinality(Lacking(bucket'))
      BY <1>0, <1>6, <1>7, <2>1, <3>4, <3>5, <3>6
    <3> QED BY <1>0, <1>5, <3>7 DEF PaidFor
  <2>3. ASSUME NEW k \in BucketKeys, bucket'[k] < EmailBurst PROVE k \in crowd
    <3>1. bucket[k] < EmailBurst BY <1>0, <1>1, <2>3
    <3> QED BY <3>1 DEF LoginInv
  <2>4. crowd \in SUBSET BucketKeys BY DEF LoginInv
  <2> QED BY <1>0, <1>3, <1>6, <2>1, <2>2, <2>3, <2>4 DEF LoginInv
<1> QED BY <1>8, <1>9

LEMMA PostsKeep ==
  ASSUME LoginInv, NEW r \in Posts,
         \/ (\E e \in Addresses : PostLogin(r, e)) \/ FindAccount(r) \/ FindCredential(r) \/ IssueCode(r)
         \/ StampLastLogin(r) \/ PostEnds(r)
  PROVE  LoginInv'
<1>1. UNCHANGED <<bucket, everyone, crowd>>
  BY DEF PostLogin, FindAccount, FindCredential, IssueCode, StampLastLogin, PostEnds
<1>2. ASSUME NEW e \in Addresses, PostLogin(r, e) PROVE LoginInv'
  <2>1. PICK y : y = [at |-> "email", email |-> e, version |-> 0, known |-> FALSE] OBVIOUS
  <2>2. post' = [post EXCEPT ![r] = y] BY <1>2, <2>1 DEF PostLogin
  <2>3. SigningIn(y) /\ y.at = "email" BY <2>1 DEF SigningIn, PostAts
  <2> QED BY <1>1, <2>2, <2>3, QuietPost
<1>3. CASE FindAccount(r)
  <2> DEFINE known == post[r].email = Key(r) /\ person[Key(r)].active
             version == person[Key(r)].version
             y == [post[r] EXCEPT !.at = "credential", !.version = version, !.known = known]
  <2>0. SigningIn(post[r]) BY <1>3, HasBucket DEF FindAccount
  <2>1. post' = [post EXCEPT ![r] = y] BY <1>3 DEF FindAccount, LoginInv
  <2> HIDE DEF known, version
  <2>2. SigningIn(y) /\ y.at = "credential" BY <2>0 DEF SigningIn, PostAts
  <2> HIDE DEF y
  <2> QED BY <1>1, <2>1, <2>2, QuietPost
<1>4. CASE FindCredential(r)
  <2> DEFINE known == post[r].known /\ person[Key(r)].password
             y == [post[r] EXCEPT !.at = "verify", !.known = known]
  <2>0. SigningIn(post[r]) BY <1>4, HasBucket DEF FindCredential
  <2>1. post' = [post EXCEPT ![r] = y] BY <1>4, <2>0 DEF FindCredential, LoginInv, SigningIn
  <2> HIDE DEF known
  <2>2. SigningIn(y) /\ y.at = "verify" BY <2>0 DEF SigningIn, PostAts
  <2> HIDE DEF y
  <2> QED BY <1>1, <2>1, <2>2, QuietPost
<1>5. CASE IssueCode(r)
  <2> DEFINE y == PostAt(post[r], "stamp")
  <2>0. SigningIn(post[r]) BY <1>5, HasBucket DEF IssueCode
  <2>1. post' = [post EXCEPT ![r] = y] BY <1>5 DEF IssueCode, To, PostAt, LoginInv
  <2>2. SigningIn(y) /\ y.at = "stamp" BY <2>0, AtFields DEF PostAts
  <2> HIDE DEF y
  <2> QED BY <1>1, <2>1, <2>2, QuietPost
<1>6. CASE StampLastLogin(r) \/ PostEnds(r)
  <2>1. post' = [post EXCEPT ![r] = NoPost] BY <1>6 DEF StampLastLogin, PostEnds, Finish
  <2>2. NoPost.at # "aggregate" BY DEF NoPost
  <2> QED BY <1>1, <2>1, <2>2, QuietPost
<1> QED BY <1>2, <1>3, <1>4, <1>5, <1>6

LEMMA LoginStep == LoginInv /\ [PNext]_pvars => LoginInv'
<1> SUFFICES ASSUME LoginInv, [PNext]_pvars PROVE LoginInv' OBVIOUS
<1>1. ASSUME UNCHANGED <<bucket, everyone, post, crowd>> PROVE LoginInv' BY <1>1 DEF LoginInv
<1>2. CASE UNCHANGED pvars BY <1>1, <1>2 DEF pvars
<1>3. ASSUME NEW k \in BucketKeys, EditPerson(k) PROVE LoginInv' BY <1>1, <1>3 DEF EditPerson
<1>4. ASSUME NEW r \in Posts, Admit(r) PROVE LoginInv'
  BY <1>4, OwnTokenKeeps, SharedTokenKeeps DEF Admit
<1>5. CASE PNext BY <1>3, <1>4, <1>5, PostsKeep, RefillsKeep DEF PNext
<1> QED BY <1>2, <1>5

\* Only admit crowds a request out, and then everyone's bucket is empty and it has paid its own.
LEMMA CrowdedOutStep ==
  ASSUME LoginInv, PNext, NEW r \in Posts, post[r].at # "crowdedOut", post'[r].at = "crowdedOut"
  PROVE  everyone = 0 /\ r \in Taken(post)
<1>0. post = [q \in Posts |-> post[q]] /\ \A q \in Posts : post[q] = NoPost \/ SigningIn(post[q]) BY DEF LoginInv
<1>1. ASSUME NEW q \in Posts, FindAccount(q) \/ FindCredential(q) \/ IssueCode(q) \/ TakeOwn(q, "email")
      PROVE  FALSE
  <2>1. SigningIn(post[q]) \/ post[q] = NoPost BY <1>0
  <2> QED BY <1>0, <1>1, <2>1 DEF FindAccount, FindCredential, IssueCode, TakeOwn, To, SigningIn, NoPost
<1>2. ASSUME NEW q \in Posts, StampLastLogin(q) \/ PostEnds(q) PROVE FALSE
  BY <1>0, <1>2 DEF StampLastLogin, PostEnds, Finish, NoPost
<1>3. ASSUME NEW q \in Posts, NEW e \in Addresses, PostLogin(q, e) PROVE FALSE
  BY <1>0, <1>3 DEF PostLogin
<1>4. ASSUME NEW q \in Posts, TakeShared(q, "aggregate") PROVE everyone = 0 /\ r \in Taken(post)
  <2>1. post[q].at = "aggregate" /\ everyone \in Nat BY <1>4 DEF TakeShared, LoginInv
  <2>2. SigningIn(post[q]) BY <2>1, HasBucket
  <2>3. CASE everyone > 0
    BY <1>0, <1>4, <2>2, <2>3 DEF TakeShared, To, SigningIn
  <2>4. CASE ~(everyone > 0)
    <3>1. q = r BY <1>0, <1>4, <2>4 DEF TakeShared, To
    <3> QED BY <2>1, <2>4, <3>1 DEF Taken
  <2> QED BY <2>3, <2>4
<1>5. ASSUME NEW k \in BucketKeys, EditPerson(k) PROVE FALSE BY <1>5 DEF EditPerson
<1>6. CASE RefillBuckets BY <1>6 DEF RefillBuckets
<1> QED BY <1>1, <1>2, <1>3, <1>4, <1>5, <1>6 DEF PNext, Admit

(* A sign-in whose own bucket had a token is refused by everyone's only when  *)
(* more addresses have drawn on it since it was last full than it has room    *)
(* for, for any number of addresses, spellings and requests at once and any   *)
(* limits (admit of sms-gateway login.rs takes the address's token first).    *)
THEOREM OneAddressCrowdsNobodyOut == PSpec => NobodyCrowdedOut
<1>1. PSpec => []LoginInv BY LoginInit, LoginStep, PTL DEF PSpec
<1>2. LoginInv /\ [PNext]_pvars
        => [\A r \in Posts : post[r].at # "crowdedOut" /\ post'[r].at = "crowdedOut" => ~ RoomFor(crowd)]_pvars
  <2> SUFFICES ASSUME LoginInv, PNext, NEW r \in Posts, post[r].at # "crowdedOut", post'[r].at = "crowdedOut",
                      RoomFor(crowd)
               PROVE  FALSE
    OBVIOUS
  <2>1. everyone = 0 /\ r \in Taken(post) BY CrowdedOutStep
  <2>2. Cardinality(Taken(post)) >= 1
    <3>1. Cardinality(Taken(post) \ {r}) = Cardinality(Taken(post)) - 1 /\ IsFiniteSet(Taken(post) \ {r})
      BY <2>1, TakenFinite, FS_RemoveElement
    <3>2. Cardinality(Taken(post) \ {r}) \in Nat BY <3>1, FS_CardinalityType
    <3> QED BY <3>1, <3>2, TakenFinite
  <2>3. Cardinality(Lacking(bucket)) <= EmailBurst * Cardinality(crowd) BY LackingBounded DEF LoginInv
  <2>4. PICK n \in Nat : n = Cardinality(crowd) BY CrowdFinite DEF LoginInv
  <2>5. PICK a \in Int : a = EmailBurst * n BY <2>4, LoginAssumption
  <2>6. a <= AllBurst /\ Cardinality(Lacking(bucket)) <= a BY <2>3, <2>4, <2>5 DEF RoomFor
  <2>7. AllBurst + Cardinality(Taken(post)) <= everyone + Cardinality(Lacking(bucket)) BY DEF LoginInv, PaidFor
  <2> QED BY <2>1, <2>2, <2>6, <2>7, LackingFinite, TakenFinite, LoginAssumption
<1> QED BY <1>1, <1>2, PTL DEF PSpec, NobodyCrowdedOut

-----------------------------------------------------------------------------
(* Setup.  A command is a list of statements, and what statement j leaves  *)
(* behind stays until a person undoes it (Left): rows are only added and   *)
(* switched on, so a run that has come to the end has left all of it       *)
(* (Behind), whoever runs beside it.  What a run has read is as it read it *)
(* or further on (SawSound, SawClientSound).  PlanShape is what the lists  *)
(* themselves must have: a row is made before it is switched on, and a     *)
(* password is stored by the last statement, after the file is written.    *)
(* PwInv: each run's password is its own, it is in the run's file when its *)
(* hash is about to be stored, and so no file is removed that holds the    *)
(* password in force.                                                      *)
OpAt(c, i) == Plan(c)[i][1]
TabAt(c, i) == Plan(c)[i][2]
Makers == {"create", "need", "make"}
Rowed == {"create", "find", "need", "make", "switch"}

StepShape(c, i, n) ==
  /\ OpAt(c, i) = "storeHash" => i = n /\ i > 1 /\ OpAt(c, i - 1) = "writeFile"
  /\ OpAt(c, i) = "switch" => \E j \in 1 .. i - 1 :
       TabAt(c, j) = TabAt(c, i) /\ (OpAt(c, j) = "make" \/ (OpAt(c, j) = "find" /\ TabAt(c, j) = "provider"))
  /\ OpAt(c, i) = "find" /\ TabAt(c, i) = "provider" =>
       \E j \in 1 .. i - 1 : OpAt(c, j) = "create" /\ TabAt(c, j) = "provider"
  /\ TabAt(c, i) \in Tables => \E j \in 1 .. n : TabAt(c, j) = TabAt(c, i) /\ OpAt(c, j) \in Makers
  /\ OpAt(c, i) \in Rowed => TabAt(c, i) \in Tables
PlanShape(c) ==
  /\ Len(Plan(c)) \in Nat \ {0} /\ DOMAIN Plan(c) = 1 .. Len(Plan(c))
  /\ \A i \in 1 .. Len(Plan(c)) : StepShape(c, i, Len(Plan(c)))
  /\ c = "bootstrap" => \E i \in 1 .. Len(Plan(c)) : OpAt(c, i) = "writeClient"

LEMMA BootstrapPlan ==
  /\ Len(Plan("bootstrap")) = 13
  /\ \A i \in 1 .. 6 : Plan("bootstrap")[i] = SeedDispatch[i]
  /\ \A i \in 7 .. 8 : Plan("bootstrap")[i] = SeedConsoleClient[i - 6]
  /\ \A i \in 9 .. 13 : Plan("bootstrap")[i] = IssuePassword[i - 8]
  /\ DOMAIN Plan("bootstrap") = 1 .. 13
<1> DEFINE a == SeedDispatch  b == SeedConsoleClient  c == IssuePassword
<1>1. Len(a) = 6 /\ Len(b) = 2 /\ Len(c) = 5 BY DEF SeedDispatch, SeedConsoleClient, IssuePassword
<1> DEFINE P == {<<"create", "provider">>, <<"find", "provider">>, <<"switch", "provider">>, <<"find", "route">>,
                 <<"make", "route">>, <<"switch", "route">>, <<"findClient", "none">>, <<"writeClient", "none">>,
                 <<"create", "user">>, <<"find", "user">>, <<"findPassword", "none">>, <<"writeFile", "none">>,
                 <<"storeHash", "none">>}
<1>2. a \in Seq(P) /\ b \in Seq(P) /\ c \in Seq(P)
  BY DEF SeedDispatch, SeedConsoleClient, IssuePassword
<1>3. Plan("bootstrap") = (a \o b) \o c BY DEF Plan
<1> HIDE DEF a, b, c, P
<1>4. /\ a \o b \in Seq(P) /\ Len(a \o b) = 8
      /\ \A i \in 1 .. 8 : (a \o b)[i] = IF i <= 6 THEN a[i] ELSE b[i - 6]
  <2>1. /\ a \o b \in Seq(P) /\ Len(a \o b) = Len(a) + Len(b)
        /\ \A i \in 1 .. Len(a) + Len(b) : (a \o b)[i] = IF i <= Len(a) THEN a[i] ELSE b[i - Len(a)]
    BY <1>2, ConcatProperties
  <2> QED BY <1>1, <2>1
<1>5. PICK d \in Seq(P) : d = a \o b BY <1>4
<1>6. /\ d \o c \in Seq(P) /\ Len(d \o c) = 13
      /\ \A i \in 1 .. 13 : (d \o c)[i] = IF i <= 8 THEN d[i] ELSE c[i - 8]
  <2>1. /\ d \o c \in Seq(P) /\ Len(d \o c) = Len(d) + Len(c)
        /\ \A i \in 1 .. Len(d) + Len(c) : (d \o c)[i] = IF i <= Len(d) THEN d[i] ELSE c[i - Len(d)]
    BY <1>2, ConcatProperties
  <2>2. Len(d) = 8 BY <1>4, <1>5, Zenon
  <2>3. 8 + 5 = 13 OBVIOUS
  <2> QED BY <1>1, <2>1, <2>2, <2>3, ZenonT(30)
<1>7. PICK e \in Seq(P) : e = d \o c BY <1>6
<1>8. Len(e) = 13 /\ \A i \in 1 .. 13 : e[i] = IF i <= 8 THEN d[i] ELSE c[i - 8] BY <1>6, <1>7
<1>9. \A i \in 1 .. 8 : d[i] = IF i <= 6 THEN a[i] ELSE b[i - 6] BY <1>4, <1>5
<1>10. DOMAIN e = 1 .. 13 BY <1>8
<1>11. Plan("bootstrap") = e BY <1>3, <1>5, <1>7
<1>12. \A i \in 1 .. 6 : e[i] = a[i] BY <1>8, <1>9
<1>13. \A i \in 7 .. 8 : e[i] = b[i - 6] BY <1>8, <1>9
<1>14. ASSUME NEW i \in 9 .. 13 PROVE e[i] = c[i - 8]
  <2>1. i \in 1 .. 13 /\ ~(i <= 8) OBVIOUS
  <2>2. e[i] = IF i <= 8 THEN d[i] ELSE c[i - 8] BY <1>8, <2>1, Zenon
  <2> QED BY <2>1, <2>2, Zenon
<1> QED BY <1>8, <1>10, <1>11, <1>12, <1>13, <1>14 DEF a, b, c

LEMMA PlansHold == ASSUME NEW c \in Commands PROVE PlanShape(c)
<1>1. CASE c = "bootstrap"
  <2> DEFINE p == Plan(c)
  <2>1. /\ Len(p) = 13 /\ DOMAIN p = 1 .. 13
        /\ p[1] = <<"create", "provider">> /\ p[2] = <<"find", "provider">> /\ p[3] = <<"switch", "provider">>
        /\ p[4] = <<"find", "route">> /\ p[5] = <<"make", "route">> /\ p[6] = <<"switch", "route">>
        /\ p[7] = <<"findClient", "none">> /\ p[8] = <<"writeClient", "none">>
        /\ p[9] = <<"create", "user">> /\ p[10] = <<"find", "user">> /\ p[11] = <<"findPassword", "none">>
        /\ p[12] = <<"writeFile", "none">> /\ p[13] = <<"storeHash", "none">>
    BY <1>1, BootstrapPlan DEF SeedDispatch, SeedConsoleClient, IssuePassword
  <2> HIDE DEF p
  <2>2. /\ OpAt(c, 1) = "create" /\ OpAt(c, 2) = "find" /\ OpAt(c, 3) = "switch" /\ OpAt(c, 4) = "find"
        /\ OpAt(c, 5) = "make" /\ OpAt(c, 6) = "switch" /\ OpAt(c, 7) = "findClient" /\ OpAt(c, 8) = "writeClient"
        /\ OpAt(c, 9) = "create" /\ OpAt(c, 10) = "find" /\ OpAt(c, 11) = "findPassword"
        /\ OpAt(c, 12) = "writeFile" /\ OpAt(c, 13) = "storeHash"
    BY <2>1 DEF OpAt, p
  <2>3. /\ TabAt(c, 1) = "provider" /\ TabAt(c, 2) = "provider" /\ TabAt(c, 3) = "provider" /\ TabAt(c, 4) = "route"
        /\ TabAt(c, 5) = "route" /\ TabAt(c, 6) = "route" /\ TabAt(c, 7) = "none" /\ TabAt(c, 8) = "none"
        /\ TabAt(c, 9) = "user" /\ TabAt(c, 10) = "user" /\ TabAt(c, 11) = "none"
        /\ TabAt(c, 12) = "none" /\ TabAt(c, 13) = "none"
    BY <2>1 DEF TabAt, p
  <2>4. Len(Plan(c)) = 13 /\ DOMAIN Plan(c) = 1 .. 13 BY <2>1 DEF p
  <2>5. \A i \in 1 .. 13 : i \in {1, 2, 3, 4, 5, 6, 7, 8, 9, 10, 11, 12, 13} OBVIOUS
  <2>6. \A i \in 1 .. 13 : OpAt(c, i) = "storeHash" => i = 13 /\ OpAt(c, i - 1) = "writeFile" BY <2>2, <2>5
  <2>7. \A i \in 1 .. 13 : OpAt(c, i) = "switch" => i \in {3, 6} BY <2>2, <2>5
  <2>8. \A i \in 1 .. 13 : OpAt(c, i) = "find" /\ TabAt(c, i) = "provider" => i = 2 BY <2>2, <2>3, <2>5
  <2>9. \A i \in 1 .. 13 : TabAt(c, i) \in Tables => TabAt(c, i) \in {"provider", "route", "user"}
    BY <2>3, <2>5 DEF Tables
  <2>10. \A i \in 1 .. 13 : OpAt(c, i) \in Rowed => TabAt(c, i) \in Tables BY <2>2, <2>3, <2>5 DEF Rowed, Tables
  <2>11. \A i \in 1 .. 13 : TabAt(c, i) \in Tables =>
           \E j \in 1 .. 13 : TabAt(c, j) = TabAt(c, i) /\ OpAt(c, j) \in Makers
    <3>1. /\ TabAt(c, 1) = "provider" /\ OpAt(c, 1) \in Makers /\ TabAt(c, 5) = "route" /\ OpAt(c, 5) \in Makers
          /\ TabAt(c, 9) = "user" /\ OpAt(c, 9) \in Makers
      BY <2>2, <2>3 DEF Makers
    <3> QED BY <2>9, <3>1
  <2>12. \A i \in 1 .. 13 : OpAt(c, i) = "switch" => \E j \in 1 .. i - 1 :
            TabAt(c, j) = TabAt(c, i) /\ (OpAt(c, j) = "make" \/ (OpAt(c, j) = "find" /\ TabAt(c, j) = "provider"))
    <3>1. 2 \in 1 .. 3 - 1 /\ 5 \in 1 .. 6 - 1 OBVIOUS
    <3> QED BY <2>2, <2>3, <2>7, <3>1
  <2>13. \A i \in 1 .. 13 : OpAt(c, i) = "find" /\ TabAt(c, i) = "provider" =>
            \E j \in 1 .. i - 1 : OpAt(c, j) = "create" /\ TabAt(c, j) = "provider"
    <3>1. 1 \in 1 .. 2 - 1 OBVIOUS
    <3> QED BY <2>2, <2>3, <2>8, <3>1
  <2>14. \E i \in 1 .. 13 : OpAt(c, i) = "writeClient" BY <2>2
  <2>15. \A i \in 1 .. 13 : OpAt(c, i) = "storeHash" => i = 13 /\ i > 1 /\ OpAt(c, i - 1) = "writeFile" BY <2>6
  <2>16. 13 \in Nat \ {0} OBVIOUS
  <2>17. ASSUME NEW i \in 1 .. 13 PROVE StepShape(c, i, 13)
    <3>1. OpAt(c, i) = "storeHash" => i = 13 /\ i > 1 /\ OpAt(c, i - 1) = "writeFile" BY <2>15, Zenon
    <3>2. OpAt(c, i) = "switch" => \E j \in 1 .. i - 1 :
            TabAt(c, j) = TabAt(c, i) /\ (OpAt(c, j) = "make" \/ (OpAt(c, j) = "find" /\ TabAt(c, j) = "provider"))
      BY <2>12, Zenon
    <3>3. OpAt(c, i) = "find" /\ TabAt(c, i) = "provider" =>
            \E j \in 1 .. i - 1 : OpAt(c, j) = "create" /\ TabAt(c, j) = "provider"
      BY <2>13, Zenon
    <3>4. TabAt(c, i) \in Tables => \E j \in 1 .. 13 : TabAt(c, j) = TabAt(c, i) /\ OpAt(c, j) \in Makers
      BY <2>11, Zenon
    <3>5. OpAt(c, i) \in Rowed => TabAt(c, i) \in Tables BY <2>10, Zenon
    <3> QED BY <3>1, <3>2, <3>3, <3>4, <3>5, Zenon DEF StepShape
  <2> QED BY <2>4, <2>14, <2>16, <2>17, Zenon DEF PlanShape
<1>2. CASE c = "resetPassword"
  BY <1>2 DEF PlanShape, StepShape, OpAt, TabAt, Makers, Rowed, Tables, Plan, IssuePassword
<1>3. CASE c = "registerClient"
  BY <1>3 DEF PlanShape, StepShape, OpAt, TabAt, Makers, Rowed, Tables, Plan, RegisterClient
<1>4. CASE c = "demoSeed"
  BY <1>4 DEF PlanShape, StepShape, OpAt, TabAt, Makers, Rowed, Tables, Plan, DemoSeed
<1> QED BY <1>1, <1>2, <1>3, <1>4 DEF Commands

RowRec == [on : BOOLEAN, ver : Nat]
SawRec == [id : Nat, row : RowRec]
Saws == [Tables -> SawRec \cup {NoRowYet}]
ClientRows == {NoRowYet} \cup SUBSET {"drift", "machine"}
Passwords == Nat \cup {NoPassword}
RunRec == [cmd : Commands \cup {"none"}, at : Nat, pc : {"idle", "run", "done", "failed"}, saw : Saws,
           sawClient : ClientRows, sawPassword : Passwords, out : Paths \cup {NoPassword}, me : Nat, clean : BOOLEAN]
SetupType ==
  /\ tab \in [Tables -> Seq(RowRec)] /\ client \in ClientRows /\ service \in BOOLEAN
  /\ password \in Passwords /\ files \in [Paths -> Passwords] /\ run \in [Runners -> RunRec] /\ started \in Nat

\* What holds of a run's record x, given the tables tb and the client cl.
NoSaws == [t \in Tables |-> NoRowYet]
Placed(x, n) ==
  /\ x.pc = "run" => x.cmd \in Commands /\ x.at \in 1 .. Len(Plan(x.cmd)) /\ x.out \in Paths
  /\ x.pc \in {"run", "done"} => x.me \in 1 .. n
  /\ x.pc = "done" => x.cmd \in Commands
SawSound(x, tb) ==
  \A t \in Tables : x.saw[t] # NoRowYet =>
    x.saw[t].id \in DOMAIN tb[t] /\ (x.clean /\ x.saw[t].row.on => tb[t][x.saw[t].id].on)
SawClientSound(x, cl, sv) ==
  /\ x.sawClient # NoRowYet => cl # NoRowYet /\ ("machine" \notin x.sawClient => ~sv)
  /\ x.sawClient = {} /\ x.clean => cl = {}
\* What statement j of a command has left behind.
Left(c, j, clean, tb, cl) ==
  /\ OpAt(c, j) \in Makers => tb[TabAt(c, j)] # <<>>
  /\ OpAt(c, j) = "switch" /\ clean => \E k \in DOMAIN tb[TabAt(c, j)] : tb[TabAt(c, j)][k].on
  /\ OpAt(c, j) = "writeClient" /\ clean => cl = {}
Seen(c, j, saw) ==
  (OpAt(c, j) = "make" \/ (OpAt(c, j) = "find" /\ TabAt(c, j) = "provider")) => saw[TabAt(c, j)] # NoRowYet
Behind(x, tb, cl) ==
  /\ x.pc = "run" => \A j \in 1 .. x.at - 1 : Left(x.cmd, j, x.clean, tb, cl) /\ Seen(x.cmd, j, x.saw)
  /\ x.pc = "done" => \A j \in 1 .. Len(Plan(x.cmd)) : Left(x.cmd, j, x.clean, tb, cl)
RunSound(x, tb, cl, sv, n) ==
  Placed(x, n) /\ SawSound(x, tb) /\ SawClientSound(x, cl, sv) /\ Behind(x, tb, cl)
SetupInv ==
  /\ SetupType
  /\ \A r \in Runners : RunSound(run[r], tab, client, service, started)
  /\ service => client # NoRowYet /\ "machine" \in client

LEMMA RestRec ==
  NotRunning \in [cmd : {"none"}, at : {0}, pc : {"idle"}, saw : {NoSaws}, sawClient : {NoRowYet},
                sawPassword : {NoPassword}, out : {NoPassword}, me : {0}, clean : {TRUE}]
BY DEF NotRunning, NoSaws
LEMMA RestFields == NoSaws \in Saws /\ NoRowYet \in ClientRows /\ NoPassword \in Passwords
<1>1. NoSaws \in Saws BY DEF NoSaws, Saws
<1>2. NoRowYet \in ClientRows BY DEF ClientRows
<1> QED BY <1>1, <1>2 DEF Passwords

\* The record of a command that starts, ends or fails.
StartRec(c, o, m) == [NotRunning EXCEPT !.cmd = c, !.at = 1, !.pc = "run", !.out = o, !.me = m]
LEMMA FreshRec ==
  ASSUME NEW c \in Commands, NEW o \in Paths, NEW m \in Nat
  PROVE  /\ StartRec(c, o, m) \in RunRec /\ StartRec(c, o, m).cmd = c /\ StartRec(c, o, m).at = 1
         /\ StartRec(c, o, m).pc = "run" /\ StartRec(c, o, m).out = o /\ StartRec(c, o, m).me = m
         /\ StartRec(c, o, m).saw = NoSaws /\ StartRec(c, o, m).sawClient = NoRowYet
<1>1. StartRec(c, o, m) \in [cmd : {c}, at : {1}, pc : {"run"}, saw : {NoSaws}, sawClient : {NoRowYet},
                          sawPassword : {NoPassword}, out : {o}, me : {m}, clean : {TRUE}]
  BY RestRec DEF StartRec
<1>2. c \in Commands \cup {"none"} /\ o \in Paths \cup {NoPassword} /\ 1 \in Nat OBVIOUS
<1>3. StartRec(c, o, m) \in RunRec BY <1>1, <1>2, RestFields DEF RunRec
<1> QED BY <1>1, <1>3

LEMMA FailedRec ==
  LET y == [NotRunning EXCEPT !.pc = "failed"] IN
  y \in RunRec /\ y.pc = "failed" /\ y.saw = NoSaws /\ y.sawClient = NoRowYet
<1> DEFINE y == [NotRunning EXCEPT !.pc = "failed"]
<1>1. y \in [cmd : {"none"}, at : {0}, pc : {"failed"}, saw : {NoSaws}, sawClient : {NoRowYet},
             sawPassword : {NoPassword}, out : {NoPassword}, me : {0}, clean : {TRUE}]
  BY RestRec
<1> HIDE DEF y
<1>2. "none" \in Commands \cup {"none"} /\ NoPassword \in Paths \cup {NoPassword} /\ 0 \in Nat OBVIOUS
<1>3. y \in RunRec BY <1>1, <1>2, RestFields DEF RunRec
<1> QED BY <1>1, <1>3 DEF y

LEMMA AdvancedRec ==
  ASSUME NEW r, NEW x \in RunRec, x.pc = "run", x.cmd \in Commands, x.at \in 1 .. Len(Plan(x.cmd))
  PROVE  LET y == Advanced(r, x) IN
         /\ y \in RunRec /\ y.cmd = x.cmd /\ y.out = x.out /\ y.me = x.me /\ y.clean = x.clean
         /\ \/ /\ x.at < Len(Plan(x.cmd)) /\ y.pc = "run" /\ y.at = x.at + 1
               /\ y.saw = x.saw /\ y.sawClient = x.sawClient /\ y.sawPassword = x.sawPassword
            \/ /\ x.at = Len(Plan(x.cmd)) /\ y.pc = "done" /\ y.saw = NoSaws /\ y.sawClient = NoRowYet
<1>0. Len(Plan(x.cmd)) \in Nat /\ x.at \in Nat BY PlansHold DEF PlanShape, StepShape
<1>1. CASE x.at < Len(Plan(x.cmd))
  <2> DEFINE y == [x EXCEPT !.at = x.at + 1]
  <2>1. Advanced(r, x) = y BY <1>1 DEF Advanced
  <2>2. PICK n \in Nat : n = x.at + 1 BY <1>0
  <2>3. y = [x EXCEPT !.at = n] BY <2>2
  <2>4. /\ y \in RunRec /\ y.cmd = x.cmd /\ y.out = x.out /\ y.me = x.me /\ y.clean = x.clean
        /\ y.pc = x.pc /\ y.at = n /\ y.saw = x.saw /\ y.sawClient = x.sawClient /\ y.sawPassword = x.sawPassword
    BY <2>3 DEF RunRec
  <2> HIDE DEF y
  <2> QED BY <1>1, <2>1, <2>2, <2>4
<1>2. CASE ~(x.at < Len(Plan(x.cmd)))
  <2> DEFINE y == [NotRunning EXCEPT !.cmd = x.cmd, !.pc = "done", !.out = x.out, !.me = x.me, !.clean = x.clean]
  <2>1. Advanced(r, x) = y BY <1>2 DEF Advanced
  <2>2. y \in [cmd : {x.cmd}, at : {0}, pc : {"done"}, saw : {NoSaws}, sawClient : {NoRowYet},
               sawPassword : {NoPassword}, out : {x.out}, me : {x.me}, clean : {x.clean}]
    BY RestRec
  <2>3. x.out \in Paths \cup {NoPassword} /\ x.me \in Nat /\ x.clean \in BOOLEAN BY DEF RunRec
  <2>4. x.at = Len(Plan(x.cmd)) BY <1>0, <1>2
  <2> HIDE DEF y
  <2>5. /\ y \in RunRec /\ y.cmd = x.cmd /\ y.out = x.out /\ y.me = x.me /\ y.clean = x.clean
        /\ y.pc = "done" /\ y.saw = NoSaws /\ y.sawClient = NoRowYet
    BY <2>2, <2>3, RestFields DEF RunRec
  <2> QED BY <2>1, <2>4, <2>5
<1> QED BY <1>1, <1>2

Grows(tb, tb2) ==
  \A t \in Tables : /\ DOMAIN tb[t] \subseteq DOMAIN tb2[t]
                    /\ tb[t] # <<>> => tb2[t] # <<>>
                    /\ \A i \in DOMAIN tb[t] : tb[t][i].on => tb2[t][i].on
ClientKept(cl, cl2) == (cl = {} => cl2 = {}) /\ (cl # NoRowYet => cl2 # NoRowYet)

\* Rows are only added and switched on, so what a run has seen and done stays so.
LEMMA SoundCarried ==
  ASSUME NEW x \in RunRec, NEW tb, NEW tb2, NEW cl, NEW cl2, NEW sv, NEW n \in Nat, NEW n2 \in Nat, n <= n2,
         Grows(tb, tb2), ClientKept(cl, cl2), RunSound(x, tb, cl, sv, n)
  PROVE  RunSound(x, tb2, cl2, sv, n2)
<1>1. Placed(x, n2) BY DEF RunSound, Placed
<1>2. SawSound(x, tb2) BY DEF RunSound, SawSound, Grows
<1>3. SawClientSound(x, cl2, sv) BY DEF RunSound, SawClientSound, ClientKept
<1>4. ASSUME NEW c \in Commands, NEW j \in 1 .. Len(Plan(c)), Left(c, j, x.clean, tb, cl)
      PROVE  Left(c, j, x.clean, tb2, cl2)
  <2>1. OpAt(c, j) \in Rowed => TabAt(c, j) \in Tables BY PlansHold DEF PlanShape, StepShape
  <2>2. ASSUME OpAt(c, j) \in Makers PROVE tb2[TabAt(c, j)] # <<>>
    BY <1>4, <2>1, <2>2 DEF Left, Grows, Rowed, Makers
  <2>3. ASSUME OpAt(c, j) = "switch", x.clean PROVE \E k \in DOMAIN tb2[TabAt(c, j)] : tb2[TabAt(c, j)][k].on
    BY <1>4, <2>1, <2>3 DEF Left, Grows, Rowed
  <2>4. OpAt(c, j) = "writeClient" /\ x.clean => cl2 = {} BY <1>4 DEF Left, ClientKept
  <2> QED BY <2>2, <2>3, <2>4 DEF Left
<1>5. Behind(x, tb2, cl2)
  <2>1. ASSUME x.pc = "run", NEW j \in 1 .. x.at - 1
        PROVE  Left(x.cmd, j, x.clean, tb2, cl2) /\ Seen(x.cmd, j, x.saw)
    <3>1. x.cmd \in Commands /\ x.at \in 1 .. Len(Plan(x.cmd)) BY <2>1 DEF RunSound, Placed
    <3>2. j \in 1 .. Len(Plan(x.cmd)) BY <3>1, PlansHold DEF PlanShape, StepShape
    <3> QED BY <1>4, <2>1, <3>1, <3>2 DEF RunSound, Behind
  <2>2. ASSUME x.pc = "done", NEW j \in 1 .. Len(Plan(x.cmd)) PROVE Left(x.cmd, j, x.clean, tb2, cl2)
    BY <1>4, <2>2 DEF RunSound, Behind, Placed
  <2> QED BY <2>1, <2>2 DEF Behind
<1> QED BY <1>1, <1>2, <1>3, <1>5 DEF RunSound

LEMMA AdvanceSound ==
  ASSUME NEW r, NEW x \in RunRec, x.pc = "run", NEW tb, NEW cl, NEW sv, NEW n, RunSound(x, tb, cl, sv, n),
         Left(x.cmd, x.at, x.clean, tb, cl), Seen(x.cmd, x.at, x.saw)
  PROVE  RunSound(Advanced(r, x), tb, cl, sv, n) /\ Advanced(r, x) \in RunRec
<1>1. x.cmd \in Commands /\ x.at \in 1 .. Len(Plan(x.cmd)) /\ x.out \in Paths /\ x.me \in 1 .. n
  BY DEF RunSound, Placed
<1>2. Len(Plan(x.cmd)) \in Nat BY <1>1, PlansHold DEF PlanShape, StepShape
<1>3. PICK y : y = Advanced(r, x) OBVIOUS
<1>4. /\ y \in RunRec /\ y.cmd = x.cmd /\ y.out = x.out /\ y.me = x.me /\ y.clean = x.clean
      /\ \/ /\ x.at < Len(Plan(x.cmd)) /\ y.pc = "run" /\ y.at = x.at + 1
            /\ y.saw = x.saw /\ y.sawClient = x.sawClient /\ y.sawPassword = x.sawPassword
         \/ /\ x.at = Len(Plan(x.cmd)) /\ y.pc = "done" /\ y.saw = NoSaws /\ y.sawClient = NoRowYet
  BY <1>1, <1>3, AdvancedRec
<1>5. \A j \in 1 .. x.at : Left(x.cmd, j, x.clean, tb, cl) /\ Seen(x.cmd, j, x.saw)
  <2>1. \A j \in 1 .. x.at : j = x.at \/ j \in 1 .. x.at - 1 BY <1>1
  <2> QED BY <2>1 DEF RunSound, Behind
<1>6. CASE y.pc = "run"
  <2>1. Placed(y, n) BY <1>1, <1>2, <1>4, <1>6 DEF Placed
  <2>2. SawSound(y, tb) /\ SawClientSound(y, cl, sv) BY <1>4, <1>6 DEF RunSound, SawSound, SawClientSound
  <2>3. 1 .. y.at - 1 = 1 .. x.at BY <1>1, <1>2, <1>4, <1>6
  <2>4. Behind(y, tb, cl) BY <1>4, <1>5, <1>6, <2>3 DEF Behind
  <2> QED BY <1>3, <1>4, <2>1, <2>2, <2>4 DEF RunSound
<1>7. CASE y.pc = "done"
  <2>1. Placed(y, n) BY <1>1, <1>4, <1>7 DEF Placed
  <2>2. y.saw = NoSaws /\ y.sawClient = NoRowYet BY <1>4, <1>7
  <2>3. SawSound(y, tb) BY <2>2 DEF SawSound, NoSaws
  <2>4. SawClientSound(y, cl, sv) BY <2>2, SetupAssumption DEF SawClientSound
  <2>5. Behind(y, tb, cl) BY <1>4, <1>5, <1>7 DEF Behind
  <2> QED BY <1>3, <1>4, <2>1, <2>3, <2>4, <2>5 DEF RunSound
<1> QED BY <1>4, <1>6, <1>7

LEMMA FailedSound ==
  ASSUME NEW tb, NEW cl, NEW sv, NEW n PROVE RunSound([NotRunning EXCEPT !.pc = "failed"], tb, cl, sv, n)
<1>1. PICK y : y = [NotRunning EXCEPT !.pc = "failed"] OBVIOUS
<1>2. y.pc = "failed" /\ y.saw = NoSaws /\ y.sawClient = NoRowYet BY <1>1, FailedRec
<1>3. SawSound(y, tb) BY <1>2 DEF SawSound, NoSaws
<1>4. SawClientSound(y, cl, sv) BY <1>2, SetupAssumption DEF SawClientSound
<1>5. Placed(y, n) /\ Behind(y, tb, cl) BY <1>2 DEF Placed, Behind
<1> QED BY <1>1, <1>3, <1>4, <1>5 DEF RunSound

\* One run moves, and the rest of the state only grows.
LEMMA RunMoves ==
  ASSUME SetupInv, NEW r \in Runners, NEW y \in RunRec, run' = [run EXCEPT ![r] = y],
         tab' \in [Tables -> Seq(RowRec)], Grows(tab, tab'), client' \in ClientRows, ClientKept(client, client'),
         service' = service, service => client' # NoRowYet /\ "machine" \in client',
         password' \in Passwords, files' \in [Paths -> Passwords], started' \in Nat, started <= started',
         RunSound(y, tab', client', service', started')
  PROVE  SetupInv'
<1>1. SetupType' BY DEF SetupInv, SetupType
<1>2. ASSUME NEW q \in Runners PROVE RunSound(run'[q], tab', client', service', started')
  <2>1. CASE q = r BY <2>1 DEF SetupInv, SetupType
  <2>2. CASE q # r
    <3>1. run'[q] = run[q] /\ run[q] \in RunRec /\ started \in Nat BY <2>2 DEF SetupInv, SetupType
    <3>2. RunSound(run[q], tab, client, service, started) BY DEF SetupInv
    <3>3. PICK z \in RunRec : z = run[q] BY <3>1
    <3>4. RunSound(z, tab', client', service, started') BY <3>1, <3>2, <3>3, SoundCarried
    <3> QED BY <3>1, <3>3, <3>4
  <2> QED BY <2>1, <2>2
<1> QED BY <1>1, <1>2 DEF SetupInv

Same(x, y) ==
  /\ y.cmd = x.cmd /\ y.at = x.at /\ y.pc = x.pc /\ y.out = x.out /\ y.me = x.me /\ y.clean = x.clean
LEMMA SawEdit ==
  ASSUME NEW x \in RunRec, NEW t \in Tables, NEW s \in SawRec, NEW tb, NEW cl, NEW sv, NEW n,
         RunSound(x, tb, cl, sv, n), s.id \in DOMAIN tb[t], x.clean /\ s.row.on => tb[t][s.id].on
  PROVE  LET y == [x EXCEPT !.saw[t] = s] IN
         y \in RunRec /\ Same(x, y) /\ y.saw[t] = s /\ RunSound(y, tb, cl, sv, n)
<1>1. PICK z \in Saws : z = [x.saw EXCEPT ![t] = s] BY DEF RunRec, Saws
<1>2. PICK y : y = [x EXCEPT !.saw[t] = s] OBVIOUS
<1>3. y = [x EXCEPT !.saw = z] BY <1>1, <1>2
<1>4. y \in RunRec /\ Same(x, y) /\ y.saw = z /\ y.sawClient = x.sawClient BY <1>3 DEF RunRec, Same
<1>5. z[t] = s /\ \A u \in Tables : u # t => z[u] = x.saw[u] BY <1>1 DEF RunRec, Saws
<1>6. s # NoRowYet BY SetupAssumption DEF SawRec, RowRec
<1>7. SawSound(y, tb) BY <1>4, <1>5 DEF RunSound, SawSound, Same
<1>8. SawClientSound(y, cl, sv) BY <1>4 DEF RunSound, SawClientSound, Same
<1>9. Placed(y, n) BY <1>4 DEF RunSound, Placed, Same
<1>10. Behind(y, tb, cl)
  <2>1. \A c \in Commands : \A j \in 1 .. Len(Plan(c)) : Seen(c, j, x.saw) => Seen(c, j, z)
    <3>1. SUFFICES ASSUME NEW c \in Commands, NEW j \in 1 .. Len(Plan(c)), Seen(c, j, x.saw) PROVE Seen(c, j, z)
      OBVIOUS
    <3>2. OpAt(c, j) \in {"make", "find"} => TabAt(c, j) \in Tables BY PlansHold DEF PlanShape, StepShape, Rowed
    <3> QED BY <1>5, <1>6, <3>1, <3>2 DEF Seen
  <2>2. x.pc = "run" => x.cmd \in Commands /\ \A j \in 1 .. x.at - 1 : j \in 1 .. Len(Plan(x.cmd))
    BY PlansHold DEF RunSound, Placed, PlanShape, StepShape
  <2> QED BY <1>4, <2>1, <2>2 DEF RunSound, Behind, Same
<1> QED BY <1>2, <1>4, <1>5, <1>7, <1>8, <1>9, <1>10 DEF RunSound

LEMMA Acting ==
  ASSUME SetupInv, NEW r \in Runners, NEW o, At(r, o)
  PROVE  /\ run[r] \in RunRec /\ run[r].pc = "run" /\ run[r].cmd \in Commands
         /\ run[r].at \in 1 .. Len(Plan(run[r].cmd))
         /\ OpAt(run[r].cmd, run[r].at) = o /\ Table(r) = TabAt(run[r].cmd, run[r].at)
         /\ RunSound(run[r], tab, client, service, started)
         /\ o \in Rowed => Table(r) \in Tables
<1>1. run[r] \in RunRec /\ run[r].pc = "run" /\ RunSound(run[r], tab, client, service, started)
  BY DEF SetupInv, SetupType, At
<1>2. run[r].cmd \in Commands /\ run[r].at \in 1 .. Len(Plan(run[r].cmd)) BY <1>1 DEF RunSound, Placed
<1>3. OpAt(run[r].cmd, run[r].at) = o /\ Table(r) = TabAt(run[r].cmd, run[r].at) BY DEF At, Op, Table, OpAt, TabAt
<1>4. o \in Rowed => Table(r) \in Tables BY <1>2, <1>3, PlansHold DEF PlanShape, StepShape
<1> QED BY <1>1, <1>2, <1>3, <1>4

LEMMA GrowsSame == ASSUME SetupType PROVE Grows(tab, tab) /\ ClientKept(client, client)
BY DEF Grows, ClientKept

\* A statement that changes no table and no client, and leaves the record's reads alone.
LEMMA AdvanceKeeps ==
  ASSUME SetupInv, NEW r \in Runners, run[r].pc = "run", Advance(r, run[r]), UNCHANGED <<tab, client, service, started>>,
         password' \in Passwords, files' \in [Paths -> Passwords],
         Left(run[r].cmd, run[r].at, run[r].clean, tab, client), Seen(run[r].cmd, run[r].at, run[r].saw)
  PROVE  SetupInv'
<1>1. run[r] \in RunRec /\ RunSound(run[r], tab, client, service, started) /\ SetupType BY DEF SetupInv, SetupType
<1>2. PICK y : y = Advanced(r, run[r]) OBVIOUS
<1>3. y \in RunRec /\ RunSound(y, tab, client, service, started) BY <1>1, <1>2, AdvanceSound
<1>4. run' = [run EXCEPT ![r] = y] BY <1>2 DEF Advance
<1>5. Grows(tab, tab') /\ ClientKept(client, client') BY <1>1, GrowsSame
<1>6. /\ tab' \in [Tables -> Seq(RowRec)] /\ client' \in ClientRows /\ started' \in Nat /\ started <= started'
      /\ service => client' # NoRowYet /\ "machine" \in client'
  BY DEF SetupInv, SetupType
<1> QED BY <1>3, <1>4, <1>5, <1>6, RunMoves

LEMMA BailKeeps ==
  ASSUME SetupInv, NEW r \in Runners, Bail(r), UNCHANGED <<tab, client, service, started>>,
         password' \in Passwords, files' \in [Paths -> Passwords]
  PROVE  SetupInv'
<1>2. PICK y : y = [NotRunning EXCEPT !.pc = "failed"] OBVIOUS
<1>3. y \in RunRec /\ RunSound(y, tab, client, service, started) BY <1>2, FailedRec, FailedSound
<1>4. run' = [run EXCEPT ![r] = y] BY <1>2 DEF Bail
<1>5. Grows(tab, tab') /\ ClientKept(client, client') BY GrowsSame DEF SetupInv
<1>6. /\ tab' \in [Tables -> Seq(RowRec)] /\ client' \in ClientRows /\ started' \in Nat /\ started <= started'
      /\ service => client' # NoRowYet /\ "machine" \in client'
  BY DEF SetupInv, SetupType
<1> QED BY <1>3, <1>4, <1>5, <1>6, RunMoves

\* A row is added, and the run knows it.
LEMMA InsertKeeps ==
  ASSUME SetupInv, NEW r \in Runners, NEW o \in {"create", "make"}, At(r, o), Inserted(r, Table(r)),
         UNCHANGED <<client, service, password, files, started>>
  PROVE  SetupInv'
<1>1. /\ run[r] \in RunRec /\ run[r].pc = "run" /\ OpAt(run[r].cmd, run[r].at) = o /\ Table(r) = TabAt(run[r].cmd, run[r].at)
      /\ RunSound(run[r], tab, client, service, started) /\ Table(r) \in Tables
  BY Acting DEF Rowed
<1>2. PICK t \in Tables : t = Table(r) BY <1>1
<1>3. PICK w \in RowRec : w = NewRow(t)
  <2>1. PICK b \in BOOLEAN : b = (t \notin BornOff) OBVIOUS
  <2>2. [on |-> b, ver |-> 1] \in RowRec BY DEF RowRec
  <2>3. NewRow(t) = [on |-> b, ver |-> 1] BY <2>1, Zenon DEF NewRow
  <2> QED BY <2>2, <2>3
<1>4. tab[t] \in Seq(RowRec) /\ tab \in [Tables -> Seq(RowRec)] /\ started \in Nat BY DEF SetupInv, SetupType
<1>5. PICK k \in Nat \ {0} : k = Len(tab[t]) + 1 BY <1>4
<1>6. PICK q \in Seq(RowRec) : q = Append(tab[t], w) BY <1>3, <1>4, AppendProperties
<1>7. /\ DOMAIN q = 1 .. k /\ q[k] = w /\ DOMAIN tab[t] = 1 .. k - 1 /\ \A i \in 1 .. k - 1 : q[i] = tab[t][i]
  BY <1>3, <1>4, <1>5, <1>6
<1>8. tab' = [tab EXCEPT ![t] = q] BY <1>2, <1>3, <1>6 DEF Inserted
<1>9. tab' \in [Tables -> Seq(RowRec)] /\ tab'[t] = q /\ \A u \in Tables : u # t => tab'[u] = tab[u] BY <1>4, <1>8
<1>10. q # <<>> BY <1>7
<1>11. Grows(tab, tab')
  <2>1. ASSUME NEW u \in Tables
        PROVE  /\ DOMAIN tab[u] \subseteq DOMAIN tab'[u] /\ (tab[u] # <<>> => tab'[u] # <<>>)
               /\ \A i \in DOMAIN tab[u] : tab[u][i].on => tab'[u][i].on
    <3>1. CASE u = t
      <4>1. 1 .. k - 1 \subseteq 1 .. k OBVIOUS
      <4> QED BY <1>7, <1>9, <1>10, <3>1, <4>1
    <3>2. CASE u # t BY <1>9, <3>2
    <3> QED BY <3>1, <3>2
  <2> QED BY <2>1 DEF Grows
<1>12. PICK s \in SawRec : s = [id |-> k, row |-> w] BY <1>3, <1>5 DEF SawRec
<1>13. s.id \in DOMAIN tab'[t] /\ (s.row.on => tab'[t][s.id].on)
  <2>1. s.id = k /\ s.row = w BY <1>12
  <2>2. k \in 1 .. k OBVIOUS
  <2> QED BY <1>7, <1>9, <2>1, <2>2
<1>14. RunSound(run[r], tab', client, service, started)
  <2>1. ClientKept(client, client) BY DEF ClientKept
  <2> QED BY <1>1, <1>4, <1>11, <2>1, SoundCarried
<1>15. PICK y : y = [run[r] EXCEPT !.saw[t] = s] OBVIOUS
<1>16. y \in RunRec /\ Same(run[r], y) /\ y.saw[t] = s /\ RunSound(y, tab', client, service, started)
  BY <1>1, <1>13, <1>14, <1>15, SawEdit
<1>17. Left(y.cmd, y.at, y.clean, tab', client) /\ Seen(y.cmd, y.at, y.saw) /\ y.pc = "run"
  <2>1. s # NoRowYet BY SetupAssumption DEF SawRec, RowRec
  <2>2. OpAt(y.cmd, y.at) = o /\ TabAt(y.cmd, y.at) = t BY <1>1, <1>2, <1>16 DEF Same
  <2> QED BY <1>1, <1>9, <1>10, <1>16, <2>1, <2>2 DEF Left, Seen, Same
<1>18. PICK z : z = Advanced(r, y) OBVIOUS
<1>19. z \in RunRec /\ RunSound(z, tab', client, service, started) BY <1>16, <1>17, <1>18, AdvanceSound
<1>20. run' = [run EXCEPT ![r] = z] BY <1>2, <1>3, <1>5, <1>12, <1>15, <1>18 DEF Inserted, Advance
<1>21. /\ client' \in ClientRows /\ ClientKept(client, client') /\ password' \in Passwords /\ files' \in [Paths -> Passwords]
       /\ started' \in Nat /\ started <= started' /\ (service => client' # NoRowYet /\ "machine" \in client')
  BY DEF SetupInv, SetupType, ClientKept
<1> QED BY <1>9, <1>11, <1>19, <1>20, <1>21, RunMoves

LEMMA SetupFrame ==
  ASSUME SetupInv PROVE password \in Passwords /\ files \in [Paths -> Passwords] /\ started \in Nat
BY DEF SetupInv, SetupType

LEMMA CreateKeeps == ASSUME SetupInv, NEW r \in Runners, Create(r) PROVE SetupInv'
<1>1. At(r, "create") /\ UNCHANGED <<client, service, password, files, started>> BY DEF Create
<1>2. /\ run[r].pc = "run" /\ OpAt(run[r].cmd, run[r].at) = "create" /\ Table(r) = TabAt(run[r].cmd, run[r].at)
      /\ RunSound(run[r], tab, client, service, started) /\ Table(r) \in Tables
  BY <1>1, Acting DEF Rowed
<1>3. CASE tab[Table(r)] = <<>> /\ run[r].saw[Table(r)] = NoRowYet
  <2>1. Inserted(r, Table(r)) BY <1>3 DEF Create
  <2> QED BY <1>1, <2>1, InsertKeeps
<1>4. CASE ~(tab[Table(r)] = <<>> /\ run[r].saw[Table(r)] = NoRowYet)
  <2>1. Advance(r, run[r]) /\ UNCHANGED tab BY <1>4 DEF Create
  <2>2. tab[Table(r)] # <<>> BY <1>2, <1>4 DEF RunSound, SawSound
  <2>3. Left(run[r].cmd, run[r].at, run[r].clean, tab, client) BY <1>2, <2>2 DEF Left
  <2>4. Seen(run[r].cmd, run[r].at, run[r].saw) BY <1>2 DEF Seen
  <2> QED BY <1>1, <1>2, <2>1, <2>3, <2>4, SetupFrame, AdvanceKeeps
<1> QED BY <1>3, <1>4

LEMMA FindKeeps == ASSUME SetupInv, NEW r \in Runners, Find(r) PROVE SetupInv'
<1>1. At(r, "find") /\ UNCHANGED <<tab, client, service, password, files, started>> BY DEF Find
<1>2. /\ run[r] \in RunRec /\ run[r].pc = "run" /\ OpAt(run[r].cmd, run[r].at) = "find"
      /\ Table(r) = TabAt(run[r].cmd, run[r].at) /\ run[r].cmd \in Commands /\ run[r].at \in 1 .. Len(Plan(run[r].cmd))
      /\ RunSound(run[r], tab, client, service, started) /\ Table(r) \in Tables
  BY <1>1, Acting DEF Rowed
<1>3. ASSUME NEW y \in RunRec, Same(run[r], y) PROVE Left(y.cmd, y.at, y.clean, tab, client) /\ y.pc = "run"
  BY <1>2, <1>3 DEF Left, Same, Makers
<1>4. CASE run[r].saw[Table(r)] = NoRowYet /\ tab[Table(r)] # <<>>
  <2>1. PICK i \in DOMAIN tab[Table(r)] :
          Advance(r, [run[r] EXCEPT !.saw[Table(r)] = [id |-> i, row |-> tab[Table(r)][i]]])
    BY <1>4 DEF Find
  <2>2. PICK t \in Tables : t = Table(r) BY <1>2
  <2>3. tab[t] \in Seq(RowRec) BY DEF SetupInv, SetupType
  <2>4. i \in Nat /\ tab[t][i] \in RowRec BY <2>1, <2>2, <2>3
  <2>5. PICK s \in SawRec : s = [id |-> i, row |-> tab[t][i]] BY <2>4 DEF SawRec
  <2>6. s.id \in DOMAIN tab[t] /\ (s.row.on => tab[t][s.id].on) BY <2>1, <2>2, <2>5
  <2>7. PICK y : y = [run[r] EXCEPT !.saw[t] = s] OBVIOUS
  <2>8. y \in RunRec /\ Same(run[r], y) /\ y.saw[t] = s /\ RunSound(y, tab, client, service, started)
    BY <1>2, <2>6, <2>7, SawEdit
  <2>9. Seen(y.cmd, y.at, y.saw)
    <3>1. s # NoRowYet BY SetupAssumption DEF SawRec, RowRec
    <3>2. TabAt(y.cmd, y.at) = t BY <1>2, <2>2, <2>8 DEF Same
    <3> QED BY <2>8, <3>1, <3>2 DEF Seen
  <2>10. PICK z : z = Advanced(r, y) OBVIOUS
  <2>11. z \in RunRec /\ RunSound(z, tab, client, service, started) BY <1>3, <2>8, <2>9, <2>10, AdvanceSound
  <2>12. run' = [run EXCEPT ![r] = z] BY <2>1, <2>2, <2>5, <2>7, <2>10 DEF Advance
  <2>13. Grows(tab, tab') /\ ClientKept(client, client') BY <1>1, GrowsSame DEF SetupInv
  <2>14. /\ tab' \in [Tables -> Seq(RowRec)] /\ client' \in ClientRows /\ password' \in Passwords
         /\ files' \in [Paths -> Passwords] /\ started' \in Nat /\ started <= started'
         /\ service => client' # NoRowYet /\ "machine" \in client'
    BY <1>1 DEF SetupInv, SetupType
  <2> QED BY <1>1, <2>11, <2>12, <2>13, <2>14, RunMoves
<1>5. CASE ~(run[r].saw[Table(r)] = NoRowYet /\ tab[Table(r)] # <<>>)
  <2>1. Advance(r, run[r]) BY <1>5 DEF Find
  <2>2. Seen(run[r].cmd, run[r].at, run[r].saw)
    <3>1. ASSUME Table(r) = "provider" PROVE tab[Table(r)] # <<>>
      <4>1. PICK j \in 1 .. run[r].at - 1 : OpAt(run[r].cmd, j) = "create" /\ TabAt(run[r].cmd, j) = "provider"
        BY <1>2, <3>1, PlansHold DEF PlanShape, StepShape
      <4>2. Left(run[r].cmd, j, run[r].clean, tab, client) BY <1>2 DEF RunSound, Behind
      <4> QED BY <3>1, <4>1, <4>2 DEF Left, Makers
    <3> QED BY <1>2, <1>5, <3>1 DEF Seen
  <2>3. Same(run[r], run[r]) BY DEF Same
  <2>4. Left(run[r].cmd, run[r].at, run[r].clean, tab, client) BY <1>2, <1>3, <2>3
  <2> QED BY <1>1, <1>2, <2>1, <2>2, <2>4, SetupFrame, AdvanceKeeps
<1> QED BY <1>4, <1>5

LEMMA NeedKeeps == ASSUME SetupInv, NEW r \in Runners, Need(r) PROVE SetupInv'
<1>1. At(r, "need") /\ UNCHANGED <<tab, client, service, password, files, started>> BY DEF Need
<1>2. run[r].pc = "run" /\ OpAt(run[r].cmd, run[r].at) = "need" /\ Table(r) = TabAt(run[r].cmd, run[r].at)
  BY <1>1, Acting
<1>3. CASE tab[Table(r)] # <<>>
  <2>1. Advance(r, run[r]) BY <1>3 DEF Need
  <2>2. Left(run[r].cmd, run[r].at, run[r].clean, tab, client) /\ Seen(run[r].cmd, run[r].at, run[r].saw)
    BY <1>2, <1>3 DEF Left, Seen
  <2> QED BY <1>1, <1>2, <2>1, <2>2, SetupFrame, AdvanceKeeps
<1>4. CASE tab[Table(r)] = <<>>
  <2>1. Bail(r) BY <1>4 DEF Need
  <2> QED BY <1>1, <2>1, SetupFrame, BailKeeps
<1> QED BY <1>3, <1>4

LEMMA MakeKeeps == ASSUME SetupInv, NEW r \in Runners, Make(r) PROVE SetupInv'
<1>1. At(r, "make") /\ UNCHANGED <<client, service, password, files, started>> BY DEF Make
<1>2. /\ run[r].pc = "run" /\ OpAt(run[r].cmd, run[r].at) = "make" /\ Table(r) = TabAt(run[r].cmd, run[r].at)
      /\ RunSound(run[r], tab, client, service, started) /\ Table(r) \in Tables
  BY <1>1, Acting DEF Rowed
<1>3. CASE run[r].saw[Table(r)] # NoRowYet
  <2>1. Advance(r, run[r]) /\ UNCHANGED tab BY <1>3 DEF Make
  <2>2. tab[Table(r)] # <<>> BY <1>2, <1>3 DEF RunSound, SawSound
  <2>3. Left(run[r].cmd, run[r].at, run[r].clean, tab, client) /\ Seen(run[r].cmd, run[r].at, run[r].saw)
    BY <1>2, <1>3, <2>2 DEF Left, Seen
  <2> QED BY <1>1, <1>2, <2>1, <2>3, SetupFrame, AdvanceKeeps
<1>4. CASE run[r].saw[Table(r)] = NoRowYet /\ Table(r) \in Unique /\ tab[Table(r)] # <<>>
  <2>1. Bail(r) /\ UNCHANGED tab BY <1>4 DEF Make
  <2> QED BY <1>1, <2>1, SetupFrame, BailKeeps
<1>5. CASE run[r].saw[Table(r)] = NoRowYet /\ ~(Table(r) \in Unique /\ tab[Table(r)] # <<>>)
  <2>1. Inserted(r, Table(r)) BY <1>5 DEF Make
  <2> QED BY <1>1, <2>1, InsertKeeps
<1> QED BY <1>3, <1>4, <1>5

LEMMA SwitchKeeps == ASSUME SetupInv, NEW r \in Runners, SwitchOn(r) PROVE SetupInv'
<1>1. At(r, "switch") /\ UNCHANGED <<client, service, password, files, started>> BY DEF SwitchOn
<1>2. /\ run[r] \in RunRec /\ run[r].pc = "run" /\ OpAt(run[r].cmd, run[r].at) = "switch"
      /\ Table(r) = TabAt(run[r].cmd, run[r].at) /\ run[r].cmd \in Commands /\ run[r].at \in 1 .. Len(Plan(run[r].cmd))
      /\ RunSound(run[r], tab, client, service, started) /\ Table(r) \in Tables
  BY <1>1, Acting DEF Rowed
<1>3. run[r].saw[Table(r)] # NoRowYet
  <2>1. PICK j \in 1 .. run[r].at - 1 :
          /\ TabAt(run[r].cmd, j) = Table(r)
          /\ OpAt(run[r].cmd, j) = "make" \/ (OpAt(run[r].cmd, j) = "find" /\ TabAt(run[r].cmd, j) = "provider")
    BY <1>2, PlansHold DEF PlanShape, StepShape
  <2>2. Seen(run[r].cmd, j, run[r].saw) BY <1>2 DEF RunSound, Behind
  <2> QED BY <2>1, <2>2 DEF Seen
<1>4. PICK t \in Tables, s \in SawRec : t = Table(r) /\ s = run[r].saw[Table(r)] BY <1>2, <1>3 DEF RunRec, Saws
<1>5. s.id \in DOMAIN tab[t] /\ (run[r].clean /\ s.row.on => tab[t][s.id].on)
  BY <1>2, <1>3, <1>4 DEF RunSound, SawSound
<1>6. tab \in [Tables -> Seq(RowRec)] /\ tab[t] \in Seq(RowRec) /\ started \in Nat BY DEF SetupInv, SetupType
<1>7. CASE s.row.on
  <2>1. Advance(r, run[r]) /\ UNCHANGED tab BY <1>4, <1>7 DEF SwitchOn
  <2>2. Left(run[r].cmd, run[r].at, run[r].clean, tab, client) /\ Seen(run[r].cmd, run[r].at, run[r].saw)
    BY <1>2, <1>4, <1>5, <1>7 DEF Left, Seen, Makers
  <2> QED BY <1>1, <1>2, <2>1, <2>2, SetupFrame, AdvanceKeeps
<1>8. CASE ~s.row.on /\ tab[t][s.id].ver = s.row.ver
  <2>1. /\ Advance(r, run[r])
        /\ tab' = [tab EXCEPT ![t][s.id] = [on |-> TRUE, ver |-> tab[t][s.id].ver + 1]]
    BY <1>4, <1>8 DEF SwitchOn
  <2>2. tab[t][s.id] \in RowRec BY <1>5, <1>6
  <2>3. PICK w \in RowRec : w = [on |-> TRUE, ver |-> tab[t][s.id].ver + 1]
    <3>1. PICK n \in Nat : n = tab[t][s.id].ver + 1 BY <2>2 DEF RowRec
    <3>2. [on |-> TRUE, ver |-> n] \in RowRec BY DEF RowRec
    <3> QED BY <3>1, <3>2
  <2>4. w.on BY <2>3
  <2>5. PICK q : q = [tab[t] EXCEPT ![s.id] = w] OBVIOUS
  <2>6. q \in Seq(RowRec) /\ DOMAIN q = DOMAIN tab[t] /\ q[s.id] = w /\ \A i \in DOMAIN tab[t] : i # s.id =>
            q[i] = tab[t][i]
    BY <1>5, <1>6, <2>5
  <2>7. tab' = [tab EXCEPT ![t] = q] BY <2>1, <2>3, <2>5
  <2>8. tab' \in [Tables -> Seq(RowRec)] /\ tab'[t] = q /\ \A u \in Tables : u # t => tab'[u] = tab[u]
    BY <1>6, <2>6, <2>7
  <2>9. q # <<>> BY <1>5, <2>6
  <2>10. Grows(tab, tab')
    <3>1. ASSUME NEW u \in Tables
          PROVE  /\ DOMAIN tab[u] \subseteq DOMAIN tab'[u] /\ (tab[u] # <<>> => tab'[u] # <<>>)
                 /\ \A i \in DOMAIN tab[u] : tab[u][i].on => tab'[u][i].on
      <4>1. CASE u = t BY <2>4, <2>6, <2>8, <2>9, <4>1
      <4>2. CASE u # t BY <2>8, <4>2
      <4> QED BY <4>1, <4>2
    <3> QED BY <3>1 DEF Grows
  <2>11. RunSound(run[r], tab', client, service, started)
    <3>1. ClientKept(client, client) BY DEF ClientKept
    <3> QED BY <1>2, <1>6, <2>10, <3>1, SoundCarried
  <2>12. Left(run[r].cmd, run[r].at, run[r].clean, tab', client) /\ Seen(run[r].cmd, run[r].at, run[r].saw)
    <3>1. s.id \in DOMAIN tab'[t] /\ tab'[t][s.id].on BY <1>5, <2>4, <2>6, <2>8
    <3> QED BY <1>2, <1>4, <3>1 DEF Left, Seen, Makers
  <2>13. PICK z : z = Advanced(r, run[r]) OBVIOUS
  <2>14. z \in RunRec /\ RunSound(z, tab', client, service, started) BY <1>2, <2>11, <2>12, <2>13, AdvanceSound
  <2>15. run' = [run EXCEPT ![r] = z] BY <2>1, <2>13 DEF Advance
  <2>16. /\ client' \in ClientRows /\ ClientKept(client, client') /\ password' \in Passwords /\ files' \in [Paths -> Passwords]
         /\ started' \in Nat /\ started <= started' /\ (service => client' # NoRowYet /\ "machine" \in client')
    BY <1>1 DEF SetupInv, SetupType, ClientKept
  <2> QED BY <1>1, <2>8, <2>10, <2>14, <2>15, <2>16, RunMoves
<1>9. CASE ~s.row.on /\ tab[t][s.id].ver # s.row.ver
  <2>1. Bail(r) /\ UNCHANGED tab BY <1>4, <1>9 DEF SwitchOn
  <2> QED BY <1>1, <2>1, SetupFrame, BailKeeps
<1> QED BY <1>7, <1>8, <1>9

\* A statement that notes something else than a row, and moves on.
LEMMA NoteKeeps ==
  ASSUME SetupInv, NEW r \in Runners, run[r].pc = "run", NEW y \in RunRec, Same(run[r], y), y.saw = run[r].saw,
         Advance(r, y), UNCHANGED <<tab, client, service, password, files, started>>,
         SawClientSound(y, client, service), OpAt(y.cmd, y.at) \in {"findClient", "findPassword"}
  PROVE  SetupInv'
<1>1. RunSound(run[r], tab, client, service, started) /\ SetupType BY DEF SetupInv
<1>2. RunSound(y, tab, client, service, started)
  BY <1>1 DEF RunSound, Placed, SawSound, Behind, Same
<1>3. Left(y.cmd, y.at, y.clean, tab, client) /\ Seen(y.cmd, y.at, y.saw) /\ y.pc = "run"
  BY DEF Left, Seen, Makers, Same
<1>4. PICK z : z = Advanced(r, y) OBVIOUS
<1>5. z \in RunRec /\ RunSound(z, tab, client, service, started) BY <1>2, <1>3, <1>4, AdvanceSound
<1>6. run' = [run EXCEPT ![r] = z] BY <1>4 DEF Advance
<1>7. Grows(tab, tab') /\ ClientKept(client, client') BY <1>1, GrowsSame
<1>8. /\ tab' \in [Tables -> Seq(RowRec)] /\ client' \in ClientRows /\ password' \in Passwords
      /\ files' \in [Paths -> Passwords] /\ started' \in Nat /\ started <= started'
      /\ service => client' # NoRowYet /\ "machine" \in client'
  BY DEF SetupInv, SetupType
<1> QED BY <1>5, <1>6, <1>7, <1>8, RunMoves

LEMMA FindClientKeeps == ASSUME SetupInv, NEW r \in Runners, FindClient(r) PROVE SetupInv'
<1>1. /\ At(r, "findClient") /\ UNCHANGED <<tab, client, service, password, files, started>>
      /\ Advance(r, [run[r] EXCEPT !.sawClient = client])
  BY DEF FindClient
<1>2. run[r] \in RunRec /\ run[r].pc = "run" /\ OpAt(run[r].cmd, run[r].at) = "findClient" BY <1>1, Acting
<1>3. PICK y : y = [run[r] EXCEPT !.sawClient = client] OBVIOUS
<1>4. client \in ClientRows BY DEF SetupInv, SetupType
<1>5. y \in RunRec /\ Same(run[r], y) /\ y.saw = run[r].saw /\ y.sawClient = client BY <1>2, <1>3, <1>4 DEF RunRec, Same
<1>6. SawClientSound(y, client, service) BY <1>5 DEF SawClientSound, SetupInv
<1>7. OpAt(y.cmd, y.at) = "findClient" BY <1>2, <1>5 DEF Same
<1> QED BY <1>1, <1>2, <1>3, <1>5, <1>6, <1>7, NoteKeeps

LEMMA FindPasswordKeeps == ASSUME SetupInv, NEW r \in Runners, FindPassword(r) PROVE SetupInv'
<1>1. At(r, "findPassword") /\ UNCHANGED <<tab, client, service, password, files, started>> BY DEF FindPassword
<1>2. /\ run[r] \in RunRec /\ run[r].pc = "run" /\ OpAt(run[r].cmd, run[r].at) = "findPassword"
      /\ RunSound(run[r], tab, client, service, started)
  BY <1>1, Acting
<1>3. CASE Bail(r) BY <1>1, <1>3, SetupFrame, BailKeeps
<1>4. CASE Advance(r, [run[r] EXCEPT !.sawPassword = password])
  <2>1. PICK y : y = [run[r] EXCEPT !.sawPassword = password] OBVIOUS
  <2>2. password \in Passwords BY SetupFrame
  <2>3. y \in RunRec /\ Same(run[r], y) /\ y.saw = run[r].saw /\ y.sawClient = run[r].sawClient
    BY <1>2, <2>1, <2>2 DEF RunRec, Same
  <2>4. SawClientSound(y, client, service) BY <1>2, <2>3 DEF RunSound, SawClientSound, Same
  <2>5. OpAt(y.cmd, y.at) = "findPassword" BY <1>2, <2>3 DEF Same
  <2> QED BY <1>1, <1>2, <1>4, <2>1, <2>3, <2>4, <2>5, NoteKeeps
<1> QED BY <1>3, <1>4 DEF FindPassword

LEMMA WriteClientKeeps == ASSUME SetupInv, NEW r \in Runners, WriteClient(r) PROVE SetupInv'
<1>1. At(r, "writeClient") /\ UNCHANGED <<tab, service, password, files, started>> BY DEF WriteClient
<1>2. /\ run[r] \in RunRec /\ run[r].pc = "run" /\ OpAt(run[r].cmd, run[r].at) = "writeClient"
      /\ RunSound(run[r], tab, client, service, started)
  BY <1>1, Acting
<1>3. PICK saw \in ClientRows : saw = run[r].sawClient BY <1>2 DEF RunRec
<1>0. NoRowYet # {} BY SetupAssumption
<1>4. CASE Bail(r) /\ UNCHANGED client BY <1>1, <1>4, SetupFrame, BailKeeps
<1>5. CASE saw = {} /\ Advance(r, run[r]) /\ UNCHANGED client
  <2>1. Left(run[r].cmd, run[r].at, run[r].clean, tab, client) /\ Seen(run[r].cmd, run[r].at, run[r].saw)
    BY <1>2, <1>3, <1>5 DEF Left, Seen, Makers, RunSound, SawClientSound
  <2> QED BY <1>1, <1>2, <1>5, <2>1, SetupFrame, AdvanceKeeps
<1>6. CASE /\ Advance(r, run[r]) /\ client' = {}
           /\ (saw = NoRowYet /\ client = NoRowYet) \/ (saw # NoRowYet /\ "machine" \notin saw)
  <2>1. ~service BY <1>2, <1>3, <1>6 DEF SetupInv, RunSound, SawClientSound
  <2>2. ClientKept(client, client') /\ client' \in ClientRows BY <1>0, <1>6 DEF ClientKept, ClientRows
  <2>3. Grows(tab, tab') BY <1>1, GrowsSame DEF SetupInv
  <2>4. started \in Nat BY SetupFrame
  <2>5. RunSound(run[r], tab', client', service, started) BY <1>2, <2>2, <2>3, <2>4, SoundCarried
  <2>6. Left(run[r].cmd, run[r].at, run[r].clean, tab', client') /\ Seen(run[r].cmd, run[r].at, run[r].saw)
    BY <1>2, <1>6 DEF Left, Seen, Makers
  <2>7. PICK z : z = Advanced(r, run[r]) OBVIOUS
  <2>8. z \in RunRec /\ RunSound(z, tab', client', service, started) BY <1>2, <2>5, <2>6, <2>7, AdvanceSound
  <2>9. run' = [run EXCEPT ![r] = z] BY <1>6, <2>7 DEF Advance
  <2>10. /\ tab' \in [Tables -> Seq(RowRec)] /\ password' \in Passwords
         /\ files' \in [Paths -> Passwords] /\ started' \in Nat /\ started <= started'
    BY <1>1 DEF SetupInv, SetupType
  <2> QED BY <1>1, <2>1, <2>2, <2>3, <2>8, <2>9, <2>10, RunMoves
<1> QED BY <1>0, <1>3, <1>4, <1>5, <1>6 DEF WriteClient

LEMMA FileKeeps == ASSUME SetupInv, NEW r \in Runners, WriteFile(r) \/ StoreHash(r) \/ Dies(r) PROVE SetupInv'
<1>1. UNCHANGED <<tab, client, service, started>> BY DEF WriteFile, StoreHash, Dies
<1>2. run[r] \in RunRec BY DEF SetupInv, SetupType
<1>3. run[r].me \in Passwords /\ NoPassword \in Passwords BY <1>2 DEF RunRec, Passwords
<1>4. password' \in Passwords /\ files' \in [Paths -> Passwords]
  BY <1>3, SetupFrame DEF WriteFile, StoreHash, Dies, Me
<1>5. CASE Bail(r) BY <1>1, <1>4, <1>5, BailKeeps
<1>6. CASE Advance(r, run[r])
  <2>1. At(r, "writeFile") \/ At(r, "storeHash") \/ (Dies(r) /\ Bail(r)) BY DEF WriteFile, StoreHash, Dies
  <2>2. ASSUME NEW o \in {"writeFile", "storeHash"}, At(r, o) PROVE SetupInv'
    <3>1. run[r].pc = "run" /\ OpAt(run[r].cmd, run[r].at) = o BY <2>2, Acting
    <3>2. Left(run[r].cmd, run[r].at, run[r].clean, tab, client) /\ Seen(run[r].cmd, run[r].at, run[r].saw)
      BY <3>1 DEF Left, Seen, Makers
    <3> QED BY <1>1, <1>4, <1>6, <3>1, <3>2, AdvanceKeeps
  <2> QED BY <1>5, <2>1, <2>2
<1> QED BY <1>5, <1>6 DEF WriteFile, StoreHash, Dies

LEMMA StartKeeps ==
  ASSUME SetupInv, NEW r \in Runners, NEW cmd \in Commands, NEW out \in Paths, StartCommand(r, cmd, out)
  PROVE  SetupInv'
<1>1. started \in Nat BY SetupFrame
<1>2. PICK n \in Nat : n = started + 1 /\ n \in 1 .. n BY <1>1
<1>3. PICK y : y = StartRec(cmd, out, n) OBVIOUS
<1>4. /\ y \in RunRec /\ y.cmd = cmd /\ y.at = 1 /\ y.pc = "run" /\ y.out = out /\ y.me = n
      /\ y.saw = NoSaws /\ y.sawClient = NoRowYet
  BY <1>3, FreshRec
<1>5. run' = [run EXCEPT ![r] = y] /\ started' = n /\ UNCHANGED <<tab, client, service, password, files>>
  BY <1>2, <1>3 DEF StartCommand, StartRec
<1>6. Placed(y, n)
  <2>1. 1 \in 1 .. Len(Plan(cmd)) BY PlansHold DEF PlanShape, StepShape
  <2> QED BY <1>2, <1>4, <2>1 DEF Placed
<1>7. SawSound(y, tab) BY <1>4 DEF SawSound, NoSaws
<1>8. SawClientSound(y, client, service) BY <1>4, SetupAssumption DEF SawClientSound
<1>9. Behind(y, tab, client)
  <2>1. 1 .. y.at - 1 = {} BY <1>4
  <2> QED BY <1>4, <2>1 DEF Behind
<1>10. RunSound(y, tab', client', service', started') BY <1>5, <1>6, <1>7, <1>8, <1>9 DEF RunSound
<1>11. Grows(tab, tab') /\ ClientKept(client, client') BY <1>5, GrowsSame DEF SetupInv
<1>12. /\ tab' \in [Tables -> Seq(RowRec)] /\ client' \in ClientRows /\ password' \in Passwords
       /\ files' \in [Paths -> Passwords] /\ started' \in Nat /\ started <= started'
       /\ service => client' # NoRowYet /\ "machine" \in client'
  BY <1>1, <1>2, <1>5 DEF SetupInv, SetupType
<1> QED BY <1>4, <1>5, <1>10, <1>11, <1>12, RunMoves

LEMMA HandOverKeeps == ASSUME SetupInv, NEW r \in Runners, HandOver(r) PROVE SetupInv'
<1>1. run' = run /\ UNCHANGED <<tab, client, service, password, started>> BY DEF HandOver
<1>2. NoPassword \in Passwords BY DEF Passwords
<1>3. files' \in [Paths -> Passwords] BY <1>2, SetupFrame DEF HandOver
<1> QED BY <1>1, <1>3 DEF SetupInv, SetupType

\* An edit in the console makes every run unclean, and takes no row away.
LEMMA DisturbKeeps ==
  ASSUME SetupInv, Disturb, tab' \in [Tables -> Seq(RowRec)], \A t \in Tables : DOMAIN tab[t] = DOMAIN tab'[t],
         \A t \in Tables : tab[t] # <<>> => tab'[t] # <<>>, client' \in ClientRows, client # NoRowYet =>
             client' # NoRowYet,
         service' \in BOOLEAN, client # NoRowYet => service' = service,
         service' => client' # NoRowYet /\ "machine" \in client', UNCHANGED <<password, files, started>>
  PROVE  SetupInv'
<1>1. ASSUME NEW r \in Runners PROVE run'[r] \in RunRec /\ RunSound(run'[r], tab', client', service', started')
  <2>1. PICK x \in RunRec : x = run[r] /\ RunSound(x, tab, client, service, started) BY DEF SetupInv, SetupType
  <2>2. PICK y : y = [x EXCEPT !.clean = FALSE] OBVIOUS
  <2>3. run'[r] = y BY <2>1, <2>2 DEF Disturb
  <2>4. /\ y \in RunRec /\ y.cmd = x.cmd /\ y.at = x.at /\ y.pc = x.pc /\ y.out = x.out /\ y.me = x.me /\ ~y.clean
        /\ y.saw = x.saw /\ y.sawClient = x.sawClient
    BY <2>2 DEF RunRec
  <2>5. Placed(y, started) BY <2>1, <2>4 DEF RunSound, Placed
  <2>6. SawSound(y, tab') BY <2>1, <2>4 DEF RunSound, SawSound
  <2>7. SawClientSound(y, client', service') BY <2>1, <2>4 DEF RunSound, SawClientSound
  <2>8. ASSUME NEW c \in Commands, NEW j \in 1 .. Len(Plan(c)), Left(c, j, x.clean, tab, client)
        PROVE  Left(c, j, FALSE, tab', client')
    <3>1. OpAt(c, j) \in Makers => TabAt(c, j) \in Tables BY PlansHold DEF PlanShape, StepShape, Makers, Rowed
    <3> QED BY <2>8, <3>1 DEF Left
  <2>9. Behind(y, tab', client')
    <3>1. ASSUME x.pc = "run", NEW j \in 1 .. x.at - 1
                PROVE Left(x.cmd, j, FALSE, tab', client') /\ Seen(x.cmd, j, x.saw)
      <4>1. x.cmd \in Commands /\ x.at \in 1 .. Len(Plan(x.cmd)) BY <2>1, <3>1 DEF RunSound, Placed
      <4>2. j \in 1 .. Len(Plan(x.cmd)) BY <4>1, PlansHold DEF PlanShape, StepShape
      <4> QED BY <2>1, <2>8, <3>1, <4>1, <4>2 DEF RunSound, Behind
    <3>2. ASSUME x.pc = "done", NEW j \in 1 .. Len(Plan(x.cmd)) PROVE Left(x.cmd, j, FALSE, tab', client')
      BY <2>1, <2>8, <3>2 DEF RunSound, Behind, Placed
    <3>3. y.clean = FALSE BY <2>2 DEF RunRec
    <3> QED BY <2>4, <3>1, <3>2, <3>3 DEF Behind
  <2> QED BY <2>3, <2>4, <2>5, <2>6, <2>7, <2>9 DEF RunSound
<1>2. run' \in [Runners -> RunRec] BY <1>1 DEF Disturb
<1> QED BY <1>1, <1>2 DEF SetupInv, SetupType

LEMMA TurnOffKeeps == ASSUME SetupInv, NEW t \in Switched, TurnOff(t) PROVE SetupInv'
<1>1. Disturb /\ UNCHANGED <<client, service, password, files, started>> BY DEF TurnOff
<1>2. PICK i \in DOMAIN tab[t] : tab' = [tab EXCEPT ![t][i] = [on |-> FALSE, ver |-> tab[t][i].ver + 1]] BY DEF TurnOff
<1>3. t \in Tables /\ tab \in [Tables -> Seq(RowRec)] /\ tab[t] \in Seq(RowRec)
  BY DEF Switched, Tables, SetupInv, SetupType
<1>4. tab[t][i] \in RowRec BY <1>2, <1>3
<1>5. PICK w \in RowRec : w = [on |-> FALSE, ver |-> tab[t][i].ver + 1]
  <2>1. PICK n \in Nat : n = tab[t][i].ver + 1 BY <1>4 DEF RowRec
  <2>2. [on |-> FALSE, ver |-> n] \in RowRec BY DEF RowRec
  <2> QED BY <2>1, <2>2
<1>6. PICK q : q = [tab[t] EXCEPT ![i] = w] OBVIOUS
<1>7. q \in Seq(RowRec) /\ DOMAIN q = DOMAIN tab[t] /\ q # <<>> BY <1>2, <1>3, <1>6
<1>8. tab' = [tab EXCEPT ![t] = q] BY <1>2, <1>5, <1>6
<1>9. tab' \in [Tables -> Seq(RowRec)] /\ tab'[t] = q /\ \A u \in Tables : u # t => tab'[u] = tab[u] BY <1>3, <1>7, <1>8
<1>10. /\ \A u \in Tables : DOMAIN tab[u] = DOMAIN tab'[u]
       /\ \A u \in Tables : tab[u] # <<>> => tab'[u] # <<>>
  BY <1>7, <1>9
<1>11. /\ client' \in ClientRows /\ (client # NoRowYet => client' # NoRowYet) /\ service' \in BOOLEAN
       /\ (client # NoRowYet => service' = service) /\ (service' => client' # NoRowYet /\ "machine" \in client')
  BY <1>1 DEF SetupInv, SetupType
<1> QED BY <1>1, <1>9, <1>10, <1>11, DisturbKeeps

LEMMA EditClientKeeps == ASSUME SetupInv, EditClient PROVE SetupInv'
<1>1. Disturb /\ UNCHANGED <<tab, password, files, started>> BY DEF EditClient
<1>2. client \in ClientRows /\ service \in BOOLEAN /\ tab \in [Tables -> Seq(RowRec)] BY DEF SetupInv, SetupType
<1>3. NoRowYet # {"machine"} /\ {"machine"} \in ClientRows BY SetupAssumption DEF ClientRows
<1>4. client # NoRowYet => client \cup {"drift"} \in ClientRows /\ client \cup {"drift"} # NoRowYet
  BY <1>2, SetupAssumption DEF ClientRows
<1>5. client' \in ClientRows /\ client' # NoRowYet BY <1>3, <1>4 DEF EditClient
<1>6. CASE client = NoRowYet
  <2>1. client' = {"machine"} /\ service' = TRUE BY <1>2, <1>6, Zenon DEF EditClient
  <2> QED BY <1>1, <1>2, <1>5, <1>6, <2>1, DisturbKeeps
<1>7. CASE client # NoRowYet
  <2>1. client' = client \cup {"drift"} /\ service' = service
    <3>1. service' = (service \/ client = NoRowYet) /\ client' = client \cup {"drift"} BY <1>7, Zenon DEF EditClient
    <3> QED BY <1>2, <1>7, <3>1
  <2>2. service' => client' # NoRowYet /\ "machine" \in client' BY <1>5, <2>1 DEF SetupInv
  <2> QED BY <1>1, <1>2, <1>5, <1>7, <2>1, <2>2, DisturbKeeps
<1> QED BY <1>6, <1>7

LEMMA SetupStarts == StInit => SetupInv
<1> SUFFICES ASSUME StInit PROVE SetupInv OBVIOUS
<1>1. NotRunning \in RunRec
  <2>1. "none" \in Commands \cup {"none"} /\ NoPassword \in Paths \cup {NoPassword} /\ 0 \in Nat OBVIOUS
  <2> QED BY <2>1, RestRec, RestFields DEF RunRec
<1>2. NotRunning.pc = "idle" /\ NotRunning.saw = NoSaws /\ NotRunning.sawClient = NoRowYet BY RestRec
<1>3. RunSound(NotRunning, tab, client, service, started)
  <2>1. SawSound(NotRunning, tab) BY <1>2 DEF SawSound, NoSaws
  <2>2. SawClientSound(NotRunning, client, service) BY <1>2, SetupAssumption DEF SawClientSound
  <2>3. Placed(NotRunning, started) /\ Behind(NotRunning, tab, client) BY <1>2 DEF Placed, Behind
  <2> QED BY <2>1, <2>2, <2>3 DEF RunSound
<1>4. \A r \in Runners : run[r] = NotRunning BY DEF StInit
<1>5. client \in ClientRows BY DEF StInit, ClientRows
<1>6. service => client # NoRowYet /\ "machine" \in client BY SetupAssumption DEF StInit
<1>7. tab \in [Tables -> Seq(RowRec)] BY DEF StInit
<1>8. service \in BOOLEAN BY DEF StInit
<1>9. password \in Passwords /\ files \in [Paths -> Passwords] /\ started \in Nat BY DEF StInit, Passwords
<1>10. run \in [Runners -> RunRec] BY <1>1 DEF StInit
<1>11. \A r \in Runners : RunSound(run[r], tab, client, service, started) BY <1>3, <1>4
<1> QED BY <1>5, <1>6, <1>7, <1>8, <1>9, <1>10, <1>11 DEF SetupInv, SetupType

LEMMA SetupStep == SetupInv /\ [StNext]_stvars => SetupInv'
<1> SUFFICES ASSUME SetupInv, [StNext]_stvars PROVE SetupInv' OBVIOUS
<1>1. CASE UNCHANGED stvars BY <1>1 DEF stvars, SetupInv, SetupType
<1>2. ASSUME NEW r \in Runners, NEW cmd \in Commands, NEW out \in Paths, StartCommand(r, cmd, out) PROVE SetupInv'
  BY <1>2, StartKeeps
<1>3. ASSUME NEW r \in Runners, Create(r) \/ Find(r) \/ Need(r) \/ Make(r) \/ SwitchOn(r) PROVE SetupInv'
  BY <1>3, CreateKeeps, FindKeeps, NeedKeeps, MakeKeeps, SwitchKeeps
<1>4. ASSUME NEW r \in Runners, FindClient(r) \/ WriteClient(r) \/ FindPassword(r) PROVE SetupInv'
  BY <1>4, FindClientKeeps, WriteClientKeeps, FindPasswordKeeps
<1>5. ASSUME NEW r \in Runners, WriteFile(r) \/ StoreHash(r) \/ Dies(r) \/ HandOver(r) PROVE SetupInv'
  BY <1>5, FileKeeps, HandOverKeeps
<1>6. ASSUME NEW t \in Switched, TurnOff(t) PROVE SetupInv' BY <1>6, TurnOffKeeps
<1>7. CASE EditClient BY <1>7, EditClientKeeps
<1> QED BY <1>1, <1>2, <1>3, <1>4, <1>5, <1>6, <1>7 DEF StNext

LEMMA SetupIsReady == SetupInv => DoneMeansReady
<1> SUFFICES ASSUME SetupInv PROVE DoneMeansReady OBVIOUS
<1>1. ASSUME NEW r \in Runners, run[r].pc = "done", run[r].clean, NEW i \in DOMAIN Plan(run[r].cmd)
      PROVE  /\ TabAt(run[r].cmd, i) \in Tables => tab[TabAt(run[r].cmd, i)] # <<>>
             /\ OpAt(run[r].cmd, i) = "switch" =>
                  \E j \in DOMAIN tab[TabAt(run[r].cmd, i)] : tab[TabAt(run[r].cmd, i)][j].on
  <2>1. PICK c \in Commands : c = run[r].cmd BY <1>1 DEF SetupInv, RunSound, Placed
  <2>2. \A j \in 1 .. Len(Plan(c)) : Left(c, j, TRUE, tab, client)
    <3>1. run[r].clean = TRUE BY <1>1 DEF SetupInv, SetupType, RunRec
    <3> QED BY <1>1, <2>1, <3>1 DEF SetupInv, RunSound, Behind
  <2>3. i \in 1 .. Len(Plan(c)) BY <1>1, <2>1, PlansHold DEF PlanShape, StepShape
  <2>4. TabAt(c, i) \in Tables => \E j \in 1 .. Len(Plan(c)) : TabAt(c, j) = TabAt(c, i) /\ OpAt(c, j) \in Makers
    BY <2>3, PlansHold DEF PlanShape, StepShape
  <2> QED BY <2>1, <2>2, <2>3, <2>4 DEF Left
<1>2. ASSUME NEW r \in Runners, run[r].pc = "done", run[r].clean, run[r].cmd = "bootstrap" PROVE client = {}
  <2>1. "bootstrap" \in Commands BY DEF Commands
  <2>2. PICK j \in 1 .. Len(Plan("bootstrap")) : OpAt("bootstrap", j) = "writeClient" BY <2>1, PlansHold DEF PlanShape, StepShape
  <2>3. Left("bootstrap", j, run[r].clean, tab, client) BY <1>2, <2>2 DEF SetupInv, RunSound, Behind
  <2> QED BY <1>2, <2>2, <2>3 DEF Left
<1>3. service => "machine" \in client BY DEF SetupInv
<1> QED BY <1>1, <1>2, <1>3 DEF DoneMeansReady, OpAt, TabAt

\* ---- the password ----
PwInv ==
  /\ \A r \in Runners : run[r].pc = "run" => password # run[r].me
  /\ \A r \in Runners : run[r].pc = "run" /\ OpAt(run[r].cmd, run[r].at) = "storeHash" => files[run[r].out] = run[r].me
  /\ \A r, q \in Runners : r # q /\ run[r].pc \in {"run", "done"} /\ run[q].pc \in {"run", "done"} =>
      run[r].me # run[q].me
  /\ password # NoPassword => password \in 1 .. started
  /\ PasswordIsHeld

\* A run moves on, or ends, and no password, file or hand changes.
LEMMA PwMoves ==
  ASSUME SetupInv, PwInv, NEW r \in Runners, NEW y \in RunRec, run' = [run EXCEPT ![r] = y], run[r].pc = "run",
         y.pc \in {"run", "done"} => y.me = run[r].me,
         ~(y.pc = "run" /\ OpAt(y.cmd, y.at) = "storeHash"), UNCHANGED <<password, files, held, lost, started>>
  PROVE  PwInv'
<1>1. \A q \in Runners : run'[q] = IF q = r THEN y ELSE run[q] BY DEF SetupInv, SetupType
<1>2. PasswordIsHeld' BY DEF PwInv, PasswordIsHeld
<1>3. \A q \in Runners : run'[q].pc = "run" => password # run'[q].me BY <1>1 DEF PwInv
<1>4. \A q \in Runners : run'[q].pc = "run" /\ OpAt(run'[q].cmd, run'[q].at) = "storeHash" =>
          files[run'[q].out] = run'[q].me
  BY <1>1 DEF PwInv
<1>5. \A p, q \in Runners : p # q /\ run'[p].pc \in {"run", "done"} /\ run'[q].pc \in {"run", "done"} =>
          run'[p].me # run'[q].me
  BY <1>1 DEF PwInv
<1> QED BY <1>2, <1>3, <1>4, <1>5 DEF PwInv

LEMMA PwAdvance ==
  ASSUME SetupInv, PwInv, NEW r \in Runners, NEW y \in RunRec, run[r].pc = "run", Same(run[r], y), Advance(r, y),
         OpAt(run[r].cmd, run[r].at) # "writeFile", UNCHANGED <<password, files, held, lost, started>>
  PROVE  PwInv'
<1>1. y.cmd \in Commands /\ y.at \in 1 .. Len(Plan(y.cmd)) /\ y.pc = "run" BY DEF SetupInv, RunSound, Placed, Same
<1>2. PICK z : z = Advanced(r, y) OBVIOUS
<1>3. /\ z \in RunRec /\ z.cmd = y.cmd /\ z.me = y.me
      /\ \/ y.at < Len(Plan(y.cmd)) /\ z.pc = "run" /\ z.at = y.at + 1
         \/ z.pc = "done"
  BY <1>1, <1>2, AdvancedRec
<1>4. ASSUME z.pc = "run" PROVE OpAt(z.cmd, z.at) # "storeHash"
  <2>1. z.at \in 1 .. Len(Plan(y.cmd)) /\ z.at - 1 = y.at BY <1>1, <1>3, <1>4, PlansHold DEF PlanShape, StepShape
  <2>2. OpAt(y.cmd, z.at) = "storeHash" => OpAt(y.cmd, z.at - 1) = "writeFile" BY <1>1, <2>1, PlansHold DEF PlanShape, StepShape
  <2>3. OpAt(y.cmd, y.at) # "writeFile" BY DEF Same
  <2> QED BY <1>3, <2>1, <2>2, <2>3
<1>5. run' = [run EXCEPT ![r] = z] /\ z.me = run[r].me BY <1>2, <1>3 DEF Advance, Same
<1> QED BY <1>3, <1>4, <1>5, PwMoves

LEMMA PwBail ==
  ASSUME SetupInv, PwInv, NEW r \in Runners, run[r].pc = "run", Bail(r), UNCHANGED <<password, files, held, lost, started>>
  PROVE  PwInv'
<1>1. PICK y : y = [NotRunning EXCEPT !.pc = "failed"] OBVIOUS
<1>2. y \in RunRec /\ y.pc = "failed" BY <1>1, FailedRec
<1> QED BY <1>1, <1>2, PwMoves DEF Bail

\* The statements that touch neither passwords nor files.
LEMMA PwPlain ==
  ASSUME SetupInv, PwInv, NEW r \in Runners,
         \/ Create(r) \/ Find(r) \/ Need(r) \/ Make(r) \/ SwitchOn(r) \/ FindClient(r) \/ WriteClient(r) \/ FindPassword(r)
  PROVE  PwInv'
<1>1. UNCHANGED <<password, files, held, lost, started>>
  BY DEF Create, Find, Need, Make, SwitchOn, FindClient, WriteClient, FindPassword
<1>2. PICK o \in {"create", "find", "need", "make", "switch", "findClient", "writeClient", "findPassword"} : At(r, o)
  BY DEF Create, Find, Need, Make, SwitchOn, FindClient, WriteClient, FindPassword
<1>3. run[r].pc = "run" /\ run[r] \in RunRec /\ OpAt(run[r].cmd, run[r].at) # "writeFile" BY <1>2, Acting
<1>4. CASE Bail(r) BY <1>1, <1>3, <1>4, PwBail
<1>5. CASE Advance(r, run[r])
  <2>1. Same(run[r], run[r]) BY DEF Same
  <2> QED BY <1>1, <1>3, <1>5, <2>1, PwAdvance
<1>6. ASSUME NEW t, NEW s, s \in SawRec, t \in Tables, Advance(r, [run[r] EXCEPT !.saw[t] = s]) PROVE PwInv'
  <2>1. PICK u \in Saws : u = [run[r].saw EXCEPT ![t] = s] BY <1>3, <1>6 DEF RunRec, Saws
  <2>2. PICK y : y = [run[r] EXCEPT !.saw[t] = s] OBVIOUS
  <2>3. y = [run[r] EXCEPT !.saw = u] BY <2>1, <2>2
  <2>4. y \in RunRec /\ Same(run[r], y) BY <1>3, <2>3 DEF RunRec, Same
  <2> QED BY <1>1, <1>3, <1>6, <2>2, <2>4, PwAdvance
<1>7. CASE Advance(r, [run[r] EXCEPT !.sawClient = client])
  <2>1. PICK y : y = [run[r] EXCEPT !.sawClient = client] OBVIOUS
  <2>2. y \in RunRec /\ Same(run[r], y) BY <1>3, <2>1 DEF RunRec, Same, SetupInv, SetupType
  <2> QED BY <1>1, <1>3, <1>7, <2>1, <2>2, PwAdvance
<1>8. CASE Advance(r, [run[r] EXCEPT !.sawPassword = password])
  <2>1. PICK y : y = [run[r] EXCEPT !.sawPassword = password] OBVIOUS
  <2>2. y \in RunRec /\ Same(run[r], y) BY <1>3, <2>1 DEF RunRec, Same, SetupInv, SetupType
  <2> QED BY <1>1, <1>3, <1>8, <2>1, <2>2, PwAdvance
<1>9. CASE Find(r)
  <2>1. Table(r) \in Tables BY <1>9, Acting DEF Find, Rowed
  <2>2. \A i \in DOMAIN tab[Table(r)] : [id |-> i, row |-> tab[Table(r)][i]] \in SawRec
    <3>1. tab[Table(r)] \in Seq(RowRec) BY <2>1 DEF SetupInv, SetupType
    <3>2. \A i \in DOMAIN tab[Table(r)] : i \in Nat /\ tab[Table(r)][i] \in RowRec BY <3>1
    <3> QED BY <3>2 DEF SawRec
  <2> QED BY <1>5, <1>6, <1>9, <2>1, <2>2 DEF Find
<1>10. ASSUME Table(r) \in Tables, Inserted(r, Table(r)) PROVE PwInv'
  <2>1. PICK k \in Nat : k = Len(tab[Table(r)]) + 1 BY <1>10 DEF SetupInv, SetupType
  <2>2. PICK b \in BOOLEAN : b = (Table(r) \notin BornOff) OBVIOUS
  <2>3. [on |-> b, ver |-> 1] \in RowRec BY DEF RowRec
  <2>4. NewRow(Table(r)) = [on |-> b, ver |-> 1] BY <2>2, Zenon DEF NewRow
  <2>5. [id |-> k, row |-> NewRow(Table(r))] \in SawRec BY <2>1, <2>3, <2>4 DEF SawRec
  <2>6. Advance(r, [run[r] EXCEPT !.saw[Table(r)] = [id |-> k, row |-> NewRow(Table(r))]]) BY <1>10, <2>1 DEF Inserted
  <2> QED BY <1>6, <1>10, <2>5, <2>6
<1>11. CASE Create(r) \/ Make(r)
  <2>1. Table(r) \in Tables BY <1>11, Acting DEF Create, Make, Rowed
  <2> QED BY <1>4, <1>5, <1>10, <1>11, <2>1 DEF Create, Make
<1> QED BY <1>4, <1>5, <1>7, <1>8, <1>9, <1>11 DEF Need, SwitchOn, FindClient, WriteClient, FindPassword

\* The file is written where none was; the run's own password is about to be stored.
LEMMA PwWrite == ASSUME SetupInv, PwInv, NEW r \in Runners, WriteFile(r) PROVE PwInv'
<1>1. At(r, "writeFile") /\ UNCHANGED <<password, held, lost, started>> BY DEF WriteFile
<1>2. /\ run[r].pc = "run" /\ run[r] \in RunRec /\ run[r].cmd \in Commands /\ run[r].at \in 1 .. Len(Plan(run[r].cmd))
      /\ RunSound(run[r], tab, client, service, started)
  BY <1>1, Acting
<1>3. CASE files[run[r].out] # NoPassword
  <2>1. Bail(r) /\ UNCHANGED files BY <1>3 DEF WriteFile
  <2> QED BY <1>1, <1>2, <2>1, PwBail
<1>4. CASE files[run[r].out] = NoPassword
  <2>1. files' = [files EXCEPT ![run[r].out] = run[r].me] /\ Advance(r, run[r]) BY <1>4 DEF WriteFile, Me
  <2>2. PICK z : z = Advanced(r, run[r]) OBVIOUS
  <2>3. /\ z \in RunRec /\ z.cmd = run[r].cmd /\ z.me = run[r].me /\ z.out = run[r].out /\ z.pc \in {"run", "done"}
    BY <1>2, <2>2, AdvancedRec
  <2>4. run' = [run EXCEPT ![r] = z] BY <2>1, <2>2 DEF Advance
  <2>5. \A q \in Runners : run'[q] = IF q = r THEN z ELSE run[q] BY <2>4 DEF SetupInv, SetupType
  <2>6. run[r].out \in Paths /\ files \in [Paths -> Passwords] BY <1>2 DEF RunSound, Placed, SetupInv, SetupType
  <2>7. files'[run[r].out] = run[r].me /\ \A p \in Paths : p # run[r].out => files'[p] = files[p] BY <2>1, <2>6
  <2>8. \A q \in Runners : run'[q].pc = "run" /\ OpAt(run'[q].cmd, run'[q].at) = "storeHash" =>
            files'[run'[q].out] = run'[q].me
    <3> SUFFICES ASSUME NEW q \in Runners, run'[q].pc = "run", OpAt(run'[q].cmd, run'[q].at) = "storeHash"
                 PROVE  files'[run'[q].out] = run'[q].me
      OBVIOUS
    <3>1. CASE q = r BY <2>3, <2>5, <2>7, <3>1
    <3>2. CASE q # r
      <4>1. run'[q] = run[q] BY <2>5, <3>2
      <4>2. files[run[q].out] = run[q].me /\ run[q].out \in Paths /\ run[q].me \in Nat
        BY <4>1 DEF PwInv, SetupInv, SetupType, RunSound, Placed, RunRec
      <4>3. run[q].out # run[r].out BY <1>4, <4>2, SetupAssumption
      <4> QED BY <2>7, <4>1, <4>2, <4>3
    <3> QED BY <3>1, <3>2
  <2>9. \A q \in Runners : run'[q].pc = "run" => password # run'[q].me BY <1>2, <2>3, <2>5 DEF PwInv
  <2>10. \A p, q \in Runners : p # q /\ run'[p].pc \in {"run", "done"} /\ run'[q].pc \in {"run", "done"} =>
             run'[p].me # run'[q].me
    BY <1>2, <2>3, <2>5 DEF PwInv
  <2>11. PasswordIsHeld'
    <3>1. \A p \in Paths : files[p] # NoPassword => files'[p] = files[p] BY <1>4, <2>7
    <3> QED BY <1>1, <3>1 DEF PwInv, PasswordIsHeld
  <2> QED BY <1>1, <2>8, <2>9, <2>10, <2>11 DEF PwInv
<1> QED BY <1>3, <1>4

\* A file whose password is one run's own is removed; nobody else's password is in it.
LEMMA OthersFiles ==
  ASSUME SetupInv, PwInv, NEW r \in Runners, run[r].pc \in {"run", "done"}, NEW f \in Paths, files[f] = run[r].me,
         files' = [files EXCEPT ![f] = NoPassword]
  PROVE  /\ \A q \in Runners : q # r /\ run[q].pc = "run" /\ OpAt(run[q].cmd, run[q].at) = "storeHash" =>
                                 files'[run[q].out] = run[q].me
         /\ \A p \in Paths : files[p] # run[r].me => files'[p] = files[p]
<1>1. files \in [Paths -> Passwords] BY DEF SetupInv, SetupType
<1>2. \A p \in Paths : p # f => files'[p] = files[p] BY <1>1
<1>3. ASSUME NEW q \in Runners, q # r, run[q].pc = "run", OpAt(run[q].cmd, run[q].at) = "storeHash"
      PROVE  files'[run[q].out] = run[q].me
  <2>1. files[run[q].out] = run[q].me /\ run[q].out \in Paths /\ run[q].me # run[r].me
    BY <1>3 DEF PwInv, SetupInv, RunSound, Placed
  <2> QED BY <1>2, <2>1
<1> QED BY <1>2, <1>3

LEMMA PwStore == ASSUME SetupInv, PwInv, NEW r \in Runners, StoreHash(r) PROVE PwInv'
<1>1. At(r, "storeHash") /\ UNCHANGED <<held, started>> BY DEF StoreHash
<1>2. /\ run[r].pc = "run" /\ run[r] \in RunRec /\ run[r].cmd \in Commands /\ run[r].at \in 1 .. Len(Plan(run[r].cmd))
      /\ OpAt(run[r].cmd, run[r].at) = "storeHash" /\ RunSound(run[r], tab, client, service, started)
  BY <1>1, Acting
<1>3. /\ files[run[r].out] = run[r].me /\ password # run[r].me /\ run[r].out \in Paths /\ run[r].me \in 1 .. started
  BY <1>2 DEF PwInv, RunSound, Placed
<1>4. run[r].at = Len(Plan(run[r].cmd)) BY <1>2, PlansHold DEF PlanShape, StepShape
<1>5. run \in [Runners -> RunRec] BY DEF SetupInv, SetupType
<1>6. PICK y \in RunRec : /\ run' = [run EXCEPT ![r] = y] /\ y.pc \in {"done", "failed"}
                          /\ y.pc = "done" => y.me = run[r].me
  <2>1. CASE Advance(r, run[r])
    <3>1. PICK z : z = Advanced(r, run[r]) OBVIOUS
    <3>2. z \in RunRec /\ z.me = run[r].me /\ z.pc = "done"
      <4>1. Len(Plan(run[r].cmd)) \in Nat BY <1>2, PlansHold DEF PlanShape, StepShape
      <4>2. ~(run[r].at < Len(Plan(run[r].cmd))) BY <1>4, <4>1
      <4> QED BY <1>2, <3>1, <4>2, AdvancedRec
    <3> QED BY <2>1, <3>1, <3>2 DEF Advance
  <2>2. CASE Bail(r)
    <3>1. PICK z : z = [NotRunning EXCEPT !.pc = "failed"] OBVIOUS
    <3>2. z \in RunRec /\ z.pc = "failed" BY <3>1, FailedRec
    <3> QED BY <2>2, <3>1, <3>2 DEF Bail
  <2> QED BY <2>1, <2>2 DEF StoreHash
<1>7. \A q \in Runners : run'[q] = IF q = r THEN y ELSE run[q] BY <1>5, <1>6
<1>8. \A p, q \in Runners : p # q /\ run'[p].pc \in {"run", "done"} /\ run'[q].pc \in {"run", "done"} =>
          run'[p].me # run'[q].me
  BY <1>2, <1>6, <1>7 DEF PwInv
<1>9. password' \in {password, run[r].me} BY DEF StoreHash, Me
<1>10. \A q \in Runners : run'[q].pc = "run" => password' # run'[q].me BY <1>2, <1>6, <1>7, <1>9 DEF PwInv
<1>11. password' # NoPassword => password' \in 1 .. started BY <1>3, <1>9 DEF PwInv
<1>12. CASE UNCHANGED <<files, lost>> /\ password' = run[r].me
  <2>1. PasswordIsHeld' BY <1>3, <1>12 DEF PasswordIsHeld
  <2>2. \A q \in Runners : run'[q].pc = "run" /\ OpAt(run'[q].cmd, run'[q].at) = "storeHash" =>
            files'[run'[q].out] = run'[q].me
    BY <1>6, <1>7, <1>12 DEF PwInv
  <2> QED BY <1>1, <1>8, <1>10, <1>11, <2>1, <2>2 DEF PwInv
<1>13. CASE /\ files' = [files EXCEPT ![run[r].out] = NoPassword]
            /\ UNCHANGED <<password, lost>> \/ (password' = run[r].me /\ lost' = lost \cup {run[r].me})
  <2>1. /\ \A q \in Runners : q # r /\ run[q].pc = "run" /\ OpAt(run[q].cmd, run[q].at) = "storeHash" =>
                                files'[run[q].out] = run[q].me
        /\ \A p \in Paths : files[p] # run[r].me => files'[p] = files[p]
    BY <1>2, <1>3, <1>13, OthersFiles
  <2>2. \A q \in Runners : run'[q].pc = "run" /\ OpAt(run'[q].cmd, run'[q].at) = "storeHash" =>
            files'[run'[q].out] = run'[q].me
    BY <1>6, <1>7, <2>1
  <2>3. PasswordIsHeld' BY <1>1, <1>3, <1>13, <2>1 DEF PwInv, PasswordIsHeld
  <2> QED BY <1>1, <1>8, <1>10, <1>11, <2>2, <2>3 DEF PwInv
<1> QED BY <1>12, <1>13 DEF StoreHash, Me

LEMMA PwHandOver == ASSUME SetupInv, PwInv, NEW r \in Runners, HandOver(r) PROVE PwInv'
<1>1. /\ run[r].pc = "done" /\ files[run[r].out] = run[r].me /\ held' = held \cup {run[r].me}
      /\ files' = [files EXCEPT ![run[r].out] = NoPassword] /\ UNCHANGED <<password, lost, run, started>>
  BY DEF HandOver, Me
<1>2. CASE run[r].out \in Paths
  <2>1. /\ \A q \in Runners : q # r /\ run[q].pc = "run" /\ OpAt(run[q].cmd, run[q].at) = "storeHash" =>
                                files'[run[q].out] = run[q].me
        /\ \A p \in Paths : files[p] # run[r].me => files'[p] = files[p]
    BY <1>1, <1>2, OthersFiles
  <2>2. PasswordIsHeld' BY <1>1, <2>1 DEF PwInv, PasswordIsHeld
  <2>3. \A q \in Runners : run[q].pc = "run" /\ OpAt(run[q].cmd, run[q].at) = "storeHash" =>
            files'[run[q].out] = run[q].me
    BY <1>1, <2>1
  <2> QED BY <1>1, <2>2, <2>3 DEF PwInv
<1>3. CASE run[r].out \notin Paths
  <2>1. files' = files BY <1>1, <1>3 DEF SetupInv, SetupType
  <2>2. PasswordIsHeld' BY <1>1, <2>1 DEF PwInv, PasswordIsHeld
  <2> QED BY <1>1, <2>1, <2>2 DEF PwInv
<1> QED BY <1>2, <1>3

LEMMA PwStart ==
  ASSUME SetupInv, PwInv, NEW r \in Runners, NEW cmd \in Commands, NEW out \in Paths, StartCommand(r, cmd, out)
  PROVE  PwInv'
<1>1. started \in Nat BY SetupFrame
<1>2. PICK n \in Nat : n = started + 1 /\ \A k \in 1 .. started : k # n /\ k \in 1 .. n BY <1>1
<1>3. PICK y : y = StartRec(cmd, out, n) OBVIOUS
<1>4. y \in RunRec /\ y.cmd = cmd /\ y.at = 1 /\ y.pc = "run" /\ y.me = n BY <1>3, FreshRec
<1>5. run' = [run EXCEPT ![r] = y] /\ started' = n /\ UNCHANGED <<password, files, held, lost>>
  BY <1>2, <1>3 DEF StartCommand, StartRec
<1>6. \A q \in Runners : run'[q] = IF q = r THEN y ELSE run[q] BY <1>5 DEF SetupInv, SetupType
<1>7. OpAt(y.cmd, y.at) # "storeHash"
  <2>1. 1 \in 1 .. Len(Plan(cmd)) BY PlansHold DEF PlanShape, StepShape
  <2>2. OpAt(cmd, 1) = "storeHash" => 1 > 1 BY <2>1, PlansHold DEF PlanShape, StepShape
  <2> QED BY <1>4, <2>2
<1>8. \A q \in Runners : run[q].pc \in {"run", "done"} => run[q].me # n BY <1>2 DEF SetupInv, RunSound, Placed
<1>9. password # n BY <1>2, SetupAssumption DEF PwInv
<1>10. \A q \in Runners : run'[q].pc = "run" => password # run'[q].me BY <1>4, <1>6, <1>9 DEF PwInv
<1>11. \A q \in Runners : run'[q].pc = "run" /\ OpAt(run'[q].cmd, run'[q].at) = "storeHash" =>
           files[run'[q].out] = run'[q].me
  BY <1>6, <1>7 DEF PwInv
<1>12. \A p, q \in Runners : p # q /\ run'[p].pc \in {"run", "done"} /\ run'[q].pc \in {"run", "done"} =>
           run'[p].me # run'[q].me
  BY <1>4, <1>6, <1>8 DEF PwInv
<1>13. password # NoPassword => password \in 1 .. n BY <1>2 DEF PwInv
<1>14. PasswordIsHeld' BY <1>5 DEF PwInv, PasswordIsHeld
<1> QED BY <1>5, <1>10, <1>11, <1>12, <1>13, <1>14 DEF PwInv

LEMMA PwDisturb == ASSUME SetupInv, PwInv, Disturb, UNCHANGED <<password, files, held, lost, started>> PROVE PwInv'
<1>1. ASSUME NEW q \in Runners
      PROVE  /\ run'[q].pc = run[q].pc /\ run'[q].me = run[q].me /\ run'[q].cmd = run[q].cmd
             /\ run'[q].at = run[q].at /\ run'[q].out = run[q].out
  <2>1. run[q] \in RunRec /\ run'[q] = [run[q] EXCEPT !.clean = FALSE] BY DEF SetupInv, SetupType, Disturb
  <2> QED BY <2>1 DEF RunRec
<1>2. PasswordIsHeld' BY DEF PwInv, PasswordIsHeld
<1> QED BY <1>1, <1>2 DEF PwInv

LEMMA PwStep == SetupInv /\ PwInv /\ [StNext]_stvars => PwInv'
<1> SUFFICES ASSUME SetupInv, PwInv, [StNext]_stvars PROVE PwInv' OBVIOUS
<1>1. CASE UNCHANGED stvars BY <1>1 DEF stvars, PwInv, PasswordIsHeld
<1>2. ASSUME NEW r \in Runners, NEW cmd \in Commands, NEW out \in Paths, StartCommand(r, cmd, out) PROVE PwInv'
  BY <1>2, PwStart
<1>3. ASSUME NEW r \in Runners, \/ Create(r) \/ Find(r) \/ Need(r) \/ Make(r) \/ SwitchOn(r)
                                \/ FindClient(r) \/ WriteClient(r) \/ FindPassword(r)
      PROVE PwInv'
  BY <1>3, PwPlain
<1>4. ASSUME NEW r \in Runners, Dies(r) PROVE PwInv' BY <1>4, PwBail DEF Dies
<1>5. ASSUME NEW r \in Runners, WriteFile(r) \/ StoreHash(r) \/ HandOver(r) PROVE PwInv'
  BY <1>5, PwWrite, PwStore, PwHandOver
<1>6. ASSUME NEW t \in Switched, TurnOff(t) PROVE PwInv' BY <1>6, PwDisturb DEF TurnOff
<1>7. CASE EditClient BY <1>7, PwDisturb DEF EditClient
<1> QED BY <1>1, <1>2, <1>3, <1>4, <1>5, <1>6, <1>7 DEF StNext

SetupSpec == StInit /\ [][StNext]_stvars

(* Whatever commands run, again and beside each other, and wherever they   *)
(* die: one that reports success has left an active provider, an enabled   *)
(* route and the console client in place until a person undoes it, a       *)
(* machine client's row is not taken over, and the password in force was   *)
(* handed over or lies in its file, unless the answer to the statement     *)
(* that stored it was lost (seed_dispatch.rs, provision_user.rs).          *)
THEOREM SettingUpHolds == SetupSpec => []SetupHolds
<1>1. StInit => SetupInv /\ PwInv
  <2>1. StInit => PwInv
    <3> SUFFICES ASSUME StInit PROVE PwInv OBVIOUS
    <3>1. \A r \in Runners : run[r].pc = "idle" BY RestRec DEF StInit
    <3>2. password = NoPassword BY DEF StInit
    <3> QED BY <3>1, <3>2 DEF PwInv, PasswordIsHeld
  <2> QED BY <2>1, SetupStarts
<1>2. SetupInv /\ PwInv => SetupHolds BY SetupIsReady DEF PwInv, SetupHolds
<1> QED BY <1>1, <1>2, SetupStep, PwStep, PTL DEF SetupSpec
=============================================================================
