------------------------- MODULE MessageLife_proofs -------------------------
(* What MessageLife's promise comes to, for any set of messages. *)
EXTENDS MessageLife, TLAPS

Lives == {"none", "waiting", "trying", "held", "unknown"} \cup Ends

LifeType ==
  /\ life \in [Msgs -> Lives]
  /\ copies \in [Msgs -> Nat]
  /\ lost \in [Msgs -> SUBSET Nat]

LifeInv == LifeType /\ OneLiveCopy

LEMMA LifeInit == LInit => LifeInv
<1> SUFFICES ASSUME LInit PROVE LifeInv
  OBVIOUS
<1>1. LifeType
  BY DEF LInit, LifeType, Lives, Ends
<1>2. \A m \in Msgs : copies[m] = 0
  BY DEF LInit
<1> QED
  BY <1>1, <1>2 DEF LifeInv, OneLiveCopy

\* A step that leaves copies and losses alone.
LEMMA MovePreserves ==
  ASSUME LifeInv, NEW m \in Msgs, NEW to \in Lives, life' = [life EXCEPT ![m] = to],
         UNCHANGED <<copies, lost>>
  PROVE  LifeInv'
  BY DEF LifeInv, LifeType, OneLiveCopy

LEMMA LifeStep == LifeInv /\ [LNext]_lvars => LifeInv'
<1> SUFFICES ASSUME LifeInv, [LNext]_lvars PROVE LifeInv'
  OBVIOUS
<1>1. CASE UNCHANGED lvars
  BY <1>1 DEF lvars, LifeInv, LifeType, OneLiveCopy
<1>2. ASSUME NEW m \in Msgs,
             Accept(m) \/ Try(m) \/ Held(m) \/ Refused(m) \/ LoseTrack(m) \/ Deliver(m)
               \/ GiveUp(m)
      PROVE  LifeInv'
  <2>1. PICK to \in Lives : life' = [life EXCEPT ![m] = to]
    BY <1>2 DEF Accept, Try, Held, Refused, LoseTrack, Deliver, GiveUp, Move,
                 Lives, Ends
  <2>2. UNCHANGED <<copies, lost>>
    BY <1>2 DEF Accept, Try, Held, Refused, LoseTrack, Deliver, GiveUp
  <2> QED
    BY <2>1, <2>2, MovePreserves
<1>3. ASSUME NEW m \in Msgs, HandOver(m) PROVE LifeInv'
  <2>1. LifeType'
    BY <1>3 DEF HandOver, LifeInv, LifeType
  <2>2. lost[m] = 1..copies[m] /\ copies'[m] = copies[m] + 1 /\ lost' = lost
    BY <1>3 DEF HandOver, Clear, LifeInv, LifeType
  <2>3. \A k \in 1..copies'[m] : k < copies'[m] => k \in lost'[m]
    BY <2>2 DEF LifeInv, LifeType
  <2>4. \A n \in Msgs : n # m => copies'[n] = copies[n]
    BY <1>3 DEF HandOver, LifeInv, LifeType
  <2> QED
    BY <2>1, <2>2, <2>3, <2>4 DEF LifeInv, OneLiveCopy
<1>4. ASSUME NEW m \in Msgs, Bounce(m) PROVE LifeInv'
  <2>1. LifeType'
    BY <1>4 DEF Bounce, Move, LifeInv, LifeType, Lives
  <2> QED
    BY <2>1, <1>4 DEF Bounce, LifeInv, LifeType, OneLiveCopy
<1> QED
  BY <1>1, <1>2, <1>3, <1>4 DEF LNext

\* MessageLife keeps at most one copy of a message that may still arrive.
THEOREM LifeOneLiveCopy == LSpec => []OneLiveCopy
<1>1. LifeInv => OneLiveCopy
  BY DEF LifeInv
<1> QED
  BY <1>1, LifeInit, LifeStep, PTL DEF LSpec

\* MessageLife settles a message for good, and hands out no copy of an unknown one.
THEOREM LifeSettles == LSpec => SettledIsSettled
<1>1. ASSUME LifeInv, [LNext]_lvars
      PROVE  [StaysSettled]_lvars
  <2>1. CASE UNCHANGED lvars
    BY <2>1
  <2>2. ASSUME NEW n \in Msgs,
               \/ Accept(n) \/ Try(n) \/ HandOver(n) \/ Held(n) \/ Refused(n) \/ LoseTrack(n)
               \/ Bounce(n) \/ Deliver(n) \/ GiveUp(n),
               NEW m \in Msgs, life[m] \in Ends \cup {"unknown"}
        PROVE  copies'[m] = copies[m] /\ (life[m] \in Ends => life'[m] = life[m])
    BY <2>2, <1>1 DEF LifeInv, LifeType, Lives, Ends, Accept, Try, HandOver, Held, Refused, LoseTrack,
                      Bounce, Deliver, GiveUp, Move
  <2> QED
    BY <1>1, <2>1, <2>2 DEF LNext, StaysSettled
<1> QED
  BY <1>1, LifeInit, LifeStep, PTL DEF LSpec, SettledIsSettled
=============================================================================
