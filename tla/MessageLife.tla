---------------------------- MODULE MessageLife ----------------------------
(***************************************************************************)
(* What the gateway promises of an accepted message, whoever works on it   *)
(* (docs/integrating.md, "Message states"): it waits, one attempt at a     *)
(* time hands at most one copy to a carrier, and another copy is handed    *)
(* over only after every earlier one was reported as failed.  A message    *)
(* whose outcome is unknown is never handed over again, "delivered" is     *)
(* said only of a message a carrier took, and an end is final.  There are  *)
(* no leases, versions, workers, retries or receipts here.                 *)
(***************************************************************************)
EXTENDS Naturals

CONSTANT Msgs

VARIABLES
  life,    \* none, waiting, trying, held by a carrier, unknown, or how it ended
  copies,  \* how many times a carrier took it
  lost     \* the copies that were reported as failed
lvars == <<life, copies, lost>>

Ends == {"delivered", "failed", "expired", "rejected"}

LInit ==
  /\ life = [m \in Msgs |-> "none"]
  /\ copies = [m \in Msgs |-> 0]
  /\ lost = [m \in Msgs |-> {}]

Move(m, from, to) ==
  /\ life[m] \in from
  /\ life' = [life EXCEPT ![m] = to]

\* No copy of m is still under way.
Clear(m) == lost[m] = 1..copies[m]

Accept(m) == Move(m, {"none"}, "waiting") /\ UNCHANGED <<copies, lost>>

Try(m) == Move(m, {"waiting"}, "trying") /\ UNCHANGED <<copies, lost>>

HandOver(m) ==
  /\ life[m] = "trying"
  /\ Clear(m)
  /\ copies' = [copies EXCEPT ![m] = @ + 1]
  /\ UNCHANGED <<life, lost>>

\* The carrier's answer: it has the message, it refused it, or nobody knows.
Held(m) == ~Clear(m) /\ Move(m, {"trying"}, "held") /\ UNCHANGED <<copies, lost>>
Refused(m) ==
  /\ Clear(m)
  /\ \E to \in {"waiting", "failed"} : Move(m, {"trying"}, to)
  /\ UNCHANGED <<copies, lost>>
LoseTrack(m) == Move(m, {"trying", "held"}, "unknown") /\ UNCHANGED <<copies, lost>>

\* The carrier reports that it could not deliver the copy it has.
Bounce(m) ==
  /\ Move(m, {"held"}, "waiting")
  /\ lost' = [lost EXCEPT ![m] = 1..copies[m]]
  /\ UNCHANGED copies

Deliver(m) ==
  /\ copies[m] > 0
  /\ Move(m, {"held", "unknown"}, "delivered")
  /\ UNCHANGED <<copies, lost>>

GiveUp(m) ==
  /\ \/ \E to \in {"failed", "expired"} : Move(m, {"waiting", "held", "unknown"}, to)
     \/ copies[m] = 0 /\ Move(m, {"waiting"}, "rejected")
  /\ UNCHANGED <<copies, lost>>

LNext ==
  \E m \in Msgs :
    \/ Accept(m) \/ Try(m) \/ HandOver(m) \/ Held(m) \/ Refused(m) \/ LoseTrack(m)
    \/ Bounce(m) \/ Deliver(m) \/ GiveUp(m)

LSpec == LInit /\ [][LNext]_lvars

-----------------------------------------------------------------------------
(* What the promise comes to. *)

\* Of the copies of a message that carriers took, all but the latest were reported as
\* failed: nobody is sent the same message twice (handle_submit_error, next_state).
OneLiveCopy ==
  \A m \in Msgs : \A k \in 1..copies[m] : k < copies[m] => k \in lost[m]

\* A message that ended, or whose outcome is unknown, is handed to nobody any more, and how
\* it ended is never taken back (message_state_transitions).
StaysSettled ==
  \A m \in Msgs : life[m] \in Ends \cup {"unknown"} =>
     /\ copies'[m] = copies[m]
     /\ life[m] \in Ends => life'[m] = life[m]

SettledIsSettled == [][StaysSettled]_lvars
=============================================================================
