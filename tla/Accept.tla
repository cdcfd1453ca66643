------------------------------- MODULE Accept -------------------------------
(***************************************************************************)
(* sendMessage and the event outbox together: the message a request        *)
(* inserts and the event that announces it are one transaction, and from   *)
(* there the two run on their own.                                         *)
(***************************************************************************)
EXTENDS Admission, Outbox

vars == <<avars, ovars>>

(* The events of the message of a send's n-th insertion: of its creation, of an update. *)
EventOf(m, why) == <<m.send, m.no, why>>

(* The insert with @@emit(created); a conflict writes neither row.  An accepted message
   always has an event type (message_event_type). *)
Insert(h) ==
  /\ InsertMessage(h)
  /\ IF messages' = messages THEN UNCHANGED ovars
     ELSE \E m \in messages' \ messages : Emit(EventOf(m, "created"), FALSE)

(* A worker updates the message: into a state with an event type or without one, or to purge
   it (message_event_type, purge_messages). *)
UpdateMessage(m, quiet) == Emit(EventOf(m, "updated"), quiet) /\ UNCHANGED avars

Init == AInit /\ OInit

Next ==
  \/ \E h \in Handlers : Insert(h)
  \/ \E m \in messages, quiet \in BOOLEAN : UpdateMessage(m, quiet)
  \/ AStep /\ UNCHANGED ovars
  \/ OStep /\ UNCHANGED avars

(* The drain's interval ticks for ever and takes what is undelivered; its statements end. *)
Fairness == \A d \in Drainers : WF_vars(Drain(d) /\ UNCHANGED avars)

Spec == Init /\ [][Next]_vars /\ Fairness
=============================================================================
