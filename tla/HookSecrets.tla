---------------------------- MODULE HookSecrets ----------------------------
(* What a webhook delivery is signed with while operators change it: rotateWebhookSecret and
   switchWebhookDeliveryMode on the endpoint's row (sms-api procedures.rs, hmac_gate.rs),
   the hooks worker that signs or seals from the row it has read (sms-worker hooks.rs,
   sms-webhook) and the receiver that verifies with what it was last given. A secret is
   named by the version of the row that minted it, and a signature by its secret. *)
EXTENDS Integers, FiniteSets

CONSTANTS
  Operators,       \* calls that change the endpoint, at a time
  Deliveries,      \* deliveries to it, at a time
  Audiences,       \* audiences it may be given
  MaxRowVersion,   \* bound: versions of the row
  Nothing          \* no secret, or no audience

ASSUME HookSecretsAssumption == MaxRowVersion \in Nat /\ Nothing \notin Nat

VARIABLES
  endpoint,     \* the WebhookEndpoint row
  receiver,     \* what the receiver verifies with, and the version it has it from
  change,       \* operator's call -> how far it is
  flight,       \* delivery -> the row it was made from and what became of it
  permitted     \* whether auth.methods permits hmac_webhooks

wvars == <<endpoint, receiver, change, flight, permitted>>

Modes == {"hmac", "sealed"}
NoChange == [at |-> "idle"]
NoFlight == [at |-> "idle"]

WInit ==
  /\ permitted \in BOOLEAN
  /\ \E mode \in Modes, a \in Audiences :
       /\ endpoint = [mode |-> mode, secret |-> IF mode = "hmac" THEN 0 ELSE Nothing, prev |-> Nothing,
                      audience |-> IF mode = "hmac" THEN Nothing ELSE a, version |-> 0]
       /\ receiver = [mode |-> mode, secret |-> endpoint.secret, audience |-> endpoint.audience, since |-> 0]
  /\ change = [o \in Operators |-> NoChange]
  /\ flight = [d \in Deliveries |-> NoFlight]

(* A call reads the row in its transaction, past hmac_webhooks.require. Its caller is one
   who waits until the receiver has what the last call gave out. *)
Begin(o, to) ==
  /\ change[o] = NoChange
  /\ receiver.mode = endpoint.mode /\ receiver.secret = endpoint.secret
  /\ receiver.audience = endpoint.audience
  /\ to.mode = "hmac" => permitted
  /\ change' = [change EXCEPT ![o] = [at |-> "begun", to |-> to, read |-> endpoint]]
  /\ UNCHANGED <<endpoint, receiver, flight, permitted>>

(* if_match(endpoint.version): the write finds the row as it was read. *)
Matches(o) == endpoint.version = change[o].read.version

(* The row is written, and the answer carries it. *)
Writes(o, row) ==
  /\ endpoint.version < MaxRowVersion
  /\ endpoint' = row
  /\ change' = [change EXCEPT ![o] = [at |-> "answered", row |-> row]]
  /\ UNCHANGED <<receiver, flight, permitted>>

(* rotate_secret of an hmac endpoint: a fresh secret, and the one it replaces beside it. *)
Rotated(o) ==
  [change[o].read EXCEPT !.secret = endpoint.version + 1, !.prev = change[o].read.secret,
                         !.version = endpoint.version + 1]

(* Variant: the write does not look at the version. *)
RotateBlind(o) ==
  /\ change[o].at = "begun" /\ change[o].to.op = "rotate"
  /\ change[o].read.mode = "hmac"
  /\ Writes(o, Rotated(o))

Rotate(o) ==
  /\ change[o].at = "begun" /\ change[o].to.op = "rotate"
  /\ change[o].read.mode = "hmac" /\ Matches(o)
  /\ Writes(o, Rotated(o))

(* switch_mode and plan_mode_switch: to the other mode, with a minted secret or with an
   audience, and with nothing of the mode that is left. *)
Switch(o) ==
  /\ change[o].at = "begun" /\ change[o].to.op = "switch"
  /\ change[o].read.mode # change[o].to.mode /\ Matches(o)
  /\ LET to == change[o].to
     IN Writes(o, [mode |-> to.mode, prev |-> Nothing, version |-> endpoint.version + 1,
                   secret |-> IF to.mode = "hmac" THEN endpoint.version + 1 ELSE Nothing,
                   audience |-> IF to.mode = "hmac" THEN Nothing ELSE to.audience])

(* Validation, a lost race, a URL that cannot be sealed, or a death: nothing is written. *)
ChangeFails(o) ==
  /\ change[o].at = "begun"
  /\ change' = [change EXCEPT ![o] = NoChange]
  /\ UNCHANGED <<endpoint, receiver, flight, permitted>>

(* The receiver is given what the answer holds. *)
TakeUp(o) ==
  /\ change[o].at = "answered"
  /\ receiver' = [mode |-> change[o].row.mode, secret |-> change[o].row.secret,
                  audience |-> change[o].row.audience, since |-> change[o].row.version]
  /\ change' = [change EXCEPT ![o] = NoChange]
  /\ UNCHANGED <<endpoint, flight, permitted>>

(* The breaker and the console write other columns of the row. *)
OtherWrite ==
  /\ endpoint.version < MaxRowVersion
  /\ endpoint' = [endpoint EXCEPT !.version = @ + 1]
  /\ UNCHANGED <<receiver, change, flight, permitted>>

(* ServedModes: with hmac_webhooks off, hmac deliveries are left where they are. *)
Serves(row) == row.mode = "sealed" \/ permitted

(* fetch_endpoint, then a request signed with the row's secrets or sealed for its
   audience; nothing is read again before it is sent. *)
MakeRequest(d) ==
  /\ flight[d] = NoFlight /\ Serves(endpoint)
  /\ flight' = [flight EXCEPT ![d] = [at |-> "sent", row |-> endpoint]]
  /\ UNCHANGED <<endpoint, receiver, change, permitted>>

(* sign_header signs with the secret and the one before; verify accepts any of them. *)
SignedWith(row) == {row.secret, row.prev} \ {Nothing}
Verifies(row) ==
  IF row.mode = "hmac" THEN receiver.secret \in SignedWith(row)
                       ELSE receiver.mode = "sealed" /\ receiver.audience = row.audience

(* The receiver accepts or refuses; what is refused is made again from the row. *)
Arrive(d) ==
  /\ flight[d].at = "sent"
  /\ flight' = [flight EXCEPT ![d] =
       IF Verifies(@.row) THEN NoFlight ELSE [at |-> "refused", row |-> @.row, by |-> receiver]]
  /\ UNCHANGED <<endpoint, receiver, change, permitted>>
Retry(d) ==
  /\ flight[d].at # "idle"
  /\ flight' = [flight EXCEPT ![d] = NoFlight]
  /\ UNCHANGED <<endpoint, receiver, change, permitted>>

Requested == [op : {"rotate"}, mode : {"hmac"}, audience : {Nothing}]
               \cup [op : {"switch"}, mode : {"hmac"}, audience : {Nothing}]
               \cup [op : {"switch"}, mode : {"sealed"}, audience : Audiences]

WNext ==
  \/ \E o \in Operators :
       \/ \E to \in Requested : Begin(o, to)
       \/ Rotate(o) \/ Switch(o) \/ ChangeFails(o) \/ TakeUp(o)
  \/ OtherWrite
  \/ \E d \in Deliveries : MakeRequest(d) \/ Arrive(d) \/ Retry(d)

WSpec == WInit /\ [][WNext]_wvars

(* A receiver that follows the answers is locked out by nothing but its own delay: of the
   deliveries in its own mode it refuses only those that were made from a row older than
   the one it has taken up, which are made again (rotate_secret keeps prevSecret for the
   overlap and "stops two concurrent rotations of the same row from clobbering each other's
   prevSecret"). *)
ReceiverKeepsUp ==
  \A d \in Deliveries :
    flight[d].at = "refused" /\ flight[d].row.mode = flight[d].by.mode =>
      flight[d].row.version < flight[d].by.since
=============================================================================
