------------------------------- MODULE Sealed -------------------------------
(* The signed transport from the caller's side. An SDK (vsms-sdk-rust, vsms-sdk-wasm) seals
   each call for one operation and opens the answer under the two server keys it pins; the
   gateway signs its answers, and the worker its webhook deliveries, with the current of two
   key files that a rotation replaces (sms-api envelope.rs, sms-gateway server_keys.rs,
   sms-webhook). Between them are URL parsers, proxies and other people's endpoints. *)
EXTENDS Naturals, Sequences, SequencesExt, Runs
CONSTANTS Integrators,   \* each calls the gateway, and serves the webhook endpoint of its name
          Strays,        \* endpoints of others, created under an integrator's audience
          AudienceOf,    \* endpoint -> its audience
          Templates,     \* the routes of the schema, as their segments
          Values,        \* what a parameter may be given
          Mutating,      \* the routes of a POST, PATCH, PUT or DELETE: the others take no key
          SendKeys,      \* Idempotency-Keys
          ErrorStatuses,      \* what the gateway may answer when it serves no new message
          MaxServerKey,  \* bound: keys ever minted
          MaxCalls       \* bound: calls ever made

ASSUME SealedAssumption ==
  /\ MaxServerKey \in Nat \ {0} /\ MaxCalls \in Nat
  /\ ErrorStatuses \subseteq Nat \ {0, 200, 422}

(* ---- a segment of a path ---- *)
IsParameter(segment) == segment = "{}"
ParamsOf(t) == {i \in DOMAIN t : IsParameter(t[i])}
EmptyText == "(empty)"     \* the empty string
Unusable(v) == v \in {EmptyText, ".", ".."}
(* encode_path_segment; percent_decode_str. A slash and a percent sign are the characters
   here that they touch. *)
Encode(v) == CASE v = "a/b" -> "a%2Fb" [] v = "a%2Fb" -> "a%252Fb" [] OTHER -> v
Decode(segment) == CASE segment = "a%2Fb" -> "a/b" [] segment = "a%252Fb" -> "a%2Fb" [] OTHER -> segment

Words == UNION {Range(t) : t \in Templates}

(* The schema's routes are made of segments that a URL parser leaves alone, and two of them
   either differ in a word both have, or where only one has a word nobody's parameter is that
   word (contracts.rs: "No two templates collide in today's schema"). *)
ASSUME TemplatesAssumption ==
  /\ Templates \subseteq Seq(Words) /\ <<>> \notin Templates /\ Words \cap {".", ".."} = {}
  /\ "a%252Fb" \notin Values
  /\ \A t, u \in Templates : Len(t) = Len(u) =>
       \/ \E i \in DOMAIN t : ~IsParameter(t[i]) /\ ~IsParameter(u[i]) /\ t[i] # u[i]
       \/ \A i \in ParamsOf(t), v \in Values : IsParameter(u[i]) \/ u[i] # Encode(v)

VARIABLES
  keyFiles,   \* the two PEM files; a rotation moves one before it mints the other
  signs,      \* process -> the key it loaded when it started
  pins,       \* integrator -> the pair it pins
  calls,      \* the calls made, each with the answer it was given and what became of it
  stored,     \* integrator and Idempotency-Key -> the request and the answer kept under them
  lives,      \* how often what was kept under them has expired (for the properties)
  delivery    \* a sealed delivery on its way, and who opened it
svars == <<keyFiles, signs, pins, calls, stored, lives, delivery>>

Absent == 0          \* no file, no key loaded, no message
NoKey == "none"
NoRoute == [template |-> <<>>, params |-> <<>>]
NotKept == [route |-> NoRoute, status |-> 0, message |-> Absent]
Unserved == [status |-> 0, message |-> Absent, key |-> Absent, life |-> 0]
Unopened == [kind |-> "waiting", status |-> 0, message |-> Absent]
NoDelivery == [endpoint |-> "none", key |-> Absent, openedBy |-> {}]

SInit ==
  /\ keyFiles = [current |-> 1, next |-> 2]
  /\ signs = [p \in {"gateway", "worker"} |-> 1]
  /\ pins = [c \in Integrators |-> keyFiles]
  /\ calls = <<>> /\ delivery = NoDelivery
  /\ stored = [s \in Integrators \X SendKeys |-> NotKept] /\ lives = [s \in Integrators \X SendKeys |-> 0]

(* ---- the server's keys ---- *)
(* Only the public halves of both files, and the same key twice is none. *)
FromPems(files) == files.current # Absent /\ files.next # Absent /\ files.current # files.next
(* server-keys prints what the files hold, and needs no running process. *)
Report == keyFiles

(* Both processes read their keys once, at start. The gateway wants both files; the worker
   takes the current one alone, and without it seals nothing. *)
Start(p) ==
  /\ signs' = [signs EXCEPT ![p] =
       IF p = "worker" \/ FromPems(keyFiles) THEN keyFiles.current ELSE Absent]
  /\ UNCHANGED <<keyFiles, pins, calls, stored, lives, delivery>>

(* Variant: the current key alone. *)
PinnedCurrent(c) == {pins[c].current}
(* ServerKeys of the SDKs: two keys, each trusted. *)
Pinned(c) == {pins[c].current, pins[c].next}

(* The runbook: promote what everybody pins, mint, restart both, then hand out the report. *)
Promote ==
  /\ FromPems(keyFiles) /\ \A c \in Integrators : keyFiles.next \in {pins[c].current, pins[c].next}
  /\ keyFiles' = [current |-> keyFiles.next, next |-> Absent]
  /\ UNCHANGED <<signs, pins, calls, stored, lives, delivery>>
Mint ==
  /\ keyFiles.next = Absent /\ keyFiles.current < MaxServerKey
  /\ keyFiles' = [keyFiles EXCEPT !.next = keyFiles.current + 1]
  /\ UNCHANGED <<signs, pins, calls, stored, lives, delivery>>
(* An integrator's process starts anew with the report it was handed; parse_report refuses
   one whose two keys are the same. What it was waiting for is lost to it. *)
Repin(c) ==
  /\ FromPems(Report) /\ \A p \in DOMAIN signs : signs[p] = keyFiles.current
  /\ pins' = [pins EXCEPT ![c] = Report]
  /\ calls' = [n \in DOMAIN calls |->
       IF calls[n].by = c /\ calls[n].outcome = Unopened
         THEN [calls[n] EXCEPT !.outcome.kind = "lost"] ELSE calls[n]]
  /\ UNCHANGED <<keyFiles, signs, stored, lives, delivery>>

(* ---- from a template and its parameters to a path, and back ---- *)
(* concrete_path, or nothing where it refuses. *)
ConcretePath(t, params) ==
  IF \E i \in DOMAIN params : Unusable(params[i]) THEN <<>>
  ELSE [i \in DOMAIN t |-> IF IsParameter(t[i]) THEN Encode(params[i]) ELSE t[i]]

(* What a URL parser makes of a path on the way. *)
ResolveDots(segment, out) ==
  CASE segment = "." -> out
    [] segment = ".." -> IF out = <<>> THEN out ELSE Front(out)
    [] OTHER -> Append(out, segment)
Resolved(path) ==
  Run([i \in DOMAIN path |-> [out \in Seq(Range(path)) |-> ResolveDots(path[i], out)]], <<>>)

(* route_of, and the gateway's router: the templates the path fits, the one with a literal
   at the first difference before the others. *)
FitsPath(t, path) ==
  /\ Len(t) = Len(path)
  /\ \A i \in DOMAIN t : IF IsParameter(t[i]) THEN ~Unusable(Decode(path[i])) ELSE t[i] = path[i]
LiteralFirst(a, b) ==
  \E i \in DOMAIN a : /\ ~IsParameter(a[i]) /\ IsParameter(b[i])
                      /\ \A j \in 1 .. i - 1 : IsParameter(a[j]) <=> IsParameter(b[j])
RouteOf(path) ==
  LET fits == {t \in Templates : FitsPath(t, path)}
      t == CHOOSE t \in fits : \A u \in fits : ~LiteralFirst(u, t)
  IN IF fits = {} THEN NoRoute
     ELSE [template |-> t, params |-> [i \in ParamsOf(t) |-> Decode(path[i])]]

(* ---- a call ---- *)
(* seal: one operation, its parameters and its Idempotency-Key, under a fresh nonce: the
   call's number. No contract, or a path that cannot be made, and nothing is sealed. *)
Seal(c, t, params, key, via) ==
  /\ Len(calls) < MaxCalls
  /\ ConcretePath(t, params) # <<>>
  /\ calls' = Append(calls, [by |-> c, route |-> [template |-> t, params |-> params], key |-> key, via |-> via,
                             target |-> Resolved(ConcretePath(t, params)),
                             answer |-> Unserved, outcome |-> Unopened])
  /\ UNCHANGED <<keyFiles, signs, pins, stored, lives, delivery>>

(* The gateway rebuilds the binding from the request line: what was not sealed for that
   route is refused, unsigned, as is every other flaw of a signature. *)
OpenRequest(n) == RouteOf(calls[n].target) = calls[n].route
(* The idempotency layer keeps answers by principal and key, and knows a request again by its
   hash: its route, for calls whose bodies are the same. A GET takes no key. *)
Scope(n) == <<calls[n].by, calls[n].key>>
Keyed(n) == calls[n].key # NoKey /\ calls[n].route.template \in Mutating
Remembered(n) == Keyed(n) /\ stored[Scope(n)] # NotKept
Answer(n, status, message) ==
  calls' = [calls EXCEPT ![n].answer =
    [status |-> status, message |-> message, key |-> signs["gateway"],
     life |-> IF Keyed(n) THEN lives[Scope(n)] ELSE 0]]
Unanswered(n) == calls[n].answer = Unserved /\ signs["gateway"] # Absent /\ OpenRequest(n)

(* The handler runs, once for what is kept; its answer is kept whatever its status. *)
Handled(n, status, message) ==
  /\ Unanswered(n) /\ ~Remembered(n)
  /\ Answer(n, status, message)
  /\ stored' = IF Keyed(n) THEN [stored EXCEPT ![Scope(n)] =
                  [route |-> calls[n].route, status |-> status, message |-> message]] ELSE stored
  /\ UNCHANGED <<keyFiles, signs, pins, lives, delivery>>
(* A message is made, named by the call it is made for; or an error is sealed like any answer. *)
Serve(n) == Handled(n, 200, n)
ServeError(n, status) == Handled(n, status, Absent)

(* The layer answers in the handler's place. *)
FromLayer(n, status, message) ==
  /\ Unanswered(n) /\ Answer(n, status, message)
  /\ UNCHANGED <<keyFiles, signs, pins, stored, lives, delivery>>
(* The same request again: what was kept. *)
Replay(n) ==
  /\ Remembered(n) /\ stored[Scope(n)].route = calls[n].route
  /\ FromLayer(n, stored[Scope(n)].status, stored[Scope(n)].message)
(* Another request under the key of one that was answered, or is being handled. *)
UnderWay(n) ==
  {m \in DOMAIN calls \ {n} : Keyed(m) /\ Scope(m) = Scope(n) /\ calls[m].answer = Unserved}
KeyReused(n) ==
  /\ Keyed(n)
  /\ IF Remembered(n) THEN stored[Scope(n)].route # calls[n].route
     ELSE \E m \in UnderWay(n) : calls[m].route # calls[n].route
  /\ FromLayer(n, 422, Absent)
(* Another is being handled under its key. *)
InFlight(n) == Keyed(n) /\ ~Remembered(n) /\ UnderWay(n) # {} /\ FromLayer(n, 409, Absent)
(* What is kept is kept for idempotency_ttl; then the key may be used anew. *)
AnswerExpires(c, k) ==
  /\ stored[<<c, k>>] # NotKept
  /\ stored' = [stored EXCEPT ![<<c, k>>] = NotKept] /\ lives' = [lives EXCEPT ![<<c, k>>] = @ + 1]
  /\ UNCHANGED <<keyFiles, signs, pins, calls, delivery>>

(* ---- what comes back ---- *)
(* The binding of an answer: the request it answers, and its status. *)
VerifiesFor(n, m, status) ==
  /\ calls[m].answer # Unserved
  /\ calls[m].answer.key \in Pinned(calls[n].by)
  /\ m = n /\ calls[m].answer.status = status

(* The composer holds the request's bytes and its path, and finds the route by itself. *)
OpenAnswer(n, m, status) == RouteOf(calls[n].target) = calls[n].route /\ VerifiesFor(n, m, status)

(* Variant: the answer is not bound to the request. *)
OpensAnyone(n, m, status) ==
  /\ calls[m].answer.key \in Pinned(calls[n].by) /\ calls[m].answer.status = status
Opens(n, m, status) ==
  IF calls[n].via = "composer" THEN OpenAnswer(n, m, status) ELSE VerifiesFor(n, m, status)

(* is_conflict, is_idempotency_in_flight, is_idempotency_key_conflict: by the status, and by
   what the message of a 409 or a 422 names. *)
Classify(status) ==
  CASE status = 200 -> "sent"
    [] status = 409 -> "conflict"
    [] status = 422 -> "key conflict"
    [] OTHER -> "error"

EndsAs(n, outcome) ==
  /\ n \in DOMAIN calls /\ calls[n].outcome = Unopened
  /\ calls' = [calls EXCEPT ![n].outcome = outcome]
  /\ UNCHANGED <<keyFiles, signs, pins, stored, lives, delivery>>

(* An answer comes back, with this status on its first line: that of this call, or, from a
   proxy that mixed them up, that of another. Its pending response is spent either way. *)
Receive(n, m, status) ==
  /\ m \in DOMAIN calls /\ calls[m].answer # Unserved
  /\ EndsAs(n, IF Opens(n, m, status)
               THEN [kind |-> Classify(status), status |-> status, message |-> calls[m].answer.message]
               ELSE [kind |-> "unverified", status |-> 0, message |-> Absent])
(* No seal at all: the coarse 401, or a page of somebody else's. *)
ReceiveUnsigned(n, status) == EndsAs(n, [kind |-> "unsigned", status |-> status, message |-> Absent])
(* The answer is lost, comes by a redirect or is longer than read_bounded reads: it is not
   looked at, though the request was sent. The SDK does not try again. *)
NotRead(n) == EndsAs(n, [kind |-> "not read", status |-> 0, message |-> Absent])

(* ---- webhook deliveries ---- *)
SealDelivery(e) ==
  /\ delivery = NoDelivery /\ signs["worker"] # Absent
  /\ delivery' = [endpoint |-> e, key |-> signs["worker"], openedBy |-> {}]
  /\ UNCHANGED <<keyFiles, signs, pins, calls, stored, lives>>

(* WebhookOpener::open: a pinned key, the audience and the route, a nonce its store has not
   seen; then, inside, the ids of the endpoint and of its app. *)
WebhookOpens(c) ==
  /\ delivery.key \in Pinned(c) /\ c \notin delivery.openedBy
  /\ AudienceOf[delivery.endpoint] = AudienceOf[c]
  /\ delivery.endpoint = c

(* The delivery, or a copy of it that its own receiver passed on, is handed to c. *)
HandOver(c) ==
  /\ delivery # NoDelivery /\ WebhookOpens(c)
  /\ delivery' = [delivery EXCEPT !.openedBy = @ \cup {c}]
  /\ UNCHANGED <<keyFiles, signs, pins, calls, stored, lives>>
DropDelivery ==
  /\ delivery # NoDelivery /\ delivery' = NoDelivery
  /\ UNCHANGED <<keyFiles, signs, pins, calls, stored, lives>>

ReplyStatuses == ErrorStatuses \cup {200, 409, 422}
SNext ==
  \/ Promote \/ Mint \/ DropDelivery
  \/ \E p \in {"gateway", "worker"} : Start(p)
  \/ \E c \in Integrators :
       \/ Repin(c) \/ HandOver(c) \/ \E k \in SendKeys : AnswerExpires(c, k)
       \/ \E t \in Templates, k \in SendKeys \cup {NoKey}, via \in {"sdk", "composer"} :
            \E params \in [ParamsOf(t) -> Values] : Seal(c, t, params, k, via)
  \/ \E e \in Integrators \cup Strays : SealDelivery(e)
  \/ \E n \in DOMAIN calls :
       \/ Serve(n) \/ Replay(n) \/ KeyReused(n) \/ InFlight(n) \/ NotRead(n) \/ ReceiveUnsigned(n, 401)
       \/ \E status \in ErrorStatuses : ServeError(n, status)
       \/ \E m \in DOMAIN calls, status \in ReplyStatuses : Receive(n, m, status)

SSpec == SInit /\ [][SNext]_svars

(* Through rotations made in the runbook's order, with the gateway and the worker stopped
   and started at any moment of them, nobody refuses what vsms signs: the key either of them
   holds is one that every integrator pins (envelope.rs: "a rotation is three steps with no
   flag day"). *)
RotationBreaksNobody ==
  \A p \in DOMAIN signs, c \in Integrators : signs[p] # Absent => signs[p] \in Pinned(c)

(* What a caller believes is so. An answer it takes for its own is what the gateway answered
   to that very request, with that status, however a proxy mixed them up. A message it is told
   of was made for that request, or for the same request that it made under the same
   Idempotency-Key, and never for another caller or another operation; and until what is kept
   under a key expires, whoever was told of a message under it was told of the same one
   (the layer's principal, key and request hash; envelope.rs, router.rs). *)
SameKey(n, m) == Keyed(n) /\ Keyed(m) /\ Scope(m) = Scope(n)
BelievedIsAnswered ==
  \A n \in DOMAIN calls :
    LET o == calls[n].outcome IN
    o.kind \in {"sent", "conflict", "key conflict", "error"} =>
      /\ calls[n].answer.status = o.status /\ calls[n].answer.message = o.message
      /\ o.kind = "sent" =>
           /\ o.message \in DOMAIN calls
           /\ o.message = n \/ (SameKey(n, o.message) /\ calls[o.message].route = calls[n].route)
           /\ \A m \in DOMAIN calls :
                /\ calls[m].outcome.kind = "sent" /\ SameKey(n, m)
                /\ calls[m].answer.life = calls[n].answer.life
                => calls[m].outcome.message = o.message

(* A call that could be sealed can be served: on the gateway its path leads back to the
   operation and the parameters it was sealed for (concrete_path against route_of). And a
   receiver opens the deliveries made for its own endpoint alone, although others may
   create endpoints under its audience (vsms-sdk webhook.rs: "the endpoint id is the
   binding"). *)
SealedForWhatItReaches ==
  /\ \A n \in DOMAIN calls : OpenRequest(n)
  /\ delivery.openedBy \subseteq {delivery.endpoint}

(* The signed calls of the SDKs hold at both ends: SealedForWhatItReaches of what is sent,
   BelievedIsAnswered of what is taken for the answer (core.rs, opener.rs, client.rs). *)
CallsReachAndAreAnswered == SealedForWhatItReaches /\ BelievedIsAnswered
=============================================================================
