----------------------------- MODULE Adapters -----------------------------
(* What the worker is told of a submission: the HTTP adapters of MTN, Orange and AWS
   (sms-provider-mtn, -orange-cm, -aws-sms, -http), the access tokens the first two cache,
   and the reference by which a carrier's receipt finds its message. The carriers and the
   HTTP client are external: a request may fail before it is written, be taken or refused,
   and its answer may be late, cut off or unreadable. A carrier that has taken a message
   does not answer with an error. *)
EXTENDS Integers

CONSTANTS
  Submissions,    \* each is made once
  Lifetime,       \* expires_in of a token, in ticks; a multiple of 5
  Latency,        \* the longest a request takes: connecting, or fetching a token
  MaxNow,         \* a bound on time
  Resets          \* whether a carrier may close a connection it has read a request from

ASSUME AdapterAssumption ==
  /\ Lifetime \in Nat \ {0} /\ Lifetime % 5 = 0
  /\ Latency \in Nat /\ 10 * Latency <= Lifetime
  /\ Resets \in BOOLEAN

VARIABLES
  bearer,     \* TokenCache of an adapter: the token, named by when it was issued, and valid_until
  sub,        \* each submission: its adapter, progress, token and what the worker is told
  taken,      \* the submissions their carrier has taken (history)
  misread,    \* those of them it answered with a 2xx its adapter does not read (history)
  stale,      \* the submissions sent with a token that had expired (history)
  now

avars == <<bearer, sub, taken, misread, stale, now>>

AdapterKeys == {"mtn_cm", "orange_cm", "aws_sms"}
Tokened == {"mtn_cm", "orange_cm"}
NoToken == [issued |-> -1, until |-> 0]
AtRest == [via |-> "none", at |-> "rest", token |-> -1, by |-> 0, told |-> "nothing", refs |-> {}]

AInit ==
  /\ bearer = [a \in Tokened |-> NoToken]
  /\ sub = [s \in Submissions |-> AtRest]
  /\ taken = {} /\ misread = {}
  /\ stale = {}
  /\ now = 0

---------------------------------------------------------------------------
(* Classification: ProviderError by cause. *)

(* Variant: a timeout is one more way of not reaching the carrier. *)
ClassifyTransportRetried(kind) == "unavailable"
(* classify_transport_error asks is_connect, then is_timeout or is_body. A connection
   closed while its answer is awaited is none of them. *)
ClassifyTransport(kind) ==
  CASE kind = "connect"             -> "unavailable"
    [] kind \in {"timeout", "body"} -> "indeterminate"
    [] OTHER                        -> "unavailable"

CommonSubmitStatus(status) ==
  CASE status = "429" -> "transient"
    [] status = "5xx" -> "unavailable"
    [] OTHER          -> "rejected"

MtnSubmitError(status) ==
  CASE status = "401" -> "permanent"
    [] status = "407" -> "unavailable"
    [] status = "app" -> "rejected"      \* 200 with a statusCode other than 0000
    [] OTHER          -> CommonSubmitStatus(status)

(* AWS: the named error before the status. "sender" stands for the errors that are about the
   sender the request named, when it did; "account" for the account-level ones. *)
AwsError(status) ==
  CASE status = "throttling"                              -> "transient"
    [] status \in {"sender", "route", "conflict"}         -> "permanent"
    [] status \in {"account", "conflict_setup"}           -> "unavailable"
    [] status \in {"validation", "conflict_destination"}  -> "rejected"
    [] OTHER                                              -> CommonSubmitStatus(status)

Statuses(a) ==
  {"429", "5xx", "4xx"} \cup
  (CASE a = "mtn_cm"    -> {"401", "407", "app"}
     [] a = "orange_cm" -> {"401"}
     [] a = "aws_sms"   -> {"throttling", "sender", "route", "conflict", "account",
                            "conflict_setup", "validation", "conflict_destination"})

SubmitError(a, status) ==
  CASE a = "mtn_cm"    -> MtnSubmitError(status)
    [] a = "orange_cm" -> CommonSubmitStatus(status)
    [] a = "aws_sms"   -> AwsError(status)

---------------------------------------------------------------------------
(* References. The carrier names a message by an identifier of its own, and by the
   reference it was given where it reads one. *)
CarrierId(s) == <<"carrier", s>>
OurReference(s) == <<"ours", s>>

(* SubmitAck: provider_ref, and provider_ref_alt where there is one. *)
AckRefs(a, s) == IF a = "mtn_cm" THEN {CarrierId(s), OurReference(s)} ELSE {CarrierId(s)}

(* parse_dlr: clientCorrelatorId, callbackData, messageId. *)
ReceiptRef(a, s) == IF a = "mtn_cm" THEN OurReference(s) ELSE CarrierId(s)

---------------------------------------------------------------------------
Tell(s, what) == sub' = [sub EXCEPT ![s] = [AtRest EXCEPT !.via = sub[s].via, !.at = "told", !.told = what]]

(* submit: what the adapter refuses itself, then the token, or for AWS a signature. *)
Submit(s, a) ==
  /\ sub[s].at = "rest"
  /\ sub' = [sub EXCEPT ![s] = [AtRest EXCEPT !.via = a, !.by = now + Latency,
                                              !.at = IF a \in Tokened THEN "token" ELSE "send"]]
  /\ UNCHANGED <<bearer, taken, misread, stale, now>>

TooLong(s) ==
  /\ sub[s].at \in {"token", "send"} /\ sub[s].by = now + Latency
  /\ \/ sub[s].via = "mtn_cm" /\ sub[s].at = "token" /\ Tell(s, "permanent")
     \/ sub[s].via = "aws_sms" /\ Tell(s, "rejected")
  /\ UNCHANGED <<bearer, taken, misread, stale, now>>

(* access_token: the cached token while it is valid, or a new one. Nothing keeps two
   submissions from fetching at once. *)
AccessToken(s) ==
  /\ sub[s].at = "token"
  /\ LET cached == bearer[sub[s].via]
     IN sub' = [sub EXCEPT ![s].at = IF now < cached.until THEN "send" ELSE "fetch",
                           ![s].token = IF now < cached.until THEN cached.issued ELSE -1,
                           ![s].by = now + Latency]
  /\ UNCHANGED <<bearer, taken, misread, stale, now>>

(* The endpoint issues a token; the answer takes time to arrive. *)
TokenIssued(s) ==
  /\ sub[s].at = "fetch"
  /\ sub' = [sub EXCEPT ![s].at = "fetched", ![s].token = now, ![s].by = now + Latency]
  /\ UNCHANGED <<bearer, taken, misread, stale, now>>

(* TokenCache::store: valid for four fifths of its life, counted from the answer. *)
StoreToken(s) ==
  /\ sub[s].at = "fetched"
  /\ bearer' = [bearer EXCEPT ![sub[s].via] =
                  [issued |-> sub[s].token, until |-> now + (Lifetime * 4) \div 5]]
  /\ sub' = [sub EXCEPT ![s].at = "send", ![s].by = now + Latency]
  /\ UNCHANGED <<taken, misread, stale, now>>

(* token::fetch: refused credentials, or no usable answer. *)
FetchFails(s) ==
  /\ sub[s].at \in {"fetch", "fetched"}
  /\ Tell(s, "permanent") \/ Tell(s, "unavailable")
  /\ UNCHANGED <<bearer, taken, misread, stale, now>>

(* The request: no connection, or written to one. *)
ConnectFails(s) ==
  /\ sub[s].at = "send"
  /\ Tell(s, ClassifyTransport("connect"))
  /\ UNCHANGED <<bearer, taken, misread, stale, now>>
Dead(s) == sub[s].via \in Tokened /\ now >= sub[s].token + Lifetime
Write(s) ==
  /\ sub[s].at = "send"
  /\ sub' = [sub EXCEPT ![s].at = "sent"]
  /\ stale' = IF Dead(s) THEN stale \cup {s} ELSE stale
  /\ UNCHANGED <<bearer, taken, misread, now>>

CarrierTakes(s) ==
  /\ sub[s].at = "sent" /\ ~ Dead(s)
  /\ sub' = [sub EXCEPT ![s].at = "taken"]
  /\ taken' = taken \cup {s}
  /\ UNCHANGED <<bearer, misread, stale, now>>

(* The carrier's answer to what it has taken: an identifier, or the 2xx of its API with a
   body that cannot be read. *)
CarrierAcks(s) ==
  /\ sub[s].at = "taken"
  /\ sub' = [sub EXCEPT ![s] = [AtRest EXCEPT !.via = sub[s].via, !.at = "told", !.told = "ack",
                                              !.refs = AckRefs(sub[s].via, s)]]
  /\ UNCHANGED <<bearer, taken, misread, stale, now>>
UnreadableAck(s) ==
  /\ sub[s].at = "taken"
  /\ Tell(s, "indeterminate")
  /\ UNCHANGED <<bearer, taken, misread, stale, now>>
(* Another 2xx: MTN's adapter reads 200 alone and Orange's 201, and what is neither is
   classified like an error; that of AWS reads them all. *)
UnexpectedSuccess(s) ==
  /\ sub[s].at = "taken" /\ sub[s].via \in Tokened
  /\ Tell(s, SubmitError(sub[s].via, "2xx"))
  /\ misread' = misread \cup {s}
  /\ UNCHANGED <<bearer, taken, stale, now>>
CarrierRefuses(s, status) ==
  /\ sub[s].at = "sent" /\ status \in Statuses(sub[s].via)
  /\ Tell(s, SubmitError(sub[s].via, status))
  /\ UNCHANGED <<bearer, taken, misread, stale, now>>

(* No answer arrives: the client's timeout, a body cut off, or a closed connection. *)
NoAnswer(s, kind) ==
  /\ sub[s].at \in {"sent", "taken"}
  /\ kind = "request" => Resets
  /\ Tell(s, ClassifyTransport(kind))
  /\ UNCHANGED <<bearer, taken, misread, stale, now>>

(* Time passes; a cached token that is no longer valid is as good as none. *)
ATick ==
  /\ now < MaxNow
  /\ \A s \in Submissions : sub[s].at \in {"token", "fetch", "fetched", "send"} => now < sub[s].by
  /\ now' = now + 1
  /\ bearer' = [a \in Tokened |-> IF bearer[a].until > now' THEN bearer[a] ELSE NoToken]
  /\ UNCHANGED <<sub, taken, misread, stale>>

ANext ==
  \/ \E s \in Submissions :
       \/ \E a \in AdapterKeys : Submit(s, a)
       \/ TooLong(s) \/ AccessToken(s) \/ TokenIssued(s) \/ StoreToken(s) \/ FetchFails(s)
       \/ ConnectFails(s) \/ Write(s) \/ CarrierTakes(s) \/ CarrierAcks(s) \/ UnreadableAck(s)
       \/ UnexpectedSuccess(s)
       \/ \E status \in UNION {Statuses(a) : a \in AdapterKeys} : CarrierRefuses(s, status)
       \/ \E kind \in {"timeout", "body", "request"} : NoAnswer(s, kind)
  \/ ATick

ASpec == AInit /\ [][ANext]_avars

(* What the adapters keep is well formed. *)
ATypeOK ==
  /\ bearer \in [Tokened -> [issued : -1 .. MaxNow, until : 0 .. MaxNow + Lifetime]]
  /\ taken \subseteq Submissions /\ misread \subseteq taken /\ stale \subseteq Submissions
  /\ now \in 0 .. MaxNow

(* A message its carrier has taken is never reported in a way that sends it again or loses
   its receipt: it is acknowledged under a reference by which its receipt finds it and no
   other, or held until a receipt tells (error.rs: a reset "while awaiting or reading the
   response" is Indeterminate; provider_ref_alt). The one exception is a carrier that
   answers with a 2xx its adapter does not read: the message is failed, and its receipt
   finds nothing, but it is not sent again (classify_common_submit_status). *)
PossiblySentIsHeld ==
  \A s \in taken : sub[s].at = "told" =>
    \/ sub[s].told = "indeterminate"
    \/ sub[s].told = "ack" /\ {t \in Submissions : /\ sub[t].via = sub[s].via
                                                 /\ ReceiptRef(sub[s].via, s) \in sub[t].refs} = {s}
    \/ s \in misread /\ sub[s].told = "rejected"

(* No request is sent with a token its carrier has let expire, although tokens are fetched
   side by side, stored late and used by whoever finds them. *)
TokensOutliveRequests == stale = {}

(* What an adapter may not do to a message, whatever its carrier and the wire do: have it sent
   twice or lose it (PossiblySentIsHeld), or ask with a dead token (TokensOutliveRequests). *)
SubmissionsAreSafe == PossiblySentIsHeld /\ TokensOutliveRequests
==========================================================================
