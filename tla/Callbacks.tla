----------------------------- MODULE Callbacks -----------------------------
(* POST /dlr/aws_sms: a delivery of SNS is authenticated, which may need its signing
   certificate to be fetched, and only then parsed and ingested (sms-gateway dlr.rs,
   sms-provider-aws-sms lib.rs, sns.rs and events.rs). SNS redelivers what was answered 503
   or not at all, and nothing else. What an update does to its message is Dispatch's. *)
EXTENDS Integers, FiniteSets

CONSTANTS
  CallbackPosts,    \* requests handled at a time
  Envelopes,        \* what may be posted
  Certs,            \* names of certificates that have the shape is_signing_cert_url wants
  Served,           \* those of them that SNS serves
  MaxCachedCerts,   \* MAX_CACHED_CERTS
  FetchInterval,    \* MIN_UNCACHED_FETCH_INTERVAL
  MaxCallClock,     \* bound: ticks in a behaviour
  Unfetched         \* no certificate was fetched yet

EnvelopeKinds == {"Notification", "SubscriptionConfirmation", "UnsubscribeConfirmation", "other"}

ASSUME CallbacksAssumption ==
  /\ Served \subseteq Certs /\ Unfetched \notin Nat
  /\ MaxCachedCerts \in Nat \ {0} /\ FetchInterval \in Nat /\ MaxCallClock \in Nat
  /\ \A e \in Envelopes :
       /\ e.kind \in EnvelopeKinds
       /\ e.ourTopic \in BOOLEAN     \* TopicArn is the configured one
       /\ e.version2 \in BOOLEAN     \* SignatureVersion is 2
       /\ e.wellFormed \in BOOLEAN   \* the fields the signature covers, and base64
       /\ e.snsUrl \in BOOLEAN       \* SubscribeURL is on the topic's SNS host
       /\ e.isEvent \in BOOLEAN      \* Message is an event record with a messageId
       /\ e.updates \in Nat          \* how many updates it holds: one of a TEXT_ event
       /\ e.signed \in BOOLEAN       \* signed with the certificate that it names

VARIABLES
  callback,      \* request -> its envelope and how far it is
  certs,         \* the cached certificates
  lastFetch,     \* last_uncached_fetch
  fetchTimes,    \* when certificates were fetched, and by whom (history)
  callClock

cvars == <<callback, certs, lastFetch, fetchTimes, callClock>>

NoCallback == [at |-> "idle"]

CInit ==
  /\ callback = [p \in CallbackPosts |-> NoCallback]
  /\ certs = {}
  /\ lastFetch = Unfetched
  /\ fetchTimes = [p \in CallbackPosts |-> Unfetched]
  /\ callClock = 0

Proceed(p, at) == callback' = [callback EXCEPT ![p].at = at]

(* Envelope::parse, and the checks of verify that need no certificate: the topic, the
   version of the signature, the form of the certificate's URL, string_to_sign. *)
PostCallback(p, e) ==
  /\ callback[p] = NoCallback
  /\ callback' = [callback EXCEPT ![p] =
       [at |-> IF /\ e.ourTopic /\ e.version2 /\ e.cert \in Certs
                  /\ e.wellFormed /\ e.kind # "other"
                 THEN "certificate" ELSE "forbidden",
        envelope |-> e, left |-> e.updates]]
  /\ UNCHANGED <<certs, lastFetch, fetchTimes, callClock>>

(* certificate: from the cache, or as permit_uncached_fetch permits. *)
LookUpCertificate(p) ==
  /\ callback[p].at = "certificate"
  /\ Proceed(p, IF callback[p].envelope.cert \in certs THEN "verify" ELSE "permit")
  /\ UNCHANGED <<certs, lastFetch, fetchTimes, callClock>>

TooSoon == lastFetch # Unfetched /\ callClock - lastFetch < FetchInterval
Permitted(p) ==
  /\ lastFetch' = callClock /\ fetchTimes' = [fetchTimes EXCEPT ![p] = callClock]
  /\ Proceed(p, "fetch")

(* Variant: a fetch that comes too soon is a refusal. *)
PermitOrRefuse(p) ==
  /\ callback[p].at = "permit"
  /\ IF TooSoon THEN Proceed(p, "forbidden") /\ UNCHANGED <<lastFetch, fetchTimes>> ELSE Permitted(p)
  /\ UNCHANGED <<certs, callClock>>

PermitFetch(p) ==
  /\ callback[p].at = "permit"
  /\ IF TooSoon THEN Proceed(p, "unavailable") /\ UNCHANGED <<lastFetch, fetchTimes>> ELSE Permitted(p)
  /\ UNCHANGED <<certs, callClock>>

(* A certificate that was fetched and parsed is kept, in a cache that is emptied when full. *)
FetchCertificate(p) ==
  /\ callback[p].at = "fetch" /\ callback[p].envelope.cert \in Served
  /\ certs' = (IF Cardinality(certs) >= MaxCachedCerts THEN {} ELSE certs) \cup {callback[p].envelope.cert}
  /\ Proceed(p, "verify")
  /\ UNCHANGED <<lastFetch, fetchTimes, callClock>>
FetchCertificateFails(p) ==
  /\ callback[p].at = "fetch"
  /\ Proceed(p, "unavailable")
  /\ UNCHANGED <<certs, lastFetch, fetchTimes, callClock>>

(* verify_signature, and what authenticate_callback makes of each kind of message. *)
VerifySignature(p) ==
  /\ callback[p].at = "verify"
  /\ LET e == callback[p].envelope
     IN Proceed(p, IF ~ e.signed \/ (e.kind = "SubscriptionConfirmation" /\ ~ e.snsUrl) THEN "forbidden"
                   ELSE IF e.kind # "Notification" THEN "ok"
                   ELSE IF e.isEvent THEN "ingest" ELSE "badRequest")
  /\ UNCHANGED <<certs, lastFetch, fetchTimes, callClock>>

(* ingest: one update after the other. Whether it could be landed does not show in the answer:
   a write that failed is logged, the others go on, and SNS is told 200 all the same. *)
IngestUpdate(p) ==
  /\ callback[p].at = "ingest"
  /\ callback' = IF callback[p].left = 0 THEN [callback EXCEPT ![p].at = "ok"]
                                         ELSE [callback EXCEPT ![p].left = @ - 1]
  /\ UNCHANGED <<certs, lastFetch, fetchTimes, callClock>>

(* The answer leaves, or the request ends without one. *)
CallbackEnds(p) ==
  /\ callback[p] # NoCallback
  /\ callback' = [callback EXCEPT ![p] = NoCallback]
  /\ UNCHANGED <<certs, lastFetch, fetchTimes, callClock>>

CallTick ==
  /\ callClock < MaxCallClock
  /\ callClock' = callClock + 1
  /\ UNCHANGED <<callback, certs, lastFetch, fetchTimes>>

CNext ==
  \/ \E p \in CallbackPosts :
       \/ \E e \in Envelopes : PostCallback(p, e)
       \/ LookUpCertificate(p) \/ PermitFetch(p) \/ FetchCertificate(p) \/ FetchCertificateFails(p)
       \/ VerifySignature(p) \/ IngestUpdate(p) \/ CallbackEnds(p)
  \/ CallTick

CSpec == CInit /\ [][CNext]_cvars

(* What SNS sent us: to our topic, with its signature. *)
Genuine(e) ==
  /\ e.ourTopic /\ e.version2 /\ e.cert \in Served /\ e.signed /\ e.wellFormed /\ e.kind # "other"
  /\ e.kind = "SubscriptionConfirmation" => e.snsUrl

(* No receipt of ours is turned away for good and none of another's is taken, whatever else is
   posted meanwhile and however the fetches go: an answer that SNS takes as final is given to
   a genuine message only when every update of it was given to ingest_one or it holds none,
   and only genuine messages are handled; whether ingest_one's write went through is not
   part of the answer (see IngestUpdate). Certificates are fetched FetchInterval apart, and
   few are kept (dlr_handler: "a 503 makes the provider redeliver, where a 4xx would make it
   drop a genuine receipt"). *)
AnswersAreRight ==
  /\ \A p \in CallbackPosts :
       LET c == callback[p]
       IN /\ c.at = "forbidden" => ~ Genuine(c.envelope)
          /\ c.at \in {"ingest", "ok", "badRequest"} => Genuine(c.envelope)
          /\ c.at = "ok" /\ c.envelope.kind = "Notification" => c.left = 0
          /\ c.at = "badRequest" => ~ c.envelope.isEvent
  /\ \A p, q \in CallbackPosts :
       p # q /\ fetchTimes[p] # Unfetched /\ fetchTimes[q] # Unfetched =>
         fetchTimes[p] - fetchTimes[q] \notin (1 - FetchInterval) .. (FetchInterval - 1)
  /\ certs \subseteq Served /\ Cardinality(certs) <= MaxCachedCerts
=============================================================================
