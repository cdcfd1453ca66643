------------------------------ MODULE IdpKeys ------------------------------
(* The identity provider as the gateway sees it: the discovery document and the signing keys
   it caches, each fetched by one task at a time, and the tasks that need them: an
   authorization URL or a code exchange needs the document, an id_token the key its header
   names (sms-auth sso/provider.rs). A cache is locked only to read or to store; a task that
   is dropped gives up the flights it holds. *)
EXTENDS Integers, FiniteSets

CONSTANTS
  Tasks,           \* requests that reach the provider at a time
  Kids,            \* key ids
  DocTtl,          \* METADATA_TTL
  JwksTtl,         \* JWKS_TTL
  MinRefresh,      \* jwks_min_refresh
  AnswerTime,      \* the longest an answer of the provider takes to be stored
  MaxIdpClock,     \* bound: ticks in a behaviour
  Nobody,          \* nobody flies
  Never            \* not yet fetched, not published

ASSUME IdpKeysAssumption ==
  /\ DocTtl \in Nat /\ JwksTtl \in Nat /\ AnswerTime \in Nat /\ MaxIdpClock \in Nat
  /\ MinRefresh \in Nat \ {0}    \* the configuration takes no less than a second
  /\ Never \notin Int /\ Nobody \notin Tasks

VARIABLES
  published,     \* kid -> since when the provider publishes it
  document,      \* when the cached discovery document was fetched
  jwks,          \* the cached keys and when they were fetched
  docFlight, jwksFlight,    \* the task that fetches
  task,          \* task -> how far it is, what it has read, and what its kid met (history)
  idpClock

ivars == <<published, document, jwks, docFlight, jwksFlight, task, idpClock>>

NoTask == [at |-> "idle"]

IInit ==
  /\ published \in [Kids -> {0, Never}]
  /\ document = Never
  /\ jwks = [keys |-> {}, fetched |-> Never]
  /\ docFlight = Nobody /\ jwksFlight = Nobody
  /\ task = [t \in Tasks |-> NoTask]
  /\ idpClock = 0

Younger(at, age) == at # Never /\ idpClock - at < age
Moves(t, at) == task' = [task EXCEPT ![t].at = at]

(* The provider takes a key into use or withdraws one. *)
ChangeKeys(k) ==
  /\ published' = [published EXCEPT ![k] = IF @ = Never THEN idpClock ELSE Never]
  /\ UNCHANGED <<document, jwks, docFlight, jwksFlight, task, idpClock>>

(* authorization_url and exchange_code call metadata. *)
NeedDocument(t) ==
  /\ task[t] = NoTask
  /\ task' = [task EXCEPT ![t] = [at |-> "doc", want |-> "document", had |-> FALSE]]
  /\ UNCHANGED <<published, document, jwks, docFlight, jwksFlight, idpClock>>

(* find_key: the key if it is young, or if the keys were fetched a moment ago. *)
FindKey(t, k) ==
  /\ task[t] = NoTask
  /\ LET known == k \in jwks.keys
     IN task' = [task EXCEPT ![t] =
          [at |-> IF known /\ Younger(jwks.fetched, JwksTtl) THEN "served"
                  ELSE IF Younger(jwks.fetched, MinRefresh)
                    THEN IF known THEN "served" ELSE "refused"
                  ELSE "fly",
           want |-> "key", kid |-> k, known |-> known, had |-> FALSE,
           keys |-> {}, answered |-> Never, asked |-> idpClock, met |-> known, missed |-> ~ known]]
  /\ UNCHANGED <<published, document, jwks, docFlight, jwksFlight, idpClock>>

(* try_lock of the flight: the one who flies goes on, who holds a key takes that, and who
   holds none waits. *)
FlyForKeys(t) ==
  /\ task[t].at = "fly"
  /\ IF jwksFlight = Nobody
       THEN jwksFlight' = t /\ Moves(t, "recheck")
       ELSE Moves(t, IF task[t].known THEN "served" ELSE "queued") /\ UNCHANGED jwksFlight
  /\ UNCHANGED <<published, document, jwks, docFlight, idpClock>>
FlightFree(t) ==
  /\ task[t].at = "queued" /\ jwksFlight = Nobody
  /\ jwksFlight' = t /\ Moves(t, "recheck")
  /\ UNCHANGED <<published, document, jwks, docFlight, idpClock>>

(* Who held the flight before may have fetched. *)
RecheckKeys(t) ==
  /\ task[t].at = "recheck"
  /\ IF Younger(jwks.fetched, MinRefresh)
       THEN Moves(t, IF task[t].kid \in jwks.keys THEN "served" ELSE "refused") /\ jwksFlight' = Nobody
       ELSE Moves(t, "doc") /\ UNCHANGED jwksFlight
  /\ UNCHANGED <<published, document, jwks, docFlight, idpClock>>

(* What metadata gives the task: it is served, or asks the document's jwks_uri. *)
Got(t) == IF task[t].want = "document" THEN "served" ELSE "fetch"

(* metadata: a young document, else the same flight over discovery. *)
ReadDocument(t) ==
  /\ task[t].at = "doc"
  /\ task' = [task EXCEPT ![t].at = IF Younger(document, DocTtl) THEN Got(t) ELSE "docFly",
                          ![t].had = document # Never]
  /\ UNCHANGED <<published, document, jwks, docFlight, jwksFlight, idpClock>>
FlyForDocument(t) ==
  /\ task[t].at = "docFly"
  /\ IF docFlight = Nobody
       THEN docFlight' = t /\ Moves(t, "docRecheck")
       ELSE Moves(t, IF task[t].had THEN Got(t) ELSE "docQueued") /\ UNCHANGED docFlight
  /\ UNCHANGED <<published, document, jwks, jwksFlight, idpClock>>
DocumentFlightFree(t) ==
  /\ task[t].at = "docQueued" /\ docFlight = Nobody
  /\ docFlight' = t /\ Moves(t, "docRecheck")
  /\ UNCHANGED <<published, document, jwks, jwksFlight, idpClock>>
RecheckDocument(t) ==
  /\ task[t].at = "docRecheck"
  /\ IF Younger(document, DocTtl) THEN Moves(t, Got(t)) /\ docFlight' = Nobody
                                  ELSE Moves(t, "docFetch") /\ UNCHANGED docFlight
  /\ UNCHANGED <<published, document, jwks, jwksFlight, idpClock>>

(* fetch_discovery, good or not: a stale document beats none. *)
FetchDocument(t, good) ==
  /\ task[t].at = "docFetch"
  /\ document' = IF good THEN idpClock ELSE document
  /\ docFlight' = Nobody
  /\ Moves(t, IF good \/ task[t].had THEN Got(t) ELSE "unavailable")
  /\ jwksFlight' = IF ~ good /\ ~ task[t].had /\ jwksFlight = t THEN Nobody ELSE jwksFlight
  /\ UNCHANGED <<published, jwks, idpClock>>

(* fetch_jwks: the provider answers, and the answer is stored a little later. *)
AnswerKeys(t) ==
  /\ task[t].at = "fetch"
  /\ task' = [task EXCEPT ![t].at = "store", ![t].answered = idpClock,
                          ![t].keys = {k \in Kids : published[k] # Never}]
  /\ UNCHANGED <<published, document, jwks, docFlight, jwksFlight, idpClock>>
StoreKeys(t) ==
  /\ task[t].at = "store"
  /\ jwks' = [keys |-> task[t].keys, fetched |-> idpClock]
  /\ task' = [u \in Tasks |->
       LET r == task[u]
           m == IF r.at # "idle" /\ r.want = "key"
                  THEN [r EXCEPT !.met = @ \/ r.kid \in task[t].keys, !.missed = @ \/ r.kid \notin task[t].keys]
                  ELSE r
       IN IF u = t THEN [m EXCEPT !.at = IF r.kid \in r.keys THEN "served" ELSE "refused"] ELSE m]
  /\ jwksFlight' = Nobody
  /\ UNCHANGED <<published, document, docFlight, idpClock>>

(* Variant: a failed fetch is the task's failure. *)
FetchFailsHard(t) ==
  /\ task[t].at \in {"fetch", "store"}
  /\ Moves(t, "unavailable")
  /\ jwksFlight' = Nobody
  /\ UNCHANGED <<published, document, jwks, docFlight, idpClock>>

(* A fetch that fails leaves the cache alone, and a key known before serves. *)
FetchFails(t) ==
  /\ task[t].at \in {"fetch", "store"}
  /\ Moves(t, IF task[t].known THEN "served" ELSE "unavailable")
  /\ jwksFlight' = Nobody
  /\ UNCHANGED <<published, document, jwks, docFlight, idpClock>>

(* The request is answered, or dropped half way with its flights. *)
TaskEnds(t) ==
  /\ task[t] # NoTask
  /\ task' = [task EXCEPT ![t] = NoTask]
  /\ jwksFlight' = IF jwksFlight = t THEN Nobody ELSE jwksFlight
  /\ docFlight' = IF docFlight = t THEN Nobody ELSE docFlight
  /\ UNCHANGED <<published, document, jwks, idpClock>>

IdpTick ==
  /\ idpClock < MaxIdpClock
  /\ \A t \in Tasks : task[t].at = "store" => idpClock < task[t].answered + AnswerTime
  /\ idpClock' = idpClock + 1
  /\ UNCHANGED <<published, document, jwks, docFlight, jwksFlight, task>>

INext ==
  \/ \E k \in Kids : ChangeKeys(k)
  \/ \E t \in Tasks :
       \/ NeedDocument(t) \/ \E k \in Kids : FindKey(t, k)
       \/ FlyForKeys(t) \/ FlightFree(t) \/ RecheckKeys(t)
       \/ ReadDocument(t) \/ FlyForDocument(t) \/ DocumentFlightFree(t) \/ RecheckDocument(t)
       \/ \E good \in BOOLEAN : FetchDocument(t, good)
       \/ AnswerKeys(t) \/ StoreKeys(t) \/ FetchFails(t) \/ TaskEnds(t)
  \/ IdpTick

ISpec == IInit /\ [][INext]_ivars

(* A broken provider stops nobody whose key is held, a withdrawn key stops, and a new one is
   found: a task is turned away only when some answer of the provider, before it asked or
   since, was without its key, and refused as unknown only when the key was not yet
   published MinRefresh and an answer's time before it asked; it is served only with a key
   that was in the cache since it asked (find_key: "a stale key beats none", "a key the
   provider has since withdrawn stops verifying when a fetch succeeds without it"; a kid
   that is not in it "earns one refetch"). Only one task fetches at a time. *)
KnownKeysServe ==
  \A t \in Tasks :
    /\ task[t].at = "served" /\ task[t].want = "key" => task[t].met
    /\ task[t].at \in {"refused", "unavailable"} /\ task[t].want = "key" => task[t].missed
    /\ task[t].at = "refused" =>
         \/ published[task[t].kid] = Never
         \/ published[task[t].kid] > task[t].asked - MinRefresh - AnswerTime
    /\ task[t].at \in {"fetch", "store"} => jwksFlight = t
=============================================================================
