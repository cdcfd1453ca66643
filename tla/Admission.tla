----------------------------- MODULE Admission -----------------------------
(***************************************************************************)
(* sendMessage: what is checked before a message is accepted, and in which *)
(* order (Procedures::send in sms-api procedures.rs, consent.rs).  Every   *)
(* check is a read of its own, under read committed, so requests of an app *)
(* and changes of what they check interleave.  A caller that gets no       *)
(* answer sends again with the same clientRef and the same                 *)
(* Idempotency-Key header; the layer that serves that header belongs to    *)
(* the framework and is modelled from how router.rs mounts it.             *)
(***************************************************************************)
EXTENDS Naturals, FiniteSets

CONSTANTS
  Sends,        \* things callers want sent, each once
  Handlers,     \* requests the gateway handles at a time
  Kinds,        \* kinds of sends: a class, whether with a clientRef, whether with an
                \* Idempotency-Key
  Quotas,       \* values monthlyQuota may have
  MaxTries,     \* bound: requests a caller makes for a send
  MaxChanges,   \* bound: changes of quota, consent and opt-outs in a behaviour
  Nothing

ASSUME AdmissionAssumption ==
  /\ Kinds \subseteq [class : {"otp", "transactional", "notification", "marketing"},
                     ref : BOOLEAN, httpKey : BOOLEAN]
  /\ Quotas \subseteq Nat /\ \E q \in Quotas : \A r \in Quotas : r <= q
  /\ IsFiniteSet(Handlers) /\ Handlers # {}
  /\ Nothing \notin {"running", "ok", "refused", "conflict", "retry"}
  /\ MaxTries \in Nat /\ MaxChanges \in Nat

VARIABLES
  send,       \* send -> what the caller asks for (never changes)
  tries,      \* send -> requests made so far
  told,       \* send -> last answer the caller got
  httpKey,    \* send -> what the idempotency layer holds for its header
  app,        \* the app: whether it is active, its monthly quota
  appCache,   \* app_cache
  optedOut, consent,   \* the recipient's opt-out and consent records
  night,      \* outside the marketing window
  handler,    \* handler -> the request it works on
  messages,   \* the messages inserted this month: send and attempt
  window,     \* history: those inserted since the send's key was last forgotten
  changes

avars == <<send, tries, told, httpKey, app, appCache, optedOut, consent, night, handler,
           messages, window, changes>>

Free == [at |-> "free"]

(* consent.rs: which classes need the recipient's consent, and which keep quiet hours. *)
NeedsConsent(class) == class \in {"notification", "marketing"}
KeepsQuietHours(class) == class = "marketing"

Rest(h) == UNCHANGED <<send, app, optedOut, consent, night, changes>>
Goes(h, at) == handler' = [handler EXCEPT ![h].at = at]

(* The handler has its answer, and the layer around it has yet to see it. *)
Answered(h, answer) ==
  handler' = [handler EXCEPT ![h] = [at |-> "store", send |-> handler[h].send, answer |-> answer]]

(* A caller's request arrives: for the first time, again because the caller got no answer,
   or once more because the first was delayed. *)
Receive(h, s) ==
  /\ handler[h] = Free
  /\ tries[s] < MaxTries /\ told[s] = Nothing
  /\ tries' = [tries EXCEPT ![s] = @ + 1]
  /\ handler' = [handler EXCEPT ![h] = [at |-> "reserve", send |-> s]]
  /\ Rest(h) /\ UNCHANGED <<told, httpKey, appCache, messages, window>>

(* IdempotencyLayer: a key in progress is refused, an answered key is answered again. *)
Reserve(h) ==
  /\ handler[h].at = "reserve"
  /\ LET s == handler[h].send
     IN CASE ~send[s].httpKey \/ httpKey[s] = Nothing ->
               /\ httpKey' = IF send[s].httpKey THEN [httpKey EXCEPT ![s] = "running"] ELSE httpKey
               /\ handler' = [handler EXCEPT ![h] = [at |-> "app", send |-> s, quota |-> 0]]
          [] OTHER ->
               /\ handler' = [handler EXCEPT ![h] = [at |-> "answer", send |-> s,
                    answer |-> IF httpKey[s] = "running" THEN "retry" ELSE httpKey[s]]]
               /\ UNCHANGED httpKey
  /\ Rest(h) /\ UNCHANGED <<tries, told, appCache, messages, window>>

(* resolve_app: through the cache, which keeps the quota it read. *)
ResolveApp(h) ==
  /\ handler[h].at = "app"
  /\ LET a == IF appCache = Nothing THEN app ELSE appCache
     IN IF a.active
          THEN /\ appCache' = a
               /\ handler' = [handler EXCEPT ![h].at = "optout", ![h].quota = a.quota]
          ELSE Answered(h, "refused") /\ UNCHANGED appCache
  /\ Rest(h) /\ UNCHANGED <<tries, told, httpKey, messages, window>>

(* A check that lets the request go on or refuses it. *)
Check(h, at, ok, next) ==
  /\ handler[h].at = at
  /\ IF ok THEN Goes(h, next) ELSE Answered(h, "refused")
  /\ Rest(h) /\ UNCHANGED <<tries, told, httpKey, appCache, messages, window>>

ClassOf(h) == send[handler[h].send].class

EnsureNotOptedOut(h) ==
  Check(h, "optout", NeedsConsent(ClassOf(h)) => ~optedOut, "quiet")

EnsureQuietHours(h) ==
  Check(h, "quiet", KeepsQuietHours(ClassOf(h)) => ~night, "consent")

EnsureConsent(h) ==
  Check(h, "consent", NeedsConsent(ClassOf(h)) => consent, "quota")

(* Variant: the quota itself is one more message. *)
EnsureQuotaInclusive(h) ==
  Check(h, "quota", Cardinality(messages) <= handler[h].quota, "insert")

(* ensure_within_quota: the month's messages are counted, and nothing is reserved. *)
EnsureQuota(h) ==
  Check(h, "quota", Cardinality(messages) < handler[h].quota, "insert")

(* The checks of the sender, which read what this model does not change, pass or refuse. *)
SenderRefused(h) ==
  /\ handler[h].at = "insert"
  /\ Answered(h, "refused")
  /\ Rest(h) /\ UNCHANGED <<tries, told, httpKey, appCache, messages, window>>

(* Variant: the clientRef is stored, but not as the idempotency key. *)
DuplicateUnkeyed(s) == FALSE

(* The unique index on the app and the idempotency key, which is the clientRef. *)
Duplicate(s) == send[s].ref /\ \E m \in messages : m.send = s

(* The message is inserted: the request's last step. *)
InsertMessage(h) ==
  /\ handler[h].at = "insert"
  /\ LET s == handler[h].send
     IN IF Duplicate(s)
          THEN Answered(h, "conflict") /\ UNCHANGED <<messages, window>>
          ELSE LET msg == [send |-> s, no |-> Cardinality({m \in messages : m.send = s})]
               IN /\ messages' = messages \cup {msg} /\ window' = window \cup {msg}
                  /\ Answered(h, "ok")
  /\ Rest(h) /\ UNCHANGED <<tries, told, httpKey, appCache>>

(* The layer keeps the answer, of whatever status, under the caller's key. *)
StoreAnswer(h) ==
  /\ handler[h].at = "store"
  /\ LET s == handler[h].send
     IN httpKey' = IF send[s].httpKey THEN [httpKey EXCEPT ![s] = handler[h].answer] ELSE httpKey
  /\ Goes(h, "answer")
  /\ Rest(h) /\ UNCHANGED <<tries, told, appCache, messages, window>>

(* idempotency_ttl is over: the layer forgets the key, answered or left running by a process
   that died.  A request ends well within it, and nobody asks again under the key of a send
   that has its answer. *)
KeyExpires(s) ==
  /\ httpKey[s] # Nothing /\ told[s] = Nothing
  /\ \A h \in Handlers : handler[h] # Free => handler[h].send # s
  /\ httpKey' = [httpKey EXCEPT ![s] = Nothing]
  /\ window' = {m \in window : m.send # s}
  /\ UNCHANGED <<send, tries, told, app, appCache, optedOut, consent, night, handler, messages, changes>>

(* The answer reaches the caller, or is lost; "retry" is no answer. *)
Deliver(h) ==
  /\ handler[h].at = "answer"
  /\ told' = IF handler[h].answer = "retry" THEN told
             ELSE [told EXCEPT ![handler[h].send] = handler[h].answer]
  /\ handler' = [handler EXCEPT ![h] = Free]
  /\ Rest(h) /\ UNCHANGED <<tries, httpKey, appCache, messages, window>>

Lose(h) ==
  /\ handler[h].at = "answer"
  /\ handler' = [handler EXCEPT ![h] = Free]
  /\ Rest(h) /\ UNCHANGED <<tries, told, httpKey, appCache, messages, window>>

(* The process dies in the middle of a request; what is committed stays. *)
CrashHandler(h) ==
  /\ handler[h].at \notin {"free", "answer"}
  /\ handler' = [handler EXCEPT ![h] = Free]
  /\ Rest(h) /\ UNCHANGED <<tries, told, httpKey, appCache, messages, window>>

---------------------------------------------------------------------------
(* What changes under the requests *)

Change == changes < MaxChanges /\ changes' = changes + 1
Elsewhere == UNCHANGED <<send, tries, told, httpKey, handler, messages, window>>

(* An operator edits the app; the cache does not hear of it. *)
EditApp(active, quota) ==
  /\ Change
  /\ app' = [active |-> active, quota |-> quota]
  /\ Elsewhere /\ UNCHANGED <<appCache, optedOut, consent, night>>

(* The entry of the app comes of age. *)
CacheExpires ==
  /\ appCache # Nothing
  /\ appCache' = Nothing
  /\ Elsewhere /\ UNCHANGED <<app, optedOut, consent, night, changes>>

(* recordOptOut: nothing takes an opt-out back. *)
RecordOptOut ==
  /\ Change /\ ~optedOut
  /\ optedOut' = TRUE
  /\ Elsewhere /\ UNCHANGED <<app, appCache, consent, night>>

(* A consent record is written, and may be deleted. *)
EditConsent ==
  /\ Change
  /\ consent' = ~consent
  /\ Elsewhere /\ UNCHANGED <<app, appCache, optedOut, night>>

DuskOrDawn ==
  /\ Change
  /\ night' = ~night
  /\ Elsewhere /\ UNCHANGED <<app, appCache, optedOut, consent>>

---------------------------------------------------------------------------
AInit ==
  /\ send \in [Sends -> Kinds]
  /\ tries = [s \in Sends |-> 0]
  /\ told = [s \in Sends |-> Nothing]
  /\ httpKey = [s \in Sends |-> Nothing]
  /\ app \in [active : {TRUE}, quota : Quotas]
  /\ appCache = Nothing
  /\ optedOut = FALSE /\ consent = TRUE /\ night = FALSE
  /\ handler = [h \in Handlers |-> Free]
  /\ messages = {} /\ window = {}
  /\ changes = 0

(* Every step but the one that inserts a message. *)
AStep ==
  \/ \E h \in Handlers :
       \/ \E s \in Sends : Receive(h, s)
       \/ Reserve(h)
       \/ ResolveApp(h)
       \/ EnsureNotOptedOut(h)
       \/ EnsureQuietHours(h)
       \/ EnsureConsent(h)
       \/ EnsureQuota(h)
       \/ SenderRefused(h)
       \/ StoreAnswer(h)
       \/ Deliver(h)
       \/ Lose(h)
       \/ CrashHandler(h)
  \/ \E active \in BOOLEAN, quota \in Quotas : EditApp(active, quota)
  \/ \E s \in Sends : KeyExpires(s)
  \/ CacheExpires
  \/ RecordOptOut
  \/ EditConsent
  \/ DuskOrDawn

---------------------------------------------------------------------------
(* Properties *)

MaxQuota == CHOOSE q \in Quotas : \A r \in Quotas : r <= q

(* The quota is soft, and how soft is known: the requests handled at once may pass the
   check together, so an app's month holds at most the quota and one message for each of
   them but one (the comment on ensure_within_quota in procedures.rs). *)
QuotaOvershootBounded == Cardinality(messages) <= MaxQuota + Cardinality(Handlers) - 1

(* A send becomes one message at most, however often the caller repeats it after lost
   answers and crashed requests, and whichever requests run at once: for good when it
   carries a clientRef, and once in the life of the key when all it carries is an
   Idempotency-Key (idempotencyKey in send, the layer and its TTL in router.rs). *)
SendOnce ==
  \A s \in Sends :
     /\ send[s].ref => Cardinality({m \in messages : m.send = s}) <= 1
     /\ send[s].httpKey => Cardinality({m \in window : m.send = s}) <= 1

(* A caller that sends an Idempotency-Key is told the truth: accepted means there is a
   message, refused means there is none since the key was last forgotten, although a
   repeated request meets an app, a quota and a consent that have changed since the first
   (the layer's place in router.rs, outside the handler's checks). *)
ToldTheTruth ==
  \A s \in Sends : send[s].httpKey =>
     /\ told[s] = "ok" => \E m \in messages : m.send = s
     /\ told[s] = "refused" => \A m \in window : m.send # s

(* A retried send is sent once and its caller told the truth: SendOnce, by the key, and
   ToldTheTruth, by what the layer outside the handler replays (send in procedures.rs). *)
SentOnceAndToldSo == SendOnce /\ ToldTheTruth
=============================================================================
