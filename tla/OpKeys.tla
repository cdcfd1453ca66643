------------------------------ MODULE OpKeys ------------------------------
(* The signing keys of the OpenID provider: the rotation an operator runs
   (sms-auth op.rs), the keyring a gateway serves from, its periodic refresh, and the
   reload the bearer door forces for a `kid` it does not know (sms-gateway op.rs,
   op_bearer.rs). Keys are numbered in the order their rows are created; 0 is a kid no
   key has. Time is discrete, and does not pass between two statements of one procedure
   that wait for nothing but a healthy database. *)
EXTENDS Integers, FiniteSets

CONSTANTS
  Rotators,      \* the operators that run `rotate-signing-key`
  Servers,       \* the gateway processes
  Doors,         \* the bearer requests in flight in a process
  MaxKeys,       \* a bound on the rows created
  Overlap,       \* op.signing_key.rotation_overlap_secs
  Refresh,       \* op.signing_key.refresh_interval_secs
  TokenTtl,      \* ACCESS_TOKEN_TTL_SECS
  MinReload,     \* MIN_FORCED_RELOAD
  MaxKeyClock    \* a bound on time

SigKeys == 1 .. MaxKeys
(* What the configuration insists on: a key retired by a rotation is published until
   every token it may still sign has expired. *)
ASSUME OverlapAssumption ==
  /\ {Overlap, Refresh, TokenTtl, MinReload} \subseteq Nat \ {0}
  /\ Overlap > Refresh + TokenTtl
  /\ MaxKeys \in Nat \ {0} /\ MaxKeyClock \in Nat /\ "refresh" \notin Doors

VARIABLES
  sigkey,     \* the rows of OauthSigningKey: absent, or whether active and until when published
  rotation,   \* each operator's rotation: where it is, what it created and has to retire
  ring,       \* each process's Keyring: the key that signs, the keys it publishes, the refresh due;
              \* history: when the signing key was read, and whether a refresh was missed since
  loader,     \* each process's loads of the key set: the refresh task's and each door's
  forced,     \* when each process last started a forced reload
  minted,     \* the tokens signed and not expired
  keyClock

kvars == <<sigkey, rotation, ring, loader, forced, minted, keyClock>>

Long == MaxKeyClock + MinReload
Resting == [pc |-> "rest", kid |-> 0, sign |-> 0, keys |-> {}]
NoRotation == [pc |-> "rest", key |-> 0, todo |-> {}]
AbsentKey == [made |-> FALSE, active |-> FALSE, until |-> 0]
ActiveKey == [made |-> TRUE, active |-> TRUE, until |-> 0]

KInit ==
  /\ sigkey = [k \in SigKeys |-> IF k = 1 THEN ActiveKey ELSE AbsentKey]
  /\ rotation = [o \in Rotators |-> NoRotation]
  /\ ring = [s \in Servers |-> [sign |-> 1, keys |-> {1}, due |-> Refresh, asof |-> 0, missed |-> FALSE]]
  /\ loader = [s \in Servers |-> [x \in {"refresh"} \cup Doors |-> Resting]]
  /\ forced = [s \in Servers |-> -Long]
  /\ minted = {}
  /\ keyClock = 0

ActiveKeys == {k \in SigKeys : sigkey[k].made /\ sigkey[k].active}
(* The rows load_signing_keys reads, as of now. *)
PublishedKeys == {k \in SigKeys : sigkey[k].made /\ (sigkey[k].active \/ sigkey[k].until > keyClock)}
NewestFirst(S) == CHOOSE k \in S : \A j \in S : j <= k

(***************************************************************************)
(* rotate_signing_key: the new row first, active as it is made; then the   *)
(* other active rows are read and retired, a statement each.               *)
(***************************************************************************)
CreateKey(o) ==
  /\ rotation[o].pc = "rest"
  /\ \E k \in SigKeys :
       /\ ~ sigkey[k].made /\ \A j \in 1 .. k - 1 : sigkey[j].made
       /\ sigkey' = [sigkey EXCEPT ![k] = ActiveKey]
       /\ rotation' = [rotation EXCEPT ![o] = [NoRotation EXCEPT !.pc = "made", !.key = k]]
  /\ UNCHANGED <<ring, loader, forced, minted, keyClock>>

ReadPrevious(o) ==
  /\ rotation[o].pc = "made"
  /\ rotation' = [rotation EXCEPT ![o].pc = "retire",
                                  ![o].todo = ActiveKeys \ {rotation[o].key}]
  /\ UNCHANGED <<sigkey, ring, loader, forced, minted, keyClock>>

(* Variant: the retired key is no longer published. *)
RetireAtOnce(o) ==
  /\ rotation[o].pc = "retire"
  /\ \E k \in rotation[o].todo :
       /\ sigkey' = [sigkey EXCEPT ![k].active = FALSE, ![k].until = keyClock]
       /\ rotation' = [rotation EXCEPT ![o].todo = @ \ {k}]
  /\ UNCHANGED <<ring, loader, forced, minted, keyClock>>
Retire(o) ==
  /\ rotation[o].pc = "retire"
  /\ \E k \in rotation[o].todo :
       /\ sigkey' = [sigkey EXCEPT ![k].active = FALSE, ![k].until = keyClock + Overlap]
       /\ rotation' = [rotation EXCEPT ![o].todo = @ \ {k}]
  /\ UNCHANGED <<ring, loader, forced, minted, keyClock>>

(* The command ends, or dies with rows still active. *)
EndRotation(o) ==
  /\ rotation[o].pc # "rest"
  /\ rotation' = [rotation EXCEPT ![o] = NoRotation]
  /\ UNCHANGED <<sigkey, ring, loader, forced, minted, keyClock>>

(***************************************************************************)
(* Loading and publishing. Both loaders of a process read the same rows    *)
(* and publish under the keyring's two locks: the key set, then the        *)
(* signing key.                                                            *)
(***************************************************************************)
(* spawn_key_refresh: a tick that comes late does not move the ones after it. *)
RefreshTick(s) ==
  /\ loader[s]["refresh"].pc = "rest"
  /\ ring[s].due <= keyClock
  /\ ring' = [ring EXCEPT ![s].due = @ + Refresh]
  /\ loader' = [loader EXCEPT ![s]["refresh"].pc = "reading"]
  /\ UNCHANGED <<sigkey, rotation, forced, minted, keyClock>>

(* load_signing_keys. *)
LoadSigningKeys(s, x) ==
  /\ loader[s][x].pc = "reading" /\ ActiveKeys # {}
  /\ loader' = [loader EXCEPT ![s][x].pc = "loaded", ![s][x].sign = NewestFirst(ActiveKeys),
                              ![s][x].keys = PublishedKeys]
  /\ UNCHANGED <<sigkey, rotation, ring, forced, minted, keyClock>>

(* A database error, RELOAD_TIMEOUT or no active row: the process goes on with what it has,
   and a forced reload counts all the same. *)
ReloadFails(s, x) ==
  /\ loader[s][x].pc = "reading"
  /\ loader' = [loader EXCEPT ![s][x] = Resting]
  /\ ring' = [ring EXCEPT ![s].missed = @ \/ x = "refresh"]
  /\ UNCHANGED <<sigkey, rotation, forced, minted, keyClock>>

PublishKeySet(s, x) ==
  /\ loader[s][x].pc = "loaded"
  /\ ring' = [ring EXCEPT ![s].keys = loader[s][x].keys]
  /\ loader' = [loader EXCEPT ![s][x].pc = "half"]
  /\ UNCHANGED <<sigkey, rotation, forced, minted, keyClock>>

PublishTokens(s, x) ==
  /\ loader[s][x].pc = "half"
  /\ ring' = [ring EXCEPT ![s].sign = loader[s][x].sign, ![s].asof = keyClock, ![s].missed = FALSE]
  /\ loader' = [loader EXCEPT ![s][x] = Resting]
  /\ UNCHANGED <<sigkey, rotation, forced, minted, keyClock>>

(***************************************************************************)
(* key_for: a kid the process does not know queues on the lock `forced`    *)
(* stands for, looks again, and reloads once per MIN_FORCED_RELOAD.        *)
(***************************************************************************)
UnknownKid(s, d, kid) ==
  /\ loader[s][d].pc = "rest"
  /\ kid \notin ring[s].keys
  /\ kid = 0 \/ \E t \in minted : t.kid = kid
  /\ loader' = [loader EXCEPT ![s][d].pc = "queued", ![s][d].kid = kid]
  /\ UNCHANGED <<sigkey, rotation, ring, forced, minted, keyClock>>

LockFree(s) == \A d \in Doors : loader[s][d].pc \in {"rest", "queued"}
TooSoon(s) == keyClock - forced[s] < MinReload

StartReload(s, d) ==
  /\ forced' = [forced EXCEPT ![s] = keyClock]
  /\ loader' = [loader EXCEPT ![s][d].pc = "reading"]

KeyFor(s, d) ==
  /\ loader[s][d].pc = "queued" /\ LockFree(s)
  /\ IF loader[s][d].kid \in ring[s].keys \/ TooSoon(s)
     THEN loader' = [loader EXCEPT ![s][d] = Resting] /\ UNCHANGED forced
     ELSE StartReload(s, d)
  /\ UNCHANGED <<sigkey, rotation, ring, minted, keyClock>>

(* A token signed now expires before a key that was active when the ring read it can be out
   of the published set. *)
RingFresh(s) == keyClock + TokenTtl <= ring[s].asof + Overlap

(* The provider signs a token with the key the ring holds. *)
Mint(s) ==
  /\ minted' = minted \cup {[kid |-> ring[s].sign, exp |-> keyClock + TokenTtl, fresh |-> RingFresh(s)]}
  /\ minted' # minted
  /\ UNCHANGED <<sigkey, rotation, ring, loader, forced, keyClock>>

(* Time passes when no refresh is due that has not begun and nothing read or computed from
   the clock is waiting to be written; the database may take its time over a read. *)
KTick ==
  /\ keyClock < MaxKeyClock
  /\ \A s \in Servers :
       /\ loader[s]["refresh"].pc = "reading" \/ ring[s].due > keyClock
       /\ \A x \in {"refresh"} \cup Doors : loader[s][x].pc \notin {"loaded", "half"}
  /\ \A o \in Rotators : rotation[o].pc # "retire" \/ rotation[o].todo = {}
  /\ keyClock' = keyClock + 1
  /\ minted' = {t \in minted : t.exp > keyClock'}
  /\ ring' = [s \in Servers |->
                [ring[s] EXCEPT !.missed = @ \/ loader[s]["refresh"].pc = "reading"]]
  /\ UNCHANGED <<sigkey, rotation, loader, forced>>

KNext ==
  \/ \E o \in Rotators : CreateKey(o) \/ ReadPrevious(o) \/ Retire(o) \/ EndRotation(o)
  \/ \E s \in Servers :
       \/ RefreshTick(s) \/ Mint(s)
       \/ \E x \in {"refresh"} \cup Doors :
            LoadSigningKeys(s, x) \/ ReloadFails(s, x) \/ PublishKeySet(s, x) \/ PublishTokens(s, x)
       \/ \E d \in Doors :
            \/ \E kid \in 0 .. MaxKeys : UnknownKid(s, d, kid)
            \/ KeyFor(s, d)
  \/ KTick

KSpec == KInit /\ [][KNext]_kvars

(* The key rows, rotations and rings are well formed. *)
KTypeOK ==
  /\ sigkey \in [SigKeys -> [made : BOOLEAN, active : BOOLEAN, until : 0 .. MaxKeyClock + Overlap]]
  /\ rotation \in [Rotators -> [pc : {"rest", "made", "retire"}, key : 0 .. MaxKeys, todo : SUBSET SigKeys]]
  /\ \A s \in Servers : ring[s].sign \in SigKeys /\ ring[s].keys \subseteq SigKeys
  /\ keyClock \in 0 .. MaxKeyClock

(* A token that has not expired was signed with a key the database still publishes, so
   any process that reads the key set again verifies it, however rotations, refreshes,
   forced reloads and stale publications interleave: for tokens signed with a key that was
   read no longer ago than the overlap less a token's life, which is every token as long as
   no refresh of the process has failed or dragged on since it last read the keys
   (spawn_key_refresh, rotate_signing_key, the check of rotation_overlap_secs). *)
LiveTokensVerify ==
  /\ \A t \in minted : t.fresh => t.kid \in PublishedKeys
  /\ \A s \in Servers : ~ ring[s].missed => RingFresh(s)
==========================================================================
