------------------------------ MODULE Signers ------------------------------
(***************************************************************************)
(* Who may call the gateway: the signing keys of clients and of people,    *)
(* the standing their owner has, and the one minute cache of standings     *)
(* that every request goes through (sms-api: signers.rs, cache.rs,         *)
(* bearer.rs, auth.rs, client_keys.rs, console_keys.rs, pair_scope.rs,     *)
(* owner_grant.rs; the operator's commands of sms-gateway).                *)
(*                                                                         *)
(* The database is shared and current; the cache belongs to one gateway    *)
(* process.  A request looks its caller up in steps, with the awaits of    *)
(* the code between them, and operations that change the registry run      *)
(* while other requests are half way.  Time is counted in ticks.           *)
(***************************************************************************)
EXTENDS Naturals, FiniteSets

CONSTANTS
  Clients,       \* AppClient rows
  Users,         \* User rows
  Persons,       \* ids at the identity service that vouches for people
  ClientKeys,    \* Ed25519 keys
  ConsoleKeys,   \* P-256 keys
  Requests,      \* bound: the requests of a behaviour
  StandingTtl,   \* STANDING_TTL, in ticks
  FetchTime,     \* bound: a row read is in the cache within it
  KeyLife,       \* KEY_LIFETIME_DAYS, in ticks
  UserRoles,     \* role keys a user may have
  ScopeNames,    \* scopes a client may be granted, "pair" standing for console:pair
  MaxEdits,      \* bound: changes of the registry in a behaviour, revocations aside
  None

ASSUME SignersAssumption ==
  /\ StandingTtl \in Nat \ {0} /\ FetchTime \in Nat /\ KeyLife \in Nat \ {0}
  /\ MaxEdits \in Nat /\ UserRoles \subseteq STRING
  /\ Clients \cap Users = {} /\ ClientKeys \cap ConsoleKeys = {}

VARIABLES
  row,      \* owner -> AppClient or User row
  link,     \* person -> the User a federated link names
  oauth,    \* client -> scopes registered with its OAuth client
  key,      \* key -> ClientKey or ConsoleKey row
  cache,    \* owner -> cached standing (the two TtlCaches)
  req,      \* request -> how far it has got
  cli,      \* a pair-console-key command between its two steps
  edits     \* changes of the registry so far

vars == <<row, link, oauth, key, cache, req, cli, edits>>

Owners == Clients \cup Users
Keys == ClientKeys \cup ConsoleKeys
Scopes == SUBSET ScopeNames
Roles == UserRoles \cup {"app", "admin", "owner"}
Row == [live : BOOLEAN, role : Roles, scopes : Scopes]
Standing == [role : Roles, scopes : Scopes]

ASSUME NoneAssumption == None \notin Row \cup Standing

ReservedRoles == {"system", "app"}
DeviceOnlyRoles == {"owner", "admin"}

(* Every age is counted up to the first value past every bound. *)
AgeCap == StandingTtl + FetchTime + 1
Older(n) == IF n < AgeCap THEN n + 1 ELSE n

---------------------------------------------------------------------------
(* What the database says now *)

(* load_app, load_user: the standing of an owner, None for a refusal. *)
Load(o) ==
  IF row[o] = None \/ ~row[o].live THEN None
  ELSE IF o \in Users /\ row[o].role \in ReservedRoles THEN None
  ELSE [role |-> row[o].role, scopes |-> row[o].scopes]

(* The filter of resolve, live_client_key and live_console_key: not revoked and, for a
   console key, not expired. *)
KeyLive(k) ==
  /\ key[k] # None
  /\ ~key[k].revoked
  /\ k \in ConsoleKeys => key[k].left > 0

(* The scopes a machine token carries: effective_scopes. *)
EffectiveScopes(granted, registered) == (granted \cap registered) \ {"pair"}

(* Variant: an entry still counts at the end of its period. *)
CacheHitLate(o) == cache[o] # None /\ cache[o].age <= StandingTtl

(* TtlCache::get: an entry counts from its insertion, never from its last use. *)
CacheHit(o) == cache[o] # None /\ cache[o].age < StandingTtl

---------------------------------------------------------------------------
(* A request and its lookups *)

Idle == [stage |-> "idle"]
Ended == [stage |-> "ended"]

(* resolve: the envelope is verified with a key that is live now.  aim says whether the
   owner-grant guard stands on the request's route, and looks the caller up too (a client's
   request there is refused by the schema's policy, whatever it carries). *)
Verify(q, k, aim) ==
  /\ req[q] = Idle
  /\ KeyLive(k) /\ (aim = "users" => k \in ConsoleKeys)
  /\ req' = [req EXCEPT ![q] =
       [stage |-> "look", door |-> "signed", key |-> k, who |-> key[k].owner, aim |-> aim,
        rounds |-> IF aim = "users" THEN 3 ELSE 2, guard |-> FALSE, val |-> None, old |-> 0,
        spent |-> 0]]
  /\ UNCHANGED <<row, link, oauth, key, cache, cli, edits>>

(* enforce_bearer_door with a verified token, up to live_oauth_client: a machine's client
   must have a live OAuth client; a person comes through the console's public client. *)
Token(q, o) ==
  /\ req[q] = Idle
  /\ row[o] # None /\ (o \in Clients => oauth[o] # None)
  /\ req' = [req EXCEPT ![q] =
       [stage |-> "look", door |-> "token", key |-> None, who |-> o, aim |-> "other",
        rounds |-> 1, guard |-> FALSE, val |-> None, old |-> 0, spent |-> 0]]
  /\ UNCHANGED <<row, link, oauth, key, cache, cli, edits>>

(* What happens once a standing is at hand.  A signed request looks its caller up once
   for the principal of the envelope, once for each guard and once for the handler
   (GatewayAuth::authenticate); a token's standing is kept from its only lookup, after
   refuse_device_only_role and effective_scopes. *)
Granted(r, val, old) ==
  IF r.door = "token" /\ val.role \in DeviceOnlyRoles THEN Ended
  ELSE IF r.rounds > 1
    THEN [r EXCEPT !.stage = "look", !.rounds = @ - 1, !.val = None, !.old = 0, !.spent = 0,
                   !.guard = r.rounds = 2 /\ r.aim = "users" /\ val.role = "owner"]
    ELSE [r EXCEPT !.stage = "served", !.old = old, !.spent = 0,
            !.val = IF r.door = "token" /\ r.who \in Clients
                    THEN [val EXCEPT !.scopes = EffectiveScopes(@, oauth[r.who])] ELSE val]

(* SignerDirectory::standing up to the cache: the key is read again, then the cache. *)
Look(q) ==
  /\ req[q].stage = "look"
  /\ LET r == req[q]
     IN req' = [req EXCEPT ![q] =
          IF r.door = "signed" /\ ~KeyLive(r.key) THEN Ended
          ELSE IF CacheHit(r.who) THEN Granted(r, cache[r.who].val, cache[r.who].old)
          ELSE [r EXCEPT !.stage = "fetch"]]
  /\ UNCHANGED <<row, link, oauth, key, cache, cli, edits>>

(* The fetch of get_or_fetch reads the row; a refusal is not cached. *)
FetchRead(q) ==
  /\ req[q].stage = "fetch"
  /\ LET v == Load(req[q].who)
     IN req' = [req EXCEPT ![q] =
          IF v = None THEN Ended ELSE [req[q] EXCEPT !.stage = "store", !.val = v]]
  /\ UNCHANGED <<row, link, oauth, key, cache, cli, edits>>

(* ... and inserts what it read, dated at the insertion: several requests may fetch at
   once, and the last insertion stands. *)
FetchStore(q) ==
  /\ req[q].stage = "store"
  /\ LET r == req[q]
     IN /\ cache' = [cache EXCEPT ![r.who] = [val |-> r.val, age |-> 0, old |-> r.old]]
        /\ req' = [req EXCEPT ![q] = Granted(r, r.val, r.old)]
  /\ UNCHANGED <<row, link, oauth, key, cli, edits>>

(* The answer is sent; the handler changed nothing of the registry. *)
Answer(q) ==
  /\ req[q].stage = "served"
  /\ req' = [req EXCEPT ![q] = Ended]
  /\ UNCHANGED <<row, link, oauth, key, cache, cli, edits>>

---------------------------------------------------------------------------
(* The operations of a served request on the registry.  The procedures are declared
   serializable, so each is one step. *)

Served(q) == req[q].stage = "served"
Role(q) == req[q].val.role
Admin(q) == Served(q) /\ Role(q) \in {"owner", "admin"}
Edit == edits < MaxEdits /\ edits' = edits + 1
Done(q) == Edit /\ req' = [req EXCEPT ![q] = Ended]

(* PATCH /users/{id}: the schema's update policy on the stored row, and the guard, which
   inspects the body unless the caller it looked up is an owner. *)
PatchUser(q, u, live, role) ==
  /\ Served(q) /\ req[q].aim = "users" /\ row[u] # None
  /\ Role(q) = "owner" \/ (Role(q) = "admin" /\ row[u].role # "owner")
  /\ req[q].guard \/ role = row[u].role \/ role # "owner"
  /\ row' = [row EXCEPT ![u].live = live, ![u].role = role]
  /\ Done(q)
  /\ UNCHANGED <<link, oauth, key, cache, cli>>

(* provisionUser and POST /users *)
ProvisionUser(q, u, role) ==
  /\ Admin(q) /\ row[u] = None
  /\ Role(q) = "owner" \/ role # "owner"
  /\ row' = [row EXCEPT ![u] = [live |-> TRUE, role |-> role, scopes |-> {}]]
  /\ Done(q)
  /\ UNCHANGED <<link, oauth, key, cache, cli>>

(* Variant: PATCH /app_clients is not behind the guard. *)
PatchClientUnguarded(q, c, live, scopes) ==
  /\ Admin(q) /\ row[c] # None
  /\ row' = [row EXCEPT ![c].live = live, ![c].scopes = scopes]
  /\ Done(q)
  /\ UNCHANGED <<link, oauth, key, cache, cli>>

(* PATCH /app_clients/{id} behind the pair-scope guard: a body may leave the scopes out,
   and may not name the pairing scope. *)
PatchClient(q, c, live, scopes) ==
  /\ Admin(q) /\ row[c] # None
  /\ scopes = row[c].scopes \/ "pair" \notin scopes
  /\ row' = [row EXCEPT ![c].live = live, ![c].scopes = scopes]
  /\ Done(q)
  /\ UNCHANGED <<link, oauth, key, cache, cli>>

NewClient(scopes) == [live |-> TRUE, role |-> "app", scopes |-> scopes]
NewClientKey(c, by) == [owner |-> c, revoked |-> FALSE, left |-> KeyLife, by |-> by]
NewConsoleKey(u) == [owner |-> u, revoked |-> FALSE, left |-> KeyLife, by |-> "caller"]

(* provisionAppClient: a client and its first key in one transaction. *)
ProvisionAppClient(q, c, k, scopes) ==
  /\ Admin(q) /\ row[c] = None /\ key[k] = None
  /\ "pair" \notin scopes
  /\ row' = [row EXCEPT ![c] = NewClient(scopes)]
  /\ key' = [key EXCEPT ![k] = NewClientKey(c, "caller")]
  /\ Done(q)
  /\ UNCHANGED <<link, oauth, cache, cli>>

(* client_keys::register.  A key that is there already changes nothing: its own live
   registration is answered again, any other is a conflict (same_registration). *)
RegisterClientKey(c, k, by) ==
  /\ row[c] # None /\ row[c].live
  /\ by = "caller" => "pair" \notin row[c].scopes
  /\ key' = IF key[k] = None THEN [key EXCEPT ![k] = NewClientKey(c, by)] ELSE key

RegisterAppClientKey(q, c, k) ==
  /\ Admin(q)
  /\ RegisterClientKey(c, k, "caller")
  /\ Done(q)
  /\ UNCHANGED <<row, link, oauth, cache, cli>>

(* client_keys::revoke and console_keys::revoke.  A console key is revoked by an owner, an
   admin or the person it belongs to (the schema's detail policy). *)
Revoke(q, k) ==
  /\ Served(q) /\ key[k] # None
  /\ \/ Admin(q)
     \/ k \in ConsoleKeys /\ req[q].who \in Users /\ key[k].owner = req[q].who
  /\ key' = [key EXCEPT ![k].revoked = TRUE]
  /\ req' = [req EXCEPT ![q] = Ended]
  /\ UNCHANGED <<row, link, oauth, cache, cli, edits>>

(* registerConsoleKey with a good proof of possession, by a client that holds the pairing
   scope.  A person seen for the first time becomes a user with PAIRED_ROLE. *)
RegisterConsoleKey(q, p, k, u) ==
  /\ Served(q) /\ Role(q) = "app" /\ "pair" \in req[q].val.scopes
  /\ key[k] = None
  /\ IF link[p] = None
       THEN /\ row[u] = None
            /\ row' = [row EXCEPT ![u] = [live |-> TRUE, role |-> "admin", scopes |-> {}]]
            /\ link' = [link EXCEPT ![p] = u]
       ELSE /\ u = link[p] /\ row[u].live /\ row[u].role # "owner"
            /\ UNCHANGED <<row, link>>
  /\ key' = [key EXCEPT ![k] = NewConsoleKey(u)]
  /\ Done(q)
  /\ UNCHANGED <<oauth, cache, cli>>

---------------------------------------------------------------------------
(* The operator's commands, which hold the database *)

(* register-client creates the client when there is none, with any scope ... *)
CliCreateClient(c, scopes) ==
  /\ row[c] = None
  /\ row' = [row EXCEPT ![c] = NewClient(scopes)]
  /\ Edit
  /\ UNCHANGED <<link, oauth, key, cache, req, cli>>

(* ... and then registers the key, as the operator, on a client new or old. *)
CliRegisterKey(c, k) ==
  /\ RegisterClientKey(c, k, "operator")
  /\ key' # key
  /\ Edit
  /\ UNCHANGED <<row, link, oauth, cache, req, cli>>

(* pair-console-key reads the user, and later registers the key (pair_existing_user). *)
CliPairRead(u, k) ==
  /\ cli = None
  /\ row[u] # None /\ row[u].live
  /\ cli' = [user |-> u, key |-> k]
  /\ Edit
  /\ UNCHANGED <<row, link, oauth, key, cache, req>>

CliPairWrite ==
  /\ cli # None
  /\ key' = IF key[cli.key] = None THEN [key EXCEPT ![cli.key] = NewConsoleKey(cli.user)] ELSE key
  /\ cli' = None
  /\ UNCHANGED <<row, link, oauth, cache, req, edits>>

(* provision-user *)
CliProvisionUser(u, role) ==
  /\ row[u] = None
  /\ row' = [row EXCEPT ![u] = [live |-> TRUE, role |-> role, scopes |-> {}]]
  /\ Edit
  /\ UNCHANGED <<link, oauth, key, cache, req, cli>>

(* provision-client: an AppClient and its OAuth client, without the pairing scope. *)
CliProvisionTokenClient(c, scopes) ==
  /\ row[c] = None /\ "pair" \notin scopes
  /\ row' = [row EXCEPT ![c] = NewClient(scopes)]
  /\ oauth' = [oauth EXCEPT ![c] = scopes]
  /\ Edit
  /\ UNCHANGED <<link, key, cache, req, cli>>

---------------------------------------------------------------------------
(* Time passes.  A value that is not what the database says grows older. *)
Stale(o, v, old) == IF v = Load(o) THEN 0 ELSE Older(old)

Tick ==
  /\ \A q \in Requests : req[q].stage = "store" => req[q].spent < FetchTime
  /\ key' = [k \in Keys |->
       IF k \in ConsoleKeys /\ key[k] # None /\ key[k].left > 0
       THEN [key[k] EXCEPT !.left = @ - 1] ELSE key[k]]
  /\ cache' = [o \in Owners |->
       IF cache[o] = None \/ cache[o].age = StandingTtl THEN None
       ELSE [cache[o] EXCEPT !.age = @ + 1, !.old = Stale(o, cache[o].val, @)]]
  /\ req' = [q \in Requests |->
       LET r == req[q]
       IN IF r.stage = "store"
          THEN [r EXCEPT !.spent = @ + 1, !.old = Stale(r.who, r.val, @)] ELSE r]
  /\ UNCHANGED <<row, link, oauth, cli, edits>>

---------------------------------------------------------------------------
(* An owner has a paired console; clients may have keys, registered by the operator
   or, for a client without the pairing scope, by a caller. *)
Init ==
  /\ \E u \in Users, ku \in ConsoleKeys, C \in SUBSET Clients, scopes \in Scopes,
        by \in {"caller", "operator"}, kc \in [ClientKeys -> Clients \cup {None}] :
       /\ \A k \in ClientKeys : kc[k] \in C \cup {None}
       /\ by = "caller" => "pair" \notin scopes
       /\ row = [o \in Owners |->
                  CASE o = u -> [live |-> TRUE, role |-> "owner", scopes |-> {}]
                    [] o \in C -> NewClient(scopes)
                    [] OTHER -> None]
       /\ key = [k \in Keys |->
                  CASE k = ku -> NewConsoleKey(u)
                    [] k \in ClientKeys /\ kc[k] # None -> NewClientKey(kc[k], by)
                    [] OTHER -> None]
  /\ link = [p \in Persons |-> None]
  /\ oauth = [c \in Clients |-> None]
  /\ cache = [o \in Owners |-> None]
  /\ req = [q \in Requests |-> Idle]
  /\ cli = None
  /\ edits = 0

Lookup(q) ==
  \/ \E k \in Keys, aim \in {"users", "other"} : Verify(q, k, aim)
  \/ \E o \in Owners : Token(q, o)
  \/ Look(q)
  \/ FetchRead(q)
  \/ FetchStore(q)
  \/ Answer(q)

Operate(q) ==
  \/ \E u \in Users, live \in BOOLEAN, role \in UserRoles : PatchUser(q, u, live, role)
  \/ \E u \in Users, role \in UserRoles : ProvisionUser(q, u, role)
  \/ \E c \in Clients, live \in BOOLEAN, scopes \in Scopes : PatchClient(q, c, live, scopes)
  \/ \E c \in Clients, k \in ClientKeys, scopes \in Scopes : ProvisionAppClient(q, c, k, scopes)
  \/ \E c \in Clients, k \in ClientKeys : RegisterAppClientKey(q, c, k)
  \/ \E k \in Keys : Revoke(q, k)
  \/ \E p \in Persons, k \in ConsoleKeys, u \in Users : RegisterConsoleKey(q, p, k, u)

Command ==
  \/ \E c \in Clients, scopes \in Scopes : CliCreateClient(c, scopes)
  \/ \E c \in Clients, k \in ClientKeys : CliRegisterKey(c, k)
  \/ \E u \in Users, k \in ConsoleKeys : CliPairRead(u, k)
  \/ CliPairWrite
  \/ \E u \in Users, role \in UserRoles : CliProvisionUser(u, role)
  \/ \E c \in Clients, scopes \in Scopes : CliProvisionTokenClient(c, scopes)

Next == (\E q \in Requests : Lookup(q) \/ Operate(q)) \/ Command \/ Tick

Spec == Init /\ [][Next]_vars

---------------------------------------------------------------------------
(* Properties *)

Request ==
  [stage : {"look", "fetch", "store", "served"}, door : {"signed", "token"},
   key : Keys \cup {None}, who : Owners, aim : {"users", "other"}, rounds : 1..3,
   guard : BOOLEAN, val : Standing \cup {None}, old : 0..AgeCap, spent : 0..FetchTime]

TypeOK ==
  /\ row \in [Owners -> Row \cup {None}]
  /\ link \in [Persons -> Users \cup {None}]
  /\ oauth \in [Clients -> Scopes \cup {None}]
  /\ key \in [Keys -> [owner : Owners, revoked : BOOLEAN, left : 0..KeyLife,
                       by : {"caller", "operator"}] \cup {None}]
  /\ cache \in [Owners -> [val : Standing, age : 0..StandingTtl, old : 0..AgeCap] \cup {None}]
  /\ req \in [Requests -> {Idle, Ended} \cup Request]
  /\ cli \in [user : Users, key : ConsoleKeys] \cup {None}
  /\ edits \in 0..MaxEdits

(* A deactivated, demoted or retired caller acts on its former standing for no longer than
   the cache's period and the lookup that filled it, however many requests hit the cache
   and refill it at the same time (STANDING_TTL in signers.rs, get_or_fetch in cache.rs);
   and a bearer token never acts as an owner or an admin and never pairs a console, although
   its standing comes from the cache that signed requests fill (refuse_device_only_role). *)
StandingFresh ==
  \A q \in Requests : req[q].stage = "served" =>
     /\ req[q].old < StandingTtl + FetchTime
     /\ req[q].door = "token" =>
          req[q].val.role \notin DeviceOnlyRoles /\ "pair" \notin req[q].val.scopes

(* Only the operator's keys may pair consoles: a client that holds the pairing scope has no
   key an API caller registered, although scopes and keys are changed by different
   operations in any order (pair_scope.rs and Registrant in client_keys.rs). *)
PairingKeysAreOperators ==
  \A k \in ClientKeys :
     key[k] # None /\ row[key[k].owner] # None /\ "pair" \in row[key[k].owner].scopes
       => key[k].by = "operator"
=============================================================================
