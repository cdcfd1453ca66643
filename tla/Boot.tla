-------------------------------- MODULE Boot --------------------------------
(* A deployment's document (config/application*.yml), the processes that load it and what
   they open. sms-config refuses a document by rules of its own, which differ by binary;
   serve then asks for rows that only commands create, and each command reads the same
   document to see whether it may run. Between them they must neither refuse each other
   for ever nor announce what is not served. A document is a record of the blocks that are
   written, and of the flaws the loader looks for. *)
EXTENDS Naturals, Sequences, FiniteSets
CONSTANTS Documents,      \* the documents an operator may write
          Environments,   \* what the environment of the gateway, and of the others, sets
          GeneratedIds,   \* ids of clients that provision-client makes up (appc_<uuid>)
          MaxDocEdits

VARIABLES
  written,    \* the document on disk
  environ,    \* an element of Environments
  docEdits,
  rows,       \* the rows serve asks for: providers, signing key, clients by their id, roles
  gateway,    \* sms-gateway serve: how far it is, the document it loaded, why it stopped
  command     \* another process that has loaded the document, and the console client it read:
              \* its id, and its list of redirect URIs
btvars == <<written, environ, docEdits, rows, gateway, command>>

(* ---- auth.methods ---- *)
AuthMethods == {"keypair", "machine_tokens", "hmac_webhooks", "human_login"}
Permits(d, m) == IF d.explicit THEN m \in d.listed ELSE m \in AuthMethods
MachineTokensServed(d) == Permits(d, "machine_tokens") /\ d.op
HumanLoginServed(d) == Permits(d, "human_login") /\ d.human /\ d.op
OpServed(d) == MachineTokensServed(d) \/ HumanLoginServed(d)
SsoServed(d) == d.sso /\ HumanLoginServed(d)

(* A person's sign-in does not authenticate a caller of the API. *)
CanAuthenticate(d) == Permits(d, "keypair") \/ Permits(d, "machine_tokens")

(* A check's verdict, and the verdict of a list of checks: the first that is an error. *)
Unless(ok, error) == IF ok THEN "accepted" ELSE error
FirstOf(verdicts) ==
  LET bad == {i \in DOMAIN verdicts : verdicts[i] # "accepted"} IN
  IF bad = {} THEN "accepted" ELSE verdicts[CHOOSE i \in bad : \A j \in bad : i <= j]

(* resolve: an absent list permits all four, an empty one (or a null) is an error. *)
Resolve(d) == FirstOf(<<Unless(d.explicit => d.listed # {}, "NoAuthMethods"),
                        Unless(d.explicit => CanAuthenticate(d), "NoWayIn")>>)
(* with_blocks: a block needs its method, and a method that is named needs its block. *)
WithBlocks(d) ==
  LET tokens == Permits(d, "machine_tokens")
      human == Permits(d, "human_login") IN
  FirstOf(<<Unless(d.human => human, "AuthMethodDisabled"),
            Unless(d.op => tokens \/ human, "AuthMethodDisabled"),
            Unless(tokens /\ d.explicit => d.op, "AuthMethodNotConfigured"),
            Unless(human /\ d.explicit => d.human, "AuthMethodNotConfigured"),
            Unless(d.human => d.op, "AuthMethodNotConfigured")>>)

(* ---- the loader ---- *)
ReadsSecurity(b) == b = "Gateway"
ReadsSso(b) == b = "Gateway"

(* The variables the old flags were bound to. Some of them are still where a secret comes
   from: those the document names. *)
RetiredVars == {"SMS_HASH_PEPPER", "SMS_SSO_CLIENT_SECRET", "ORANGE_CM_CLIENT_SECRET", "SMS_RATE_LIMIT_BURST"}

(* A document's switches are switches. The other containers have the gateway's environment but
   for the two secrets only the gateway reads, as the runbook has it; nothing else is set in
   them that the gateway does not have. *)
GatewayOnly == {"SMS_HASH_PEPPER", "SMS_SSO_CLIENT_SECRET"}
ASSUME BootAssumption ==
  /\ MaxDocEdits \in Nat
  /\ \A d \in Documents : {d.explicit, d.op, d.human, d.sso, d.live} \subseteq BOOLEAN
  /\ \A e \in Environments : /\ e.others \cap RetiredVars \subseteq e.gateway
                              /\ e.gateway \ GatewayOnly \subseteq e.others

(* The variables the document, as written, reads. *)
Referenced(d) == (IF "literal pepper" \in d.flaws THEN {} ELSE {"SMS_HASH_PEPPER"})
                   \cup (IF d.sso THEN {"SMS_SSO_CLIENT_SECRET"} ELSE {})
                   \cup (IF "orange_cm" \in d.providers THEN {"ORANGE_CM_CLIENT_SECRET"} ELSE {})
(* What is left to resolve once the blocks this binary does not read are dropped. *)
ReadBy(b, d) == Referenced(d) \ ((IF ReadsSecurity(b) THEN {} ELSE {"SMS_HASH_PEPPER"})
                                   \cup (IF ReadsSso(b) THEN {} ELSE {"SMS_SSO_CLIENT_SECRET"}))
(* A retired variable is refused unless the document, as written, reads it. *)
CheckEnv(b, vars, d) == (vars \cap RetiredVars) \subseteq Referenced(d)
RequireTextSecrets(d) == "numeric secret" \notin d.flaws
LiteralSecrets(d) == {"literal pepper", "literal secret"} \cap d.flaws

(* An entry of providers: is complete or refused; aws_sms has a half that sends and a half
   that receives, and may have either alone. *)
ValidProviders(d) == {"missing setting", "provider twice"} \cap d.flaws = {}
Receivers(d) == ({"orange_cm", "mtn_cm"} \cap d.providers)
                  \cup (IF "aws_events" \in d.providers THEN {"aws_sms"} ELSE {})
Senders(d) == ({"orange_cm", "mtn_cm"} \cap d.providers)
                \cup (IF "aws_sends" \in d.providers THEN {"aws_sms"} ELSE {})

(* Under livemode every URL is https to a host that is no stub, and no fake signs receipts. *)
CheckUrls(d) == d.live => "stub host" \notin d.flaws
CheckFakeCerts(d) == d.live => "fake certificates" \notin d.flaws
ValidateOp(d) == d.op => {"overlap too short", "issuer ends in a slash"} \cap d.flaws = {}
ValidateHumanLogin(d) == d.human => {"no redirect uri", "client id too short"} \cap d.flaws = {}
ValidateSso(d) == d.sso => {"no openid scope", "no factor rule", "jit role refused"} \cap d.flaws = {}
ValidateLimits(d) == {"empty bucket", "pool of zero"} \cap d.flaws = {}

(* Config::load: the text as written is judged first, then the blocks this binary does not
   read go, then what is left is resolved and validated. *)
Load(b, vars, d) ==
  FirstOf(<<Unless(CheckEnv(b, vars, d), "RetiredEnv"),
            Unless(RequireTextSecrets(d), "InvalidValue"),
            Unless(ReadBy(b, d) \subseteq vars, "UnresolvedPlaceholder"),
            Resolve(d),
            WithBlocks(d),
            Unless(CheckUrls(d), "StubHostInLivemode"),
            Unless(d.live => LiteralSecrets(d) = {}, "LiteralSecret"),
            Unless(ValidateLimits(d), "InvalidValue"),
            Unless(ValidProviders(d), "MissingProviderSetting"),
            Unless(CheckFakeCerts(d), "FakeSnsCertBaseInLivemode"),
            Unless(ValidateOp(d), "InvalidValue"),
            Unless(ValidateHumanLogin(d), "InvalidValue"),
            Unless(ReadsSso(b) => ValidateSso(d), "InvalidValue")>>)

(* ---- what serve opens ---- *)
Grants(d) == (IF MachineTokensServed(d) THEN {"client_credentials"} ELSE {})
               \cup (IF HumanLoginServed(d) THEN {"authorization_code"} ELSE {})
Realms(d) == (IF MachineTokensServed(d) THEN {"machine"} ELSE {})
               \cup (IF HumanLoginServed(d) THEN {"person"} ELSE {})
(* doors: a person's token is not a way in on its own. *)
Doors(d) == Permits(d, "keypair") \/ MachineTokensServed(d)
(* GET /.well-known/vsms-auth. *)
Discovery(d) == {m \in AuthMethods : /\ Permits(d, m)
                                     /\ m = "machine_tokens" => MachineTokensServed(d)
                                     /\ m = "human_login" => HumanLoginServed(d)}

(* ---- the clients' rows: none, a console's with its redirect URIs, a service's ---- *)
Unregistered == [kind |-> "none", uris |-> 0]
ConsoleRow(uris) == [kind |-> "console", uris |-> uris]
MachineRow == [kind |-> "machine", uris |-> 0]
RowIds == {d.id : d \in Documents} \cup GeneratedIds
(* Nobody can name an id that provision-client has yet to make up. *)
CanBeWritten(d, clients) == d.id \in GeneratedIds => clients[d.id].kind # "none"

NoCommand == [who |-> "none", id |-> "none", client |-> 0]
BtInit ==
  /\ written \in {d \in Documents : d.id \notin GeneratedIds} /\ environ \in Environments /\ docEdits = 0
  /\ \E r \in BOOLEAN : rows = [providers |-> {}, key |-> FALSE, clients |-> [i \in RowIds |-> Unregistered],
                                role |-> r]
  /\ gateway = [at |-> "down", doc |-> written, why |-> "none"]
  /\ command = NoCommand

Stop(why) == gateway' = [gateway EXCEPT !.at = "failed", !.why = why]
GoTo(at) == gateway' = [gateway EXCEPT !.at = at]
At(at) == gateway.at = at /\ UNCHANGED <<written, environ, docEdits, rows, command>>

(* serve reads the document before anything else: then the pepper's length, and the two
   key files, which must differ. *)
LoadDocument ==
  /\ At("down")
  /\ LET verdict == FirstOf(<<Load("Gateway", environ.gateway, written),
                              Unless("short pepper" \notin written.flaws, "HashPepper"),
                              Unless(environ.keyFiles, "ServerKeys")>>) IN
     gateway' = [at |-> IF verdict = "accepted" THEN "loaded" ELSE "failed", doc |-> written, why |-> verdict]

(* build_dlr_router: a release build trusts no fake, some provider must be able to call
   back, and each that may has its row. *)
ResolveProviders ==
  /\ At("loaded")
  /\ LET d == gateway.doc IN
     \/ {"aws_sends", "aws_events"} \cap d.providers # {} /\ "fake certificates" \in d.flaws /\ Stop("fake")
     \/ /\ {"aws_sends", "aws_events"} \cap d.providers = {} \/ "fake certificates" \notin d.flaws
        /\ \/ ~(Receivers(d) \subseteq rows.providers) /\ Stop("provider row")
           \/ Receivers(d) = {} /\ Stop("no provider")
           \/ Receivers(d) # {} /\ Receivers(d) \subseteq rows.providers /\ GoTo("providers")

(* build_op_router: nothing is mounted unless a method rides the provider, and then a key
   must be active. *)
LoadSigningKeys ==
  /\ At("providers")
  /\ \/ ~OpServed(gateway.doc) /\ GoTo("doors")
     \/ OpServed(gateway.doc) /\ ~rows.key /\ Stop("signing key")
     \/ OpServed(gateway.doc) /\ rows.key /\ GoTo("keys")

(* check_console_client: the row must be the one the document describes. Of a missing or a
   different one serve says which command to run; of a service's it names none. *)
CheckConsoleClient ==
  /\ At("keys")
  /\ LET d == gateway.doc
         row == rows.clients[d.id] IN
     \/ ~HumanLoginServed(d) /\ GoTo("client")
     \/ HumanLoginServed(d) /\ row = ConsoleRow(d.client) /\ GoTo("client")
     \/ HumanLoginServed(d) /\ row.kind = "none" /\ Stop("client missing")
     \/ HumanLoginServed(d) /\ row.kind = "console" /\ row.uris # d.client /\ Stop("client mismatched")
     \/ HumanLoginServed(d) /\ row.kind = "machine" /\ Stop("machine client")

(* build_sso: the role of a first sign-in must exist; the identity provider is not asked. *)
BuildSso ==
  /\ At("client")
  /\ \/ SsoServed(gateway.doc) /\ ~rows.role /\ Stop("jit role")
     \/ (SsoServed(gateway.doc) => rows.role) /\ GoTo("doors")

OpenDoors ==
  /\ At("doors")
  /\ \/ ~Doors(gateway.doc) /\ Stop("no door")
     \/ Doors(gateway.doc) /\ GoTo("serving")

(* The database or an address is not to be had; the process is started again. *)
BootFails == gateway.at \notin {"down", "failed", "serving"} /\ At(gateway.at) /\ Stop("fault")
StartAgain == gateway.at \in {"failed", "serving"} /\ At(gateway.at) /\ GoTo("down")

(* ---- the processes that load the document beside it ---- *)
(* Why a process that is not the gateway does not get beyond the document. A deployment that
   does not serve the method is told so before the database is touched. *)
Refusal(who, vars, d) ==
  LET binary == CASE who = "worker" -> "Worker"
                  [] who = "mtn-subscribe-dlr" -> "ProviderTool"
                  [] OTHER -> "Operator" IN
  FirstOf(<<Load(binary, vars, d),
            Unless(who = "worker" => Senders(d) # {}, "no sender"),
            Unless(who = "mtn-subscribe-dlr" => "mtn_cm" \in d.providers, "no mtn_cm"),
            Unless(who = "rotate-signing-key" => OpServed(d), "auth_method_disabled"),
            Unless(who = "provision-client" => MachineTokensServed(d), "auth_method_disabled"),
            Unless(who = "seed-console-client" => HumanLoginServed(d), "auth_method_disabled"),
            Unless(who = "register-client" => Permits(d, "keypair"), "auth_method_disabled")>>)
Commands == {"worker", "mtn-subscribe-dlr", "rotate-signing-key", "provision-client", "seed-console-client",
             "register-client"}

CommandLoads(who) ==
  /\ command = NoCommand
  /\ Refusal(who, environ.others, written) = "accepted"
  /\ command' = [who |-> who, id |-> written.id, client |-> written.client]
  /\ UNCHANGED <<written, environ, docEdits, rows, gateway>>

(* It writes its rows, under the document it has loaded, and ends. *)
CommandWrites(who, new) ==
  /\ command.who = who /\ rows' = new /\ command' = NoCommand
  /\ UNCHANGED <<written, environ, docEdits, gateway>>
ActivateKey == CommandWrites("rotate-signing-key", [rows EXCEPT !.key = TRUE])
(* Variant: whatever row has the id is brought into line. *)
ReconcileAnyRow == CommandWrites("seed-console-client",
                                 [rows EXCEPT !.clients[command.id] = ConsoleRow(command.client)])
(* seed_console_client: created, or brought into line; a service's row is refused. *)
ReconcileClient ==
  /\ command.who = "seed-console-client"
  /\ rows.clients[command.id].kind # "machine"
  /\ CommandWrites("seed-console-client", [rows EXCEPT !.clients[command.id] = ConsoleRow(command.client)])
(* provision_token_client: a service, under an id that nobody has. *)
ProvisionService(i) ==
  /\ i \in GeneratedIds /\ rows.clients[i].kind = "none"
  /\ CommandWrites("provision-client", [rows EXCEPT !.clients[i] = MachineRow])
(* It fails, is refused, or writes nothing that serve asks for. *)
CommandEnds == command # NoCommand /\ CommandWrites(command.who, rows)

(* seed-dispatch reads no document. *)
SeedDispatch(p) ==
  /\ rows' = [rows EXCEPT !.providers = @ \cup {p}]
  /\ UNCHANGED <<written, environ, docEdits, gateway, command>>

(* An owner makes the role through a gateway that serves. *)
CreateRole ==
  /\ gateway.at = "serving" /\ Permits(gateway.doc, "keypair")
  /\ rows' = [rows EXCEPT !.role = TRUE]
  /\ UNCHANGED <<written, environ, docEdits, gateway, command>>

(* An operator changes one key of the document; a process that runs keeps what it loaded. *)
EditDocument(d) ==
  /\ docEdits < MaxDocEdits /\ CanBeWritten(d, rows.clients)
  /\ Cardinality({f \in DOMAIN d : d[f] # written[f]}) = 1
  /\ written' = d /\ docEdits' = docEdits + 1
  /\ UNCHANGED <<environ, rows, gateway, command>>

BtNext ==
  \/ LoadDocument \/ ResolveProviders \/ LoadSigningKeys \/ CheckConsoleClient \/ BuildSso \/ OpenDoors
  \/ BootFails \/ StartAgain \/ ActivateKey \/ ReconcileClient \/ CommandEnds \/ CreateRole
  \/ \E i \in GeneratedIds : ProvisionService(i)
  \/ \E who \in Commands : CommandLoads(who)
  \/ \E p \in Receivers(written) \cup Senders(written) : SeedDispatch(p)
  \/ \E d \in Documents : EditDocument(d)

(* A gateway that serves has a way in for the applications; a method it announces that rides
   the provider has a key to sign with, and the sign-in of people the row of a console, never
   a service's, with the URIs of its document unless that was changed since. The guard of
   doors, which backs up the loader's NoWayIn, is never what stops it (serve.rs, doors). *)
AnnouncedIsServed ==
  /\ gateway.why # "no door"
  /\ gateway.at = "serving" =>
       LET d == gateway.doc IN
       /\ Permits(d, "keypair") \/ "machine" \in Realms(d)
       /\ Discovery(d) \cap {"machine_tokens", "human_login"} # {} => Grants(d) # {} /\ rows.key
       /\ "human_login" \in Discovery(d) =>
            /\ rows.clients[d.id].kind = "console"
            /\ docEdits = 0 => rows.clients[d.id].uris = d.client

(* Once serve has accepted a document, what stops it can be mended under the same document
   by the command its error names, run as the runbook says from a container without the
   pepper and the identity provider's secret: the loader accepts the document there, no gate
   refuses the command, and it does not find a service's row. The one stop that names no
   command, on a service's row, is one that no command mends
   (rotate_signing_key.rs, seed_console_client.rs, gate.rs, console_client.rs). *)
StoppedServeCanBeMended ==
  gateway.at = "failed" =>
    LET row == rows.clients[gateway.doc.id] IN
    /\ gateway.why = "signing key" => Refusal("rotate-signing-key", environ.others, gateway.doc) = "accepted"
    /\ gateway.why \in {"client missing", "client mismatched"} =>
         /\ Refusal("seed-console-client", environ.others, gateway.doc) = "accepted"
         /\ row.kind # "machine"
    /\ gateway.why = "machine client" => row.kind = "machine"
    /\ gateway.why = "provider row" => Load("Operator", environ.others, gateway.doc) = "accepted"

(* No command turns a service's row into the console's, although a document may name its id:
   the service would be cut off (console_client.rs: "refusing to take it over"). *)
ServicesKeepTheirRows == \A i \in GeneratedIds : rows.clients[i].kind # "console"

(* A gateway either serves what it announces (AnnouncedIsServed) or stops in a way the
   operator can mend (StoppedServeCanBeMended), whatever document it is started with; and
   mending it costs no service its row (ServicesKeepTheirRows). *)
BootHolds == AnnouncedIsServed /\ StoppedServeCanBeMended /\ ServicesKeepTheirRows
=============================================================================
