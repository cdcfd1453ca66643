---------------------------- MODULE MCGateway ----------------------------
(* Parts of the gateway, its workers and its deployment that share no row: what a caller may
   look up (Lookup), the trail of what was done (Audit), the password form (Login), what
   webhooks are signed with (HookSecrets), the identity provider's keys (IdpKeys), the
   receipts SNS delivers (Callbacks), and the commands around them: migrations (Migrate),
   backups (Backups) and what may start at all under a document (Boot). Each is explored
   with the others at rest. *)
EXTENDS Lookup, Audit, Login, HookSecrets, IdpKeys, Callbacks, Migrate, Backups, Boot, TLC
CONSTANTS t1, t2, t3, r1, w1, e1, E1, e2
VARIABLE part

MCKeyOf == (e1 :> e1) @@ (E1 :> e1) @@ (e2 :> e2)
MCLookupKinds == {[asker |-> "person", key |-> "client_ref"]}
                   \cup [asker : {"app"}, key : {"client_ref", "msisdn"}]

(* What SNS sends, and then the same with one thing or another wrong. *)
Receipt == [kind |-> "Notification", ourTopic |-> TRUE, version2 |-> TRUE, wellFormed |-> TRUE,
            snsUrl |-> TRUE, isEvent |-> TRUE, updates |-> 1, signed |-> TRUE, cert |-> e1]
MCEnvelopes ==
  {Receipt, [Receipt EXCEPT !.cert = e2], [Receipt EXCEPT !.isEvent = FALSE], [Receipt EXCEPT !.updates = 0],
   [Receipt EXCEPT !.kind = "SubscriptionConfirmation"], [Receipt EXCEPT !.kind = "UnsubscribeConfirmation"],
   [Receipt EXCEPT !.kind = "SubscriptionConfirmation", !.snsUrl = FALSE],
   [Receipt EXCEPT !.ourTopic = FALSE], [Receipt EXCEPT !.version2 = FALSE], [Receipt EXCEPT !.kind = "other"],
   [Receipt EXCEPT !.signed = FALSE], [Receipt EXCEPT !.cert = E1, !.signed = FALSE]}

(* Every list of methods with every choice of blocks; then what differs by provider, and one
   flaw at a time. *)
Plain == [explicit |-> FALSE, listed |-> {}, op |-> FALSE, human |-> FALSE, sso |-> FALSE, id |-> "console", client |-> 1,
          providers |-> {"orange_cm"}, live |-> TRUE, flaws |-> {}]
Whole == [Plain EXCEPT !.op = TRUE, !.human = TRUE, !.sso = TRUE]
Lists == {{}, {"keypair"}, {"machine_tokens"}, {"human_login"}, {"keypair", "machine_tokens"},
          {"keypair", "human_login"}, {"machine_tokens", "human_login"}, {"keypair", "hmac_webhooks"}}
Blocks == {[Plain EXCEPT !.op = o, !.human = h, !.sso = h /\ s] : o, h, s \in BOOLEAN}
Flawed(d, flaws) == {[d EXCEPT !.flaws = {f}, !.live = l] : f \in flaws, l \in BOOLEAN}
MCDocuments ==
  Blocks \cup {[b EXCEPT !.explicit = TRUE, !.listed = l] : b \in Blocks, l \in Lists}
    \cup {[Whole EXCEPT !.client = 2], [Whole EXCEPT !.sso = FALSE, !.client = 2], [Whole EXCEPT !.id = "appc"]}
    \cup {[Plain EXCEPT !.providers = p] : p \in {{}, {"aws_sends"}, {"aws_events"}, {"mtn_cm", "aws_sends", "aws_events"}}}
    \cup Flawed(Plain, {"literal pepper", "literal secret", "numeric secret", "stub host", "missing setting", "short pepper"})
    \cup Flawed(Whole, {"overlap too short", "no redirect uri", "jit role refused", "empty bucket"})
    \cup Flawed([Plain EXCEPT !.providers = {"aws_events"}], {"fake certificates"})
Secrets == {"SMS_HASH_PEPPER", "SMS_SSO_CLIENT_SECRET", "ORANGE_CM_CLIENT_SECRET"}
MCEnvironments ==
  LET E(g, o, k) == [gateway |-> g, others |-> o, keyFiles |-> k] IN
  {E(Secrets, {"ORANGE_CM_CLIENT_SECRET"}, TRUE), E(Secrets, Secrets, TRUE), E({"SMS_HASH_PEPPER"}, {}, TRUE),
   E(Secrets \ {"SMS_SSO_CLIENT_SECRET"}, {"ORANGE_CM_CLIENT_SECRET"}, TRUE),
   E(Secrets \cup {"SMS_RATE_LIMIT_BURST"}, {"ORANGE_CM_CLIENT_SECRET", "SMS_RATE_LIMIT_BURST"}, TRUE),
   E(Secrets, {"ORANGE_CM_CLIENT_SECRET"}, FALSE)}

Parts == {"lookup", "audit", "login", "hooks", "idp", "callbacks", "migrate", "backups", "boot"}
MCEmbedded == (r1 :> 2) @@ (w1 :> 3)
MCInit ==
  /\ LInit /\ AuInit /\ PInit /\ WInit /\ IInit /\ CInit /\ MgInit /\ BkInit /\ BtInit
  /\ part \in Parts
  /\ \A k \in BucketKeys : (part = "login" /\ k = e1) \/ (person[k].active /\ person[k].password)
  /\ rows.role \/ written.sso
  /\ part # "boot" => written = Plain /\ environ.gateway = {"SMS_HASH_PEPPER"}
  /\ part # "hooks" => permitted /\ endpoint.mode = "hmac"
  /\ part # "idp" => \A k \in Kids : published[k] = 0
gate == <<lvars, auvars, pvars>>      \* what callers ask of the gateway
keys == <<wvars, ivars, cvars>>       \* secrets and keys
ops  == <<mgvars, bkvars, btvars>>            \* the deployment's commands
MCNext ==
  \/ part = "lookup" /\ LNext /\ UNCHANGED <<auvars, pvars, keys, ops, part>>
  \/ part = "audit" /\ AuNext /\ UNCHANGED <<lvars, pvars, keys, ops, part>>
  \/ part = "login" /\ PNext /\ UNCHANGED <<lvars, auvars, keys, ops, part>>
  \/ part = "hooks" /\ WNext /\ UNCHANGED <<gate, ivars, cvars, ops, part>>
  \/ part = "idp" /\ INext /\ UNCHANGED <<gate, wvars, cvars, ops, part>>
  \/ part = "callbacks" /\ CNext /\ UNCHANGED <<gate, wvars, ivars, ops, part>>
  \/ part = "migrate" /\ MgNext /\ UNCHANGED <<gate, keys, bkvars, btvars, part>>
  \/ part = "backups" /\ BkNext /\ UNCHANGED <<gate, keys, mgvars, btvars, part>>
  \/ part = "boot" /\ BtNext /\ UNCHANGED <<gate, keys, mgvars, bkvars, part>>
MCSpec == MCInit /\ [][MCNext]_<<gate, keys, ops, part>>

Sym == Permutations({t1, t2})
==========================================================================
