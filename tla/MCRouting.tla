----------------------------- MODULE MCRouting -----------------------------
(***************************************************************************)
(* Every small table of routes is judged as it stands (part "tables"), one *)
(* table is used by submissions side by side (part "traffic"), and the     *)
(* adapters submit and classify (part "adapters"). With them what is done  *)
(* to a message before it is routed: its body is packed ("encoding"), its  *)
(* number is read ("numbers"), and the call that brought it is sealed,     *)
(* over rotations of the server's key ("rotation") and with answers that   *)
(* get mixed up ("calls").                                                 *)
(***************************************************************************)
EXTENDS Routing, Adapters, Msisdn, Sealed, TLC
CONSTANTS pa, pb, x1, x2, b1, b2, z1
VARIABLE part

Row(prio, weight, on, prefix, p) ==
  [priority |-> prio, weight |-> weight, enabled |-> on, operator |-> Unset, class |-> "otp",
   app |-> Unset, prefix |-> prefix, provider |-> p]

Rows(prefixes, ps) ==
  {Row(prio, weight, TRUE, prefix, p) :
     prio \in {1, 2}, weight \in {-1, 0, 1, 2}, prefix \in prefixes, p \in ps}
MCCandidate == [operator |-> "mtn", class |-> "otp", app |-> "a", prefixes |-> {"", "6", "67"}]

Traffic == (1 :> Row(2, 1, TRUE, Unset, pa)) @@ (2 :> Row(2, 2, TRUE, "67", pb))
           @@ (3 :> Row(1, 0, TRUE, "6", pa))
Closed == [id \in 1 .. 3 |-> Row(1, 1, FALSE, Unset, pa)]
MCRouteTable ==
  {(1 :> a) @@ (2 :> b) @@ (3 :> c) :
     a \in Rows({Unset}, {pa}), b \in Rows({Unset}, {pa}), c \in Rows({Unset, "65"}, {pa, pb})}
  \cup {Traffic, Closed}

(* A plan with mobile, fixed and toll-free numbers, the last in two lengths, and one whose
   fixed and mobile numbers are the same; the code of one is a digit of the other's. *)
National(n) == [1 .. n -> Digits]
MCCodeOf == [CM |-> "2", FR |-> "6"]
MCIdd == [CM |-> <<"0", "0">>, FR |-> <<"0", "8">>]
MCPlan ==
  [CM |-> [mobile     |-> {n \in National(3) : n[1] = "6" \/ (n[1] = "2" /\ n[2] = "6")},
           fixed_line |-> {n \in National(3) : n[1] = "2" /\ n[2] = "2"},
           toll_free  |-> {n \in National(3) \cup National(2) : n[1] = "8"}],
   FR |-> [mobile     |-> {n \in National(2) : n[1] # "0"},
           fixed_line |-> {n \in National(2) : n[1] # "0"},
           pager      |-> {<<"8", "8">>}]]
MCGeneral == [r \in {"CM", "FR"} |-> UNION {MCPlan[r][t] : t \in DOMAIN MCPlan[r]}]
Entry(prefix, operator) == [prefix |-> prefix, operator |-> operator]
MCPrefixRows ==
  {<<Entry(<<"6">>, "unknown"), Entry(<<"6", "6">>, "mtn"), Entry(<<"x">>, "junk"), Entry(<<>>, "junk"),
     Entry(<<"6", "2">>, "orange")>>,
   <<Entry(<<"2">>, "camtel"), Entry(<<"6", "6">>, "mtn"), Entry(<<"6">>, "unknown")>>}

MCAudienceOf == (pa :> "vaam") @@ (pb :> "shop") @@ (z1 :> "vaam")
MCTemplates ==
  {<<"messages", "export">>, <<"messages", "{}">>, <<"messages", "{}", "events">>, <<"$procs", "sendMessage">>}
MCMutating == {<<"$procs", "sendMessage">>, <<"messages", "{}">>}
(* Parameters matter to the route alone: after a call with a plain one the second is a send,
   and so is the one that pa makes during a rotation. *)
Sends ==
  Len(calls') > Len(calls) =>
    LET new == Last(calls') IN
    \/ part = "calls" /\ calls = <<>>
    \/ /\ new.route.template = <<"$procs", "sendMessage">>
       /\ part = "calls" /\ calls # <<>> => Range(calls[1].route.params) \subseteq {"m"}
       /\ part = "rotation" => new.by = pa /\ new.key = NoKey /\ new.via = "sdk"

MCInit ==
  /\ part \in {"tables", "traffic", "adapters", "encoding", "numbers", "rotation", "calls"}
  /\ RInit
  /\ part = "traffic" <=> route = Traffic
  /\ part \notin {"tables", "traffic"} <=> route = Closed
  /\ prov[pa].active
  /\ part \notin {"tables", "traffic"} => prov[pb].active
  /\ NInit
  /\ part # "numbers" => prefixRows = <<Entry(<<"2">>, "camtel"), Entry(<<"6", "6">>, "mtn"), Entry(<<"6">>, "unknown")>>
  /\ AInit /\ EInit /\ SInit

MCNext ==
  \/ /\ part = "traffic"
     /\ RNext /\ route'[1] = route[1] /\ route'[2] = route[2] /\ prov'[pa].active
     /\ UNCHANGED <<avars, evars, nvars, svars, part>>
  \/ part = "adapters" /\ ANext /\ UNCHANGED <<rvars, evars, nvars, svars, part>>
  \/ part = "encoding" /\ ENext /\ UNCHANGED <<rvars, avars, nvars, svars, part>>
  \/ part = "numbers" /\ NNext /\ UNCHANGED <<rvars, avars, evars, svars, part>>
  \/ part = "rotation" /\ SNext /\ Sends /\ Len(calls') <= 1
     /\ UNCHANGED <<rvars, avars, evars, nvars, part>>
  \/ part = "calls" /\ SNext /\ Sends /\ delivery' = NoDelivery
     /\ UNCHANGED <<keyFiles, signs, pins, rvars, avars, evars, nvars, part>>
MCSpec == MCInit /\ [][MCNext]_<<rvars, avars, evars, nvars, svars, part>>

Sym == Permutations({x1, x2}) \cup Permutations({b1, b2})
=============================================================================
