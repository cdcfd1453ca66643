---------------------------- MODULE MCSigners ----------------------------
(* Who a caller is: the standing of a signer (Signers), whether its envelope is new
   (Nonces), how a person signs in (SignIn), which keys tokens are signed with (OpKeys), and
   the commands that set the first callers up (Setup). Each is explored with the others at
   rest. *)
EXTENDS Signers, Nonces, SignIn, OpKeys, Setup, TLC
CONSTANTS c1, u1, u2, p1, kc1, ku1, ku2, q1, q2, n1, a1, a2, a3,
          l1, l2, v1, v2, h1, h2, e1, E1, o1, s1, d1, d2
VARIABLE part

MCMailboxOf == (e1 :> e1) @@ (E1 :> e1)
MCAddressesOf == (h1 :> {e1, E1}) @@ (h2 :> {E1})

MCInit ==
  /\ Init /\ NInit /\ SInit /\ KInit /\ StInit
  /\ part \in {"signers", "nonces", "signin", "keys", "setup"}
  /\ part # "signers" => row[c1] = None /\ key[ku1] # None /\ row[u1] # None
  /\ client # {"drift"}   \* a row drifts by an edit (EditClient)
  /\ part # "setup" => client = NoRowYet
MCNext ==
  \/ part = "signers" /\ Next /\ UNCHANGED <<nvars, svars, kvars, stvars, part>>
  \/ part = "nonces" /\ NNext /\ UNCHANGED <<vars, svars, kvars, stvars, part>>
  \/ part = "signin" /\ SNext /\ UNCHANGED <<vars, nvars, kvars, stvars, part>>
  \/ part = "keys" /\ KNext /\ UNCHANGED <<vars, nvars, svars, stvars, part>>
  \/ part = "setup" /\ StNext /\ UNCHANGED <<vars, nvars, svars, kvars, part>>
MCSpec == MCInit /\ [][MCNext]_<<vars, nvars, svars, kvars, stvars, part>>

Sym == UNION {Permutations(S) : S \in {{u1, u2}, {ku1, ku2}, {q1, q2}, {d1, d2}}}
==========================================================================
