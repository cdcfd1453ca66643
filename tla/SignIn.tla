------------------------------ MODULE SignIn ------------------------------
(* Single sign-on: the transaction a start records and a callback consumes, the verdict
   on the identity provider's claims with its one retry, and the account a verified
   person is given (sms-auth sso/{store,flow,policy}.rs, sms-gateway sso.rs). The
   provider itself is external: it may name anyone, in or out of the group, with or
   without a second factor, at any of the addresses it knows that person by. *)
EXTENDS Integers, FiniteSets

CONSTANTS
  Logins,         \* the SsoTransaction rows, one per generated `state`
  Visits,         \* the requests for the callback in flight
  People,         \* the subjects the identity provider knows
  Spellings,      \* the e-mail addresses as written
  MailboxOf,      \* [Spellings -> the address in lower case]
  AddressesOf,    \* [People -> SUBSET Spellings]: what the provider may say
  NoOne           \* no link, no account

ASSUME SignInAssumption ==
  /\ AddressesOf \in [People -> SUBSET Spellings]
  /\ "local" \notin People /\ NoOne \notin Spellings
  /\ NoOne \notin [owner : People \cup {"local"}, active : BOOLEAN]

VARIABLES
  txn,        \* each transaction: its place in its life, whether a retry, the start behind it
  visit,      \* each callback's progress
  account,    \* the users by e-mail as written: whose (a person or "local"), and active
  fedLink,    \* FederatedLink: the account of each linked person
  codes,      \* the console codes each start has led to (history)
  signedIn    \* who a code was issued to, as what, on which claims (history)

svars == <<txn, visit, account, fedLink, codes, signedIn>>

Away == [pc |-> "away", login |-> NoOne, claims |-> NoOne, round |-> 0, user |-> NoOne]
Unused == [life |-> "none", retry |-> FALSE, root |-> NoOne]
ClaimSets ==
  {[who |-> p, email |-> e, verified |-> v, group |-> g, mfa |-> m] :
     p \in People, e \in Spellings, v \in BOOLEAN, g \in BOOLEAN, m \in BOOLEAN}

SInit ==
  /\ txn = [l \in Logins |-> Unused]
  /\ visit = [v \in Visits |-> Away]
  /\ account = [e \in Spellings |-> NoOne]
  /\ fedLink = [p \in People |-> NoOne]
  /\ codes = [l \in Logins |-> 0]
  /\ signedIn = {}

Goto(v, pc) == visit' = [visit EXCEPT ![v].pc = pc]
Leave(v) == visit' = [visit EXCEPT ![v] = Away]

(* start_handler and begin_transaction: a fresh state, its row recorded. *)
StartLogin(l) ==
  /\ txn[l] = Unused
  /\ txn' = [txn EXCEPT ![l] = [life |-> "live", retry |-> FALSE, root |-> l]]
  /\ UNCHANGED <<visit, account, fedLink, codes, signedIn>>

(* TRANSACTION_TTL passes; the reaper deletes what has expired. *)
TxnExpires(l) ==
  /\ txn[l].life = "live"
  /\ txn' = [txn EXCEPT ![l].life = "expired"]
  /\ UNCHANGED <<visit, account, fedLink, codes, signedIn>>
ReapExpired(l) ==
  /\ txn[l].life = "expired"
  /\ txn' = [txn EXCEPT ![l].life = "gone"]
  /\ UNCHANGED <<visit, account, fedLink, codes, signedIn>>

(***************************************************************************)
(* consume_transaction: read the row, delete it, and only then believe it. *)
(***************************************************************************)
LookUp(v, l) ==
  /\ visit[v].pc = "away"
  /\ txn[l].life \in {"live", "expired"}
  /\ visit' = [visit EXCEPT ![v] = [Away EXCEPT !.pc = "found", !.login = l]]
  /\ UNCHANGED <<txn, account, fedLink, codes, signedIn>>

(* Variant: a row another callback has deleted is consumed again. *)
ConsumeAnyway(v) ==
  /\ visit[v].pc = "found"
  /\ txn' = [txn EXCEPT ![visit[v].login].life = "gone"]
  /\ IF txn[visit[v].login].life \in {"live", "gone"} THEN Goto(v, "consumed") ELSE Leave(v)
  /\ UNCHANGED <<account, fedLink, codes, signedIn>>
Consume(v) ==
  /\ visit[v].pc = "found"
  /\ txn' = [txn EXCEPT ![visit[v].login].life = "gone"]
  /\ IF txn[visit[v].login].life = "live" THEN Goto(v, "consumed") ELSE Leave(v)
  /\ UNCHANGED <<account, fedLink, codes, signedIn>>

(* The answer carries an error or no code, the exchange or the id_token fails, a query
   fails, the request dies: the browser is sent away with nothing. *)
TurnedAway(v) ==
  /\ visit[v].pc \notin {"away", "clash"}
  /\ Leave(v)
  /\ UNCHANGED <<txn, account, fedLink, codes, signedIn>>

(***************************************************************************)
(* policy::evaluate on verified claims.                                    *)
(***************************************************************************)
Evaluate(claims, isRetry) ==
  CASE ~ claims.group -> "refuse"
    [] claims.group /\ claims.mfa -> "admit"
    [] OTHER -> IF isRetry THEN "refuse" ELSE "retry"

(* The retry: the same console request under a new state. *)
BeginRetry(v) ==
  \E l \in Logins :
    /\ txn[l] = Unused
    /\ txn' = [txn EXCEPT ![l] = [life |-> "live", retry |-> TRUE, root |-> txn[visit[v].login].root]]
    /\ Leave(v)

Complete(v) ==
  /\ visit[v].pc = "consumed"
  /\ \E c \in {c \in ClaimSets : c.email \in AddressesOf[c.who]} :
       LET verdict == Evaluate(c, txn[visit[v].login].retry) IN
       \/ verdict = "refuse" /\ Leave(v) /\ UNCHANGED txn
       \/ verdict = "retry" /\ BeginRetry(v)
       \/ /\ verdict = "admit"
          /\ visit' = [visit EXCEPT ![v].pc = "resolve", ![v].claims = c, ![v].round = 1]
          /\ UNCHANGED txn
  /\ UNCHANGED <<account, fedLink, codes, signedIn>>

(***************************************************************************)
(* resolve_user, at most two rounds: the link and its active user, or a    *)
(* new account.                                                            *)
(***************************************************************************)
Who(v) == visit[v].claims.who
Email(v) == visit[v].claims.email
NextRound(v) ==
  IF visit[v].round = 2 THEN Goto(v, "exhausted")
  ELSE visit' = [visit EXCEPT ![v].pc = "resolve", ![v].round = 2]

FindLink(v) ==
  /\ visit[v].pc = "resolve"
  /\ IF fedLink[Who(v)] # NoOne
     THEN visit' = [visit EXCEPT ![v].pc = "linked", ![v].user = fedLink[Who(v)]]
     ELSE IF visit[v].claims.verified THEN Goto(v, "scan") ELSE Leave(v)
  /\ UNCHANGED <<txn, account, fedLink, codes, signedIn>>

FindActiveUser(v) ==
  /\ visit[v].pc = "linked"
  /\ IF account[visit[v].user].active THEN Goto(v, "issue") ELSE Leave(v)
  /\ UNCHANGED <<txn, account, fedLink, codes, signedIn>>

(* email_held_locally compares without case, over all the users. *)
Holders(e) == {s \in Spellings : account[s] # NoOne /\ MailboxOf[s] = MailboxOf[e]}
EmailHeldLocally(v) ==
  /\ visit[v].pc = "scan"
  /\ Goto(v, IF Holders(Email(v)) # {} THEN "held" ELSE "insert")
  /\ UNCHANGED <<txn, account, fedLink, codes, signedIn>>

(* Variant: a taken address is a clash without looking for the link again. *)
RecheckLinkNever(v) ==
  /\ visit[v].pc = "held"
  /\ Goto(v, "clash")
  /\ UNCHANGED <<txn, account, fedLink, codes, signedIn>>
(* The address is held: by this very person, who signed in a moment ago in another
   request, or by someone else. *)
RecheckLink(v) ==
  /\ visit[v].pc = "held"
  /\ IF fedLink[Who(v)] # NoOne THEN NextRound(v) ELSE Goto(v, "clash")
  /\ UNCHANGED <<txn, account, fedLink, codes, signedIn>>

(* The serializable transaction: the user, then its link. The unique e-mail is hit
   first; both commit or neither. *)
Provision(v) ==
  /\ visit[v].pc = "insert"
  /\ IF account[Email(v)] # NoOne
     THEN Goto(v, "held") /\ UNCHANGED <<account, fedLink>>
     ELSE IF fedLink[Who(v)] # NoOne
     THEN NextRound(v) /\ UNCHANGED <<account, fedLink>>
     ELSE /\ account' = [account EXCEPT ![Email(v)] = [owner |-> Who(v), active |-> TRUE]]
          /\ fedLink' = [fedLink EXCEPT ![Who(v)] = Email(v)]
          /\ visit' = [visit EXCEPT ![v].pc = "issue", ![v].user = Email(v)]
  /\ UNCHANGED <<txn, codes, signedIn>>

RefuseClash(v) ==
  /\ visit[v].pc = "clash"
  /\ Leave(v)
  /\ UNCHANGED <<txn, account, fedLink, codes, signedIn>>

(* issue_console_code: the code of the console's own provider. *)
IssueConsoleCode(v) ==
  /\ visit[v].pc = "issue"
  /\ codes' = [codes EXCEPT ![txn[visit[v].login].root] = @ + 1]
  /\ signedIn' = signedIn \cup {[claims |-> visit[v].claims, user |-> visit[v].user]}
  /\ Leave(v)
  /\ UNCHANGED <<txn, account, fedLink>>

(* An administrator makes a local account, or switches one off. *)
ProvisionLocal(e) ==
  /\ account[e] = NoOne
  /\ account' = [account EXCEPT ![e] = [owner |-> "local", active |-> TRUE]]
  /\ UNCHANGED <<txn, visit, fedLink, codes, signedIn>>
SwitchOff(e) ==
  /\ account[e] # NoOne /\ account[e].active
  /\ account' = [account EXCEPT ![e].active = FALSE]
  /\ UNCHANGED <<txn, visit, fedLink, codes, signedIn>>

SNext ==
  \/ \E l \in Logins : StartLogin(l) \/ TxnExpires(l) \/ ReapExpired(l)
  \/ \E v \in Visits :
       \/ \E l \in Logins : LookUp(v, l)
       \/ Consume(v) \/ TurnedAway(v) \/ Complete(v)
       \/ FindLink(v) \/ FindActiveUser(v) \/ EmailHeldLocally(v) \/ RecheckLink(v)
       \/ Provision(v) \/ RefuseClash(v) \/ IssueConsoleCode(v)
  \/ \E e \in Spellings : ProvisionLocal(e) \/ SwitchOff(e)

SSpec == SInit /\ [][SNext]_svars

(* Transactions, visits and links are well formed. *)
STypeOK ==
  /\ txn \in [Logins -> [life : {"none", "live", "expired", "gone"}, retry : BOOLEAN, root : Logins \cup {NoOne}]]
  /\ \A v \in Visits : visit[v].claims \in ClaimSets \cup {NoOne} /\ visit[v].round \in 0 .. 2
  /\ fedLink \in [People -> Spellings \cup {NoOne}]
  /\ codes \in [Logins -> Nat]

(* One start of a sign-in leads to one console code at most, however often its callback is
   delivered, at once or after the retry that a missing second factor earns; and whoever
   got a code was in the group with a second factor and signed in to the account
   provisioned for that very person: never a local account that has the same address, and
   never another person's. *)
SignedInAsSelf ==
  /\ \A l \in Logins : codes[l] <= 1
  /\ \A r \in signedIn :
       /\ r.claims.group /\ r.claims.mfa
       /\ fedLink[r.claims.who] = r.user
       /\ account[r.user].owner = r.claims.who

(* Two first sign-ins of one person at once do not refuse each other: an address is
   reported in use only when its holder is someone else, and the second round always
   settles it. *)
OwnRaceIsNotAClash ==
  [][\A v \in Visits :
       /\ visit'[v].pc # "exhausted"
       /\ visit[v].pc # "clash" /\ visit'[v].pc = "clash" =>
            \A s \in Holders(Email(v)) : account[s].owner # Who(v)]_svars
==========================================================================
