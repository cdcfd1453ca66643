------------------------------- MODULE Login -------------------------------
(* POST /login: the two buckets in front of the password check, the account and the
   credential it is checked against, the console's code and the lastLoginAt stamp
   (sms-gateway login.rs, sms-auth login.rs). The store of the buckets is the framework's:
   a bucket holds at most its burst, and refills with time. Whether a password is right is
   left open, and so is whether the library grants the code. *)
EXTENDS Integers, FiniteSets

CONSTANTS
  Posts,          \* requests for POST /login handled at a time
  Addresses,      \* e-mail addresses as typed
  KeyOf,          \* email_key: an address without case and spaces
  EmailBurst, EmailRefill,    \* login_rate_limit.per_email
  AllBurst, AllRefill,        \* login_rate_limit.aggregate
  MaxVersion      \* bound: versions of an account

BucketKeys == {KeyOf[e] : e \in Addresses}

(* validate_bucket asks nothing of one bucket's limits against the other's. *)
ASSUME LoginAssumption ==
  /\ IsFiniteSet(Posts) /\ IsFiniteSet(BucketKeys)
  /\ EmailBurst \in Nat \ {0} /\ EmailRefill \in Nat /\ MaxVersion \in Nat
  /\ AllBurst \in Nat /\ AllRefill \in Nat

VARIABLES
  bucket,      \* key -> tokens left of the address's bucket
  everyone,    \* tokens left of the aggregate
  post,        \* request -> how far it is and what it has read
  person,      \* key -> its account: whether active, whether with a password, its version
  stamped,     \* key -> the version lastLoginAt was last written at
  crowd        \* history: the keys that have drawn on the aggregate since it was last full,
               \* or had not their own bucket full then

pvars == <<bucket, everyone, post, person, stamped, crowd>>

NoPost == [at |-> "idle"]

PInit ==
  /\ bucket = [k \in BucketKeys |-> EmailBurst]
  /\ everyone = AllBurst
  /\ post = [r \in Posts |-> NoPost]
  /\ person \in [BucketKeys -> [active : BOOLEAN, password : BOOLEAN, version : {0}]]
  /\ stamped = [k \in BucketKeys |-> 0]
  /\ crowd = {}

Key(r) == KeyOf[post[r].email]
To(r, at) == post' = [post EXCEPT ![r].at = at]
Finish(r) == post' = [post EXCEPT ![r] = NoPost]

(* A request of the console, well formed; any other spends nothing. *)
PostLogin(r, e) ==
  /\ post[r] = NoPost
  /\ post' = [post EXCEPT ![r] = [at |-> "email", email |-> e, version |-> 0, known |-> FALSE]]
  /\ UNCHANGED <<bucket, everyone, person, stamped, crowd>>

(* Limiter::admit: a token of the address's bucket, then one of everyone's. *)
TakeOwn(r, at) ==
  /\ post[r].at = at
  /\ IF bucket[Key(r)] > 0
       THEN /\ bucket' = [bucket EXCEPT ![Key(r)] = @ - 1]
            /\ crowd' = crowd \cup {Key(r)}
            /\ To(r, IF at = "email" THEN "aggregate" ELSE "account")
       ELSE To(r, "throttled") /\ UNCHANGED <<bucket, crowd>>
  /\ UNCHANGED <<everyone, person, stamped>>
TakeShared(r, at) ==
  /\ post[r].at = at
  /\ IF everyone > 0
       THEN everyone' = everyone - 1 /\ To(r, IF at = "email" THEN "aggregate" ELSE "account")
       ELSE To(r, "crowdedOut") /\ UNCHANGED everyone
  /\ UNCHANGED <<bucket, person, stamped, crowd>>

(* Variant: everyone's bucket first. *)
AdmitSharedFirst(r) == TakeShared(r, "email") \/ TakeOwn(r, "aggregate")

Admit(r) == TakeOwn(r, "email") \/ TakeShared(r, "aggregate")

(* find_active_user: the account, if active, and then, in any case, the credential; an
   account is found under the very address it is stored with. *)
FindAccount(r) ==
  /\ post[r].at = "account"
  /\ post' = [post EXCEPT ![r].at = "credential", ![r].version = person[Key(r)].version,
                          ![r].known = post[r].email = Key(r) /\ person[Key(r)].active]
  /\ UNCHANGED <<bucket, everyone, person, stamped, crowd>>
FindCredential(r) ==
  /\ post[r].at = "credential"
  /\ post' = [post EXCEPT ![r].at = "verify", ![r].known = @ /\ person[Key(r)].password]
  /\ UNCHANGED <<bucket, everyone, person, stamped, crowd>>

(* verify_password, of a real hash or the dummy, then the role and handle_authorize: a code,
   or a refusal that does not say why. *)
IssueCode(r) ==
  /\ post[r].at = "verify" /\ post[r].known
  /\ To(r, "stamp")
  /\ UNCHANGED <<bucket, everyone, person, stamped, crowd>>

(* stamp_last_login under the version that was read; a lost race is only logged. *)
StampLastLogin(r) ==
  /\ post[r].at = "stamp"
  /\ IF person[Key(r)].version = post[r].version /\ post[r].version < MaxVersion
       THEN /\ person' = [person EXCEPT ![Key(r)].version = @ + 1]
            /\ stamped' = [stamped EXCEPT ![Key(r)] = person[Key(r)].version + 1]
       ELSE UNCHANGED <<person, stamped>>
  /\ Finish(r)
  /\ UNCHANGED <<bucket, everyone, crowd>>

(* The request is refused, throttled or answered with an outage, or its process dies. *)
PostEnds(r) ==
  /\ post[r] # NoPost
  /\ Finish(r)
  /\ UNCHANGED <<bucket, everyone, person, stamped, crowd>>

(* provision-user and the console edit accounts: a password is given to one that has none
   (issue_password), an account is switched on or off. *)
EditPerson(k) ==
  /\ person[k].version < MaxVersion
  /\ \/ ~ person[k].password /\ person' = [person EXCEPT ![k].password = TRUE]
     \/ person' = [person EXCEPT ![k].active = ~ @, ![k].version = @ + 1]
  /\ UNCHANGED <<bucket, everyone, post, stamped, crowd>>

(* The buckets fill up; admit's two tokens are taken with no wait in between. *)
RefillBuckets ==
  /\ \A r \in Posts : post[r].at # "aggregate"
  /\ bucket' = [k \in BucketKeys |->
       IF bucket[k] + EmailRefill > EmailBurst THEN EmailBurst ELSE bucket[k] + EmailRefill]
  /\ everyone' = IF everyone + AllRefill > AllBurst THEN AllBurst ELSE everyone + AllRefill
  /\ crowd' = IF everyone' = AllBurst THEN {k \in BucketKeys : bucket'[k] < EmailBurst} ELSE crowd
  /\ UNCHANGED <<post, person, stamped>>

PNext ==
  \/ \E r \in Posts :
       \/ \E e \in Addresses : PostLogin(r, e)
       \/ Admit(r) \/ FindAccount(r) \/ FindCredential(r) \/ IssueCode(r) \/ StampLastLogin(r) \/ PostEnds(r)
  \/ \E k \in BucketKeys : EditPerson(k)
  \/ RefillBuckets

PSpec == PInit /\ [][PNext]_pvars

(* The aggregate can serve the shares of as many addresses at once as there are in K. *)
RoomFor(K) ==
  /\ EmailBurst * Cardinality(K) <= AllBurst
  /\ EmailRefill * Cardinality(K) <= AllRefill

(* One address, however hard and under however many spellings it is tried, does not keep
   others out (admit: "hammering one address spends only that address's tokens and cannot
   empty the bucket every other person's sign-in draws on"): everyone's bucket refuses a
   sign-in whose own bucket had a token only when more addresses have drawn on it, since it
   was last full, than it has room for. The example's limits, 5 and 10, have room for two. *)
NobodyCrowdedOut ==
  [][\A r \in Posts : post[r].at # "crowdedOut" /\ post'[r].at = "crowdedOut" => ~ RoomFor(crowd)]_pvars
=============================================================================
