---------------------------- MODULE Setup ----------------------------
(* The one-shot commands that make a migrated database usable: bootstrap, which chains
   seed-dispatch, seed-console-client and provision-user (each is that part of its list),
   provision-user --reset, register-client and vsms-demo-seed. Each is a list of statements;
   none of them is a transaction, hooks and operators run them again and again, two at once
   too, and any of them may die between two statements, while people edit the same rows in
   the console. *)
EXTENDS Naturals, Sequences

CONSTANTS Runners, Paths, MaxSetupRuns, MaxConsoleEdits, NoRowYet, NoPassword
ASSUME SetupAssumption ==
  /\ MaxSetupRuns \in Nat      \* bound on the commands run
  /\ MaxConsoleEdits \in Nat   \* bound on the edits made in the console
  /\ \A c \in SUBSET {"drift", "machine"} : NoRowYet # c
  /\ NoRowYet \notin [id : Nat, row : [on : BOOLEAN, ver : Nat]]
  /\ NoPassword \notin Nat

(* The tables: which have a unique key, whose rows are created switched off, and which a
   command switches on when it finds them off. *)
Tables == {"provider", "route", "app", "sender", "registration", "endpoint", "appClient", "user"}
Unique == {"provider", "app", "sender", "appClient", "user"}
BornOff == {"provider", "sender"}
Switched == {"provider", "route", "sender"}

Commands == {"bootstrap", "demoSeed", "registerClient", "resetPassword"}

SeedDispatch == << <<"create", "provider">>, <<"find", "provider">>, <<"switch", "provider">>,
                   <<"find", "route">>, <<"make", "route">>, <<"switch", "route">> >>
SeedConsoleClient == << <<"findClient", "none">>, <<"writeClient", "none">> >>
IssuePassword == << <<"create", "user">>, <<"find", "user">>,
                    <<"findPassword", "none">>, <<"writeFile", "none">>, <<"storeHash", "none">> >>
RegisterClient ==
  << <<"need", "app">>, <<"find", "appClient">>, <<"create", "appClient">>, <<"find", "appClient">> >>
DemoSeed ==
  << <<"need", "provider">>, <<"create", "app">>, <<"find", "app">>,
     <<"find", "sender">>, <<"make", "sender">>, <<"find", "registration">>, <<"make", "registration">>,
     <<"switch", "sender">>, <<"find", "endpoint">>, <<"make", "endpoint">> >>
Plan(cmd) ==
  CASE cmd = "bootstrap" -> SeedDispatch \o SeedConsoleClient \o IssuePassword
    [] cmd = "resetPassword" -> IssuePassword
    [] cmd = "registerClient" -> RegisterClient
    [] cmd = "demoSeed" -> DemoSeed

VARIABLES
  tab,        \* per table: its rows, each switched on or off and with its version
  client,     \* the OauthClient row of the console: absent, or what is wrong with it
  service,    \* that id was a machine client's
  password,   \* whose password the account's hash is of
  files,      \* per path: whose password it holds
  held,       \* the passwords somebody was handed
  lost,       \* the passwords stored by a statement whose answer was lost
  run,        \* per runner: command, position, what it has read, whether undisturbed
  started, consoleEdits
stvars == <<tab, client, service, password, files, held, lost, run, started, consoleEdits>>

NotRunning ==
  [cmd |-> "none", at |-> 0, pc |-> "idle", saw |-> [t \in Tables |-> NoRowYet], sawClient |-> NoRowYet,
   sawPassword |-> NoPassword, out |-> NoPassword, me |-> 0, clean |-> TRUE]
StInit ==
  /\ tab = [t \in Tables |-> <<>>]
  /\ client \in {NoRowYet, {"drift"}, {"machine"}}
  /\ service = (client = {"machine"})
  /\ password = NoPassword
  /\ files = [p \in Paths |-> NoPassword]
  /\ held = {} /\ lost = {}
  /\ run = [r \in Runners |-> NotRunning]
  /\ started = 0 /\ consoleEdits = 0

Me(r) == run[r].me   \* the password a run generates is its own
Op(r) == Plan(run[r].cmd)[run[r].at][1]
Table(r) == Plan(run[r].cmd)[run[r].at][2]
At(r, op) == run[r].pc = "run" /\ Op(r) = op

(* The run goes on with the next statement of its command, or ends. *)
Advanced(r, rec) ==
  IF rec.at < Len(Plan(rec.cmd)) THEN [rec EXCEPT !.at = @ + 1]
  ELSE [NotRunning EXCEPT !.cmd = rec.cmd, !.pc = "done", !.out = rec.out, !.me = rec.me, !.clean = rec.clean]
Advance(r, rec) == run' = [run EXCEPT ![r] = Advanced(r, rec)]
Bail(r) == run' = [run EXCEPT ![r] = [NotRunning EXCEPT !.pc = "failed"]]

(* What is refused before the database is touched: a password file that exists. *)
StartCommand(r, cmd, out) ==
  /\ run[r].pc \in {"idle", "done", "failed"} /\ started < MaxSetupRuns
  /\ cmd \in {"bootstrap", "resetPassword"} => files[out] = NoPassword
  /\ run' = [run EXCEPT ![r] = [NotRunning EXCEPT !.cmd = cmd, !.at = 1, !.pc = "run",
                                                 !.out = out, !.me = started + 1]]
  /\ started' = started + 1
  /\ UNCHANGED <<tab, client, service, password, files, held, lost, consoleEdits>>

NewRow(t) == [on |-> t \notin BornOff, ver |-> 1]
Inserted(r, t) ==
  /\ tab' = [tab EXCEPT ![t] = Append(@, NewRow(t))]
  /\ Advance(r, [run[r] EXCEPT !.saw[t] = [id |-> Len(tab[t]) + 1, row |-> NewRow(t)]])

(* create, where a duplicate key is not an error: the row is looked up next. *)
Create(r) ==
  /\ At(r, "create")
  /\ LET t == Table(r) IN
       IF tab[t] = <<>> /\ run[r].saw[t] = NoRowYet THEN Inserted(r, t)
                                                    ELSE Advance(r, run[r]) /\ UNCHANGED tab
  /\ UNCHANGED <<client, service, password, files, held, lost, started, consoleEdits>>

(* find_many().limit(1), unless the row is known already. *)
Find(r) ==
  /\ At(r, "find")
  /\ LET t == Table(r) IN
       IF run[r].saw[t] = NoRowYet /\ tab[t] # <<>>
         THEN \E i \in DOMAIN tab[t] : Advance(r, [run[r] EXCEPT !.saw[t] = [id |-> i, row |-> tab[t][i]]])
         ELSE Advance(r, run[r])
  /\ UNCHANGED <<tab, client, service, password, files, held, lost, started, consoleEdits>>

Need(r) ==
  /\ At(r, "need")
  /\ IF tab[Table(r)] # <<>> THEN Advance(r, run[r]) ELSE Bail(r)
  /\ UNCHANGED <<tab, client, service, password, files, held, lost, started, consoleEdits>>

(* create after nothing was found; only a unique key stops a second runner here. *)
Make(r) ==
  /\ At(r, "make")
  /\ LET t == Table(r) IN
       CASE run[r].saw[t] # NoRowYet -> Advance(r, run[r]) /\ UNCHANGED tab
         [] run[r].saw[t] = NoRowYet /\ t \in Unique /\ tab[t] # <<>> -> Bail(r) /\ UNCHANGED tab
         [] OTHER -> Inserted(r, t)
  /\ UNCHANGED <<client, service, password, files, held, lost, started, consoleEdits>>

(* Variant: a row that is on already ends the command. *)
SwitchOnReturnsEarly(r) ==
  /\ At(r, "switch")
  /\ LET t == Table(r) s == run[r].saw[t] IN
       IF s.row.on THEN run' = [run EXCEPT ![r].pc = "done"] /\ UNCHANGED tab
       ELSE IF tab[t][s.id].ver = s.row.ver
         THEN Advance(r, run[r]) /\ tab' = [tab EXCEPT ![t][s.id] = [on |-> TRUE, ver |-> @.ver + 1]]
         ELSE Bail(r) /\ UNCHANGED tab
  /\ UNCHANGED <<client, service, password, files, held, lost, started, consoleEdits>>

(* The update with if_match of the version that was read; nothing is written of a row that
   was on. *)
SwitchOn(r) ==
  /\ At(r, "switch")
  /\ LET t == Table(r) s == run[r].saw[t] IN
       CASE s.row.on -> Advance(r, run[r]) /\ UNCHANGED tab
         [] ~s.row.on /\ tab[t][s.id].ver = s.row.ver ->
              /\ Advance(r, run[r])
              /\ tab' = [tab EXCEPT ![t][s.id] = [on |-> TRUE, ver |-> @.ver + 1]]
         [] OTHER -> Bail(r) /\ UNCHANGED tab
  /\ UNCHANGED <<client, service, password, files, held, lost, started, consoleEdits>>

FindClient(r) ==
  /\ At(r, "findClient")
  /\ Advance(r, [run[r] EXCEPT !.sawClient = client])
  /\ UNCHANGED <<tab, client, service, password, files, held, lost, started, consoleEdits>>

(* seed_console_client: created when missing, reconciled when it has drifted, refused when
   it is a machine client's. *)
WriteClient(r) ==
  /\ At(r, "writeClient")
  /\ LET saw == run[r].sawClient IN
       CASE saw = NoRowYet /\ client # NoRowYet -> Bail(r) /\ UNCHANGED client
         [] saw # NoRowYet /\ "machine" \in saw -> Bail(r) /\ UNCHANGED client
         [] saw = {} -> Advance(r, run[r]) /\ UNCHANGED client
         [] OTHER -> Advance(r, run[r]) /\ client' = {}
  /\ UNCHANGED <<tab, service, password, files, held, lost, started, consoleEdits>>

(* An existing password is refused unless --reset. *)
FindPassword(r) ==
  /\ At(r, "findPassword")
  /\ IF password # NoPassword /\ run[r].cmd # "resetPassword" THEN Bail(r)
     ELSE Advance(r, [run[r] EXCEPT !.sawPassword = password])
  /\ UNCHANGED <<tab, client, service, password, files, held, lost, started, consoleEdits>>

(* write_new_secret_file: O_EXCL, whatever was checked at the start. *)
WriteFile(r) ==
  /\ At(r, "writeFile")
  /\ IF files[run[r].out] = NoPassword
       THEN files' = [files EXCEPT ![run[r].out] = Me(r)] /\ Advance(r, run[r])
       ELSE Bail(r) /\ UNCHANGED files
  /\ UNCHANGED <<tab, client, service, password, held, lost, started, consoleEdits>>

(* The hash of the password just written is created, which a credential that came in between
   refuses, or updated. When that fails the file is removed; an answer that is lost looks
   the same, and then the file of the password in force is removed with it. *)
StoreHash(r) ==
  /\ At(r, "storeHash")
  /\ \/ /\ run[r].sawPassword # NoPassword \/ password = NoPassword
        /\ password' = Me(r)
        /\ Advance(r, run[r]) /\ UNCHANGED <<files, lost>>
     \/ /\ files' = [files EXCEPT ![run[r].out] = NoPassword]
        /\ Bail(r)
        /\ \/ UNCHANGED <<password, lost>>
           \/ /\ run[r].sawPassword # NoPassword \/ password = NoPassword
              /\ password' = Me(r) /\ lost' = lost \cup {Me(r)}
  /\ UNCHANGED <<tab, client, service, held, started, consoleEdits>>

Dies(r) ==
  /\ run[r].pc = "run"
  /\ Bail(r)
  /\ UNCHANGED <<tab, client, service, password, files, held, lost, started, consoleEdits>>

(* The operator reads the file of a command that ended well, hands the password over and
   deletes it. *)
HandOver(r) ==
  /\ run[r].pc = "done" /\ files[run[r].out] = Me(r)
  /\ held' = held \cup {Me(r)}
  /\ files' = [files EXCEPT ![run[r].out] = NoPassword]
  /\ UNCHANGED <<tab, client, service, password, lost, run, started, consoleEdits>>

(* Somebody switches a row off in the console, edits the redirect list in the YAML, or
   registers a machine client under the console's id. *)
Disturb ==
  /\ consoleEdits < MaxConsoleEdits /\ consoleEdits' = consoleEdits + 1
  /\ run' = [r \in Runners |-> [run[r] EXCEPT !.clean = FALSE]]
TurnOff(t) ==
  /\ Disturb
  /\ \E i \in DOMAIN tab[t] : tab[t][i].on /\ tab' = [tab EXCEPT ![t][i] = [on |-> FALSE, ver |-> @.ver + 1]]
  /\ UNCHANGED <<client, service, password, files, held, lost, started>>
EditClient ==
  /\ Disturb
  /\ client' = IF client = NoRowYet THEN {"machine"} ELSE client \cup {"drift"}
  /\ service' = (service \/ client = NoRowYet)
  /\ UNCHANGED <<tab, password, files, held, lost, started>>

StNext ==
  \/ \E r \in Runners :
       \/ \E cmd \in Commands, out \in Paths : StartCommand(r, cmd, out)
       \/ Create(r) \/ Find(r) \/ Need(r) \/ Make(r) \/ SwitchOn(r)
       \/ FindClient(r) \/ WriteClient(r)
       \/ FindPassword(r) \/ WriteFile(r) \/ StoreHash(r)
       \/ Dies(r) \/ HandOver(r)
  \/ \E t \in Switched : TurnOff(t)
  \/ EditClient

(* A command that reports success leaves everything it is for in place, whatever earlier
   runs left half done and whoever runs beside it: seed_dispatch_core a provider that is
   active and an enabled route, bootstrap also a console client check_console_client
   accepts, each until somebody undoes it. A machine client's row is never taken over. *)
DoneMeansReady ==
  /\ \A r \in Runners :
       run[r].pc = "done" /\ run[r].clean =>
         /\ \A i \in DOMAIN Plan(run[r].cmd) :
              LET op == Plan(run[r].cmd)[i][1] t == Plan(run[r].cmd)[i][2] IN
                /\ t \in Tables => tab[t] # <<>>
                /\ op = "switch" => \E j \in DOMAIN tab[t] : tab[t][j].on
         /\ run[r].cmd = "bootstrap" => client = {}
  /\ service => "machine" \in client

(* The password in force was handed over or lies in the file it was written to, through
   racing resets, refused files and deaths: issue_password writes the file before the hash
   and removes it only when storing the hash failed. Only a stored hash whose answer was
   lost leaves a password nobody has. *)
PasswordIsHeld ==
  password # NoPassword => password \in held \cup lost \/ \E p \in Paths : files[p] = password

(* Setting up can be repeated and raced: DoneMeansReady of the rows the commands make,
   PasswordIsHeld of the password they hand out (seed_dispatch.rs, provision_user.rs). *)
SetupHolds == DoneMeansReady /\ PasswordIsHeld
======================================================================
