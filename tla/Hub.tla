-------------------------------- MODULE Hub --------------------------------
(***************************************************************************)
(* oob-hub around its terminals: the start-up with the migration of the    *)
(* legacy users (cmd/oob-hub/main.go, internal/auth/migrate.go), the login *)
(* of each SSH session (internal/sshserver/server.go), its forced password *)
(* change (internal/tui/password.go and model.go) and the operator who     *)
(* runs oob-manage beside it (cmd/oob-manage/main.go).  They meet in the   *)
(* users of UserStore, whose calls take time and may fail.                 *)
(*                                                                         *)
(* The calls of a session are its own and those of its submits: each runs  *)
(* in a goroutine on what the form held, and its message is the reply of   *)
(* its call until the program receives it.  Console has the rest of the    *)
(* program, here a menu and a dialing screen.                              *)
(***************************************************************************)
EXTENDS Naturals, Sequences

CONSTANTS
  Sessions,
  owner,          \* owner[s]: the user name of session s
  Submits,        \* the submits of a password form; bounds the model
  Users, NoAccount, InitialUsers,
  Passwords,      \* what a user may type into the form
  Temporary,      \* what GenerateTemporaryPassword returns
  TooShort, TooLong,
  LegacyUsers,    \* the names in users.conf, in order
  Operator, Migrator,
  OperatorCalls,  \* how often oob-manage is run
  NoOp

Calls == (Sessions \X ({0} \union Submits)) \union {Operator, Migrator}

Accounts == [pw : Passwords \union {Temporary}, locked : BOOLEAN, force : BOOLEAN]

Asks == [op : {"Authenticate", "UpdateLastLogin", "MustChangePassword", "SetPassword", "Refused",
               "Add", "Remove", "Lock", "Unlock", "Reset"},
         user : Users, pw : Passwords \union {Temporary, "none"}]

ASSUME HubAssumption ==
  /\ owner \in [Sessions -> Users]
  /\ InitialUsers \in [Users -> Accounts \union {NoAccount}]
  /\ Submits \subseteq Nat \ {0}
  /\ NoAccount \notin Accounts /\ NoOp \notin Asks
  /\ {"none", "refused"} \intersect Passwords = {}
  /\ TooShort \subseteq Passwords /\ TooLong \subseteq Passwords
  /\ Temporary \notin TooShort \union TooLong
  /\ LegacyUsers \in Seq(Users)
  /\ OperatorCalls \in Nat
  /\ {Operator, Migrator} \intersect (Sessions \X ({0} \union Submits)) = {}
  /\ Operator # Migrator

VARIABLES
  users, op, reply,  \* of UserStore
  hub,       \* "down", "migrate", "sites" or "serve"
  legacy,    \* users.conf is there
  todo,      \* the legacy user the migration is at
  screen,    \* of each session: its login, then Model.state
  managed,   \* how often oob-manage was run
  \* history, for the properties
  typed,     \* the confirmation of each submit that was accepted
  past,      \* what happened to each session that runs, see Blank
  had,       \* the users that had an account when the migration passed them
  untold,    \* migrated users whose temporary password was never printed
  crashed    \* those for whom oob-hub died between the two

storeVars == <<users, op, reply>>
migrationVars == <<legacy, todo, had, untold, crashed>>
vars == <<storeVars, hub, migrationVars, screen, managed, typed, past>>

Op(name, u, p) == [op |-> name, user |-> u, pw |-> p]

OpsOf == [c \in Calls |-> {}]
Store == INSTANCE UserStore

\* excuse: why the account may need a new password while its user has the menu;
\* chosen: the confirmation that took the session to its menu; overlap: two submits
\* were in flight at once; stray: the dialing screen showed an error of the form.
Blank == [excuse |-> {}, chosen |-> "none", overlap |-> FALSE, stray |-> FALSE]

Init ==
  /\ users = InitialUsers
  /\ op = [c \in Calls |-> NoOp] /\ reply = [c \in Calls |-> "none"]
  /\ hub = "down" /\ legacy \in BOOLEAN /\ todo = 1
  /\ screen = [s \in Sessions |-> "none"]
  /\ managed = 0
  /\ typed = [c \in Sessions \X Submits |-> "none"]
  /\ past = [s \in Sessions |-> Blank]
  /\ had = IF legacy THEN {} ELSE Users
  /\ untold = {} /\ crashed = {}

Ask(c, o) == op[c] = NoOp /\ op' = [op EXCEPT ![c] = o] /\ UNCHANGED <<users, reply>>

\* The caller goes on with the answer to its call.
Hear(c, name, answers) ==
  /\ op[c] # NoOp /\ op[c].op = name /\ reply[c] \in answers
  /\ op' = [op EXCEPT ![c] = NoOp]
  /\ reply' = [reply EXCEPT ![c] = "none"]
  /\ UNCHANGED users

-----------------------------------------------------------------------------
\* A call takes effect, and is answered.

Excuse(c) ==
  past' = [s \in Sessions |-> [past[s] EXCEPT !.excuse = @ \union
    (IF screen[s] \in {"none", "ended"} \/ op[c].user # owner[s] THEN {}
     ELSE IF c \in {Operator} /\ op[c].op \in {"Add", "Reset"} THEN {"operator"}
     ELSE IF op[c].op = "SetPassword" /\ op[c].pw \in TooLong THEN {"tooLong"}
     ELSE IF c \notin {Operator, Migrator} /\ op[c].op = "SetPassword" /\ c[1] # s
          THEN {"otherSession"} ELSE {})]]

StoreAnswers(c) ==
  /\ \/ Store!Authenticate(c) \/ Store!MustChangePassword(c) \/ Store!UpdateLastLogin(c)
     \/ Store!SetPassword(c) \/ Store!Add(c) \/ Store!Remove(c) \/ Store!Lock(c)
     \/ Store!Unlock(c) \/ Store!Reset(c) \/ Store!Fail(c)
  /\ Excuse(c)
  /\ untold' = IF c \in {Migrator} /\ reply'[c] = "ok" THEN untold \union {op[c].user} ELSE untold
  /\ UNCHANGED <<hub, legacy, todo, had, crashed, screen, managed, typed>>

-----------------------------------------------------------------------------
\* main of oob-hub.

\* NewFileStore and the look for users.conf; an error ends the program.
Start ==
  /\ hub = "down"
  /\ hub' = IF legacy THEN "migrate" ELSE "sites"
  /\ todo' = 1
  /\ UNCHANGED <<storeVars, legacy, had, untold, crashed, screen, managed, typed, past>>

\* The program ends: ParseSitesFile or sshserver.New failed, it was killed, or a
\* signal made Shutdown close the listener, and the goroutine whose ListenAndServe
\* returned with that ends it.  What its goroutines were about to do is not done.
Exit ==
  /\ hub # "down"
  /\ hub' = "down"
  /\ op' = [c \in Calls |-> IF c \in {Operator} THEN op[c] ELSE NoOp]
  /\ reply' = [c \in Calls |-> IF c \in {Operator} THEN reply[c] ELSE "none"]
  /\ screen' = [s \in Sessions |-> IF screen[s] = "none" THEN "none" ELSE "ended"]
  /\ crashed' = crashed \union untold
  /\ typed' = [c \in Sessions \X Submits |-> "none"]
  /\ past' = [s \in Sessions |-> Blank]
  /\ UNCHANGED <<users, legacy, todo, had, untold, managed>>

Serve ==
  /\ hub = "sites" /\ hub' = "serve"
  /\ UNCHANGED <<storeVars, migrationVars, screen, managed, typed, past>>

-----------------------------------------------------------------------------
\* MigrateFromLegacy; every error of it is a warning.

MigrateUser ==
  /\ hub = "migrate" /\ todo <= Len(LegacyUsers)
  /\ Ask(Migrator, Op("Add", LegacyUsers[todo], Temporary))
  /\ UNCHANGED <<hub, migrationVars, screen, managed, typed, past>>

\* Mutant: every user that cannot be added is skipped.
SkippedAnyError == {"exists", "error"}

\* The answers to Add that let the migration go on without the user.
Skipped == {"exists"}

MigratedUser ==
  /\ hub = "migrate"
  /\ \/ /\ Hear(Migrator, "Add", Skipped \union {"ok"})
        /\ todo' = todo + 1
        /\ had' = IF reply[Migrator] = "error" THEN had ELSE had \union {op[Migrator].user}
        /\ untold' = IF reply[Migrator] = "ok" THEN untold \ {op[Migrator].user} ELSE untold
        /\ UNCHANGED hub
     \/ /\ Hear(Migrator, "Add", {"error"} \ Skipped)
        /\ hub' = "sites"
        /\ UNCHANGED <<todo, had, untold>>
  /\ UNCHANGED <<legacy, crashed, screen, managed, typed, past>>

\* users.conf cannot be read, or a password cannot be generated; or the legacy
\* files are renamed, unless the rename fails.
MigrationEnds ==
  /\ hub = "migrate" /\ op[Migrator] = NoOp
  /\ \/ legacy' = legacy
     \/ todo > Len(LegacyUsers) /\ legacy' = FALSE
  /\ hub' = "sites"
  /\ UNCHANGED <<storeVars, todo, had, untold, crashed, screen, managed, typed, past>>

-----------------------------------------------------------------------------
\* oob-manage: one call of each command; add and reset generate the password.

Manage ==
  /\ managed < OperatorCalls
  /\ \E name \in {"Add", "Remove", "Lock", "Unlock", "Reset"}, u \in Users :
       Ask(Operator, Op(name, u, Temporary))
  /\ managed' = managed + 1
  /\ UNCHANGED <<hub, migrationVars, screen, typed, past>>

Managed ==
  /\ op[Operator] # NoOp /\ reply[Operator] # "none"
  /\ Hear(Operator, op[Operator].op, {reply[Operator]})
  /\ UNCHANGED <<hub, migrationVars, screen, managed, typed, past>>

-----------------------------------------------------------------------------
\* The login of a session: passwordAuth, then teaHandler.

Login(s) == <<s, 0>>

Turn(s, from, to) == screen[s] = from /\ screen' = [screen EXCEPT ![s] = to]

\* A client offers a password.
Connect(s) ==
  /\ hub = "serve" /\ Turn(s, "none", "auth")
  /\ \E p \in {Temporary} \union Passwords : Ask(Login(s), Op("Authenticate", owner[s], p))
  /\ UNCHANGED <<hub, migrationVars, managed, typed, past>>

\* A refusal, also by an error of the store, may be followed by another try.
Authenticated(s) ==
  /\ \/ Turn(s, "auth", "login") /\ Hear(Login(s), "Authenticate", {"yes"})
     \/ Turn(s, "auth", "none") /\ Hear(Login(s), "Authenticate", {"no", "error"})
  /\ UNCHANGED <<hub, migrationVars, managed, typed, past>>

\* Mutant: a login that could not be stamped goes no further.
LoginGoesOnStamped == {"ok", "notFound"}

\* The answers to UpdateLastLogin after which the login goes on: the answer is ignored.
LoginGoesOn == {"ok", "notFound", "error"}

\* The two calls that follow.
LoginCalls(s) ==
  /\ \/ screen[s] = "login" /\ Ask(Login(s), Op("UpdateLastLogin", owner[s], "none"))
        /\ UNCHANGED screen
     \/ /\ Turn(s, "login", "shell")
        /\ Hear(Login(s), "UpdateLastLogin", LoginGoesOn)
     \/ screen[s] = "shell" /\ Ask(Login(s), Op("MustChangePassword", owner[s], "none"))
        /\ UNCHANGED screen
  /\ UNCHANGED <<hub, migrationVars, managed, typed, past>>

\* The answers to MustChangePassword that lead to the form.
Forced == {"yes"}

\* The form or the menu: an error, or a user removed meanwhile, leads to the menu.
OpenProgram(s) ==
  /\ \/ /\ Turn(s, "shell", "password")
        /\ Hear(Login(s), "MustChangePassword", Forced)
        /\ UNCHANGED past
     \/ /\ Turn(s, "shell", "menu")
        /\ past' = [past EXCEPT ![s].excuse =
             IF reply[Login(s)] \in {"error", "notFound"} THEN @ \union {"store"} ELSE @]
        /\ Hear(Login(s), "MustChangePassword", {"yes", "no", "notFound", "error"} \ Forced)
  /\ UNCHANGED <<hub, migrationVars, managed, typed>>

-----------------------------------------------------------------------------
\* The password form.

\* Mutant: the two fields are not compared.
AcceptedUncompared(pw, confirm) == pw \notin TooShort

\* What submit checks before it calls SetPassword.
Accepted(pw, confirm) == pw \notin TooShort /\ pw = confirm

InFlight(s) == {k \in Submits : op[<<s, k>>] # NoOp}

\* Mutant: the menu is opened at once.
AfterSubmitMenu(s) == [screen EXCEPT ![s] = "menu"]

\* The form stays until it is answered.
AfterSubmit(s) == screen

\* Enter on the second field: submit runs in a goroutine, on a copy of the form.
Submit(s, k) ==
  /\ screen[s] = "password" /\ typed[<<s, k>>] = "none"
  /\ \A j \in Submits : j < k => typed[<<s, j>>] # "none"
  /\ \E pw, confirm \in Passwords :
       /\ \/ Accepted(pw, confirm) /\ Ask(<<s, k>>, Op("SetPassword", owner[s], pw))
          \/ /\ ~Accepted(pw, confirm)
             /\ op' = [op EXCEPT ![<<s, k>>] = Op("Refused", owner[s], "none")]
             /\ reply' = [reply EXCEPT ![<<s, k>>] = "error"]
             /\ UNCHANGED users
       /\ typed' = [typed EXCEPT ![<<s, k>>] = IF Accepted(pw, confirm) THEN confirm ELSE "refused"]
  /\ past' = [past EXCEPT ![s].overlap = @ \/ InFlight(s) # {}]
  /\ screen' = AfterSubmit(s)
  /\ UNCHANGED <<hub, migrationVars, managed>>

\* Mutant: the form is left on any answer.
OpensMenuAlways(r) == TRUE

\* PasswordChangedMsg opens the menu, ErrorMsg is shown in the form.
OpensMenu(r) == r = "ok"

\* The message of a submit reaches the program on whatever screen it is by then:
\* the menu ignores it, and the dialing screen takes an ErrorMsg for its own.
Message(s, k) ==
  /\ screen[s] \in {"password", "menu", "dialing"}
  /\ op[<<s, k>>] # NoOp /\ reply[<<s, k>>] # "none"
  /\ Hear(<<s, k>>, op[<<s, k>>].op, {reply[<<s, k>>]})
  /\ LET leaves == screen[s] = "password" /\ OpensMenu(reply[<<s, k>>])
         strays == screen[s] = "dialing" /\ reply[<<s, k>>] # "ok" IN
       /\ screen' = IF leaves THEN [screen EXCEPT ![s] = "menu"] ELSE screen
       /\ past' = [past EXCEPT ![s].chosen = IF leaves THEN typed[<<s, k>>] ELSE @,
                              ![s].stray = @ \/ strays]
  /\ UNCHANGED <<hub, migrationVars, managed, typed>>

\* A site is dialed and left again; see Console.
Dial(s) ==
  /\ Turn(s, "menu", "dialing") \/ Turn(s, "dialing", "menu")
  /\ UNCHANGED <<storeVars, hub, migrationVars, managed, typed, past>>

\* ctrl+c or q, or a lost connection; its goroutines go on, nobody hears them.
End(s) ==
  /\ screen[s] \notin {"none", "ended"}
  /\ screen' = [screen EXCEPT ![s] = "ended"]
  /\ typed' = [c \in Sessions \X Submits |-> IF c[1] = s THEN "none" ELSE typed[c]]
  /\ past' = [past EXCEPT ![s] = Blank]
  /\ UNCHANGED <<storeVars, hub, migrationVars, managed>>

-----------------------------------------------------------------------------
Migration == MigrateUser \/ MigratedUser \/ MigrationEnds

Session(s) ==
  Authenticated(s) \/ LoginCalls(s) \/ OpenProgram(s) \/ \E k \in Submits : Message(s, k)

Next ==
  \/ Start \/ Exit \/ Serve \/ Migration \/ Manage \/ Managed
  \/ \E c \in Calls : StoreAnswers(c)
  \/ \E s \in Sessions :
       \/ Connect(s) \/ Session(s) \/ Dial(s) \/ End(s)
       \/ \E k \in Submits : Submit(s, k)

Spec == Init /\ [][Next]_vars

\* Every call of the store is answered (CallsReturn of FileStore), and a program
\* handles what it was sent.  Nothing is assumed of users, operators or the hub.
Fairness ==
  /\ \A c \in Sessions \X ({0} \union Submits) : WF_vars(StoreAnswers(c))
  /\ \A s \in Sessions : WF_vars(Session(s))

FairSpec == Spec /\ Fairness
-----------------------------------------------------------------------------
Histories == [excuse : SUBSET {"store", "operator", "tooLong", "otherSession"},
              chosen : Passwords \union {"none"}, overlap : BOOLEAN, stray : BOOLEAN]

TypeOK ==
  /\ users \in [Users -> Accounts \union {NoAccount}]
  /\ op \in [Calls -> Asks \union {NoOp}]
  /\ reply \in [Calls -> {"none", "ok", "yes", "no", "notFound", "exists", "error"}]
  /\ hub \in {"down", "migrate", "sites", "serve"}
  /\ legacy \in BOOLEAN /\ todo \in 1..(Len(LegacyUsers) + 1)
  /\ screen \in [Sessions -> {"none", "auth", "login", "shell", "password", "menu", "dialing",
                              "ended"}]
  /\ managed \in 0..OperatorCalls
  /\ typed \in [Sessions \X Submits -> Passwords \union {"none", "refused"}]
  /\ past \in [Sessions -> Histories]
  /\ had \subseteq Users /\ untold \subseteq Users /\ crashed \subseteq Users

InProgram(s) == screen[s] \in {"menu", "dialing"}

\* Nobody has the menu with a password that must be changed.  What may undo it: the
\* store could not say (server.go:91 then lets the user in), an operator gave a new
\* temporary password meanwhile, or the new password was dropped for its length.
ForcedUsersChange ==
  \A s \in Sessions : InProgram(s) =>
    \/ users[owner[s]] = NoAccount \/ ~users[owner[s]].force
    \/ past[s].excuse \intersect {"store", "operator", "tooLong"} # {}

\* The password of a user who came through the form is the one confirmed there.
\* What may undo it, besides: another session of the same user, or a second submit
\* before the first was answered, whose SetPassword may come first.
ChosenPasswordHolds ==
  \A s \in Sessions : InProgram(s) /\ past[s].chosen # "none" =>
    \/ users[owner[s]] = NoAccount \/ users[owner[s]].pw = past[s].chosen
    \/ past[s].overlap \/ past[s].excuse # {}

\* An error of the password form ends on the dialing screen, where it looks like the
\* end of a dial that goes on, only when the user submitted twice without waiting.
StrayErrorNeedsTwoSubmits == \A s \in Sessions : past[s].stray => past[s].overlap

\* When users.conf is out of the way, every user in it had an account; and the
\* temporary password of a migrated one was printed, unless oob-hub died in between.
MigrationLosesNobody ==
  /\ ~legacy => {LegacyUsers[i] : i \in 1..Len(LegacyUsers)} \subseteq had
  /\ hub # "migrate" => untold \subseteq crashed

\* An account changes for nobody but its user and the operator, whatever is restarted:
\* a session changes its own one, and then the password and its force alone, so a lock
\* that the operator put on a session that runs stays; the migration changes none.
Succeeds(c, u) == op[c] # NoOp /\ op[c].user = u /\ reply[c] = "none" /\ reply'[c] = "ok"

AccountsChangeByRight ==
  [][\A u \in Users : users'[u] # users[u] =>
       \/ Succeeds(Operator, u)
       \/ Succeeds(Migrator, u) /\ users[u] = NoAccount
       \/ \E s \in Sessions, k \in Submits :
            /\ owner[s] = u /\ Succeeds(<<s, k>>, u)
            /\ users[u] # NoAccount
            /\ users'[u] = [users[u] EXCEPT !.pw = op[<<s, k>>].pw, !.force = FALSE]]_vars

(***************************************************************************)
(* The inductive invariant behind these.                                   *)
(***************************************************************************)
\* Who asks what: the operator and the migration give temporary passwords only, and
\* only submits set one that a user chose.
AskedBy ==
  /\ \A c \in Calls : op[c] = NoOp => reply[c] = "none"
  /\ op[Operator] # NoOp =>
       /\ op[Operator].op \in {"Add", "Remove", "Lock", "Unlock", "Reset"}
       /\ op[Operator].pw = Temporary
  /\ op[Migrator] # NoOp =>
       /\ hub = "migrate" /\ todo <= Len(LegacyUsers)
       /\ op[Migrator] = Op("Add", LegacyUsers[todo], Temporary)
  /\ \A s \in Sessions : op[Login(s)] # NoOp =>
       /\ op[Login(s)].op \in {"Authenticate", "UpdateLastLogin", "MustChangePassword"}
       /\ op[Login(s)].user = owner[s]
  /\ \A s \in Sessions, k \in Submits : op[<<s, k>>] # NoOp =>
       /\ op[<<s, k>>].user = owner[s]
       /\ \/ op[<<s, k>>].op = "SetPassword" /\ op[<<s, k>>].pw \in Passwords
          \/ op[<<s, k>>].op = "Refused" /\ reply[<<s, k>>] = "error"

\* Only a hub that serves has sessions.
Serving == \A s \in Sessions : screen[s] \notin {"none", "ended"} => hub = "serve"

\* The migration comes from the first user to the last, and back to the first only with
\* what it has.
Migrated ==
  /\ hub = "migrate" => \A i \in 1..(todo - 1) : LegacyUsers[i] \in had
  /\ ~legacy => \A i \in 1..Len(LegacyUsers) : LegacyUsers[i] \in had
  /\ \A u \in untold \ crashed :
       op[Migrator] # NoOp /\ reply[Migrator] = "ok" /\ op[Migrator].user = u

\* Without an overlap one submit is in flight while the form waits for it, and none
\* before the form and after it.
OneSubmit(s) ==
  /\ screen[s] \in {"none", "auth", "login", "shell"} \/ (InProgram(s) /\ ~past[s].overlap)
       => \A k \in Submits : op[<<s, k>>] = NoOp
  /\ screen[s] = "password" /\ ~past[s].overlap
       => \A j, k \in Submits : op[<<s, j>>] # NoOp /\ op[<<s, k>>] # NoOp => j = k
  /\ ~InProgram(s) => past[s].chosen = "none"
  /\ past[s].stray => past[s].overlap

\* A submit that the form waits for carries what was confirmed in it, if it was accepted.
Confirmed(s) ==
  \A k \in Submits :
    screen[s] = "password" /\ op[<<s, k>>] # NoOp =>
      typed[<<s, k>>] = IF op[<<s, k>>].op = "SetPassword" THEN op[<<s, k>>].pw ELSE "refused"

Answered(c, r) == op[c] # NoOp /\ reply[c] = r

\* From the answer that opens the menu on, whatever others do before it is heard.
Settled(s) ==
  \/ InProgram(s)
  \/ /\ screen[s] = "shell" /\ Answered(Login(s), "no")
     /\ op[Login(s)].op = "MustChangePassword"
  \/ screen[s] = "password" /\ \E k \in Submits : Answered(<<s, k>>, "ok")

Unforced(s) ==
  \/ users[owner[s]] = NoAccount \/ ~users[owner[s]].force
  \/ past[s].excuse \intersect {"store", "operator", "tooLong"} # {}

Holds(s, pw) ==
  \/ users[owner[s]] = NoAccount \/ users[owner[s]].pw = pw
  \/ past[s].overlap \/ past[s].excuse # {}

Chosen(s) ==
  /\ InProgram(s) /\ past[s].chosen # "none" => Holds(s, past[s].chosen)
  /\ screen[s] = "password" =>
       \A k \in Submits : Answered(<<s, k>>, "ok") => Holds(s, op[<<s, k>>].pw)

SessionInv(s) ==
  /\ OneSubmit(s) /\ Confirmed(s)
  /\ Settled(s) => Unforced(s)
  /\ Chosen(s)

HubInv ==
  /\ TypeOK /\ AskedBy /\ Serving /\ Migrated
  /\ \A s \in Sessions : SessionInv(s)

\* No session waits for ever: a login comes to the form, the menu or a refusal, and
\* every submit is answered, also one whose fields are wrong.
Waiting(s) == screen[s] \in {"auth", "login", "shell"} \/ (screen[s] # "ended" /\ InFlight(s) # {})

SessionsAreAnswered == \A s \in Sessions : []<>~Waiting(s)

(***************************************************************************)
(* What the comments and the documentation say, and the code does not do.  *)
(***************************************************************************)

\* README.md:89 "Users get a temporary password and must change it on first login": who
\* has the menu has changed it, or has been given another one since.
FirstLoginChanges ==
  \A s \in Sessions : InProgram(s) =>
    \/ users[owner[s]] = NoAccount \/ ~users[owner[s]].force
    \/ past[s].excuse \intersect {"operator", "tooLong"} # {}

\* messages.go:41 "PasswordChangedMsg is sent after a successful password change": the
\* one submit of a form that the message has closed has changed the password.
ConfirmedIsStored ==
  \A s \in Sessions : InProgram(s) /\ past[s].chosen # "none" =>
    \/ users[owner[s]] = NoAccount \/ users[owner[s]].pw = past[s].chosen
    \/ past[s].overlap \/ past[s].excuse \ {"tooLong"} # {}

\* migrate.go:43 "Rename legacy files so migration doesn't run again": when all its users
\* have been migrated, nobody is brought back by another run of it.
MigrationRunsOnce ==
  [][\A u \in Users : Succeeds(Migrator, u) =>
       \E i \in 1..Len(LegacyUsers) : LegacyUsers[i] \notin had]_vars
=============================================================================
