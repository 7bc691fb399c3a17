------------------------------ MODULE HubProofs ------------------------------
(***************************************************************************)
(* Proofs about Hub, for every number of sessions, submits, users, calls   *)
(* of the operator and restarts of the hub.                                *)
(***************************************************************************)
EXTENDS Hub, TLAPS

USE HubAssumption

LEMMA InitHubInv == Init => HubInv
<1> SUFFICES ASSUME Init PROVE HubInv
    OBVIOUS
<1>1. TypeOK
  <2>1. Blank \in Histories
    BY DEF Blank, Histories
  <2>2. past \in [Sessions -> Histories]
    BY <2>1 DEF Init
  <2> QED BY <2>2 DEF Init, TypeOK
<1>2. AskedBy /\ Serving
  BY DEF Init, AskedBy, Serving, Calls, Login
<1>3. Migrated
  BY DEF Init, Migrated
<1>4. ASSUME NEW s \in Sessions PROVE SessionInv(s)
  <2>1. OneSubmit(s) /\ Confirmed(s)
    BY DEF Init, OneSubmit, Confirmed, Blank, InProgram, Calls
  <2>2. ~Settled(s)
    BY DEF Init, Settled, InProgram
  <2>3. Chosen(s)
    BY DEF Init, Chosen, InProgram
  <2> QED BY <2>1, <2>2, <2>3 DEF SessionInv
<1> QED BY <1>1, <1>2, <1>3, <1>4 DEF HubInv

\* The callers are different calls.
LEMMA CallersDiffer ==
  /\ Operator \in Calls /\ Migrator \in Calls /\ Operator # Migrator
  /\ \A s \in Sessions : Login(s) \in Calls \ {Operator, Migrator}
  /\ \A s \in Sessions, k \in Submits : <<s, k>> \in Calls \ {Operator, Migrator}
  /\ \A s, t \in Sessions, k \in Submits : Login(s) # <<t, k>>
  /\ \A s, t \in Sessions : Login(s) = Login(t) => s = t
BY DEF Calls, Login

\* What an answer of the store does, whoever asked: to one account, and how.
Told(c, r) ==
  /\ op[c] # NoOp /\ op[c] \in Asks /\ reply[c] = "none" /\ UNCHANGED op
  /\ reply' = [reply EXCEPT ![c] = r]

Changed(c, new) ==
  /\ new \in Accounts \union {NoAccount}
  /\ users' = [users EXCEPT ![op[c].user] = new]

Effect(c) ==
  \/ /\ op[c].op # "Refused" /\ UNCHANGED users
     /\ \E r \in {"yes", "no", "notFound", "exists", "error"} :
          /\ Told(c, r)
          /\ op[c].op = "MustChangePassword" /\ r = "no" => ~users[op[c].user].force
  \/ /\ Told(c, "ok")
     /\ LET a == users[op[c].user] IN
        \/ /\ op[c].op = "Add" /\ a = NoAccount
           /\ Changed(c, [pw |-> op[c].pw, locked |-> FALSE, force |-> TRUE])
        \/ op[c].op = "Remove" /\ Changed(c, NoAccount)
        \/ /\ op[c].op \in {"UpdateLastLogin", "Lock", "Unlock"} /\ a # NoAccount
           /\ \E b \in BOOLEAN :
                /\ op[c].op = "UpdateLastLogin" => b = a.locked
                /\ Changed(c, [a EXCEPT !.locked = b])
        \/ op[c].op \in {"SetPassword", "Reset"} /\ op[c].pw \in TooLong /\ Changed(c, a)
        \/ /\ op[c].op \in {"SetPassword", "Reset"} /\ op[c].pw \notin TooLong /\ a # NoAccount
           /\ Changed(c, [a EXCEPT !.pw = op[c].pw, !.force = (op[c].op = "Reset")])

\* From what is asked to who asks it.
LEMMA WhoAsks ==
  ASSUME TypeOK, AskedBy, NEW c \in Calls, op[c] # NoOp
  PROVE  /\ op[c] \in Asks
         /\ op[c].op = "Refused" => reply[c] = "error"
         /\ op[c].op \in {"Add", "Reset"} => op[c].pw = Temporary
         /\ op[c].op \in {"Remove", "Lock", "Unlock", "Reset"} => c = Operator
         /\ op[c].op = "Add" => c \in {Operator, Migrator}
         /\ op[c].op = "SetPassword" =>
              op[c].pw \in Passwords /\ \E s \in Sessions, k \in Submits : c = <<s, k>>
         /\ op[c].op = "MustChangePassword" => \E s \in Sessions : c = Login(s)
<1>0. op[c] \in Asks
  BY DEF TypeOK
<1>1. CASE c = Operator BY <1>0, <1>1 DEF AskedBy
<1>2. CASE c = Migrator
  BY <1>0, <1>2 DEF AskedBy, Op
<1>3. CASE \E s \in Sessions : c = Login(s)
  BY <1>0, <1>3 DEF AskedBy
<1>4. CASE \E s \in Sessions, k \in Submits : c = <<s, k>>
  BY <1>0, <1>4 DEF AskedBy
<1>5. ASSUME NEW s \in Sessions, NEW k \in {0} \union Submits, c = <<s, k>>
      PROVE  \/ c = Login(s) \/ k \in Submits
  BY <1>5 DEF Login
<1>6. \/ c \in {Operator, Migrator}
      \/ \E s \in Sessions, k \in {0} \union Submits : c = <<s, k>>
  <2>1. \/ c \in {Operator, Migrator} \/ c \in Sessions \X ({0} \union Submits)
    BY DEF Calls
  <2>2. ASSUME c \in Sessions \X ({0} \union Submits)
        PROVE  c[1] \in Sessions /\ c[2] \in {0} \union Submits /\ c = <<c[1], c[2]>>
    BY <2>2
  <2> QED BY <2>1, <2>2
<1> QED BY <1>1, <1>2, <1>3, <1>4, <1>5, <1>6

LEMMA ChangeEffect ==
  ASSUME TypeOK, NEW c \in Calls, NEW name, NEW new, Store!Change(c, name, new),
         users[op[c].user] # NoAccount => new \in Accounts \union {NoAccount}
  PROVE  /\ op[c].op = name
         /\ \/ Told(c, "notFound") /\ UNCHANGED users
            \/ Told(c, "ok") /\ Changed(c, new) /\ users[op[c].user] # NoAccount
BY DEF Store!Change, Store!Pending, Store!Exists, Store!account, Store!Answer, Told, Changed, TypeOK

LEMMA AnswerEffect ==
  ASSUME TypeOK, AskedBy, NEW c \in Calls, StoreAnswers(c)
  PROVE  Effect(c)
<1> USE DEF Store!Answer, Store!Pending, Store!account
<1> DEFINE a == users[op[c].user]
<1>0. op[c] # NoOp => op[c] \in Asks /\ op[c].user \in Users /\ a \in Accounts \union {NoAccount}
  BY DEF TypeOK, Asks
<1>1. CASE Store!Fail(c)
  BY <1>0, <1>1, WhoAsks DEF Store!Fail, Effect, Told
<1>2. CASE Store!Authenticate(c)
  BY <1>0, <1>2 DEF Store!Authenticate, Effect, Told
<1>3. CASE Store!MustChangePassword(c)
  BY <1>0, <1>3 DEF Store!MustChangePassword, Store!Exists, Effect, Told
<1>4. CASE Store!Add(c)
  <2>1. op[c] # NoOp /\ op[c].op = "Add" /\ op[c].pw = Temporary
    BY <1>4, WhoAsks DEF Store!Add
  <2>2. [pw |-> op[c].pw, locked |-> FALSE, force |-> TRUE] \in Accounts \union {NoAccount}
    BY <2>1 DEF Accounts
  <2> QED BY <1>0, <1>4, <2>1, <2>2 DEF Store!Add, Store!Exists, Effect, Told, Changed
<1>5. CASE Store!Remove(c)
  BY <1>5, ChangeEffect DEF Store!Remove, Effect
<1>6. ASSUME NEW name \in {"UpdateLastLogin", "Lock", "Unlock"}, NEW b \in BOOLEAN, NEW new,
             a # NoAccount => new = [a EXCEPT !.locked = b], Store!Change(c, name, new),
             name = "UpdateLastLogin" /\ a # NoAccount => b = a.locked
      PROVE  Effect(c)
  <2>1. op[c] # NoOp
    BY <1>6 DEF Store!Change
  <2>2. a # NoAccount => new \in Accounts
    BY <1>0, <1>6, <2>1 DEF Accounts
  <2> QED BY <1>6, <2>2, ChangeEffect DEF Effect
<1>7. CASE Store!Lock(c) BY <1>6, <1>7 DEF Store!Lock
<1>8. CASE Store!Unlock(c) BY <1>6, <1>8 DEF Store!Unlock
<1>9. CASE Store!UpdateLastLogin(c)
  <2>1. op[c] # NoOp
    BY <1>9 DEF Store!UpdateLastLogin, Store!Change
  <2>2. a # NoAccount => a.locked \in BOOLEAN /\ a = [a EXCEPT !.locked = a.locked]
    BY <1>0, <2>1 DEF Accounts
  <2>3. PICK b \in BOOLEAN : a # NoAccount => a = [a EXCEPT !.locked = b] /\ b = a.locked
    BY <2>2
  <2> QED BY <1>6, <1>9, <2>3 DEF Store!UpdateLastLogin
<1>10. ASSUME NEW name \in {"SetPassword", "Reset"},
              Store!Change(c, name, Store!NewPassword(c, name = "Reset"))
       PROVE  Effect(c)
  <2>1. op[c] # NoOp /\ op[c].op = name
    BY <1>10 DEF Store!Change
  <2>2. op[c].pw \in Passwords \union {Temporary}
    BY <1>10, <2>1, WhoAsks
  <2>3. CASE op[c].pw \in TooLong
    <3>1. Store!NewPassword(c, name = "Reset") = a
      BY <2>3 DEF Store!NewPassword
    <3> QED BY <1>0, <1>10, <2>1, <2>3, <3>1, ChangeEffect DEF Effect
  <2>4. CASE op[c].pw \notin TooLong
    <3>1. Store!NewPassword(c, name = "Reset") = [a EXCEPT !.pw = op[c].pw, !.force = (name = "Reset")]
      BY <2>4 DEF Store!NewPassword
    <3>2. a # NoAccount => Store!NewPassword(c, name = "Reset") \in Accounts
      BY <1>0, <2>1, <2>2, <3>1 DEF Accounts
    <3> QED BY <1>0, <1>10, <2>1, <2>4, <3>1, <3>2, ChangeEffect DEF Effect
  <2> QED BY <2>3, <2>4
<1>11. CASE Store!SetPassword(c)
  <2>1. ("SetPassword" = "Reset") = FALSE
    OBVIOUS
  <2> QED BY <1>10, <1>11, <2>1 DEF Store!SetPassword
<1>12. CASE Store!Reset(c)
  <2>1. ("Reset" = "Reset") = TRUE
    OBVIOUS
  <2> QED BY <1>10, <1>12, <2>1 DEF Store!Reset
<1> QED BY <1>1, <1>2, <1>3, <1>4, <1>5, <1>7, <1>8, <1>9, <1>11, <1>12 DEF StoreAnswers

-----------------------------------------------------------------------------
\* The type invariant.

StoreTypes ==
  /\ users \in [Users -> Accounts \union {NoAccount}]
  /\ op \in [Calls -> Asks \union {NoOp}]
  /\ reply \in [Calls -> {"none", "ok", "yes", "no", "notFound", "exists", "error"}]

SessionTypes ==
  /\ screen \in [Sessions -> {"none", "auth", "login", "shell", "password", "menu", "dialing",
                              "ended"}]
  /\ typed \in [Sessions \X Submits -> Passwords \union {"none", "refused"}]
  /\ past \in [Sessions -> Histories]

LEMMA AskTypes ==
  ASSUME StoreTypes, NEW c \in Calls, NEW o \in Asks, Ask(c, o)
  PROVE  StoreTypes'
BY DEF StoreTypes, Ask

LEMMA HearTypes ==
  ASSUME StoreTypes, NEW c \in Calls, NEW name, NEW answers, Hear(c, name, answers)
  PROVE  StoreTypes'
BY DEF StoreTypes, Hear

LEMMA EffectTypes ==
  ASSUME StoreTypes, NEW c \in Calls, Effect(c)
  PROVE  StoreTypes'
<1>0. op[c] \in Asks => op[c].user \in Users
  BY DEF Asks
<1>1. \A r \in {"ok", "yes", "no", "notFound", "exists", "error"} :
        Told(c, r) => op[c] \in Asks /\ op' = op
          /\ reply' \in [Calls -> {"none", "ok", "yes", "no", "notFound", "exists", "error"}]
  BY DEF StoreTypes, Told
<1>2. ASSUME op[c] \in Asks, NEW new, Changed(c, new)
      PROVE  users' \in [Users -> Accounts \union {NoAccount}]
  BY <1>0, <1>2 DEF StoreTypes, Changed
<1> QED BY <1>1, <1>2 DEF Effect, StoreTypes

\* A history with one of its fields changed is one.
LEMMA HistoryTypes ==
  ASSUME NEW h \in Histories
  PROVE  /\ h.excuse \subseteq {"store", "operator", "tooLong", "otherSession"}
         /\ h.chosen \in Passwords \union {"none"}
         /\ h.overlap \in BOOLEAN /\ h.stray \in BOOLEAN
         /\ \A e \in SUBSET {"store", "operator", "tooLong", "otherSession"} :
              [h EXCEPT !.excuse = e] \in Histories
         /\ \A o \in BOOLEAN : [h EXCEPT !.overlap = o] \in Histories
         /\ \A ch \in Passwords \union {"none"}, st \in BOOLEAN :
              [h EXCEPT !.chosen = ch, !.stray = st] \in Histories
         /\ Blank \in Histories
BY DEF Histories, Blank

LEMMA ExcuseTypes ==
  ASSUME SessionTypes, NEW c \in Calls, Excuse(c)
  PROVE  past' \in [Sessions -> Histories]
<1> DEFINE new(s) == IF screen[s] \in {"none", "ended"} \/ op[c].user # owner[s] THEN {}
     ELSE IF c \in {Operator} /\ op[c].op \in {"Add", "Reset"} THEN {"operator"}
     ELSE IF op[c].op = "SetPassword" /\ op[c].pw \in TooLong THEN {"tooLong"}
     ELSE IF c \notin {Operator, Migrator} /\ op[c].op = "SetPassword" /\ c[1] # s
          THEN {"otherSession"} ELSE {}
<1>1. past' = [s \in Sessions |-> [past[s] EXCEPT !.excuse = @ \union new(s)]]
  BY DEF Excuse
<1>2. \A s \in Sessions : new(s) \subseteq {"operator", "tooLong", "otherSession"}
  OBVIOUS
<1> HIDE DEF new
<1>3. ASSUME NEW s \in Sessions
      PROVE  [past[s] EXCEPT !.excuse = @ \union new(s)] \in Histories
  <2>1. past[s] \in Histories
    BY DEF SessionTypes
  <2>2. past[s].excuse \union new(s) \in SUBSET {"store", "operator", "tooLong", "otherSession"}
    BY <1>2, <2>1, HistoryTypes
  <2>3. [past[s] EXCEPT !.excuse = past[s].excuse \union new(s)] \in Histories
    BY <2>1, <2>2, HistoryTypes
  <2> QED BY <2>3
<1> QED BY <1>1, <1>3

LEMMA NextType == HubInv /\ [Next]_vars => TypeOK'
<1> SUFFICES ASSUME HubInv, [Next]_vars PROVE TypeOK'
    OBVIOUS
<1> DEFINE Rest == /\ hub \in {"down", "migrate", "sites", "serve"}
                   /\ legacy \in BOOLEAN /\ todo \in 1..(Len(LegacyUsers) + 1)
                   /\ managed \in 0..OperatorCalls
                   /\ had \subseteq Users /\ untold \subseteq Users /\ crashed \subseteq Users
<1>0. TypeOK <=> StoreTypes /\ SessionTypes /\ Rest
  BY DEF TypeOK, StoreTypes, SessionTypes
<1>a. TypeOK' <=> StoreTypes' /\ SessionTypes' /\ Rest'
  BY DEF TypeOK, StoreTypes, SessionTypes
<1>b. TypeOK /\ AskedBy /\ StoreTypes /\ SessionTypes /\ Rest
  BY <1>0 DEF HubInv
<1>c. ASSUME UNCHANGED storeVars PROVE StoreTypes'
  BY <1>b, <1>c DEF storeVars, StoreTypes
<1>d. ASSUME UNCHANGED <<screen, typed, past>> PROVE SessionTypes'
  BY <1>b, <1>d DEF SessionTypes
<1>e. ASSUME UNCHANGED <<hub, migrationVars, managed>> PROVE Rest'
  BY <1>b, <1>e DEF migrationVars
<1>f. ASSUME NEW s \in Sessions, NEW from, NEW to, Turn(s, from, to),
             to \in {"none", "auth", "login", "shell", "password", "menu", "dialing", "ended"}
      PROVE  screen' \in [Sessions -> {"none", "auth", "login", "shell", "password", "menu",
                                       "dialing", "ended"}]
  BY <1>b, <1>f DEF Turn, SessionTypes
<1>g. ASSUME NEW name \in {"Authenticate", "UpdateLastLogin", "MustChangePassword", "SetPassword",
                           "Refused", "Add", "Remove", "Lock", "Unlock", "Reset"},
             NEW u \in Users, NEW p \in Passwords \union {Temporary, "none"}
      PROVE  Op(name, u, p) \in Asks
  BY DEF Op, Asks
<1> HIDE DEF Rest
<1>1. CASE Start
  <2>1. Rest'
    BY <1>1, <1>b DEF Start, Rest
  <2> QED BY <1>1, <1>a, <1>c, <1>d, <2>1 DEF Start
<1>2. CASE Exit
  <2>1. StoreTypes'
    BY <1>2, <1>b DEF Exit, StoreTypes
  <2>2. SessionTypes'
    BY <1>2, <1>b, HistoryTypes DEF Exit, SessionTypes, Blank, Histories
  <2>3. Rest'
    BY <1>2, <1>b DEF Exit, Rest
  <2> QED BY <1>a, <2>1, <2>2, <2>3
<1>3. CASE Serve
  <2>1. Rest'
    BY <1>3, <1>b DEF Serve, Rest, migrationVars
  <2> QED BY <1>3, <1>a, <1>c, <1>d, <2>1 DEF Serve
<1>4. CASE MigrateUser
  <2>1. Op("Add", LegacyUsers[todo], Temporary) \in Asks
    BY <1>4, <1>b, <1>g DEF MigrateUser, Rest
  <2>2. StoreTypes'
    BY <1>4, <1>b, <2>1, AskTypes, CallersDiffer DEF MigrateUser
  <2> QED BY <1>4, <1>a, <1>d, <1>e, <2>2 DEF MigrateUser
<1>5. CASE MigratedUser
  <2>1. StoreTypes'
    BY <1>5, <1>b, HearTypes, CallersDiffer DEF MigratedUser
  <2>2. op[Migrator] \in Asks /\ todo <= Len(LegacyUsers)
    BY <1>5, <1>b, CallersDiffer DEF MigratedUser, Hear, AskedBy, StoreTypes
  <2>3. op[Migrator].user \in Users
    BY <2>2 DEF Asks
  <2>4. Rest'
    BY <1>5, <1>b, <2>2, <2>3 DEF MigratedUser, Rest
  <2> QED BY <1>5, <1>a, <1>d, <2>1, <2>4 DEF MigratedUser
<1>6. CASE MigrationEnds
  <2>1. Rest'
    BY <1>6, <1>b DEF MigrationEnds, Rest
  <2> QED BY <1>6, <1>a, <1>c, <1>d, <2>1 DEF MigrationEnds
<1>7. CASE Manage
  <2>1. PICK name \in {"Add", "Remove", "Lock", "Unlock", "Reset"}, u \in Users :
          Ask(Operator, Op(name, u, Temporary))
    BY <1>7 DEF Manage
  <2>2. StoreTypes'
    BY <1>b, <1>g, <2>1, AskTypes, CallersDiffer
  <2>3. Rest'
    BY <1>7, <1>b DEF Manage, Rest, migrationVars
  <2> QED BY <1>7, <1>a, <1>d, <2>2, <2>3 DEF Manage
<1>8. CASE Managed
  <2>1. StoreTypes'
    BY <1>8, <1>b, HearTypes, CallersDiffer DEF Managed
  <2> QED BY <1>8, <1>a, <1>d, <1>e, <2>1 DEF Managed
<1>9. ASSUME NEW c \in Calls, StoreAnswers(c) PROVE TypeOK'
  <2>1. Effect(c)
    BY <1>9, <1>b, AnswerEffect
  <2>2. op[c] \in Asks
    BY <2>1 DEF Effect, Told
  <2>3. op[c].user \in Users
    BY <2>2 DEF Asks
  <2>4. StoreTypes'
    BY <1>b, <2>1, EffectTypes
  <2>5. past' \in [Sessions -> Histories]
    BY <1>9, <1>b, ExcuseTypes DEF StoreAnswers
  <2>6. SessionTypes'
    BY <1>9, <1>b, <2>5 DEF StoreAnswers, SessionTypes
  <2>7. Rest'
    BY <1>9, <1>b, <2>3 DEF StoreAnswers, Rest
  <2> QED BY <1>a, <2>4, <2>6, <2>7
<1>10. ASSUME NEW s \in Sessions, Connect(s) PROVE TypeOK'
  <2>1. PICK p \in {Temporary} \union Passwords : Ask(Login(s), Op("Authenticate", owner[s], p))
    BY <1>10 DEF Connect
  <2>2. StoreTypes'
    BY <1>b, <1>g, <2>1, AskTypes, CallersDiffer
  <2>3. SessionTypes'
    BY <1>10, <1>b, <1>f DEF Connect, SessionTypes
  <2> QED BY <1>10, <1>a, <1>e, <2>2, <2>3 DEF Connect
<1>11. ASSUME NEW s \in Sessions, Authenticated(s) PROVE TypeOK'
  <2>1. StoreTypes'
    BY <1>11, <1>b, HearTypes, CallersDiffer DEF Authenticated
  <2>2. SessionTypes'
    BY <1>11, <1>b, <1>f DEF Authenticated, SessionTypes
  <2> QED BY <1>11, <1>a, <1>e, <2>1, <2>2 DEF Authenticated
<1>12. ASSUME NEW s \in Sessions, LoginCalls(s) PROVE TypeOK'
  <2>1. /\ Op("UpdateLastLogin", owner[s], "none") \in Asks
        /\ Op("MustChangePassword", owner[s], "none") \in Asks
    BY <1>g
  <2>2. StoreTypes'
    BY <1>12, <1>b, <2>1, AskTypes, HearTypes, CallersDiffer DEF LoginCalls
  <2>3. SessionTypes'
    BY <1>12, <1>b, <1>f DEF LoginCalls, SessionTypes
  <2> QED BY <1>12, <1>a, <1>e, <2>2, <2>3 DEF LoginCalls
<1>13. ASSUME NEW s \in Sessions, OpenProgram(s) PROVE TypeOK'
  <2>1. StoreTypes'
    BY <1>13, <1>b, HearTypes, CallersDiffer DEF OpenProgram
  <2>2. past[s] \in Histories
    BY <1>b DEF SessionTypes
  <2>3. past[s].excuse \union {"store"} \in SUBSET {"store", "operator", "tooLong", "otherSession"}
    BY <2>2, HistoryTypes
  <2>4. past' \in [Sessions -> Histories]
    <3>1. PICK e \in SUBSET {"store", "operator", "tooLong", "otherSession"} :
            past' = past \/ past' = [past EXCEPT ![s] = [past[s] EXCEPT !.excuse = e]]
      <4>1. past[s].excuse \in SUBSET {"store", "operator", "tooLong", "otherSession"}
        BY <2>3
      <4> QED BY <1>13, <1>b, <2>3, <4>1 DEF OpenProgram, SessionTypes
    <3>2. [past[s] EXCEPT !.excuse = e] \in Histories
      BY <2>2, HistoryTypes
    <3> QED BY <1>b, <3>1, <3>2 DEF SessionTypes
  <2>5. SessionTypes'
    BY <1>13, <1>b, <1>f, <2>4 DEF OpenProgram, SessionTypes
  <2> QED BY <1>13, <1>a, <1>e, <2>1, <2>5 DEF OpenProgram
<1>14. ASSUME NEW s \in Sessions, NEW k \in Submits, Message(s, k) PROVE TypeOK'
  <2>1. StoreTypes'
    BY <1>14, <1>b, HearTypes, CallersDiffer DEF Message
  <2> DEFINE leaves == screen[s] = "password" /\ OpensMenu(reply[<<s, k>>])
             strays == screen[s] = "dialing" /\ reply[<<s, k>>] # "ok"
  <2>2. past[s] \in Histories
    BY <1>b DEF SessionTypes
  <2>3. leaves => typed[<<s, k>>] \in Passwords \union {"none"}
    <3>1. leaves => reply[<<s, k>>] = "ok"
      BY DEF OpensMenu
    <3>2. leaves => op[<<s, k>>].op = "SetPassword" /\ op[<<s, k>>].pw \in Passwords
      BY <1>14, <1>b, <3>1 DEF Message, AskedBy
    <3>3. leaves => typed[<<s, k>>] = op[<<s, k>>].pw
      BY <1>14, <3>2 DEF Message, HubInv, SessionInv, Confirmed
    <3> QED BY <3>2, <3>3
  <2>4. past' = [past EXCEPT ![s] = [past[s] EXCEPT
                   !.chosen = IF leaves THEN typed[<<s, k>>] ELSE past[s].chosen,
                   !.stray = past[s].stray \/ strays]]
    BY <1>14, <1>b DEF Message, SessionTypes
  <2>5. past' \in [Sessions -> Histories]
    <3>1. (IF leaves THEN typed[<<s, k>>] ELSE past[s].chosen) \in Passwords \union {"none"}
      BY <2>2, <2>3, HistoryTypes
    <3>2. (past[s].stray \/ strays) \in BOOLEAN
      BY <2>2, HistoryTypes
    <3>3. [past[s] EXCEPT !.chosen = IF leaves THEN typed[<<s, k>>] ELSE past[s].chosen,
                          !.stray = past[s].stray \/ strays] \in Histories
      BY <2>2, <3>1, <3>2, HistoryTypes
    <3> QED BY <1>b, <2>4, <3>3 DEF SessionTypes
  <2>6. screen' \in [Sessions -> {"none", "auth", "login", "shell", "password", "menu", "dialing",
                                  "ended"}]
    BY <1>14, <1>b DEF Message, SessionTypes
  <2>7. SessionTypes'
    BY <1>14, <1>b, <2>5, <2>6 DEF Message, SessionTypes
  <2> QED BY <1>14, <1>a, <1>e, <2>1, <2>7 DEF Message
<1>15. ASSUME NEW s \in Sessions, Dial(s) PROVE TypeOK'
  <2>1. SessionTypes'
    BY <1>15, <1>b, <1>f DEF Dial, SessionTypes
  <2> QED BY <1>15, <1>a, <1>c, <1>e, <2>1 DEF Dial
<1>16. ASSUME NEW s \in Sessions, End(s) PROVE TypeOK'
  <2>1. SessionTypes'
    <3>1. past' \in [Sessions -> Histories]
      <4>1. Blank \in Histories
        BY DEF Blank, Histories
      <4> QED BY <1>16, <1>b, <4>1 DEF End, SessionTypes
    <3>2. screen' \in [Sessions -> {"none", "auth", "login", "shell", "password", "menu",
                                    "dialing", "ended"}]
      BY <1>16, <1>b DEF End, SessionTypes
    <3>3. typed' \in [Sessions \X Submits -> Passwords \union {"none", "refused"}]
      BY <1>16, <1>b DEF End, SessionTypes
    <3> QED BY <3>1, <3>2, <3>3 DEF SessionTypes
  <2> QED BY <1>16, <1>a, <1>c, <1>e, <2>1 DEF End
<1>17. ASSUME NEW s \in Sessions, NEW k \in Submits, Submit(s, k) PROVE TypeOK'
  <2>1. PICK pw \in Passwords, confirm \in Passwords :
          /\ \/ Accepted(pw, confirm) /\ Ask(<<s, k>>, Op("SetPassword", owner[s], pw))
             \/ /\ ~Accepted(pw, confirm)
                /\ op' = [op EXCEPT ![<<s, k>>] = Op("Refused", owner[s], "none")]
                /\ reply' = [reply EXCEPT ![<<s, k>>] = "error"]
                /\ UNCHANGED users
          /\ typed' = [typed EXCEPT ![<<s, k>>] =
                         IF Accepted(pw, confirm) THEN confirm ELSE "refused"]
    BY <1>17 DEF Submit
  <2>2. Op("SetPassword", owner[s], pw) \in Asks /\ Op("Refused", owner[s], "none") \in Asks
    BY <1>g
  <2>3. StoreTypes'
    <3>1. CASE Ask(<<s, k>>, Op("SetPassword", owner[s], pw))
      BY <1>b, <2>2, <3>1, AskTypes, CallersDiffer
    <3>2. CASE /\ op' = [op EXCEPT ![<<s, k>>] = Op("Refused", owner[s], "none")]
               /\ reply' = [reply EXCEPT ![<<s, k>>] = "error"]
               /\ UNCHANGED users
      BY <1>b, <2>2, <3>2, CallersDiffer DEF StoreTypes
    <3> QED BY <2>1, <3>1, <3>2
  <2>4. past[s] \in Histories
    BY <1>b DEF SessionTypes
  <2>5. (past[s].overlap \/ InFlight(s) # {}) \in BOOLEAN
    BY <2>4, HistoryTypes
  <2>6. past' \in [Sessions -> Histories]
    BY <1>17, <1>b, <2>4, <2>5, HistoryTypes DEF Submit, SessionTypes
  <2>7. typed' \in [Sessions \X Submits -> Passwords \union {"none", "refused"}]
    BY <1>b, <2>1 DEF SessionTypes
  <2>8. SessionTypes'
    BY <1>17, <1>b, <2>6, <2>7 DEF Submit, AfterSubmit, SessionTypes
  <2> QED BY <1>17, <1>a, <1>e, <2>3, <2>8 DEF Submit
<1>18. CASE UNCHANGED vars
  BY <1>18, <1>a, <1>c, <1>d, <1>e DEF vars, storeVars, migrationVars
<1> QED BY <1>1, <1>2, <1>3, <1>4, <1>5, <1>6, <1>7, <1>8, <1>9, <1>10, <1>11, <1>12, <1>13,
           <1>14, <1>15, <1>16, <1>17, <1>18 DEF Next, Migration, Session

-----------------------------------------------------------------------------
\* What the steps do to the calls.

LEMMA AfterAsk ==
  ASSUME TypeOK, NEW c \in Calls, NEW o, Ask(c, o)
  PROVE  /\ op[c] = NoOp /\ op'[c] = o
         /\ \A d \in Calls : d # c => op'[d] = op[d]
         /\ reply' = reply /\ users' = users
BY DEF Ask, TypeOK

LEMMA AfterHear ==
  ASSUME TypeOK, NEW c \in Calls, NEW name, NEW answers, Hear(c, name, answers)
  PROVE  /\ op[c] # NoOp /\ op[c].op = name /\ reply[c] \in answers
         /\ op'[c] = NoOp /\ reply'[c] = "none"
         /\ \A d \in Calls : d # c => op'[d] = op[d] /\ reply'[d] = reply[d]
         /\ users' = users
BY DEF Hear, TypeOK

LEMMA AfterAnswer ==
  ASSUME TypeOK, AskedBy, NEW c \in Calls, StoreAnswers(c)
  PROVE  /\ op' = op /\ op[c] # NoOp /\ reply[c] = "none" /\ op[c].op # "Refused"
         /\ \A d \in Calls : d # c => reply'[d] = reply[d]
<1>1. Effect(c)
  BY AnswerEffect
<1>2. \A r : Told(c, r) => /\ op' = op /\ op[c] # NoOp /\ reply[c] = "none"
                           /\ \A d \in Calls : d # c => reply'[d] = reply[d]
  BY DEF Told, TypeOK
<1>3. op[c] # NoOp /\ reply[c] = "none"
  BY <1>1, <1>2 DEF Effect
<1>4. op[c].op # "Refused"
  BY <1>3, WhoAsks
<1> QED BY <1>1, <1>2, <1>4 DEF Effect

LEMMA EnterElsewhere ==
  ASSUME TypeOK, NEW s \in Sessions, NEW k \in Submits, Submit(s, k)
  PROVE  /\ \A d \in Calls : d # <<s, k>> => op'[d] = op[d] /\ reply'[d] = reply[d]
         /\ \A d \in Sessions \X Submits : d # <<s, k>> => typed'[d] = typed[d]
<1>1. PICK o, r, t :
        /\ op' = [op EXCEPT ![<<s, k>>] = o]
        /\ reply' = reply \/ reply' = [reply EXCEPT ![<<s, k>>] = r]
        /\ typed' = [typed EXCEPT ![<<s, k>>] = t]
  BY DEF Submit, Ask
<1>2. \A d \in Calls : d # <<s, k>> => op'[d] = op[d]
  BY <1>1 DEF TypeOK
<1>3. \A d \in Calls : d # <<s, k>> => reply'[d] = reply[d]
  BY <1>1 DEF TypeOK
<1>4. \A d \in Sessions \X Submits : d # <<s, k>> => typed'[d] = typed[d]
  BY <1>1 DEF TypeOK
<1> QED BY <1>2, <1>3, <1>4

LEMMA AfterEnter ==
  ASSUME TypeOK, AskedBy, NEW s \in Sessions, Confirmed(s), NEW k \in Submits, Submit(s, k)
  PROVE  /\ screen[s] = "password" /\ op[<<s, k>>] = NoOp
         /\ users' = users /\ screen' = screen
         /\ op'[<<s, k>>] \in Asks /\ op'[<<s, k>>] # NoOp /\ op'[<<s, k>>].user = owner[s]
         /\ \/ /\ op'[<<s, k>>].op = "SetPassword" /\ op'[<<s, k>>].pw \in Passwords
               /\ typed'[<<s, k>>] = op'[<<s, k>>].pw
               /\ reply'[<<s, k>>] = "none"
            \/ /\ op'[<<s, k>>].op = "Refused" /\ typed'[<<s, k>>] = "refused"
               /\ reply'[<<s, k>>] = "error"
<1>0. <<s, k>> \in Calls /\ <<s, k>> \in Sessions \X Submits
  BY CallersDiffer
<1>1. PICK pw \in Passwords, confirm \in Passwords :
        /\ \/ Accepted(pw, confirm) /\ Ask(<<s, k>>, Op("SetPassword", owner[s], pw))
           \/ /\ ~Accepted(pw, confirm)
              /\ op' = [op EXCEPT ![<<s, k>>] = Op("Refused", owner[s], "none")]
              /\ reply' = [reply EXCEPT ![<<s, k>>] = "error"]
              /\ UNCHANGED users
        /\ typed' = [typed EXCEPT ![<<s, k>>] =
                       IF Accepted(pw, confirm) THEN confirm ELSE "refused"]
  BY DEF Submit
<1>2. screen[s] = "password" /\ screen' = screen /\ typed[<<s, k>>] = "none"
  BY DEF Submit, AfterSubmit
<1>3. op[<<s, k>>] = NoOp /\ reply[<<s, k>>] = "none"
  <2>1. "none" \notin Passwords
    OBVIOUS
  <2>2. op[<<s, k>>] # NoOp /\ op[<<s, k>>].op = "SetPassword" => op[<<s, k>>].pw \in Passwords
    BY DEF AskedBy
  <2>3. op[<<s, k>>] # NoOp => typed[<<s, k>>] \in Passwords \union {"refused"}
    BY <1>2, <2>2 DEF Confirmed
  <2> QED BY <1>0, <1>2, <2>1, <2>3 DEF AskedBy
<1>a. Op("SetPassword", owner[s], pw) \in Asks /\ Op("Refused", owner[s], "none") \in Asks
  BY DEF Op, Asks
<1>b. NoOp \notin Asks
  OBVIOUS
<1>4. CASE Accepted(pw, confirm)
  <2>1. Ask(<<s, k>>, Op("SetPassword", owner[s], pw)) /\ pw = confirm
    BY <1>1, <1>4 DEF Accepted
  <2>2. typed' = [typed EXCEPT ![<<s, k>>] = pw]
    BY <1>1, <1>4, <2>1
  <2> QED BY <1>0, <1>a, <1>b, <1>2, <1>3, <2>1, <2>2, AfterAsk DEF Op, TypeOK
<1>5. CASE ~Accepted(pw, confirm)
  <2>1. /\ op' = [op EXCEPT ![<<s, k>>] = Op("Refused", owner[s], "none")]
        /\ reply' = [reply EXCEPT ![<<s, k>>] = "error"]
        /\ UNCHANGED users
        /\ typed' = [typed EXCEPT ![<<s, k>>] = "refused"]
    BY <1>1, <1>5
  <2> QED BY <1>0, <1>a, <1>b, <1>2, <1>3, <2>1 DEF Op, TypeOK
<1> QED BY <1>4, <1>5

-----------------------------------------------------------------------------
\* Who asks what.

LEMMA NextAskedBy == HubInv /\ [Next]_vars => AskedBy'
<1> SUFFICES ASSUME HubInv, [Next]_vars PROVE AskedBy'
    OBVIOUS
<1> TypeOK /\ AskedBy /\ \A s \in Sessions : Confirmed(s)
  BY DEF HubInv, SessionInv
<1> USE CallersDiffer
<1>a. ASSUME UNCHANGED storeVars, op[Migrator] = NoOp \/ UNCHANGED <<hub, todo>>
      PROVE  AskedBy'
  BY <1>a DEF storeVars, AskedBy, Login
<1>b. ASSUME NEW c \in Calls, NEW name, NEW answers, Hear(c, name, answers),
             c = Migrator \/ UNCHANGED <<hub, todo>>
      PROVE  AskedBy'
  <2>1. \A d \in Calls : \/ op'[d] = NoOp /\ reply'[d] = "none"
                         \/ d # c /\ op'[d] = op[d] /\ reply'[d] = reply[d]
    BY <1>b, AfterHear
  <2>2. \A d \in Calls : op'[d] = NoOp => reply'[d] = "none"
    BY <2>1 DEF AskedBy
  <2>3. op'[Operator] # NoOp =>
          /\ op'[Operator].op \in {"Add", "Remove", "Lock", "Unlock", "Reset"}
          /\ op'[Operator].pw = Temporary
    BY <2>1 DEF AskedBy
  <2>4. op'[Migrator] # NoOp =>
          /\ hub' = "migrate" /\ todo' <= Len(LegacyUsers)
          /\ op'[Migrator] = Op("Add", LegacyUsers[todo'], Temporary)
    BY <1>b, <2>1 DEF AskedBy
  <2>5. \A s \in Sessions : op'[Login(s)] # NoOp =>
          /\ op'[Login(s)].op \in {"Authenticate", "UpdateLastLogin", "MustChangePassword"}
          /\ op'[Login(s)].user = owner[s]
    BY <2>1 DEF AskedBy
  <2>6. \A s \in Sessions, k \in Submits : op'[<<s, k>>] # NoOp =>
          /\ op'[<<s, k>>].user = owner[s]
          /\ \/ op'[<<s, k>>].op = "SetPassword" /\ op'[<<s, k>>].pw \in Passwords
             \/ op'[<<s, k>>].op = "Refused" /\ reply'[<<s, k>>] = "error"
    BY <2>1 DEF AskedBy
  <2> QED BY <2>2, <2>3, <2>4, <2>5, <2>6 DEF AskedBy, Login
<1>c. ASSUME NEW s \in Sessions, UNCHANGED <<hub, todo>>,
             NEW name \in {"Authenticate", "UpdateLastLogin", "MustChangePassword"}, NEW p,
             Ask(Login(s), Op(name, owner[s], p))
      PROVE  AskedBy'
  BY <1>c, AfterAsk DEF AskedBy, Op
<1>1. CASE Start \/ Serve
  <2>1. op[Migrator] = NoOp
    BY <1>1 DEF Start, Serve, AskedBy
  <2> QED BY <1>1, <1>a, <2>1 DEF Start, Serve
<1>2. CASE Exit
  BY <1>2 DEF Exit, AskedBy, TypeOK
<1>4. CASE MigrateUser
  <2>1. Ask(Migrator, Op("Add", LegacyUsers[todo], Temporary))
    BY <1>4 DEF MigrateUser
  <2> QED BY <1>4, <2>1, AfterAsk DEF MigrateUser, AskedBy, migrationVars
<1>5. CASE MigratedUser
  <2>1. PICK answers : Hear(Migrator, "Add", answers)
    BY <1>5 DEF MigratedUser
  <2> QED BY <1>b, <2>1
<1>6. CASE MigrationEnds
  BY <1>6, <1>a DEF MigrationEnds
<1>7. CASE Manage
  <2>1. PICK name \in {"Add", "Remove", "Lock", "Unlock", "Reset"}, u \in Users :
          Ask(Operator, Op(name, u, Temporary))
    BY <1>7 DEF Manage
  <2> QED BY <1>7, <2>1, AfterAsk DEF Manage, AskedBy, Op, migrationVars
<1>8. CASE Managed
  BY <1>8, <1>b DEF Managed, migrationVars
<1>9. ASSUME NEW c \in Calls, StoreAnswers(c) PROVE AskedBy'
  <2>1. hub' = hub /\ todo' = todo
    BY <1>9 DEF StoreAnswers
  <2> QED BY <1>9, <2>1, AfterAnswer DEF AskedBy
<1>10. ASSUME NEW s \in Sessions, Connect(s) PROVE AskedBy'
  BY <1>10, <1>c DEF Connect, migrationVars
<1>11. ASSUME NEW s \in Sessions, Authenticated(s) PROVE AskedBy'
  BY <1>11, <1>b DEF Authenticated, migrationVars
<1>12. ASSUME NEW s \in Sessions, LoginCalls(s) PROVE AskedBy'
  BY <1>12, <1>b, <1>c DEF LoginCalls, migrationVars
<1>13. ASSUME NEW s \in Sessions, OpenProgram(s) PROVE AskedBy'
  BY <1>13, <1>b DEF OpenProgram, migrationVars
<1>14. ASSUME NEW s \in Sessions, NEW k \in Submits, Message(s, k) PROVE AskedBy'
  <2>1. Hear(<<s, k>>, op[<<s, k>>].op, {reply[<<s, k>>]}) /\ UNCHANGED <<hub, todo>>
    BY <1>14 DEF Message, migrationVars
  <2> QED BY <1>b, <2>1
<1>15. ASSUME NEW s \in Sessions, Dial(s) \/ End(s) PROVE AskedBy'
  BY <1>15, <1>a DEF Dial, End, migrationVars
<1>17. ASSUME NEW s \in Sessions, NEW k \in Submits, Submit(s, k) PROVE AskedBy'
  <2>1. UNCHANGED <<hub, todo>>
    BY <1>17 DEF Submit, migrationVars
  <2>2. \A d \in Calls : d # <<s, k>> => op'[d] = op[d] /\ reply'[d] = reply[d]
    BY <1>17, EnterElsewhere
  <2>3. /\ op'[<<s, k>>] # NoOp /\ op'[<<s, k>>].user = owner[s]
        /\ \/ /\ op'[<<s, k>>].op = "SetPassword" /\ op'[<<s, k>>].pw \in Passwords
              /\ reply'[<<s, k>>] = "none"
           \/ op'[<<s, k>>].op = "Refused" /\ reply'[<<s, k>>] = "error"
    BY <1>17, AfterEnter
  <2>4. \A d \in Calls : op'[d] = NoOp => reply'[d] = "none"
    BY <2>2, <2>3 DEF AskedBy
  <2>5. \A t \in Sessions : op'[Login(t)] = op[Login(t)]
    BY <2>2
  <2>6. \A t \in Sessions, j \in Submits :
          <<t, j>> = <<s, k>> \/ (op'[<<t, j>>] = op[<<t, j>>] /\ reply'[<<t, j>>] = reply[<<t, j>>])
    BY <2>2
  <2>7. op'[Operator] = op[Operator] /\ op'[Migrator] = op[Migrator]
    BY <2>2
  <2>8. \A t \in Sessions, j \in Submits : op'[<<t, j>>] # NoOp =>
          /\ op'[<<t, j>>].user = owner[t]
          /\ \/ op'[<<t, j>>].op = "SetPassword" /\ op'[<<t, j>>].pw \in Passwords
             \/ op'[<<t, j>>].op = "Refused" /\ reply'[<<t, j>>] = "error"
    BY <2>3, <2>6 DEF AskedBy
  <2> QED BY <2>1, <2>4, <2>5, <2>7, <2>8 DEF AskedBy
<1>18. CASE UNCHANGED vars
  BY <1>18, <1>a DEF vars, migrationVars
<1> QED BY <1>1, <1>2, <1>4, <1>5, <1>6, <1>7, <1>8, <1>9, <1>10, <1>11, <1>12, <1>13, <1>14,
           <1>15, <1>17, <1>18 DEF Next, Migration, Session

-----------------------------------------------------------------------------
\* The hub and its migration.

LEMMA NextServing == HubInv /\ [Next]_vars => Serving'
<1> SUFFICES ASSUME HubInv, [Next]_vars PROVE Serving'
    OBVIOUS
<1> TypeOK /\ Serving
  BY DEF HubInv
<1>1. CASE Start \/ Serve \/ Migration
  BY <1>1 DEF Start, Serve, Migration, MigrateUser, MigratedUser, MigrationEnds, Serving
<1>2. CASE Exit
  BY <1>2 DEF Exit, Serving
<1>3. CASE Manage \/ Managed
  BY <1>3 DEF Manage, Managed, Serving
<1>4. ASSUME NEW c \in Calls, StoreAnswers(c) PROVE Serving'
  BY <1>4 DEF StoreAnswers, Serving
<1>5. ASSUME NEW s \in Sessions, NEW from, NEW to, Turn(s, from, to), hub' = hub,
             from \in {"none", "ended"} => hub = "serve"
      PROVE  Serving'
  BY <1>5 DEF Turn, Serving, TypeOK
<1>6. ASSUME NEW s \in Sessions, Connect(s) \/ Authenticated(s) \/ OpenProgram(s) \/ Dial(s)
      PROVE  Serving'
  BY <1>5, <1>6 DEF Connect, Authenticated, OpenProgram, Dial
<1>7. ASSUME NEW s \in Sessions, LoginCalls(s) PROVE Serving'
  <2>1. UNCHANGED screen \/ Turn(s, "login", "shell")
    BY <1>7 DEF LoginCalls
  <2>2. hub' = hub
    BY <1>7 DEF LoginCalls
  <2> QED BY <1>5, <2>1, <2>2 DEF Serving
<1>8. ASSUME NEW s \in Sessions, NEW k \in Submits, Message(s, k) PROVE Serving'
  <2>1. /\ screen[s] = "password" \/ screen' = screen
        /\ screen' = screen \/ screen' = [screen EXCEPT ![s] = "menu"]
        /\ hub' = hub
    BY <1>8 DEF Message
  <2> QED BY <2>1 DEF Serving, TypeOK
<1>9. ASSUME NEW s \in Sessions, End(s) PROVE Serving'
  BY <1>9 DEF End, Serving, TypeOK
<1>10. ASSUME NEW s \in Sessions, NEW k \in Submits, Submit(s, k) PROVE Serving'
  BY <1>10 DEF Submit, AfterSubmit, Serving
<1>11. CASE UNCHANGED vars BY <1>11 DEF vars, Serving
<1> QED BY <1>1, <1>2, <1>3, <1>4, <1>6, <1>7, <1>8, <1>9, <1>10, <1>11 DEF Next, Session

LEMMA NextMigrated == HubInv /\ [Next]_vars => Migrated'
<1> SUFFICES ASSUME HubInv, [Next]_vars PROVE Migrated'
    OBVIOUS
<1> TypeOK /\ AskedBy /\ Migrated
  BY DEF HubInv
<1>0. Len(LegacyUsers) \in Nat
  OBVIOUS
<1>a. ASSUME UNCHANGED <<hub, migrationVars>>, op'[Migrator] = op[Migrator],
             reply'[Migrator] = reply[Migrator]
      PROVE  Migrated'
  BY <1>a DEF migrationVars, Migrated
<1>1. CASE Start
  <2>1. \A i \in 1..(todo' - 1) : LegacyUsers[i] \in had'
    BY <1>1 DEF Start
  <2> QED BY <1>1, <2>1 DEF Start, Migrated, storeVars
<1>2. CASE Exit
  BY <1>2 DEF Exit, Migrated
<1>3. CASE Serve
  BY <1>3 DEF Serve, Migrated, storeVars, migrationVars
<1>4. CASE MigrateUser
  <2>1. op[Migrator] = NoOp
    BY <1>4 DEF MigrateUser, Ask
  <2> QED BY <1>4, <2>1 DEF MigrateUser, Migrated, migrationVars
<1>5. CASE MigratedUser
  <2>1. hub = "migrate" /\ legacy' = legacy /\ crashed' = crashed
    BY <1>5 DEF MigratedUser
  <2>2. /\ op[Migrator] # NoOp /\ op[Migrator].user = LegacyUsers[todo]
        /\ todo \in 1..Len(LegacyUsers)
    BY <1>5 DEF MigratedUser, Hear, AskedBy, Op, TypeOK
  <2>3. CASE reply[Migrator] \in {"exists", "ok"}
    <3>1. /\ todo' = todo + 1 /\ had' = had \union {op[Migrator].user}
          /\ untold' = IF reply[Migrator] = "ok" THEN untold \ {op[Migrator].user} ELSE untold
      BY <1>5, <2>3 DEF MigratedUser, Hear, Skipped
    <3>2. \A i \in 1..(todo' - 1) : LegacyUsers[i] \in had'
      BY <2>1, <2>2, <3>1 DEF Migrated
    <3>3. untold' \ crashed' = {}
      BY <2>1, <3>1 DEF Migrated
    <3>4. ~legacy' => \A i \in 1..Len(LegacyUsers) : LegacyUsers[i] \in had'
      BY <2>1, <3>1 DEF Migrated
    <3> QED BY <3>2, <3>3, <3>4 DEF Migrated
  <2>4. CASE reply[Migrator] \notin {"exists", "ok"}
    <3>1. hub' = "sites" /\ UNCHANGED <<had, untold>>
      BY <1>5, <2>4 DEF MigratedUser, Hear, Skipped
    <3>2. untold' \ crashed' = {}
      BY <2>1, <2>4, <3>1 DEF Migrated
    <3> QED BY <2>1, <3>1, <3>2 DEF Migrated
  <2> QED BY <2>3, <2>4
<1>6. CASE MigrationEnds
  <2>1. ~legacy' => \A i \in 1..Len(LegacyUsers) : LegacyUsers[i] \in had
    BY <1>0, <1>6 DEF MigrationEnds, Migrated, TypeOK
  <2> QED BY <1>6, <2>1 DEF MigrationEnds, Migrated, storeVars
<1>7. CASE Manage
  <2>1. op'[Migrator] = op[Migrator] /\ reply' = reply
    <3>1. PICK o : Ask(Operator, o)
      BY <1>7 DEF Manage
    <3> QED BY <3>1, AfterAsk, CallersDiffer
  <2> QED BY <1>7, <1>a, <2>1 DEF Manage
<1>8. CASE Managed
  <2>1. op'[Migrator] = op[Migrator] /\ reply'[Migrator] = reply[Migrator]
    BY <1>8, AfterHear, CallersDiffer DEF Managed
  <2> QED BY <1>8, <1>a, <2>1 DEF Managed
<1>9. ASSUME NEW c \in Calls, StoreAnswers(c) PROVE Migrated'
  <2>1. /\ UNCHANGED <<hub, legacy, todo, had, crashed>>
        /\ untold' = IF c \in {Migrator} /\ reply'[c] = "ok" THEN untold \union {op[c].user}
                     ELSE untold
    BY <1>9 DEF StoreAnswers
  <2>2. /\ op' = op /\ op[c] # NoOp /\ reply[c] = "none"
        /\ \A d \in Calls : d # c => reply'[d] = reply[d]
    BY <1>9, AfterAnswer
  <2>3. \A u \in untold' \ crashed' :
          op'[Migrator] # NoOp /\ reply'[Migrator] = "ok" /\ op'[Migrator].user = u
    BY <2>1, <2>2, CallersDiffer DEF Migrated
  <2> QED BY <2>1, <2>3 DEF Migrated
<1>b. ASSUME NEW c \in Calls \ {Migrator}, NEW o, UNCHANGED <<hub, migrationVars>>, Ask(c, o)
      PROVE  Migrated'
  BY <1>a, <1>b, AfterAsk, CallersDiffer
<1>c. ASSUME NEW c \in Calls \ {Migrator}, NEW name, NEW answers,
             UNCHANGED <<hub, migrationVars>>, Hear(c, name, answers)
      PROVE  Migrated'
  BY <1>a, <1>c, AfterHear, CallersDiffer
<1>10. ASSUME NEW s \in Sessions, Connect(s) PROVE Migrated'
  BY <1>10, <1>b, CallersDiffer DEF Connect
<1>11. ASSUME NEW s \in Sessions, Authenticated(s) PROVE Migrated'
  BY <1>11, <1>c, CallersDiffer DEF Authenticated
<1>12. ASSUME NEW s \in Sessions, LoginCalls(s) PROVE Migrated'
  BY <1>12, <1>b, <1>c, CallersDiffer DEF LoginCalls
<1>13. ASSUME NEW s \in Sessions, OpenProgram(s) PROVE Migrated'
  BY <1>13, <1>c, CallersDiffer DEF OpenProgram
<1>14. ASSUME NEW s \in Sessions, NEW k \in Submits, Message(s, k) PROVE Migrated'
  BY <1>14, <1>c, CallersDiffer DEF Message
<1>15. ASSUME NEW s \in Sessions, Dial(s) \/ End(s) PROVE Migrated'
  BY <1>15, <1>a DEF Dial, End, storeVars
<1>16. ASSUME NEW s \in Sessions, NEW k \in Submits, Submit(s, k) PROVE Migrated'
  <2>1. op'[Migrator] = op[Migrator] /\ reply'[Migrator] = reply[Migrator]
    BY <1>16, EnterElsewhere, CallersDiffer
  <2> QED BY <1>16, <1>a, <2>1 DEF Submit
<1>17. CASE UNCHANGED vars BY <1>17, <1>a DEF vars, storeVars
<1> QED BY <1>1, <1>2, <1>3, <1>4, <1>5, <1>6, <1>7, <1>8, <1>9, <1>10, <1>11, <1>12, <1>13,
           <1>14, <1>15, <1>16, <1>17 DEF Next, Migration, Session

-----------------------------------------------------------------------------
\* The sessions: a step is one of one session, of the store or the end of the hub, or
\* leaves the sessions alone.

SameSession(t) ==
  /\ screen'[t] = screen[t] /\ past'[t] = past[t] /\ users' = users
  /\ op'[Login(t)] = op[Login(t)] /\ reply'[Login(t)] = reply[Login(t)]
  /\ \A k \in Submits :
       /\ op'[<<t, k>>] = op[<<t, k>>] /\ reply'[<<t, k>>] = reply[<<t, k>>]
       /\ typed'[<<t, k>>] = typed[<<t, k>>]

Step(s) ==
  Connect(s) \/ Session(s) \/ Dial(s) \/ End(s) \/ \E k \in Submits : Submit(s, k)

LEMMA OutsideSessions ==
  ASSUME TypeOK, NEW t \in Sessions,
         Start \/ Serve \/ Migration \/ Manage \/ Managed \/ UNCHANGED vars
  PROVE  SameSession(t)
<1>1. UNCHANGED <<screen, past, typed>>
  BY DEF Start, Serve, Migration, MigrateUser, MigratedUser, MigrationEnds, Manage, Managed, vars
<1>2. ASSUME UNCHANGED storeVars PROVE SameSession(t)
  BY <1>1, <1>2 DEF storeVars, SameSession
<1>3. ASSUME NEW c \in {Operator, Migrator}, NEW o, Ask(c, o) PROVE SameSession(t)
  BY <1>1, <1>3, AfterAsk, CallersDiffer DEF SameSession
<1>4. ASSUME NEW c \in {Operator, Migrator}, NEW name, NEW answers, Hear(c, name, answers)
      PROVE  SameSession(t)
  BY <1>1, <1>4, AfterHear, CallersDiffer DEF SameSession
<1>5. CASE Start \/ Serve \/ MigrationEnds \/ UNCHANGED vars
  BY <1>2, <1>5 DEF Start, Serve, MigrationEnds, vars
<1>6. CASE MigrateUser \/ Manage
  BY <1>3, <1>6 DEF MigrateUser, Manage
<1>7. CASE MigratedUser \/ Managed
  BY <1>4, <1>7 DEF MigratedUser, Managed
<1> QED BY <1>5, <1>6, <1>7 DEF Migration

LEMMA OtherSession ==
  ASSUME TypeOK, NEW s \in Sessions, NEW t \in Sessions, t # s, Step(s)
  PROVE  SameSession(t)
<1>1. ASSUME screen' = screen \/ \E to : screen' = [screen EXCEPT ![s] = to],
             past' = past \/ \E h : past' = [past EXCEPT ![s] = h],
             UNCHANGED typed
      PROVE  screen'[t] = screen[t] /\ past'[t] = past[t] /\ typed' = typed
  BY <1>1 DEF TypeOK
<1>2. \A k \in Submits : Login(t) # Login(s) /\ Login(t) # <<s, k>>
  BY CallersDiffer
<1>3. \A k, j \in Submits : <<t, k>> # Login(s) /\ <<t, k>> # <<s, j>>
  BY CallersDiffer
<1>a. ASSUME NEW c \in Calls, c = Login(s) \/ \E k \in Submits : c = <<s, k>>,
             \/ \E o : Ask(c, o)
             \/ \E name, answers : Hear(c, name, answers)
      PROVE  /\ users' = users
             /\ op'[Login(t)] = op[Login(t)] /\ reply'[Login(t)] = reply[Login(t)]
             /\ \A k \in Submits :
                  op'[<<t, k>>] = op[<<t, k>>] /\ reply'[<<t, k>>] = reply[<<t, k>>]
  <2>1. Login(t) # c /\ \A k \in Submits : <<t, k>> # c
    <3>1. CASE c = Login(s)
      <4>1. Login(t) # Login(s)
        BY CallersDiffer
      <4> QED BY <1>3, <3>1, <4>1
    <3>2. CASE \E k \in Submits : c = <<s, k>>
      BY <1>2, <1>3, <3>2
    <3> QED BY <1>a, <3>1, <3>2
  <2> QED BY <1>a, <2>1, AfterAsk, AfterHear, CallersDiffer
<1>4. CASE Connect(s) \/ Authenticated(s) \/ LoginCalls(s)
  <2>1. screen'[t] = screen[t] /\ past'[t] = past[t] /\ typed' = typed
    BY <1>1, <1>4 DEF Connect, Authenticated, LoginCalls, Turn
  <2>2. (\E o : Ask(Login(s), o)) \/ \E name, answers : Hear(Login(s), name, answers)
    BY <1>4 DEF Connect, Authenticated, LoginCalls
  <2> QED BY <1>a, <2>1, <2>2, CallersDiffer DEF SameSession
<1>5. CASE OpenProgram(s)
  <2>1. screen'[t] = screen[t] /\ past'[t] = past[t] /\ typed' = typed
    <3>1. past'[t] = past[t]
      BY <1>5 DEF OpenProgram, TypeOK
    <3> QED BY <1>5, <3>1 DEF OpenProgram, Turn, TypeOK
  <2>2. \E name, answers : Hear(Login(s), name, answers)
    BY <1>5 DEF OpenProgram
  <2> QED BY <1>a, <2>1, <2>2, CallersDiffer DEF SameSession
<1>6. ASSUME NEW k \in Submits, Message(s, k) PROVE SameSession(t)
  <2>1. screen'[t] = screen[t] /\ past'[t] = past[t] /\ typed' = typed
    <3>1. past'[t] = past[t]
      BY <1>6 DEF Message, TypeOK
    <3> QED BY <1>6, <3>1 DEF Message, TypeOK
  <2>2. \E name, answers : Hear(<<s, k>>, name, answers)
    BY <1>6 DEF Message
  <2> QED BY <1>a, <2>1, <2>2, CallersDiffer DEF SameSession
<1>7. CASE Dial(s)
  BY <1>7 DEF Dial, Turn, storeVars, SameSession, TypeOK
<1>8. CASE End(s)
  BY <1>8 DEF End, storeVars, SameSession, TypeOK
<1>9. ASSUME NEW k \in Submits, Submit(s, k) PROVE SameSession(t)
  <2>1. past'[t] = past[t] /\ screen' = screen /\ users' = users
    BY <1>9 DEF Submit, AfterSubmit, Ask, TypeOK
  <2>2. \A j \in Submits : /\ <<t, j>> \in Calls /\ <<t, j>> # <<s, k>>
                           /\ <<t, j>> \in Sessions \X Submits
    BY CallersDiffer
  <2>3. \A j \in Submits : /\ op'[<<t, j>>] = op[<<t, j>>] /\ reply'[<<t, j>>] = reply[<<t, j>>]
                           /\ typed'[<<t, j>>] = typed[<<t, j>>]
    BY <1>9, <2>2, EnterElsewhere
  <2>4. op'[Login(t)] = op[Login(t)] /\ reply'[Login(t)] = reply[Login(t)]
    <3>1. Login(t) \in Calls /\ Login(t) # <<s, k>>
      BY CallersDiffer
    <3> QED BY <1>9, <3>1, EnterElsewhere
  <2> QED BY <2>1, <2>3, <2>4 DEF SameSession
<1> QED BY <1>4, <1>5, <1>6, <1>7, <1>8, <1>9 DEF Step, Session

LEMMA Steps ==
  ASSUME TypeOK, [Next]_vars
  PROVE  \/ \A t \in Sessions : SameSession(t)
         \/ Exit
         \/ \E c \in Calls : StoreAnswers(c)
         \/ \E s \in Sessions : Step(s) /\ \A t \in Sessions \ {s} : SameSession(t)
<1>1. CASE Start \/ Serve \/ Migration \/ Manage \/ Managed \/ UNCHANGED vars
  BY <1>1, OutsideSessions
<1>2. CASE \E s \in Sessions : Step(s)
  BY <1>2, OtherSession
<1> QED BY <1>1, <1>2 DEF Next, Step

-----------------------------------------------------------------------------
\* What a session has in flight.

LEMMA AfterExcuse ==
  ASSUME TypeOK, NEW c \in Calls, Excuse(c), NEW s \in Sessions
  PROVE  /\ past'[s].chosen = past[s].chosen /\ past'[s].overlap = past[s].overlap
         /\ past'[s].stray = past[s].stray /\ past[s].excuse \subseteq past'[s].excuse
         /\ screen[s] \notin {"none", "ended"} /\ op[c].user = owner[s] =>
              /\ c = Operator /\ op[c].op \in {"Add", "Reset"} => "operator" \in past'[s].excuse
              /\ c # Operator /\ op[c].op = "SetPassword" =>
                   /\ op[c].pw \in TooLong => "tooLong" \in past'[s].excuse
                   /\ c # Migrator /\ op[c].pw \notin TooLong /\ c[1] # s =>
                        "otherSession" \in past'[s].excuse
<1> DEFINE new == IF screen[s] \in {"none", "ended"} \/ op[c].user # owner[s] THEN {}
     ELSE IF c \in {Operator} /\ op[c].op \in {"Add", "Reset"} THEN {"operator"}
     ELSE IF op[c].op = "SetPassword" /\ op[c].pw \in TooLong THEN {"tooLong"}
     ELSE IF c \notin {Operator, Migrator} /\ op[c].op = "SetPassword" /\ c[1] # s
          THEN {"otherSession"} ELSE {}
<1>1. past'[s] = [past[s] EXCEPT !.excuse = @ \union new]
  BY DEF Excuse
<1>2. past[s] \in Histories
  BY DEF TypeOK
<1>3. /\ past'[s].chosen = past[s].chosen /\ past'[s].overlap = past[s].overlap
      /\ past'[s].stray = past[s].stray /\ past'[s].excuse = past[s].excuse \union new
  BY <1>1, <1>2 DEF Histories
<1> QED BY <1>3

LEMMA AfterMessage ==
  ASSUME TypeOK, NEW s \in Sessions, NEW k \in Submits, Message(s, k)
  PROVE  LET leaves == screen[s] = "password" /\ OpensMenu(reply[<<s, k>>]) IN
         /\ screen[s] \in {"password", "menu", "dialing"}
         /\ op[<<s, k>>] # NoOp /\ op'[<<s, k>>] = NoOp /\ users' = users
         /\ \A j \in Submits : j # k =>
              op'[<<s, j>>] = op[<<s, j>>] /\ reply'[<<s, j>>] = reply[<<s, j>>]
         /\ screen'[s] = IF leaves THEN "menu" ELSE screen[s]
         /\ past'[s].chosen = IF leaves THEN typed[<<s, k>>] ELSE past[s].chosen
         /\ past'[s].overlap = past[s].overlap /\ past'[s].excuse = past[s].excuse
         /\ past'[s].stray = (past[s].stray \/ (screen[s] = "dialing" /\ reply[<<s, k>>] # "ok"))
         /\ typed' = typed
<1> DEFINE leaves == screen[s] = "password" /\ OpensMenu(reply[<<s, k>>])
           strays == screen[s] = "dialing" /\ reply[<<s, k>>] # "ok"
<1>1. PICK name, answers : Hear(<<s, k>>, name, answers)
  BY DEF Message
<1>2. <<s, k>> \in Calls /\ \A j \in Submits : <<s, j>> \in Calls /\ (j # k => <<s, j>> # <<s, k>>)
  BY CallersDiffer
<1>3. op[<<s, k>>] # NoOp /\ op'[<<s, k>>] = NoOp /\ users' = users
  BY <1>1, <1>2, AfterHear
<1>4. \A j \in Submits : j # k =>
        op'[<<s, j>>] = op[<<s, j>>] /\ reply'[<<s, j>>] = reply[<<s, j>>]
  BY <1>1, <1>2, AfterHear
<1>5. screen[s] \in {"password", "menu", "dialing"} /\ typed' = typed
  BY DEF Message
<1>6. screen'[s] = IF leaves THEN "menu" ELSE screen[s]
  BY DEF Message, TypeOK
<1>7. /\ past'[s].chosen = IF leaves THEN typed[<<s, k>>] ELSE past[s].chosen
      /\ past'[s].overlap = past[s].overlap /\ past'[s].excuse = past[s].excuse
      /\ past'[s].stray = (past[s].stray \/ strays)
  BY DEF Message, TypeOK, Histories
<1> QED BY <1>3, <1>4, <1>5, <1>6, <1>7

LEMMA SameSessionInv ==
  ASSUME NEW s \in Sessions, SessionInv(s), SameSession(s)
  PROVE  SessionInv(s)'
BY DEF SessionInv, SameSession, OneSubmit, Confirmed, Settled, Unforced, Chosen, Holds, Answered,
       InProgram, Login

LEMMA NextOneSubmit ==
  ASSUME HubInv, NEW s \in Sessions, Exit \/ (\E c \in Calls : StoreAnswers(c)) \/ Step(s)
  PROVE  OneSubmit(s)' /\ Confirmed(s)'
<1> TypeOK /\ AskedBy /\ OneSubmit(s) /\ Confirmed(s)
  BY DEF HubInv, SessionInv
<1> DEFINE Same == \A k \in Submits : op'[<<s, k>>] = op[<<s, k>>] /\ typed'[<<s, k>>] = typed[<<s, k>>]
<1> USE DEF OneSubmit, Confirmed, InProgram
<1>1. CASE Exit
  <2>1. screen'[s] \in {"none", "ended"} /\ past'[s] = Blank
    BY <1>1 DEF Exit
  <2>2. \A k \in Submits : op'[<<s, k>>] = NoOp
    BY <1>1, CallersDiffer DEF Exit
  <2> QED BY <2>1, <2>2 DEF Blank
<1>2. ASSUME NEW c \in Calls, StoreAnswers(c) PROVE OneSubmit(s)' /\ Confirmed(s)'
  <2>1. op' = op /\ screen' = screen /\ typed' = typed
    BY <1>2, AfterAnswer DEF StoreAnswers
  <2>2. /\ past'[s].chosen = past[s].chosen /\ past'[s].overlap = past[s].overlap
        /\ past'[s].stray = past[s].stray
    BY <1>2, AfterExcuse DEF StoreAnswers
  <2> QED BY <2>1, <2>2
<1>3. CASE Connect(s) \/ Authenticated(s) \/ LoginCalls(s)
  <2>1. /\ screen[s] \in {"none", "auth", "login", "shell"}
        /\ screen'[s] \in {"none", "auth", "login", "shell"}
        /\ UNCHANGED <<typed, past>>
    BY <1>3 DEF Connect, Authenticated, LoginCalls, Turn, TypeOK
  <2>2. (\E o : Ask(Login(s), o)) \/ \E name, answers : Hear(Login(s), name, answers)
    BY <1>3 DEF Connect, Authenticated, LoginCalls
  <2>3. Same
    BY <2>1, <2>2, AfterAsk, AfterHear, CallersDiffer
  <2> QED BY <2>1, <2>3
<1>4. CASE OpenProgram(s)
  <2>1. /\ screen[s] = "shell" /\ screen'[s] \in {"password", "menu"}
        /\ UNCHANGED typed
    BY <1>4 DEF OpenProgram, Turn, TypeOK
  <2>2. \E name, answers : Hear(Login(s), name, answers)
    BY <1>4 DEF OpenProgram
  <2>3. Same
    BY <2>1, <2>2, AfterHear, CallersDiffer
  <2>4. /\ past'[s].chosen = past[s].chosen /\ past'[s].overlap = past[s].overlap
        /\ past'[s].stray = past[s].stray
    BY <1>4 DEF OpenProgram, TypeOK, Histories
  <2> QED BY <2>1, <2>3, <2>4
<1>5. ASSUME NEW k \in Submits, Message(s, k) PROVE OneSubmit(s)' /\ Confirmed(s)'
  <2> DEFINE leaves == screen[s] = "password" /\ OpensMenu(reply[<<s, k>>])
  <2>1. /\ op[<<s, k>>] # NoOp /\ op'[<<s, k>>] = NoOp
        /\ \A j \in Submits : j # k => op'[<<s, j>>] = op[<<s, j>>]
    BY <1>5, AfterMessage
  <2>2. screen[s] \in {"password", "menu", "dialing"} /\ typed' = typed
    BY <1>5, AfterMessage
  <2>3. screen'[s] = IF leaves THEN "menu" ELSE screen[s]
    BY <1>5, AfterMessage
  <2>4. /\ past'[s].chosen = IF leaves THEN typed[<<s, k>>] ELSE past[s].chosen
        /\ past'[s].overlap = past[s].overlap
        /\ past'[s].stray = (past[s].stray \/ (screen[s] = "dialing" /\ reply[<<s, k>>] # "ok"))
    BY <1>5, AfterMessage
  <2>5. past'[s].stray => past'[s].overlap
    BY <2>1, <2>4
  <2> HIDE DEF leaves
  <2>6. InProgram(s)' /\ ~past'[s].overlap => \A j \in Submits : op'[<<s, j>>] = NoOp
    BY <2>1, <2>2, <2>3, <2>4 DEF leaves
  <2>7. ~InProgram(s)' => past'[s].chosen = "none"
    BY <2>2, <2>3, <2>4 DEF leaves
  <2>8. Confirmed(s)'
    BY <2>1, <2>2, <2>3 DEF leaves
  <2>9. screen'[s] = "password" /\ ~past'[s].overlap =>
          \A i, j \in Submits : op'[<<s, i>>] # NoOp /\ op'[<<s, j>>] # NoOp => i = j
    BY <2>1, <2>2, <2>3, <2>4
  <2>10. screen'[s] \in {"password", "menu", "dialing"}
    BY <2>2, <2>3
  <2> QED BY <2>5, <2>6, <2>7, <2>8, <2>9, <2>10
<1>6. CASE Dial(s)
  BY <1>6 DEF Dial, Turn, TypeOK, storeVars
<1>7. CASE End(s)
  BY <1>7 DEF End, TypeOK, Blank
<1>8. ASSUME NEW k \in Submits, Submit(s, k) PROVE OneSubmit(s)' /\ Confirmed(s)'
  <2>1. /\ screen[s] = "password" /\ screen' = screen /\ op[<<s, k>>] = NoOp
        /\ typed'[<<s, k>>] = IF op'[<<s, k>>].op = "SetPassword" THEN op'[<<s, k>>].pw
                              ELSE "refused"
    BY <1>8, AfterEnter
  <2>2. \A j \in Submits : j # k =>
          op'[<<s, j>>] = op[<<s, j>>] /\ typed'[<<s, j>>] = typed[<<s, j>>]
    <3>1. \A j \in Submits : j # k => /\ <<s, j>> # <<s, k>> /\ <<s, j>> \in Calls
                                      /\ <<s, j>> \in Sessions \X Submits
      BY CallersDiffer
    <3> QED BY <1>8, <3>1, EnterElsewhere
  <2>3. /\ past'[s].chosen = past[s].chosen /\ past'[s].stray = past[s].stray
        /\ past'[s].overlap = (past[s].overlap \/ InFlight(s) # {})
    BY <1>8 DEF Submit, TypeOK, Histories
  <2>4. ~past'[s].overlap => \A j \in Submits : op[<<s, j>>] = NoOp
    BY <2>3 DEF InFlight
  <2>5. past[s].overlap => past'[s].overlap
    BY <2>3
  <2>6. Confirmed(s)'
    BY <2>1, <2>2
  <2> QED BY <2>1, <2>2, <2>3, <2>4, <2>5, <2>6
<1> QED BY <1>1, <1>2, <1>3, <1>4, <1>5, <1>6, <1>7, <1>8 DEF Step, Session

-----------------------------------------------------------------------------
\* What becomes of the password of a session's user.

\* What an answer of the store means to a session that runs: its account is gone or as
\* good as before, or the history says why not, or a submit set its password.
LEMMA StoreOnOwner ==
  ASSUME HubInv, NEW s \in Sessions, screen[s] \notin {"none", "ended"},
         NEW c \in Calls, StoreAnswers(c)
  PROVE  LET a == users[owner[s]]
             b == users'[owner[s]] IN
         \/ b = NoAccount
         \/ past'[s].excuse \intersect {"operator", "tooLong"} # {}
         \/ /\ b = a \/ (a # NoAccount /\ b.pw = a.pw /\ b.force = a.force)
            /\ \A k \in Submits : c = <<s, k>> => reply'[c] # "ok"
            /\ c = Login(s) /\ op[c].op = "MustChangePassword" /\ reply'[c] = "no" => ~a.force
         \/ /\ \E t \in Sessions, k \in Submits :
                 c = <<t, k>> /\ (t # s => past'[s].excuse # {})
            /\ b.pw = op[c].pw /\ ~b.force
<1> DEFINE a == users[owner[s]]
           b == users'[owner[s]]
           AsBefore == /\ b = a \/ (a # NoAccount /\ b.pw = a.pw /\ b.force = a.force)
                       /\ \A k \in Submits : c = <<s, k>> => reply'[c] # "ok"
                       /\ c = Login(s) /\ op[c].op = "MustChangePassword" /\ reply'[c] = "no"
                            => ~a.force
<1> TypeOK /\ AskedBy /\ Serving
  BY DEF HubInv
<1>0. Effect(c)
  BY AnswerEffect
<1>1. \A r : Told(c, r) => reply'[c] = r /\ op[c] # NoOp
  BY DEF Told, TypeOK
<1>2. op[c] # NoOp /\ op[c] \in Asks
  BY <1>0 DEF Effect, Told
<1>3. owner[s] \in Users /\ op[c].user \in Users /\ a \in Accounts \union {NoAccount}
  BY <1>2 DEF Asks, TypeOK
<1>4. \A new : Changed(c, new) => b = IF op[c].user = owner[s] THEN new ELSE a
  BY <1>3 DEF Changed, TypeOK
<1>5. \A k \in Submits : c = <<s, k>> => op[c].user = owner[s] /\ op[c].op \in {"SetPassword", "Refused"}
  BY <1>2 DEF AskedBy
<1>6. c = Login(s) => op[c].user = owner[s]
  BY <1>2 DEF AskedBy
<1>7. CASE op[c].user # owner[s]
  <2>1. b = a
    BY <1>0, <1>4, <1>7 DEF Effect
  <2> QED BY <1>5, <1>6, <1>7, <2>1
<1>8. CASE op[c].user = owner[s] /\ UNCHANGED users /\ ~Told(c, "ok")
  <2>1. PICK r \in {"yes", "no", "notFound", "exists", "error"} :
          /\ Told(c, r)
          /\ op[c].op = "MustChangePassword" /\ r = "no" => ~users[op[c].user].force
    BY <1>0, <1>8 DEF Effect
  <2>2. reply'[c] = r
    BY <1>1, <2>1
  <2> QED BY <1>8, <2>1, <2>2
<1>9. CASE op[c].user = owner[s] /\ Told(c, "ok")
  <2>0. reply'[c] = "ok" /\ reply[c] = "none"
    BY <1>1, <1>9 DEF Told
  <2>1. /\ c = Operator /\ op[c].op \in {"Add", "Reset"} => "operator" \in past'[s].excuse
        /\ c # Operator /\ op[c].op = "SetPassword" =>
             /\ op[c].pw \in TooLong => "tooLong" \in past'[s].excuse
             /\ c # Migrator /\ op[c].pw \notin TooLong /\ c[1] # s =>
                  "otherSession" \in past'[s].excuse
    BY <1>9, AfterExcuse DEF StoreAnswers
  <2>2. c # Migrator
    BY <1>2 DEF AskedBy, Serving
  <2>3. op[c].op \in {"Add", "Reset"} => c = Operator
    BY <1>2, <2>2, WhoAsks
  <2>4. op[c].op = "SetPassword" => c # Operator /\ \E t \in Sessions, k \in Submits : c = <<t, k>>
    <3>1. op[c].op = "SetPassword" => \E t \in Sessions, k \in Submits : c = <<t, k>>
      BY <1>2, WhoAsks
    <3> QED BY <3>1, CallersDiffer
  <2>5. \A new : Changed(c, new) => b = new
    BY <1>4, <1>9
  <2>6. CASE op[c].op \in {"Add", "Reset"}
    BY <2>1, <2>3, <2>6
  <2>7. CASE op[c].op = "Remove" /\ Changed(c, NoAccount)
    BY <2>5, <2>7
  <2>8. ASSUME op[c].op \in {"UpdateLastLogin", "Lock", "Unlock"}, a # NoAccount,
               NEW l \in BOOLEAN, Changed(c, [a EXCEPT !.locked = l])
        PROVE  AsBefore
    <3>1. b.pw = a.pw /\ b.force = a.force
      BY <1>3, <2>5, <2>8 DEF Accounts
    <3> QED BY <1>5, <2>0, <2>8, <3>1
  <2>9. CASE op[c].op = "SetPassword" /\ op[c].pw \in TooLong
    BY <2>1, <2>4, <2>9
  <2>10. ASSUME op[c].op = "SetPassword", op[c].pw \notin TooLong, a # NoAccount,
                Changed(c, [a EXCEPT !.pw = op[c].pw, !.force = (op[c].op = "Reset")])
         PROVE  /\ \E t \in Sessions, k \in Submits :
                     c = <<t, k>> /\ (t # s => past'[s].excuse # {})
                /\ b.pw = op[c].pw /\ ~b.force
    <3>1. b.pw = op[c].pw /\ b.force = (op[c].op = "Reset")
      BY <1>3, <2>5, <2>10 DEF Accounts
    <3>2. ~b.force
      BY <2>10, <3>1
    <3>3. PICK t \in Sessions, k \in Submits : c = <<t, k>>
      BY <2>4, <2>10
    <3>4. t # s => past'[s].excuse # {}
      BY <2>1, <2>2, <2>4, <2>10, <3>3
    <3> QED BY <3>1, <3>2, <3>3, <3>4
  <2> HIDE DEF AsBefore
  <2>11. \/ op[c].op \in {"Add", "Reset"}
         \/ op[c].op = "Remove" /\ Changed(c, NoAccount)
         \/ /\ op[c].op \in {"UpdateLastLogin", "Lock", "Unlock"} /\ a # NoAccount
            /\ \E l \in BOOLEAN : Changed(c, [a EXCEPT !.locked = l])
         \/ op[c].op = "SetPassword" /\ op[c].pw \in TooLong
         \/ /\ op[c].op = "SetPassword" /\ op[c].pw \notin TooLong /\ a # NoAccount
            /\ Changed(c, [a EXCEPT !.pw = op[c].pw, !.force = (op[c].op = "Reset")])
    <3>1. \A r : Told(c, r) => r = "ok"
      BY <1>1, <2>0
    <3> QED BY <1>0, <1>9, <3>1 DEF Effect
  <2>12. CASE AsBefore BY <2>12 DEF AsBefore
  <2> QED BY <2>6, <2>7, <2>8, <2>9, <2>10, <2>11, <2>12
<1> QED BY <1>0, <1>7, <1>8, <1>9 DEF Effect

LEMMA NextSettled ==
  ASSUME HubInv, NEW s \in Sessions, Exit \/ (\E c \in Calls : StoreAnswers(c)) \/ Step(s)
  PROVE  (Settled(s) => Unforced(s))'
<1> SUFFICES ASSUME Settled(s)' PROVE Unforced(s)'
    OBVIOUS
<1> TypeOK /\ AskedBy /\ OneSubmit(s) /\ (Settled(s) => Unforced(s))
  BY DEF HubInv, SessionInv
<1>1. screen'[s] \in {"shell", "password", "menu", "dialing"}
  BY DEF Settled, InProgram
<1>2. CASE Exit \/ End(s)
  BY <1>1, <1>2 DEF Exit, End, TypeOK
<1>3. ASSUME NEW c \in Calls, StoreAnswers(c) PROVE Unforced(s)'
  <2> DEFINE a == users[owner[s]]
             b == users'[owner[s]]
  <2>1. screen' = screen /\ op' = op /\ \A d \in Calls : d # c => reply'[d] = reply[d]
    BY <1>3, AfterAnswer DEF StoreAnswers
  <2>2. past[s].excuse \subseteq past'[s].excuse
    BY <1>3, AfterExcuse DEF StoreAnswers
  <2>3. CASE b = NoAccount BY <2>3 DEF Unforced
  <2>4. CASE past'[s].excuse \intersect {"operator", "tooLong"} # {} BY <2>4 DEF Unforced
  <2>5. CASE /\ b = a \/ (a # NoAccount /\ b.pw = a.pw /\ b.force = a.force)
             /\ \A k \in Submits : c = <<s, k>> => reply'[c] # "ok"
             /\ c = Login(s) /\ op[c].op = "MustChangePassword" /\ reply'[c] = "no" => ~a.force
    <3>1. Settled(s) \/ ~a.force
      <4>1. \A k \in Submits : Answered(<<s, k>>, "ok")' => Answered(<<s, k>>, "ok")
        BY <2>1, <2>5, CallersDiffer DEF Answered
      <4>2. Answered(Login(s), "no")' /\ op'[Login(s)].op = "MustChangePassword" =>
              Answered(Login(s), "no") \/ ~a.force
        BY <2>1, <2>5, CallersDiffer DEF Answered
      <4> QED BY <2>1, <4>1, <4>2 DEF Settled, InProgram, Login
    <3> QED BY <2>2, <2>5, <3>1 DEF Unforced
  <2>6. CASE ~b.force BY <2>6 DEF Unforced
  <2>7. screen[s] \notin {"none", "ended"}
    BY <1>1, <2>1
  <2> QED BY <1>3, <2>3, <2>4, <2>5, <2>6, <2>7, StoreOnOwner
<1>4. CASE Connect(s) \/ Authenticated(s)
  BY <1>1, <1>4 DEF Connect, Authenticated, Turn, TypeOK
<1>5. CASE LoginCalls(s)
  <2>1. screen'[s] \in {"login", "shell"}
    BY <1>5 DEF LoginCalls, Turn, TypeOK
  <2>2. Answered(Login(s), "no")'
    BY <1>1, <2>1 DEF Settled, InProgram
  <2>3. CASE \E o : Ask(Login(s), o)
    BY <2>2, <2>3, AfterAsk, CallersDiffer DEF AskedBy, Answered
  <2>4. CASE \E name, answers : Hear(Login(s), name, answers)
    BY <2>2, <2>4, AfterHear, CallersDiffer DEF Answered
  <2> QED BY <1>5, <2>3, <2>4 DEF LoginCalls
<1>6. CASE OpenProgram(s)
  <2>1. screen[s] = "shell" /\ screen'[s] \in {"password", "menu"} /\ users' = users
    BY <1>6, AfterHear, CallersDiffer DEF OpenProgram, Turn, TypeOK
  <2>2. \A k \in Submits : op'[<<s, k>>] = NoOp
    <3>1. \E name, answers : Hear(Login(s), name, answers)
      BY <1>6 DEF OpenProgram
    <3> QED BY <2>1, <3>1, AfterHear, CallersDiffer DEF OneSubmit
  <2>3. screen'[s] = "menu"
    BY <2>1, <2>2 DEF Settled, InProgram, Answered
  <2>a. ~Turn(s, "shell", "password")
    BY <2>3 DEF Turn, TypeOK
  <2>b. Hear(Login(s), "MustChangePassword", {"yes", "no", "notFound", "error"} \ Forced)
    BY <1>6, <2>a DEF OpenProgram
  <2>4. past' = [past EXCEPT ![s].excuse =
          IF reply[Login(s)] \in {"error", "notFound"} THEN @ \union {"store"} ELSE @]
    BY <1>6, <2>a DEF OpenProgram
  <2>5. /\ op[Login(s)] # NoOp /\ op[Login(s)].op = "MustChangePassword"
        /\ reply[Login(s)] \in {"no", "notFound", "error"}
    <3>1. reply[Login(s)] \in {"yes", "no", "notFound", "error"} \ Forced
      BY <2>b DEF Hear
    <3>2. reply[Login(s)] \in {"no", "notFound", "error"}
      BY <3>1 DEF Forced
    <3> QED BY <2>b, <3>2 DEF Hear
  <2>6. CASE reply[Login(s)] = "no"
    <3>1. Unforced(s)
      BY <2>1, <2>5, <2>6 DEF Settled, Answered
    <3>2. past'[s].excuse = past[s].excuse
      BY <2>4, <2>6 DEF TypeOK, Histories
    <3> QED BY <2>1, <3>1, <3>2 DEF Unforced
  <2>7. CASE reply[Login(s)] \in {"notFound", "error"}
    <3>1. "store" \in past'[s].excuse
      BY <2>4, <2>7 DEF TypeOK, Histories
    <3> QED BY <3>1 DEF Unforced
  <2> QED BY <2>5, <2>6, <2>7
<1>7. ASSUME NEW k \in Submits, Message(s, k) PROVE Unforced(s)'
  <2>1. /\ op[<<s, k>>] # NoOp /\ op'[<<s, k>>] = NoOp /\ users' = users
        /\ \A j \in Submits : j # k =>
             op'[<<s, j>>] = op[<<s, j>>] /\ reply'[<<s, j>>] = reply[<<s, j>>]
    BY <1>7, AfterMessage
  <2>2. past'[s].excuse = past[s].excuse
    BY <1>7, AfterMessage
  <2>3. Settled(s)
    <3>1. CASE screen[s] = "password" /\ OpensMenu(reply[<<s, k>>])
      BY <2>1, <3>1 DEF Settled, Answered, OpensMenu
    <3>2. CASE ~(screen[s] = "password" /\ OpensMenu(reply[<<s, k>>]))
      <4>1. screen' = screen /\ screen[s] # "shell"
        BY <1>7, <3>2 DEF Message
      <4>2. \A j \in Submits : Answered(<<s, j>>, "ok")' => Answered(<<s, j>>, "ok")
        BY <2>1, CallersDiffer DEF Answered
      <4> QED BY <4>1, <4>2 DEF Settled, InProgram
    <3> QED BY <3>1, <3>2
  <2> QED BY <2>1, <2>2, <2>3 DEF Unforced
<1>8. CASE Dial(s)
  <2>1. InProgram(s) /\ UNCHANGED <<users, past>>
    BY <1>8 DEF Dial, Turn, InProgram, storeVars
  <2> QED BY <2>1 DEF Settled, Unforced
<1>9. ASSUME NEW k \in Submits, Submit(s, k) PROVE Unforced(s)'
  <2>0. Confirmed(s)
    BY DEF HubInv, SessionInv
  <2>1. /\ screen[s] = "password" /\ screen' = screen /\ users' = users
        /\ reply'[<<s, k>>] # "ok"
    BY <1>9, <2>0, AfterEnter
  <2>2. \A j \in Submits : j # k =>
          op'[<<s, j>>] = op[<<s, j>>] /\ reply'[<<s, j>>] = reply[<<s, j>>]
    <3>1. \A j \in Submits : j # k => <<s, j>> # <<s, k>> /\ <<s, j>> \in Calls
      BY CallersDiffer
    <3> QED BY <1>9, <3>1, EnterElsewhere
  <2>3. Settled(s)
    BY <2>1, <2>2 DEF Settled, Answered, InProgram
  <2>4. past'[s].excuse = past[s].excuse
    BY <1>9 DEF Submit, TypeOK, Histories
  <2> QED BY <2>1, <2>3, <2>4 DEF Unforced
<1> QED BY <1>2, <1>3, <1>4, <1>5, <1>6, <1>7, <1>8, <1>9 DEF Step, Session

LEMMA NextChosen ==
  ASSUME HubInv, NEW s \in Sessions, Exit \/ (\E c \in Calls : StoreAnswers(c)) \/ Step(s)
  PROVE  Chosen(s)'
<1> TypeOK /\ AskedBy /\ OneSubmit(s) /\ Confirmed(s) /\ Chosen(s)
  BY DEF HubInv, SessionInv
<1>0. \A p : /\ Holds(s, p) /\ users' = users /\ past[s].excuse \subseteq past'[s].excuse
             /\ (past[s].overlap => past'[s].overlap)
             => Holds(s, p)'
  BY DEF Holds
<1>1. CASE Exit \/ End(s)
  BY <1>1 DEF Exit, End, TypeOK, Chosen, InProgram
<1>2. ASSUME NEW c \in Calls, StoreAnswers(c) PROVE Chosen(s)'
  <2> DEFINE a == users[owner[s]]
             b == users'[owner[s]]
  <2>1. /\ screen' = screen /\ op' = op /\ op[c] # NoOp /\ reply[c] = "none"
        /\ \A d \in Calls : d # c => reply'[d] = reply[d]
    BY <1>2, AfterAnswer DEF StoreAnswers
  <2>2. /\ past[s].excuse \subseteq past'[s].excuse /\ past'[s].chosen = past[s].chosen
        /\ past'[s].overlap = past[s].overlap
    BY <1>2, AfterExcuse DEF StoreAnswers
  <2>3. CASE screen[s] \in {"none", "ended"}
    BY <2>1, <2>3 DEF Chosen, InProgram
  <2>4. CASE b = NoAccount \/ past'[s].excuse # {}
    BY <2>4 DEF Chosen, Holds
  <2>5. CASE /\ b = a \/ (a # NoAccount /\ b.pw = a.pw)
             /\ \A k \in Submits : c = <<s, k>> => reply'[c] # "ok"
    <3>1. \A p : Holds(s, p) => Holds(s, p)'
      BY <2>2, <2>5 DEF Holds
    <3>2. \A k \in Submits : Answered(<<s, k>>, "ok")' => Answered(<<s, k>>, "ok")
      BY <2>1, <2>5, CallersDiffer DEF Answered
    <3> QED BY <2>1, <2>2, <3>1, <3>2 DEF Chosen, InProgram
  <2>6. CASE past'[s].excuse = {} /\ b.pw = op[c].pw /\
             \E t \in Sessions, k \in Submits : c = <<t, k>> /\ (t # s => past'[s].excuse # {})
    <3>1. PICK k \in Submits : c = <<s, k>>
      BY <2>6
    <3>2. op[<<s, k>>] # NoOp
      BY <2>1, <3>1
    <3>3. InProgram(s) => past'[s].overlap
      BY <2>2, <3>2 DEF OneSubmit
    <3>4. ASSUME screen[s] = "password", NEW j \in Submits, Answered(<<s, j>>, "ok")'
          PROVE  Holds(s, op[<<s, j>>].pw)'
      <4>1. CASE j = k BY <2>1, <2>6, <3>1, <4>1 DEF Holds
      <4>2. CASE j # k
        <5>1. op[<<s, j>>] # NoOp
          BY <2>1, <3>4 DEF Answered
        <5>2. past[s].overlap
          BY <3>2, <3>4, <4>2, <5>1 DEF OneSubmit
        <5> QED BY <2>2, <5>2 DEF Holds
      <4> QED BY <4>1, <4>2
    <3> QED BY <2>1, <3>3, <3>4 DEF Chosen, Holds, InProgram
  <2>7. CASE screen[s] \notin {"none", "ended"}
    BY <1>2, <2>4, <2>5, <2>6, <2>7, StoreOnOwner
  <2> QED BY <2>3, <2>7
<1>3. CASE Connect(s) \/ Authenticated(s) \/ LoginCalls(s)
  <2>1. screen'[s] \notin {"password", "menu", "dialing"}
    BY <1>3 DEF Connect, Authenticated, LoginCalls, Turn, TypeOK
  <2> QED BY <2>1 DEF Chosen, InProgram
<1>4. CASE OpenProgram(s)
  <2>1. screen[s] = "shell"
    BY <1>4 DEF OpenProgram, Turn
  <2>2. \A k \in Submits : op'[<<s, k>>] = NoOp
    <3>1. \E name, answers : Hear(Login(s), name, answers)
      BY <1>4 DEF OpenProgram
    <3> QED BY <2>1, <3>1, AfterHear, CallersDiffer DEF OneSubmit
  <2>3. past'[s].chosen = "none"
    BY <1>4, <2>1 DEF OpenProgram, OneSubmit, InProgram, TypeOK, Histories
  <2> QED BY <2>2, <2>3 DEF Chosen, Answered
<1>5. ASSUME NEW k \in Submits, Message(s, k) PROVE Chosen(s)'
  <2> DEFINE leaves == screen[s] = "password" /\ OpensMenu(reply[<<s, k>>])
  <2>1. /\ op[<<s, k>>] # NoOp /\ op'[<<s, k>>] = NoOp /\ users' = users
        /\ \A j \in Submits : j # k =>
             op'[<<s, j>>] = op[<<s, j>>] /\ reply'[<<s, j>>] = reply[<<s, j>>]
        /\ screen'[s] = IF leaves THEN "menu" ELSE screen[s]
        /\ past'[s].chosen = IF leaves THEN typed[<<s, k>>] ELSE past[s].chosen
        /\ past'[s].overlap = past[s].overlap /\ past'[s].excuse = past[s].excuse
    BY <1>5, AfterMessage
  <2>2. \A p : Holds(s, p) => Holds(s, p)'
    BY <1>0, <2>1
  <2>3. CASE leaves
    <3>1. Answered(<<s, k>>, "ok")
      BY <2>1, <2>3 DEF OpensMenu, Answered
    <3>2. op[<<s, k>>].op = "SetPassword"
      BY <3>1 DEF AskedBy, Answered
    <3>3. typed[<<s, k>>] = op[<<s, k>>].pw
      BY <2>1, <2>3, <3>2 DEF Confirmed
    <3>4. Holds(s, typed[<<s, k>>])
      BY <2>3, <3>1, <3>3 DEF Chosen
    <3> QED BY <2>1, <2>2, <2>3, <3>4 DEF Chosen
  <2>4. CASE ~leaves
    <3>1. screen'[s] = screen[s] /\ past'[s].chosen = past[s].chosen
      BY <2>1, <2>4
    <3>2. \A j \in Submits : Answered(<<s, j>>, "ok")' =>
            Answered(<<s, j>>, "ok") /\ op'[<<s, j>>] = op[<<s, j>>]
      BY <2>1 DEF Answered
    <3> QED BY <2>2, <3>1, <3>2 DEF Chosen, InProgram
  <2> QED BY <2>3, <2>4
<1>6. CASE Dial(s)
  <2>1. InProgram(s) /\ screen'[s] # "password" /\ UNCHANGED <<users, past>>
    BY <1>6 DEF Dial, Turn, InProgram, storeVars, TypeOK
  <2> QED BY <1>0, <2>1 DEF Chosen
<1>7. ASSUME NEW k \in Submits, Submit(s, k) PROVE Chosen(s)'
  <2>1. /\ screen[s] = "password" /\ screen' = screen /\ users' = users
        /\ reply'[<<s, k>>] # "ok"
    BY <1>7, AfterEnter
  <2>2. \A j \in Submits : j # k =>
          op'[<<s, j>>] = op[<<s, j>>] /\ reply'[<<s, j>>] = reply[<<s, j>>]
    <3>1. \A j \in Submits : j # k => <<s, j>> # <<s, k>> /\ <<s, j>> \in Calls
      BY CallersDiffer
    <3> QED BY <1>7, <3>1, EnterElsewhere
  <2>3. past'[s].excuse = past[s].excuse /\ (past[s].overlap => past'[s].overlap)
    BY <1>7 DEF Submit, TypeOK, Histories
  <2>4. \A p : Holds(s, p) => Holds(s, p)'
    BY <1>0, <2>1, <2>3
  <2> QED BY <2>1, <2>2, <2>4 DEF Chosen, Answered, InProgram
<1> QED BY <1>1, <1>2, <1>3, <1>4, <1>5, <1>6, <1>7 DEF Step, Session

-----------------------------------------------------------------------------
\* The theorems.

LEMMA NextSessionInv == HubInv /\ [Next]_vars => (\A s \in Sessions : SessionInv(s))'
<1> SUFFICES ASSUME HubInv, [Next]_vars, NEW s \in Sessions PROVE SessionInv(s)'
    OBVIOUS
<1>1. TypeOK /\ SessionInv(s)
  BY DEF HubInv
<1>2. CASE SameSession(s) BY <1>1, <1>2, SameSessionInv
<1>3. CASE Exit \/ (\E c \in Calls : StoreAnswers(c)) \/ Step(s)
  BY <1>3, NextOneSubmit, NextSettled, NextChosen DEF SessionInv
<1> QED BY <1>1, <1>2, <1>3, Steps

\* The inductive invariant: who asks what, what the migration has passed, and what the
\* submits in flight and the answers not yet heard mean to each session.
THEOREM HubInvariance == Spec => []HubInv
<1>1. HubInv /\ [Next]_vars => HubInv'
  BY NextType, NextAskedBy, NextServing, NextMigrated, NextSessionInv DEF HubInv
<1> QED BY <1>1, InitHubInv, PTL DEF Spec

\* The users, the calls and the sessions are of their types.
THEOREM HubType == Spec => []TypeOK
<1>1. HubInv => TypeOK
  BY DEF HubInv
<1> QED BY <1>1, HubInvariance, PTL

\* Nobody comes to the menu of oob-hub with a temporary password, unless the store could
\* not say that it was one, an operator gave it meanwhile, or HashPassword refused the
\* new one and SetPassword dropped it.
THEOREM ForcedUsersChangeIt == Spec => []ForcedUsersChange
<1>1. HubInv => ForcedUsersChange
  BY DEF HubInv, SessionInv, Settled, Unforced, ForcedUsersChange
<1> QED BY <1>1, HubInvariance, PTL

\* The password of a user who came through the form is the one confirmed there, unless
\* something that the history names came in between.
THEOREM ConfirmedPasswordHolds == Spec => []ChosenPasswordHolds
<1>1. HubInv => ChosenPasswordHolds
  BY DEF HubInv, SessionInv, Chosen, Holds, ChosenPasswordHolds
<1> QED BY <1>1, HubInvariance, PTL

\* The dialing screen shows an error of the password form only to a user who submitted
\* again before the first submit was answered.
THEOREM OneSubmitLeavesNoError == Spec => []StrayErrorNeedsTwoSubmits
<1>1. HubInv => StrayErrorNeedsTwoSubmits
  BY DEF HubInv, SessionInv, OneSubmit, StrayErrorNeedsTwoSubmits
<1> QED BY <1>1, HubInvariance, PTL

\* users.conf is renamed only when all its users have had an account, however often the
\* migration was begun; and the operator has seen the temporary passwords, but for those
\* of the user whom oob-hub died at.
THEOREM NobodyIsLost == Spec => []MigrationLosesNobody
<1>1. HubInv => MigrationLosesNobody
  <2> SUFFICES ASSUME HubInv PROVE MigrationLosesNobody
      OBVIOUS
  <2>1. Migrated /\ AskedBy
    BY DEF HubInv
  <2>2. ~legacy => {LegacyUsers[i] : i \in 1..Len(LegacyUsers)} \subseteq had
    BY <2>1 DEF Migrated
  <2>3. hub # "migrate" => untold \subseteq crashed
    BY <2>1 DEF Migrated, AskedBy
  <2> QED BY <2>2, <2>3 DEF MigrationLosesNobody
<1> QED BY <1>1, HubInvariance, PTL

-----------------------------------------------------------------------------
\* Who changes an account.

\* Only an answer of the store changes users.
LEMMA OnlyAnswersChange ==
  ASSUME TypeOK, [Next]_vars, ~\E c \in Calls : StoreAnswers(c)
  PROVE  UNCHANGED users
<1>1. CASE Start \/ Serve \/ Exit \/ UNCHANGED vars
  BY <1>1 DEF Start, Serve, Exit, vars, storeVars
<1>2. CASE Migration
  BY <1>2 DEF Migration, MigrateUser, MigratedUser, MigrationEnds, Ask, Hear, storeVars
<1>3. CASE Manage \/ Managed
  BY <1>3 DEF Manage, Managed, Ask, Hear
<1>4. ASSUME NEW s \in Sessions, Connect(s) \/ Authenticated(s) \/ LoginCalls(s) \/ OpenProgram(s)
      PROVE  UNCHANGED users
  BY <1>4 DEF Connect, Authenticated, LoginCalls, OpenProgram, Ask, Hear
<1>5. ASSUME NEW s \in Sessions, NEW k \in Submits, Submit(s, k) \/ Message(s, k)
      PROVE  UNCHANGED users
  BY <1>5 DEF Submit, Message, Ask, Hear
<1>6. ASSUME NEW s \in Sessions, Dial(s) \/ End(s) PROVE UNCHANGED users
  BY <1>6 DEF Dial, End, storeVars
<1> QED BY <1>1, <1>2, <1>3, <1>4, <1>5, <1>6 DEF Next, Session

LEMMA AnswersByRight ==
  ASSUME HubInv, NEW c \in Calls, StoreAnswers(c), NEW u \in Users, users'[u] # users[u]
  PROVE  \/ Succeeds(Operator, u)
         \/ Succeeds(Migrator, u) /\ users[u] = NoAccount
         \/ \E s \in Sessions, k \in Submits :
              /\ owner[s] = u /\ Succeeds(<<s, k>>, u)
              /\ users[u] # NoAccount
              /\ users'[u] = [users[u] EXCEPT !.pw = op[<<s, k>>].pw, !.force = FALSE]
<1> DEFINE a == users[op[c].user]
<1>0. TypeOK /\ AskedBy
  BY DEF HubInv
<1>1. Effect(c) /\ op[c].user \in Users
  BY <1>0, AnswerEffect DEF Effect, Told, Asks
<1>2. Told(c, "ok") /\ op[c].user = u
  BY <1>0, <1>1 DEF Effect, Changed, TypeOK
<1>3. Succeeds(c, u)
  BY <1>0, <1>2 DEF Told, Succeeds, TypeOK
<1>4. op[c] # NoOp /\ a = users[u] /\ a \in Accounts \union {NoAccount}
  BY <1>0, <1>2 DEF Told, TypeOK
<1>5. \A new : Changed(c, new) => users'[u] = new
  BY <1>0, <1>2 DEF Changed, TypeOK
<1>6. CASE op[c].op \in {"Remove", "Lock", "Unlock", "Reset"}
  BY <1>0, <1>3, <1>4, <1>6, WhoAsks
<1>7. CASE op[c].op = "Add"
  <2>1. users[u] = NoAccount
    BY <1>1, <1>2, <1>4, <1>7 DEF Effect
  <2> QED BY <1>0, <1>3, <1>4, <1>7, <2>1, WhoAsks
<1>8. CASE op[c].op = "UpdateLastLogin"
  <2>1. a # NoAccount /\ Changed(c, [a EXCEPT !.locked = a.locked])
    BY <1>1, <1>2, <1>8 DEF Effect
  <2>2. users'[u] = [a EXCEPT !.locked = a.locked]
    BY <1>5, <2>1
  <2>3. [a EXCEPT !.locked = a.locked] = a
    BY <1>4, <2>1 DEF Accounts
  <2> QED BY <1>4, <2>2, <2>3
<1>9. CASE op[c].op = "SetPassword"
  <2>1. PICK s \in Sessions, k \in Submits : c = <<s, k>>
    BY <1>0, <1>4, <1>9, WhoAsks
  <2>2. owner[s] = u
    BY <1>0, <1>2, <1>4, <2>1 DEF AskedBy
  <2>3. a # NoAccount /\ Changed(c, [a EXCEPT !.pw = op[c].pw, !.force = FALSE])
    <3>1. ~Changed(c, a)
      BY <1>4, <1>5
    <3>2. ("SetPassword" = "Reset") = FALSE
      OBVIOUS
    <3> QED BY <1>1, <1>2, <1>9, <3>1, <3>2 DEF Effect
  <2>4. users'[u] = [a EXCEPT !.pw = op[c].pw, !.force = FALSE]
    BY <1>5, <2>3
  <2>5. users'[u] = [users[u] EXCEPT !.pw = op[<<s, k>>].pw, !.force = FALSE]
    BY <1>4, <2>1, <2>4
  <2>6. Succeeds(<<s, k>>, u) /\ users[u] # NoAccount
    BY <1>3, <1>4, <2>1, <2>3
  <2> QED BY <2>2, <2>5, <2>6
<1> QED BY <1>1, <1>2, <1>6, <1>7, <1>8, <1>9 DEF Effect

\* A session changes the password and the force of its own account, and nothing of a
\* lock; the migration adds accounts and changes none; everything else is the operator:
\* for every number of sessions of one user, in whatever order their calls are answered.
THEOREM ChangesAreByRight == Spec => AccountsChangeByRight
<1> DEFINE ByRight ==
      \A u \in Users : users'[u] # users[u] =>
        \/ Succeeds(Operator, u)
        \/ Succeeds(Migrator, u) /\ users[u] = NoAccount
        \/ \E s \in Sessions, k \in Submits :
             /\ owner[s] = u /\ Succeeds(<<s, k>>, u)
             /\ users[u] # NoAccount
             /\ users'[u] = [users[u] EXCEPT !.pw = op[<<s, k>>].pw, !.force = FALSE]
<1>1. HubInv /\ [Next]_vars => [ByRight]_vars
  <2> SUFFICES ASSUME HubInv, [Next]_vars PROVE ByRight
    OBVIOUS
  <2>1. TypeOK
    BY DEF HubInv
  <2>2. CASE \E c \in Calls : StoreAnswers(c)
    BY <2>2, AnswersByRight
  <2>3. CASE ~\E c \in Calls : StoreAnswers(c)
    BY <2>1, <2>3, OnlyAnswersChange
  <2> QED BY <2>2, <2>3
<1> QED BY <1>1, HubInvariance, PTL DEF Spec, AccountsChangeByRight
=============================================================================
