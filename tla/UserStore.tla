----------------------------- MODULE UserStore -----------------------------
(***************************************************************************)
(* What the interface auth.UserStore (internal/auth/store.go) promises to  *)
(* oob-hub and oob-manage: the users are one shared map, and every call    *)
(* takes effect on it once, at one instant between the call and its        *)
(* answer; a call that answers with an error has had no effect.  A caller  *)
(* that dies gets no answer, its call has taken effect or not.  Add refuses *)
(* a password that cannot be hashed, SetPassword and Reset drop it.        *)
(***************************************************************************)
CONSTANTS
  Calls,      \* the calls ever made; each is made once
  OpsOf,      \* OpsOf[c]: what c may ask, as records with op, user and pw
  Users, NoAccount,
  InitialUsers,
  TooLong,    \* passwords of more than 72 bytes, which HashPassword refuses
  NoOp

VARIABLES
  users,  \* the account of each user
  op,     \* the operation of each call
  reply   \* its answer, "none" before it; "ok" to a change, "yes" or "no" to a question

vars == <<users, op, reply>>

account(u) == users[u]

Init ==
  /\ users \in {InitialUsers, [u \in Users |-> NoAccount]}
  /\ op = [c \in Calls |-> NoOp]
  /\ reply = [c \in Calls |-> "none"]

Invoke(c) ==
  /\ op[c] = NoOp
  /\ \E o \in OpsOf[c] : op' = [op EXCEPT ![c] = o]
  /\ UNCHANGED <<users, reply>>

Pending(c, name) == op[c] # NoOp /\ op[c].op = name /\ reply[c] = "none"

Answer(c, r) == reply' = [reply EXCEPT ![c] = r] /\ UNCHANGED op

Exists(c) == account(op[c].user) # NoAccount

Authenticate(c) ==
  /\ Pending(c, "Authenticate")
  /\ LET a == account(op[c].user) IN
       Answer(c, IF a # NoAccount /\ ~a.locked /\ a.pw = op[c].pw THEN "yes" ELSE "no")
  /\ UNCHANGED users

MustChangePassword(c) ==
  /\ Pending(c, "MustChangePassword")
  /\ \/ ~Exists(c) /\ Answer(c, "notFound")
     \/ Exists(c) /\ Answer(c, IF account(op[c].user).force THEN "yes" ELSE "no")
  /\ UNCHANGED users

Add(c) ==
  /\ Pending(c, "Add")
  /\ \/ Exists(c) /\ Answer(c, "exists") /\ UNCHANGED users
     \/ /\ ~Exists(c) /\ op[c].pw \notin TooLong
        /\ Answer(c, "ok")
        /\ users' = [users EXCEPT ![op[c].user] =
                       [pw |-> op[c].pw, locked |-> FALSE, force |-> TRUE]]

\* The operations on an account that must exist.
Change(c, name, new) ==
  /\ Pending(c, name)
  /\ \/ ~Exists(c) /\ Answer(c, "notFound") /\ UNCHANGED users
     \/ Exists(c) /\ Answer(c, "ok") /\ users' = [users EXCEPT ![op[c].user] = new]

Remove(c) == Change(c, "Remove", NoAccount)
Lock(c) == Change(c, "Lock", [account(op[c].user) EXCEPT !.locked = TRUE])
Unlock(c) == Change(c, "Unlock", [account(op[c].user) EXCEPT !.locked = FALSE])
UpdateLastLogin(c) == Change(c, "UpdateLastLogin", account(op[c].user))

\* Mutant: the hash is taken of the name.
NewPasswordOfName(c, force) == [account(op[c].user) EXCEPT !.pw = op[c].user, !.force = force]

\* Mutant: a new password unlocks.
NewPasswordUnlocks(c, force) ==
  IF op[c].pw \in TooLong THEN account(op[c].user)
  ELSE [pw |-> op[c].pw, locked |-> FALSE, force |-> force]

\* A password that cannot be hashed changes nothing, and the answer is ok.
NewPassword(c, force) ==
  IF op[c].pw \in TooLong THEN account(op[c].user)
  ELSE [account(op[c].user) EXCEPT !.pw = op[c].pw, !.force = force]

SetPassword(c) == Change(c, "SetPassword", NewPassword(c, FALSE))

Reset(c) == Change(c, "Reset", NewPassword(c, TRUE))

Fail(c) ==
  /\ op[c] # NoOp /\ reply[c] = "none"
  /\ Answer(c, "error")
  /\ UNCHANGED users

Next ==
  \E c \in Calls :
    \/ Invoke(c) \/ Fail(c) \/ Authenticate(c) \/ MustChangePassword(c) \/ Add(c)
    \/ Remove(c) \/ Lock(c) \/ Unlock(c) \/ UpdateLastLogin(c) \/ SetPassword(c) \/ Reset(c)

Spec == Init /\ [][Next]_vars
=============================================================================
