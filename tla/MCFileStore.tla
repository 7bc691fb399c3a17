---------------------------- MODULE MCFileStore ----------------------------
\* Model-checking instances of FileStore: SSH sessions of oob-hub and runs of
\* oob-manage.  At first alice has an account, bob has a locked one, carol has none.
EXTENDS FileStore, TLC

CONSTANTS hub, manage, c1, c2, c3

HubAndManage == (c1 :> hub) @@ (c2 :> hub) @@ (c3 :> manage)
OneEach == (c1 :> hub) @@ (c3 :> manage)

Op(name, u, p) == [op |-> name, user |-> u, pw |-> p]

\* What a session asks about the user who logs in, and what an operator asks.
Login == {Op("Authenticate", "alice", "old"), Op("UpdateLastLogin", "alice", "old"),
          Op("MustChangePassword", "alice", "old"), Op("SetPassword", "alice", "new")}

Manage == {Op("Add", "carol", "temp"), Op("Add", "alice", "temp"), Op("Remove", "alice", "temp"),
           Op("Lock", "alice", "temp"), Op("Unlock", "bob", "temp"), Op("Reset", "alice", "temp")}

LoginLong == {o \in Login : o.op # "SetPassword"} \union {Op("SetPassword", "alice", "long")}

HubOps == (c1 :> Login) @@ (c2 :> LoginLong) @@ (c3 :> Manage)

LoginOps == (c1 :> Login) @@ (c3 :> Manage)

StartUsers == [u \in Users |->
  CASE u = "alice" -> [pw |-> "old", locked |-> FALSE, force |-> TRUE]
    [] u = "bob"   -> [pw |-> "old", locked |-> TRUE, force |-> FALSE]
    [] OTHER       -> NoAccount]
=============================================================================
