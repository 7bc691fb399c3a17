------------------------------- MODULE MCHub -------------------------------
\* Model-checking instance of Hub.  At first alice has a temporary password; bob
\* is known to users.conf only.
EXTENDS Hub, TLC

Alices == [s \in Sessions |-> "alice"]

Legacy == <<"alice", "bob">>

StartUsers == ("alice" :> [pw |-> "temp", locked |-> FALSE, force |-> TRUE])
           @@ ("bob" :> NoAccount)
=============================================================================
