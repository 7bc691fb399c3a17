------------------------------- MODULE MCMenu -------------------------------
\* Model-checking instance of Menu.  The first registration is that of the trunk.
EXTENDS Menu, TLC

Permuted == Permutations(Chains)

Printed == [t \in Status |-> {<<"other", t>>, <<"other", t, "Registered", "other">>} \union
  (IF t = "Registered" THEN {} ELSE {<<>>, <<"other", "found">>})]
=============================================================================
