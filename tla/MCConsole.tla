----------------------------- MODULE MCConsole -----------------------------
\* Model-checking instances of Console.
EXTENDS Console, TLC

CONSTANTS s1, s2

DialSymmetry == Permutations(Dials)
=============================================================================
