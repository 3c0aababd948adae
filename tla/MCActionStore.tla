---------------------------- MODULE MCActionStore ----------------------------
(* ActionStore for TLC: two names, two definitions to tell apart, two runs *)
(* that may both wait for a name while it is deleted and created again.    *)
EXTENDS ActionStore

CONSTANTS hello, age, d1, d2, r1, r2

MCNames == {hello, age}
MCDefs == {d1, d2}
MCRuns == {r1, r2}

=============================================================================
