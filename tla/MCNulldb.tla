------------------------------ MODULE MCNulldb ------------------------------
(* Nulldb for TLC: two names, two definitions, and two runs that may be in *)
(* the map at the same time.                                               *)
EXTENDS Nulldb

CONSTANTS hello, age, d1, d2, r1, r2

MCNames == {hello, age}
MCDefs == {d1, d2}
MCRuns == {r1, r2}

=============================================================================
