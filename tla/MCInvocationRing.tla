-------------------------- MODULE MCInvocationRing --------------------------
(* InvocationRing for TLC: two ids and three requests that ask for them,   *)
(* so that one id can be asked for twice or three times, before and after  *)
(* its result is there.                                                    *)
EXTENDS InvocationRing

CONSTANTS i1, i2, c1, c2, c3

MCIds == {i1, i2}
MCCallbacks == {c1, c2, c3}

=============================================================================
