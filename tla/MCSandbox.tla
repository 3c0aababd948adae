------------------------------ MODULE MCSandbox ------------------------------
(* Sandbox for TLC: two pool threads, each of which runs actions for ever. *)
EXTENDS Sandbox

CONSTANTS w1, w2

MCThreads == {w1, w2}

=============================================================================
