----------------------------- MODULE MCSlServer -----------------------------
(* SlServer for TLC: a few clients that make one request each.  Two        *)
(* addresses for three clients make an address be used again; two jobs on  *)
(* one or two pool threads can overtake each other and starve.             *)
EXTENDS SlServer

CONSTANTS c1, c2, c3, a1, a2, hello, good, bad, evil, fatal, w1, w2

MCMaxId == 3
MCIds == 2 .. MCMaxId
ThreeClients == {c1, c2, c3}
MCAddrs == {a1, a2}
MCNames == {hello}
MCOutcome ==
  [code \in Codes |-> CASE code = good -> "returns" [] code = bad -> "fails"
                       [] code = evil -> "loops" [] code = fatal -> "dies"]
MCInitialStore == [n \in Names |-> good]
TwoWorkers == {w1, w2}
GoodCode == {good}
AllCodes == {good, bad, evil, fatal}

=============================================================================
