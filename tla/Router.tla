------------------------------- MODULE Router -------------------------------
(***************************************************************************)
(* Which request takes which route: class Matcher (httpserver.h) and the   *)
(* table of HttpServer (httpserver.cpp).  A text is a sequence of tokens,  *)
(* so that the characters with a meaning in a URL ("/", "?", " ") and the  *)
(* words of the table can be told apart from the rest of a name.           *)
(***************************************************************************)
EXTENDS Naturals, Sequences, FiniteSets, SequencesExt

Route(method, pattern) == [method |-> method, pattern |-> pattern]

(* The parts of a pattern are words of their own, or the variable.         *)
Variable == <<"variable">>
Head2    == <<<<>>, <<"actions">>>>   \* "/actions"

Routes ==
    [delete |-> Route("DELETE", Head2 \o <<Variable>>),
     create |-> Route("POST", Head2),
     list   |-> Route("GET", Head2),
     ping   |-> Route("GET", <<<<>>, <<"ping">>>>),
     block  |-> Route("POST", Head2 \o <<Variable, <<"block">>>>),
     invocation |-> Route("GET", <<<<>>, <<"invocation">>, Variable>>),
     noblock    |-> Route("POST", Head2 \o <<Variable>>)]

(* The parts of the first i characters, of which the last one may go on.   *)
Cut(text) ==
    LET cut[i \in 0..Len(text)] ==
            IF i = 0 THEN << << >> >>
            ELSE IF text[i] = "/" THEN Append(cut[i - 1], << >>)
            ELSE Append(Front(cut[i - 1]), Append(Last(cut[i - 1]), text[i]))
    IN  cut

(* Matcher::split: getline sees no part behind a delimiter at the end.     *)
Split(text) ==
    LET parts == Cut(text)[Len(text)]
    IN  IF Last(parts) = << >> THEN Front(parts) ELSE parts

(* Mutant: parts behind those of the pattern are let pass.                 *)
Match_Prefix(route, method, parts) ==
    /\ method = Routes[route].method
    /\ Len(parts) >= Len(Routes[route].pattern)
    /\ \A i \in DOMAIN Routes[route].pattern : Routes[route].pattern[i] \in {Variable, parts[i]}

Match(route, method, parts) ==
    /\ method = Routes[route].method
    /\ Len(parts) = Len(Routes[route].pattern)
    /\ \A i \in DOMAIN parts : Routes[route].pattern[i] \in {Variable, parts[i]}

(* The route that requestHandler takes; all of them are tried in turn, but *)
(* no request has a choice: see RoutesExclude.                             *)
Taken(method, parts) ==
    IF \E route \in DOMAIN Routes : Match(route, method, parts)
    THEN CHOOSE route \in DOMAIN Routes : Match(route, method, parts)
    ELSE "unknown"

=============================================================================
