------------------------------- MODULE DataPath -------------------------------
(***************************************************************************)
(* The way of a payload: the body of a request is parsed (httpserver.cpp), *)
(* becomes a Lua value that main receives, what main returns becomes a     *)
(* JSON value again (sandbox.cpp), and that is printed as the reply.  Main *)
(* returns its argument here, so that payload and reply can be compared;   *)
(* a client may send the reply on, as the payload of another run.          *)
(***************************************************************************)
EXTENDS JsonParser, LuaTools, JsonPrinter, JsonReference

CONSTANT MaxHops   \* bound on the runs that a payload goes through

ASSUME PathConstants == MaxHops \in Nat /\ 1..MaxTokens \subseteq DOMAIN NumberText

VARIABLE hops

pathVars == <<parserVars, hops>>

(* The replies to a payload.                                               *)
Replies(d) == {[p \in DOMAIN e |-> Shown(e[p])] : e \in Echo(d)}

PathInit == Init /\ hops = 0

ParseBody == Step /\ UNCHANGED hops

ParseNext == Parse /\ hops' = 0

Run ==
    /\ at = "done"
    /\ hops < MaxHops
    /\ hops' = hops + 1
    /\ doc' \in Replies(doc)
    /\ UNCHANGED <<tokens, at, calls, objectStack, currentProperty>>

PathNext == ParseBody \/ ParseNext \/ Run

PathSpec == PathInit /\ [][PathNext]_pathVars

-----------------------------------------------------------------------------

(* The parser accepts the JSON texts, and the empty one as null, and no    *)
(* other, and the value it fills is the one the text denotes: properties   *)
(* land in the object they are written in although all objects share one   *)
(* name buffer, also when the parse before failed half-way.                *)
ParsesJson ==
    hops = 0 =>
      /\ at = "done" /\ tokens = <<>> => doc = NullValue
      /\ at = "done" /\ tokens # <<>> => IsJson(tokens) /\ doc = ValueOf(tokens)
      /\ at = "error" => ~IsJson(tokens)

(* What the printer writes is JSON, and says what the value is but for the *)
(* digits of numbers.                                                      *)
PrintsJson ==
    at = "done" =>
      LET text == Printed(doc)
      IN  /\ IsJson(text)
          /\ ValueOf(text) = [p \in DOMAIN doc |-> Shown(doc[p])]

Nameless(d) == {p \in DOMAIN d : \E q \in DOMAIN d \ {p} : TextPath(p) = TextPath(q)}

(* Through Lua and back, a payload loses nothing but nulls, the difference *)
(* between arrays and objects, and, of properties whose names are the same *)
(* number, all but one: each other value is found in every reply, where it *)
(* was in the payload.                                                     *)
NothingElseLost ==
    at = "done" =>
      \A p \in DOMAIN doc : \A reply \in Replies(doc) :
        doc[p] \in Leaves \ {"null"} /\ (\A i \in 0..Len(p) : SubSeq(p, 1, i) \notin Nameless(doc))
          => TextPath(p) \in DOMAIN reply /\ reply[TextPath(p)] = Shown(doc[p])

(* A reply without nulls is stable: it can be sent through any number of   *)
(* runs and comes back unchanged.                                          *)
StableWithoutNull ==
    [][Run /\ hops > 0 /\ (\A p \in DOMAIN doc : doc[p] # "null") => doc' = doc]_pathVars

-----------------------------------------------------------------------------

(* What the proofs need.  A value is a tree, and no array in it is longer  *)
(* than its source.                                                        *)
TreeOK ==
    /\ doc \in [DOMAIN doc -> Kinds]
    /\ \A p \in DOMAIN doc \ {Root} :
          Front(p) \in DOMAIN doc /\ doc[Front(p)] \in {"obj", "arr"}
    /\ \A p \in DOMAIN doc : \A i \in DOMAIN p : p[i][2] <= MaxTokens
    /\ at \notin {"done", "error"} => Cardinality(DOMAIN doc) <= Len(tokens) + 1

(* A reply has texts for keys, numbers as they are printed, and no object  *)
(* without properties.                                                     *)
IsReply(d) ==
    \A p \in DOMAIN d :
        /\ TextPath(p) = p
        /\ d[p] # "arr" /\ Shown(d[p]) = d[p]
        /\ d[p] = "obj" => Children(d, p) # {}

PathInv ==
    /\ JsonInv /\ TreeOK
    /\ at \in {"end", "done"} \/ tokens = <<>> => calls = <<>>
    /\ hops \in 0..MaxHops
    /\ hops > 0 => at = "done" /\ IsReply(doc)

=============================================================================
