---------------------------- MODULE JsonReference ----------------------------
(***************************************************************************)
(* What a sequence of tokens means, by the grammar of JSON and without a   *)
(* stack: a bracket and the token that closes it are a container if the    *)
(* commas that are directly in it cut it into elements or members, and a   *)
(* value is found where the brackets around it and the commas before it    *)
(* put it.                                                                 *)
(***************************************************************************)
EXTENDS JsonValue, Integers

Opening == {"begin_object", "begin_array"}
Closing == {"end_object", "end_array"}

(* The brackets that are open behind token i.                              *)
Depth(ts, i) == Cardinality({j \in 1..i : ts[j] \in Opening})
                - Cardinality({j \in 1..i : ts[j] \in Closing})

Closes(ts, a, b) ==
    /\ a < b
    /\ \/ ts[a] = "begin_object" /\ ts[b] = "end_object"
       \/ ts[a] = "begin_array" /\ ts[b] = "end_array"
    /\ \A j \in a..(b - 1) : Depth(ts, j) >= Depth(ts, a)
    /\ Depth(ts, b) < Depth(ts, a)

(* The tokens from a to b are a value.                                     *)
IsValue(ts, a, b) == \/ a = b /\ ts[a] \in Leaves
                     \/ Closes(ts, a, b)

Commas(ts, a, b) ==
    {c \in (a + 1)..b : ts[c] = "value_separator" /\ Depth(ts, c) = Depth(ts, a)}

(* What is between two cuts of the bracket at a.                           *)
IsPart(ts, a, c, d) ==
    \/ ts[a] = "begin_array" /\ IsValue(ts, c + 1, d - 1)
    \/ /\ ts[a] = "begin_object"
       /\ c + 2 < d
       /\ ts[c + 1] \in Names /\ ts[c + 2] = "name_separator" /\ IsValue(ts, c + 3, d - 1)

IsContainer(ts, a, b) ==
    /\ Closes(ts, a, b)
    /\ \/ b = a + 1
       \/ \A c, d \in {a, b} \union Commas(ts, a, b - 1) :
             c < d /\ Commas(ts, a, d - 1) \subseteq 1..c => IsPart(ts, a, c, d)

IsJson(ts) ==
    /\ IsValue(ts, 1, Len(ts))
    /\ \A a \in 1..Len(ts) : ts[a] \in Opening => \E b \in 1..Len(ts) : IsContainer(ts, a, b)

(* The brackets around token i, and the key of what is at i in one.        *)
Around(ts, i) ==
    {o \in 1..(i - 1) : ts[o] \in Opening /\ \A j \in o..(i - 1) : Depth(ts, j) >= Depth(ts, o)}

KeyIn(ts, o, i) ==
    LET cuts == {o} \union Commas(ts, o, i - 1)
    IN  IF ts[o] = "begin_array" THEN Element(Cardinality(cuts))
        ELSE Property(ts[Max(cuts) + 1])

Path(ts, i) ==
    [k \in 1..Depth(ts, i - 1) |-> KeyIn(ts, CHOOSE o \in Around(ts, i) : Depth(ts, o) = k, i)]

Kind(token) == CASE token = "begin_object" -> "obj"
                 [] token = "begin_array"  -> "arr"
                 [] OTHER                  -> token

(* The value of a text: of members with one name the last one counts.      *)
ValueAt(ts, values) ==
    LET kept == {i \in values : \A j \in values : j > i => ~IsPrefix(Path(ts, j), Path(ts, i))}
    IN  [p \in {Path(ts, i) : i \in kept} |-> Kind(ts[CHOOSE i \in kept : Path(ts, i) = p])]

ValueOf(ts) ==
    ValueAt(ts, {i \in 1..Len(ts) : /\ ts[i] \in Opening \union Leaves
                                    /\ i < Len(ts) => ts[i + 1] # "name_separator"})

=============================================================================
