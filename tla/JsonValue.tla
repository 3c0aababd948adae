------------------------------ MODULE JsonValue ------------------------------
(***************************************************************************)
(* json/Value.hpp.  A value is kept flat: a function from the path of each *)
(* node to its kind, "obj", "arr", or the scalar itself ("null" is one).   *)
(* A path is a sequence of keys: the names of properties and the numbers   *)
(* of elements, counted from 1.                                            *)
(***************************************************************************)
EXTENDS Naturals, Sequences, FiniteSets, SequencesExt

CONSTANTS Names,   \* strings, which may be property names or values
          Scalars  \* numbers, booleans and "null"

Leaves == Names \union Scalars
Kinds  == {"obj", "arr"} \union Leaves
Property(name) == <<name, 0>>
Element(i)     == <<"element", i>>
Keys   == (Names \X {0}) \union ({"element"} \X (Nat \ {0}))
Paths  == Seq(Keys)
Root   == <<>>

(* Value::Value() *)
NullValue == [p \in {Root} |-> "null"]

Below(d, p)    == {q \in DOMAIN d : IsPrefix(p, q)}
Children(d, p) == {q \in Below(d, p) : Len(q) = Len(p) + 1}

(* What a node holds is replaced, with everything below it.                *)
Assign(d, p, kind) ==
    [q \in (DOMAIN d \ Below(d, p)) \union {p} |-> IF q = p THEN kind ELSE d[q]]

=============================================================================
