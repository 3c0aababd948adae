------------------------------- MODULE LuaTools -------------------------------
(***************************************************************************)
(* luatools.cpp on the flat values of JsonValue: what a payload is as a    *)
(* Lua value, and what a Lua value is as a result.  In a Lua table the     *)
(* key Element(i) is the integer i and Property(name) a string.            *)
(***************************************************************************)
EXTENDS JsonValue

CONSTANTS NumberOf,     \* what lua_tonumber makes of the names that lua_isnumber accepts
          NumberText    \* what JSON::toString makes of a number: six digits of it

(* What was printed can be read, and is then printed as it was.            *)
ASSUME LuaConstants ==
    /\ Leaves \intersect {"nil", "table"} = {}
    /\ NumberText \in [DOMAIN NumberText -> Names]
    /\ \A name \in DOMAIN NumberOf : NumberOf[name] \in DOMAIN NumberText
    /\ \A n \in DOMAIN NumberText :
          NumberText[n] \in DOMAIN NumberOf => NumberText[NumberOf[NumberText[n]]] = NumberText[n]

(* Mutant: writeArray starts with the second element.                      *)
Written_SkipsFirst(d) ==
    [p \in {p \in DOMAIN d : d[p] # "null" /\ Element(1) \notin Range(p)} \union {<<>>} |->
        CASE d[p] = "null"           -> "nil"
          [] d[p] \in {"obj", "arr"} -> "table"
          [] OTHER                   -> d[p]]

(* writeValue, writeObject, writeArray: containers become tables, and an   *)
(* entry whose value is nil is no entry.                                   *)
Written(d) ==
    [p \in {p \in DOMAIN d : d[p] # "null"} \union {<<>>} |->
        CASE d[p] = "null"           -> "nil"
          [] d[p] \in {"obj", "arr"} -> "table"
          [] OTHER                   -> d[p]]

(* readObject asks for a number first, and lua_isnumber accepts a string   *)
(* that looks like one.  Numbers are then printed.                         *)
KeyText(k) == IF k[2] > 0                      THEN NumberText[k[2]]
              ELSE IF k[1] \in DOMAIN NumberOf THEN NumberText[NumberOf[k[1]]]
              ELSE k[1]

TextPath(p) == [i \in DOMAIN p |-> Property(KeyText(p[i]))]

(* Mutant: the traversal ends early, as it does when the key on the stack  *)
(* is changed.                                                             *)
Survivors_StopsEarly(l) ==
    {W \in SUBSET DOMAIN l : <<>> \in W /\ \A q \in W \ {<<>>} : Front(q) \in W}

(* lua_next visits the keys of a table in an order of its own; of the keys *)
(* that are printed alike the last one is kept, with all it holds.         *)
Survivors(l) ==
    {W \in SUBSET DOMAIN l :
        /\ <<>> \in W
        /\ \A q \in W \ {<<>>} : Front(q) \in W
        /\ \A p \in W : \A q \in Children(l, p) :
              \E one \in W \intersect Children(l, p) :
                 \A r \in W \intersect Children(l, p) :
                    (KeyText(Last(r)) = KeyText(Last(q))) <=> (r = one)}

(* readValue, readObject: a table becomes an object when it has an entry;  *)
(* nothing makes an object of a Value when it has none, and it stays null. *)
ReadBack(l) ==
    {[t \in {TextPath(q) : q \in W} |->
         LET q == CHOOSE r \in W : TextPath(r) = t
         IN  CASE l[q] = "nil"   -> "null"
               [] l[q] = "table" -> IF Children(l, q) = {} THEN "null" ELSE "obj"
               [] OTHER          -> l[q]] : W \in Survivors(l)}

(* What a client gets back from an action that returns its payload.        *)
Echo(d) == ReadBack(Written(d))

=============================================================================
