------------------------------ MODULE JsonParser ------------------------------
(***************************************************************************)
(* json/Parser.hpp.  The parser is a recursive descent over characters.    *)
(* It keeps, next to its own calls (parseObject, parseArray), a stack of   *)
(* pointers to the containers it is filling (objectStack) and one buffer   *)
(* for the name of the property being read (currentProperty).  Here a      *)
(* source is a sequence of tokens that is chosen while it is read; a       *)
(* literal or a string is one token and stands for the value it denotes.   *)
(* A pointer to a node of the value is its path.                           *)
(***************************************************************************)
EXTENDS JsonValue

CONSTANTS Literals,   \* the names and scalars that sources are made of
          MaxTokens   \* bound on the length of a source

Marks   == {"begin_object", "end_object", "begin_array", "end_array",
            "value_separator", "name_separator"}
Tokens  == Marks \union Literals

ASSUME JsonConstants ==
    /\ MaxTokens \in Nat
    /\ Literals \subseteq Leaves
    /\ "null" \in Scalars
    /\ Leaves \intersect (Marks \union {"obj", "arr"}) = {}

VARIABLES tokens,           \* the source as far as it has been read
          at,               \* the place in the parse functions
          calls,            \* the calls of parseObject and parseArray that have not returned
          objectStack,      \* pointers to the values being filled
          currentProperty,  \* the one buffer for property names
          doc               \* the value that parse() was given to fill

parserVars == <<tokens, at, calls, objectStack, currentProperty, doc>>

Places == {"value", "first_element", "first_property", "property", "colon",
           "more", "end", "done", "error"}

Top == Last(objectStack)

-----------------------------------------------------------------------------

(* Mutant: a parse that failed leaves its pointers to the next one.        *)
Fresh_KeepsPointers ==
    /\ tokens' = <<>>
    /\ at' = "value"
    /\ calls' = <<>>
    /\ objectStack' = Append(objectStack, Root)
    /\ doc' = NullValue

(* parse(): reset, the value becomes null, and the stack holds the value.  *)
Fresh ==
    /\ tokens' = <<>>
    /\ at' = "value"
    /\ calls' = <<>>
    /\ objectStack' = <<Root>>
    /\ doc' = NullValue

Init ==
    /\ tokens = <<>>
    /\ at = "value"
    /\ calls = <<>>
    /\ objectStack = <<Root>>
    /\ currentProperty = "empty"
    /\ doc = NullValue

(* store(): the element after the last of an array, the current property   *)
(* of an object, or the value itself.                                      *)
Slot == CASE doc[Top] = "arr" -> Append(Top, Element(Cardinality(Children(doc, Top)) + 1))
          [] doc[Top] = "obj" -> Append(Top, Property(currentProperty))
          [] OTHER            -> Top

Store(kind) == doc' = Assign(doc, Slot, kind)

(* Where a parse function returns to: its caller, or parse() itself.       *)
Caller(open) == IF open = 0 THEN "end" ELSE "more"

Consume(t) == Len(tokens) < MaxTokens /\ tokens' = Append(tokens, t)

OpenContainer(t, kind, first) ==
    /\ at \in {"value", "first_element"}
    /\ Consume(t)
    /\ Store(kind)
    /\ objectStack' = Append(objectStack, Slot)
    /\ calls' = Append(calls, kind)
    /\ at' = first
    /\ UNCHANGED currentProperty

OpenObject == OpenContainer("begin_object", "obj", "first_property")
OpenArray  == OpenContainer("begin_array", "arr", "first_element")

(* parseNull, parseNumber, parseBoolean, parseString                        *)
ParseScalar(t) ==
    /\ at \in {"value", "first_element"}
    /\ Consume(t)
    /\ Store(t)
    /\ at' = Caller(Len(calls))
    /\ UNCHANGED <<calls, objectStack, currentProperty>>

ParseName(t) ==
    /\ at \in {"first_property", "property"}
    /\ Consume(t)
    /\ currentProperty' = t
    /\ at' = "colon"
    /\ UNCHANGED <<calls, objectStack, doc>>

Colon ==
    /\ at = "colon"
    /\ Consume("name_separator")
    /\ at' = "value"
    /\ UNCHANGED <<calls, objectStack, currentProperty, doc>>

(* Mutant: a comma may be the last thing in a container.                   *)
Comma_Trailing ==
    /\ at = "more"
    /\ Consume("value_separator")
    /\ at' = IF Last(calls) = "obj" THEN "first_property" ELSE "first_element"
    /\ UNCHANGED <<calls, objectStack, currentProperty, doc>>

Comma ==
    /\ at = "more"
    /\ Consume("value_separator")
    /\ at' = IF Last(calls) = "obj" THEN "property" ELSE "value"
    /\ UNCHANGED <<calls, objectStack, currentProperty, doc>>

Close(t, kind, first) ==
    /\ at = first \/ (at = "more" /\ Last(calls) = kind)
    /\ Consume(t)
    /\ objectStack' = Front(objectStack)
    /\ calls' = Front(calls)
    /\ at' = Caller(Len(calls) - 1)
    /\ UNCHANGED <<currentProperty, doc>>

CloseObject == Close("end_object", "obj", "first_property")
CloseArray  == Close("end_array", "arr", "first_element")

(* The tokens that each place lets pass; any other one is thrown at.       *)
Fitting ==
    CASE at = "value"          -> {"begin_object", "begin_array"} \union Literals
      [] at = "first_element"  -> {"begin_object", "begin_array", "end_array"} \union Literals
      [] at = "first_property" -> {"end_object"} \union (Literals \intersect Names)
      [] at = "property"       -> Literals \intersect Names
      [] at = "colon"          -> {"name_separator"}
      [] at = "more"           -> {"value_separator",
                                  IF Last(calls) = "obj" THEN "end_object" ELSE "end_array"}
      [] OTHER                 -> {}

Throw(t) ==
    /\ at \notin {"done", "error"}
    /\ t \notin Fitting
    /\ Consume(t)
    /\ at' = "error"
    /\ UNCHANGED <<calls, objectStack, currentProperty, doc>>

(* The source has no more characters: peek() and next() throw, except      *)
(* after the whole value.                                                  *)
EndOfStream ==
    /\ at \notin {"done", "error"}
    /\ at' = IF at = "end" THEN "done" ELSE "error"
    /\ UNCHANGED <<tokens, calls, objectStack, currentProperty, doc>>

(* A source of no characters is not parsed: the value stays as it is, null *)
(* in both callers.  (Nobody uses the stack then, which the code leaves    *)
(* empty.)                                                                 *)
EmptySource ==
    /\ at = "value" /\ tokens = <<>>
    /\ at' = "done"
    /\ UNCHANGED <<tokens, calls, objectStack, currentProperty, doc>>

(* The same parser is given another source.                                *)
Parse ==
    /\ at \in {"done", "error"}
    /\ Fresh
    /\ UNCHANGED currentProperty

Step ==
    \/ OpenObject
    \/ OpenArray
    \/ \E t \in Literals : ParseScalar(t)
    \/ \E t \in Literals \intersect Names : ParseName(t)
    \/ Colon
    \/ Comma
    \/ CloseObject
    \/ CloseArray
    \/ \E t \in Tokens : Throw(t)
    \/ EndOfStream
    \/ EmptySource

Next == Step \/ Parse

Spec == Init /\ [][Next]_parserVars

-----------------------------------------------------------------------------

(* Every variable has its type.                                            *)
JsonTypeOK ==
    /\ tokens \in Seq(Tokens)
    /\ at \in Places
    /\ calls \in Seq({"obj", "arr"})
    /\ objectStack \in Seq(Paths)
    /\ currentProperty \in Names \union {"empty"}
    /\ DOMAIN doc \subseteq Paths
    /\ \A p \in DOMAIN doc : doc[p] \in Kinds

(* The pointers on the stack follow the brackets that are open: under the  *)
(* value itself there is one for each call of parseObject or parseArray    *)
(* that has not returned, it points to a container of that kind which is   *)
(* still a part of the value, and each container lies directly in the one  *)
(* below it on the stack.                                                  *)
StackFollowsBrackets ==
    /\ Len(objectStack) = Len(calls) + 1
    /\ objectStack[1] = Root
    /\ \A i \in 1..Len(objectStack) : objectStack[i] \in DOMAIN doc
    /\ \A i \in 1..Len(calls) :
          /\ doc[objectStack[i + 1]] = calls[i]
          /\ Len(objectStack[i + 1]) = i - 1
          /\ IsPrefix(objectStack[i], objectStack[i + 1])

(* What each place of the parse functions relies on: a value that is not   *)
(* in a container is the first thing stored, the places inside a bracket   *)
(* have that bracket, and a value that is stored in an object has a name.  *)
PlacesFit ==
    /\ at \in {"value", "first_element"} /\ calls = <<>> => doc = NullValue
    /\ at \in {"first_element", "first_property", "property", "colon", "more"} => calls # <<>>
    /\ at = "first_element" => Last(calls) = "arr"
    /\ at \in {"first_property", "property", "colon"} => Last(calls) = "obj"
    /\ at \in {"colon", "value"} /\ calls # <<>> /\ Last(calls) = "obj"
          => currentProperty \in Names

JsonInv == JsonTypeOK /\ StackFollowsBrackets /\ PlacesFit /\ IsFiniteSet(DOMAIN doc)

=============================================================================
