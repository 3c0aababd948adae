----------------------------- MODULE JsonPrinter -----------------------------
(***************************************************************************)
(* json/Printer.hpp: a value as a sequence of tokens.  The order in which  *)
(* the properties of an object are printed is left open.                   *)
(***************************************************************************)
EXTENDS JsonValue

CONSTANT SixDigits   \* what `ostream << double' makes of the numbers that need more

(* What was printed is printed as it was when it is read.                  *)
ASSUME PrinterConstants ==
    /\ DOMAIN SixDigits \subseteq Scalars \ {"null"}
    /\ \A s \in DOMAIN SixDigits :
          SixDigits[s] \in Scalars \ {"null"} /\ SixDigits[s] \notin DOMAIN SixDigits

(* printNumber *)
Shown(scalar) == IF scalar \in DOMAIN SixDigits THEN SixDigits[scalar] ELSE scalar

(* Mutant: a separator after each part.                                    *)
Separated_AfterEach(parts) ==
    FlattenSeq([i \in DOMAIN parts |-> parts[i] \o <<"value_separator">>])

Separated(parts) ==
    FlattenSeq([i \in DOMAIN parts |-> (IF i = 1 THEN <<>> ELSE <<"value_separator">>) \o parts[i]])

(* The parts of a container, in the order in which they are printed.       *)
Entries(d, p) ==
    IF d[p] = "arr" THEN [i \in 1..Cardinality(Children(d, p)) |-> Append(p, Element(i))]
    ELSE SetToSeq(Children(d, p))

(* printObject, printArray: a part with its name, if it has one.           *)
Part(d, p, q, text) ==
    IF d[p] = "arr" THEN text ELSE <<Last(q)[1], "name_separator">> \o text

(* dispatchType, of what is printed for the parts.                         *)
Dispatch(d, print, p) ==
    LET entries == Entries(d, p)
        parts   == [i \in DOMAIN entries |-> Part(d, p, entries[i], print[entries[i]])]
    IN  CASE d[p] = "arr" -> <<"begin_array">> \o Separated(parts) \o <<"end_array">>
          [] d[p] = "obj" -> <<"begin_object">> \o Separated(parts) \o <<"end_object">>
          [] OTHER        -> <<Shown(d[p])>>

Printed(d) ==
    LET print[p \in DOMAIN d] == Dispatch(d, print, p)
    IN  print[Root]

=============================================================================
