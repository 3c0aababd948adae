------------------------------ MODULE JsonText ------------------------------
(***************************************************************************)
(* How the parser (json/Parser.hpp, json/Utf8.hpp) reads a string and the  *)
(* name of a property, byte by byte.  JsonParser takes each for one token. *)
(* Bytes and characters are numbers; a parse that throws ends at 0.        *)
(***************************************************************************)
EXTENDS Integers, Sequences, SequencesExt

Quote == 34
ReverseSolidus == 92

Throws == [text |-> <<>>, next |-> 0]
Read(text, next) == [text |-> text, next |-> next]

is_surrogate(cp) == cp \in 55296..57343

(* Mutant: the first bound is one too high.                                *)
append_Shorter(cp) ==
    IF cp <= 128 THEN <<cp>>
    ELSE IF cp < 2048 THEN <<192 + cp \div 64, 128 + (cp % 64)>>
    ELSE <<224 + cp \div 4096, 128 + ((cp \div 64) % 64), 128 + (cp % 64)>>

(* utf8::append, for what four hexadecimal digits can be                   *)
append(cp) ==
    IF cp < 128 THEN <<cp>>
    ELSE IF cp < 2048 THEN <<192 + cp \div 64, 128 + (cp % 64)>>
    ELSE <<224 + cp \div 4096, 128 + ((cp \div 64) % 64), 128 + (cp % 64)>>

Hex(c) == CASE c \in 48..57  -> c - 48
            [] c \in 65..70  -> c - 55
            [] c \in 97..102 -> c - 87
            [] OTHER -> -1

(* Four digits from position i on, and what is written for them.           *)
readUTF8Escape(source, i) ==
    IF i + 3 <= Len(source) /\ \A k \in i..(i + 3) : Hex(source[k]) >= 0
    THEN LET cp == 4096 * Hex(source[i]) + 256 * Hex(source[i + 1])
                     + 16 * Hex(source[i + 2]) + Hex(source[i + 3])
         IN  IF is_surrogate(cp) THEN Throws ELSE Read(append(cp), i + 4)
    ELSE Throws

(* What stands behind a reverse solidus, at position i.                    *)
escapeChar(source, i) ==
    IF i > Len(source) THEN Throws
    ELSE CASE source[i] = 98  -> Read(<<8>>, i + 1)
           [] source[i] = 116 -> Read(<<9>>, i + 1)
           [] source[i] = 110 -> Read(<<10>>, i + 1)
           [] source[i] = 102 -> Read(<<12>>, i + 1)
           [] source[i] = 114 -> Read(<<13>>, i + 1)
           [] source[i] \in {Quote, ReverseSolidus, 47} -> Read(<<source[i]>>, i + 1)
           [] source[i] = 117 -> readUTF8Escape(source, i + 1)
           [] OTHER -> Throws

(* The loops up to the closing quotation mark, with and without escapes,   *)
(* from the opening one at the start.                                      *)
Loop(source, escapes) ==
    LET from[i \in 2..(Len(source) + 1)] ==
            IF i > Len(source) THEN Throws
            ELSE IF source[i] = Quote THEN Read(<<>>, i + 1)
            ELSE LET step == IF escapes /\ source[i] = ReverseSolidus
                             THEN escapeChar(source, i + 1)
                             ELSE Read(<<source[i]>>, i + 1)
                     rest == from[step.next]
                 IN  IF step = Throws \/ rest = Throws THEN Throws
                     ELSE Read(step.text \o rest.text, rest.next)
    IN  from[2]

parseString(source) == Loop(source, TRUE)
parseProperty(source) == Loop(source, FALSE)

printString(text) == <<Quote>> \o text \o <<Quote>>

-----------------------------------------------------------------------------
(* What clients write.  A text is a sequence of code points; a surrogate   *)
(* stands for itself, as in what JSON.stringify makes of half a pair.      *)

CodePoints == {c \in Nat : c <= 1114111}

(* The encoding of a character in UTF-8, from the number of its bits.      *)
Utf8(c) ==
    IF c < 128 THEN <<c>>
    ELSE LET more == CHOOSE k \in 1..3 : c < 2 ^ (5 * k + 6) /\ (k = 1 \/ c >= 2 ^ (5 * k + 1))
         IN  <<256 - 2 ^ (7 - more) + c \div 64 ^ more>>
               \o [j \in 1..more |-> 128 + ((c \div 64 ^ (more - j)) % 64)]

Digit(upper, v) == IF v < 10 THEN 48 + v ELSE v + (IF upper THEN 55 ELSE 87)
Escaped(upper, c) ==
    <<ReverseSolidus, 117>>
      \o [k \in 1..4 |-> Digit(upper, (c \div 16 ^ (4 - k)) % 16)]

Letter == [c \in {8, 9, 10, 12, 13, Quote, ReverseSolidus, 47} |->
              CASE c = 8 -> 98 [] c = 9 -> 116 [] c = 10 -> 110 [] c = 12 -> 102
                [] c = 13 -> 114 [] OTHER -> c]

Plainly(c) == c >= 32 /\ c \notin {Quote, ReverseSolidus} /\ ~is_surrogate(c)

(* All that JSON allows for a character in a string.                       *)
SpellingsOf(c) ==
    (IF Plainly(c) THEN {Utf8(c)} ELSE {})
      \union (IF c \in DOMAIN Letter THEN {<<ReverseSolidus, Letter[c]>>} ELSE {})
      \union (IF c < 65536 THEN {Escaped(upper, c) : upper \in BOOLEAN} ELSE {})

More(begun, c) == {before \o spelling : before \in begun, spelling \in SpellingsOf(c)}

Spellings(text) ==
    LET upTo[i \in 0..Len(text)] == IF i = 0 THEN {<<>>} ELSE More(upTo[i - 1], text[i])
    IN  {printString(spelling) : spelling \in upTo[Len(text)]}

InUtf8(text) ==
    LET upTo[i \in 0..Len(text)] == IF i = 0 THEN <<>> ELSE upTo[i - 1] \o Utf8(text[i])
    IN  upTo[Len(text)]

(* The string of a text as it should be read, however it is spelled; half  *)
(* a pair of surrogates, and so a whole one, is refused.                   *)
Faithful(text) ==
    \A source \in Spellings(text) :
        parseString(source) = IF \E i \in DOMAIN text : is_surrogate(text[i])
                              THEN Throws
                              ELSE Read(InUtf8(text), Len(source) + 1)

(* The name of a property is read faithfully if it is written without an   *)
(* escape, and only then.                                                  *)
NamedFaithfully(text) ==
    \A source \in Spellings(text) :
        (parseProperty(source) = Read(InUtf8(text), Len(source) + 1))
            <=> ReverseSolidus \notin ToSet(source)

(* A string is printed as it can be read if it has nothing to escape, or   *)
(* only controls, which JSON does not allow but this parser reads.         *)
PrintedFaithfully(text) ==
    (\A i \in DOMAIN text : ~is_surrogate(text[i])) =>
        ((parseString(printString(InUtf8(text))) = Read(InUtf8(text), Len(InUtf8(text)) + 3))
            <=> {Quote, ReverseSolidus} \intersect ToSet(text) = {})

=============================================================================
