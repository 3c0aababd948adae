------------------------------- MODULE Base64 -------------------------------
(***************************************************************************)
(* base64.h.  Bytes and characters are their codes.                        *)
(***************************************************************************)
EXTENDS Integers, Sequences, SequencesExt

Byte == 0..255
Pad == 61   \* '='

kBase64Alphabet(v) == CASE v < 26 -> v + 65
                        [] v \in 26..51 -> v + 71
                        [] v \in 52..61 -> v - 4
                        [] v = 62 -> 43
                        [] OTHER  -> 47

b64_lookup(c) == CASE c \in 65..90  -> c - 65
                   [] c \in 97..122 -> c - 71
                   [] c \in 48..57  -> c + 4
                   [] c = 43 -> 62
                   [] c = 47 -> 63
                   [] OTHER  -> 255

a3_to_a4(a) == <<(a[1] \div 4),
                 ((a[1] % 4) * 16) + (a[2] \div 16),
                 ((a[2] % 16) * 4) + (a[3] \div 64),
                 a[3] % 64>>

(* Mutant: the mask of the second shift is one bit short.                  *)
a4_to_a3_Mask(a) == <<((a[1] * 4) + ((a[2] \div 16) % 4)) % 256,
                      (((a[2] % 16) * 16) + ((a[3] \div 4) % 8)) % 256,
                      (((a[3] % 4) * 64) + a[4]) % 256>>

a4_to_a3(a) == <<((a[1] * 4) + ((a[2] \div 16) % 4)) % 256,
                 (((a[2] % 16) * 16) + ((a[3] \div 4) % 16)) % 256,
                 (((a[3] % 4) * 64) + a[4]) % 256>>

(* The n-th group of a sequence, filled up with zeros.                     *)
Group(s, n, size) ==
    [i \in 1..size |-> IF (n - 1) * size + i <= Len(s) THEN s[(n - 1) * size + i] ELSE 0]
Groups(s, size) == (Len(s) + size - 1) \div size

Encode(in) ==
    [i \in 1..(4 * Groups(in, 3)) |->
        LET n == (i + 3) \div 4
        IN  IF i > Groups(in, 3) * 4 - (3 * Groups(in, 3) - Len(in)) THEN Pad
            ELSE kBase64Alphabet(a3_to_a4(Group(in, n, 3))[i - 4 * (n - 1)])]

(* What Decode writes: up to the first '=', and of the last group one byte *)
(* less than there are characters.                                         *)
Written(in) ==
    LET body == SelectInSeq(in, LAMBDA c : c = Pad)
        text == IF body = 0 THEN in ELSE SubSeq(in, 1, body - 1)
        bytes(n) == a4_to_a3([i \in 1..4 |-> b64_lookup(Group(text, n, 4)[i])])
        rest == Len(text) % 4
    IN  [i \in 1..(3 * (Len(text) \div 4) + (IF rest = 0 THEN 0 ELSE rest - 1)) |->
            bytes((i + 2) \div 3)[i - 3 * ((i + 2) \div 3 - 1)]]

(* The length that Decode gives its output before it writes.  In an empty  *)
(* text it looks at the byte before the buffer of a std::string, the last  *)
(* one of its length, which is zero.                                       *)
DecodedLength(in) ==
    LET trailing == IF in = <<>> THEN 0
                    ELSE Len(in) - SelectLastInSeq(in, LAMBDA c : c # Pad)
    IN  (6 * Len(in)) \div 8 - trailing

=============================================================================
