------------------------------- MODULE MCSlCli -------------------------------
EXTENDS SlCli

(* A plain name; one that is the address of its blocking run, one whose    *)
(* end is not sent, and the empty one.                                     *)
MCNames == {<<"a">>, <<"a", "backslash", "block">>, <<"a", "#", "wide">>, <<>>}
MCFiles == {<<255, 0>>, <<254, 220, 186, 152>>}

(* Controls, what has an escape of its own, what does not, and the borders *)
(* of the encodings and of the surrogates.                                 *)
MCChars == {0, 9, 31, 34, 47, 92, 97, 117, 127, 128, 233, 2047, 2048,
            55296, 57343, 57344, 65535, 65536, 1114111}
MCTexts == UNION {[1..n -> MCChars] : n \in 0..2}

=============================================================================
