--------------------------- MODULE MCAlgorithms -----------------------------
(***************************************************************************)
(* Sample texts.  In searches: the empty string has a path of its own, the *)
(* hexadecimal of 12 is the text of a number, and LONG stands for a string *)
(* of more than 63 runes.  In upgrades: 7x starts with a number, x is any  *)
(* item that is no number, {c} an object with the child a schema may       *)
(* require.  In names: a is also a digit of an escape, and the text null   *)
(* has two letters.                                                        *)
(***************************************************************************)
EXTENDS Algorithms

MCHex == [t \in {"a", "12", "LONG"} |->
            CASE t = "a" -> "61" [] t = "12" -> "3132" [] t = "LONG" -> "4C4F4E47"]

MCTextsOf ==
    [string |-> {"7x"}, number |-> {"7"}, boolean |-> {"true"},
     array |-> {"[7]", "[x]"}, object |-> {"{c}"}]

MCAsksOf ==
    [string |-> {{}}, number |-> {{}}, boolean |-> {{}},
     array |-> {{"numbers"}}, object |-> {{}, {"child"}}]

\* The empty array meets any item schema.
MCHas(v) ==
    IF v[2] \in {"[]", "[7]"} THEN {"numbers"} ELSE IF v[2] = "{c}" THEN {"child"} ELSE {}

MCNumberText == [v \in SampleValues |->
    CASE v[2] \in {"7", "7x"} -> "7" [] v[2] \in {"null"} -> "0" [] OTHER -> "1"]

MCArrayText == [v \in SampleValues |-> IF v[1] = "number" THEN "[7]" ELSE "[x]"]

MCNullText == <<"a", "a">>
MCEscapes == <<"a", "a">> :> "a"

=============================================================================
