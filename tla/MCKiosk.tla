------------------------------- MODULE MCKiosk -------------------------------
(***************************************************************************)
(* Two reservations, one with a name that is a part of the other's, one    *)
(* without a phone; queries of up to three of their characters, a capital, *)
(* a sign and a space among them.                                          *)
(***************************************************************************)
EXTENDS KioskCheckin, TLC

CONSTANTS g1, g2

MCRecord ==
    (g1 :> [name |-> <<"a", "b">>, kana |-> <<"c">>,
            number |-> <<"A", "-", "1">>, phone |-> <<>>])
    @@ (g2 :> [name |-> <<"b", "a", " ", "b">>, kana |-> <<>>,
               number |-> <<"A", "-", "2">>, phone |-> <<"1", "-", "2">>])

MCLetters == {"a", "b", "c"}
MCDigits  == {"1", "2"}
MCSpaces  == {" "}
Chars     == MCLetters \cup MCDigits \cup MCSpaces \cup {"A", "-"}
MCFold    == [ch \in Chars |-> IF ch = "A" THEN "a" ELSE ch]
MCQueries == UNION {[1..n -> Chars] : n \in 0..3}

ASSUME MCDirectory == NoNameHoldsAPhone
=============================================================================
