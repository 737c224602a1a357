-------------------------------- MODULE Cells --------------------------------
(***************************************************************************)
(* parsing/util.py and direction_from of parsing/quotes.py: what the text   *)
(* and the font colour of a cell of one of COL's tables are taken for.      *)
(*                                                                         *)
(* A text is abstracted to the digits in it (None when it is a dash or      *)
(* words), the sign in front of them, and whether parentheses are around    *)
(* them.  Printed is COL's side: the ways its pages show a number.          *)
(***************************************************************************)
EXTENDS Integers, Sequences

CONSTANT None  \* Python's

ASSUME NoneAssumption == None \notin Int

Decimals == Int \cup {None}

Texts == [digits : Nat \cup {None}, sign : {"", "+", "-"}, parens : BOOLEAN]

\* Mutation: parentheses are negative whatever they enclose.
ToDecimalParens(text) ==
    LET value == IF text.sign = "-" THEN - text.digits ELSE text.digits
    IN  IF text.digits = None THEN None
        ELSE IF text.parens THEN - value ELSE value

\* Parentheses mean negative only when no sign is inside them.
ToDecimal(text) ==
    LET value == IF text.sign = "-" THEN - text.digits ELSE text.digits
        negative == text.parens /\ text.sign = ""
    IN  IF text.digits = None THEN None
        ELSE IF negative /\ value > 0 THEN - value ELSE value

\* "plain" is -1.07, "signed" is +1.07, "accounting" is (1.07) for a loss,
\* "decorated" is (+1.07), "unsigned" leaves the sign to the font colour.
Styles == {"plain", "signed", "accounting", "decorated", "unsigned"}

Printed(value, style) ==
    [digits |-> IF value = None THEN None ELSE IF value < 0 THEN - value ELSE value,
     sign |-> IF value = None THEN ""
              ELSE IF value < 0 /\ style \in {"plain", "signed", "decorated"} THEN "-"
              ELSE IF value > 0 /\ style \in {"signed", "decorated"} THEN "+"
              ELSE "",
     parens |-> /\ value # None
                /\ \/ style = "decorated"
                   \/ style = "accounting" /\ value < 0]

\* Colours other than the known reds and greens are "other", and so is none.
Colours == {"red", "green", "other"}
Directions == {"UP", "DOWN", "FLAT"}

Sign(change) == IF change > 0 THEN "UP" ELSE IF change < 0 THEN "DOWN" ELSE "FLAT"

\* The colour decides; the change only breaks the tie when it says nothing.
DirectionFrom(colour, change) ==
    CASE colour = "red" -> "DOWN"
      [] colour = "green" -> "UP"
      [] OTHER -> Sign(change)

-----------------------------------------------------------------------------
\* A filter of a list, by position: the places up to n that are kept, in order.
InOrder(places, n) ==
    LET upTo[k \in 0 .. n] ==
            IF k = 0 THEN <<>>
            ELSE IF k \in places THEN Append(upTo[k - 1], k)
            ELSE upTo[k - 1]
    IN  upTo[n]
=============================================================================
