------------------------------ MODULE KVPatchMC ------------------------------
(***************************************************************************)
(* Constants for checking KVPatch with TLC.                                *)
(***************************************************************************)
EXTENDS KVPatch, TLC

CONSTANTS w1, w2

ASCII == "/" :> 47 @@ "0" :> 48 @@ "1" :> 49 @@ "a" :> 97 @@ "~" :> 126

(* Keys that look like each other once escaped: "~1" becomes "~01" and "/" *)
(* becomes "~1".  Their paths sort otherwise than they do.                 *)
EscapedKeys == {<<"a">>, <<"/">>, <<"~", "1">>}

(* With the empty key, whose path is "/".                                  *)
WithEmptyKey == {<< >>, <<"a">>}

JSON == INSTANCE NomsJSON

(* -0 and {"2": [null], "1": -0, "2": [-0, null]}, and the same written    *)
(* canonically: 0 and {"1": 0, "2": [0, null]}.                            *)
Scalar(type, is, spelled) == [type |-> type, is |-> is, spelled |-> spelled]
NullText == Scalar("null", "null", "canonically")
ZeroText(is, spelled) == Scalar("number", is, spelled)
ArrayOf(items)   == [type |-> "array", items |-> items]
Member(k, value) == [key |-> k, value |-> value]

Texts ==
    UNION {{zero,
            [type |-> "object",
             items |-> <<Member(2, ArrayOf(<<NullText>>)), Member(1, zero),
                         Member(2, ArrayOf(<<zero, NullText>>))>>],
            [type |-> "object",
             items |-> <<Member(1, zero), Member(2, ArrayOf(<<zero, NullText>>))>>]} :
           zero \in {ZeroText("0", "canonically"), ZeroText("0", "as 0.0"), ZeroText("-0", "as -0")}}

(* What the texts of client views are stored as, and the conversions of    *)
(* what can occur, as tables.                                              *)
ParsedTexts == {JSON!FromJSON(text) : text \in Texts}
Written     == [v \in ParsedTexts |-> JSON!ToJSON(v)]
Parsed      == [text \in {Written[v] : v \in ParsedTexts} |-> JSON!FromJSON(text)]

WriteJSON(v)    == Written[v]
ParseJSON(text) == Parsed[text]
===============================================================================
