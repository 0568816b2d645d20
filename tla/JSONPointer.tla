------------------------------ MODULE JSONPointer ------------------------------
(***************************************************************************)
(* How kv.Diff writes a key into the path of an operation and ApplyPatch   *)
(* reads it back (jsonPointerEscape, jsonPointerUnescape in kv/patch.go).  *)
(* Keys and paths are sequences of one-character strings.                  *)
(***************************************************************************)
EXTENDS Naturals, Sequences

FoundAt(s, old, i) ==
    i + Len(old) - 1 <= Len(s) /\ \A j \in DOMAIN old : s[i + j - 1] = old[j]

(* strings.ReplaceAll(s, old, new), from left to right.                    *)
ReplaceAll(s, old, new) ==
    LET rest[i \in 1..(Len(s) + Len(old))] ==
            IF i > Len(s) THEN << >>
            ELSE IF FoundAt(s, old, i) THEN new \o rest[i + Len(old)]
            ELSE <<s[i]>> \o rest[i + 1]
    IN  rest[1]

Escape(s) == ReplaceAll(ReplaceAll(s, <<"~">>, <<"~", "0">>), <<"/">>, <<"~", "1">>)

(* Mutant of Unescape: the tildes first, so that "~01" becomes a slash.    *)
UnescapeTildeFirst(s) == ReplaceAll(ReplaceAll(s, <<"~", "0">>, <<"~">>), <<"~", "1">>, <<"/">>)

Unescape(s) == ReplaceAll(ReplaceAll(s, <<"~", "1">>, <<"/">>), <<"~", "0">>, <<"~">>)

(* The path of a key at the top level of the map, and back.                *)
Path(key)   == <<"/">> \o Escape(key)
KeyAt(path) == Unescape(Tail(path))

(* Go's order of strings, byte by byte, for an order Code of characters.   *)
Less(p, q, Code) ==
    \/ Len(p) < Len(q) /\ p = SubSeq(q, 1, Len(p))
    \/ \E i \in DOMAIN p \cap DOMAIN q :
           /\ SubSeq(p, 1, i - 1) = SubSeq(q, 1, i - 1)
           /\ Code[p[i]] < Code[q[i]]
===============================================================================
