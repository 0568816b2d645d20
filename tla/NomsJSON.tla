-------------------------------- MODULE NomsJSON --------------------------------
(***************************************************************************)
(* JSON texts become Noms values and Noms values JSON texts (FromJSON and  *)
(* ToJSON in util/noms/json), by way of a canonicalizing library and the   *)
(* Go values it decodes to, the "piles".                                   *)
(*                                                                         *)
(* A text is a tree as it was written: a scalar may be spelled in more     *)
(* than one way, and an object may name a key twice, in any order.  Keys   *)
(* of objects are represented by their rank.                               *)
(***************************************************************************)
EXTENDS SequencesExt

(* Decoding forgets spellings, and of two members with a key the first.    *)
RECURSIVE Decode(_)
Decode(text) ==
    CASE text.type = "object" ->
            LET keys == {text.items[i].key : i \in DOMAIN text.items}
                last(k) == SelectLastInSeq(text.items, LAMBDA m : m.key = k)
            IN  [type |-> "object",
                 members |-> [k \in keys |-> Decode(text.items[last(k)].value)]]
      [] text.type = "array" ->
            [type |-> "array", items |-> [i \in DOMAIN text.items |-> Decode(text.items[i])]]
      [] OTHER -> [type |-> text.type, is |-> text.is]

(* Encoding has one spelling for each scalar, that of -0 being 0, and puts *)
(* members in the order of their keys.                                     *)
RECURSIVE Encode(_)
Encode(pile) ==
    CASE pile.type = "object" ->
            LET keys == SetToSortSeq(DOMAIN pile.members, <)
            IN  [type |-> "object",
                 items |-> [i \in DOMAIN keys |->
                    [key |-> keys[i], value |-> Encode(pile.members[keys[i]])]]]
      [] pile.type = "array" ->
            [type |-> "array", items |-> [i \in DOMAIN pile.items |-> Encode(pile.items[i])]]
      [] OTHER -> [type |-> pile.type, spelled |-> "canonically",
                   is |-> IF pile.is = "-0" THEN "0" ELSE pile.is]

Canonicalize(text) == Encode(Decode(text))

Null == [kind |-> "Struct", name |-> "Null"]

RECURSIVE NomsValueFromDecodedJSON(_)
NomsValueFromDecodedJSON(pile) ==
    CASE pile.type = "object" ->
            [kind |-> "Map", entries |-> [k \in DOMAIN pile.members |->
                NomsValueFromDecodedJSON(pile.members[k])]]
      [] pile.type = "array" ->
            [kind |-> "List", items |-> [i \in DOMAIN pile.items |->
                NomsValueFromDecodedJSON(pile.items[i])]]
      [] pile.type = "null" -> Null
      [] OTHER -> [kind |-> pile.type, is |-> pile.is]

RECURSIVE ToPile(_)
ToPile(v) ==
    CASE v.kind = "Map" ->
            [type |-> "object", members |-> [k \in DOMAIN v.entries |-> ToPile(v.entries[k])]]
      [] v.kind = "List" ->
            [type |-> "array", items |-> [i \in DOMAIN v.items |-> ToPile(v.items[i])]]
      [] v = Null -> [type |-> "null", is |-> "null"]
      [] OTHER -> [type |-> v.kind, is |-> v.is]

ParsedAsIs(text) == NomsValueFromDecodedJSON(Decode(text))  \* mutant of FromJSON
FromJSON(text)   == NomsValueFromDecodedJSON(Decode(Canonicalize(text)))

ToJSON(v) == Encode(ToPile(v))
===============================================================================
