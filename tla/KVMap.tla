-------------------------------- MODULE KVMap --------------------------------
(***************************************************************************)
(* kv.Map and kv.MapEditor (kv/map.go): a Noms map that carries its        *)
(* checksum, kept up to date edit by edit rather than recomputed.          *)
(***************************************************************************)
EXTENDS Checksum

CONSTANTS Keys, Values  \* values stand for their canonical JSON

ASSUME KeysAssumption == IsFiniteSet(Keys)

VARIABLES
    map,     \* the Map last built: its entries and its checksum
    editor,  \* the MapEditor open on it, or NoEditor
    stale    \* noms: what MapEditor.Get answers for removed keys

vars == <<map, editor, stale>>

Views    == UNION {[D -> Values] : D \in SUBSET Keys}
Sums     == SUBSET UNION {HashEntry(k, v) : k \in Keys, v \in Values}
Summed   == [entries : Views, sum : Sums]
NoEditor == [open |-> FALSE]

TypeOK ==
    /\ map \in Summed
    /\ editor = NoEditor \/ editor \in Summed
    /\ stale \in Views

NewMap == [entries |-> [k \in {} |-> k], sum |-> {}]

Init ==
    /\ map = NewMap
    /\ editor = NoEditor
    /\ stale = NewMap.entries

(* MapEditor.Has and Get of Noms.  Get can return a value that has been    *)
(* removed, which is why Remove asks Has first (map.go:118-122).           *)
Has(k) == k \in DOMAIN editor.entries
Get(k) == IF Has(k) THEN editor.entries[k] ELSE stale[k]

With(m, k, v) == [x \in DOMAIN m \cup {k} |-> IF x = k THEN v ELSE m[x]]
BlankedOut(m, k) == [x \in DOMAIN m |-> IF x = k THEN NoEditor ELSE m[x]]  \* mutant of Without: not removed
Without(m, k) == [x \in DOMAIN m \ {k} |-> m[x]]

Edit ==
    /\ editor = NoEditor
    /\ editor' = map
    /\ UNCHANGED <<map, stale>>

(* Mutant of SumWithout: Get is trusted without asking Has.                *)
SumWithoutGot(k) ==
    IF Has(k) \/ k \in DOMAIN stale THEN Xor(editor.sum, HashEntry(k, Get(k))) ELSE editor.sum

(* The checksum once key k is gone from it.                                *)
SumWithout(k) == IF Has(k) THEN Xor(editor.sum, HashEntry(k, Get(k))) ELSE editor.sum

(* Remove: only a key that is there comes out of the checksum.             *)
Remove(k) ==
    /\ editor # NoEditor
    /\ editor' = [entries |-> Without(editor.entries, k), sum |-> SumWithout(k)]
    /\ stale' = IF Has(k) THEN With(stale, k, Get(k)) ELSE stale
    /\ UNCHANGED map

(* Set: the old entry is removed first, so that it leaves the checksum.    *)
Set(k, v) ==
    /\ editor # NoEditor
    /\ editor' = [entries |-> With(editor.entries, k, v),
                  sum |-> Xor(SumWithout(k), HashEntry(k, v))]
    /\ stale' = IF Has(k) THEN With(stale, k, Get(k)) ELSE stale
    /\ UNCHANGED map

Build ==
    /\ editor # NoEditor
    /\ map' = editor
    /\ editor' = NoEditor
    /\ stale' = NewMap.entries

Next ==
    \/ Edit
    \/ \E k \in Keys : Remove(k)
    \/ \E k \in Keys, v \in Values : Set(k, v)
    \/ Build

Spec == Init /\ [][Next]_vars

-------------------------------------------------------------------------------
(* However a map was edited, the checksum it carries is the one            *)
(* ComputeChecksum finds by iterating over it (Set, Remove, Build): two    *)
(* servers, or a server and a client, that reach the same map by different *)
(* edits agree on its checksum.                                            *)
SumIsExact ==
    /\ map.sum = ChecksumOf(map.entries)
    /\ editor # NoEditor => editor.sum = ChecksumOf(editor.entries)
===============================================================================
