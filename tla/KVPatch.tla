-------------------------------- MODULE KVPatch --------------------------------
(***************************************************************************)
(* How a client's map gets to a new state (kv/patch.go, db/diff.go): a     *)
(* differ, a pool of workers and a collector, all goroutines of one call   *)
(* of kv.Diff, turn the changes between two maps into a JSON patch;        *)
(* ApplyPatch takes the client from the one to the other, operation by     *)
(* operation.  Then the next pull comes.                                   *)
(***************************************************************************)
EXTENDS JSONPointer, FiniteSets, Functions

CONSTANTS
    Keys,     \* keys a map can have
    Code,     \* the order of the characters of paths
    Values,   \* Noms values a map can have
    TextOf(_), ValueIn(_),  \* conversions between Noms values and JSON texts
    Workers   \* the goroutines of kv.Diff that serialize values

ASSUME KeysAssumption == IsFiniteSet(Keys) /\ \A k \in Keys : k \in Seq(DOMAIN Code)
ASSUME CodeAssumption ==
    /\ {"/", "~", "0", "1"} \subseteq DOMAIN Code
    /\ Code \in Injection(DOMAIN Code, Nat)
ASSUME ValuesAssumption == \A v \in Values : ValueIn(TextOf(v)) \in Values
ASSUME WorkersAssumption == IsFiniteSet(Workers) /\ Workers # {}

VARIABLES
    held,    \* the client's map, as far as ApplyPatch got
    from,    \* the map the patch starts from
    to,      \* the map it has to reach
    todo,    \* changes the differ has not handed out
    holds,   \* the operation each worker has yet to hand over, if any
    left,    \* the workers that returned
    r,       \* the operations collected, then sorted, then left to apply
    pc       \* "diffing", "applying" or "idle"

vars == <<held, from, to, todo, holds, left, r, pc>>

-------------------------------------------------------------------------------
Maps     == UNION {[D -> Values] : D \in SUBSET Keys}
EmptyMap == [k \in {} |-> k]

NoValue == [none |-> TRUE]
Root    == << >>  \* the path of the whole map
ClearOp == [op |-> "replace", path |-> Root, value |-> NoValue]
OpOf(change, view) ==
    [op |-> change.type, path |-> Path(change.key),
     value |-> IF change.type = "remove" THEN NoValue ELSE TextOf(view[change.key])]

Operations == [op : {"add", "remove", "replace"}, path : {Root} \cup {Path(k) : k \in Keys},
               value : {TextOf(v) : v \in Values} \cup {NoValue}]

(* The changes Noms finds between two maps.                                *)
ChangeAt(a, b, k) ==
    [key |-> k, type |-> IF k \notin DOMAIN a THEN "add"
                         ELSE IF k \notin DOMAIN b THEN "remove" ELSE "replace"]

ChangedKeys(a, b) ==
    {k \in DOMAIN a \cup DOMAIN b :
        k \notin DOMAIN a \/ k \notin DOMAIN b \/ a[k] # b[k]}

Changes(a, b) == {ChangeAt(a, b, k) : k \in ChangedKeys(a, b)}

NotGone(w)   == w \notin left  \* mutant of Receiving: may still be sending
Receiving(w) == w \notin left /\ holds[w] = << >>
Sending(w)   == holds[w] # << >>

TypeOK ==
    /\ {held, from, to} \subseteq Maps
    /\ todo \subseteq [key : Keys, type : {"add", "remove", "replace"}]
    /\ holds \in [Workers -> {<< >>} \cup {<<op>> : op \in Operations}]
    /\ left \subseteq Workers
    /\ r \in Seq(Operations)
    /\ pc \in {"diffing", "applying", "idle"}

Init ==
    /\ held = EmptyMap
    /\ from = EmptyMap
    /\ to = EmptyMap
    /\ todo = {}
    /\ holds = [w \in Workers |-> << >>]
    /\ left = Workers
    /\ r = << >>
    /\ pc = "idle"

-------------------------------------------------------------------------------
(* db.Diff: from the client's map, or, when the basis is not known, from   *)
(* the empty map after clearing.  kv.Diff is called only if the maps       *)
(* differ.                                                                 *)
Start(target, full) ==
    LET basis == IF full THEN EmptyMap ELSE held
    IN  /\ pc = "idle"
        /\ from' = basis
        /\ to' = target
        /\ r' = IF full THEN <<ClearOp>> ELSE << >>
        /\ todo' = Changes(basis, target)
        /\ left' = IF basis = target THEN Workers ELSE {}
        /\ pc' = IF basis = target THEN "applying" ELSE "diffing"
        /\ UNCHANGED <<held, holds>>

(* A worker receives a change from the differ and makes it an operation.   *)
Receive(w) ==
    /\ pc = "diffing"
    /\ Receiving(w)
    /\ \E change \in todo :
           /\ holds' = [holds EXCEPT ![w] = <<OpOf(change, to)>>]
           /\ todo' = todo \ {change}
    /\ UNCHANGED <<held, from, to, left, r, pc>>

(* The collector receives a worker's operation.                            *)
Collect(w) ==
    /\ pc = "diffing"
    /\ Sending(w)
    /\ r' = r \o holds[w]
    /\ holds' = [holds EXCEPT ![w] = << >>]
    /\ UNCHANGED <<held, from, to, todo, left, pc>>

(* Mutant of Leave: no wg.Done().                                          *)
LeaveUndone(w) ==
    /\ pc = "diffing"
    /\ Receiving(w)
    /\ todo = {}
    /\ UNCHANGED vars

(* The differ closed its channel, and nothing is left in it.               *)
Leave(w) ==
    /\ pc = "diffing"
    /\ Receiving(w)
    /\ todo = {}
    /\ left' = left \cup {w}
    /\ UNCHANGED <<held, from, to, todo, holds, r, pc>>

SomeLeft == left # {}  \* mutant of AllLeft: one Done is enough

(* wg.Wait returns: the channel of operations is closed.                   *)
AllLeft == left = Workers

AsCollected(ops) == {ops}  \* mutant of SortedByPath: not sorted

(* What sort.Slice can make of ops: it is not stable.                      *)
SortedByPath(ops) ==
    {sorted \in {[i \in DOMAIN ops |-> ops[p[i]]] : p \in Bijection(DOMAIN ops, DOMAIN ops)} :
        \A i, j \in DOMAIN ops : i < j => ~Less(sorted[j].path, sorted[i].path, Code)}

Sort ==
    /\ pc = "diffing"
    /\ AllLeft
    /\ r' \in SortedByPath(r)
    /\ pc' = "applying"
    /\ UNCHANGED <<held, from, to, todo, holds, left>>

With(map, key, value) ==
    [k \in DOMAIN map \cup {key} |-> IF k = key THEN value ELSE map[k]]

(* Mutant of Applied: a removed key is set to nothing.                     *)
AppliedAsNull(map, op) ==
    IF op = ClearOp THEN EmptyMap
    ELSE With(map, KeyAt(op.path), IF op.op = "remove" THEN NoValue ELSE ValueIn(op.value))

(* One operation of ApplyPatch.  Version 1 spelled "clear" as removing     *)
(* "/", and every version still reads it so.                               *)
Applied(map, op) ==
    IF op = ClearOp THEN EmptyMap
    ELSE IF op.op = "remove" /\ KeyAt(op.path) = << >> THEN EmptyMap
    ELSE IF op.op = "remove" THEN [k \in DOMAIN map \ {KeyAt(op.path)} |-> map[k]]
    ELSE With(map, KeyAt(op.path), ValueIn(op.value))

Apply ==
    /\ pc = "applying"
    /\ r # << >>
    /\ held' = Applied(held, Head(r))
    /\ r' = Tail(r)
    /\ UNCHANGED <<from, to, todo, holds, left, pc>>

Return ==
    /\ pc = "applying"
    /\ r = << >>
    /\ pc' = "idle"
    /\ UNCHANGED <<held, from, to, todo, holds, left, r>>

Work(w) == Receive(w) \/ Collect(w) \/ Leave(w)

Next ==
    \/ \E target \in Maps, full \in BOOLEAN : Start(target, full)
    \/ \E w \in Workers : Work(w)
    \/ Sort \/ Apply \/ Return

Spec == Init /\ [][Next]_vars

(* The goroutines of a call run; when the next pull comes is up to others. *)
FairSpec == /\ Spec
            /\ \A w \in Workers : WF_vars(Work(w))
            /\ WF_vars(Sort \/ Apply \/ Return)

-------------------------------------------------------------------------------
(* Whatever way the workers interleave, the patch takes the client to the  *)
(* map it was computed for (kv.Diff, ApplyPatch).                          *)
PatchReachesTarget == pc = "idle" => held = to

(* Every change between the maps is with the differ, with one worker, or   *)
(* collected, and with only one of them: none is dropped when a channel is *)
(* closed, none is sent twice.                                             *)
EachChangeOnce ==
    pc = "diffing" =>
        LET waiting == {Path(change.key) : change \in todo}
            working == {holds[w][1].path : w \in {x \in Workers : Sending(x)}}
            collected == {r[i].path : i \in 1..Len(r)} \ {Root}
            all == {Path(k) : k \in ChangedKeys(from, to)}
        IN  /\ waiting \cup working \cup collected = all
            /\ Cardinality(todo) + Cardinality({w \in Workers : Sending(w)})
                 + Cardinality({i \in 1..Len(r) : r[i].path # Root}) = Cardinality(all)

(* The patch is in the order of its paths, clearing first, however the     *)
(* workers interleave: two servers send the same answer to the same pull.  *)
PatchInPathOrder ==
    pc = "applying" => \A i, j \in 1..Len(r) : i < j => Less(r[i].path, r[j].path, Code)

(* A call of kv.Diff returns: no goroutine waits forever for another one.  *)
DiffReturns == pc = "diffing" ~> pc = "idle"
===============================================================================
