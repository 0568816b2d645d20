---------------------------- MODULE KVPatchProofs ----------------------------
(***************************************************************************)
(* Theorems about KVPatch: for any keys, values and workers.               *)
(***************************************************************************)
EXTENDS KVPatch, JSONPointerProofs, FiniteSetTheorems

-------------------------------------------------------------------------------
(* The inductive invariant.                                                *)

Changed   == ChangedKeys(from, to)
Change(k) == ChangeAt(from, to, k)
PatchOp(k) == OpOf(Change(k), to)

PatchChanges == {Change(k) : k \in Changed}
PatchOps     == {PatchOp(k) : k \in Changed}
OpsToSend    == {<<PatchOp(k)>> : k \in Changed}

(* Where the change of a key is: with the differ, with a worker, collected. *)
Waiting(k)       == Change(k) \in todo
WithWorker(k, w) == holds[w] = <<PatchOp(k)>>
Held(k)          == \E w \in Workers : WithWorker(k, w)
Collected(k)     == \E i \in DOMAIN r : r[i] = PatchOp(k)

PatchTypes ==
    /\ {held, from, to} \subseteq Maps
    /\ todo \subseteq PatchChanges
    /\ holds \in [Workers -> {<< >>} \cup OpsToSend]
    /\ left \subseteq Workers
    /\ r \in Seq(PatchOps \cup {ClearOp})
    /\ pc \in {"diffing", "applying", "idle"}

AtMostOnce ==
    /\ \A k \in Changed :
          /\ ~ (Waiting(k) /\ Held(k))
          /\ ~ (Waiting(k) /\ Collected(k))
          /\ ~ (Held(k) /\ Collected(k))
    /\ \A k \in Changed : \A v, w \in Workers : WithWorker(k, v) /\ WithWorker(k, w) => v = w
    /\ \A i, j \in DOMAIN r : r[i] = r[j] => i = j

NoneDropped ==
    pc = "diffing" => \A k \in Changed : Waiting(k) \/ Held(k) \/ Collected(k)

Finished ==
    /\ left # {} => todo = {}
    /\ \A w \in left : holds[w] = << >>
    /\ pc # "diffing" => left = Workers
    /\ pc = "idle" => r = << >>

Structure == PatchTypes /\ AtMostOnce /\ NoneDropped /\ Finished /\ PatchInPathOrder

-------------------------------------------------------------------------------
(* Keys, maps and operations.                                              *)

LEMMA KeyFacts ==
    \A k \in Keys : Path(k) \in Seq(DOMAIN Code) /\ Path(k) # << >> /\ KeyAt(Path(k)) = k
<1>1. Special \subseteq DOMAIN Code
    BY CodeAssumption DEF Special
<1>2. \A k \in Keys : k \in Seq(DOMAIN Code)
    BY KeysAssumption
<1> QED BY <1>1, <1>2, PathFacts, KeyAtPath

LEMMA CodeFacts ==
    /\ Code \in [DOMAIN Code -> Nat]
    /\ \A c, d \in DOMAIN Code : Code[c] = Code[d] => c = d
BY CodeAssumption DEF Injection, IsInjective

LEMMA MapFacts ==
    ASSUME NEW m \in Maps
    PROVE  DOMAIN m \in SUBSET Keys /\ m \in [DOMAIN m -> Values]
BY DEF Maps

LEMMA MakeMap ==
    ASSUME NEW D \in SUBSET Keys, NEW m \in [D -> Values]
    PROVE  m \in Maps
BY DEF Maps

LEMMA EmptyMapFacts == EmptyMap \in Maps /\ DOMAIN EmptyMap = {}
BY DEF EmptyMap, Maps

LEMMA ChangeFacts ==
    ASSUME NEW a \in Maps, NEW b \in Maps
    PROVE  /\ ChangedKeys(a, b) \in SUBSET Keys
           /\ Changes(a, b) = {ChangeAt(a, b, k) : k \in ChangedKeys(a, b)}
           /\ \A k, l : ChangeAt(a, b, k) = ChangeAt(a, b, l) => k = l
           /\ a = b => ChangedKeys(a, b) = {}
BY MapFacts DEF ChangedKeys, Changes, ChangeAt

LEMMA OpFacts ==
    ASSUME NEW a \in Maps, NEW b \in Maps, NEW k \in Keys
    PROVE  LET op == OpOf(ChangeAt(a, b, k), b)
           IN  /\ op.path = Path(k)
               /\ op # ClearOp
               /\ op.op = ChangeAt(a, b, k).type
               /\ op.op # "remove" => op.value = TextOf(b[k])
<1>1. Path(k) # Root
    BY KeyFacts DEF Root
<1>2. ClearOp.path = Root
    BY DEF ClearOp
<1> QED BY <1>1, <1>2 DEF OpOf, ChangeAt

LEMMA OpsDiffer ==
    ASSUME NEW a \in Maps, NEW b \in Maps, NEW k \in Keys, NEW l \in Keys,
           OpOf(ChangeAt(a, b, k), b) = OpOf(ChangeAt(a, b, l), b)
    PROVE  k = l
BY OpFacts, KeyFacts

(* The same of the patch being made.                                       *)
LEMMA PatchOpFacts ==
    ASSUME {from, to} \subseteq Maps
    PROVE  /\ Changed \in SUBSET Keys
           /\ \A k, l \in Changed : PatchOp(k) = PatchOp(l) => k = l
           /\ \A k \in Changed : PatchOp(k) # ClearOp /\ PatchOp(k).path = Path(k)
           /\ \A k, l : Change(k) = Change(l) => k = l
<1>1. Changed \in SUBSET Keys /\ \A k, l : Change(k) = Change(l) => k = l
    BY ChangeFacts DEF Changed, Change
<1>2. \A k, l \in Changed : PatchOp(k) = PatchOp(l) => k = l
    BY <1>1, OpsDiffer DEF PatchOp, Change
<1>3. \A k \in Changed : PatchOp(k) # ClearOp /\ PatchOp(k).path = Path(k)
    BY <1>1, OpFacts DEF PatchOp, Change
<1> QED BY <1>1, <1>2, <1>3

(* Two operations of a patch that differ are for different paths.          *)
LEMMA OpPaths ==
    ASSUME {from, to} \subseteq Maps,
           NEW x \in PatchOps \cup {ClearOp}, NEW y \in PatchOps \cup {ClearOp}
    PROVE  /\ x.path \in Seq(DOMAIN Code)
           /\ x.path = y.path => x = y
           /\ x.path = Root <=> x = ClearOp
<1>1. Root \in Seq(DOMAIN Code) /\ ClearOp.path = Root
    BY DEF Root, ClearOp
<1>2. ASSUME NEW z \in PatchOps
      PROVE  /\ z.path \in Seq(DOMAIN Code) /\ z.path # Root /\ z # ClearOp
             /\ \E k \in Keys : k \in Changed /\ z = PatchOp(k) /\ z.path = Path(k) /\ KeyAt(z.path) = k
    BY PatchOpFacts, KeyFacts DEF PatchOps, Root
<1> QED BY <1>1, <1>2

-------------------------------------------------------------------------------
(* Structure is kept.                                                      *)

LEMMA InitStructure == Init => Structure
<1> SUFFICES ASSUME Init PROVE Structure
    OBVIOUS
<1>1. {held, from, to} \subseteq Maps /\ from = to
    BY EmptyMapFacts DEF Init
<1>2. Changed = {}
    BY <1>1, ChangeFacts DEF Changed
<1>3. r = << >> /\ DOMAIN r = {} /\ todo = {} /\ pc = "idle" /\ left = Workers
    BY DEF Init
<1>4. PatchTypes
    BY <1>1, <1>3 DEF Init, PatchTypes
<1>5. AtMostOnce
    BY <1>2, <1>3 DEF AtMostOnce
<1>6. NoneDropped /\ Finished /\ PatchInPathOrder
    BY <1>3 DEF Init, NoneDropped, Finished, PatchInPathOrder
<1> QED BY <1>4, <1>5, <1>6 DEF Structure

SamePatch == from' = from /\ to' = to

LEMMA SamePatchFacts ==
    ASSUME SamePatch
    PROVE  /\ Changed' = Changed
           /\ \A k : Change(k)' = Change(k) /\ PatchOp(k)' = PatchOp(k)
           /\ PatchChanges' = PatchChanges
           /\ PatchOps' = PatchOps
           /\ OpsToSend' = OpsToSend
BY DEF SamePatch, Changed, Change, PatchOp, PatchChanges, PatchOps, OpsToSend

LEMMA StartStructure ==
    ASSUME Structure, NEW target \in Maps, NEW full \in BOOLEAN, Start(target, full)
    PROVE  Structure'
<1> DEFINE basis == IF full THEN EmptyMap ELSE held
<1>1. /\ pc = "idle" /\ from' = basis /\ to' = target
      /\ r' = (IF full THEN <<ClearOp>> ELSE << >>)
      /\ todo' = Changes(basis, target)
      /\ left' = (IF basis = target THEN Workers ELSE {})
      /\ pc' = (IF basis = target THEN "applying" ELSE "diffing")
      /\ held' = held /\ holds' = holds
    BY DEF Start
<1>2. basis \in Maps /\ held \in Maps
    BY EmptyMapFacts DEF Structure, PatchTypes
<1> HIDE DEF basis
<1>3. {held, from, to}' \subseteq Maps
    BY <1>1, <1>2
<1>4. /\ todo' = PatchChanges'
      /\ Changed' = ChangedKeys(basis, target)
      /\ \A k : Change(k)' = ChangeAt(basis, target, k)
    BY <1>1, <1>2, ChangeFacts DEF PatchChanges, Changed, Change
<1>5. holds' = [w \in Workers |-> << >>]
    BY <1>1 DEF Structure, PatchTypes, Finished
<1>6. DOMAIN r' \subseteq {1} /\ \A i \in DOMAIN r' : r'[i] = ClearOp
    BY <1>1
<1>7. PatchTypes'
  <2>1. r' \in Seq({ClearOp})
    <3>1. << >> \in Seq({ClearOp}) /\ <<ClearOp>> \in Seq({ClearOp})
      BY OneInSeq
    <3> QED BY <1>1, <3>1
  <2>2. r' \in Seq(PatchOps' \cup {ClearOp})
    BY <2>1
  <2>3. left' \subseteq Workers /\ pc' \in {"diffing", "applying", "idle"}
    BY <1>1
  <2>4. holds' \in [Workers -> {<< >>} \cup OpsToSend']
    BY <1>5
  <2> QED BY <1>3, <1>4, <2>2, <2>3, <2>4 DEF PatchTypes
<1>8. AtMostOnce'
  <2>1. \A k \in Changed' : ~ Held(k)' /\ \A w \in Workers : ~ WithWorker(k, w)'
    BY <1>5 DEF Held, WithWorker
  <2>2. \A k \in Changed' : ~ Collected(k)'
    <3>1. Changed' \in SUBSET Keys
      BY <1>1, <1>2, <1>4, ChangeFacts
    <3>2. \A k \in Changed' : PatchOp(k)' # ClearOp
      BY <1>3, <3>1, OpFacts DEF PatchOp, Change
    <3> QED BY <1>6, <3>2 DEF Collected
  <2> QED BY <1>6, <2>1, <2>2 DEF AtMostOnce
<1>9. NoneDropped'
    BY <1>4 DEF NoneDropped, Waiting, PatchChanges
<1>10. Finished'
  <2>1. basis = target => Changes(basis, target) = {}
    BY <1>2, ChangeFacts
  <2> QED BY <1>1, <1>5, <2>1 DEF Finished
<1>11. PatchInPathOrder'
  <2>1. Len(r') \in {0, 1}
    BY <1>1
  <2> QED BY <2>1 DEF PatchInPathOrder
<1> QED BY <1>7, <1>8, <1>9, <1>10, <1>11 DEF Structure

LEMMA ReceiveStructure ==
    ASSUME Structure, NEW w \in Workers, Receive(w)
    PROVE  Structure'
<1>1. /\ pc = "diffing" /\ w \notin left /\ holds[w] = << >>
      /\ SamePatch /\ held' = held /\ left' = left /\ r' = r /\ pc' = pc
    BY DEF Receive, Receiving, SamePatch
<1>2. PICK key \in Changed : /\ Waiting(key)
                             /\ holds' = [holds EXCEPT ![w] = <<PatchOp(key)>>]
                             /\ todo' = todo \ {Change(key)}
    BY DEF Receive, Structure, PatchTypes, PatchChanges, Waiting, PatchOp
<1>3. /\ Changed' = Changed
      /\ \A k : Change(k)' = Change(k) /\ PatchOp(k)' = PatchOp(k)
      /\ PatchChanges' = PatchChanges /\ PatchOps' = PatchOps /\ OpsToSend' = OpsToSend
    BY <1>1, SamePatchFacts
<1>4. /\ \A k, l \in Changed : PatchOp(k) = PatchOp(l) => k = l
      /\ \A k, l : Change(k) = Change(l) => k = l
    BY PatchOpFacts DEF Structure, PatchTypes
<1>5. holds \in [Workers -> {<< >>} \cup OpsToSend]
    BY DEF Structure, PatchTypes
<1>6. \A k \in Changed : Waiting(k)' <=> Waiting(k) /\ k # key
    BY <1>2, <1>3, <1>4 DEF Waiting
<1>7. \A k \in Changed : Collected(k)' <=> Collected(k)
    BY <1>1, <1>3 DEF Collected
<1>8. \A k \in Changed : \A v \in Workers :
         WithWorker(k, v)' <=> (v = w /\ k = key) \/ (v # w /\ WithWorker(k, v))
  <2>1. \A k \in Changed : <<PatchOp(key)>> = <<PatchOp(k)>> <=> k = key
    BY <1>4
  <2> QED BY <1>2, <1>3, <1>5, <2>1 DEF WithWorker
<1>9. \A k \in Changed : ~ WithWorker(k, w)
    BY <1>1 DEF WithWorker
<1>10. \A k \in Changed : Held(k)' <=> Held(k) \/ k = key
    BY <1>8, <1>9 DEF Held
<1>11. PatchTypes'
  <2>1. <<PatchOp(key)>> \in OpsToSend
    BY DEF OpsToSend
  <2>2. holds' \in [Workers -> {<< >>} \cup OpsToSend]
    BY <1>2, <1>5, <2>1
  <2> QED BY <1>1, <1>2, <1>3, <2>2 DEF Structure, PatchTypes, SamePatch
<1>12. AtMostOnce'
  <2>1. \A k \in Changed : \A u, v \in Workers : WithWorker(k, u)' /\ WithWorker(k, v)' => u = v
    <3>1. \A v \in Workers : ~ WithWorker(key, v)
      BY <1>2 DEF Structure, AtMostOnce, Held
    <3> QED BY <1>8, <3>1 DEF Structure, AtMostOnce
  <2> QED BY <1>1, <1>2, <1>3, <1>6, <1>7, <1>10, <2>1 DEF Structure, AtMostOnce
<1>13. NoneDropped'
    BY <1>1, <1>3, <1>6, <1>7, <1>10 DEF Structure, NoneDropped
<1>14. Finished'
  <2>1. \A v \in left : v # w /\ v \in Workers
    BY <1>1 DEF Structure, PatchTypes
  <2> QED BY <1>1, <1>2, <1>5, <2>1 DEF Structure, Finished
<1>15. PatchInPathOrder'
    BY <1>1 DEF PatchInPathOrder
<1> QED BY <1>11, <1>12, <1>13, <1>14, <1>15 DEF Structure

(* An element is put at the end of a sequence.                             *)
LEMMA AtEnd ==
    ASSUME NEW S, NEW s \in Seq(S), NEW x \in S, NEW u, u = s \o <<x>>
    PROVE  /\ u \in Seq(S)
           /\ DOMAIN s = 1..Len(s)
           /\ DOMAIN u = DOMAIN s \cup {Len(s) + 1}
           /\ Len(s) + 1 \notin DOMAIN s
           /\ \A i \in DOMAIN s : u[i] = s[i]
           /\ u[Len(s) + 1] = x
           /\ Len(u) = Len(s) + 1
<1>1. <<x>> \in Seq(S) /\ Len(<<x>>) = 1
    BY OneInSeq
<1>2. u \in Seq(S) /\ Len(u) = Len(s) + 1 /\ Len(s) \in Nat
    BY <1>1, ConcatProperties, LenProperties
<1>3. DOMAIN s = 1..Len(s) /\ DOMAIN u = 1..(Len(s) + 1)
    BY <1>2, LenProperties
<1>4. \A i \in DOMAIN s : u[i] = s[i]
    BY <1>1, <1>2, <1>3, ConcatProperties
<1>5. u[Len(s) + 1] = x
    BY <1>1, <1>2, ConcatProperties
<1> QED BY <1>2, <1>3, <1>4, <1>5

LEMMA CollectStructure ==
    ASSUME Structure, NEW w \in Workers, Collect(w)
    PROVE  Structure'
<1>1. /\ pc = "diffing" /\ holds[w] # << >>
      /\ SamePatch /\ held' = held /\ left' = left /\ todo' = todo /\ pc' = pc
      /\ holds' = [holds EXCEPT ![w] = << >>]
    BY DEF Collect, Sending, SamePatch
<1>2. PICK key \in Changed : holds[w] = <<PatchOp(key)>>
    BY <1>1 DEF Structure, PatchTypes, OpsToSend
<1>3. /\ Changed' = Changed
      /\ \A k : Change(k)' = Change(k) /\ PatchOp(k)' = PatchOp(k)
      /\ PatchChanges' = PatchChanges /\ PatchOps' = PatchOps /\ OpsToSend' = OpsToSend
    BY <1>1, SamePatchFacts
<1>4. \A k, l \in Changed : PatchOp(k) = PatchOp(l) => k = l
    BY PatchOpFacts DEF Structure, PatchTypes
<1>5. holds \in [Workers -> {<< >>} \cup OpsToSend]
    BY DEF Structure, PatchTypes
<1> DEFINE Ops == PatchOps \cup {ClearOp}
<1>6. /\ r' \in Seq(Ops)
      /\ DOMAIN r' = DOMAIN r \cup {Len(r) + 1}
      /\ Len(r) + 1 \notin DOMAIN r
      /\ \A i \in DOMAIN r : r'[i] = r[i]
      /\ r'[Len(r) + 1] = PatchOp(key)
  <2>1. r \in Seq(Ops) /\ PatchOp(key) \in Ops
    BY DEF Structure, PatchTypes, PatchOps
  <2>2. PICK op : op = PatchOp(key)
    OBVIOUS
  <2>3. r' = r \o <<op>> /\ op \in Ops
    BY <1>2, <2>1, <2>2 DEF Collect
  <2> HIDE DEF Ops
  <2>4. /\ r' \in Seq(Ops)
        /\ DOMAIN r' = DOMAIN r \cup {Len(r) + 1}
        /\ Len(r) + 1 \notin DOMAIN r
        /\ \A i \in DOMAIN r : r'[i] = r[i]
        /\ r'[Len(r) + 1] = op
    BY ONLY <2>1, <2>3, AtEnd
  <2> QED BY <2>2, <2>4
<1> HIDE DEF Ops
<1>7. \A k \in Changed : Waiting(k)' <=> Waiting(k)
    BY <1>1, <1>3 DEF Waiting
<1>8. \A k \in Changed : Collected(k)' <=> Collected(k) \/ k = key
    BY <1>3, <1>4, <1>6 DEF Collected
<1>9. \A k \in Changed : \A v \in Workers : WithWorker(k, v)' <=> v # w /\ WithWorker(k, v)
    BY <1>1, <1>3, <1>5 DEF WithWorker
<1>10. \A k \in Changed : WithWorker(k, w) <=> k = key
  <2>1. \A k \in Changed : <<PatchOp(key)>> = <<PatchOp(k)>> <=> k = key
    BY <1>4
  <2> QED BY <1>2, <2>1 DEF WithWorker
<1>11. Held(key) /\ ~ Waiting(key) /\ ~ Collected(key)
    BY <1>10 DEF Structure, AtMostOnce, Held
<1>12. \A k \in Changed : Held(k)' <=> Held(k) /\ k # key
    BY <1>9, <1>10 DEF Held, Structure, AtMostOnce
<1>13. PatchTypes'
    BY <1>1, <1>3, <1>5, <1>6 DEF Structure, PatchTypes, SamePatch, Ops
<1>14. AtMostOnce'
  <2>1. \A k \in Changed : \A u, v \in Workers : WithWorker(k, u)' /\ WithWorker(k, v)' => u = v
    BY <1>9 DEF Structure, AtMostOnce
  <2>2. ASSUME NEW i \in DOMAIN r', NEW j \in DOMAIN r', r'[i] = r'[j] PROVE i = j
    <3>1. \A x \in DOMAIN r : r[x] # PatchOp(key)
      BY <1>11 DEF Collected
    <3> QED BY <1>6, <2>2, <3>1 DEF Structure, AtMostOnce
  <2> QED BY <1>3, <1>7, <1>8, <1>11, <1>12, <2>1, <2>2 DEF Structure, AtMostOnce
<1>15. NoneDropped'
    BY <1>1, <1>3, <1>7, <1>8, <1>12 DEF Structure, NoneDropped
<1>16. Finished'
    BY <1>1, <1>5 DEF Structure, PatchTypes, Finished
<1>17. PatchInPathOrder'
    BY <1>1 DEF PatchInPathOrder
<1> QED BY <1>13, <1>14, <1>15, <1>16, <1>17 DEF Structure

(* Steps that leave the changes where they are.                            *)
LEMMA SamePlaces ==
    ASSUME SamePatch, todo' = todo, holds' = holds,
           \A k \in Changed : Collected(k)' <=> Collected(k)
    PROVE  /\ Changed' = Changed
           /\ \A k \in Changed : (Waiting(k)' <=> Waiting(k)) /\ (Held(k)' <=> Held(k))
           /\ \A k \in Changed : \A w \in Workers : WithWorker(k, w)' <=> WithWorker(k, w)
BY SamePatchFacts DEF Waiting, Held, WithWorker

LEMMA LeaveStructure ==
    ASSUME Structure, NEW w \in Workers, Leave(w)
    PROVE  Structure'
<1>1. /\ pc = "diffing" /\ holds[w] = << >> /\ todo = {} /\ left' = left \cup {w}
      /\ SamePatch /\ held' = held /\ todo' = todo /\ holds' = holds /\ r' = r /\ pc' = pc
    BY DEF Leave, Receiving, SamePatch
<1>2. /\ Changed' = Changed
      /\ \A k : Change(k)' = Change(k) /\ PatchOp(k)' = PatchOp(k)
      /\ PatchChanges' = PatchChanges /\ PatchOps' = PatchOps /\ OpsToSend' = OpsToSend
    BY <1>1, SamePatchFacts
<1>3. \A k \in Changed : Collected(k)' <=> Collected(k)
    BY <1>1, <1>2 DEF Collected
<1>4. /\ \A k \in Changed : (Waiting(k)' <=> Waiting(k)) /\ (Held(k)' <=> Held(k))
      /\ \A k \in Changed : \A v \in Workers : WithWorker(k, v)' <=> WithWorker(k, v)
    BY <1>1, <1>3, SamePlaces
<1>5. PatchTypes'
    BY <1>1, <1>2 DEF Structure, PatchTypes, SamePatch
<1>6. AtMostOnce' /\ NoneDropped'
    BY <1>1, <1>2, <1>3, <1>4 DEF Structure, AtMostOnce, NoneDropped
<1>7. Finished'
    BY <1>1 DEF Structure, Finished
<1>8. PatchInPathOrder'
    BY <1>1 DEF PatchInPathOrder
<1> QED BY <1>5, <1>6, <1>7, <1>8 DEF Structure

(* Once all workers left, nothing waits and nothing is held.               *)
LEMMA Quiet ==
    ASSUME Structure, left = Workers
    PROVE  todo = {} /\ \A k \in Changed : ~ Waiting(k) /\ ~ Held(k)
<1>1. left # {} /\ \A w \in Workers : holds[w] = << >>
    BY WorkersAssumption DEF Structure, Finished
<1>2. \A k \in Changed : ~ Held(k)
    BY <1>1 DEF Held, WithWorker
<1> QED BY <1>1, <1>2 DEF Structure, Finished, Waiting

(* Sorting moves what was collected.                                       *)
LEMMA SortedFacts ==
    ASSUME NEW S, NEW s \in Seq(S), NEW u \in SortedByPath(s)
    PROVE  /\ u \in Seq(S)
           /\ DOMAIN u = DOMAIN s /\ Len(u) = Len(s)
           /\ \A i \in DOMAIN u : \E j \in DOMAIN s : u[i] = s[j]
           /\ \A j \in DOMAIN s : \E i \in DOMAIN u : u[i] = s[j]
           /\ (\A i, j \in DOMAIN s : s[i] = s[j] => i = j) =>
                 \A i, j \in DOMAIN u : u[i] = u[j] => i = j
           /\ \A i, j \in DOMAIN u : i < j => ~Less(u[j].path, u[i].path, Code)
<1> DEFINE D == DOMAIN s
<1>1. PICK p \in Bijection(D, D) : u = [i \in D |-> s[p[i]]]
    BY DEF SortedByPath
<1>2. /\ p \in [D -> D]
      /\ \A i, j \in D : p[i] = p[j] => i = j
      /\ \A j \in D : \E i \in D : p[i] = j
    BY DEF Bijection, Injection, Surjection, IsInjective
<1>3. D = 1..Len(s) /\ Len(s) \in Nat /\ \A i \in D : s[i] \in S
    BY LenProperties, ElementOfSeq
<1> HIDE DEF D
<1>4. u \in [1..Len(s) -> S] /\ DOMAIN u = D
    BY <1>1, <1>2, <1>3
<1>5. u \in Seq(S) /\ Len(u) = Len(s)
    BY <1>3, <1>4
<1>6. \A i, j \in D : i < j => ~Less(u[j].path, u[i].path, Code)
    BY DEF SortedByPath, D
<1>7. \A j \in D : \E i \in D : u[i] = s[j]
  <2> TAKE j \in D
  <2>1. PICK i \in D : p[i] = j
    BY <1>2
  <2>2. u[i] = s[j]
    BY <1>1, <2>1
  <2> QED BY <2>2
<1>8. \A i \in D : u[i] = s[p[i]] /\ p[i] \in D
    BY <1>1, <1>2
<1>9. ASSUME \A i, j \in D : s[i] = s[j] => i = j
      PROVE  \A i, j \in D : u[i] = u[j] => i = j
    BY <1>2, <1>8, <1>9
<1>10. DOMAIN u = DOMAIN s /\ D = DOMAIN s
    BY <1>4 DEF D
<1> QED BY <1>5, <1>6, <1>7, <1>8, <1>9, <1>10

LEMMA SortStructure ==
    ASSUME Structure, Sort
    PROVE  Structure'
<1>1. /\ pc = "diffing" /\ left = Workers /\ pc' = "applying" /\ r' \in SortedByPath(r)
      /\ SamePatch /\ held' = held /\ todo' = todo /\ holds' = holds /\ left' = left
    BY DEF Sort, AllLeft, SamePatch
<1>2. /\ Changed' = Changed
      /\ \A k : Change(k)' = Change(k) /\ PatchOp(k)' = PatchOp(k)
      /\ PatchChanges' = PatchChanges /\ PatchOps' = PatchOps /\ OpsToSend' = OpsToSend
    BY <1>1, SamePatchFacts
<1>3. r \in Seq(PatchOps \cup {ClearOp}) /\ {from, to} \subseteq Maps
    BY DEF Structure, PatchTypes
<1>4. /\ r' \in Seq(PatchOps \cup {ClearOp})
      /\ DOMAIN r' = DOMAIN r
      /\ \A i \in DOMAIN r' : \E j \in DOMAIN r : r'[i] = r[j]
      /\ \A j \in DOMAIN r : \E i \in DOMAIN r' : r'[i] = r[j]
      /\ (\A i, j \in DOMAIN r : r[i] = r[j] => i = j) =>
            \A i, j \in DOMAIN r' : r'[i] = r'[j] => i = j
      /\ \A i, j \in DOMAIN r' : i < j => ~Less(r'[j].path, r'[i].path, Code)
    BY <1>1, <1>3, SortedFacts
<1>5. \A k \in Changed : Collected(k)' <=> Collected(k)
    BY <1>2, <1>4 DEF Collected
<1>6. /\ \A k \in Changed : (Waiting(k)' <=> Waiting(k)) /\ (Held(k)' <=> Held(k))
      /\ \A k \in Changed : \A v \in Workers : WithWorker(k, v)' <=> WithWorker(k, v)
    BY <1>1, <1>5, SamePlaces
<1>7. PatchTypes'
    BY <1>1, <1>2, <1>4 DEF Structure, PatchTypes, SamePatch
<1>8. AtMostOnce'
    BY <1>2, <1>4, <1>5, <1>6 DEF Structure, AtMostOnce
<1>9. NoneDropped' /\ Finished'
    BY <1>1 DEF Structure, NoneDropped, Finished
<1>10. PatchInPathOrder'
  <2>1. SUFFICES ASSUME NEW i \in 1..Len(r'), NEW j \in 1..Len(r'), i < j
                 PROVE  Less(r'[i].path, r'[j].path, Code)
    BY DEF PatchInPathOrder
  <2>2. i \in DOMAIN r' /\ j \in DOMAIN r' /\ i # j
    <3>1. DOMAIN r' = 1..Len(r')
      BY <1>4, LenProperties
    <3>2. i \in Int /\ j \in Int
      OBVIOUS
    <3> QED BY <2>1, <3>1, <3>2
  <2>3. r'[i] # r'[j]
    BY <1>4, <2>2 DEF Structure, AtMostOnce
  <2>4. r'[i] \in PatchOps \cup {ClearOp} /\ r'[j] \in PatchOps \cup {ClearOp}
    BY <1>4, <2>2, ElementOfSeq, LenProperties
  <2>5. /\ r'[i].path \in Seq(DOMAIN Code) /\ r'[j].path \in Seq(DOMAIN Code)
        /\ r'[i].path # r'[j].path
    BY <1>3, <2>3, <2>4, OpPaths
  <2>6. ~Less(r'[j].path, r'[i].path, Code)
    BY <1>4, <2>1, <2>2
  <2>7. PICK p, q : p = r'[i].path /\ q = r'[j].path
    OBVIOUS
  <2>8. Less(p, q, Code) \/ Less(q, p, Code)
    <3>1. p \in Seq(DOMAIN Code) /\ q \in Seq(DOMAIN Code) /\ p # q
      BY <2>5, <2>7
    <3> QED BY ONLY <3>1, CodeFacts, LessTotal
  <2> QED BY <2>6, <2>7, <2>8
<1> QED BY <1>7, <1>8, <1>9, <1>10 DEF Structure

-------------------------------------------------------------------------------
(* ApplyPatch.                                                             *)

LEMMA TailFacts ==
    ASSUME NEW S, NEW s \in Seq(S), s # << >>, NEW u, u = Tail(s)
    PROVE  /\ u \in Seq(S) /\ Head(s) = s[1] /\ 1 \in DOMAIN s
           /\ DOMAIN s = 1..Len(s) /\ DOMAIN u = 1..Len(u)
           /\ Len(u) = Len(s) - 1 /\ Len(s) \in Nat \ {0}
           /\ \A i \in DOMAIN u : u[i] = s[i + 1] /\ i + 1 \in DOMAIN s
           /\ \A i \in DOMAIN s : i # 1 => i - 1 \in DOMAIN u /\ u[i - 1] = s[i]
<1>1. /\ u \in Seq(S) /\ Len(u) = Len(s) - 1
      /\ \A i \in 1..Len(u) : u[i] = s[i + 1]
    BY HeadTailProperties
<1>2. Len(s) \in Nat \ {0} /\ DOMAIN s = 1..Len(s) /\ DOMAIN u = 1..Len(u)
    BY <1>1, LenProperties, EmptySeq
<1>3. ASSUME NEW i \in DOMAIN s, i # 1 PROVE i - 1 \in DOMAIN u /\ u[i - 1] = s[i]
  <2>1. i - 1 \in 1..Len(u) /\ (i - 1) + 1 = i
    BY <1>1, <1>2, <1>3
  <2>2. u[i - 1] = s[(i - 1) + 1]
    BY <1>1, <2>1
  <2> QED BY <1>2, <2>1, <2>2
<1>4. Head(s) = s[1] /\ 1 \in DOMAIN s
    BY <1>2
<1>5. \A i \in DOMAIN u : u[i] = s[i + 1] /\ i + 1 \in DOMAIN s
    BY <1>1, <1>2
<1> QED BY <1>1, <1>2, <1>3, <1>4, <1>5

Without(map, key) == [k \in DOMAIN map \ {key} |-> map[k]]

(* What one operation does to a map.                                       *)
LEMMA AppliedOp ==
    ASSUME NEW a \in Maps, NEW b \in Maps, NEW k \in ChangedKeys(a, b), NEW m \in Maps
    PROVE  LET new == Applied(m, OpOf(ChangeAt(a, b, k), b))
           IN  /\ new \in Maps
               /\ k \in DOMAIN b =>
                    new = With(m, k, ValueIn(TextOf(b[k])))
               /\ k \notin DOMAIN b =>
                    new = IF k = << >> THEN EmptyMap ELSE Without(m, k)
<1>1. PICK op : op = OpOf(ChangeAt(a, b, k), b)
    OBVIOUS
<1>2. k \in Keys
    BY ChangeFacts
<1>3. /\ op.path = Path(k) /\ op # ClearOp /\ op.op = ChangeAt(a, b, k).type
      /\ op.op # "remove" => op.value = TextOf(b[k])
    BY <1>1, <1>2, OpFacts
<1>4. KeyAt(op.path) = k
    BY <1>2, <1>3, KeyFacts
<1>5. op.op = "remove" <=> k \notin DOMAIN b
    BY <1>3 DEF ChangeAt, ChangedKeys
<1>6. CASE k \in DOMAIN b
  <2>1. Applied(m, op) = With(m, k, ValueIn(TextOf(b[k])))
    BY <1>3, <1>4, <1>5, <1>6 DEF Applied
  <2>2. ValueIn(TextOf(b[k])) \in Values
    BY <1>6, MapFacts, ValuesAssumption
  <2>3. PICK v \in Values : v = ValueIn(TextOf(b[k]))
    BY <2>2
  <2>4. With(m, k, v) \in Maps
    <3>1. DOMAIN m \in SUBSET Keys /\ m \in [DOMAIN m -> Values]
      BY MapFacts
    <3>2. DOMAIN m \cup {k} \in SUBSET Keys
      BY <1>2, <3>1
    <3>3. With(m, k, v) \in [DOMAIN m \cup {k} -> Values]
      BY <3>1 DEF With
    <3> QED BY <3>2, <3>3, MakeMap
  <2> QED BY <1>1, <1>6, <2>1, <2>3, <2>4
<1>7. CASE k \notin DOMAIN b
  <2>1. Applied(m, op) = IF k = << >> THEN EmptyMap ELSE Without(m, k)
    BY <1>3, <1>4, <1>5, <1>7 DEF Applied, Without
  <2>2. Without(m, k) \in Maps
    <3>1. DOMAIN m \in SUBSET Keys /\ m \in [DOMAIN m -> Values]
      BY MapFacts
    <3>2. DOMAIN m \ {k} \in SUBSET Keys
      BY <3>1
    <3>3. Without(m, k) \in [DOMAIN m \ {k} -> Values]
      BY <3>1 DEF Without
    <3> QED BY <3>2, <3>3, MakeMap
  <2> QED BY <1>1, <1>7, <2>1, <2>2, EmptyMapFacts
<1> QED BY <1>6, <1>7

LEMMA ApplyStructure ==
    ASSUME Structure, Apply
    PROVE  Structure'
<1>1. /\ pc = "applying" /\ r # << >> /\ held' = Applied(held, Head(r)) /\ r' = Tail(r)
      /\ SamePatch /\ todo' = todo /\ holds' = holds /\ left' = left /\ pc' = pc
    BY DEF Apply, SamePatch
<1>2. /\ Changed' = Changed
      /\ \A k : Change(k)' = Change(k) /\ PatchOp(k)' = PatchOp(k)
      /\ PatchChanges' = PatchChanges /\ PatchOps' = PatchOps /\ OpsToSend' = OpsToSend
    BY <1>1, SamePatchFacts
<1>3. r \in Seq(PatchOps \cup {ClearOp}) /\ {held, from, to} \subseteq Maps
    BY DEF Structure, PatchTypes
<1>4. /\ r' \in Seq(PatchOps \cup {ClearOp}) /\ Head(r) = r[1] /\ 1 \in DOMAIN r
      /\ DOMAIN r = 1..Len(r) /\ DOMAIN r' = 1..Len(r')
      /\ \A i \in DOMAIN r' : r'[i] = r[i + 1] /\ i + 1 \in DOMAIN r
    BY <1>1, <1>3, TailFacts
<1>5. held' \in Maps
  <2>1. r[1] \in PatchOps \cup {ClearOp}
    BY <1>3, <1>4, ElementOfSeq
  <2>2. CASE r[1] = ClearOp
    BY <1>1, <1>4, <2>2, EmptyMapFacts DEF Applied
  <2>3. CASE r[1] \in PatchOps
    <3>1. PICK k \in ChangedKeys(from, to) : r[1] = OpOf(ChangeAt(from, to, k), to)
      BY <2>3 DEF PatchOps, PatchOp, Changed, Change
    <3>2. Applied(held, OpOf(ChangeAt(from, to, k), to)) \in Maps
      BY <1>3, AppliedOp
    <3> QED BY <1>1, <1>4, <3>1, <3>2
  <2> QED BY <2>1, <2>2, <2>3
<1>6. PatchTypes'
    BY <1>1, <1>2, <1>3, <1>4, <1>5 DEF Structure, PatchTypes, SamePatch
<1>7. AtMostOnce'
  <2>1. left = Workers /\ \A k \in Changed : ~ Waiting(k) /\ ~ Held(k)
    BY <1>1, Quiet DEF Structure, Finished
  <2>2. \A k \in Changed : ~ Waiting(k)' /\ ~ Held(k)'
    BY <1>1, <1>2, <2>1 DEF Waiting, Held, WithWorker
  <2>3. \A k \in Changed : \A v, w \in Workers : WithWorker(k, v)' /\ WithWorker(k, w)' => v = w
    BY <2>2 DEF Held
  <2>4. ASSUME NEW i \in DOMAIN r', NEW j \in DOMAIN r', r'[i] = r'[j] PROVE i = j
    <3>1. i + 1 = j + 1
      BY <1>4, <2>4 DEF Structure, AtMostOnce
    <3> QED BY <1>4, <3>1
  <2> QED BY <1>2, <2>2, <2>3, <2>4 DEF AtMostOnce
<1>8. NoneDropped' /\ Finished'
    BY <1>1 DEF Structure, NoneDropped, Finished
<1>9. PatchInPathOrder'
    BY <1>1, <1>4 DEF Structure, PatchInPathOrder
<1> QED BY <1>6, <1>7, <1>8, <1>9 DEF Structure

LEMMA ReturnStructure ==
    ASSUME Structure, Return
    PROVE  Structure'
<1>1. /\ pc = "applying" /\ r = << >> /\ pc' = "idle"
      /\ SamePatch /\ held' = held /\ todo' = todo /\ holds' = holds /\ left' = left /\ r' = r
    BY DEF Return, SamePatch
<1>2. /\ Changed' = Changed
      /\ \A k : Change(k)' = Change(k) /\ PatchOp(k)' = PatchOp(k)
      /\ PatchChanges' = PatchChanges /\ PatchOps' = PatchOps /\ OpsToSend' = OpsToSend
    BY <1>1, SamePatchFacts
<1>3. \A k \in Changed : Collected(k)' <=> Collected(k)
    BY <1>1, <1>2 DEF Collected
<1>4. /\ \A k \in Changed : (Waiting(k)' <=> Waiting(k)) /\ (Held(k)' <=> Held(k))
      /\ \A k \in Changed : \A v \in Workers : WithWorker(k, v)' <=> WithWorker(k, v)
    BY <1>1, <1>3, SamePlaces
<1>5. PatchTypes'
    BY <1>1, <1>2 DEF Structure, PatchTypes, SamePatch
<1>6. AtMostOnce'
    BY <1>1, <1>2, <1>3, <1>4 DEF Structure, AtMostOnce
<1>7. NoneDropped' /\ Finished' /\ PatchInPathOrder'
    BY <1>1 DEF Structure, NoneDropped, Finished, PatchInPathOrder
<1> QED BY <1>5, <1>6, <1>7 DEF Structure

LEMMA StutterStructure ==
    ASSUME Structure, UNCHANGED vars
    PROVE  Structure'
<1>1. /\ SamePatch /\ held' = held /\ todo' = todo /\ holds' = holds /\ left' = left
      /\ r' = r /\ pc' = pc
    BY DEF vars, SamePatch
<1>2. /\ Changed' = Changed
      /\ \A k : Change(k)' = Change(k) /\ PatchOp(k)' = PatchOp(k)
      /\ PatchChanges' = PatchChanges /\ PatchOps' = PatchOps /\ OpsToSend' = OpsToSend
    BY <1>1, SamePatchFacts
<1>3. \A k \in Changed : Collected(k)' <=> Collected(k)
    BY <1>1, <1>2 DEF Collected
<1>4. /\ \A k \in Changed : (Waiting(k)' <=> Waiting(k)) /\ (Held(k)' <=> Held(k))
      /\ \A k \in Changed : \A v \in Workers : WithWorker(k, v)' <=> WithWorker(k, v)
    BY <1>1, <1>3, SamePlaces
<1>5. PatchTypes'
    BY <1>1, <1>2 DEF Structure, PatchTypes, SamePatch
<1>6. AtMostOnce' /\ NoneDropped'
    BY <1>1, <1>2, <1>3, <1>4 DEF Structure, AtMostOnce, NoneDropped
<1>7. Finished' /\ PatchInPathOrder'
    BY <1>1 DEF Structure, Finished, PatchInPathOrder
<1> QED BY <1>5, <1>6, <1>7 DEF Structure

LEMMA NextStructure == Structure /\ [Next]_vars => Structure'
<1> SUFFICES ASSUME Structure, [Next]_vars PROVE Structure'
    OBVIOUS
<1>1. CASE UNCHANGED vars
    BY <1>1, StutterStructure
<1>2. ASSUME NEW target \in Maps, NEW full \in BOOLEAN, Start(target, full) PROVE Structure'
    BY <1>2, StartStructure
<1>3. ASSUME NEW w \in Workers, Work(w) PROVE Structure'
    BY <1>3, ReceiveStructure, CollectStructure, LeaveStructure DEF Work
<1>4. CASE Sort
    BY <1>4, SortStructure
<1>5. CASE Apply
    BY <1>5, ApplyStructure
<1>6. CASE Return
    BY <1>6, ReturnStructure
<1> QED BY <1>1, <1>2, <1>3, <1>4, <1>5, <1>6 DEF Next

(* Wherever the goroutines of kv.Diff are, each change is in exactly one   *)
(* place, and once the patch is sorted it stays in path order.             *)
THEOREM StructureInvariant == Spec => []Structure
<1>1. Init => Structure
    BY InitStructure
<1>2. Structure /\ [Next]_vars => Structure'
    BY NextStructure
<1> QED BY <1>1, <1>2, PTL DEF Spec

-------------------------------------------------------------------------------
(* What follows from the structure.                                        *)

LEMMA StructureType == Structure => TypeOK
<1> SUFFICES ASSUME Structure PROVE TypeOK
    OBVIOUS
<1>1. PatchTypes
    BY DEF Structure
<1>2. Changed \in SUBSET Keys
    BY <1>1, PatchOpFacts DEF PatchTypes
<1>3. ASSUME NEW k \in Changed
      PROVE  Change(k) \in [key : Keys, type : {"add", "remove", "replace"}]
    BY <1>2 DEF Change, ChangeAt
<1>4. ASSUME NEW k \in Changed PROVE PatchOp(k) \in Operations
  <2>1. Change(k).type # "remove" => to[k] \in Values
    <3>1. DOMAIN to \in SUBSET Keys /\ to \in [DOMAIN to -> Values]
      BY <1>1, MapFacts DEF PatchTypes
    <3>2. Change(k).type # "remove" => k \in DOMAIN to
      BY DEF Change, ChangeAt, Changed, ChangedKeys
    <3> QED BY <3>1, <3>2
  <2>2. Change(k).key = k /\ Change(k).type \in {"add", "remove", "replace"} /\ k \in Keys
    BY <1>2 DEF Change, ChangeAt
  <2>3. Path(k) \in {Root} \cup {Path(l) : l \in Keys}
    BY <2>2
  <2>4. (IF Change(k).type = "remove" THEN NoValue ELSE TextOf(to[k]))
           \in {TextOf(v) : v \in Values} \cup {NoValue}
    BY <2>1
  <2> QED BY <2>2, <2>3, <2>4 DEF PatchOp, OpOf, Operations
<1>5. ClearOp \in Operations
    BY DEF ClearOp, Operations
<1>6. PatchOps \cup {ClearOp} \subseteq Operations
    BY <1>4, <1>5 DEF PatchOps
<1>7. r \in Seq(Operations)
  <2> DEFINE Ops == PatchOps \cup {ClearOp}
  <2>1. r \in Seq(Ops) /\ Ops \subseteq Operations
    BY <1>1, <1>6 DEF PatchTypes
  <2> HIDE DEF Ops
  <2> QED BY <2>1
<1>8. holds \in [Workers -> {<< >>} \cup {<<op>> : op \in Operations}]
  <2>1. OpsToSend \subseteq {<<op>> : op \in Operations}
    BY <1>4 DEF OpsToSend
  <2> QED BY <1>1, <2>1 DEF PatchTypes
<1>9. todo \subseteq [key : Keys, type : {"add", "remove", "replace"}]
    BY <1>1, <1>3 DEF PatchTypes, PatchChanges
<1> QED BY <1>1, <1>7, <1>8, <1>9 DEF PatchTypes, TypeOK

LEMMA SameSize ==
    ASSUME NEW S, NEW T, IsFiniteSet(S), NEW f \in [S -> T],
           \A x, y \in S : f[x] = f[y] => x = y, \A z \in T : \E x \in S : f[x] = z
    PROVE  Cardinality(T) = Cardinality(S)
<1>1. f \in Bijection(S, T)
    BY DEF Bijection, Injection, Surjection, IsInjective
<1> QED BY <1>1, FS_Bijection DEF ExistsBijection

LEMMA StructureOnce == Structure => EachChangeOnce
<1> DEFINE Wait == {k \in Changed : Waiting(k)}
<1> DEFINE Hold == {k \in Changed : Held(k)}
<1> DEFINE Coll == {k \in Changed : Collected(k)}
<1> DEFINE Senders == {w \in Workers : Sending(w)}
<1> DEFINE Ops == {i \in 1..Len(r) : r[i].path # Root}
<1> DEFINE all == {Path(k) : k \in Changed}
<1> SUFFICES ASSUME Structure, pc = "diffing"
             PROVE  /\ {Path(change.key) : change \in todo}
                          \cup {holds[w][1].path : w \in Senders}
                          \cup ({r[i].path : i \in 1..Len(r)} \ {Root}) = all
                    /\ Cardinality(todo) + Cardinality(Senders) + Cardinality(Ops) =
                          Cardinality(all)
    BY DEF EachChangeOnce, Changed
<1>1. /\ {from, to} \subseteq Maps /\ todo \subseteq PatchChanges
      /\ holds \in [Workers -> {<< >>} \cup OpsToSend]
      /\ r \in Seq(PatchOps \cup {ClearOp})
    BY DEF Structure, PatchTypes
<1>2. /\ Changed \in SUBSET Keys
      /\ \A k, l \in Changed : PatchOp(k) = PatchOp(l) => k = l
      /\ \A k \in Changed : PatchOp(k) # ClearOp /\ PatchOp(k).path = Path(k)
      /\ \A k, l : Change(k) = Change(l) => k = l
    BY <1>1, PatchOpFacts
<1>3. \A k \in Changed : Path(k) # Root
    BY <1>2, KeyFacts DEF Root
<1>4. DOMAIN r = 1..Len(r) /\ \A i \in 1..Len(r) : r[i] \in PatchOps \cup {ClearOp}
    BY <1>1, LenProperties, ElementOfSeq
<1>5. \A c \in todo : \E k \in Wait : c = Change(k)
    BY <1>1 DEF PatchChanges, Waiting
<1>6. \A w \in Senders : \E k \in Hold : holds[w] = <<PatchOp(k)>>
    BY <1>1 DEF Sending, OpsToSend, Held, WithWorker
<1>7. \A i \in Ops : \E k \in Coll : r[i] = PatchOp(k)
    BY <1>4 DEF PatchOps, ClearOp, Collected
<1>8. \A k \in Changed : Change(k).key = k
    BY DEF Change, ChangeAt
<1>9. \A k \in Hold : \E w \in Senders : holds[w] = <<PatchOp(k)>>
    BY DEF Held, WithWorker, Sending
<1>10. \A k \in Coll : \E i \in Ops : r[i] = PatchOp(k)
    BY <1>2, <1>3, <1>4 DEF Collected
<1>11. Changed = Wait \cup Hold \cup Coll
    BY DEF Structure, NoneDropped
<1>12. Wait \cap Hold = {} /\ Wait \cap Coll = {} /\ Hold \cap Coll = {}
    BY DEF Structure, AtMostOnce
<1>13. IsFiniteSet(Changed)
    BY <1>2, KeysAssumption, FS_Subset
<1>14. IsFiniteSet(Wait) /\ IsFiniteSet(Hold) /\ IsFiniteSet(Coll)
    BY <1>13, FS_Subset
<1>15. \A k \in Wait : Change(k) \in todo
    BY DEF Waiting
<1>16. Cardinality(todo) = Cardinality(Wait)
  <2> DEFINE f == [k \in Wait |-> Change(k)]
  <2>1. f \in [Wait -> todo]
    BY <1>15
  <2>2. \A k, l \in Wait : f[k] = f[l] => k = l
    BY <1>2
  <2>3. \A c \in todo : \E k \in Wait : f[k] = c
    BY <1>5
  <2> HIDE DEF f, Wait
  <2> QED BY <1>14, <2>1, <2>2, <2>3, SameSize
<1>17. Cardinality(Senders) = Cardinality(Hold)
  <2> DEFINE f == [k \in Hold |-> CHOOSE w \in Senders : holds[w] = <<PatchOp(k)>>]
  <2>1. \A k \in Hold : f[k] \in Senders /\ holds[f[k]] = <<PatchOp(k)>>
    BY <1>9
  <2>2. f \in [Hold -> Senders]
    BY <2>1
  <2>3. \A k, l \in Hold : f[k] = f[l] => k = l
    BY <1>2, <2>1
  <2>4. ASSUME NEW w \in Senders PROVE \E k \in Hold : f[k] = w
    <3>1. PICK k \in Hold : holds[w] = <<PatchOp(k)>>
      BY <1>6
    <3>2. f[k] = w
      BY <2>1, <3>1 DEF Structure, AtMostOnce, WithWorker
    <3> QED BY <3>2
  <2> HIDE DEF f, Hold, Senders
  <2> QED BY <1>14, <2>2, <2>3, <2>4, SameSize
<1>18. Cardinality(Ops) = Cardinality(Coll)
  <2> DEFINE f == [k \in Coll |-> CHOOSE i \in Ops : r[i] = PatchOp(k)]
  <2>1. \A k \in Coll : f[k] \in Ops /\ r[f[k]] = PatchOp(k)
    BY <1>10
  <2>2. f \in [Coll -> Ops]
    BY <2>1
  <2>3. \A k, l \in Coll : f[k] = f[l] => k = l
    BY <1>2, <2>1
  <2>4. ASSUME NEW i \in Ops PROVE \E k \in Coll : f[k] = i
    <3>1. PICK k \in Coll : r[i] = PatchOp(k)
      BY <1>7
    <3>2. f[k] = i
      BY <1>4, <2>1, <3>1 DEF Structure, AtMostOnce
    <3> QED BY <3>2
  <2> HIDE DEF f, Coll, Ops
  <2> QED BY <1>14, <2>2, <2>3, <2>4, SameSize
<1>19. Cardinality(all) = Cardinality(Changed)
  <2> DEFINE f == [k \in Changed |-> Path(k)]
  <2>1. f \in [Changed -> all]
    OBVIOUS
  <2>2. \A k, l \in Changed : f[k] = f[l] => k = l
    BY <1>2, KeyFacts
  <2>3. \A p \in all : \E k \in Changed : f[k] = p
    OBVIOUS
  <2> HIDE DEF f, all
  <2> QED BY <1>13, <2>1, <2>2, <2>3, SameSize
<1>20. Cardinality(Changed) = Cardinality(Wait) + Cardinality(Hold) + Cardinality(Coll)
  <2> HIDE DEF Wait, Hold, Coll
  <2>1. /\ IsFiniteSet(Wait \cup Hold)
        /\ Cardinality(Wait \cup Hold) =
              Cardinality(Wait) + Cardinality(Hold) - Cardinality(Wait \cap Hold)
    BY <1>14, FS_Union
  <2>2. Cardinality((Wait \cup Hold) \cup Coll) =
           Cardinality(Wait \cup Hold) + Cardinality(Coll) - Cardinality((Wait \cup Hold) \cap Coll)
    BY <1>14, <2>1, FS_Union
  <2>3. (Wait \cup Hold) \cap Coll = {} /\ Wait \cap Hold = {} /\ Cardinality({}) = 0
    BY <1>12, FS_EmptySet
  <2>4. Cardinality(Wait) \in Nat /\ Cardinality(Hold) \in Nat /\ Cardinality(Coll) \in Nat
    BY <1>14, FS_CardinalityType
  <2>5. Cardinality(Wait \cap Hold) = 0 /\ Cardinality((Wait \cup Hold) \cap Coll) = 0
    BY <2>3
  <2>6. Cardinality((Wait \cup Hold) \cup Coll) =
           Cardinality(Wait) + Cardinality(Hold) + Cardinality(Coll)
    BY <2>1, <2>2, <2>4, <2>5
  <2>7. Changed = (Wait \cup Hold) \cup Coll
    BY <1>11
  <2> QED BY <2>6, <2>7
<1>21. {Path(change.key) : change \in todo} = {Path(k) : k \in Wait}
    BY <1>5, <1>8, <1>15
<1>22. {holds[w][1].path : w \in Senders} = {Path(k) : k \in Hold}
    BY <1>2, <1>6, <1>9
<1>23. {r[i].path : i \in 1..Len(r)} \ {Root} = {Path(k) : k \in Coll}
    BY <1>2, <1>3, <1>7, <1>10
<1>24. {Path(k) : k \in Wait} \cup {Path(k) : k \in Hold} \cup {Path(k) : k \in Coll} = all
    BY <1>11
<1> HIDE DEF Wait, Hold, Coll, Senders, Ops, all
<1> QED BY <1>16, <1>17, <1>18, <1>19, <1>20, <1>21, <1>22, <1>23, <1>24

(* A patch and its operations are always well formed.                      *)
THEOREM TypeCorrect == Spec => []TypeOK
BY StructureInvariant, StructureType, PTL

(* No change is lost or sent twice, however many workers there are and     *)
(* however they interleave.                                                *)
THEOREM ChangesOnce == Spec => []EachChangeOnce
BY StructureInvariant, StructureOnce, PTL

(* The patch is in path order.                                             *)
THEOREM PathOrder == Spec => []PatchInPathOrder
<1>1. Structure => PatchInPathOrder
    BY DEF Structure
<1> QED BY <1>1, StructureInvariant, PTL

-------------------------------------------------------------------------------
(* The client gets to the map the patch was made for, if values come back  *)
(* from their texts as they were and no key is empty.                      *)

RoundTrips == \A v \in Values : ValueIn(TextOf(v)) = v
NoEmptyKey == << >> \notin Keys

Clears == \E i \in DOMAIN r : r[i] = ClearOp
Basis  == IF Clears THEN EmptyMap ELSE held
Agree(a, b, k) == (k \in DOMAIN a <=> k \in DOMAIN b) /\ (k \in DOMAIN b => a[k] = b[k])

(* Where the rest of the patch does not touch the client's map, it is      *)
(* already as it has to be.                                                *)
Reaching ==
    /\ pc = "diffing" => Basis = from
    /\ pc = "applying" => \A k \in Keys : (k \in Changed /\ Collected(k)) \/ Agree(Basis, to, k)
    /\ pc = "idle" => held = to

LEMMA InitReaching == Init => Reaching
BY DEF Init, Reaching

LEMMA StartReaching ==
    ASSUME Structure, Reaching, NEW target \in Maps, NEW full \in BOOLEAN, Start(target, full)
    PROVE  Reaching'
<1> DEFINE basis == IF full THEN EmptyMap ELSE held
<1>1. /\ from' = basis /\ to' = target /\ held' = held
      /\ r' = (IF full THEN <<ClearOp>> ELSE << >>)
      /\ pc' = (IF basis = target THEN "applying" ELSE "diffing")
    BY DEF Start
<1>2. Clears' <=> full
  <2>1. full => DOMAIN r' = {1} /\ r'[1] = ClearOp
    BY <1>1
  <2>2. ~full => DOMAIN r' = {}
    BY <1>1
  <2> QED BY <2>1, <2>2 DEF Clears
<1>3. Basis' = basis
    BY <1>1, <1>2 DEF Basis
<1> HIDE DEF basis
<1> QED BY <1>1, <1>3 DEF Reaching, Agree

LEMMA DiffingReaching ==
    ASSUME Structure, Reaching, NEW w \in Workers, Work(w)
    PROVE  Reaching'
<1>1. pc = "diffing" /\ pc' = pc /\ from' = from /\ held' = held
    BY DEF Work, Receive, Collect, Leave
<1>2. Clears' <=> Clears
  <2>1. CASE r' = r
    BY <2>1 DEF Clears
  <2>2. CASE Collect(w)
    <3>1. PICK key \in Changed : holds[w] = <<PatchOp(key)>>
      BY <2>2 DEF Collect, Sending, Structure, PatchTypes, OpsToSend
    <3>2. PICK op : op = PatchOp(key)
      OBVIOUS
    <3>3. PICK S : S = PatchOps \cup {ClearOp}
      OBVIOUS
    <3>4. r \in Seq(S) /\ op \in S /\ r' = r \o <<op>>
      BY <2>2, <3>1, <3>2, <3>3 DEF Collect, Structure, PatchTypes, PatchOps
    <3>5. /\ DOMAIN r' = DOMAIN r \cup {Len(r) + 1}
          /\ \A i \in DOMAIN r : r'[i] = r[i]
          /\ r'[Len(r) + 1] = op
      BY ONLY <3>4, AtEnd
    <3>6. op # ClearOp
      BY <3>2, PatchOpFacts DEF Structure, PatchTypes
    <3> QED BY <3>5, <3>6 DEF Clears
  <2> QED BY <2>1, <2>2 DEF Work, Receive, Leave
<1> QED BY <1>1, <1>2 DEF Reaching, Basis

LEMMA SortReaching ==
    ASSUME Structure, Reaching, Sort
    PROVE  Reaching'
<1>1. /\ pc = "diffing" /\ left = Workers /\ pc' = "applying" /\ r' \in SortedByPath(r)
      /\ SamePatch /\ held' = held
    BY DEF Sort, AllLeft, SamePatch
<1>2. /\ Changed' = Changed
      /\ \A k : PatchOp(k)' = PatchOp(k)
    BY <1>1, SamePatchFacts
<1>3. r \in Seq(PatchOps \cup {ClearOp}) /\ {from, to} \subseteq Maps
    BY DEF Structure, PatchTypes
<1>4. /\ \A i \in DOMAIN r' : \E j \in DOMAIN r : r'[i] = r[j]
      /\ \A j \in DOMAIN r : \E i \in DOMAIN r' : r'[i] = r[j]
    BY <1>1, <1>3, SortedFacts
<1>5. Clears' <=> Clears
    BY <1>4 DEF Clears
<1>6. Basis' = from /\ to' = to
    BY <1>1, <1>5 DEF Basis, Reaching, SamePatch
<1>7. \A k \in Changed : Collected(k)'
  <2>1. \A k \in Changed : Collected(k)
    BY <1>1, Quiet DEF Structure, NoneDropped
  <2> QED BY <1>2, <1>4, <2>1 DEF Collected
<1>8. ASSUME NEW k \in Keys, k \notin Changed PROVE Agree(from, to, k)
    BY <1>8 DEF Changed, ChangedKeys, Agree
<1> QED BY <1>1, <1>2, <1>6, <1>7, <1>8 DEF Reaching

LEMMA NothingBeforeRoot == ASSUME NEW C, NEW p \in Seq(C) PROVE ~Less(p, Root, Code)
<1>1. PICK q : q = Root
    OBVIOUS
<1>2. Len(q) = 0 /\ DOMAIN q = {} /\ Len(p) \in Nat
    BY <1>1, LenProperties DEF Root
<1>3. ~Less(p, q, Code)
    BY <1>2 DEF Less
<1> QED BY <1>1, <1>3

LEMMA ApplyReaching ==
    ASSUME RoundTrips, NoEmptyKey, Structure, Reaching, Apply
    PROVE  Reaching'
<1>1. /\ pc = "applying" /\ r # << >> /\ held' = Applied(held, Head(r)) /\ r' = Tail(r)
      /\ SamePatch /\ pc' = pc
    BY DEF Apply, SamePatch
<1>2. /\ Changed' = Changed
      /\ \A k : PatchOp(k)' = PatchOp(k)
    BY <1>1, SamePatchFacts
<1>3. /\ r \in Seq(PatchOps \cup {ClearOp}) /\ {held, from, to} \subseteq Maps
      /\ \A i, j \in DOMAIN r : r[i] = r[j] => i = j
    BY DEF Structure, PatchTypes, AtMostOnce
<1>4. /\ Head(r) = r[1] /\ 1 \in DOMAIN r /\ DOMAIN r = 1..Len(r)
      /\ \A i \in DOMAIN r' : r'[i] = r[i + 1] /\ i + 1 \in DOMAIN r
      /\ \A i \in DOMAIN r : i # 1 => i - 1 \in DOMAIN r' /\ r'[i - 1] = r[i]
    BY <1>1, <1>3, TailFacts
<1>5. /\ Changed \in SUBSET Keys
      /\ \A k, l \in Changed : PatchOp(k) = PatchOp(l) => k = l
      /\ \A k \in Changed : PatchOp(k) # ClearOp /\ PatchOp(k).path = Path(k)
    BY <1>3, PatchOpFacts
<1>6. \A k \in Changed : Collected(k) /\ r[1] # PatchOp(k) => Collected(k)'
    BY <1>2, <1>4 DEF Collected
<1>7. \A k \in Keys : (k \in Changed /\ Collected(k)) \/ Agree(Basis, to, k)
    BY <1>1 DEF Reaching
<1>8. SUFFICES ASSUME NEW k \in Keys, ~ (k \in Changed /\ Collected(k)')
               PROVE  Agree(Basis', to, k)
    BY <1>1, <1>2 DEF Reaching, SamePatch
<1>9. CASE r[1] = ClearOp
  <2>1. Basis = EmptyMap /\ Basis' = EmptyMap
    BY <1>1, <1>4, <1>9 DEF Basis, Clears, Applied
  <2> QED BY <1>5, <1>6, <1>7, <1>8, <1>9, <2>1
<1>10. CASE r[1] # ClearOp
  <2>1. PICK key \in Changed : r[1] = PatchOp(key)
    BY <1>3, <1>4, <1>10, ElementOfSeq DEF PatchOps
  <2>2. ~Clears
    <3>1. SUFFICES ASSUME NEW i \in DOMAIN r, r[i] = ClearOp PROVE FALSE
      BY DEF Clears
    <3>2. 1 < i
      BY <1>4, <1>10, <3>1
    <3>3. Less(r[1].path, r[i].path, Code)
      BY <1>1, <1>4, <3>2 DEF Structure, PatchInPathOrder
    <3>4. r[i].path = Root
      BY <3>1 DEF ClearOp
    <3>5. r[1].path \in Seq(DOMAIN Code)
      BY <1>5, <2>1, KeyFacts
    <3> QED BY <3>3, <3>4, <3>5, NothingBeforeRoot
  <2>3. ~Clears'
    BY <1>4, <2>2 DEF Clears
  <2>4. Basis = held /\ Basis' = held'
    BY <2>2, <2>3 DEF Basis
  <2>5. key \in Keys /\ key # << >>
    BY <1>5 DEF NoEmptyKey
  <2>6. IF key \in DOMAIN to
        THEN held' = With(held, key, ValueIn(TextOf(to[key])))
        ELSE held' = Without(held, key)
    <3>1. held' = Applied(held, OpOf(ChangeAt(from, to, key), to))
      BY <1>1, <1>4, <2>1 DEF PatchOp, Change
    <3>2. key \in ChangedKeys(from, to)
      BY DEF Changed
    <3>3. /\ key \in DOMAIN to =>
                Applied(held, OpOf(ChangeAt(from, to, key), to)) = With(held, key, ValueIn(TextOf(to[key])))
          /\ key \notin DOMAIN to =>
                Applied(held, OpOf(ChangeAt(from, to, key), to)) =
                   IF key = << >> THEN EmptyMap ELSE Without(held, key)
      BY <1>3, <3>2, AppliedOp
    <3> QED BY <2>5, <3>1, <3>3
  <2>7. key \in DOMAIN to => ValueIn(TextOf(to[key])) = to[key]
    BY <1>3, MapFacts DEF RoundTrips
  <2>8. Agree(held', to, key)
    BY <2>6, <2>7 DEF With, Without, Agree
  <2>9. \A l : l # key /\ Agree(held, to, l) => Agree(held', to, l)
    BY <2>6 DEF With, Without, Agree
  <2>10. CASE k = key
    BY <2>4, <2>8, <2>10
  <2>11. CASE k # key
    <3>1. ~ (k \in Changed /\ Collected(k))
      BY <1>5, <1>6, <1>8, <2>1, <2>11
    <3> QED BY <1>7, <2>4, <2>9, <2>11, <3>1
  <2> QED BY <2>10, <2>11
<1> QED BY <1>9, <1>10

LEMMA ReturnReaching ==
    ASSUME Structure, Reaching, Return
    PROVE  Reaching'
<1>1. pc = "applying" /\ r = << >> /\ pc' = "idle" /\ held' = held /\ to' = to
    BY DEF Return
<1>2. DOMAIN r = {}
    BY <1>1
<1>3. \A k \in Keys : Agree(held, to, k)
    BY <1>1, <1>2 DEF Reaching, Collected, Basis, Clears
<1>4. /\ DOMAIN held \in SUBSET Keys /\ held \in [DOMAIN held -> Values]
      /\ DOMAIN to \in SUBSET Keys /\ to \in [DOMAIN to -> Values]
    BY MapFacts DEF Structure, PatchTypes
<1>5. DOMAIN held = DOMAIN to /\ \A k \in DOMAIN to : held[k] = to[k]
    BY <1>3, <1>4 DEF Agree
<1>6. held = to
    BY <1>4, <1>5
<1> QED BY <1>1, <1>6 DEF Reaching

LEMMA NextReaching ==
    ASSUME RoundTrips, NoEmptyKey
    PROVE  Structure /\ Reaching /\ [Next]_vars => Reaching'
<1> SUFFICES ASSUME Structure, Reaching, [Next]_vars PROVE Reaching'
    OBVIOUS
<1>1. CASE UNCHANGED vars
    BY <1>1 DEF vars, Reaching, Basis, Clears, Agree, Collected, Changed, PatchOp, Change
<1>2. ASSUME NEW target \in Maps, NEW full \in BOOLEAN, Start(target, full) PROVE Reaching'
    BY <1>2, StartReaching
<1>3. ASSUME NEW w \in Workers, Work(w) PROVE Reaching'
    BY <1>3, DiffingReaching
<1>4. CASE Sort
    BY <1>4, SortReaching
<1>5. CASE Apply
    BY <1>5, ApplyReaching
<1>6. CASE Return
    BY <1>6, ReturnReaching
<1> QED BY <1>1, <1>2, <1>3, <1>4, <1>5, <1>6 DEF Next

(* Whatever order the changes are found, serialized and collected in, the  *)
(* client reaches the map the patch was made for.                          *)
THEOREM ReachesTarget ==
    ASSUME RoundTrips, NoEmptyKey
    PROVE  Spec => []PatchReachesTarget
<1>1. Init => Reaching
    BY InitReaching
<1>2. Structure /\ Reaching /\ [Next]_vars => Reaching'
    BY NextReaching
<1>3. Reaching => PatchReachesTarget
    BY DEF Reaching, PatchReachesTarget
<1> QED BY <1>1, <1>2, <1>3, StructureInvariant, PTL DEF Spec
===============================================================================
