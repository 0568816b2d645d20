------------------------------ MODULE KVMapProofs ------------------------------
(***************************************************************************)
(* The checksum a kv.Map carries is exact, for every finite set of keys,   *)
(* every set of values and every hash of entries.                          *)
(***************************************************************************)
EXTENDS KVMap, FiniteSetTheorems, TLAPS

LEMMA ViewFacts ==
    ASSUME NEW m \in Views
    PROVE  /\ DOMAIN m \subseteq Keys
           /\ \A k \in DOMAIN m : m[k] \in Values
           /\ m = [k \in DOMAIN m |-> m[k]]
BY DEF Views

LEMMA WithView ==
    ASSUME NEW m \in Views, NEW k \in Keys, NEW v \in Values
    PROVE  With(m, k, v) \in Views
<1>1. DOMAIN m \cup {k} \in SUBSET Keys
  BY ViewFacts
<1>2. With(m, k, v) \in [DOMAIN m \cup {k} -> Values]
  BY ViewFacts DEF With
<1> QED BY <1>1, <1>2 DEF Views

LEMMA WithoutView ==
    ASSUME NEW m \in Views, NEW k
    PROVE  Without(m, k) \in Views
<1>1. DOMAIN m \ {k} \in SUBSET Keys
  BY ViewFacts
<1>2. Without(m, k) \in [DOMAIN m \ {k} -> Values]
  BY ViewFacts DEF Without
<1> QED BY <1>1, <1>2 DEF Views

(* Parity: one more element turns odd into even.                           *)
LEMMA Flip == \A n \in Nat : (n + 1) % 2 = 1 <=> n % 2 # 1
OBVIOUS

LEMMA SettersFinite ==
    ASSUME NEW m \in Views, NEW b
    PROVE  /\ IsFiniteSet(Setters(m, b))
           /\ Cardinality(Setters(m, b)) \in Nat
<1>1. Setters(m, b) \subseteq Keys
  BY ViewFacts DEF Setters
<1> QED BY <1>1, KeysAssumption, FS_Subset, FS_CardinalityType

(* A bit of the checksum is set when an odd number of entries set it.      *)
LEMMA ChecksumBit ==
    ASSUME NEW m \in Views, NEW b
    PROVE  b \in ChecksumOf(m) <=> Cardinality(Setters(m, b)) % 2 = 1
<1>1. ASSUME Cardinality(Setters(m, b)) % 2 = 1
      PROVE  b \in UNION {HashEntry(k, m[k]) : k \in DOMAIN m}
  <2>1. Cardinality({}) = 0
    BY FS_EmptySet
  <2>2. Setters(m, b) # {}
    BY <1>1, <2>1
  <2> QED BY <2>2 DEF Setters
<1> QED BY <1>1 DEF ChecksumOf

(* An entry for a new key is one XOR.                                      *)
LEMMA AddEntry ==
    ASSUME NEW m \in Views, NEW k \in Keys, NEW v \in Values, k \notin DOMAIN m
    PROVE  ChecksumOf(With(m, k, v)) = Xor(ChecksumOf(m), HashEntry(k, v))
<1> DEFINE w == With(m, k, v)
<1>1. w \in Views
  BY WithView
<1>2. /\ DOMAIN w = DOMAIN m \cup {k}
      /\ w[k] = v
      /\ \A x \in DOMAIN m : w[x] = m[x]
  BY DEF With
<1> HIDE DEF w
<1>3. ASSUME NEW b
      PROVE  b \in ChecksumOf(w) <=> b \in Xor(ChecksumOf(m), HashEntry(k, v))
  <2>1. k \notin Setters(m, b)
    BY DEF Setters
  <2>2. CASE b \in HashEntry(k, v)
    <3>1. Setters(w, b) = Setters(m, b) \cup {k}
      BY <1>2, <2>2 DEF Setters
    <3>2. Cardinality(Setters(w, b)) = Cardinality(Setters(m, b)) + 1
      BY <2>1, <3>1, SettersFinite, FS_AddElement
    <3>3. b \in ChecksumOf(w) <=> b \notin ChecksumOf(m)
      BY <1>1, <3>2, Flip, SettersFinite, ChecksumBit
    <3> QED BY <2>2, <3>3 DEF Xor
  <2>3. CASE b \notin HashEntry(k, v)
    <3>1. Setters(w, b) = Setters(m, b)
      BY <1>2, <2>3 DEF Setters
    <3>2. b \in ChecksumOf(w) <=> b \in ChecksumOf(m)
      BY <1>1, <3>1, ChecksumBit
    <3> QED BY <2>3, <3>2 DEF Xor
  <2> QED BY <2>2, <2>3
<1> QED BY <1>3 DEF w

LEMMA XorTwice == \A a, h : Xor(Xor(a, h), h) = a
BY DEF Xor

(* So is taking one out.                                                   *)
LEMMA DropEntry ==
    ASSUME NEW m \in Views, NEW k \in DOMAIN m
    PROVE  ChecksumOf(Without(m, k)) = Xor(ChecksumOf(m), HashEntry(k, m[k]))
<1> DEFINE w == Without(m, k)
<1>1. w \in Views /\ k \in Keys /\ m[k] \in Values /\ k \notin DOMAIN w
  BY WithoutView, ViewFacts DEF Without
<1>2. With(w, k, m[k]) = m
  BY ViewFacts DEF With, Without
<1>3. ChecksumOf(m) = Xor(ChecksumOf(w), HashEntry(k, m[k]))
  BY <1>1, <1>2, AddEntry
<1> QED BY <1>3, XorTwice

(* Taking out a key that is not there changes nothing.                     *)
LEMMA DropNothing ==
    ASSUME NEW m \in Views, NEW k, k \notin DOMAIN m
    PROVE  Without(m, k) = m
<1>1. DOMAIN m \ {k} = DOMAIN m
  OBVIOUS
<1>2. m = [x \in DOMAIN m |-> m[x]]
  BY ViewFacts
<1> QED BY <1>1, <1>2 DEF Without

LEMMA SumInSums ==
    ASSUME NEW s \in Sums, NEW k \in Keys, NEW v \in Values
    PROVE  Xor(s, HashEntry(k, v)) \in Sums
BY DEF Sums, Xor

-------------------------------------------------------------------------------
LEMMA EmptySum == ChecksumOf([k \in {} |-> k]) = {}
BY DEF ChecksumOf

LEMMA InitExact == Init => TypeOK /\ SumIsExact
<1>1. [k \in {} |-> k] \in Views
  BY DEF Views
<1> QED BY <1>1, EmptySum DEF Init, TypeOK, SumIsExact, NewMap, Summed, Sums

(* What Remove, and Set before it adds, make of the editor.                *)
LEMMA RemoveExact ==
    ASSUME TypeOK, SumIsExact, editor # NoEditor, NEW k \in Keys
    PROVE  /\ SumWithout(k) \in Sums
           /\ Without(editor.entries, k) \in Views
           /\ k \notin DOMAIN Without(editor.entries, k)
           /\ SumWithout(k) = ChecksumOf(Without(editor.entries, k))
<1>1. editor.entries \in Views /\ editor.sum \in Sums
  BY DEF TypeOK, Summed
<1>2. Without(editor.entries, k) \in Views /\ k \notin DOMAIN Without(editor.entries, k)
  BY <1>1, WithoutView DEF Without
<1>3. CASE k \in DOMAIN editor.entries
  <2>1. SumWithout(k) = Xor(editor.sum, HashEntry(k, editor.entries[k]))
    BY <1>3 DEF SumWithout, Has, Get
  <2>2. editor.entries[k] \in Values
    BY <1>1, <1>3, ViewFacts
  <2> QED BY <1>1, <1>2, <1>3, <2>1, <2>2, DropEntry, SumInSums DEF SumIsExact
<1>4. CASE k \notin DOMAIN editor.entries
  BY <1>1, <1>2, <1>4, DropNothing DEF SumWithout, Has, SumIsExact
<1> QED BY <1>3, <1>4

(* What Noms remembers of removed keys stays a view.                       *)
LEMMA StaleView ==
    ASSUME TypeOK, editor # NoEditor, NEW k \in Keys,
           stale' = IF Has(k) THEN With(stale, k, Get(k)) ELSE stale
    PROVE  stale' \in Views
<1>1. editor.entries \in Views
  BY DEF TypeOK, Summed
<1>2. Has(k) => Get(k) \in Values
  BY <1>1, ViewFacts DEF Has, Get
<1> QED BY <1>2, WithView DEF TypeOK

LEMMA NextExact == TypeOK /\ SumIsExact /\ [Next]_vars => (TypeOK /\ SumIsExact)'
<1> SUFFICES ASSUME TypeOK, SumIsExact, [Next]_vars PROVE (TypeOK /\ SumIsExact)'
  OBVIOUS
<1>1. CASE Edit
  BY <1>1 DEF Edit, TypeOK, SumIsExact
<1>2. ASSUME NEW k \in Keys, Remove(k)
      PROVE  (TypeOK /\ SumIsExact)'
  <2>1. editor' \in Summed /\ editor'.sum = ChecksumOf(editor'.entries)
    BY <1>2, RemoveExact DEF Remove, Summed
  <2>2. stale' \in Views
    BY <1>2, StaleView DEF Remove
  <2> QED BY <1>2, <2>1, <2>2 DEF Remove, TypeOK, SumIsExact
<1>3. ASSUME NEW k \in Keys, NEW v \in Values, Set(k, v)
      PROVE  (TypeOK /\ SumIsExact)'
  <2> DEFINE e == Without(editor.entries, k)
  <2>1. /\ e \in Views /\ k \notin DOMAIN e
        /\ SumWithout(k) \in Sums /\ SumWithout(k) = ChecksumOf(e)
    BY <1>3, RemoveExact DEF Set
  <2>2. With(editor.entries, k, v) = With(e, k, v)
    BY DEF With, Without
  <2>3. editor'.sum = ChecksumOf(editor'.entries)
    BY <1>3, <2>1, <2>2, AddEntry DEF Set
  <2>4. editor' \in Summed
    BY <1>3, <2>1, <2>2, WithView, SumInSums DEF Set, Summed
  <2>5. stale' \in Views
    BY <1>3, StaleView DEF Set
  <2> QED BY <1>3, <2>3, <2>4, <2>5 DEF Set, TypeOK, SumIsExact
<1>4. CASE Build
  <2>1. NewMap.entries \in Views
    BY DEF NewMap, Views
  <2> QED BY <1>4, <2>1 DEF Build, TypeOK, SumIsExact
<1>5. CASE UNCHANGED vars
  BY <1>5 DEF vars, TypeOK, SumIsExact
<1> QED BY <1>1, <1>2, <1>3, <1>4, <1>5 DEF Next

(* Maps and editors stay what they are called, Noms' leftovers included.   *)
THEOREM TypeCorrect == Spec => []TypeOK
BY InitExact, NextExact, PTL DEF Spec

(* The checksum kept by Set and Remove is ComputeChecksum of the map, for  *)
(* any hash of the entries.                                                *)
THEOREM SumsExact == Spec => []SumIsExact
BY InitExact, NextExact, PTL DEF Spec
===============================================================================
