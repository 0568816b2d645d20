-------------------------- MODULE JSONPointerProofs --------------------------
(***************************************************************************)
(* Theorems about JSONPointer: a key comes back from its path, and paths   *)
(* are totally ordered, for strings of any length over any characters.     *)
(***************************************************************************)
EXTENDS JSONPointer, Integers, SequenceTheorems, WellFoundedInduction, TLAPS

-------------------------------------------------------------------------------
(* Induction, with a set in place of a predicate.                          *)
LEMMA SetInduction ==
    ASSUME NEW T, 0 \in T, \A k \in Nat : k \in T => k + 1 \in T
    PROVE  Nat \subseteq T
<1> DEFINE R == OpToRel(<, Nat)
<1> DEFINE Missing == Nat \ T
<1>1. SUFFICES ASSUME Missing # {} PROVE FALSE
    OBVIOUS
<1>2. IsWellFoundedOn(R, Nat)
    BY NatLessThanWellFounded
<1>3. \E x \in Missing : \A y \in Missing : ~ (<<y, x>> \in R)
  <2>1. Missing \subseteq Nat
    OBVIOUS
  <2> HIDE DEF R, Missing
  <2> QED BY <1>1, <1>2, <2>1, WFMin
<1>4. PICK x \in Missing : \A y \in Missing : <<y, x>> \notin R
    BY <1>3
<1>5. x # 0 /\ x - 1 \in Nat /\ x - 1 \notin T
    OBVIOUS
<1>6. <<x - 1, x>> \in R
    BY <1>5 DEF OpToRel
<1> QED BY <1>4, <1>5, <1>6

LEMMA OneInSeq == ASSUME NEW C, NEW c \in C PROVE <<c>> \in Seq(C)
    OBVIOUS

-------------------------------------------------------------------------------
(* ReplaceAll: the rests of s from index i on, f being the rests after i.  *)

Rest(s, old, new, f, i) ==
    IF i > Len(s) THEN << >>
    ELSE IF FoundAt(s, old, i) THEN new \o f[i + Len(old)]
    ELSE <<s[i]>> \o f[i + 1]

Indices(s, old) == 1..(Len(s) + Len(old))

AreRests(f, s, old, new) ==
    f = [i \in Indices(s, old) |-> Rest(s, old, new, f, i)]

(* The rests of a string are replaced from its end.                        *)
LEMMA RestsExist ==
    ASSUME NEW C, NEW s \in Seq(C), NEW old \in Seq(C), old # << >>, NEW new \in Seq(C)
    PROVE  \E f : AreRests(f, s, old, new) /\ f \in [Indices(s, old) -> Seq(C)]
<1> DEFINE n == Len(s)
<1> DEFINE D == 1..(n + Len(old))
<1> DEFINE Done(f, k) == \A i \in D : i > n - k => f[i] = Rest(s, old, new, f, i)
<1> DEFINE T == {k \in Nat : k <= n => \E f \in [D -> Seq(C)] : Done(f, k)}
<1>0. n \in Nat /\ Len(old) \in Nat \ {0}
    BY EmptySeq
<1>1. 0 \in T
  <2> DEFINE f == [i \in D |-> << >>]
  <2>1. f \in [D -> Seq(C)] /\ Done(f, 0)
    BY <1>0 DEF Rest
  <2> QED BY <2>1
<1>2. ASSUME NEW k \in Nat, k \in T PROVE k + 1 \in T
  <2>1. SUFFICES ASSUME k + 1 <= n PROVE \E f \in [D -> Seq(C)] : Done(f, k + 1)
    OBVIOUS
  <2>2. PICK f \in [D -> Seq(C)] : Done(f, k)
    BY <1>0, <1>2, <2>1
  <2> DEFINE g == [f EXCEPT ![n - k] = Rest(s, old, new, f, n - k)]
  <2>3. n - k \in D /\ n - k + 1 \in D /\ n - k + Len(old) \in D
    BY <1>0, <2>1
  <2>4. Rest(s, old, new, f, n - k) \in Seq(C)
    <3>1. s[n - k] \in C
      BY <1>0, <2>1, ElementOfSeq
    <3>2. <<s[n - k]>> \o f[n - k + 1] \in Seq(C)
      <4>1. <<s[n - k]>> \in Seq(C) /\ f[n - k + 1] \in Seq(C)
        BY <2>3, <3>1, OneInSeq
      <4> QED BY <4>1, ConcatProperties
    <3>3. new \o f[n - k + Len(old)] \in Seq(C)
      BY <2>3, ConcatProperties
    <3> QED BY <3>2, <3>3 DEF Rest
  <2>5. g \in [D -> Seq(C)]
    BY <2>4
  <2>6. ASSUME NEW i \in D, i > n - (k + 1) PROVE g[i] = Rest(s, old, new, g, i)
    <3>1. Rest(s, old, new, g, i) = Rest(s, old, new, f, i)
      BY <1>0, <2>1, <2>3, <2>6 DEF Rest
    <3>2. CASE i = n - k
      BY <2>3, <3>1, <3>2
    <3>3. CASE i # n - k
      BY <1>0, <2>1, <2>2, <2>6, <3>1, <3>3
    <3> QED BY <3>2, <3>3
  <2> QED BY <2>5, <2>6
<1>3. n \in T
  <2> HIDE DEF T
  <2> QED BY <1>0, <1>1, <1>2, SetInduction
<1>4. PICK f \in [D -> Seq(C)] : Done(f, n)
    BY <1>0, <1>3
<1>5. f = [i \in D |-> Rest(s, old, new, f, i)]
    BY <1>0, <1>4
<1> QED BY <1>4, <1>5 DEF AreRests, Indices

(* t is s without its first d characters.                                  *)
IsRest(t, s, d, C) ==
    /\ t \in Seq(C) /\ d \in Nat
    /\ Len(s) = Len(t) + d
    /\ \A i \in 1..Len(t) : t[i] = s[i + d]

(* What is found in the rest of a string does not depend on what came      *)
(* before it.                                                              *)
LEMMA RestsAgree ==
    ASSUME NEW C, NEW s \in Seq(C), NEW old \in Seq(C), old # << >>, NEW new,
           NEW t, NEW d, IsRest(t, s, d, C),
           NEW f, AreRests(f, s, old, new), NEW g, AreRests(g, t, old, new)
    PROVE  \A i \in Indices(t, old) : g[i] = f[i + d]
<1> DEFINE n == Len(t)
<1> DEFINE D == 1..(n + Len(old))
<1> DEFINE T == {k \in Nat : \A i \in D : i > n - k => g[i] = f[i + d]}
<1> USE DEF IsRest
<1>0. /\ n \in Nat /\ d \in Nat /\ Len(s) = n + d /\ Len(old) \in Nat \ {0}
      /\ \A i \in 1..n : t[i] = s[i + d]
    BY EmptySeq
<1> HIDE DEF IsRest
<1>1. \A i \in D : /\ g[i] = Rest(t, old, new, g, i)
                    /\ f[i + d] = Rest(s, old, new, f, i + d)
  <2> TAKE i \in D
  <2>1. i \in Indices(t, old) /\ i + d \in Indices(s, old)
    BY <1>0 DEF Indices
  <2>2. g[i] = Rest(t, old, new, g, i)
    BY <2>1 DEF AreRests
  <2>3. f[i + d] = Rest(s, old, new, f, i + d)
    BY <2>1 DEF AreRests
  <2> QED BY <2>2, <2>3
<1>2. 0 \in T
  <2>1. SUFFICES ASSUME NEW i \in D, i > n PROVE g[i] = f[i + d]
    BY <1>0
  <2>2. i > Len(t) /\ i + d > Len(s)
    BY <1>0, <2>1
  <2>3. Rest(t, old, new, g, i) = << >> /\ Rest(s, old, new, f, i + d) = << >>
    BY <2>2 DEF Rest
  <2> QED BY <1>1, <2>3
<1>3. ASSUME NEW k \in Nat, k \in T PROVE k + 1 \in T
  <2>1. SUFFICES ASSUME NEW i \in D, i > n - (k + 1) PROVE g[i] = f[i + d]
    OBVIOUS
  <2>2. CASE i > n - k
    BY <1>3, <2>2
  <2>3. CASE i = n - k
    <3>1. t[i] = s[i + d] /\ i <= n /\ i + d <= Len(s)
      BY <1>0, <2>3
    <3>2. FoundAt(t, old, i) <=> FoundAt(s, old, i + d)
      <4>1. ASSUME NEW j \in DOMAIN old, i + Len(old) - 1 <= n
            PROVE  t[i + j - 1] = s[i + d + j - 1]
        <5>1. j \in 1..Len(old)
          BY LenProperties
        <5>2. i + j - 1 \in 1..n /\ (i + j - 1) + d = i + d + j - 1
          BY <1>0, <2>3, <4>1, <5>1
        <5> QED BY <1>0, <5>2
      <4>2. i + Len(old) - 1 <= n <=> (i + d) + Len(old) - 1 <= Len(s)
        BY <1>0, <2>3
      <4>3. FoundAt(t, old, i) <=>
              i + Len(old) - 1 <= n /\ \A j \in DOMAIN old : t[i + j - 1] = old[j]
        BY DEF FoundAt
      <4>4. FoundAt(s, old, i + d) <=>
              /\ (i + d) + Len(old) - 1 <= Len(s)
              /\ \A j \in DOMAIN old : s[i + d + j - 1] = old[j]
        BY DEF FoundAt
      <4> HIDE DEF D, T
      <4> QED BY <4>1, <4>2, <4>3, <4>4
    <3>3. g[i + 1] = f[i + d + 1] /\ g[i + Len(old)] = f[i + d + Len(old)]
      <4>1. i + 1 \in D /\ i + Len(old) \in D /\ i + 1 > n - k /\ i + Len(old) > n - k
        BY <1>0, <2>3
      <4>2. (i + 1) + d = i + d + 1 /\ (i + Len(old)) + d = i + d + Len(old)
        BY <1>0
      <4>3. g[i + 1] = f[(i + 1) + d] /\ g[i + Len(old)] = f[(i + Len(old)) + d]
        BY <1>3, <4>1
      <4> QED BY <4>2, <4>3
    <3>4. Rest(t, old, new, g, i) = Rest(s, old, new, f, i + d)
      <4>1. i \in Nat /\ ~ i > Len(t) /\ ~ i + d > Len(s)
        BY <1>0, <3>1
      <4> HIDE DEF D, T
      <4> QED BY <1>0, <3>1, <3>2, <3>3, <4>1 DEF Rest
    <3> QED BY <1>1, <3>4
  <2> QED BY <1>0, <2>1, <2>2, <2>3
<1>4. n \in T
  <2> HIDE DEF T
  <2> QED BY <1>0, <1>2, <1>3, SetInduction
<1> QED BY <1>0, <1>4 DEF Indices

LEMMA Replaced ==
    ASSUME NEW C, NEW s \in Seq(C), NEW old \in Seq(C), old # << >>, NEW new \in Seq(C)
    PROVE  \E f : /\ AreRests(f, s, old, new)
                  /\ f \in [Indices(s, old) -> Seq(C)]
                  /\ ReplaceAll(s, old, new) = f[1]
<1> DEFINE rest == CHOOSE f : f = [i \in Indices(s, old) |-> Rest(s, old, new, f, i)]
<1>1. PICK f : AreRests(f, s, old, new) /\ f \in [Indices(s, old) -> Seq(C)]
    BY RestsExist
<1>2. AreRests(rest, s, old, new)
    BY <1>1 DEF AreRests
<1>3. ReplaceAll(s, old, new) = rest[1]
    BY DEF ReplaceAll, Rest, Indices
<1>4. 1 \in Indices(s, old)
    BY EmptySeq DEF Indices
<1>5. \A i \in Indices(s, old) : rest[i] = f[i + 0]
  <2>1. IsRest(s, s, 0, C)
    BY DEF IsRest
  <2> HIDE DEF rest
  <2> QED BY <1>1, <1>2, <2>1, RestsAgree
<1>6. rest[1] = f[1]
    BY <1>4, <1>5
<1> QED BY <1>1, <1>3, <1>6

(* A string whose beginning is found: the rest is that after a gap.        *)
LEMMA ReplaceFrom ==
    ASSUME NEW C, NEW s \in Seq(C), NEW old \in Seq(C), old # << >>, NEW new \in Seq(C),
           NEW t, NEW d, IsRest(t, s, d, C), NEW f, AreRests(f, s, old, new)
    PROVE  ReplaceAll(t, old, new) = f[1 + d]
<1>0. t \in Seq(C)
    BY DEF IsRest
<1>1. PICK g : AreRests(g, t, old, new) /\ ReplaceAll(t, old, new) = g[1]
    BY <1>0, Replaced
<1>2. 1 \in Indices(t, old)
    BY <1>0, EmptySeq DEF Indices
<1>3. g[1] = f[1 + d]
    BY <1>1, <1>2, RestsAgree
<1> QED BY <1>1, <1>3

LEMMA FirstRest ==
    ASSUME NEW C, NEW s \in Seq(C), NEW old \in Seq(C), old # << >>, NEW new,
           NEW f, AreRests(f, s, old, new)
    PROVE  f[1] = Rest(s, old, new, f, 1)
<1>1. 1 \in Indices(s, old)
    BY EmptySeq DEF Indices
<1> QED BY <1>1 DEF AreRests

LEMMA ReplaceNothing ==
    ASSUME NEW C, NEW old \in Seq(C), old # << >>, NEW new \in Seq(C)
    PROVE  ReplaceAll(<< >>, old, new) = << >>
<1>0. PICK s : s = << >>
    OBVIOUS
<1>1. s \in Seq(C)
    BY <1>0
<1>2. PICK f : AreRests(f, s, old, new) /\ ReplaceAll(s, old, new) = f[1]
    BY ONLY old \in Seq(C), old # << >>, new \in Seq(C), <1>1, Replaced
<1>3. f[1] = Rest(s, old, new, f, 1)
    BY ONLY old \in Seq(C), old # << >>, <1>1, <1>2, FirstRest
<1>4. Len(s) = 0
    BY <1>0
<1> QED BY <1>0, <1>2, <1>3, <1>4 DEF Rest

(* A character at which nothing is found stays.                            *)
LEMMA ReplaceLater ==
    ASSUME NEW C, NEW s \in Seq(C), NEW old \in Seq(C), old # << >>, NEW new \in Seq(C),
           NEW t, IsRest(t, s, 1, C), ~FoundAt(s, old, 1)
    PROVE  ReplaceAll(s, old, new) = <<s[1]>> \o ReplaceAll(t, old, new)
<1>1. PICK f : AreRests(f, s, old, new) /\ ReplaceAll(s, old, new) = f[1]
    BY Replaced
<1>2. ReplaceAll(t, old, new) = f[1 + 1]
    BY <1>1, ReplaceFrom
<1>3. f[1] = Rest(s, old, new, f, 1)
    BY <1>1, FirstRest
<1>4. f[1] = <<s[1]>> \o f[1 + 1]
    BY <1>3, EmptySeq DEF Rest, IsRest
<1> QED BY <1>1, <1>2, <1>4

(* What is found at the beginning is replaced.                             *)
LEMMA ReplaceFound ==
    ASSUME NEW C, NEW s \in Seq(C), NEW old \in Seq(C), old # << >>, NEW new \in Seq(C),
           NEW t, IsRest(t, s, Len(old), C), \A i \in 1..Len(old) : s[i] = old[i]
    PROVE  ReplaceAll(s, old, new) = new \o ReplaceAll(t, old, new)
<1>1. FoundAt(s, old, 1)
  <2>1. \A j \in 1..Len(old) : s[1 + j - 1] = old[j]
    OBVIOUS
  <2>2. DOMAIN old = 1..Len(old)
    BY LenProperties
  <2> QED BY <2>1, <2>2, EmptySeq DEF FoundAt, IsRest
<1>2. PICK f : AreRests(f, s, old, new) /\ ReplaceAll(s, old, new) = f[1]
    BY Replaced
<1>3. ReplaceAll(t, old, new) = f[1 + Len(old)]
    BY <1>2, ReplaceFrom
<1>4. f[1] = Rest(s, old, new, f, 1)
    BY <1>2, FirstRest
<1>5. f[1] = new \o f[1 + Len(old)]
  <2>1. ~ 1 > Len(s)
    BY EmptySeq DEF IsRest
  <2> QED BY <1>1, <1>4, <2>1 DEF Rest
<1> QED BY <1>2, <1>3, <1>5

-------------------------------------------------------------------------------
(* One character, and two.                                                 *)

IsCons(s, c, t) == s = <<c>> \o t

LEMMA ConsFacts ==
    ASSUME NEW C, NEW c \in C, NEW t \in Seq(C)
    PROVE  /\ <<c>> \o t \in Seq(C)
           /\ (<<c>> \o t)[1] = c
           /\ IsRest(t, <<c>> \o t, 1, C)
    BY OneInSeq, ConcatProperties DEF IsRest

LEMMA IsConsFacts ==
    ASSUME NEW C, NEW c \in C, NEW t \in Seq(C), NEW s, IsCons(s, c, t)
    PROVE  s \in Seq(C) /\ s # << >> /\ s[1] = c /\ IsRest(t, s, 1, C)
<1>1. s \in Seq(C) /\ s[1] = c /\ IsRest(t, s, 1, C)
    BY ConsFacts DEF IsCons
<1>2. Len(s) = Len(t) + 1 /\ Len(t) \in Nat
    BY <1>1 DEF IsRest
<1>3. s # << >>
    BY <1>2
<1> QED BY <1>1, <1>3

IsOne(old, o, C) == old \in Seq(C) /\ Len(old) = 1 /\ old[1] = o

LEMMA OneFacts ==
    ASSUME NEW C, NEW o, NEW old, IsOne(old, o, C)
    PROVE  old \in Seq(C) /\ old # << >> /\ DOMAIN old = 1..1 /\ Len(old) = 1 /\ old[1] = o
<1>1. old \in Seq(C) /\ Len(old) = 1 /\ old[1] = o
    BY DEF IsOne
<1>2. DOMAIN old = 1..Len(old) /\ old # << >>
    BY <1>1, LenProperties
<1> QED BY <1>1, <1>2

LEMMA ReplaceIt ==
    ASSUME NEW C, NEW o \in C, NEW old, IsOne(old, o, C), NEW new \in Seq(C),
           NEW t \in Seq(C), NEW s, IsCons(s, o, t)
    PROVE  ReplaceAll(s, old, new) = new \o ReplaceAll(t, old, new)
<1>1. old \in Seq(C) /\ old # << >> /\ Len(old) = 1 /\ old[1] = o
    BY OneFacts
<1>2. s \in Seq(C) /\ s[1] = o /\ IsRest(t, s, 1, C)
    BY IsConsFacts
<1>3. IsRest(t, s, Len(old), C) /\ \A i \in 1..Len(old) : s[i] = old[i]
    BY <1>1, <1>2
<1>4. old \in Seq(C) /\ old # << >> /\ s \in Seq(C)
    BY <1>1, <1>2
<1> QED BY ONLY new \in Seq(C), <1>4, <1>3, ReplaceFound

LEMMA KeepIt ==
    ASSUME NEW C, NEW o, NEW old, IsOne(old, o, C), NEW new \in Seq(C),
           NEW c \in C, c # o, NEW t \in Seq(C), NEW s, IsCons(s, c, t)
    PROVE  ReplaceAll(s, old, new) = <<c>> \o ReplaceAll(t, old, new)
<1>1. old \in Seq(C) /\ old # << >> /\ DOMAIN old = 1..1 /\ old[1] = o
    BY OneFacts
<1>2. s \in Seq(C) /\ s[1] = c /\ IsRest(t, s, 1, C)
    BY IsConsFacts
<1>3. ~FoundAt(s, old, 1)
    BY <1>1, <1>2 DEF FoundAt
<1>4. old \in Seq(C) /\ old # << >>
    BY <1>1
<1>5. ReplaceAll(s, old, new) = <<s[1]>> \o ReplaceAll(t, old, new)
    BY ONLY new \in Seq(C), <1>4, <1>2, <1>3, ReplaceLater
<1> QED BY <1>2, <1>5

IsPair(old, o, p, C) == old \in Seq(C) /\ Len(old) = 2 /\ old[1] = o /\ old[2] = p

LEMMA PairIsTwo ==
    ASSUME NEW C, NEW o \in C, NEW p \in C, NEW t \in Seq(C), NEW u, IsPair(u, o, p, C),
           NEW v, IsCons(v, p, t), NEW s, IsCons(s, o, v)
    PROVE  u \o t = s
<1>1. PICK w, x : w = <<o>> /\ x = <<p>>
    OBVIOUS
<1>2. w \in Seq(C) /\ x \in Seq(C) /\ Len(w) = 1 /\ Len(x) = 1 /\ w[1] = o /\ x[1] = p
    BY <1>1
<1>3. PICK y : IsCons(y, o, x)
    BY DEF IsCons
<1>4. y \in Seq(C) /\ Len(y) = 2 /\ y[1] = o /\ y[2] = p
  <2>1. y \in Seq(C) /\ y[1] = o /\ IsRest(x, y, 1, C)
    BY ONLY o \in C, <1>2, <1>3, IsConsFacts
  <2> QED BY <1>2, <2>1 DEF IsRest
<1>5. u \in Seq(C) /\ Len(u) = 2 /\ u[1] = o /\ u[2] = p
    BY DEF IsPair
<1>6. u = y
    BY <1>4, <1>5, SeqEqual
<1>7. (w \o x) \o t = w \o (x \o t)
    BY <1>2, ConcatAssociative
<1> QED BY <1>1, <1>3, <1>6, <1>7 DEF IsCons

LEMMA TwoFacts ==
    ASSUME NEW C, NEW o \in C, NEW p \in C, NEW t \in Seq(C),
           NEW v, IsCons(v, p, t), NEW s, IsCons(s, o, v)
    PROVE  s \in Seq(C) /\ s[1] = o /\ s[2] = p /\ IsRest(t, s, 2, C)
<1>1. v \in Seq(C) /\ v[1] = p /\ IsRest(t, v, 1, C)
    BY IsConsFacts
<1>2. s \in Seq(C) /\ s[1] = o /\ IsRest(v, s, 1, C)
    BY <1>1, IsConsFacts
<1>3. Len(s) = Len(t) + 2 /\ s[2] = p
    BY <1>1, <1>2 DEF IsRest
<1>4. ASSUME NEW i \in 1..Len(t) PROVE t[i] = s[i + 2]
  <2>1. i + 1 \in 1..Len(v) /\ (i + 1) + 1 = i + 2 /\ t[i] = v[i + 1]
    BY <1>1 DEF IsRest
  <2>2. v[i + 1] = s[(i + 1) + 1]
    BY <1>2, <2>1 DEF IsRest
  <2> QED BY <2>1, <2>2
<1> QED BY <1>2, <1>3, <1>4 DEF IsRest

LEMMA PairFacts ==
    ASSUME NEW C, NEW o, NEW p, NEW old, IsPair(old, o, p, C)
    PROVE  /\ old \in Seq(C) /\ old # << >>
           /\ DOMAIN old = 1..2 /\ old[1] = o /\ old[2] = p /\ Len(old) = 2
<1>1. old \in Seq(C) /\ Len(old) = 2 /\ old[1] = o /\ old[2] = p
    BY DEF IsPair
<1>2. DOMAIN old = 1..Len(old)
    BY <1>1, LenProperties
<1>3. old # << >>
    BY <1>1
<1> QED BY <1>1, <1>2, <1>3

LEMMA ReplaceTwo ==
    ASSUME NEW C, NEW o \in C, NEW p \in C, NEW old, IsPair(old, o, p, C), NEW new \in Seq(C),
           NEW t \in Seq(C), NEW v, IsCons(v, p, t), NEW s, IsCons(s, o, v)
    PROVE  ReplaceAll(s, old, new) = new \o ReplaceAll(t, old, new)
<1>3. old \in Seq(C) /\ old # << >>
    BY PairFacts
<1>4. s[1] = o /\ s[2] = p /\ IsRest(t, s, 2, C)
    BY TwoFacts
<1>5. s \in Seq(C)
    BY TwoFacts
<1>6. IsRest(t, s, Len(old), C) /\ \A i \in 1..Len(old) : s[i] = old[i]
    BY <1>4 DEF IsPair
<1>7. ReplaceAll(s, old, new) = new \o ReplaceAll(t, old, new)
    BY ONLY new \in Seq(C), <1>3, <1>5, <1>6, ReplaceFound
<1> QED BY <1>7

LEMMA KeepOne ==
    ASSUME NEW C, NEW o, NEW p, NEW old, IsPair(old, o, p, C), NEW new \in Seq(C),
           NEW c \in C, NEW t \in Seq(C), c = o => t # << >> /\ t[1] # p,
           NEW s, IsCons(s, c, t)
    PROVE  ReplaceAll(s, old, new) = <<c>> \o ReplaceAll(t, old, new)
<1>2. old \in Seq(C) /\ old # << >>
    BY PairFacts
<1>3. DOMAIN old = 1..2 /\ old[1] = o /\ old[2] = p /\ Len(old) = 2
    BY PairFacts
<1>4. s \in Seq(C) /\ s # << >> /\ s[1] = c /\ IsRest(t, s, 1, C)
    BY IsConsFacts
<1>5. ~FoundAt(s, old, 1)
  <2>1. CASE c # o
    BY <1>3, <1>4, <2>1 DEF FoundAt
  <2>2. CASE c = o
    <3>1. s[2] = t[1]
      BY <1>4, <2>2, EmptySeq DEF IsRest
    <3>2. s[2] # p
      BY <3>1, <2>2
    <3> QED BY <1>3, <3>2 DEF FoundAt
  <2> QED BY <2>1, <2>2
<1>6. ReplaceAll(s, old, new) = <<s[1]>> \o ReplaceAll(t, old, new)
    BY ONLY new \in Seq(C), <1>2, <1>4, <1>5, ReplaceLater
<1> QED BY <1>4, <1>6

LEMMA ReplaceType ==
    ASSUME NEW C, NEW s \in Seq(C), NEW old \in Seq(C), old # << >>, NEW new \in Seq(C)
    PROVE  ReplaceAll(s, old, new) \in Seq(C)
<1>1. PICK f : f \in [Indices(s, old) -> Seq(C)] /\ ReplaceAll(s, old, new) = f[1]
    BY Replaced
<1>2. 1 \in Indices(s, old)
    BY EmptySeq DEF Indices
<1> QED BY <1>1, <1>2

-------------------------------------------------------------------------------
(* Escaping and back, character by character.                              *)

Special == {"~", "0", "1", "/"}

Escaped(c) == IF c = "~" THEN <<"~", "0">> ELSE IF c = "/" THEN <<"~", "1">> ELSE <<c>>

LEMMA EscapeNothing == Escape(<< >>) = << >>
<1>1. PICK new1, new2 : new1 = <<"~", "0">> /\ new2 = <<"~", "1">>
    OBVIOUS
<1>2. PICK old1, old2 : old1 = <<"~">> /\ old2 = <<"/">>
    OBVIOUS
<1>3. /\ new1 \in Seq(Special) /\ new2 \in Seq(Special)
      /\ old1 \in Seq(Special) /\ old2 \in Seq(Special) /\ old1 # << >> /\ old2 # << >>
    BY <1>1, <1>2 DEF Special
<1>4. ReplaceAll(<< >>, old1, new1) = << >> /\ ReplaceAll(<< >>, old2, new2) = << >>
    BY <1>3, ReplaceNothing
<1> QED BY <1>1, <1>2, <1>4 DEF Escape

(* The characters as constants.                                            *)
AreSpecial(tilde, zero, one, slash, C) ==
    /\ {tilde, zero, one, slash} \subseteq C
    /\ tilde # zero /\ tilde # one /\ tilde # slash /\ zero # one /\ zero # slash /\ one # slash

LEMMA Escaping ==
    ASSUME NEW C, NEW tilde, NEW zero, NEW one, NEW slash, AreSpecial(tilde, zero, one, slash, C),
           NEW old1, IsOne(old1, tilde, C), NEW new1, IsPair(new1, tilde, zero, C),
           NEW old2, IsOne(old2, slash, C), NEW new2, IsPair(new2, tilde, one, C),
           NEW c \in C, NEW t \in Seq(C), NEW s, IsCons(s, c, t)
    PROVE  ReplaceAll(ReplaceAll(s, old1, new1), old2, new2) =
              (IF c = tilde THEN new1 ELSE IF c = slash THEN new2 ELSE <<c>>)
                \o ReplaceAll(ReplaceAll(t, old1, new1), old2, new2)
<1>1. tilde \in C /\ zero \in C /\ one \in C /\ slash \in C
    BY DEF AreSpecial
<1>2. new1 \in Seq(C) /\ new2 \in Seq(C)
    BY DEF IsPair
<1>3. PICK r : r = ReplaceAll(t, old1, new1)
    OBVIOUS
<1>4. r \in Seq(C)
    BY <1>2, <1>3, ReplaceType, OneFacts
<1>5. PICK e : e = ReplaceAll(r, old2, new2)
    OBVIOUS
<1>6. e \in Seq(C)
    BY <1>2, <1>4, <1>5, ReplaceType, OneFacts
<1>7. CASE c = tilde
  <2>0. IsCons(s, tilde, t)
    BY <1>7
  <2>1. ReplaceAll(s, old1, new1) = new1 \o ReplaceAll(t, old1, new1)
    BY <1>1, <1>2, <2>0, ReplaceIt
  <2>2. PICK x : IsCons(x, zero, r)
    BY DEF IsCons
  <2>3. PICK y : IsCons(y, tilde, x)
    BY DEF IsCons
  <2>4. new1 \o r = y
    BY <1>1, <1>4, <2>2, <2>3, PairIsTwo
  <2>5. x \in Seq(C)
    BY <1>1, <1>4, <2>2, IsConsFacts
  <2>6. ReplaceAll(y, old2, new2) = <<tilde>> \o ReplaceAll(x, old2, new2)
    BY <1>1, <1>2, <2>3, <2>5, KeepIt DEF AreSpecial
  <2>7. ReplaceAll(x, old2, new2) = <<zero>> \o ReplaceAll(r, old2, new2)
    BY <1>1, <1>2, <1>4, <2>2, KeepIt DEF AreSpecial
  <2>8. PICK x2 : IsCons(x2, zero, e)
    BY DEF IsCons
  <2>9. PICK y2 : IsCons(y2, tilde, x2)
    BY DEF IsCons
  <2>10. new1 \o e = y2
    BY <1>1, <1>6, <2>8, <2>9, PairIsTwo
  <2>11. ReplaceAll(y, old2, new2) = y2
    BY <1>5, <2>6, <2>7, <2>8, <2>9 DEF IsCons
  <2> QED BY <1>3, <1>5, <1>7, <2>1, <2>4, <2>10, <2>11
<1>8. CASE c # tilde
  <2>1. ReplaceAll(s, old1, new1) = <<c>> \o ReplaceAll(t, old1, new1)
    BY <1>2, <1>8, KeepIt
  <2>2. PICK x : IsCons(x, c, r)
    BY DEF IsCons
  <2>3. ReplaceAll(s, old1, new1) = x
    BY <1>3, <2>1, <2>2 DEF IsCons
  <2>4. CASE c = slash
    <3>1. IsCons(x, slash, r)
      BY <2>2, <2>4
    <3>2. ReplaceAll(x, old2, new2) = new2 \o ReplaceAll(r, old2, new2)
      BY <1>1, <1>2, <1>4, <3>1, ReplaceIt
    <3> QED BY <1>3, <1>8, <2>3, <2>4, <3>2
  <2>5. CASE c # slash
    <3>1. ReplaceAll(x, old2, new2) = <<c>> \o ReplaceAll(r, old2, new2)
      BY <1>2, <1>4, <2>2, <2>5, KeepIt
    <3> QED BY <1>3, <1>8, <2>3, <2>5, <3>1
  <2> QED BY <2>4, <2>5
<1> QED BY <1>7, <1>8

LEMMA EscapeOne ==
    ASSUME NEW C, Special \subseteq C, NEW c \in C, NEW t \in Seq(C), NEW s, IsCons(s, c, t)
    PROVE  Escape(s) = Escaped(c) \o Escape(t)
<1>1. PICK tilde, zero, one, slash : tilde = "~" /\ zero = "0" /\ one = "1" /\ slash = "/"
    OBVIOUS
<1>2. PICK old1, old2 : old1 = <<tilde>> /\ old2 = <<slash>>
    OBVIOUS
<1>3. PICK new1, new2 : new1 = <<tilde, zero>> /\ new2 = <<tilde, one>>
    OBVIOUS
<1>4. AreSpecial(tilde, zero, one, slash, C)
    BY <1>1 DEF AreSpecial, Special
<1>5. IsOne(old1, tilde, C) /\ IsOne(old2, slash, C)
    BY <1>2, <1>4 DEF IsOne, AreSpecial
<1>6. IsPair(new1, tilde, zero, C) /\ IsPair(new2, tilde, one, C)
    BY <1>3, <1>4 DEF IsPair, AreSpecial
<1>7. ReplaceAll(ReplaceAll(s, old1, new1), old2, new2) =
         (IF c = tilde THEN new1 ELSE IF c = slash THEN new2 ELSE <<c>>)
            \o ReplaceAll(ReplaceAll(t, old1, new1), old2, new2)
    BY ONLY c \in C, t \in Seq(C), IsCons(s, c, t), <1>4, <1>5, <1>6, Escaping
<1>8. \A x : Escape(x) = ReplaceAll(ReplaceAll(x, old1, new1), old2, new2)
    BY <1>1, <1>2, <1>3 DEF Escape
<1>9. Escaped(c) = IF c = tilde THEN new1 ELSE IF c = slash THEN new2 ELSE <<c>>
    BY <1>1, <1>3 DEF Escaped
<1> QED BY <1>7, <1>8, <1>9

LEMMA UnescapeNothing == Unescape(<< >>) = << >>
<1>1. PICK old1, old2 : old1 = <<"~", "1">> /\ old2 = <<"~", "0">>
    OBVIOUS
<1>2. PICK new1, new2 : new1 = <<"/">> /\ new2 = <<"~">>
    OBVIOUS
<1>3. /\ new1 \in Seq(Special) /\ new2 \in Seq(Special)
      /\ old1 \in Seq(Special) /\ old2 \in Seq(Special) /\ old1 # << >> /\ old2 # << >>
    BY <1>1, <1>2 DEF Special
<1>4. ReplaceAll(<< >>, old1, new1) = << >> /\ ReplaceAll(<< >>, old2, new2) = << >>
    BY <1>3, ReplaceNothing
<1> QED BY <1>1, <1>2, <1>4 DEF Unescape

LEMMA Unescaping ==
    ASSUME NEW C, NEW tilde, NEW zero, NEW one, NEW slash, AreSpecial(tilde, zero, one, slash, C),
           NEW old1, IsPair(old1, tilde, one, C), NEW new1, IsCons(new1, slash, << >>),
           NEW old2, IsPair(old2, tilde, zero, C), NEW new2, IsCons(new2, tilde, << >>),
           NEW c \in C, NEW t \in Seq(C),
           NEW s, IF c = tilde \/ c = slash
                  THEN \E v : IsCons(v, IF c = tilde THEN zero ELSE one, t) /\ IsCons(s, tilde, v)
                  ELSE IsCons(s, c, t)
    PROVE  ReplaceAll(ReplaceAll(s, old1, new1), old2, new2) =
              <<c>> \o ReplaceAll(ReplaceAll(t, old1, new1), old2, new2)
<1>1. tilde \in C /\ zero \in C /\ one \in C /\ slash \in C
    BY DEF AreSpecial
<1>2. new1 \in Seq(C) /\ new2 \in Seq(C)
    BY <1>1 DEF IsCons
<1>0. new1 = <<slash>> /\ new2 = <<tilde>>
    BY <1>1 DEF IsCons
<1>3. PICK r : r = ReplaceAll(t, old1, new1)
    OBVIOUS
<1>4. r \in Seq(C)
    BY <1>2, <1>3, ReplaceType, PairFacts
<1>5. CASE c = tilde
  <2>1. PICK v : IsCons(v, zero, t) /\ IsCons(s, tilde, v)
    BY <1>5
  <2>2. v \in Seq(C) /\ v[1] = zero /\ v # << >>
    BY <1>1, <2>1, ConsFacts DEF IsCons, IsRest
  <2>3. ReplaceAll(s, old1, new1) = <<tilde>> \o ReplaceAll(v, old1, new1)
    BY <1>1, <1>2, <2>1, <2>2, KeepOne DEF AreSpecial
  <2>4. ReplaceAll(v, old1, new1) = <<zero>> \o ReplaceAll(t, old1, new1)
    BY <1>1, <1>2, <2>1, KeepOne DEF AreSpecial
  <2>5. PICK x : IsCons(x, zero, r)
    BY DEF IsCons
  <2>6. PICK y : IsCons(y, tilde, x)
    BY DEF IsCons
  <2>7. ReplaceAll(y, old2, new2) = new2 \o ReplaceAll(r, old2, new2)
    BY <1>1, <1>2, <1>4, <2>5, <2>6, ReplaceTwo
  <2>8. ReplaceAll(s, old1, new1) = y
    BY <1>3, <2>3, <2>4, <2>5, <2>6 DEF IsCons
  <2> QED BY <1>0, <1>3, <1>5, <2>7, <2>8
<1>6. CASE c = slash
  <2>1. PICK v : IsCons(v, one, t) /\ IsCons(s, tilde, v)
    BY <1>6 DEF AreSpecial
  <2>2. ReplaceAll(s, old1, new1) = new1 \o ReplaceAll(t, old1, new1)
    BY <1>1, <1>2, <2>1, ReplaceTwo
  <2>3. PICK x : IsCons(x, slash, r)
    BY DEF IsCons
  <2>4. ReplaceAll(x, old2, new2) = <<slash>> \o ReplaceAll(r, old2, new2)
    BY <1>1, <1>2, <1>4, <2>3, KeepOne DEF AreSpecial
  <2>5. ReplaceAll(s, old1, new1) = x
    BY <1>0, <1>3, <2>2, <2>3 DEF IsCons
  <2> QED BY <1>3, <1>6, <2>4, <2>5
<1>7. CASE c # tilde /\ c # slash
  <2>1. IsCons(s, c, t)
    BY <1>7
  <2>2. ReplaceAll(s, old1, new1) = <<c>> \o ReplaceAll(t, old1, new1)
    BY <1>2, <1>7, <2>1, KeepOne
  <2>3. PICK x : IsCons(x, c, r)
    BY DEF IsCons
  <2>4. ReplaceAll(x, old2, new2) = <<c>> \o ReplaceAll(r, old2, new2)
    <3>1. new2 \in Seq(C) /\ r \in Seq(C) /\ c # tilde
      BY <1>2, <1>4, <1>7
    <3> QED BY ONLY c \in C, IsPair(old2, tilde, zero, C), <2>3, <3>1, KeepOne
  <2>5. ReplaceAll(s, old1, new1) = x
    BY <1>3, <2>2, <2>3 DEF IsCons
  <2> QED BY <1>3, <2>4, <2>5
<1> QED BY <1>5, <1>6, <1>7

LEMMA UnescapeOne ==
    ASSUME NEW C, Special \subseteq C, NEW c \in C, NEW t \in Seq(C)
    PROVE  Unescape(Escaped(c) \o t) = <<c>> \o Unescape(t)
<1>1. PICK tilde, zero, one, slash : tilde = "~" /\ zero = "0" /\ one = "1" /\ slash = "/"
    OBVIOUS
<1>2. PICK old1, old2 : old1 = <<tilde, one>> /\ old2 = <<tilde, zero>>
    OBVIOUS
<1>3. PICK new1, new2 : new1 = <<slash>> /\ new2 = <<tilde>>
    OBVIOUS
<1>4. AreSpecial(tilde, zero, one, slash, C)
    BY <1>1 DEF AreSpecial, Special
<1>5. IsPair(old1, tilde, one, C) /\ IsPair(old2, tilde, zero, C)
    BY <1>2, <1>4 DEF IsPair, AreSpecial
<1>6. IsCons(new1, slash, << >>) /\ IsCons(new2, tilde, << >>)
    BY <1>3 DEF IsCons
<1>7. PICK s : s = Escaped(c) \o t
    OBVIOUS
<1>8. IF c = tilde \/ c = slash
      THEN \E v : IsCons(v, IF c = tilde THEN zero ELSE one, t) /\ IsCons(s, tilde, v)
      ELSE IsCons(s, c, t)
  <2>1. CASE c = tilde
    <3>1. PICK u : u = <<tilde, zero>>
      OBVIOUS
    <3>2. s = u \o t
      BY <1>1, <1>7, <2>1, <3>1 DEF Escaped
    <3>3. IsPair(u, tilde, zero, C)
      BY <1>4, <3>1 DEF IsPair, AreSpecial
    <3>4. PICK v, y : IsCons(v, zero, t) /\ IsCons(y, tilde, v)
      BY DEF IsCons
    <3>5. tilde \in C /\ zero \in C
      BY <1>4 DEF AreSpecial
    <3>6. u \o t = y
      BY ONLY t \in Seq(C), <3>3, <3>4, <3>5, PairIsTwo
    <3> QED BY <2>1, <3>2, <3>4, <3>6
  <2>2. CASE c = slash
    <3>1. PICK u : u = <<tilde, one>>
      OBVIOUS
    <3>2. s = u \o t /\ c # tilde
      BY <1>1, <1>7, <2>2, <3>1 DEF Escaped
    <3>3. IsPair(u, tilde, one, C)
      BY <1>4, <3>1 DEF IsPair, AreSpecial
    <3>4. PICK v, y : IsCons(v, one, t) /\ IsCons(y, tilde, v)
      BY DEF IsCons
    <3>5. tilde \in C /\ one \in C
      BY <1>4 DEF AreSpecial
    <3>6. u \o t = y
      BY ONLY t \in Seq(C), <3>3, <3>4, <3>5, PairIsTwo
    <3> QED BY <2>2, <3>2, <3>4, <3>6
  <2>3. CASE c # tilde /\ c # slash
    BY <1>1, <1>7, <2>3 DEF Escaped, IsCons
  <2> QED BY <2>1, <2>2, <2>3
<1>9. ReplaceAll(ReplaceAll(s, old1, new1), old2, new2) =
         <<c>> \o ReplaceAll(ReplaceAll(t, old1, new1), old2, new2)
    BY ONLY c \in C, t \in Seq(C), <1>4, <1>5, <1>6, <1>8, Unescaping
<1>10. \A x : Unescape(x) = ReplaceAll(ReplaceAll(x, old1, new1), old2, new2)
    BY <1>1, <1>2, <1>3 DEF Unescape
<1> QED BY <1>7, <1>9, <1>10

LEMMA EscapeType ==
    ASSUME NEW C, Special \subseteq C, NEW s \in Seq(C)
    PROVE  Escape(s) \in Seq(C)
<1>1. <<"~", "0">> \in Seq(C) /\ <<"~", "1">> \in Seq(C) /\ <<"~">> \in Seq(C) /\ <<"/">> \in Seq(C)
    BY DEF Special
<1> QED BY <1>1, ReplaceType DEF Escape

(* A string comes back from jsonPointerEscape by jsonPointerUnescape as it *)
(* was, whatever tildes, slashes and digits it has.                        *)
THEOREM UnescapeEscape ==
    ASSUME NEW C, Special \subseteq C
    PROVE  \A s \in Seq(C) : Unescape(Escape(s)) = s
<1> DEFINE T == {n \in Nat : \A s \in Seq(C) : Len(s) = n => Unescape(Escape(s)) = s}
<1>1. 0 \in T
  <2>1. \A s \in Seq(C) : Len(s) = 0 => s = << >>
    BY EmptySeq
  <2> QED BY <2>1, EscapeNothing, UnescapeNothing
<1>2. ASSUME NEW n \in Nat, n \in T PROVE n + 1 \in T
  <2>1. SUFFICES ASSUME NEW s \in Seq(C), Len(s) = n + 1 PROVE Unescape(Escape(s)) = s
    OBVIOUS
  <2>2. PICK c \in C, t \in Seq(C) : s = <<c>> \o t /\ Len(t) = n
    <3>1. s # << >>
      BY <2>1
    <3>2. Head(s) \in C /\ Tail(s) \in Seq(C) /\ Len(Tail(s)) = n
      BY <2>1, <3>1, HeadTailProperties
    <3>3. s = <<Head(s)>> \o Tail(s)
      <4>1. PICK u : u = <<Head(s)>> \o Tail(s)
        OBVIOUS
      <4>2. u \in Seq(C) /\ u[1] = Head(s) /\ IsRest(Tail(s), u, 1, C)
        BY <3>2, <4>1, ConsFacts
      <4>3. Len(u) = Len(s)
        BY <2>1, <3>2, <4>2 DEF IsRest
      <4>4. ASSUME NEW i \in 1..Len(s) PROVE s[i] = u[i]
        <5>1. CASE i = 1
          BY <4>2, <5>1
        <5>2. CASE i # 1
          <6>1. i - 1 \in 1..Len(Tail(s)) /\ (i - 1) + 1 = i
            BY <2>1, <3>2, <5>2
          <6>2. Tail(s)[i - 1] = s[(i - 1) + 1]
            BY <3>1, <6>1, HeadTailProperties
          <6>3. Tail(s)[i - 1] = u[(i - 1) + 1]
            BY <4>2, <6>1 DEF IsRest
          <6> QED BY <6>1, <6>2, <6>3
        <5> QED BY <5>1, <5>2
      <4> QED BY <4>1, <4>2, <4>3, <4>4, SeqEqual
    <3> QED BY <3>2, <3>3
  <2>3. Unescape(Escape(t)) = t
    BY <1>2, <2>2
  <2>4. Escape(s) = Escaped(c) \o Escape(t)
    <3>1. IsCons(s, c, t)
      BY <2>2 DEF IsCons
    <3> QED BY ONLY Special \subseteq C, c \in C, t \in Seq(C), <3>1, EscapeOne
  <2>5. Escape(t) \in Seq(C)
    BY EscapeType
  <2> QED BY <2>2, <2>3, <2>4, <2>5, UnescapeOne
<1>3. Nat \subseteq T
  <2> HIDE DEF T
  <2> QED BY <1>1, <1>2, SetInduction
<1>4. \A s \in Seq(C) : Len(s) \in T
    BY <1>3
<1> QED BY <1>4

-------------------------------------------------------------------------------
(* Paths.                                                                  *)

LEMMA PathFacts ==
    ASSUME NEW C, Special \subseteq C, NEW k \in Seq(C)
    PROVE  Path(k) \in Seq(C) /\ Path(k) # << >> /\ Tail(Path(k)) = Escape(k)
<1>1. PICK t : t = Escape(k)
    OBVIOUS
<1>2. t \in Seq(C)
    BY <1>1, EscapeType
<1>3. PICK c : c = "/"
    OBVIOUS
<1>4. c \in C
    BY <1>3 DEF Special
<1>5. PICK s : IsCons(s, c, t)
    BY DEF IsCons
<1>6. s \in Seq(C) /\ s # << >> /\ IsRest(t, s, 1, C)
    BY ONLY <1>2, <1>4, <1>5, IsConsFacts
<1>7. Tail(s) = t
  <2>1. Tail(s) \in Seq(C) /\ Len(Tail(s)) = Len(t)
    BY <1>6, HeadTailProperties DEF IsRest
  <2>2. ASSUME NEW i \in 1..Len(t) PROVE Tail(s)[i] = t[i]
    <3>1. t[i] = s[i + 1]
      BY <1>6 DEF IsRest
    <3>2. i \in 1..Len(Tail(s))
      BY <2>1
    <3>3. Tail(s)[i] = s[i + 1]
      BY <1>6, <3>2, HeadTailProperties
    <3> QED BY <3>1, <3>3
  <2> QED BY <1>2, <2>1, <2>2, SeqEqual
<1>8. Path(k) = s
    BY <1>1, <1>3, <1>5 DEF Path, IsCons
<1> QED BY <1>1, <1>6, <1>7, <1>8

(* The path that Diff writes for a key leads ApplyPatch back to the key,   *)
(* so that no two keys have one path.                                      *)
THEOREM KeyAtPath ==
    ASSUME NEW C, Special \subseteq C
    PROVE  \A k \in Seq(C) : KeyAt(Path(k)) = k
BY PathFacts, UnescapeEscape DEF KeyAt

-------------------------------------------------------------------------------
(* The order of paths.                                                     *)

LEMMA Smallest ==
    ASSUME NEW S, S \subseteq Nat, S # {}
    PROVE  \E x \in S : \A y \in S : x <= y
<1> DEFINE R == OpToRel(<, Nat)
<1>1. IsWellFoundedOn(R, Nat)
    BY NatLessThanWellFounded
<1>2. PICK x \in S : \A y \in S : ~ (<<y, x>> \in R)
  <2> HIDE DEF R
  <2> QED BY <1>1, WFMin
<1>3. \A y \in S : ~ (y < x)
    BY <1>2 DEF OpToRel
<1> QED BY <1>3

LEMMA SamePrefix ==
    ASSUME NEW C, NEW p \in Seq(C), NEW q \in Seq(C), NEW n \in Nat,
           n <= Len(p), n <= Len(q), \A i \in 1..n : p[i] = q[i]
    PROVE  SubSeq(p, 1, n) = SubSeq(q, 1, n)
<1>1. \A i \in 1..n : p[i] \in C /\ q[i] \in C
    BY ElementOfSeq, LenProperties
<1>2. /\ SubSeq(p, 1, n) \in Seq(C) /\ SubSeq(q, 1, n) \in Seq(C)
      /\ Len(SubSeq(p, 1, n)) = n /\ Len(SubSeq(q, 1, n)) = n
      /\ \A i \in 1..n : SubSeq(p, 1, n)[i] = p[i] /\ SubSeq(q, 1, n)[i] = q[i]
    BY <1>1, LenProperties, SubSeqProperties
<1> QED BY <1>2, SeqEqual

LEMMA WholePrefix ==
    ASSUME NEW C, NEW p \in Seq(C)
    PROVE  SubSeq(p, 1, Len(p)) = p
<1>1. \A i \in 1..Len(p) : p[i] \in C
    BY ElementOfSeq, LenProperties
<1>2. Len(p) \in Nat
    BY LenProperties
<1>3. /\ SubSeq(p, 1, Len(p)) \in Seq(C) /\ Len(SubSeq(p, 1, Len(p))) = Len(p)
      /\ \A i \in 1..Len(p) : SubSeq(p, 1, Len(p))[i] = p[i]
    BY <1>1, <1>2, SubSeqProperties
<1> QED BY <1>3, SeqEqual

LEMMA PrefixLess ==
    ASSUME NEW C, NEW Code, NEW p \in Seq(C), NEW q \in Seq(C), Len(p) < Len(q),
           \A i \in 1..Len(p) : p[i] = q[i]
    PROVE  Less(p, q, Code)
<1>1. Len(p) \in Nat /\ Len(q) \in Nat
    BY LenProperties
<1>2. SubSeq(p, 1, Len(p)) = SubSeq(q, 1, Len(p))
    BY <1>1, SamePrefix
<1>3. p = SubSeq(q, 1, Len(p))
    BY <1>2, WholePrefix
<1> QED BY <1>3 DEF Less

(* Of two paths that differ, one is before the other: the comparison Diff  *)
(* sorts by leaves nothing to the order in which workers answered.         *)
THEOREM LessTotal ==
    ASSUME NEW C, NEW Code \in [C -> Nat], \A c, d \in C : Code[c] = Code[d] => c = d,
           NEW p \in Seq(C), NEW q \in Seq(C), p # q
    PROVE  Less(p, q, Code) \/ Less(q, p, Code)
<1> DEFINE Differ == {i \in DOMAIN p \cap DOMAIN q : p[i] # q[i]}
<1>0. /\ DOMAIN p = 1..Len(p) /\ DOMAIN q = 1..Len(q) /\ Len(p) \in Nat /\ Len(q) \in Nat
    BY LenProperties
<1>1. CASE Differ = {}
  <2>1. \A i \in 1..Len(p) \cap 1..Len(q) : p[i] = q[i]
    BY <1>0, <1>1
  <2>2. Len(p) # Len(q)
    BY <1>0, <2>1, SeqEqual
  <2>3. CASE Len(p) < Len(q)
    <3>1. \A i \in 1..Len(p) : p[i] = q[i]
      BY <1>0, <2>1, <2>3
    <3> QED BY <2>3, <3>1, PrefixLess
  <2>4. CASE Len(q) < Len(p)
    <3>1. \A i \in 1..Len(q) : q[i] = p[i]
      BY <1>0, <2>1, <2>4
    <3> QED BY <2>4, <3>1, PrefixLess
  <2>5. \A m, n \in Nat : m # n => m < n \/ n < m
    OBVIOUS
  <2>6. Len(p) < Len(q) \/ Len(q) < Len(p)
    BY <1>0, <2>2, <2>5
  <2> QED BY <2>3, <2>4, <2>6
<1>2. CASE Differ # {}
  <2>1. PICK i \in Differ : \A j \in Differ : i <= j
    <3>1. Differ \subseteq Nat
      BY <1>0
    <3> HIDE DEF Differ
    <3> QED BY <1>2, <3>1, Smallest
  <2>2. i \in DOMAIN p /\ i \in DOMAIN q /\ p[i] # q[i] /\ i \in Nat \ {0}
    BY <1>0
  <2>3. SubSeq(p, 1, i - 1) = SubSeq(q, 1, i - 1)
    <3>1. i - 1 \in Nat /\ i - 1 <= Len(p) /\ i - 1 <= Len(q)
      BY <1>0, <2>2
    <3>2. ASSUME NEW j \in 1..(i - 1) PROVE p[j] = q[j]
      <4>1. j \in DOMAIN p \cap DOMAIN q /\ j \in Nat /\ ~ (i <= j)
        BY <1>0, <2>2
      <4> QED BY <2>1, <4>1
    <3> QED BY <3>1, <3>2, SamePrefix
  <2>4. Code[p[i]] \in Nat /\ Code[q[i]] \in Nat /\ Code[p[i]] # Code[q[i]]
    BY <1>0, <2>2, ElementOfSeq
  <2>5. CASE Code[p[i]] < Code[q[i]]
    BY <2>2, <2>3, <2>5 DEF Less
  <2>6. CASE Code[q[i]] < Code[p[i]]
    BY <2>2, <2>3, <2>6 DEF Less
  <2> QED BY <2>4, <2>5, <2>6
<1> QED BY <1>1, <1>2
===============================================================================
