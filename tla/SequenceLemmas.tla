--------------------------- MODULE SequenceLemmas ---------------------------
(***************************************************************************)
(* Facts that the proofs share, most of them proved by induction: what     *)
(* flattening yields and how often elements occur in it, quotients, sums   *)
(* over finite sets, and finite sets in the order of a ranking.  Induction *)
(* is stated with a set in place of a predicate and rests on the           *)
(* well-founded order of the natural numbers.                              *)
(***************************************************************************)
EXTENDS Integers, SequencesExt, FiniteSetTheorems, WellFoundedInduction, TLAPS

\* Every set of natural numbers has a least element.
LEMMA LeastNumber ==
    ASSUME NEW T, T \subseteq Nat, T # {}
    PROVE  \E x \in T : \A y \in T : x <= y
<1> DEFINE R == {ss \in Nat \X Nat : ss[1] < ss[2]}
<1>1. IsWellFoundedOn(R, Nat)
  BY NatLessThanWellFounded DEF OpToRel
<1>2. \A x, y \in Nat : y < x => <<y, x>> \in R
  OBVIOUS
<1> HIDE DEF R
<1>3. PICK x \in T : \A y \in T : <<y, x>> \notin R
  BY <1>1, WFMin
<1>4. ASSUME NEW y \in T
      PROVE  x <= y
  <2>1. x \in Nat /\ y \in Nat /\ <<y, x>> \notin R
    BY <1>3
  <2>2. ~ (y < x)
    BY <1>2, <2>1
  <2> QED
    BY <2>1, <2>2
<1> QED
  BY <1>4

\* Induction: a set with 0 and with the successors of its numbers has them all.
LEMMA Induction ==
    ASSUME NEW S, 0 \in S, \A n \in Nat : n \in S => n + 1 \in S
    PROVE  Nat \subseteq S
<1> DEFINE T == Nat \ S
<1> SUFFICES ASSUME T # {}
             PROVE  FALSE
  OBVIOUS
<1>1. T \subseteq Nat
  OBVIOUS
<1>2. PICK x \in T : \A y \in T : x <= y
  <2> HIDE DEF T
  <2> QED
    BY <1>1, LeastNumber
<1>3. x \in Nat /\ x # 0
  OBVIOUS
<1>4. x - 1 \in Nat /\ x - 1 \notin T
  BY <1>2, <1>3
<1> QED
  BY <1>3, <1>4, (x - 1) + 1 = x

\* A finite set of numbers has a greatest one.
LEMMA GreatestNumber ==
    ASSUME NEW S \in SUBSET Nat, IsFiniteSet(S), S # {}
    PROVE  \E x \in S : \A y \in S : y <= x
<1> DEFINE P(A) == A # {} => \E x \in A : \A y \in A : y <= x
           N == {n \in Nat : \A A \in SUBSET Nat :
                    IsFiniteSet(A) /\ Cardinality(A) = n => P(A)}
<1>1. 0 \in N
  <2>1. \A A \in SUBSET Nat : IsFiniteSet(A) /\ Cardinality(A) = 0 => A = {}
    BY FS_EmptySet
  <2> QED
    BY <2>1
<1>2. ASSUME NEW n \in Nat, n \in N
      PROVE  n + 1 \in N
  <2> SUFFICES ASSUME NEW A \in SUBSET Nat, IsFiniteSet(A), Cardinality(A) = n + 1
               PROVE  P(A)
    <3> HIDE DEF P
    <3> QED
      OBVIOUS
  <2> SUFFICES ASSUME NEW a \in A
               PROVE  \E x \in A : \A y \in A : y <= x
    OBVIOUS
  <2>1. IsFiniteSet(A \ {a}) /\ Cardinality(A \ {a}) = n
    <3>1. IsFiniteSet(A \ {a}) /\ Cardinality(A \ {a}) = Cardinality(A) - 1
      BY FS_RemoveElement
    <3> QED
      BY <3>1, Cardinality(A) = n + 1
  <2>2. P(A \ {a})
    BY <1>2, <2>1
  <2>3. CASE A \ {a} = {}
    BY <2>3
  <2>4. CASE A \ {a} # {}
    <3>1. PICK x \in A \ {a} : \A y \in A \ {a} : y <= x
      BY <2>2, <2>4
    <3>2. CASE a <= x
      BY <3>1, <3>2
    <3>3. CASE x <= a
      <4>1. \A y \in A : y <= a
        BY <3>1, <3>3
      <4> QED
        BY <4>1
    <3> QED
      BY <3>2, <3>3, a \in Nat, x \in Nat
  <2> QED
    BY <2>3, <2>4
<1>3. Nat \subseteq N
  <2> HIDE DEF N
  <2> QED
    BY <1>1, <1>2, Induction
<1>4. Cardinality(S) \in N
  BY <1>3, FS_CardinalityType
<1>5. P(S)
  BY <1>4
<1> QED
  BY <1>5

\* The elements of a concatenation.
LEMMA ConcatElements ==
    ASSUME NEW U, NEW s \in Seq(U), NEW t \in Seq(U)
    PROVE  /\ s \o t \in Seq(U)
           /\ Len(s) \in Nat /\ Len(t) \in Nat /\ Len(s \o t) = Len(s) + Len(t)
           /\ DOMAIN (s \o t) = 1..(Len(s) + Len(t))
           /\ DOMAIN s = 1..Len(s) /\ DOMAIN t = 1..Len(t)
           /\ \A k \in 1..Len(s) : (s \o t)[k] = s[k]
           /\ \A k \in 1..Len(t) : (s \o t)[Len(s) + k] = t[k]
<1>1. s \o t \in Seq(U) /\ Len(s \o t) = Len(s) + Len(t)
  OBVIOUS
<1>2. \A k \in 1..Len(s) : (s \o t)[k] = s[k]
  OBVIOUS
<1>3. \A k \in 1..Len(t) : (s \o t)[Len(s) + k] = t[k]
  OBVIOUS
<1> QED
  BY <1>1, <1>2, <1>3

\* A concatenation has the elements of its parts.
LEMMA ConcatRange ==
    ASSUME NEW U, NEW s \in Seq(U), NEW t \in Seq(U)
    PROVE  Range(s \o t) = Range(s) \cup Range(t)
<1> DEFINE st == s \o t
<1>1. /\ Len(s) \in Nat /\ Len(t) \in Nat
      /\ DOMAIN s = 1..Len(s) /\ DOMAIN t = 1..Len(t)
      /\ DOMAIN st = 1..(Len(s) + Len(t))
      /\ \A k \in 1..Len(s) : st[k] = s[k]
      /\ \A k \in 1..Len(t) : st[Len(s) + k] = t[k]
  BY ConcatElements
<1> HIDE DEF st
<1>2. ASSUME NEW k \in DOMAIN s
      PROVE  s[k] \in Range(st)
  <2>1. k \in DOMAIN st /\ st[k] = s[k]
    BY <1>1
  <2> QED
    BY <2>1 DEF Range
<1>3. ASSUME NEW k \in DOMAIN t
      PROVE  t[k] \in Range(st)
  <2>1. Len(s) + k \in DOMAIN st /\ st[Len(s) + k] = t[k]
    BY <1>1
  <2> QED
    BY <2>1 DEF Range
<1>4. ASSUME NEW j \in DOMAIN st
      PROVE  st[j] \in Range(s) \cup Range(t)
  <2>1. CASE j <= Len(s)
    BY <1>1, <2>1 DEF Range
  <2>2. CASE ~ (j <= Len(s))
    <3>1. j - Len(s) \in DOMAIN t /\ Len(s) + (j - Len(s)) = j
      BY <1>1, <2>2
    <3>2. st[j] = t[j - Len(s)]
      BY <1>1, <3>1
    <3> QED
      BY <3>1, <3>2 DEF Range
  <2> QED
    BY <2>1, <2>2
<1>5. Range(st) \subseteq Range(s) \cup Range(t)
  BY <1>4 DEF Range
<1>6. Range(s) \subseteq Range(st) /\ Range(t) \subseteq Range(st)
  BY <1>2, <1>3 DEF Range
<1> QED
  BY <1>5, <1>6 DEF st

----------------------------------------------------------------------------
(* Flattening *)

\* The recursion in FlattenSeq is well founded.
LEMMA FlattenDefined ==
    ASSUME NEW ss, NEW n \in Nat
    PROVE  \E f : f = [i \in 1..n |-> IF i = 1 THEN ss[i] ELSE f[i - 1] \o ss[i]]
<1> DEFINE Value(f, i) == IF i = 1 THEN ss[i] ELSE f[i - 1] \o ss[i]
           Solves(f, m) == f = [i \in 1..m |-> Value(f, i)]
           S == {m \in Nat : \E f : Solves(f, m)}
<1>1. 0 \in S
  <2>1. Solves([i \in 1..0 |-> i], 0)
    OBVIOUS
  <2> QED
    BY <2>1
<1>2. ASSUME NEW m \in Nat, m \in S
      PROVE  m + 1 \in S
  <2>1. PICK f : Solves(f, m)
    BY <1>2
  <2> DEFINE g == [i \in 1..(m + 1) |-> IF i <= m THEN f[i] ELSE Value(f, i)]
  <2>2. \A i \in 1..m : f[i] = Value(f, i)
    BY <2>1
  <2>3. ASSUME NEW i \in 1..(m + 1)
        PROVE  g[i] = Value(g, i)
    <3>1. g[i] = Value(f, i)
      <4> HIDE DEF Value
      <4>1. CASE i \in 1..m
        BY <4>1, <2>2
      <4>2. CASE i = m + 1
        BY <4>2
      <4> QED
        BY <4>1, <4>2
    <3>2. i # 1 => g[i - 1] = f[i - 1]
      OBVIOUS
    <3> HIDE DEF g
    <3> QED
      BY <3>1, <3>2
  <2>4. Solves(g, m + 1)
    <3>1. g = [i \in 1..(m + 1) |-> g[i]]
      OBVIOUS
    <3> HIDE DEF g, Value
    <3> QED
      BY <3>1, <2>3
  <2>5. \E h : Solves(h, m + 1)
    <3> HIDE DEF Solves, g
    <3> QED
      BY <2>4
  <2> HIDE DEF Solves
  <2> QED
    BY <2>5
<1>3. n \in S
  <2> HIDE DEF S
  <2> QED
    BY <1>1, <1>2, Induction
<1>4. \E f : Solves(f, n)
  <2> HIDE DEF Solves
  <2> QED
    BY <1>3
<1> QED
  BY <1>4

\* The prefixes of the flattening, as the recursion builds them.
Flattens(f, ss) ==
    /\ f[1] = ss[1]
    /\ \A i \in 1..(Len(ss) - 1) : f[i + 1] = f[i] \o ss[i + 1]

\* The flattened prefixes of a sequence, the last of which is the whole.
LEMMA FlattenPrefixes ==
    ASSUME NEW U, NEW ss \in Seq(U), ss # << >>
    PROVE  \E f : Flattens(f, ss) /\ FlattenSeq(ss) = f[Len(ss)]
<1> DEFINE F == CHOOSE f : f = [i \in 1..Len(ss) |->
                                    IF i = 1 THEN ss[i] ELSE f[i - 1] \o ss[i]]
<1>1. F = [i \in 1..Len(ss) |-> IF i = 1 THEN ss[i] ELSE F[i - 1] \o ss[i]]
  BY Len(ss) \in Nat, FlattenDefined
<1>2. FlattenSeq(ss) = F[Len(ss)]
  BY DEF FlattenSeq
<1>3. Flattens(F, ss)
  <2> HIDE DEF F
  <2>1. Len(ss) \in Nat /\ Len(ss) # 0
    OBVIOUS
  <2>2. F[1] = ss[1]
    BY <1>1, <2>1
  <2>3. ASSUME NEW i \in 1..(Len(ss) - 1)
        PROVE  F[i + 1] = F[i] \o ss[i + 1]
    <3>1. i + 1 \in 1..Len(ss) /\ i + 1 # 1 /\ (i + 1) - 1 = i
      BY <2>1
    <3>2. F[i + 1] = IF i + 1 = 1 THEN ss[i + 1] ELSE F[(i + 1) - 1] \o ss[i + 1]
      BY <1>1, <3>1
    <3> QED
      BY <3>1, <3>2
  <2> QED
    BY <2>2, <2>3 DEF Flattens
<1> HIDE DEF F
<1> QED
  BY <1>2, <1>3

\* What is flattened is a sequence over the same elements.
LEMMA FlattenType ==
    ASSUME NEW U, NEW ss \in Seq(Seq(U))
    PROVE  FlattenSeq(ss) \in Seq(U)
<1>1. CASE ss = << >>
  BY <1>1 DEF FlattenSeq
<1>2. CASE ss # << >>
  <2>1. PICK f : Flattens(f, ss) /\ FlattenSeq(ss) = f[Len(ss)]
    BY <1>2, FlattenPrefixes
  <2> DEFINE S == {m \in Nat : m \in 1..Len(ss) => f[m] \in Seq(U)}
  <2>2. ASSUME NEW m \in Nat, m \in S
        PROVE  m + 1 \in S
    <3> SUFFICES ASSUME m + 1 \in 1..Len(ss)
                 PROVE  f[m + 1] \in Seq(U)
      OBVIOUS
    <3>1. ss[m + 1] \in Seq(U)
      OBVIOUS
    <3>2. m # 0 => f[m] \in Seq(U)
      BY <2>2
    <3>3. f[m + 1] = IF m = 0 THEN ss[m + 1] ELSE f[m] \o ss[m + 1]
      <4>1. CASE m = 0
        BY <2>1, <4>1 DEF Flattens
      <4>2. CASE m # 0
        <5>1. m \in 1..(Len(ss) - 1)
          BY <4>2
        <5> QED
          BY <2>1, <4>2, <5>1 DEF Flattens
      <4> QED
        BY <4>1, <4>2
    <3> QED
      BY <3>1, <3>2, <3>3
  <2>3. Len(ss) \in S
    <3>1. 0 \in S
      OBVIOUS
    <3> HIDE DEF S
    <3> QED
      BY <3>1, <2>2, Induction, Len(ss) \in Nat
  <2> QED
    BY <2>1, <2>3, <1>2
<1> QED
  BY <1>1, <1>2

\* Flattening is compositional.
LEMMA FlattenAppend ==
    ASSUME NEW U, NEW ss \in Seq(Seq(U)), NEW s \in Seq(U)
    PROVE  FlattenSeq(Append(ss, s)) = FlattenSeq(ss) \o s
<1> DEFINE tt == Append(ss, s)
<1>1. /\ tt \in Seq(Seq(U)) /\ tt # << >> /\ Len(tt) = Len(ss) + 1
      /\ tt[Len(ss) + 1] = s
      /\ \A i \in 1..Len(ss) : tt[i] = ss[i]
  <2>1. s \in Seq(U) /\ ss \in Seq(Seq(U))
    OBVIOUS
  <2> DEFINE V == Seq(U)
  <2> HIDE DEF V
  <2>2. s \in V /\ ss \in Seq(V)
    BY <2>1 DEF V
  <2>3. tt \in Seq(V) /\ tt # << >> /\ Len(tt) = Len(ss) + 1
    BY <2>2
  <2>4. tt[Len(ss) + 1] = s /\ \A i \in 1..Len(ss) : tt[i] = ss[i]
    BY <2>2
  <2> QED
    BY <2>3, <2>4 DEF V
<1> HIDE DEF tt
<1>2. PICK g : Flattens(g, tt) /\ FlattenSeq(tt) = g[Len(tt)]
  BY <1>1, FlattenPrefixes
<1>3. CASE ss = << >>
  <2>1. FlattenSeq(tt) = s
    BY <1>1, <1>2, <1>3 DEF Flattens
  <2>2. FlattenSeq(ss) = << >>
    BY <1>3 DEF FlattenSeq
  <2> QED
    BY <2>1, <2>2 DEF tt
<1>4. CASE ss # << >>
  <2>1. PICK f : Flattens(f, ss) /\ FlattenSeq(ss) = f[Len(ss)]
    BY <1>4, FlattenPrefixes
  <2> DEFINE S == {m \in Nat : m \in 1..Len(ss) => g[m] = f[m]}
  <2>2. ASSUME NEW m \in Nat, m \in S
        PROVE  m + 1 \in S
    <3> SUFFICES ASSUME m + 1 \in 1..Len(ss)
                 PROVE  g[m + 1] = f[m + 1]
      OBVIOUS
    <3>1. m # 0 => g[m] = f[m]
      BY <2>2
    <3>2. f[m + 1] = IF m = 0 THEN ss[m + 1] ELSE f[m] \o ss[m + 1]
      <4>1. CASE m = 0
        BY <2>1, <4>1 DEF Flattens
      <4>2. CASE m # 0
        <5>1. m \in 1..(Len(ss) - 1)
          BY <4>2
        <5> QED
          BY <2>1, <4>2, <5>1 DEF Flattens
      <4> QED
        BY <4>1, <4>2
    <3>3. g[m + 1] = IF m = 0 THEN tt[m + 1] ELSE g[m] \o tt[m + 1]
      <4>1. CASE m = 0
        BY <1>1, <1>2, <4>1 DEF Flattens
      <4>2. CASE m # 0
        <5>1. m \in 1..(Len(tt) - 1)
          BY <4>2, <1>1
        <5> QED
          BY <1>1, <1>2, <4>2, <5>1 DEF Flattens
      <4> QED
        BY <4>1, <4>2
    <3> QED
      BY <1>1, <3>1, <3>2, <3>3
  <2>3. Len(ss) \in S
    <3>1. 0 \in S
      OBVIOUS
    <3> HIDE DEF S
    <3> QED
      BY <3>1, <2>2, Induction, Len(ss) \in Nat
  <2>4. g[Len(ss)] = f[Len(ss)]
    BY <2>3, <1>4
  <2>5. g[Len(ss) + 1] = g[Len(ss)] \o s
    BY <1>1, <1>2, <1>4, Len(ss) \in 1..(Len(tt) - 1) DEF Flattens
  <2> QED
    BY <2>1, <2>4, <2>5, <1>1, <1>2 DEF tt
<1> QED
  BY <1>3, <1>4

\* Flattening neither loses nor makes up an element.
LEMMA FlattenRange ==
    ASSUME NEW U, NEW ss \in Seq(Seq(U))
    PROVE  Range(FlattenSeq(ss)) = UNION {Range(ss[i]) : i \in DOMAIN ss}
<1>1. CASE ss = << >>
  BY <1>1 DEF FlattenSeq, Range
<1>2. CASE ss # << >>
  <2>1. PICK f : Flattens(f, ss) /\ FlattenSeq(ss) = f[Len(ss)]
    BY <1>2, FlattenPrefixes
  <2> DEFINE Upto(m) == UNION {Range(ss[i]) : i \in 1..m}
             S == {m \in Nat : m \in 1..Len(ss) =>
                      f[m] \in Seq(U) /\ Range(f[m]) = Upto(m)}
  <2>2. ASSUME NEW m \in Nat, m \in S
        PROVE  m + 1 \in S
    <3> SUFFICES ASSUME m + 1 \in 1..Len(ss)
                 PROVE  f[m + 1] \in Seq(U) /\ Range(f[m + 1]) = Upto(m + 1)
      OBVIOUS
    <3>1. ss[m + 1] \in Seq(U)
      OBVIOUS
    <3>2. Upto(m + 1) = Upto(m) \cup Range(ss[m + 1])
      <4>1. 1..(m + 1) = 1..m \cup {m + 1}
        OBVIOUS
      <4> QED
        BY <4>1
    <3> HIDE DEF Upto
    <3>3. CASE m = 0
      <4>1. f[m + 1] = ss[m + 1]
        BY <2>1, <3>3 DEF Flattens
      <4>2. Upto(m) = {}
        BY <3>3 DEF Upto
      <4> QED
        BY <3>1, <3>2, <4>1, <4>2
    <3>4. CASE m # 0
      <4>1. m \in 1..(Len(ss) - 1)
        BY <3>4
      <4>2. f[m + 1] = f[m] \o ss[m + 1]
        BY <2>1, <4>1 DEF Flattens
      <4>3. f[m] \in Seq(U) /\ Range(f[m]) = Upto(m)
        BY <2>2, <4>1
      <4>4. \A a, b \in Seq(U) : Range(a \o b) = Range(a) \cup Range(b)
        BY ConcatRange
      <4>5. f[m] \o ss[m + 1] \in Seq(U)
        BY <3>1, <4>3
      <4> QED
        BY <3>1, <3>2, <4>2, <4>3, <4>4, <4>5
    <3> QED
      BY <3>3, <3>4
  <2>3. Len(ss) \in S
    <3>1. 0 \in S
      OBVIOUS
    <3> HIDE DEF S
    <3> QED
      BY <2>2, <3>1, Induction, Len(ss) \in Nat
  <2>4. Len(ss) \in 1..Len(ss) /\ DOMAIN ss = 1..Len(ss)
    BY <1>2
  <2> QED
    BY <2>1, <2>3, <2>4
<1> QED
  BY <1>1, <1>2

----------------------------------------------------------------------------
(* Counting *)

\* How often elements of T occur in s.
Count(s, T) == Cardinality({k \in DOMAIN s : s[k] \in T})

\* Occurrences can be counted.
LEMMA CountType ==
    ASSUME NEW U, NEW s \in Seq(U), NEW T
    PROVE  /\ IsFiniteSet({k \in DOMAIN s : s[k] \in T})
           /\ Count(s, T) \in Nat
<1>1. IsFiniteSet(1..Len(s))
  BY FS_Interval, Len(s) \in Nat
<1>2. {k \in DOMAIN s : s[k] \in T} \subseteq 1..Len(s)
  OBVIOUS
<1> QED
  BY <1>1, <1>2, FS_Subset, FS_CardinalityType DEF Count

\* Nothing occurs in the empty sequence.
LEMMA CountEmpty ==
    ASSUME NEW T
    PROVE  Count(<< >>, T) = 0
BY FS_EmptySet DEF Count

\* The occurrences in a concatenation are those in its parts.
LEMMA CountConcat ==
    ASSUME NEW U, NEW s \in Seq(U), NEW t \in Seq(U), NEW T
    PROVE  Count(s \o t, T) = Count(s, T) + Count(t, T)
<1> DEFINE st == s \o t
           A == {k \in DOMAIN s : s[k] \in T}
           B == {k \in DOMAIN t : t[k] \in T}
           C == {Len(s) + k : k \in B}
           AC == {k \in DOMAIN st : st[k] \in T}
<1>1. /\ Len(s) \in Nat /\ Len(t) \in Nat
      /\ DOMAIN s = 1..Len(s) /\ DOMAIN t = 1..Len(t)
      /\ DOMAIN st = 1..(Len(s) + Len(t))
      /\ \A k \in 1..Len(s) : st[k] = s[k]
      /\ \A k \in 1..Len(t) : st[Len(s) + k] = t[k]
  BY ConcatElements
<1>2. IsFiniteSet(A) /\ IsFiniteSet(B)
  BY CountType
<1> HIDE DEF st
<1>3. ExistsBijection(B, C)
  <2> DEFINE g == [k \in B |-> Len(s) + k]
  <2>1. g \in Bijection(B, C)
    BY <1>1 DEF Bijection, Injection, Surjection, IsInjective
  <2> QED
    BY <2>1 DEF ExistsBijection
<1>4. IsFiniteSet(C) /\ Cardinality(C) = Cardinality(B)
  <2> HIDE DEF A, B, C
  <2> QED
    BY <1>2, <1>3, FS_Bijection
<1>5. AC = A \cup C
  <2>1. ASSUME NEW k \in AC PROVE k \in A \cup C
    <3>1. CASE k <= Len(s)
      BY <1>1, <2>1, <3>1
    <3>2. CASE ~ (k <= Len(s))
      <4>1. k - Len(s) \in 1..Len(t) /\ k = Len(s) + (k - Len(s))
        BY <1>1, <2>1, <3>2
      <4>2. k - Len(s) \in B
        BY <1>1, <2>1, <4>1
      <4> QED
        BY <4>1, <4>2
    <3> QED
      BY <3>1, <3>2
  <2>2. ASSUME NEW k \in A PROVE k \in AC
    BY <1>1, <2>2
  <2>3. ASSUME NEW k \in C PROVE k \in AC
    BY <1>1, <2>3
  <2> QED
    BY <2>1, <2>2, <2>3
<1>6. A \cap C = {}
  BY <1>1
<1>7. Cardinality(AC) = Cardinality(A) + Cardinality(C)
  <2> HIDE DEF A, B, C, AC
  <2>1. Cardinality(A) \in Nat /\ Cardinality(C) \in Nat
    BY <1>2, <1>4, FS_CardinalityType
  <2>2. Cardinality(A \cup C) = Cardinality(A) + Cardinality(C) - Cardinality(A \cap C)
    BY <1>2, <1>4, FS_Union
  <2>3. Cardinality(A \cap C) = 0
    BY <1>6, FS_EmptySet
  <2> QED
    BY <1>5, <2>1, <2>2, <2>3
<1> QED
  BY <1>4, <1>7 DEF Count, st

\* One element occurs once or not at all.
LEMMA CountSingle ==
    ASSUME NEW x, NEW T
    PROVE  /\ x \in T => Count(<<x>>, T) = 1
           /\ x \notin T => Count(<<x>>, T) = 0
<1>1. CASE x \in T
  <2>1. {k \in DOMAIN <<x>> : <<x>>[k] \in T} = {1}
    BY <1>1
  <2> QED
    BY <1>1, <2>1, FS_Singleton DEF Count
<1>2. CASE x \notin T
  <2>1. {k \in DOMAIN <<x>> : <<x>>[k] \in T} = {}
    BY <1>2
  <2> QED
    BY <1>2, <2>1, FS_EmptySet DEF Count
<1> QED
  BY <1>1, <1>2

\* An element that is there is counted, and only those that are there.
LEMMA CountPositive ==
    ASSUME NEW U, NEW s \in Seq(U), NEW T
    PROVE  Count(s, T) >= 1 <=> Range(s) \cap T # {}
<1> DEFINE A == {k \in DOMAIN s : s[k] \in T}
<1>1. IsFiniteSet(A) /\ Cardinality(A) \in Nat
  BY CountType DEF Count
<1>2. Cardinality(A) = 0 <=> A = {}
  <2> HIDE DEF A
  <2> QED
    BY <1>1, FS_EmptySet
<1>3. A = {} <=> Range(s) \cap T = {}
  BY DEF Range
<1> QED
  BY <1>1, <1>2, <1>3 DEF Count

----------------------------------------------------------------------------
(* Multiples and quotients *)

\* Multiples of a number grow with the factor.
LEMMA Multiples ==
    ASSUME NEW w \in Nat, NEW i \in Nat, NEW n \in Nat, i <= n
    PROVE  /\ i * w \in Nat /\ n * w \in Nat /\ i * w <= n * w
           /\ (i + 1) * w = i * w + w
<1>1. PICK d \in Nat : n = i + d
  <2>1. n - i \in Nat /\ n = i + (n - i)
    OBVIOUS
  <2> QED
    BY <2>1
<1>2. d * w \in Nat /\ i * w \in Nat
  OBVIOUS
<1>3. (i + d) * w = i * w + d * w
  OBVIOUS
<1>4. (i + 1) * w = i * w + w
  OBVIOUS
<1> QED
  BY <1>1, <1>2, <1>3, <1>4

\* Division with remainder.
LEMMA Division ==
    ASSUME NEW m \in Nat, NEW n \in Nat \ {0}
    PROVE  /\ m \div n \in Nat /\ m % n \in 0..(n - 1)
           /\ n * (m \div n) + (m % n) = m
OBVIOUS

\* The quotient of a multiple is its factor.
LEMMA ExactDivision ==
    ASSUME NEW n \in Nat \ {0}, NEW v \in Nat
    PROVE  (n * v) \div n = v /\ (n * v) % n = 0
<1> DEFINE m == n * v
           w == m \div n
           r == m % n
<1>1. m \in Nat
  OBVIOUS
<1>2. w \in Nat /\ r \in 0..(n - 1) /\ n * w + r = m
  <2> HIDE DEF m
  <2> QED
    BY <1>1, Division
<1>3. m = v * n /\ n * w = w * n
  BY <1>2
<1> HIDE DEF m, w, r
<1>4. ASSUME w < v PROVE FALSE
  <2>1. (w + 1) * n <= v * n /\ (w + 1) * n = w * n + n /\ w * n \in Nat /\ v * n \in Nat
    BY <1>2, <1>4, Multiples
  <2> DEFINE x == w * n
             y == v * n
  <2>2. x + n <= y /\ x + r = y /\ x \in Nat /\ y \in Nat /\ r < n
    BY <1>2, <1>3, <2>1
  <2> HIDE DEF x, y
  <2> QED
    BY <1>2, <2>2
<1>5. ASSUME v < w PROVE FALSE
  <2>1. (v + 1) * n <= w * n /\ (v + 1) * n = v * n + n /\ w * n \in Nat /\ v * n \in Nat
    BY <1>2, <1>5, Multiples
  <2> DEFINE x == w * n
             y == v * n
  <2>2. y + n <= x /\ x + r = y /\ x \in Nat /\ y \in Nat /\ r >= 0
    BY <1>2, <1>3, <2>1
  <2> HIDE DEF x, y
  <2> QED
    BY <1>2, <2>2
<1>6. w = v
  BY <1>2, <1>4, <1>5
<1>7. r = 0
  <2>1. v * n \in Nat /\ v * n + r = v * n
    BY <1>2, <1>3, <1>6
  <2> DEFINE y == v * n
  <2>2. y \in Nat /\ y + r = y
    BY <2>1
  <2> HIDE DEF y
  <2> QED
    BY <1>2, <2>2
<1> QED
  BY <1>6, <1>7 DEF w, r, m

----------------------------------------------------------------------------
(* Sums *)

\* Two sets without a common element.
LEMMA DisjointUnion ==
    ASSUME NEW A, IsFiniteSet(A), NEW B, IsFiniteSet(B), A \cap B = {}
    PROVE  /\ IsFiniteSet(A \cup B)
           /\ Cardinality(A) \in Nat /\ Cardinality(B) \in Nat
           /\ Cardinality(A \cup B) = Cardinality(A) + Cardinality(B)
<1>1. /\ IsFiniteSet(A \cup B)
      /\ Cardinality(A \cup B) = Cardinality(A) + Cardinality(B) - Cardinality(A \cap B)
  BY FS_Union
<1>2. Cardinality(A) \in Nat /\ Cardinality(B) \in Nat /\ Cardinality(A \cap B) = 0
  BY FS_CardinalityType, FS_EmptySet
<1> QED
  BY <1>1, <1>2

\* The recursion of SumFunction, over the subsets of S.
Totals(g, f, S) ==
    g = [s \in SUBSET S |->
            IF s = {} THEN 0 ELSE f[CHOOSE x \in s : TRUE] + g[s \ {CHOOSE x \in s : TRUE}]]

\* The sum is the value at the whole domain of a function over its subsets.
LEMMA SumUnfolds ==
    ASSUME NEW f
    PROVE  SumFunction(f) = (CHOOSE g : Totals(g, f, DOMAIN f))[DOMAIN f]
BY DEF SumFunction, SumFunctionOnSet, FoldFunctionOnSet, MapThenFoldSet, Totals

\* The recursion has no two solutions over a finite set.
LEMMA TotalsUnique ==
    ASSUME NEW f, NEW S, IsFiniteSet(S), NEW g, NEW h, Totals(g, f, S), Totals(h, f, S)
    PROVE  g[S] = h[S]
<1> DEFINE N == {n \in Nat : \A s \in SUBSET S : Cardinality(s) = n => g[s] = h[s]}
<1>1. \A s \in SUBSET S : IsFiniteSet(s) /\ Cardinality(s) \in Nat
  BY FS_Subset, FS_CardinalityType
<1>2. 0 \in N
  <2>1. \A s \in SUBSET S : Cardinality(s) = 0 => s = {}
    BY <1>1, FS_EmptySet
  <2>2. g[{}] = 0 /\ h[{}] = 0
    BY DEF Totals
  <2> QED
    BY <2>1, <2>2
<1>3. ASSUME NEW n \in Nat, n \in N
      PROVE  n + 1 \in N
  <2> SUFFICES ASSUME NEW s \in SUBSET S, Cardinality(s) = n + 1
               PROVE  g[s] = h[s]
    OBVIOUS
  <2> DEFINE x == CHOOSE y \in s : TRUE
  <2>1. s # {} /\ x \in s
    <3>1. s # {}
      BY FS_EmptySet
    <3> QED
      BY <3>1
  <2>2. g[s] = f[x] + g[s \ {x}] /\ h[s] = f[x] + h[s \ {x}]
    BY <2>1 DEF Totals
  <2>3. s \ {x} \in SUBSET S
    OBVIOUS
  <2> HIDE DEF x
  <2>4. Cardinality(s \ {x}) = n
    <3>1. Cardinality(s \ {x}) = Cardinality(s) - 1
      BY <1>1, <2>1, FS_RemoveElement
    <3> QED
      BY <3>1
  <2> QED
    BY <1>3, <2>2, <2>3, <2>4
<1>4. Nat \subseteq N
  <2> HIDE DEF N
  <2> QED
    BY <1>2, <1>3, Induction
<1> QED
  BY <1>1, <1>4

\* The recursion has a solution over a finite set.
LEMMA TotalsExist ==
    ASSUME NEW f, NEW S, IsFiniteSet(S)
    PROVE  \E g : Totals(g, f, S)
<1> DEFINE Small(n) == {s \in SUBSET S : Cardinality(s) <= n}
           Value(g, s) == IF s = {} THEN 0
                          ELSE f[CHOOSE x \in s : TRUE] + g[s \ {CHOOSE x \in s : TRUE}]
           N == {n \in Nat : \E g : g = [s \in Small(n) |-> Value(g, s)]}
<1>1. \A s \in SUBSET S : IsFiniteSet(s) /\ Cardinality(s) \in Nat
  BY FS_Subset, FS_CardinalityType
<1>2. 0 \in N
  <2> DEFINE g == [s \in Small(0) |-> 0]
  <2>1. \A s \in Small(0) : s = {}
    BY <1>1, FS_EmptySet
  <2>2. g = [s \in Small(0) |-> Value(g, s)]
    BY <2>1
  <2> QED
    BY <2>2
<1>3. ASSUME NEW n \in Nat, n \in N
      PROVE  n + 1 \in N
  <2>1. PICK g : g = [s \in Small(n) |-> Value(g, s)]
    BY <1>3
  <2> DEFINE h == [s \in Small(n + 1) |-> Value(g, s)]
  <2>2. ASSUME NEW s \in Small(n + 1), s # {}
        PROVE  s \ {CHOOSE x \in s : TRUE} \in Small(n) \cap Small(n + 1)
    <3> DEFINE x == CHOOSE y \in s : TRUE
    <3>1. x \in s
      BY <2>2
    <3> HIDE DEF x
    <3>2. Cardinality(s \ {x}) = Cardinality(s) - 1
      BY <1>1, <3>1, FS_RemoveElement
    <3>3. s \ {x} \in SUBSET S /\ Cardinality(s \ {x}) \in Nat /\ Cardinality(s) \in Nat
      BY <1>1
    <3>4. Cardinality(s) <= n + 1
      OBVIOUS
    <3>5. s \ {x} \in Small(n) /\ s \ {x} \in Small(n + 1)
      BY <3>2, <3>3, <3>4
    <3> QED
      BY <3>5 DEF x
  <2>3. ASSUME NEW t \in Small(n) \cap Small(n + 1)
        PROVE  h[t] = g[t]
    <3>1. h[t] = Value(g, t)
      OBVIOUS
    <3>2. g[t] = Value(g, t)
      <4> HIDE DEF Value, Small
      <4> QED
        BY <2>1
    <3> QED
      BY <3>1, <3>2
  <2>4. ASSUME NEW s \in Small(n + 1)
        PROVE  Value(g, s) = Value(h, s)
    <3>1. CASE s = {}
      BY <3>1
    <3>2. CASE s # {}
      <4> HIDE DEF h, Small
      <4>1. h[s \ {CHOOSE x \in s : TRUE}] = g[s \ {CHOOSE x \in s : TRUE}]
        BY <2>2, <2>3, <3>2
      <4> QED
        BY <3>2, <4>1
    <3> QED
      BY <3>1, <3>2
  <2>5. h = [s \in Small(n + 1) |-> Value(h, s)]
    <3>1. h = [s \in Small(n + 1) |-> Value(g, s)]
      OBVIOUS
    <3> HIDE DEF h, Small, Value
    <3> QED
      BY <2>4, <3>1
  <2> HIDE DEF h, Small, Value
  <2>6. \E g1 : g1 = [s \in Small(n + 1) |-> Value(g1, s)]
    BY <2>5
  <2> QED
    BY <2>6
<1>4. Nat \subseteq N
  <2> HIDE DEF N
  <2> QED
    BY <1>2, <1>3, Induction
<1>5. Cardinality(S) \in Nat
  BY <1>1
<1>6. Small(Cardinality(S)) = SUBSET S
  BY <1>1, FS_Subset
<1>7. PICK g : g = [s \in Small(Cardinality(S)) |-> Value(g, s)]
  BY <1>4, <1>5
<1>8. g = [s \in SUBSET S |-> Value(g, s)]
  <2> HIDE DEF Small, Value
  <2> QED
    BY <1>6, <1>7
<1> QED
  BY <1>8 DEF Totals

\* A set that counts more than nothing.
LEMMA SomeElement ==
    ASSUME NEW s, NEW n \in Nat, Cardinality(s) = n + 1
    PROVE  s # {}
BY FS_EmptySet

\* A sum whose terms are bounded in terms of those of another one.
LEMMA SumWithin ==
    ASSUME NEW S, IsFiniteSet(S), NEW f, NEW h, DOMAIN f = S, DOMAIN h = S,
           NEW a \in Nat, NEW b \in Nat,
           \A x \in S : f[x] \in Nat /\ h[x] \in Nat /\ f[x] <= a + b * h[x]
    PROVE  /\ SumFunction(f) \in Nat /\ SumFunction(h) \in Nat /\ Cardinality(S) \in Nat
           /\ SumFunction(f) <= a * Cardinality(S) + b * SumFunction(h)
<1> DEFINE F == CHOOSE g : Totals(g, f, S)
           H == CHOOSE g : Totals(g, h, S)
<1>1. Totals(F, f, S) /\ Totals(H, h, S)
  BY TotalsExist
<1>2. SumFunction(f) = F[S] /\ SumFunction(h) = H[S]
  BY SumUnfolds
<1>3. \A s \in SUBSET S : IsFiniteSet(s) /\ Cardinality(s) \in Nat
  BY FS_Subset, FS_CardinalityType
<1> HIDE DEF F, H
<1> DEFINE Holds(s, n) == F[s] \in Nat /\ H[s] \in Nat /\ F[s] <= a * n + b * H[s]
           N == {n \in Nat : \A s \in SUBSET S : Cardinality(s) = n => Holds(s, n)}
<1>4. 0 \in N
  <2>1. \A s \in SUBSET S : Cardinality(s) = 0 => s = {}
    BY <1>3, FS_EmptySet
  <2>2. F[{}] = 0 /\ H[{}] = 0
    BY <1>1 DEF Totals
  <2>3. a * 0 = 0 /\ b * 0 = 0
    OBVIOUS
  <2>4. Holds({}, 0)
    BY <2>2, <2>3
  <2> HIDE DEF Holds
  <2> QED
    BY <2>1, <2>4
<1>5. ASSUME NEW n \in Nat, n \in N
      PROVE  n + 1 \in N
  <2> SUFFICES ASSUME NEW s \in SUBSET S, Cardinality(s) = n + 1
               PROVE  Holds(s, n + 1)
    OBVIOUS
  <2> DEFINE x == CHOOSE y \in s : TRUE
             t == s \ {x}
  <2>1. s # {} /\ x \in s
    <3>1. s # {}
      <4> HIDE DEF N, Holds
      <4> QED
        BY SomeElement
    <3> QED
      BY <3>1
  <2>2. F[s] = f[x] + F[t] /\ H[s] = h[x] + H[t]
    BY <1>1, <2>1 DEF Totals
  <2> HIDE DEF x
  <2>3. Cardinality(t) = n /\ t \in SUBSET S
    <3>1. Cardinality(s \ {x}) = Cardinality(s) - 1
      BY <1>3, <2>1, FS_RemoveElement
    <3> QED
      BY <3>1
  <2>4. F[t] \in Nat /\ H[t] \in Nat /\ F[t] <= a * n + b * H[t]
    BY <1>5, <2>3
  <2>5. f[x] \in Nat /\ h[x] \in Nat /\ f[x] <= a + b * h[x]
    BY <2>1
  <2>6. a * (n + 1) = a * n + a /\ b * (h[x] + H[t]) = b * h[x] + b * H[t]
    <3> HIDE DEF t
    <3> QED
      BY <2>4, <2>5
  <2>7. a * n \in Nat /\ b * h[x] \in Nat /\ b * H[t] \in Nat
    <3> HIDE DEF t
    <3> QED
      BY <2>4, <2>5
  <2> HIDE DEF t
  <2> DEFINE an == a * n
             bh == b * h[x]
             bt == b * H[t]
             fx == f[x]
             ft == F[t]
  <2>8. fx \in Nat /\ ft \in Nat /\ fx <= a + bh /\ ft <= an + bt
    BY <2>4, <2>5
  <2>9. an \in Nat /\ bh \in Nat /\ bt \in Nat
    BY <2>7
  <2>10. F[s] = fx + ft /\ a * (n + 1) = an + a /\ b * H[s] = bh + bt
    BY <2>2, <2>6
  <2>11. H[s] \in Nat
    BY <2>2, <2>4, <2>5
  <2> HIDE DEF an, bh, bt, fx, ft
  <2>12. fx + ft \in Nat /\ fx + ft <= (an + a) + (bh + bt)
    BY <2>8, <2>9
  <2> QED
    BY <2>10, <2>11, <2>12
<1>6. Nat \subseteq N
  <2> HIDE DEF N
  <2> QED
    BY <1>4, <1>5, Induction
<1>7. Cardinality(S) \in Nat /\ S \in SUBSET S
  BY <1>3
<1>8. Holds(S, Cardinality(S))
  <2> HIDE DEF Holds
  <2> QED
    BY <1>6, <1>7
<1> QED
  BY <1>2, <1>7, <1>8

\* Where o takes values in T.
Places(D, o, T) == {n \in D : o[n] \in T}

\* Elements counted value by value are counted once each.
LEMMA CountByValue ==
    ASSUME NEW X, IsFiniteSet(X), NEW K, IsFiniteSet(K), NEW h, NEW f,
           f = [k \in K |-> Cardinality(Places(X, h, {k}))]
    PROVE  SumFunction(f) = Cardinality(Places(X, h, K))
<1> DEFINE Among(s) == Places(X, h, s)
           g == [s \in SUBSET K |-> Cardinality(Among(s))]
           c == CHOOSE iter : Totals(iter, f, K)
<1>1. \A s : IsFiniteSet(Among(s)) /\ Cardinality(Among(s)) \in Nat
  <2>1. \A s : Among(s) \subseteq X
    BY DEF Places
  <2> HIDE DEF Among
  <2> QED
    BY <2>1, FS_Subset, FS_CardinalityType
<1>2. Totals(g, f, K)
  <2>1. ASSUME NEW s \in SUBSET K
        PROVE  g[s] = IF s = {} THEN 0
                      ELSE f[CHOOSE x \in s : TRUE] + g[s \ {CHOOSE x \in s : TRUE}]
    <3>1. CASE s = {}
      <4>1. Among(s) = {}
        BY <3>1 DEF Places
      <4>2. Cardinality(Among(s)) = 0
        BY <4>1, FS_EmptySet
      <4> QED
        BY <3>1, <4>2
    <3>2. CASE s # {}
      <4> DEFINE y == CHOOSE x \in s : TRUE
      <4>1. y \in s
        BY <3>2
      <4> HIDE DEF y
      <4>2. Among(s) = Among(s \ {y}) \cup Among({y}) /\ Among(s \ {y}) \cap Among({y}) = {}
        BY <4>1 DEF Places
      <4>3. f[y] = Cardinality(Among({y}))
        <5> HIDE DEF Among
        <5> QED
          BY <4>1 DEF Among
      <4>4. Cardinality(Among(s)) = Cardinality(Among(s \ {y})) + Cardinality(Among({y}))
        <5> HIDE DEF Among
        <5>1. Cardinality(Among(s \ {y}) \cup Among({y})) =
                  Cardinality(Among(s \ {y})) + Cardinality(Among({y}))
          BY <1>1, <4>2, DisjointUnion
        <5> QED
          BY <4>2, <5>1
      <4>5. g[s] = f[y] + g[s \ {y}]
        <5>1. s \ {y} \in SUBSET K
          OBVIOUS
        <5> HIDE DEF Among
        <5> QED
          BY <1>1, <4>3, <4>4, <5>1
      <4> HIDE DEF g
      <4> QED
        BY <3>2, <4>5 DEF y
    <3> QED
      BY <3>1, <3>2
  <2> HIDE DEF Among
  <2>2. g = [s \in SUBSET K |-> g[s]]
    OBVIOUS
  <2> HIDE DEF g
  <2> QED
    BY <2>1, <2>2 DEF Totals
<1>3. Totals(c, f, K)
  <2> HIDE DEF g
  <2> QED
    BY <1>2
<1>4. c[K] = g[K]
  <2> HIDE DEF c, g
  <2> QED
    BY <1>2, <1>3, TotalsUnique
<1>5. SumFunction(f) = c[K]
  BY SumUnfolds
<1> QED
  BY <1>4, <1>5

----------------------------------------------------------------------------
(* Ranking *)

\* R is a strict total order of S; what is below an element.
StrictOrder(S, R) ==
    /\ \A i \in S : <<i, i>> \notin R
    /\ \A i, j, k \in S : <<i, j>> \in R /\ <<j, k>> \in R => <<i, k>> \in R
    /\ \A i, j \in S : i = j \/ <<i, j>> \in R \/ <<j, i>> \in R

Below(S, R, i) == {j \in S : <<j, i>> \in R}

\* A higher element has more below it.
LEMMA HigherHasMoreBelow ==
    ASSUME NEW S, IsFiniteSet(S), NEW R, StrictOrder(S, R), NEW i \in S, NEW j \in S
    PROVE  /\ Cardinality(Below(S, R, i)) \in 0..(Cardinality(S) - 1)
           /\ <<i, j>> \in R => Cardinality(Below(S, R, i)) < Cardinality(Below(S, R, j))
<1> DEFINE A == Below(S, R, i)
           B == Below(S, R, j)
<1>1. A \subseteq S \ {i} /\ B \subseteq S \ {j}
  BY DEF StrictOrder, Below
<1>2. <<i, j>> \in R => A \subseteq B \ {i} /\ i \in B
  BY DEF StrictOrder, Below
<1> HIDE DEF A, B
<1>3. IsFiniteSet(S \ {i}) /\ Cardinality(S \ {i}) = Cardinality(S) - 1 /\ Cardinality(S) \in Nat
  BY FS_RemoveElement, FS_CardinalityType
<1>4. IsFiniteSet(A) /\ Cardinality(A) \in Nat /\ Cardinality(A) <= Cardinality(S) - 1
  BY <1>1, <1>3, FS_Subset, FS_CardinalityType
<1>5. IsFiniteSet(B) /\ Cardinality(B) \in Nat
  <2>1. B \subseteq S
    BY <1>1
  <2> QED
    BY <2>1, FS_Subset, FS_CardinalityType
<1>6. ASSUME <<i, j>> \in R
      PROVE  Cardinality(A) < Cardinality(B)
  <2>1. IsFiniteSet(B \ {i}) /\ Cardinality(B \ {i}) = Cardinality(B) - 1
    BY <1>2, <1>5, <1>6, FS_RemoveElement
  <2>2. Cardinality(A) <= Cardinality(B \ {i})
    BY <1>2, <1>6, <2>1, FS_Subset
  <2> QED
    BY <1>4, <1>5, <2>1, <2>2
<1> QED
  BY <1>3, <1>4, <1>6 DEF A, B

\* Every rank is taken.
LEMMA RankIsTaken ==
    ASSUME NEW S, IsFiniteSet(S), NEW R, StrictOrder(S, R), NEW n \in 1..Cardinality(S)
    PROVE  \E i \in S : Cardinality(Below(S, R, i)) = n - 1
<1> DEFINE N == Cardinality(S)
           f == [i \in S |-> Cardinality(Below(S, R, i)) + 1]
<1>1. N \in Nat
  BY FS_CardinalityType
<1>2. \A i \in S : f[i] \in 1..N
  <2>1. \A i \in S : Cardinality(Below(S, R, i)) \in 0..(N - 1)
    BY HigherHasMoreBelow
  <2> QED
    BY <1>1, <2>1
<1>3. ASSUME NEW i \in S, NEW j \in S, f[i] = f[j]
      PROVE  i = j
  <2>1. /\ Cardinality(Below(S, R, i)) \in 0..(N - 1)
        /\ Cardinality(Below(S, R, j)) \in 0..(N - 1)
        /\ <<i, j>> \in R => Cardinality(Below(S, R, i)) < Cardinality(Below(S, R, j))
        /\ <<j, i>> \in R => Cardinality(Below(S, R, j)) < Cardinality(Below(S, R, i))
    BY HigherHasMoreBelow
  <2>2. i = j \/ <<i, j>> \in R \/ <<j, i>> \in R
    BY DEF StrictOrder
  <2> QED
    BY <1>1, <1>3, <2>1, <2>2
<1>4. f \in Injection(S, 1..N)
  <2>1. f \in [S -> 1..N]
    BY <1>2
  <2> HIDE DEF f, N
  <2> QED
    BY <1>3, <2>1 DEF Injection, IsInjective
<1>5. f \in Surjection(S, 1..N)
  <2>1. IsFiniteSet(1..N) /\ Cardinality(1..N) = Cardinality(S)
    BY <1>1, FS_Interval
  <2> HIDE DEF f, N
  <2> QED
    BY <1>4, <2>1, FS_Injection
<1>6. PICK i \in S : f[i] = n
  <2> HIDE DEF f
  <2> QED
    BY <1>5 DEF Surjection
<1>7. Cardinality(Below(S, R, i)) \in 0..(N - 1) /\ Cardinality(Below(S, R, i)) + 1 = n
  BY <1>6, HigherHasMoreBelow
<1> QED
  BY <1>1, <1>7

\* The elements by their ranks: each one once, the lower ones first.
LEMMA RankedOnce ==
    ASSUME NEW S, IsFiniteSet(S), NEW R, StrictOrder(S, R), NEW o \in [1..Cardinality(S) -> S],
           \A n \in 1..Cardinality(S) : Cardinality(Below(S, R, o[n])) = n - 1
    PROVE  /\ o \in Bijection(1..Cardinality(S), S)
           /\ \A m, n \in 1..Cardinality(S) : m < n => <<o[m], o[n]>> \in R
<1> DEFINE N == Cardinality(S)
<1>1. N \in Nat
  BY FS_CardinalityType
<1>2. ASSUME NEW m \in 1..N, NEW n \in 1..N, m < n
      PROVE  <<o[m], o[n]>> \in R
  <2>1. o[m] \in S /\ o[n] \in S
    OBVIOUS
  <2>2. Cardinality(Below(S, R, o[m])) = m - 1 /\ Cardinality(Below(S, R, o[n])) = n - 1
    OBVIOUS
  <2>3. o[m] # o[n]
    BY <1>1, <1>2, <2>2
  <2>4. <<o[n], o[m]>> \notin R
    BY <1>1, <1>2, <2>1, <2>2, HigherHasMoreBelow
  <2> QED
    BY <2>1, <2>3, <2>4 DEF StrictOrder
<1>3. ASSUME NEW m \in 1..N, NEW n \in 1..N, o[m] = o[n]
      PROVE  m = n
  BY <1>1, <1>3
<1>4. o \in Injection(1..N, S)
  BY <1>3 DEF Injection, IsInjective
<1>5. o \in Surjection(1..N, S)
  <2>1. Cardinality(1..N) = N
    BY <1>1, FS_Interval
  <2> QED
    BY <1>4, <2>1, FS_Injection
<1> QED
  BY <1>2, <1>4, <1>5 DEF Bijection

\* A set of numbers that has everything below its elements is an interval.
LEMMA DownClosedIsInterval ==
    ASSUME NEW N \in Nat, NEW A \in SUBSET (1..N),
           \A m, n \in 1..N : m < n /\ n \in A => m \in A
    PROVE  A = 1..Cardinality(A)
<1>1. IsFiniteSet(A)
  <2>1. IsFiniteSet(1..N)
    BY FS_Interval
  <2> QED
    BY <2>1, FS_Subset
<1>2. CASE A = {}
  <2>1. Cardinality(A) = 0
    BY <1>2, FS_EmptySet
  <2> QED
    BY <1>2, <2>1
<1>3. CASE A # {}
  <2>1. A \in SUBSET Nat
    OBVIOUS
  <2>2. PICK x \in A : \A y \in A : y <= x
    BY <1>1, <1>3, <2>1, GreatestNumber
  <2>3. x \in 1..N
    OBVIOUS
  <2>4. A = 1..x
    <3>1. ASSUME NEW y \in A PROVE y \in 1..x
      BY <2>2, <2>3
    <3>2. ASSUME NEW y \in 1..x PROVE y \in A
      BY <2>3, y < x \/ y = x
    <3> QED
      BY <3>1, <3>2
  <2>5. Cardinality(1..x) = x
    BY <2>3, FS_Interval
  <2> QED
    BY <2>4, <2>5
<1> QED
  BY <1>2, <1>3

\* Listed without repetitions, a set has as many places as elements.
LEMMA ListedOnce ==
    ASSUME NEW D, IsFiniteSet(D), NEW S, NEW o \in Bijection(D, S), NEW T, T \subseteq S
    PROVE  /\ IsFiniteSet(T)
           /\ Cardinality(T) \in Nat
           /\ Cardinality(Places(D, o, T)) = Cardinality(T)
<1> DEFINE P == {n \in D : o[n] \in T}
           f == [n \in P |-> o[n]]
<1>1. /\ o \in [D -> S]
      /\ \A m, n \in D : o[m] = o[n] => m = n
      /\ \A x \in S : \E n \in D : o[n] = x
  BY DEF Bijection, Injection, Surjection, IsInjective
<1>2. f \in Bijection(P, T)
  <2>1. f \in [P -> T]
    BY <1>1
  <2>2. \A m, n \in P : f[m] = f[n] => m = n
    BY <1>1
  <2>3. ASSUME NEW x \in T
        PROVE  \E n \in P : f[n] = x
    <3>1. PICK n \in D : o[n] = x
      BY <1>1
    <3>2. n \in P /\ f[n] = x
      BY <3>1
    <3> QED
      BY <3>2
  <2> HIDE DEF f, P
  <2> QED
    BY <2>1, <2>2, <2>3 DEF Bijection, Injection, Surjection, IsInjective
<1>3. IsFiniteSet(P)
  BY FS_Subset
<1>4. ExistsBijection(P, T)
  <2> HIDE DEF f, P
  <2> QED
    BY <1>2 DEF ExistsBijection
<1> HIDE DEF P
<1>5. IsFiniteSet(T) /\ Cardinality(T) = Cardinality(P)
  BY <1>3, <1>4, FS_Bijection
<1> QED
  BY <1>5, FS_CardinalityType DEF P, Places
=============================================================================
