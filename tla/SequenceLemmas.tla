--------------------------- MODULE SequenceLemmas ---------------------------
(***************************************************************************)
(* Induction over numbers, sequences whose elements are of no particular   *)
(* set, and sums.                                                          *)
(***************************************************************************)
EXTENDS SequencesExt, FiniteSetTheorems, WellFoundedInduction, TLAPS

-----------------------------------------------------------------------------
(***************************************************************************)
(* Least elements, and induction stated with a set in place of a property. *)
(***************************************************************************)

\* A set of naturals has a least element: what SelectInSeq() selects by.
LEMMA Least ==
  ASSUME NEW S, S \subseteq Nat, S # {}
  PROVE  Min(S) \in S /\ \A i \in S : Min(S) <= i
  <1>1. PICK m \in S : \A i \in S : ~(<<i, m>> \in OpToRel(<, Nat))
    BY NatLessThanWellFounded, WFMin
  <1>2. \A i \in S : ~(i < m)
    BY <1>1 DEF OpToRel
  <1>3. \A i \in S : m <= i
    BY <1>2
  <1> QED BY <1>3 DEF Min

LEMMA Greatest ==
  ASSUME NEW n \in Nat, NEW S, S \subseteq 0 .. n, S # {}
  PROVE  Max(S) \in S /\ \A i \in S : i <= Max(S)
  <1> DEFINE T == {n - i : i \in S}
  <1>1. T \subseteq Nat /\ T # {}
    <2>1. \A i \in S : n - i \in Nat
      OBVIOUS
    <2> QED BY <2>1
  <1>2. Min(T) \in T /\ \A i \in T : Min(T) <= i
    <2> HIDE DEF T
    <2> QED BY <1>1, Least
  <1>3. PICK m \in S : Min(T) = n - m
    BY <1>2
  <1>4. \A i \in S : i <= m
    <2> SUFFICES ASSUME NEW i \in S PROVE i <= m
      OBVIOUS
    <2>1. n - i \in T /\ n - m <= n - i
      BY <1>2, <1>3
    <2> QED BY <2>1
  <1> QED BY <1>4 DEF Max

LEMMA InductionUpTo ==
  ASSUME NEW k \in Nat, NEW S, 0 \in S,
         \A n \in 0 .. k : n \in S /\ n < k => n + 1 \in S
  PROVE  0 .. k \subseteq S
  <1> DEFINE C == (0 .. k) \ S
  <1> SUFFICES ASSUME C # {} PROVE FALSE
    OBVIOUS
  <1>1. Min(C) \in C /\ \A i \in C : Min(C) <= i
    <2>1. C \subseteq Nat
      OBVIOUS
    <2> HIDE DEF C
    <2> QED BY <2>1, Least
  <1> DEFINE m == Min(C)
  <1> HIDE DEF m
  <1>2. m \in 0 .. k /\ m \notin S /\ m # 0 /\ \A i \in C : m <= i
    BY <1>1 DEF m
  <1>3. m - 1 \in 0 .. k /\ m - 1 < k /\ m - 1 \in S
    BY <1>2
  <1>4. (m - 1) + 1 \in S
    BY <1>3
  <1> QED BY <1>2, <1>4

LEMMA InductionOnSubsets ==
  ASSUME NEW S, IsFiniteSet(S), NEW P, {} \in P,
         \A s \in SUBSET S : \A x \in S \ s : s \in P => s \union {x} \in P
  PROVE  S \in P
  <1> DEFINE K == Cardinality(S)
             Good == {k \in 0 .. K : \A s \in SUBSET S : Cardinality(s) <= k => s \in P}
  <1>1. K \in Nat /\ \A s \in SUBSET S : IsFiniteSet(s) /\ Cardinality(s) \in Nat
          /\ Cardinality(s) <= K
    BY FS_Subset, FS_CardinalityType
  <1>2. 0 \in Good
    <2>1. \A s \in SUBSET S : Cardinality(s) <= 0 => s = {}
      BY <1>1, FS_EmptySet
    <2>2. 0 \in 0 .. K
      BY <1>1
    <2> HIDE DEF K
    <2> QED BY <2>1, <2>2
  <1>3. ASSUME NEW k \in 0 .. K, k \in Good, k < K
        PROVE  k + 1 \in Good
    <2> SUFFICES ASSUME NEW s \in SUBSET S, Cardinality(s) <= k + 1, s # {}
                 PROVE  s \in P
      <3>1. k + 1 \in 0 .. K
        BY <1>1, <1>3
      <3> HIDE DEF K
      <3> QED BY <3>1
    <2>1. PICK x \in s : TRUE
      OBVIOUS
    <2> DEFINE t == s \ {x}
    <2>2. t \in SUBSET S /\ x \in S \ t /\ s = t \union {x}
      OBVIOUS
    <2>3. Cardinality(t) = Cardinality(s) - 1
      BY <1>1, FS_RemoveElement
    <2>4. t \in P
      BY <1>1, <1>3, <2>2, <2>3
    <2> HIDE DEF t
    <2> QED BY <2>2, <2>4
  <1>4. K \in Good
    <2> HIDE DEF Good
    <2> QED BY <1>1, <1>2, <1>3, InductionUpTo
  <1> QED BY <1>1, <1>4

-----------------------------------------------------------------------------
(***************************************************************************)
(* Sequences whose elements are of no particular set.                      *)
(***************************************************************************)

IsSequence(s) == Len(s) \in Nat /\ s = [i \in 1 .. Len(s) |-> s[i]]

LEMMA SequenceOf ==
  ASSUME NEW S, NEW s \in Seq(S)
  PROVE  IsSequence(s) /\ \A i \in 1 .. Len(s) : s[i] \in S
  BY DEF IsSequence

LEMMA SequenceIn ==
  ASSUME NEW s, IsSequence(s), NEW S, \A i \in 1 .. Len(s) : s[i] \in S
  PROVE  s \in Seq(S)
  <1>1. [i \in 1 .. Len(s) |-> s[i]] \in Seq(S)
    BY DEF IsSequence
  <1> QED BY <1>1 DEF IsSequence

LEMMA SequenceMade ==
  ASSUME NEW n \in Nat, NEW s, DOMAIN s = 1 .. n, s = [i \in DOMAIN s |-> s[i]]
  PROVE  IsSequence(s) /\ Len(s) = n
  <1>1. s \in Seq({s[i] : i \in 1 .. n})
    <2>1. [i \in 1 .. n |-> s[i]] \in Seq({s[i] : i \in 1 .. n})
      OBVIOUS
    <2> QED BY <2>1
  <1> QED BY <1>1 DEF IsSequence

LEMMA SequenceDomain ==
  ASSUME NEW s, IsSequence(s)
  PROVE  DOMAIN s = 1 .. Len(s)
  BY DEF IsSequence

LEMMA EmptySequence == IsSequence(<<>>) /\ Len(<<>>) = 0
  <1>1. <<>> \in Seq({}) /\ Len(<<>>) = 0
    OBVIOUS
  <1> QED BY <1>1, SequenceOf

LEMMA IsEmpty ==
  ASSUME NEW s, IsSequence(s), Len(s) = 0
  PROVE  s = <<>>
  <1>1. s \in Seq({}) /\ <<>> \in Seq({})
    BY SequenceIn
  <1> QED BY <1>1

LEMMA AppendIs ==
  ASSUME NEW s, IsSequence(s), NEW x
  PROVE  /\ IsSequence(Append(s, x))
         /\ Len(Append(s, x)) = Len(s) + 1
         /\ \A i \in 1 .. Len(s) : Append(s, x)[i] = s[i]
         /\ Append(s, x)[Len(s) + 1] = x
  <1> DEFINE S == {s[i] : i \in 1 .. Len(s)} \union {x}
  <1>1. s \in Seq(S) /\ x \in S
    BY SequenceIn
  <1> HIDE DEF S
  <1>2. /\ Append(s, x) \in Seq(S)
        /\ Len(Append(s, x)) = Len(s) + 1
        /\ \A i \in 1 .. Len(s) : Append(s, x)[i] = s[i]
        /\ Append(s, x)[Len(s) + 1] = x
    BY <1>1
  <1> QED BY <1>2, SequenceOf

LEMMA CatIs ==
  ASSUME NEW s, IsSequence(s), NEW t, IsSequence(t)
  PROVE  /\ IsSequence(s \o t)
         /\ Len(s \o t) = Len(s) + Len(t)
         /\ \A i \in 1 .. Len(s) : (s \o t)[i] = s[i]
         /\ \A i \in 1 .. Len(t) : (s \o t)[Len(s) + i] = t[i]
  <1> DEFINE S == {s[i] : i \in 1 .. Len(s)} \union {t[i] : i \in 1 .. Len(t)}
  <1>1. s \in Seq(S) /\ t \in Seq(S)
    BY SequenceIn
  <1> HIDE DEF S
  <1>2. /\ s \o t \in Seq(S)
        /\ Len(s \o t) = Len(s) + Len(t)
        /\ \A i \in 1 .. Len(s) : (s \o t)[i] = s[i]
        /\ \A i \in 1 .. Len(t) : (s \o t)[Len(s) + i] = t[i]
    BY <1>1
  <1> QED BY <1>2, SequenceOf

LEMMA PrefixIs ==
  ASSUME NEW s, IsSequence(s), NEW k \in 0 .. Len(s)
  PROVE  /\ IsSequence(SubSeq(s, 1, k))
         /\ Len(SubSeq(s, 1, k)) = k
         /\ \A i \in 1 .. k : SubSeq(s, 1, k)[i] = s[i]
  <1> DEFINE S == {s[i] : i \in 1 .. Len(s)}
  <1>1. s \in Seq(S)
    BY SequenceIn
  <1> HIDE DEF S
  <1>2. k \in Nat /\ Len(s) \in Nat
    BY DEF IsSequence
  <1>3. /\ SubSeq(s, 1, k) \in Seq(S)
        /\ Len(SubSeq(s, 1, k)) = k
        /\ \A i \in 1 .. k : SubSeq(s, 1, k)[i] = s[i]
    BY <1>1, <1>2
  <1> QED BY <1>3, SequenceOf

LEMMA TailIs ==
  ASSUME NEW s, IsSequence(s), s # <<>>
  PROVE  /\ Len(s) > 0 /\ Head(s) = s[1]
         /\ IsSequence(Tail(s)) /\ Len(Tail(s)) = Len(s) - 1
         /\ \A i \in 1 .. Len(s) - 1 : Tail(s)[i] = s[i + 1]
  <1> DEFINE S == {s[i] : i \in 1 .. Len(s)}
  <1>1. s \in Seq(S)
    BY SequenceIn
  <1> HIDE DEF S
  <1>2. /\ Len(s) > 0 /\ Head(s) = s[1]
        /\ Tail(s) \in Seq(S) /\ Len(Tail(s)) = Len(s) - 1
        /\ \A i \in 1 .. Len(s) - 1 : Tail(s)[i] = s[i + 1]
    BY <1>1
  <1> QED BY <1>2, SequenceOf

-----------------------------------------------------------------------------
(***************************************************************************)
(* SumFunctionOnSet() is the sum.                                          *)
(***************************************************************************)

Some(s) == CHOOSE x \in s : TRUE

IsSummation(g, f, S) ==
    g = [s \in SUBSET S |-> IF s = {} THEN 0 ELSE f[Some(s)] + g[s \ {Some(s)}]]

LEMMA SummationExists ==
  ASSUME NEW S, IsFiniteSet(S), NEW f, \A x \in S : f[x] \in Int
  PROVE  \E g : IsSummation(g, f, S)
  <1> DEFINE Small(k) == {s \in SUBSET S : Cardinality(s) <= k}
             Upto(k, g) == /\ g \in [Small(k) -> Int]
                           /\ \A s \in Small(k) :
                                g[s] = IF s = {} THEN 0 ELSE f[Some(s)] + g[s \ {Some(s)}]
             K == Cardinality(S)
             Good == {k \in 0 .. K : \E g : Upto(k, g)}
  <1>1. K \in Nat /\ \A s \in SUBSET S : IsFiniteSet(s) /\ Cardinality(s) \in Nat
          /\ Cardinality(s) <= K
    BY FS_Subset, FS_CardinalityType
  <1>2. \A s \in SUBSET S : s # {} => /\ Some(s) \in s
                                      /\ s \ {Some(s)} \in SUBSET S
                                      /\ Cardinality(s \ {Some(s)}) = Cardinality(s) - 1
    BY <1>1, FS_RemoveElement DEF Some
  <1>3. 0 \in Good
    <2> DEFINE g == [s \in Small(0) |-> 0]
    <2>1. \A s \in Small(0) : s = {}
      BY <1>1, FS_EmptySet
    <2>2. Upto(0, g)
      BY <2>1
    <2> HIDE DEF Upto
    <2> QED BY <1>1, <2>2
  <1>4. ASSUME NEW k \in 0 .. K, k \in Good, k < K
        PROVE  k + 1 \in Good
    <2>1. PICK g : Upto(k, g)
      BY <1>4
    <2> DEFINE h == [s \in Small(k + 1) |->
                        IF Cardinality(s) <= k THEN g[s]
                        ELSE f[Some(s)] + g[s \ {Some(s)}]]
    <2>2. ASSUME NEW s \in Small(k + 1)
          PROVE  /\ h[s] \in Int
                 /\ h[s] = IF s = {} THEN 0 ELSE f[Some(s)] + h[s \ {Some(s)}]
      <3>1. CASE Cardinality(s) <= k /\ s = {}
        BY <1>1, <2>1, <3>1
      <3>2. CASE Cardinality(s) <= k /\ s # {}
        <4>1. s \ {Some(s)} \in Small(k) /\ s \ {Some(s)} \in Small(k + 1) /\ s \in Small(k)
          BY <1>1, <1>2, <3>2
        <4> QED BY <1>1, <2>1, <3>2, <4>1
      <3>3. CASE ~(Cardinality(s) <= k)
        <4>1. s # {}
          BY <3>3, FS_EmptySet
        <4>2. s \ {Some(s)} \in Small(k) /\ s \ {Some(s)} \in Small(k + 1) /\ Some(s) \in S
          BY <1>1, <1>2, <3>3, <4>1
        <4>3. h[s] = f[Some(s)] + g[s \ {Some(s)}]
          BY <3>3
        <4>4. h[s \ {Some(s)}] = g[s \ {Some(s)}]
          BY <4>2
        <4> QED BY <2>1, <4>1, <4>2, <4>3, <4>4
      <3> QED BY <3>1, <3>2, <3>3
    <2>3. Upto(k + 1, h)
      <3>1. h = [s \in Small(k + 1) |-> h[s]]
        OBVIOUS
      <3> HIDE DEF h, Small
      <3> QED BY <2>2, <3>1
    <2>4. k + 1 \in 0 .. K
      BY <1>1, <1>4
    <2> HIDE DEF Upto, h
    <2> QED BY <2>3, <2>4
  <1>5. K \in Good
    <2> HIDE DEF Good
    <2> QED BY <1>1, <1>3, <1>4, InductionUpTo
  <1>6. PICK g : Upto(K, g)
    BY <1>5
  <1>7. Small(K) = SUBSET S
    BY <1>1
  <1>8. IsSummation(g, f, S)
    BY <1>6, <1>7 DEF IsSummation
  <1> QED BY <1>8

LEMMA SumIsSummation ==
  ASSUME NEW S, IsFiniteSet(S), NEW f, \A x \in S : f[x] \in Int
  PROVE  \E g : IsSummation(g, f, S) /\ SumFunctionOnSet(f, S) = g[S]
  <1> DEFINE g == CHOOSE g : IsSummation(g, f, S)
  <1>1. IsSummation(g, f, S)
    BY SummationExists
  <1>2. SumFunctionOnSet(f, S) = g[S]
    BY DEF SumFunctionOnSet, FoldFunctionOnSet, MapThenFoldSet, IsSummation, Some
  <1> QED BY <1>1, <1>2

LEMMA SumOfNone ==
  ASSUME NEW f
  PROVE  SumFunctionOnSet(f, {}) = 0
  <1>1. PICK g : IsSummation(g, f, {}) /\ SumFunctionOnSet(f, {}) = g[{}]
    BY FS_EmptySet, SumIsSummation
  <1> QED BY <1>1 DEF IsSummation

\* Which element is taken first makes no difference.
LEMMA SumOneLess ==
  ASSUME NEW S, IsFiniteSet(S), NEW f, \A x \in S : f[x] \in Int, NEW y \in S
  PROVE  /\ SumFunctionOnSet(f, S) \in Int
         /\ SumFunctionOnSet(f, S \ {y}) \in Int
         /\ SumFunctionOnSet(f, S) = f[y] + SumFunctionOnSet(f, S \ {y})
  <1> DEFINE K == Cardinality(S)
  <1>1. K \in Nat /\ \A s \in SUBSET S : IsFiniteSet(s) /\ Cardinality(s) \in Nat
          /\ Cardinality(s) <= K
    BY FS_Subset, FS_CardinalityType
  <1>2. PICK g : IsSummation(g, f, S) /\ SumFunctionOnSet(f, S) = g[S]
    BY SumIsSummation
  <1>3. \A s \in SUBSET S : s # {} =>
           /\ Some(s) \in s /\ g[s] = f[Some(s)] + g[s \ {Some(s)}]
    BY <1>2 DEF IsSummation, Some
  <1>4. \A s \in SUBSET S : \A x \in s : Cardinality(s \ {x}) = Cardinality(s) - 1
    BY <1>1, FS_RemoveElement
  <1> DEFINE Free(s) == g[s] \in Int /\ \A x \in s : g[s] = f[x] + g[s \ {x}]
             Good == {k \in 0 .. K : \A s \in SUBSET S : Cardinality(s) <= k => Free(s)}
  <1>5. 0 \in Good
    <2>1. \A s \in SUBSET S : Cardinality(s) <= 0 => s = {}
      BY <1>1, FS_EmptySet
    <2>2. g[{}] = 0
      BY <1>2 DEF IsSummation
    <2> QED BY <1>1, <2>1, <2>2
  <1>6. ASSUME NEW k \in 0 .. K, k \in Good, k < K
        PROVE  k + 1 \in Good
    <2> SUFFICES ASSUME NEW s \in SUBSET S, Cardinality(s) <= k + 1
                 PROVE  Free(s)
      <3> HIDE DEF Free
      <3> QED BY <1>1, <1>6
    <2>0. \A t \in SUBSET S : Cardinality(t) <= k => Free(t)
      BY <1>6
    <2>1. CASE s = {}
      BY <1>2, <2>1 DEF IsSummation
    <2>2. CASE s # {}
      <3> DEFINE c == Some(s)
      <3>1. c \in s /\ g[s] = f[c] + g[s \ {c}]
        BY <1>3, <2>2
      <3> HIDE DEF c
      <3>2. \A x \in s : s \ {x} \in SUBSET S /\ Cardinality(s \ {x}) <= k
        BY <1>1, <1>4
      <3>3. \A x \in s : Free(s \ {x})
        BY <2>0, <3>2
      <3>4. g[s] \in Int
        <4>1. f[c] \in Int /\ g[s \ {c}] \in Int
          BY <3>1, <3>3
        <4> QED BY <3>1, <4>1
      <3>5. ASSUME NEW x \in s, x # c
            PROVE  g[s] = f[x] + g[s \ {x}]
        <4>1. g[s \ {c}] = f[x] + g[(s \ {c}) \ {x}] /\ g[s \ {c}] \in Int
          BY <3>1, <3>3, <3>5
        <4>2. g[s \ {x}] = f[c] + g[(s \ {x}) \ {c}] /\ g[s \ {x}] \in Int
          BY <3>1, <3>3, <3>5
        <4>3. (s \ {x}) \ {c} = (s \ {c}) \ {x}
          OBVIOUS
        <4>4. (s \ {c}) \ {x} \in SUBSET S /\ Cardinality((s \ {c}) \ {x}) <= k
          <5>1. (s \ {c}) \ {x} \in SUBSET S /\ x \in s \ {c} /\ s \ {c} \in SUBSET S
            BY <3>5
          <5>2. Cardinality((s \ {c}) \ {x}) = Cardinality(s \ {c}) - 1
            BY <1>4, <5>1
          <5>3. Cardinality(s \ {c}) <= k /\ Cardinality(s \ {c}) \in Nat
            BY <1>1, <3>1, <3>2
          <5> QED BY <5>1, <5>2, <5>3
        <4>5. g[(s \ {c}) \ {x}] \in Int
          BY <2>0, <4>4
        <4>6. f[x] \in Int /\ f[c] \in Int
          BY <3>1
        <4> DEFINE r == g[(s \ {c}) \ {x}]
        <4>7. g[s \ {c}] = f[x] + r /\ g[s \ {x}] = f[c] + r /\ g[s] = f[c] + g[s \ {c}]
          BY <3>1, <4>1, <4>2, <4>3
        <4>8. r \in Int
          BY <4>5
        <4> HIDE DEF r
        <4> QED BY <4>6, <4>7, <4>8
      <3> QED BY <3>1, <3>4, <3>5
    <2> QED BY <2>1, <2>2
  <1>7. K \in Good
    <2> HIDE DEF Good
    <2> QED BY <1>1, <1>5, <1>6, InductionUpTo
  <1>8. Free(S) /\ Free(S \ {y})
    BY <1>1, <1>7
  <1>9. SumFunctionOnSet(f, S \ {y}) = g[S \ {y}]
    \* Both are the summation over the subsets of S \ {y}.
    <2>1. PICK h : IsSummation(h, f, S \ {y}) /\ SumFunctionOnSet(f, S \ {y}) = h[S \ {y}]
      BY <1>1, SumIsSummation
    <2> DEFINE Same == {k \in 0 .. K : \A s \in SUBSET (S \ {y}) :
                                          Cardinality(s) <= k => h[s] = g[s]}
    <2>2. \A s \in SUBSET (S \ {y}) : s # {} =>
             /\ Some(s) \in s
             /\ h[s] = f[Some(s)] + h[s \ {Some(s)}]
             /\ g[s] = f[Some(s)] + g[s \ {Some(s)}]
             /\ s \ {Some(s)} \in SUBSET (S \ {y})
             /\ Cardinality(s \ {Some(s)}) = Cardinality(s) - 1
      BY <1>3, <1>4, <2>1 DEF IsSummation
    <2>3. h[{}] = 0 /\ g[{}] = 0
      BY <1>2, <2>1 DEF IsSummation
    <2>4. 0 \in Same
      <3>1. \A s \in SUBSET S : Cardinality(s) <= 0 => s = {}
        BY <1>1, FS_EmptySet
      <3> QED BY <1>1, <2>3, <3>1
    <2>5. ASSUME NEW k \in 0 .. K, k \in Same, k < K
          PROVE  k + 1 \in Same
      <3> SUFFICES ASSUME NEW s \in SUBSET (S \ {y}), Cardinality(s) <= k + 1
                   PROVE  h[s] = g[s]
        BY <1>1, <2>5
      <3>1. CASE s # {}
        <4>1. Cardinality(s \ {Some(s)}) <= k /\ s \ {Some(s)} \in SUBSET (S \ {y})
          BY <1>1, <2>2, <3>1
        <4>2. h[s \ {Some(s)}] = g[s \ {Some(s)}]
          BY <2>5, <4>1
        <4> QED BY <2>2, <3>1, <4>2
      <3> QED BY <2>3, <3>1
    <2>6. K \in Same
      <3> HIDE DEF Same
      <3> QED BY <1>1, <2>4, <2>5, InductionUpTo
    <2> QED BY <1>1, <2>1, <2>6
  <1> QED BY <1>2, <1>8, <1>9

LEMMA SumIsInt ==
  ASSUME NEW S, IsFiniteSet(S), NEW f, \A x \in S : f[x] \in Int
  PROVE  SumFunctionOnSet(f, S) \in Int
  <1>1. CASE S = {}
    BY <1>1, SumOfNone
  <1>2. CASE S # {}
    <2>1. PICK y \in S : TRUE
      BY <1>2
    <2> QED BY <2>1, SumOneLess
  <1> QED BY <1>1, <1>2

LEMMA SumOneMore ==
  ASSUME NEW S, IsFiniteSet(S), NEW y, y \notin S,
         NEW f, \A x \in S \union {y} : f[x] \in Int
  PROVE  SumFunctionOnSet(f, S \union {y}) = SumFunctionOnSet(f, S) + f[y]
  <1> DEFINE T == S \union {y}
  <1>1. IsFiniteSet(T) /\ y \in T /\ T \ {y} = S
    BY FS_AddElement
  <1> HIDE DEF T
  <1>2. /\ SumFunctionOnSet(f, T) = f[y] + SumFunctionOnSet(f, T \ {y})
        /\ SumFunctionOnSet(f, T \ {y}) \in Int
    BY <1>1, SumOneLess DEF T
  <1>3. f[y] \in Int
    OBVIOUS
  <1>4. /\ SumFunctionOnSet(f, T) = f[y] + SumFunctionOnSet(f, S)
        /\ SumFunctionOnSet(f, S) \in Int
    BY <1>1, <1>2
  <1> QED BY <1>3, <1>4 DEF T

\* A sum of natural numbers is one.
LEMMA SumIsNat ==
  ASSUME NEW S, IsFiniteSet(S), NEW f, \A x \in S : f[x] \in Nat
  PROVE  SumFunctionOnSet(f, S) \in Nat
  <1> DEFINE P == {s \in SUBSET S : SumFunctionOnSet(f, s) \in Nat}
  <1>1. {} \in P
    BY SumOfNone
  <1>2. ASSUME NEW s \in SUBSET S, NEW x \in S \ s, s \in P
        PROVE  s \union {x} \in P
    <2>1. IsFiniteSet(s)
      BY FS_Subset
    <2>2. SumFunctionOnSet(f, s \union {x}) = SumFunctionOnSet(f, s) + f[x]
      BY <2>1, SumOneMore
    <2> QED BY <1>2, <2>2
  <1>3. S \in P
    <2> HIDE DEF P
    <2> QED BY <1>1, <1>2, InductionOnSubsets
  <1> QED BY <1>3

\* Only the values at the indices count.
LEMMA SumSame ==
  ASSUME NEW S, IsFiniteSet(S), NEW f, NEW g,
         \A x \in S : f[x] \in Int /\ g[x] = f[x]
  PROVE  SumFunctionOnSet(g, S) = SumFunctionOnSet(f, S)
  <1> DEFINE P == {s \in SUBSET S : SumFunctionOnSet(g, s) = SumFunctionOnSet(f, s)}
  <1>1. {} \in P
    BY SumOfNone
  <1>2. ASSUME NEW s \in SUBSET S, NEW x \in S \ s, s \in P
        PROVE  s \union {x} \in P
    <2>1. IsFiniteSet(s)
      BY FS_Subset
    <2>2. SumFunctionOnSet(f, s \union {x}) = SumFunctionOnSet(f, s) + f[x]
      BY <2>1, SumOneMore
    <2>3. SumFunctionOnSet(g, s \union {x}) = SumFunctionOnSet(g, s) + g[x]
      BY <2>1, SumOneMore
    <2> QED BY <1>2, <2>2, <2>3
  <1>3. S \in P
    <2> HIDE DEF P
    <2> QED BY <1>1, <1>2, InductionOnSubsets
  <1> QED BY <1>3

LEMMA SumOfZeros ==
  ASSUME NEW S, IsFiniteSet(S), NEW f, \A x \in S : f[x] = 0
  PROVE  SumFunctionOnSet(f, S) = 0
  <1> DEFINE P == {s \in SUBSET S : SumFunctionOnSet(f, s) = 0}
  <1>1. {} \in P
    BY SumOfNone
  <1>2. ASSUME NEW s \in SUBSET S, NEW x \in S \ s, s \in P
        PROVE  s \union {x} \in P
    <2>1. IsFiniteSet(s) /\ \A z \in s \union {x} : f[z] = 0 /\ f[z] \in Int
      BY FS_Subset
    <2>2. SumFunctionOnSet(f, s \union {x}) = SumFunctionOnSet(f, s) + f[x]
      BY <2>1, SumOneMore
    <2> QED BY <1>2, <2>2
  <1>3. S \in P
    <2> HIDE DEF P
    <2> QED BY <1>1, <1>2, InductionOnSubsets
  <1> QED BY <1>3

LEMMA SumOfUnion ==
  ASSUME NEW S, IsFiniteSet(S), NEW T, IsFiniteSet(T), S \intersect T = {},
         NEW f, \A x \in S \union T : f[x] \in Int
  PROVE  SumFunctionOnSet(f, S \union T)
            = SumFunctionOnSet(f, S) + SumFunctionOnSet(f, T)
  <1> DEFINE P == {t \in SUBSET T :
                     SumFunctionOnSet(f, S \union t)
                       = SumFunctionOnSet(f, S) + SumFunctionOnSet(f, t)}
  <1>0. SumFunctionOnSet(f, S) \in Int
    BY SumIsInt
  <1>1. {} \in P
    <2>1. S \union {} = S
      OBVIOUS
    <2> QED BY <1>0, <2>1, SumOfNone
  <1>2. ASSUME NEW t \in SUBSET T, NEW x \in T \ t, t \in P
        PROVE  t \union {x} \in P
    <2>1. IsFiniteSet(t) /\ IsFiniteSet(S \union t) /\ x \notin S \union t
      BY FS_Subset, FS_Union
    <2>2. SumFunctionOnSet(f, t \union {x}) = SumFunctionOnSet(f, t) + f[x]
      BY <2>1, SumOneMore
    <2>3. SumFunctionOnSet(f, (S \union t) \union {x}) = SumFunctionOnSet(f, S \union t) + f[x]
      BY <2>1, SumOneMore
    <2>4. S \union (t \union {x}) = (S \union t) \union {x}
      OBVIOUS
    <2>5. SumFunctionOnSet(f, t) \in Int /\ f[x] \in Int
      BY <2>1, SumIsInt
    <2>6. SumFunctionOnSet(f, S \union t) = SumFunctionOnSet(f, S) + SumFunctionOnSet(f, t)
      BY <1>2
    <2>7. SumFunctionOnSet(f, S \union (t \union {x})) = SumFunctionOnSet(f, S \union t) + f[x]
      BY <2>3, <2>4, Zenon
    <2>8. SumFunctionOnSet(f, S \union (t \union {x}))
            = SumFunctionOnSet(f, S) + SumFunctionOnSet(f, t \union {x})
      BY <1>0, <2>2, <2>5, <2>6, <2>7
    <2> QED BY <2>8
  <1>3. T \in P
    <2> HIDE DEF P
    <2> QED BY <1>1, <1>2, InductionOnSubsets
  <1> QED BY <1>3

\* h takes the indices in S to those in T, and the values of f to those of g.
Renames(h, S, T) ==
    /\ \A x \in S : h[x] \in T
    /\ \A y \in T : \E x \in S : y = h[x]
    /\ \A x, y \in S : h[x] = h[y] => x = y

Carries(h, S, f, g) == \A x \in S : f[x] \in Int /\ g[h[x]] = f[x]

\* The same values at other indices.
LEMMA SumRenamed ==
  ASSUME NEW S, IsFiniteSet(S), NEW T, NEW h, Renames(h, S, T),
         NEW f, NEW g, Carries(h, S, f, g)
  PROVE  IsFiniteSet(T) /\ SumFunctionOnSet(g, T) = SumFunctionOnSet(f, S)
  <1> DEFINE Moved(s) == {h[x] : x \in s}
             P == {s \in SUBSET S :
                     /\ IsFiniteSet(Moved(s))
                     /\ SumFunctionOnSet(g, Moved(s)) = SumFunctionOnSet(f, s)}
  <1>1. {} \in P
    <2>1. Moved({}) = {}
      OBVIOUS
    <2> QED BY <2>1, SumOfNone, FS_EmptySet
  <1>2. ASSUME NEW s \in SUBSET S, NEW x \in S \ s, s \in P
        PROVE  s \union {x} \in P
    <2> DEFINE y == h[x]
    <2>1. IsFiniteSet(s) /\ IsFiniteSet(Moved(s))
      BY <1>2, FS_Subset
    <2>2. SumFunctionOnSet(f, s \union {x}) = SumFunctionOnSet(f, s) + f[x]
      <3>1. x \notin s /\ \A z \in s \union {x} : f[z] \in Int
        BY DEF Carries
      <3> QED BY <2>1, <3>1, SumOneMore
    <2>3. Moved(s \union {x}) = Moved(s) \union {y}
      OBVIOUS
    <2>4. y \notin Moved(s)
      BY DEF Renames
    <2>5. \A i \in Moved(s) \union {y} : g[i] \in Int
      BY DEF Carries
    <2>6. g[y] = f[x] /\ s \union {x} \in SUBSET S
      BY DEF Carries
    <2>7. SumFunctionOnSet(g, Moved(s)) = SumFunctionOnSet(f, s)
      BY <1>2
    <2> HIDE DEF y, Moved
    <2>8. IsFiniteSet(Moved(s) \union {y})
      BY <2>1, FS_AddElement
    <2>9. SumFunctionOnSet(g, Moved(s) \union {y}) = SumFunctionOnSet(g, Moved(s)) + g[y]
      BY <2>1, <2>4, <2>5, SumOneMore
    <2> QED BY <2>2, <2>3, <2>6, <2>7, <2>8, <2>9
  <1>3. S \in P
    <2> HIDE DEF P
    <2> QED BY <1>1, <1>2, InductionOnSubsets
  <1>4. Moved(S) = T
    BY DEF Renames
  <1> HIDE DEF Moved
  <1> QED BY <1>3, <1>4

-----------------------------------------------------------------------------
(***************************************************************************)
(* Sums over sequences.                                                    *)
(***************************************************************************)

LEMMA SumOfSequence ==
  ASSUME NEW n \in Nat, NEW f, DOMAIN f = 1 .. n, \A i \in 1 .. n : f[i] \in Int
  PROVE  SumFunction(f) = SumFunctionOnSet(f, 1 .. n) /\ SumFunction(f) \in Int
  BY FS_Interval, SumIsInt DEF SumFunction

LEMMA SumOfEmpty == SumFunction(<<>>) = 0
  BY SumOfNone DEF SumFunction

LEMMA SumLast ==
  ASSUME NEW n \in Nat, NEW f, \A i \in 1 .. n + 1 : f[i] \in Int
  PROVE  SumFunctionOnSet(f, 1 .. n + 1) = SumFunctionOnSet(f, 1 .. n) + f[n + 1]
  <1> DEFINE S == 1 .. n
             y == n + 1
  <1>1. 1 .. y = S \union {y} /\ y \notin S /\ IsFiniteSet(S)
    BY FS_Interval
  <1>2. \A i \in S \union {y} : f[i] \in Int
    BY <1>1
  <1> HIDE DEF S, y
  <1>3. SumFunctionOnSet(f, S \union {y}) = SumFunctionOnSet(f, S) + f[y]
    BY <1>1, <1>2, SumOneMore
  <1> QED BY <1>1, <1>3 DEF S, y

\* One value more.
LEMMA SumAppend ==
  ASSUME NEW n \in Nat, NEW f, DOMAIN f = 1 .. n, \A i \in 1 .. n : f[i] \in Int,
         NEW g, DOMAIN g = 1 .. n + 1, \A i \in 1 .. n : g[i] = f[i], g[n + 1] \in Int
  PROVE  SumFunction(g) = SumFunction(f) + g[n + 1]
  <1>1. \A i \in 1 .. n + 1 : g[i] \in Int
    <2>1. \A i \in 1 .. n + 1 : i \in 1 .. n \/ i = n + 1
      OBVIOUS
    <2> QED BY <2>1
  <1>2. SumFunctionOnSet(g, 1 .. n + 1) = SumFunctionOnSet(g, 1 .. n) + g[n + 1]
    BY <1>1, SumLast
  <1>3. SumFunctionOnSet(g, 1 .. n) = SumFunctionOnSet(f, 1 .. n)
    <2>1. IsFiniteSet(1 .. n)
      BY FS_Interval
    <2> QED BY <2>1, SumSame
  <1> QED BY <1>2, <1>3 DEF SumFunction

\* One value changed.
LEMMA SumReplaced ==
  ASSUME NEW S, IsFiniteSet(S), NEW y \in S, NEW f, NEW g,
         \A x \in S : f[x] \in Int /\ g[x] \in Int,
         \A x \in S : x # y => g[x] = f[x]
  PROVE  SumFunctionOnSet(g, S) = SumFunctionOnSet(f, S) + (g[y] - f[y])
  <1>1. /\ SumFunctionOnSet(f, S) = f[y] + SumFunctionOnSet(f, S \ {y})
        /\ SumFunctionOnSet(f, S \ {y}) \in Int
    BY SumOneLess
  <1>2. SumFunctionOnSet(g, S) = g[y] + SumFunctionOnSet(g, S \ {y})
    BY SumOneLess
  <1>3. SumFunctionOnSet(g, S \ {y}) = SumFunctionOnSet(f, S \ {y})
    BY FS_RemoveElement, SumSame
  <1>4. f[y] \in Int /\ g[y] \in Int
    OBVIOUS
  <1> QED BY <1>1, <1>2, <1>3, <1>4

-----------------------------------------------------------------------------
(***************************************************************************)
(* Parts of sequences.                                                     *)
(***************************************************************************)

LEMMA AppendTyped ==
  ASSUME NEW S, NEW t \in Seq(S), NEW c \in S
  PROVE  Append(t, c) \in Seq(S)
  OBVIOUS

LEMMA AppendToNone ==
  ASSUME NEW x
  PROVE  Append(<<>>, x) = <<x>>
  <1> DEFINE a == Append(<<>>, x)
             b == <<x>>
  <1>1. IsSequence(a) /\ Len(a) = 1 /\ a[1] = x
    <2>1. /\ IsSequence(a) /\ Len(a) = Len(<<>>) + 1
          /\ a[Len(<<>>) + 1] = x
      BY EmptySequence, AppendIs
    <2> HIDE DEF a
    <2> QED BY <2>1, EmptySequence
  <1>2. b \in Seq({x}) /\ Len(b) = 1 /\ b[1] = x
    OBVIOUS
  <1> HIDE DEF a, b
  <1>3. IsSequence(b)
    BY <1>2, SequenceOf
  <1>4. a = b
    <2>1. DOMAIN a = 1 .. 1 /\ DOMAIN b = 1 .. 1
      BY <1>1, <1>2, <1>3, SequenceDomain
    <2>2. \A i \in 1 .. 1 : a[i] = b[i]
      BY <1>1, <1>2
    <2>3. a = [i \in DOMAIN a |-> a[i]] /\ b = [i \in DOMAIN b |-> b[i]]
      BY <1>1, <1>3 DEF IsSequence
    <2> QED BY <2>1, <2>2, <2>3
  <1> QED BY <1>4 DEF a, b

LEMMA MiddleOf ==
  ASSUME NEW A, NEW p \in Seq(A), NEW s \in Seq(A), NEW q \in Seq(A)
  PROVE  SubSeq((p \o s) \o q, Len(p) + 1, Len(p) + Len(s)) = s
  <1> DEFINE t == (p \o s) \o q
             m == SubSeq(t, Len(p) + 1, Len(p) + Len(s))
  <1>1. /\ t \in Seq(A) /\ Len(t) = Len(p) + Len(s) + Len(q)
        /\ \A i \in 1 .. Len(s) : t[Len(p) + i] = s[i]
        /\ Len(p) \in Nat /\ Len(s) \in Nat /\ Len(q) \in Nat
    OBVIOUS
  <1> HIDE DEF t
  <1>2. m \in Seq(A) /\ Len(m) = Len(s) /\ \A i \in 1 .. Len(s) : m[i] = t[Len(p) + i]
    BY <1>1
  <1> HIDE DEF m
  <1>3. m = s
    <2>1. IsSequence(m) /\ IsSequence(s)
      BY <1>2, SequenceOf
    <2>2. \A i \in 1 .. Len(s) : m[i] = s[i]
      BY <1>1, <1>2
    <2> QED BY <1>2, <2>1, <2>2 DEF IsSequence
  <1> QED BY <1>3 DEF m, t

LEMMA EndOf ==
  ASSUME NEW A, NEW p \in Seq(A), NEW s \in Seq(A)
  PROVE  SubSeq(p \o s, Len(p) + 1, Len(p) + Len(s)) = s
  <1> DEFINE t == p \o s
             m == SubSeq(t, Len(p) + 1, Len(p) + Len(s))
  <1>1. /\ t \in Seq(A) /\ Len(t) = Len(p) + Len(s)
        /\ \A i \in 1 .. Len(s) : t[Len(p) + i] = s[i]
        /\ Len(p) \in Nat /\ Len(s) \in Nat
    OBVIOUS
  <1> HIDE DEF t
  <1>2. m \in Seq(A) /\ Len(m) = Len(s) /\ \A i \in 1 .. Len(s) : m[i] = t[Len(p) + i]
    BY <1>1
  <1> HIDE DEF m
  <1>3. m = s
    <2>1. IsSequence(m) /\ IsSequence(s)
      BY <1>2, SequenceOf
    <2>2. \A i \in 1 .. Len(s) : m[i] = s[i]
      BY <1>1, <1>2
    <2> QED BY <1>2, <2>1, <2>2 DEF IsSequence
  <1> QED BY <1>3 DEF m, t

LEMMA PrefixGrows ==
  ASSUME NEW S, NEW s \in Seq(S), NEW k \in Nat, k < Len(s)
  PROVE  SubSeq(s, 1, k + 1) = Append(SubSeq(s, 1, k), s[k + 1])
  OBVIOUS

LEMMA WholePrefix ==
  ASSUME NEW S, NEW s \in Seq(S)
  PROVE  /\ SubSeq(s, 1, 0) = <<>>
         /\ SubSeq(s, 1, Len(s)) = s
         /\ \A k \in 0 .. Len(s) : SubSeq(s, 1, k) \in Seq(S)
  OBVIOUS

-----------------------------------------------------------------------------
(***************************************************************************)
(* A fold over the indices 1 .. n, the greatest index last, unrolled.      *)
(***************************************************************************)

LEMMA GreatestOf ==
  ASSUME NEW k \in Nat, NEW t \in SUBSET (1 .. k), t # {}
  PROVE  /\ Max(t) \in t /\ t \ {Max(t)} \in SUBSET (1 .. k)
         /\ k \in t => Max(t) = k
         /\ k \notin t => Max(t) \in 1 .. k - 1
  <1>1. Max(t) \in t /\ \A i \in t : i <= Max(t)
    <2>1. t \subseteq 0 .. k
      OBVIOUS
    <2> QED BY <2>1, Greatest
  <1>2. Max(t) \in 1 .. k /\ t \ {Max(t)} \in SUBSET (1 .. k)
    BY <1>1
  <1>3. k \in t => k <= Max(t)
    BY <1>1
  <1>4. k \notin t => Max(t) # k
    BY <1>1
  <1> QED BY <1>1, <1>2, <1>3, <1>4

LEMMA GreatestUpTo ==
  ASSUME NEW i \in Nat \ {0}
  PROVE  Max(1 .. i) = i /\ (1 .. i) \ {i} = 1 .. i - 1 /\ 1 .. i # {}
  <1>1. i \in 1 .. i /\ 1 .. i \in SUBSET (1 .. i)
    OBVIOUS
  <1>2. Max(1 .. i) = i
    BY <1>1, GreatestOf
  <1>3. (1 .. i) \ {i} = 1 .. i - 1
    OBVIOUS
  <1> QED BY <1>1, <1>2, <1>3

\* g[t] is the result of folding over the indices in t only.
IsFold(g, base, step, n) ==
    \A t \in SUBSET (1 .. n) :
        g[t] = IF t = {} THEN base ELSE step[<<g[t \ {Max(t)}], Max(t)>>]

LEMMA FoldExists ==
  ASSUME NEW n \in Nat, NEW A, NEW base \in A, NEW step \in [A \X (1 .. n) -> A]
  PROVE  \E g \in [SUBSET (1 .. n) -> A] : IsFold(g, base, step, n)
  <1> DEFINE Good == {k \in 0 .. n : \E g \in [SUBSET (1 .. k) -> A] :
                                        IsFold(g, base, step, k)}
  <1>1. 0 \in Good
    <2> DEFINE g == [t \in SUBSET (1 .. 0) |-> base]
    <2>1. g \in [SUBSET (1 .. 0) -> A] /\ IsFold(g, base, step, 0)
      BY DEF IsFold
    <2> HIDE DEF g
    <2>2. 0 \in 0 .. n
      OBVIOUS
    <2> QED BY <2>1, <2>2
  <1>2. ASSUME NEW k \in 0 .. n, k \in Good, k < n
        PROVE  k + 1 \in Good
    <2>1. PICK g \in [SUBSET (1 .. k) -> A] : IsFold(g, base, step, k)
      BY <1>2
    <2> DEFINE h == [t \in SUBSET (1 .. k + 1) |->
                       IF k + 1 \in t THEN step[<<g[t \ {k + 1}], k + 1>>] ELSE g[t]]
    <2>2. ASSUME NEW t \in SUBSET (1 .. k + 1)
          PROVE  /\ h[t] \in A
                 /\ h[t] = IF t = {} THEN base ELSE step[<<h[t \ {Max(t)}], Max(t)>>]
      <3>1. CASE k + 1 \in t
        <4>1. Max(t) = k + 1
          BY <3>1, GreatestOf
        <4>2. t \ {k + 1} \in SUBSET (1 .. k)
          OBVIOUS
        <4>3. h[t \ {k + 1}] = g[t \ {k + 1}] /\ g[t \ {k + 1}] \in A
          BY <4>2
        <4>4. <<g[t \ {k + 1}], k + 1>> \in A \X (1 .. n)
          BY <1>2, <4>3
        <4>5. h[t] = step[<<g[t \ {k + 1}], k + 1>>]
          BY <3>1
        <4> HIDE DEF h
        <4> QED BY <3>1, <4>1, <4>3, <4>4, <4>5
      <3>2. CASE k + 1 \notin t
        <4>1. t \in SUBSET (1 .. k) /\ h[t] = g[t]
          BY <3>2
        <4>2. t # {} => h[t \ {Max(t)}] = g[t \ {Max(t)}]
          BY <3>2
        <4>3. g[t] = IF t = {} THEN base ELSE step[<<g[t \ {Max(t)}], Max(t)>>]
          BY <2>1, <4>1 DEF IsFold
        <4> HIDE DEF h
        <4> QED BY <4>1, <4>2, <4>3
      <3> QED BY <3>1, <3>2
    <2>3. h \in [SUBSET (1 .. k + 1) -> A]
      BY <2>2
    <2> HIDE DEF h
    <2>4. IsFold(h, base, step, k + 1)
      BY <2>2 DEF IsFold
    <2>5. k + 1 \in 0 .. n
      BY <1>2
    <2> QED BY <2>3, <2>4, <2>5
  <1>3. n \in Good
    <2> HIDE DEF Good
    <2>1. \A k \in 0 .. n : k \in Good /\ k < n => k + 1 \in Good
      BY <1>2
    <2>2. 0 .. n \subseteq Good
      BY <1>1, <2>1, InductionUpTo
    <2> QED BY <2>2
  <1> QED BY <1>3

LEMMA IndexSets ==
  ASSUME NEW n \in Nat
  PROVE  /\ \A t \in SUBSET (1 .. n) : t # {} => /\ Max(t) \in 1 .. n
                                                 /\ t \ {Max(t)} \in SUBSET (1 .. n)
         /\ \A i \in 0 .. n : 1 .. i \in SUBSET (1 .. n)
         /\ \A i \in 1 .. n : /\ 1 .. i # {} /\ Max(1 .. i) = i
                              /\ (1 .. i) \ {i} = 1 .. i - 1
         /\ 1 .. 0 = {}
  <1>1. ASSUME NEW t \in SUBSET (1 .. n), t # {}
        PROVE  Max(t) \in 1 .. n /\ t \ {Max(t)} \in SUBSET (1 .. n)
    BY <1>1, GreatestOf
  <1>2. ASSUME NEW i \in 1 .. n
        PROVE  1 .. i # {} /\ Max(1 .. i) = i /\ (1 .. i) \ {i} = 1 .. i - 1
    <2>1. i \in Nat \ {0}
      OBVIOUS
    <2> QED BY <2>1, GreatestUpTo
  <1>3. \A i \in 0 .. n : 1 .. i \in SUBSET (1 .. n)
    OBVIOUS
  <1>4. 1 .. 0 = {}
    OBVIOUS
  <1> QED BY <1>1, <1>2, <1>3, <1>4

=============================================================================
