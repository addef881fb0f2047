---------------------------- MODULE SequenceFacts ----------------------------
(***************************************************************************)
(* Facts that the proofs of all components cite: on the sequence operators *)
(* the models are built from, on least counterexamples, which take the     *)
(* place of induction, and on functions defined by recursion.              *)
(***************************************************************************)
EXTENDS Integers, FiniteSets, Sequences, SequencesExt, TLAPS,
        WellFoundedInduction, SequenceTheorems, FiniteSetTheorems

\* Every set of naturals that is not empty has a least element.  It takes the
\* place of induction: a smallest counterexample has no predecessor.
LEMMA LeastNatural ==
  ASSUME NEW T \in SUBSET Nat, T # {}
  PROVE  \E m \in T : \A k \in T : m <= k
<1> DEFINE Segments == {0..k : k \in T}
           Below == StrictSubsetOrdering(Nat)
<1>1. Segments \subseteq FiniteSubsetsOf(Nat)
  <2> SUFFICES ASSUME NEW k \in T PROVE 0..k \in FiniteSubsetsOf(Nat)
    OBVIOUS
  <2>1. IsFiniteSet(0..k)
    BY FS_Interval
  <2>2. 0..k \in SUBSET Nat
    OBVIOUS
  <2>3. QED
    BY <2>1, <2>2 DEF FiniteSubsetsOf
<1>2. Segments # {}
  OBVIOUS
<1>3. IsWellFoundedOn(Below, FiniteSubsetsOf(Nat))
  BY FS_StrictSubsetOrderingWellFounded
<1>4. \E x \in Segments : \A y \in Segments : ~ (<<y, x>> \in Below)
  <2> HIDE DEF Segments, Below
  <2> QED
    BY <1>1, <1>2, <1>3, WFMin
<1>5. PICK m \in T : \A k \in T : ~ (<<0..k, 0..m>> \in Below)
  BY <1>4
<1>6. ASSUME NEW k \in T, k < m PROVE FALSE
  <2>1. 0..k \subseteq 0..m /\ 0..k \in SUBSET Nat /\ 0..m \in SUBSET Nat
    BY <1>6
  <2>2. m \in 0..m /\ m \notin 0..k
    BY <1>6
  <2>3. <<0..k, 0..m>> \in Below
    BY <2>1, <2>2 DEF StrictSubsetOrdering
  <2>4. QED
    BY <2>3, <1>5
<1>7. QED
  BY <1>6

\* Flattening concatenates one sequence after another.
LEMMA FlattenSteps ==
  ASSUME NEW S, NEW ss \in Seq(S), Len(ss) # 0
  PROVE  \E F : /\ FlattenSeq(ss) = F[Len(ss)]
               /\ \A k \in 1..Len(ss) : F[k] = IF k = 1 THEN ss[k] ELSE F[k-1] \o ss[k]
<1> DEFINE IsFlatten(f, k) ==
              f = [i \in 1..k |-> IF i = 1 THEN ss[i] ELSE f[i-1] \o ss[i]]
<1>1. Len(ss) \in Nat /\ Len(ss) >= 1
  OBVIOUS
<1>2. \A k \in 1..Len(ss) : \E f : IsFlatten(f, k)
  <2> DEFINE T == {k \in 1..Len(ss) : ~ \E f : IsFlatten(f, k)}
  <2> SUFFICES ASSUME T # {} PROVE FALSE
    OBVIOUS
  <2> HIDE DEF IsFlatten
  <2>1. T \in SUBSET Nat
    OBVIOUS
  <2>2. PICK m \in T : \A k \in T : m <= k
    <3> HIDE DEF T
    <3> QED
      BY <2>1, LeastNatural
  <2>3. m \in 1..Len(ss)
    OBVIOUS
  <2>4. m = 1
    <3> SUFFICES ASSUME m # 1 PROVE FALSE
      OBVIOUS
    <3>1. m - 1 \in 1..Len(ss) /\ m \in Nat /\ m - 1 \in Nat
      BY <2>3
    <3>2. m - 1 \notin T
      <4> HIDE DEF T
      <4> QED
        BY <2>2, <3>1
    <3>3. PICK f : IsFlatten(f, m - 1)
      BY <3>1, <3>2
    <3> HIDE DEF T
    <3> DEFINE Value(h, i) == IF i = 1 THEN ss[i] ELSE h[i-1] \o ss[i]
               g == [i \in 1..m |-> Value(f, i)]
    <3>4. f = [i \in 1..(m-1) |-> Value(f, i)]
      BY <3>3 DEF IsFlatten
    <3>5. ASSUME NEW i \in 1..(m-1) PROVE g[i] = f[i]
      <4>1. f[i] = Value(f, i)
        <5> HIDE DEF Value
        <5> QED
          BY <3>4
      <4>2. i \in 1..m
        BY <3>1
      <4>3. g[i] = Value(f, i)
        BY <4>2
      <4>4. QED
        BY <4>1, <4>3
    <3>6. ASSUME NEW i \in 1..m PROVE Value(f, i) = Value(g, i)
      <4>1. CASE i = 1
        BY <4>1
      <4>2. CASE i # 1
        <5>1. i - 1 \in 1..(m-1)
          BY <4>2, <3>1
        <5>2. g[i-1] = f[i-1]
          BY <5>1, <3>5
        <5>3. QED
          BY <5>2
      <4>3. QED
        BY <4>1, <4>2
    <3>7. g = [i \in 1..m |-> Value(g, i)]
      BY <3>6
    <3>8. IsFlatten(g, m)
      BY <3>7 DEF IsFlatten
    <3>9. QED
      BY <3>8 DEF T
  <2>5. IsFlatten([i \in 1..1 |-> ss[i]], 1)
    BY DEF IsFlatten
  <2>6. QED
    BY <2>2, <2>4, <2>5
<1> DEFINE F == CHOOSE f : IsFlatten(f, Len(ss))
<1>3. IsFlatten(F, Len(ss))
  <2> HIDE DEF IsFlatten
  <2> QED
    BY <1>2, <1>1
<1>4. FlattenSeq(ss) = F[Len(ss)]
  BY <1>1 DEF FlattenSeq
<1>5. \A k \in 1..Len(ss) : F[k] = IF k = 1 THEN ss[k] ELSE F[k-1] \o ss[k]
  BY <1>3
<1> HIDE DEF F
<1>6. QED
  BY <1>4, <1>5

\* Flattening sequences over S gives a sequence over S.
LEMMA FlattenType ==
  ASSUME NEW S, NEW ss \in Seq(Seq(S))
  PROVE  FlattenSeq(ss) \in Seq(S)
<1>1. CASE Len(ss) = 0
  BY <1>1 DEF FlattenSeq
<1>2. CASE Len(ss) # 0
  <2>1. Len(ss) \in Nat /\ Len(ss) >= 1
    BY <1>2
  <2>2. PICK F : /\ FlattenSeq(ss) = F[Len(ss)]
                 /\ \A k \in 1..Len(ss) : F[k] = IF k = 1 THEN ss[k] ELSE F[k-1] \o ss[k]
    BY <1>2, FlattenSteps
  <2>3. \A k \in 1..Len(ss) : F[k] \in Seq(S)
    <3> DEFINE T == {k \in 1..Len(ss) : F[k] \notin Seq(S)}
    <3> SUFFICES ASSUME T # {} PROVE FALSE
      OBVIOUS
    <3>1. T \in SUBSET Nat
      OBVIOUS
    <3>2. PICK m \in T : \A k \in T : m <= k
      <4> HIDE DEF T
      <4> QED
        BY <3>1, LeastNatural
    <3>3. ss[m] \in Seq(S)
      OBVIOUS
    <3>4. F[m] = IF m = 1 THEN ss[m] ELSE F[m-1] \o ss[m]
      BY <2>2
    <3>5. m # 1
      BY <3>3, <3>4
    <3>6. m - 1 \in 1..Len(ss) /\ m - 1 \notin T
      BY <3>2, <3>5
    <3>7. F[m-1] \in Seq(S)
      BY <3>6
    <3>8. F[m-1] \o ss[m] \in Seq(S)
      BY <3>7, <3>3, ConcatProperties
    <3>9. QED
      BY <3>8, <3>5, <3>4
  <2>4. QED
    BY <2>1, <2>2, <2>3
<1>3. QED
  BY <1>1, <1>2

\* Flattening n sequences of six elements gives 6n elements: each keeps its six
\* places.
LEMMA FlattenSixes ==
  ASSUME NEW S, NEW ss \in Seq(Seq(S)), \A k \in 1..Len(ss) : Len(ss[k]) = 6
  PROVE  /\ Len(FlattenSeq(ss)) = 6 * Len(ss)
         /\ \A k \in 1..Len(ss) : \A j \in 1..6 :
               FlattenSeq(ss)[6 * (k - 1) + j] = ss[k][j]
<1>1. CASE Len(ss) = 0
  BY <1>1 DEF FlattenSeq
<1>2. CASE Len(ss) # 0
  <2>1. Len(ss) \in Nat /\ Len(ss) >= 1
    BY <1>2
  <2>2. PICK F : /\ FlattenSeq(ss) = F[Len(ss)]
                 /\ \A k \in 1..Len(ss) : F[k] = IF k = 1 THEN ss[k] ELSE F[k-1] \o ss[k]
    BY <1>2, FlattenSteps
  <2> DEFINE Good(n) == /\ F[n] \in Seq(S) /\ Len(F[n]) = 6 * n
                        /\ \A k \in 1..n : \A j \in 1..6 : F[n][6 * (k - 1) + j] = ss[k][j]
  <2>3. \A n \in 1..Len(ss) : Good(n)
    <3> DEFINE T == {n \in 1..Len(ss) : ~Good(n)}
    <3> SUFFICES ASSUME T # {} PROVE FALSE
      BY DEF T
    <3>1. PICK m \in T : \A n \in T : m <= n
      <4>1. T \in SUBSET Nat
        OBVIOUS
      <4> HIDE DEF T
      <4> QED
        BY <4>1, LeastNatural
    <3>2. m \in 1..Len(ss) /\ ss[m] \in Seq(S) /\ Len(ss[m]) = 6
      OBVIOUS
    <3>3. CASE m = 1
      <4>1. F[1] = ss[1]
        BY <2>1, <2>2
      <4>2. \A k \in 1..1 : \A j \in 1..6 : 6 * (k - 1) + j = j /\ k = 1
        OBVIOUS
      <4>3. \A k \in 1..1 : \A j \in 1..6 : F[1][6 * (k - 1) + j] = ss[k][j]
        BY <4>1, <4>2
      <4>4. Good(1)
        BY <4>1, <4>3, <3>2, <3>3
      <4>5. QED
        BY <4>4, <3>3
    <3>4. CASE m # 1
      <4>1. m - 1 \in 1..Len(ss) /\ ~(m <= m - 1)
        BY <3>2, <3>4
      <4>2. m - 1 \notin T
        <5> HIDE DEF T
        <5> QED
          BY <3>1, <4>1
      <4>3. Good(m - 1)
        <5> HIDE DEF Good
        <5> QED
          BY <4>1, <4>2
      <4>4. F[m] = F[m - 1] \o ss[m]
        BY <2>2, <3>2, <3>4
      <4>5. /\ F[m - 1] \o ss[m] \in Seq(S)
            /\ Len(F[m - 1] \o ss[m]) = Len(F[m - 1]) + Len(ss[m])
            /\ \A i \in 1..Len(F[m - 1]) + Len(ss[m]) :
                  (F[m - 1] \o ss[m])[i] = IF i <= Len(F[m - 1]) THEN F[m - 1][i]
                                           ELSE ss[m][i - Len(F[m - 1])]
        <5> DEFINE a == F[m - 1]
                   b == ss[m]
        <5>1. a \in Seq(S) /\ b \in Seq(S)
          BY <4>3, <3>2
        <5> HIDE DEF a, b
        <5>2. /\ a \o b \in Seq(S)
              /\ Len(a \o b) = Len(a) + Len(b)
              /\ \A i \in 1..Len(a) + Len(b) :
                    (a \o b)[i] = IF i <= Len(a) THEN a[i] ELSE b[i - Len(a)]
          BY <5>1, ConcatProperties, Zenon
        <5> QED
          BY <5>2, Zenon DEF a, b
      <4>6. F[m] \in Seq(S) /\ Len(F[m]) = 6 * m
        BY <4>3, <4>4, <4>5, <3>2
      <4>7. \A i \in 1..6 * m : F[m][i] = IF i <= 6 * (m - 1) THEN F[m - 1][i]
                                       ELSE ss[m][i - 6 * (m - 1)]
        <5>1. Len(F[m - 1]) = 6 * (m - 1) /\ Len(F[m - 1]) + Len(ss[m]) = 6 * m
          BY <4>3, <3>2
        <5>2. QED
          BY <5>1, <4>4, <4>5
      <4>8. ASSUME NEW k \in 1..m, NEW j \in 1..6 PROVE F[m][6 * (k - 1) + j] = ss[k][j]
        <5> DEFINE i == 6 * (k - 1) + j
        <5>1. CASE k = m
          <6>1. i \in 1..6 * m /\ ~(i <= 6 * (m - 1)) /\ i - 6 * (m - 1) = j
            BY <5>1, <3>2
          <6> HIDE DEF i
          <6>2. F[m][i] = ss[m][j]
            BY <6>1, <4>7
          <6>3. QED
            BY <6>2, <5>1 DEF i
        <5>2. CASE k # m
          <6>1. k \in 1..(m - 1)
            BY <5>2, <3>2
          <6>2. i \in 1..6 * m /\ i <= 6 * (m - 1)
            <7> HIDE DEF T, Good
            <7> QED
              BY <6>1, <3>2
          <6> HIDE DEF i
          <6>3. F[m][i] = F[m - 1][i]
            BY <6>2, <4>7
          <6> USE DEF i
          <6>4. QED
            BY <6>1, <6>3, <4>3
        <5>3. QED
          BY <5>1, <5>2
      <4>9. Good(m)
        BY <4>6, <4>8
      <4>10. QED
        BY <4>9
    <3>5. QED
      BY <3>3, <3>4
  <2>4. QED
    BY <2>1, <2>2, <2>3
<1>3. QED
  BY <1>1, <1>2

-----------------------------------------------------------------------------
(* Sequences without repetition, and the sets of their elements. *)

\* An enumeration of a finite set is a sequence without repetition of exactly
\* its elements.
LEMMA EnumerationFacts ==
  ASSUME NEW U, NEW S \in SUBSET U, IsFiniteSet(S), NEW order \in SetToSeqs(S)
  PROVE  order \in Seq(U) /\ IsInjective(order) /\ ToSet(order) = S
<1> DEFINE n == Cardinality(S)
<1>1. n \in Nat
  BY FS_CardinalityType
<1>2. /\ order \in [1..n -> S]
      /\ \A i, j \in 1..n : i # j => order[i] # order[j]
  BY DEF SetToSeqs
<1> HIDE DEF n
<1>3. order \in Seq(U)
  BY <1>1, <1>2
<1>4. order \in Injection(1..n, S)
  BY <1>2 DEF Injection, IsInjective
<1>5. Cardinality(1..n) = n
  BY <1>1, FS_Interval
<1>6. order \in Surjection(1..n, S)
  BY <1>4, <1>5, FS_Injection DEF n
<1>7. \A x \in S : \E i \in 1..n : order[i] = x
  BY <1>6 DEF Surjection
<1>8. ToSet(order) = S
  BY <1>2, <1>7 DEF ToSet
<1>9. IsInjective(order)
  BY <1>2 DEF IsInjective
<1>10. QED
  BY <1>3, <1>8, <1>9

\* Concatenation joins the elements; it repeats none if the parts are disjoint
\* and repeat none.
LEMMA ConcatFacts ==
  ASSUME NEW U, NEW s \in Seq(U), NEW t \in Seq(U)
  PROVE  /\ s \o t \in Seq(U)
         /\ ToSet(s \o t) = ToSet(s) \cup ToSet(t)
         /\ IsInjective(s) /\ IsInjective(t) /\ ToSet(s) \cap ToSet(t) = {}
               => IsInjective(s \o t)
<1>1. /\ s \o t \in Seq(U) /\ Len(s \o t) = Len(s) + Len(t)
      /\ \A i \in 1..(Len(s) + Len(t)) :
            (s \o t)[i] = IF i <= Len(s) THEN s[i] ELSE t[i - Len(s)]
  BY ConcatProperties
<1>2. /\ Len(s) \in Nat /\ Len(t) \in Nat
      /\ DOMAIN s = 1..Len(s) /\ DOMAIN t = 1..Len(t)
      /\ DOMAIN (s \o t) = 1..(Len(s) + Len(t))
  BY <1>1, LenProperties
<1>3. ToSet(s \o t) \subseteq ToSet(s) \cup ToSet(t)
  <2> SUFFICES ASSUME NEW i \in 1..(Len(s) + Len(t))
               PROVE  (s \o t)[i] \in ToSet(s) \cup ToSet(t)
    BY <1>2 DEF ToSet
  <2>1. CASE i <= Len(s)
    BY <1>1, <1>2, <2>1 DEF ToSet
  <2>2. CASE ~(i <= Len(s))
    <3>1. i - Len(s) \in 1..Len(t)
      BY <1>2, <2>2
    <3>2. (s \o t)[i] = t[i - Len(s)]
      BY <1>1, <2>2
    <3>3. QED
      BY <1>2, <3>1, <3>2 DEF ToSet
  <2>3. QED
    BY <2>1, <2>2
<1>4. ToSet(s) \subseteq ToSet(s \o t)
  <2> SUFFICES ASSUME NEW i \in 1..Len(s) PROVE s[i] \in ToSet(s \o t)
    BY <1>2 DEF ToSet
  <2>1. i \in 1..(Len(s) + Len(t)) /\ (s \o t)[i] = s[i]
    BY <1>1, <1>2
  <2>2. QED
    BY <1>2, <2>1 DEF ToSet
<1>5. ToSet(t) \subseteq ToSet(s \o t)
  <2> SUFFICES ASSUME NEW i \in 1..Len(t) PROVE t[i] \in ToSet(s \o t)
    BY <1>2 DEF ToSet
  <2>1. i + Len(s) \in 1..(Len(s) + Len(t)) /\ ~(i + Len(s) <= Len(s))
    BY <1>2
  <2>2. (i + Len(s)) - Len(s) = i
    BY <1>2
  <2>3. (s \o t)[i + Len(s)] = t[i]
    BY <1>1, <2>1, <2>2
  <2>4. QED
    BY <1>2, <2>1, <2>3 DEF ToSet
<1>6. ASSUME IsInjective(s), IsInjective(t), ToSet(s) \cap ToSet(t) = {}
      PROVE  IsInjective(s \o t)
  <2> SUFFICES ASSUME NEW i \in 1..(Len(s) + Len(t)), NEW j \in 1..(Len(s) + Len(t)),
                      (s \o t)[i] = (s \o t)[j]
               PROVE  i = j
    BY <1>2 DEF IsInjective
  <2>1. CASE i <= Len(s) /\ j <= Len(s)
    BY <1>1, <1>2, <1>6, <2>1 DEF IsInjective
  <2>2. CASE ~(i <= Len(s)) /\ ~(j <= Len(s))
    <3>1. i - Len(s) \in DOMAIN t /\ j - Len(s) \in DOMAIN t
      BY <1>2, <2>2
    <3>2. t[i - Len(s)] = t[j - Len(s)]
      BY <1>1, <2>2
    <3>3. i - Len(s) = j - Len(s)
      BY <1>6, <3>1, <3>2 DEF IsInjective
    <3>4. QED
      BY <1>2, <3>3
  <2>3. ASSUME NEW k \in 1..(Len(s) + Len(t)), NEW l \in 1..(Len(s) + Len(t)),
               k <= Len(s), ~(l <= Len(s))
        PROVE  (s \o t)[k] # (s \o t)[l]
    <3>1. k \in DOMAIN s /\ l - Len(s) \in DOMAIN t
      BY <1>2, <2>3
    <3>2. (s \o t)[k] = s[k] /\ (s \o t)[l] = t[l - Len(s)]
      BY <1>1, <2>3
    <3>3. QED
      BY <1>6, <3>1, <3>2 DEF ToSet
  <2>4. QED
    BY <2>1, <2>2, <2>3
<1>7. QED
  BY <1>1, <1>3, <1>4, <1>5, <1>6

\* Appending an element that is not there repeats none.
LEMMA AppendFacts ==
  ASSUME NEW U, NEW s \in Seq(U), NEW e \in U
  PROVE  /\ Append(s, e) \in Seq(U)
         /\ ToSet(Append(s, e)) = ToSet(s) \cup {e}
         /\ IsInjective(s) /\ e \notin ToSet(s) => IsInjective(Append(s, e))
<1>0. <<e>> \in Seq(U)
  BY AppendIsConcat
<1>1. PICK t \in Seq(U) : t = <<e>>
  BY <1>0
<1>2. Append(s, e) = s \o t
  BY <1>1, AppendIsConcat
<1>3. DOMAIN t = {1} /\ t[1] = e
  BY <1>1
<1>4. ToSet(t) = {e} /\ IsInjective(t)
  BY <1>3 DEF ToSet, IsInjective
<1>5. QED
  BY <1>2, <1>4, ConcatFacts

\* Taking the head of a sequence without repetition removes that element.
LEMMA TailFacts ==
  ASSUME NEW U, NEW s \in Seq(U), s # <<>>
  PROVE  /\ Head(s) \in ToSet(s) /\ Head(s) \in U /\ Tail(s) \in Seq(U)
         /\ ToSet(s) = {Head(s)} \cup ToSet(Tail(s))
         /\ IsInjective(s) => IsInjective(Tail(s)) /\ Head(s) \notin ToSet(Tail(s))
<1>1. /\ Len(s) \in Nat /\ Len(s) >= 1 /\ DOMAIN s = 1..Len(s)
      /\ Head(s) \in U /\ Tail(s) \in Seq(U) /\ Head(s) = s[1]
      /\ DOMAIN Tail(s) = 1..(Len(s) - 1)
      /\ \A i \in 1..(Len(s) - 1) : Tail(s)[i] = s[i + 1]
  BY HeadTailProperties, LenProperties, EmptySeq
<1>2. Head(s) \in ToSet(s)
  BY <1>1 DEF ToSet
<1>3. ToSet(Tail(s)) \subseteq ToSet(s)
  <2> SUFFICES ASSUME NEW i \in 1..(Len(s) - 1) PROVE Tail(s)[i] \in ToSet(s)
    BY <1>1 DEF ToSet
  <2>1. i + 1 \in 1..Len(s)
    BY <1>1
  <2>2. QED
    BY <1>1, <2>1 DEF ToSet
<1>4. ToSet(s) \subseteq {Head(s)} \cup ToSet(Tail(s))
  <2> SUFFICES ASSUME NEW i \in 1..Len(s), i # 1 PROVE s[i] \in ToSet(Tail(s))
    BY <1>1 DEF ToSet
  <2>1. i - 1 \in 1..(Len(s) - 1) /\ (i - 1) + 1 = i
    BY <1>1
  <2>2. Tail(s)[i - 1] = s[i]
    BY <1>1, <2>1
  <2>3. QED
    BY <1>1, <2>1, <2>2 DEF ToSet
<1>5. ASSUME IsInjective(s)
      PROVE  IsInjective(Tail(s)) /\ Head(s) \notin ToSet(Tail(s))
  <2>1. ASSUME NEW i \in 1..(Len(s) - 1) PROVE s[i + 1] # s[1]
    BY <1>1, <1>5 DEF IsInjective
  <2>2. ASSUME NEW i \in 1..(Len(s) - 1), NEW j \in 1..(Len(s) - 1),
               Tail(s)[i] = Tail(s)[j]
        PROVE  i = j
    <3>1. i + 1 \in DOMAIN s /\ j + 1 \in DOMAIN s /\ s[i + 1] = s[j + 1]
      BY <1>1, <2>2
    <3>2. i + 1 = j + 1
      BY <1>5, <3>1 DEF IsInjective
    <3>3. QED
      BY <3>2
  <2>3. QED
    BY <1>1, <2>1, <2>2 DEF IsInjective, ToSet
<1>6. QED
  BY <1>1, <1>2, <1>3, <1>4, <1>5

\* A sequence without repetition is as long as the set of its elements.
LEMMA LenIsCardinality ==
  ASSUME NEW U, NEW s \in Seq(U), IsInjective(s)
  PROVE  IsFiniteSet(ToSet(s)) /\ Cardinality(ToSet(s)) = Len(s)
<1>1. Len(s) \in Nat /\ DOMAIN s = 1..Len(s) /\ s \in [1..Len(s) -> U]
  BY LenProperties
<1>2. s \in [1..Len(s) -> ToSet(s)]
  BY <1>1 DEF ToSet
<1>3. \A x \in ToSet(s) : \E i \in 1..Len(s) : s[i] = x
  BY <1>1 DEF ToSet
<1>4. s \in Bijection(1..Len(s), ToSet(s))
  BY <1>1, <1>2, <1>3 DEF Bijection, Injection, Surjection, IsInjective
<1>5. ExistsBijection(1..Len(s), ToSet(s))
  BY <1>4 DEF ExistsBijection
<1>6. IsFiniteSet(1..Len(s)) /\ Cardinality(1..Len(s)) = Len(s)
  BY <1>1, FS_Interval
<1>7. QED
  BY <1>5, <1>6, FS_Bijection

\* An element that is inserted, anywhere, joins the others; what follows it moves
\* by one place.
LEMMA InsertAtFacts ==
  ASSUME NEW U, NEW s \in Seq(U), NEW i \in 1..(Len(s) + 1), NEW e \in U
  PROVE  /\ InsertAt(s, i, e) \in Seq(U)
         /\ Len(InsertAt(s, i, e)) = Len(s) + 1
         /\ ToSet(InsertAt(s, i, e)) = ToSet(s) \cup {e}
         /\ IsInjective(s) /\ e \notin ToSet(s) => IsInjective(InsertAt(s, i, e))
<1> DEFINE before == SubSeq(s, 1, i - 1)
           after  == SubSeq(s, i, Len(s))
           t      == InsertAt(s, i, e)
<1>1. Len(s) \in Nat /\ DOMAIN s = 1..Len(s) /\ \A j \in 1..Len(s) : s[j] \in U
  BY LenProperties
<1>2. /\ before \in Seq(U) /\ Len(before) = i - 1
      /\ \A j \in 1..(i - 1) : before[j] = s[j]
  <2>1. i - 1 \in Int /\ \A j \in 1..(i - 1) : s[j] \in U
    BY <1>1
  <2>2. /\ SubSeq(s, 1, i - 1) \in Seq(U)
        /\ Len(SubSeq(s, 1, i - 1)) = IF 1 <= i - 1 THEN (i - 1) - 1 + 1 ELSE 0
        /\ \A j \in 1..((i - 1) - 1 + 1) : SubSeq(s, 1, i - 1)[j] = s[1 + j - 1]
    BY <2>1, SubSeqProperties
  <2>3. QED
    BY <2>2, <1>1
<1>3. /\ after \in Seq(U) /\ Len(after) = Len(s) - i + 1
      /\ \A j \in 1..(Len(s) - i + 1) : after[j] = s[i + j - 1]
  <2>1. Len(s) \in Int /\ \A j \in i..Len(s) : s[j] \in U
    BY <1>1
  <2>2. /\ SubSeq(s, i, Len(s)) \in Seq(U)
        /\ Len(SubSeq(s, i, Len(s))) = IF i <= Len(s) THEN Len(s) - i + 1 ELSE 0
        /\ \A j \in 1..(Len(s) - i + 1) : SubSeq(s, i, Len(s))[j] = s[i + j - 1]
    BY <2>1, SubSeqProperties
  <2>3. QED
    BY <2>2, <1>1
<1> HIDE DEF before, after
<1>4. before \o <<e>> = Append(before, e) /\ Append(before, e) \in Seq(U)
  BY <1>2, AppendFacts, AppendIsConcat
<1>5. /\ Len(Append(before, e)) = i
      /\ \A j \in 1..i : Append(before, e)[j] = IF j = i THEN e ELSE s[j]
  BY <1>1, <1>2
<1>6. t = Append(before, e) \o after
  BY <1>4 DEF InsertAt, before, after
<1>7. /\ t \in Seq(U) /\ Len(t) = Len(s) + 1
      /\ \A j \in 1..(Len(s) + 1) :
            t[j] = IF j < i THEN s[j] ELSE IF j = i THEN e ELSE s[j - 1]
  <2> DEFINE front == Append(before, e)
  <2>1. /\ front \o after \in Seq(U) /\ Len(front \o after) = Len(front) + Len(after)
        /\ \A j \in 1..Len(front) + Len(after) :
              (front \o after)[j] = IF j <= Len(front) THEN front[j]
                                    ELSE after[j - Len(front)]
    BY <1>3, <1>4, ConcatProperties
  <2>2. ASSUME NEW j \in (i + 1)..(Len(s) + 1) PROVE after[j - i] = s[j - 1]
    <3>1. j - i \in 1..(Len(s) - i + 1) /\ i + (j - i) - 1 = j - 1
      BY <1>1, SMT
    <3>2. QED
      BY <3>1, <1>3
  <2>3. Len(front) + Len(after) = Len(s) + 1
    BY <1>1, <1>3, <1>5
  <2>4. \A j \in 1..(Len(s) + 1) : t[j] = IF j <= i THEN front[j] ELSE after[j - i]
    BY <2>1, <2>3, <1>5, <1>6
  <2>5. t \in Seq(U) /\ Len(t) = Len(s) + 1
    BY <2>1, <2>3, <1>6
  <2> HIDE DEF front, t
  <2>6. \A j \in 1..i : front[j] = IF j = i THEN e ELSE s[j]
    BY <1>5 DEF front
  <2>7. ASSUME NEW j \in 1..(Len(s) + 1)
        PROVE  t[j] = IF j < i THEN s[j] ELSE IF j = i THEN e ELSE s[j - 1]
    <3>1. CASE j <= i
      <4>1. j \in 1..i /\ (j < i \/ j = i)
        BY <3>1, <1>1, SMT
      <4>2. QED
        BY <4>1, <3>1, <2>4, <2>6
    <3>2. CASE ~(j <= i)
      <4>1. j \in (i + 1)..(Len(s) + 1) /\ ~(j < i) /\ j # i
        BY <3>2, <1>1, SMT
      <4>2. QED
        BY <4>1, <3>2, <2>4, <2>2
    <3>3. QED
      BY <3>1, <3>2
  <2>8. QED
    BY <2>5, <2>7
<1> HIDE DEF t
<1>8. DOMAIN t = 1..(Len(s) + 1)
  BY <1>7, LenProperties
<1>9. ToSet(t) = ToSet(s) \cup {e}
  <2>1. ASSUME NEW j \in 1..(Len(s) + 1) PROVE t[j] \in ToSet(s) \cup {e}
    <3>1. CASE j < i
      <4>1. j \in 1..Len(s) /\ t[j] = s[j]
        BY <3>1, <1>1, <1>7
      <4>2. QED
        BY <4>1, <1>1 DEF ToSet
    <3>2. CASE j = i
      BY <3>2, <1>1, <1>7
    <3>3. CASE j > i
      <4>1. j - 1 \in 1..Len(s) /\ t[j] = s[j - 1]
        BY <3>3, <1>1, <1>7
      <4>2. QED
        BY <4>1, <1>1 DEF ToSet
    <3>4. QED
      BY <3>1, <3>2, <3>3, <1>1
  <2>2. ASSUME NEW k \in 1..Len(s) PROVE s[k] \in ToSet(t)
    <3>1. CASE k < i
      BY <3>1, <1>1, <1>7, <1>8 DEF ToSet
    <3>2. CASE ~(k < i)
      <4>1. k + 1 \in 1..(Len(s) + 1) /\ t[k + 1] = s[k]
        BY <3>2, <1>1, <1>7
      <4>2. QED
        BY <4>1, <1>8 DEF ToSet
    <3>3. QED
      BY <3>1, <3>2
  <2>3. e \in ToSet(t)
    BY <1>1, <1>7, <1>8 DEF ToSet
  <2>4. QED
    BY <2>1, <2>2, <2>3, <1>1, <1>8 DEF ToSet
<1>10. ASSUME IsInjective(s), e \notin ToSet(s) PROVE IsInjective(t)
  <2>1. \A j \in 1..Len(s) : s[j] # e
    BY <1>1, <1>10 DEF ToSet
  <2>2. \A j, k \in 1..Len(s) : s[j] = s[k] => j = k
    BY <1>1, <1>10 DEF IsInjective
  <2>3. ASSUME NEW j \in 1..(Len(s) + 1), NEW k \in 1..(Len(s) + 1), j < k
        PROVE  t[j] # t[k]
    <3>1. CASE k < i
      BY <3>1, <2>2, <2>3, <1>1, <1>7
    <3>2. CASE k = i
      BY <3>2, <2>1, <2>3, <1>1, <1>7
    <3>3. CASE k > i
      <4>1. k - 1 \in 1..Len(s) /\ t[k] = s[k - 1]
        BY <3>3, <1>1, <1>7
      <4>2. CASE j < i
        BY <4>1, <4>2, <3>3, <2>2, <1>1, <1>7
      <4>3. CASE j = i
        BY <4>1, <4>3, <2>1, <1>1, <1>7
      <4>4. CASE j > i
        BY <4>1, <4>4, <2>2, <2>3, <1>1, <1>7
      <4>5. QED
        BY <4>2, <4>3, <4>4, <1>1
    <3>4. QED
      BY <3>1, <3>2, <3>3, <1>1
  <2>4. QED
    BY <2>3, <1>1, <1>8 DEF IsInjective
<1>11. QED
  BY <1>7, <1>9, <1>10 DEF t

\* What is removed from a place of a sequence without repetition is gone, and
\* nothing else is.
LEMMA RemoveAtFacts ==
  ASSUME NEW U, NEW s \in Seq(U), NEW i \in 1..Len(s)
  PROVE  /\ RemoveAt(s, i) \in Seq(U)
         /\ Len(RemoveAt(s, i)) = Len(s) - 1
         /\ IsInjective(s) => /\ ToSet(RemoveAt(s, i)) = ToSet(s) \ {s[i]}
                              /\ IsInjective(RemoveAt(s, i))
<1> DEFINE before == SubSeq(s, 1, i - 1)
           after  == SubSeq(s, i + 1, Len(s))
           t      == RemoveAt(s, i)
<1>1. Len(s) \in Nat /\ DOMAIN s = 1..Len(s) /\ \A j \in 1..Len(s) : s[j] \in U
  BY LenProperties
<1>2. /\ before \in Seq(U) /\ Len(before) = i - 1
      /\ \A j \in 1..(i - 1) : before[j] = s[j]
  <2>1. i - 1 \in Int /\ \A j \in 1..(i - 1) : s[j] \in U
    BY <1>1
  <2>2. /\ SubSeq(s, 1, i - 1) \in Seq(U)
        /\ Len(SubSeq(s, 1, i - 1)) = IF 1 <= i - 1 THEN (i - 1) - 1 + 1 ELSE 0
        /\ \A j \in 1..((i - 1) - 1 + 1) : SubSeq(s, 1, i - 1)[j] = s[1 + j - 1]
    BY <2>1, SubSeqProperties
  <2>3. QED
    BY <2>2, <1>1
<1>3. /\ after \in Seq(U) /\ Len(after) = Len(s) - i
      /\ \A j \in 1..(Len(s) - i) : after[j] = s[i + j]
  <2>1. Len(s) \in Int /\ i + 1 \in Int /\ \A j \in (i + 1)..Len(s) : s[j] \in U
    BY <1>1
  <2>2. /\ SubSeq(s, i + 1, Len(s)) \in Seq(U)
        /\ Len(SubSeq(s, i + 1, Len(s)))
             = IF i + 1 <= Len(s) THEN Len(s) - (i + 1) + 1 ELSE 0
        /\ \A j \in 1..(Len(s) - (i + 1) + 1) :
              SubSeq(s, i + 1, Len(s))[j] = s[(i + 1) + j - 1]
    BY <2>1, SubSeqProperties
  <2>3. QED
    BY <2>2, <1>1
<1> HIDE DEF before, after
<1>4. t = before \o after
  BY DEF RemoveAt, before, after
<1>5. /\ t \in Seq(U) /\ Len(t) = Len(s) - 1
      /\ \A j \in 1..(Len(s) - 1) : t[j] = IF j < i THEN s[j] ELSE s[j + 1]
  <2>1. /\ before \o after \in Seq(U)
        /\ Len(before \o after) = Len(before) + Len(after)
        /\ \A j \in 1..Len(before) + Len(after) :
              (before \o after)[j] = IF j <= Len(before) THEN before[j]
                                     ELSE after[j - Len(before)]
    BY <1>2, <1>3, ConcatProperties
  <2>2. ASSUME NEW j \in i..(Len(s) - 1) PROVE after[j - (i - 1)] = s[j + 1]
    <3>1. j - (i - 1) \in 1..(Len(s) - i) /\ i + (j - (i - 1)) = j + 1
      BY <1>1, SMT
    <3>2. QED
      BY <3>1, <1>3
  <2>3. Len(before) + Len(after) = Len(s) - 1
    BY <1>1, <1>2, <1>3
  <2>4. \A j \in 1..(Len(s) - 1) :
           t[j] = IF j <= i - 1 THEN before[j] ELSE after[j - (i - 1)]
    BY <2>1, <2>3, <1>2, <1>4
  <2>5. t \in Seq(U) /\ Len(t) = Len(s) - 1
    BY <2>1, <2>3, <1>4
  <2> HIDE DEF t
  <2>6. ASSUME NEW j \in 1..(Len(s) - 1) PROVE t[j] = IF j < i THEN s[j] ELSE s[j + 1]
    <3>1. CASE j < i
      <4>1. j <= i - 1 /\ j \in 1..(i - 1)
        BY <3>1, <1>1, SMT
      <4>2. QED
        BY <4>1, <3>1, <2>4, <1>2
    <3>2. CASE ~(j < i)
      <4>1. ~(j <= i - 1) /\ j \in i..(Len(s) - 1)
        BY <3>2, <1>1, SMT
      <4>2. QED
        BY <4>1, <3>2, <2>4, <2>2
    <3>3. QED
      BY <3>1, <3>2
  <2>7. QED
    BY <2>5, <2>6
<1> HIDE DEF t
<1>6. DOMAIN t = 1..(Len(s) - 1)
  BY <1>5, LenProperties
<1>7. ASSUME IsInjective(s) PROVE ToSet(t) = ToSet(s) \ {s[i]} /\ IsInjective(t)
  <2>1. \A j, k \in 1..Len(s) : s[j] = s[k] => j = k
    BY <1>1, <1>7 DEF IsInjective
  <2>2. ASSUME NEW j \in 1..(Len(s) - 1) PROVE t[j] \in ToSet(s) \ {s[i]}
    <3>1. CASE j < i
      <4>1. j \in 1..Len(s) /\ j # i /\ t[j] = s[j]
        BY <3>1, <1>1, <1>5
      <4>2. QED
        BY <4>1, <2>1, <1>1 DEF ToSet
    <3>2. CASE ~(j < i)
      <4>1. j + 1 \in 1..Len(s) /\ j + 1 # i /\ t[j] = s[j + 1]
        BY <3>2, <1>1, <1>5
      <4>2. QED
        BY <4>1, <2>1, <1>1 DEF ToSet
    <3>3. QED
      BY <3>1, <3>2
  <2>3. ASSUME NEW k \in 1..Len(s), k # i PROVE s[k] \in ToSet(t)
    <3>1. CASE k < i
      <4>1. k \in 1..(Len(s) - 1) /\ t[k] = s[k]
        BY <3>1, <1>1, <1>5
      <4>2. QED
        BY <4>1, <1>6 DEF ToSet
    <3>2. CASE k > i
      <4>1. k - 1 \in 1..(Len(s) - 1) /\ t[k - 1] = s[k]
        BY <3>2, <1>1, <1>5
      <4>2. QED
        BY <4>1, <1>6 DEF ToSet
    <3>3. QED
      BY <2>3, <3>1, <3>2, <1>1
  <2>4. ToSet(t) = ToSet(s) \ {s[i]}
    BY <2>2, <2>3, <1>1, <1>6 DEF ToSet
  <2>5. ASSUME NEW j \in 1..(Len(s) - 1), NEW k \in 1..(Len(s) - 1), j < k
        PROVE  t[j] # t[k]
    <3>1. /\ j \in 1..Len(s) /\ j + 1 \in 1..Len(s)
          /\ k \in 1..Len(s) /\ k + 1 \in 1..Len(s)
      BY <1>1
    <3>2. CASE k < i
      BY <3>1, <3>2, <2>1, <2>5, <1>1, <1>5
    <3>3. CASE ~(k < i) /\ j < i
      BY <3>1, <3>3, <2>1, <2>5, <1>1, <1>5
    <3>4. CASE ~(k < i) /\ ~(j < i)
      BY <3>1, <3>4, <2>1, <2>5, <1>1, <1>5
    <3>5. QED
      BY <3>2, <3>3, <3>4
  <2>6. IsInjective(t)
    BY <2>5, <1>1, <1>6 DEF IsInjective
  <2>7. QED
    BY <2>4, <2>6
<1>8. QED
  BY <1>5, <1>7 DEF t

-----------------------------------------------------------------------------
(* Concatenation, element by element, and flattening. *)

\* A sequence whose elements are those of one sequence, then those of another.
LEMMA ConcatByElements ==
  ASSUME NEW S, NEW u \in Seq(S), NEW v \in Seq(S), NEW w \in Seq(S),
         Len(w) = Len(u) + Len(v),
         \A i \in 1..Len(u) : w[i] = u[i],
         \A i \in 1..Len(v) : w[Len(u) + i] = v[i]
  PROVE  w = u \o v
<1>1. Len(u) \in Nat /\ Len(v) \in Nat
  BY LenProperties
<1>2. /\ u \o v \in Seq(S) /\ Len(u \o v) = Len(u) + Len(v)
      /\ \A i \in 1..Len(u) + Len(v) :
            (u \o v)[i] = IF i <= Len(u) THEN u[i] ELSE v[i - Len(u)]
  BY ConcatProperties
<1>3. ASSUME NEW i \in 1..Len(w) PROVE w[i] = (u \o v)[i]
  <2>1. i \in 1..Len(u) + Len(v)
    OBVIOUS
  <2>2. CASE i <= Len(u)
    <3>1. i \in 1..Len(u)
      BY <2>1, <2>2, <1>1
    <3>2. QED
      BY <3>1, <2>1, <2>2, <1>2
  <2>3. CASE ~(i <= Len(u))
    <3>1. i - Len(u) \in 1..Len(v) /\ Len(u) + (i - Len(u)) = i
      BY <2>1, <2>3, <1>1
    <3>2. w[Len(u) + (i - Len(u))] = v[i - Len(u)]
      BY <3>1
    <3>3. QED
      BY <3>1, <3>2, <2>1, <2>3, <1>2
  <2>4. QED
    BY <2>2, <2>3
<1>4. QED
  BY <1>2, <1>3, SeqEqual

\* Flattening one sequence more.
LEMMA FlattenAppend ==
  ASSUME NEW S, NEW ss \in Seq(Seq(S)), NEW s \in Seq(S)
  PROVE  FlattenSeq(Append(ss, s)) = FlattenSeq(ss) \o s
<1> DEFINE n == Len(ss)
           t == Append(ss, s)
<1>1. /\ n \in Nat /\ t \in Seq(Seq(S)) /\ Len(t) = n + 1
      /\ \A i \in 1..n : t[i] = ss[i]
      /\ t[n + 1] = s
  BY LenProperties, AppendProperties
<1> HIDE DEF t
<1>2. PICK F : /\ FlattenSeq(t) = F[Len(t)]
               /\ \A k \in 1..Len(t) : F[k] = IF k = 1 THEN t[k] ELSE F[k-1] \o t[k]
  <2>1. Len(t) # 0
    BY <1>1
  <2> HIDE DEF n
  <2>2. QED
    BY <1>1, <2>1, FlattenSteps, Zenon
<1>3. CASE n = 0
  <2>1. ss = <<>> /\ FlattenSeq(ss) = <<>>
    BY <1>3, EmptySeq DEF FlattenSeq
  <2>2. Len(t) = 1 /\ F[1] = t[1] /\ t[1] = s
    BY <1>1, <1>2, <1>3
  <2>3. <<>> \o s = s
    BY ConcatEmptySeq
  <2>4. QED
    BY <1>2, <2>1, <2>2, <2>3 DEF t
<1>4. CASE n # 0
  <2>1. PICK G : /\ FlattenSeq(ss) = G[n]
                 /\ \A k \in 1..n : G[k] = IF k = 1 THEN ss[k] ELSE G[k-1] \o ss[k]
    BY <1>4, FlattenSteps
  <2> DEFINE T == {k \in 1..n : F[k] # G[k]}
  <2> HIDE DEF n
  <2>2. T = {}
    <3> SUFFICES ASSUME T # {} PROVE FALSE
      OBVIOUS
    <3>1. T \in SUBSET Nat
      BY <1>1
    <3>2. PICK m \in T : \A k \in T : m <= k
      <4> HIDE DEF T
      <4> QED
        BY <3>1, LeastNatural
    <3>3. m \in 1..n /\ F[m] # G[m] /\ m \in 1..Len(t) /\ t[m] = ss[m]
      BY <1>1
    <3>4. CASE m = 1
      BY <3>3, <3>4, <1>2, <2>1
    <3>5. CASE m # 1
      <4>1. m - 1 \in 1..n /\ ~(m <= m - 1)
        BY <3>3, <3>5, <1>1
      <4>2. F[m - 1] = G[m - 1]
        BY <3>2, <4>1
      <4>3. F[m] = F[m-1] \o t[m] /\ G[m] = G[m-1] \o ss[m]
        BY <3>3, <3>5, <1>2, <2>1
      <4>4. QED
        BY <3>3, <4>2, <4>3
    <3>6. QED
      BY <3>4, <3>5
  <2>3. n \in 1..n /\ n + 1 \in 1..Len(t) /\ n + 1 # 1 /\ (n + 1) - 1 = n
    BY <1>1, <1>4
  <2>4. F[n] = G[n]
    BY <2>2, <2>3
  <2>5. F[n + 1] = F[n] \o s
    BY <1>1, <1>2, <2>3
  <2>6. QED
    BY <1>1, <1>2, <2>1, <2>4, <2>5 DEF t
<1>5. QED
  BY <1>3, <1>4

\* Flattening distributes over concatenation.
LEMMA FlattenConcat ==
  ASSUME NEW S, NEW u \in Seq(Seq(S)), NEW v \in Seq(Seq(S))
  PROVE  FlattenSeq(u \o v) = FlattenSeq(u) \o FlattenSeq(v)
<1> DEFINE front(k) == SubSeq(v, 1, k)
           T == {k \in 0..Len(v) :
                    FlattenSeq(u \o front(k)) # FlattenSeq(u) \o FlattenSeq(front(k))}
<1>1. Len(v) \in Nat /\ FlattenSeq(u) \in Seq(S)
  BY LenProperties, FlattenType
<1>2. ASSUME NEW k \in 0..Len(v) PROVE front(k) \in Seq(Seq(S))
  <2>1. \A i \in 1..k : v[i] \in Seq(S)
    BY <1>1, ElementOfSeq
  <2>2. QED
    BY <2>1, <1>1, SubSeqProperties
<1>3. T = {}
  <2> SUFFICES ASSUME T # {} PROVE FALSE
    OBVIOUS
  <2>1. T \in SUBSET Nat
    BY <1>1
  <2>2. PICK m \in T : \A k \in T : m <= k
    <3> HIDE DEF T
    <3> QED
      BY <2>1, LeastNatural
  <2>3. /\ m \in 0..Len(v)
        /\ FlattenSeq(u \o front(m)) # FlattenSeq(u) \o FlattenSeq(front(m))
    OBVIOUS
  <2>4. CASE m = 0
    <3>1. front(m) = <<>>
      BY <2>4, SubSeqEmpty
    <3>2. u \o <<>> = u /\ FlattenSeq(u) \o <<>> = FlattenSeq(u)
      BY <1>1, ConcatEmptySeq
    <3>3. FlattenSeq(<<>>) = <<>>
      BY DEF FlattenSeq
    <3>4. QED
      BY <2>3, <3>1, <3>2, <3>3
  <2>5. CASE m # 0
    <3> DEFINE x == front(m - 1)
               e == v[m]
    <3>1. /\ m \in 1..Len(v) /\ m - 1 \in 0..Len(v) /\ ~(m <= m - 1)
          /\ 1 \in 1..Len(v) /\ m \in 1..Len(v)
      BY <2>3, <2>5, <1>1
    <3>2. FlattenSeq(u \o x) = FlattenSeq(u) \o FlattenSeq(x)
      BY <2>2, <3>1
    <3>3. x \in Seq(Seq(S)) /\ e \in Seq(S)
      BY <1>2, <3>1, ElementOfSeq
    <3>4. front(m) = x \o <<e>>
      BY <3>1, SubSeqRecursiveSecond
    <3> HIDE DEF x, e, T
    <3>5. Append(x, e) = x \o <<e>> /\ <<e>> \in Seq(Seq(S))
      BY <3>3, AppendIsConcat
    <3>6. u \o x \in Seq(Seq(S)) /\ Append(u \o x, e) = (u \o x) \o <<e>>
      BY <3>3, ConcatProperties, AppendIsConcat
    <3>7. (u \o x) \o <<e>> = u \o (x \o <<e>>)
      BY <3>3, <3>5, ConcatAssociative
    <3>8. FlattenSeq(u \o front(m)) = FlattenSeq(u \o x) \o e
      <4>1. FlattenSeq(Append(u \o x, e)) = FlattenSeq(u \o x) \o e
        BY <3>3, <3>6, FlattenAppend
      <4>2. QED
        BY <4>1, <3>4, <3>6, <3>7
    <3>9. FlattenSeq(front(m)) = FlattenSeq(x) \o e
      <4>1. FlattenSeq(Append(x, e)) = FlattenSeq(x) \o e
        BY <3>3, FlattenAppend
      <4>2. QED
        BY <4>1, <3>4, <3>5
    <3>10. FlattenSeq(x) \in Seq(S)
      BY <3>3, FlattenType
    <3>11. (FlattenSeq(u) \o FlattenSeq(x)) \o e = FlattenSeq(u) \o (FlattenSeq(x) \o e)
      <4>1. \A a, b, c \in Seq(S) : (a \o b) \o c = a \o (b \o c)
        BY ConcatAssociative
      <4>2. QED
        BY <1>1, <3>3, <3>10, <4>1, Zenon
    <3>12. QED
      BY <2>3, <3>2, <3>8, <3>9, <3>11
  <2>6. QED
    BY <2>4, <2>5
<1>4. front(Len(v)) = v /\ Len(v) \in 0..Len(v)
  BY <1>1, SubSeqFull
<1>5. QED
  <2>1. FlattenSeq(u \o front(Len(v))) = FlattenSeq(u) \o FlattenSeq(front(Len(v)))
    BY <1>3, <1>4
  <2> HIDE DEF front
  <2>2. QED
    BY <2>1, <1>4

\* Flattening one sequence returns it, and flattening two concatenates them.
LEMMA FlattenSmall ==
  ASSUME NEW S, NEW s \in Seq(S), NEW t \in Seq(S)
  PROVE  /\ FlattenSeq(<<>>) = <<>>
         /\ FlattenSeq(<<s>>) = s
         /\ FlattenSeq(<<s, t>>) = s \o t
<1>1. FlattenSeq(<<>>) = <<>> /\ <<>> \in Seq(Seq(S))
  BY DEF FlattenSeq
<1>2. <<s>> \in Seq(Seq(S)) /\ Append(<<>>, s) = <<s>> /\ Append(<<s>>, t) = <<s, t>>
  <2> DEFINE U == Seq(S)
  <2>1. s \in U /\ t \in U
    OBVIOUS
  <2> HIDE DEF U
  <2>2. <<s>> \in Seq(U)
    BY <2>1
  <2>3. Append(<<>>, s) = <<s>>
    BY <2>1
  <2>4. Append(<<s>>, t) = <<s, t>>
    <3>1. /\ Append(<<s>>, t) \in Seq(U) /\ Len(Append(<<s>>, t)) = 2
          /\ Append(<<s>>, t)[1] = s /\ Append(<<s>>, t)[2] = t
      BY <2>1, <2>2, AppendProperties
    <3>2. /\ <<s, t>> \in Seq(U) /\ Len(<<s, t>>) = 2
          /\ <<s, t>>[1] = s /\ <<s, t>>[2] = t
      BY <2>1
    <3>3. \A i \in 1..2 : i = 1 \/ i = 2
      OBVIOUS
    <3>4. QED
      BY <3>1, <3>2, <3>3, SeqEqual
  <2>5. QED
    BY <2>2, <2>3, <2>4 DEF U
<1>3. FlattenSeq(Append(<<>>, s)) = <<>> \o s
  BY <1>1, FlattenAppend
<1>4. <<>> \o s = s
  BY ConcatEmptySeq
<1>5. FlattenSeq(Append(<<s>>, t)) = FlattenSeq(<<s>>) \o t
  BY <1>2, FlattenAppend
<1>6. QED
  BY <1>1, <1>2, <1>3, <1>4, <1>5

\* Flattening sequences that are all empty.
LEMMA FlattenEmpties ==
  ASSUME NEW S, NEW ss \in Seq(Seq(S)), \A i \in 1..Len(ss) : ss[i] = <<>>
  PROVE  FlattenSeq(ss) = <<>>
<1>1. Len(ss) \in Nat /\ <<>> \o <<>> = <<>>
  BY LenProperties
<1>2. CASE Len(ss) = 0
  BY <1>2, EmptySeq DEF FlattenSeq
<1>3. CASE Len(ss) # 0
  <2>1. PICK F : /\ FlattenSeq(ss) = F[Len(ss)]
                 /\ \A k \in 1..Len(ss) : F[k] = IF k = 1 THEN ss[k] ELSE F[k-1] \o ss[k]
    BY <1>3, FlattenSteps
  <2> DEFINE T == {k \in 1..Len(ss) : F[k] # <<>>}
  <2>2. T = {}
    <3> SUFFICES ASSUME T # {} PROVE FALSE
      OBVIOUS
    <3>1. T \in SUBSET Nat
      BY <1>1
    <3>2. PICK m \in T : \A k \in T : m <= k
      <4> HIDE DEF T
      <4> QED
        BY <3>1, LeastNatural
    <3>3. m \in 1..Len(ss) /\ F[m] # <<>> /\ ss[m] = <<>>
      OBVIOUS
    <3>4. m # 1
      BY <3>3, <2>1
    <3>5. m - 1 \in 1..Len(ss) /\ ~(m <= m - 1)
      BY <3>3, <3>4, <1>1
    <3>6. F[m - 1] = <<>>
      BY <3>2, <3>5
    <3>7. QED
      BY <3>3, <3>4, <3>6, <2>1, <1>1
  <2>3. Len(ss) \in 1..Len(ss)
    BY <1>1, <1>3
  <2>4. QED
    BY <2>1, <2>2, <2>3
<1>4. QED
  BY <1>2, <1>3

\* A function that starts from base and takes a step from each value to the next,
\* as long as the values are in D.
Follows(f, D, base, n, step) ==
    /\ f[0] = base
    /\ \A k \in 1..n : f[k - 1] \in D => f[k] = step[k][f[k - 1]]

Recursion(f, D, base, n, step) ==
    /\ f \in [0..n -> D] /\ Follows(f, D, base, n, step)
    /\ \A g : Follows(g, D, base, n, step) => \A k \in 0..n : g[k] = f[k]

\* There is such a function, and only one: what a recursive function is equal to
\* can be taken from it.
LEMMA RecursionFacts ==
  ASSUME NEW D, NEW base \in D, NEW n \in Nat, NEW step \in [1..n -> [D -> D]]
  PROVE  \E f : Recursion(f, D, base, n, step)
<1> DEFINE Upto(f, m) == /\ f \in [0..m -> D] /\ f[0] = base
                         /\ \A k \in 1..m : f[k] = step[k][f[k - 1]]
           T == {m \in 0..n : ~ \E f : Upto(f, m)}
<1>1. \E f : Upto(f, n)
  <2>1. SUFFICES ASSUME T # {} PROVE FALSE
    <3> HIDE DEF Upto
    <3> QED
      OBVIOUS
  <2>2. T \in SUBSET Nat
    OBVIOUS
  <2>3. PICK m \in T : \A k \in T : m <= k
    <3> HIDE DEF T
    <3> QED
      BY <2>1, <2>2, LeastNatural
  <2>4. m \in 0..n /\ ~ \E f : Upto(f, m)
    BY <2>3
  <2>5. Upto([k \in 0..0 |-> base], 0)
    OBVIOUS
  <2>6. m # 0
    <3> HIDE DEF Upto
    <3> QED
      BY <2>4, <2>5
  <2>7. m - 1 \in 0..n /\ m - 1 \notin T /\ m \in 1..n
    <3> HIDE DEF T
    <3> QED
      BY <2>3, <2>4, <2>6
  <2>8. PICK f : Upto(f, m - 1)
    BY <2>7
  <2> DEFINE g == [k \in 0..m |-> IF k = m THEN step[m][f[m - 1]] ELSE f[k]]
  <2>9. f[m - 1] \in D /\ step[m][f[m - 1]] \in D
    BY <2>7, <2>8
  <2>10. /\ g \in [0..m -> D] /\ g[0] = base
         /\ g[m] = step[m][f[m - 1]] /\ \A k \in 0..(m - 1) : g[k] = f[k]
    BY <2>7, <2>8, <2>9
  <2> HIDE DEF g
  <2>11. ASSUME NEW k \in 1..m PROVE g[k] = step[k][g[k - 1]]
    <3>1. CASE k = m
      BY <3>1, <2>7, <2>10
    <3>2. CASE k # m
      <4>1. k \in 1..(m - 1) /\ k \in 0..(m - 1) /\ k - 1 \in 0..(m - 1)
        BY <3>2, <2>7
      <4>2. QED
        BY <4>1, <2>8, <2>10
    <3>3. QED
      BY <3>1, <3>2
  <2>12. Upto(g, m)
    BY <2>10, <2>11
  <2>13. QED
    <3> HIDE DEF Upto
    <3> QED
      BY <2>4, <2>12
<1>2. PICK f : Upto(f, n)
  BY <1>1
<1>3. ASSUME NEW g, Follows(g, D, base, n, step)
      PROVE  \A k \in 0..n : g[k] = f[k]
  <2> DEFINE U == {k \in 0..n : g[k] # f[k]}
  <2>1. SUFFICES ASSUME U # {} PROVE FALSE
    BY DEF U
  <2>2. U \in SUBSET Nat
    OBVIOUS
  <2>3. PICK m \in U : \A k \in U : m <= k
    <3> HIDE DEF U
    <3> QED
      BY <2>1, <2>2, LeastNatural
  <2>4. m \in 0..n /\ g[m] # f[m]
    BY <2>3
  <2>5. m \in 1..n
    BY <2>4, <1>2, <1>3 DEF Follows
  <2>6. m - 1 \in 0..n /\ m - 1 \notin U
    <3> HIDE DEF U
    <3> QED
      BY <2>3, <2>5
  <2>7. g[m - 1] = f[m - 1] /\ f[m - 1] \in D
    BY <2>6, <1>2
  <2>8. g[m] = step[m][g[m - 1]] /\ f[m] = step[m][f[m - 1]]
    BY <2>5, <2>7, <1>2, <1>3 DEF Follows
  <2>9. QED
    BY <2>4, <2>7, <2>8
<1>4. Follows(f, D, base, n, step)
  BY <1>2 DEF Follows
<1>5. Recursion(f, D, base, n, step)
  BY <1>2, <1>3, <1>4 DEF Recursion
<1>6. QED
  BY <1>5
=============================================================================
