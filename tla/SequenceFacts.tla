--------------------------- MODULE SequenceFacts ---------------------------
(***************************************************************************)
(* What the proofs of several components need of naturals, finite sets and *)
(* filtered sequences.  The induction theorems of the library take a       *)
(* predicate; here induction is stated over sets instead, from the least   *)
(* element of a set of naturals.                                           *)
(***************************************************************************)
EXTENDS Filtering, Pieces, Integers, FiniteSets, FiniteSetsExt, SequencesExt, FiniteSetTheorems,
        SequenceTheorems, WellFoundedInduction, TLAPS

-----------------------------------------------------------------------------
(* Induction, over sets instead of predicates. *)

Less == {ss \in Nat \X Nat : ss[1] < ss[2]}

\* Every non-empty set of naturals has a least element.
LEMMA LeastNatural ==
  ASSUME NEW S \in SUBSET Nat, S # {}
  PROVE  \E m \in S : \A n \in S : m <= n
<1>1. OpToRel(<, Nat) = Less
  BY DEF OpToRel, Less
<1>2. IsWellFoundedOn(Less, Nat)
  BY <1>1, NatLessThanWellFounded
<1>3. PICK m \in S : \A n \in S : <<n, m>> \notin Less
  BY <1>2, WFMin
<1>4. ASSUME NEW n \in S PROVE m <= n
  <2>1. <<n, m>> \in Nat \X Nat /\ <<n, m>>[1] = n /\ <<n, m>>[2] = m
    OBVIOUS
  <2>2. ~(n < m)
    BY <1>3, <1>4, <2>1 DEF Less
  <2> QED
    BY <2>2
<1> QED
  BY <1>4

\* A set with 0 and every successor of its elements is all of Nat.
LEMMA NatInductionSet ==
  ASSUME NEW S, 0 \in S, \A n \in Nat : n \in S => n + 1 \in S
  PROVE  Nat \subseteq S
<1> SUFFICES ASSUME Nat \ S # {} PROVE FALSE
  OBVIOUS
<1>1. PICK m \in Nat \ S : \A n \in Nat \ S : m <= n
  BY LeastNatural
<1>2. m # 0 /\ m - 1 \in Nat /\ m - 1 \notin Nat \ S
  BY <1>1
<1> QED
  BY <1>1, <1>2

\* A family of subsets of a finite set closed under one more element has it all.
LEMMA SubsetInduction ==
  ASSUME NEW D, IsFiniteSet(D), NEW F, {} \in F,
         \A T \in SUBSET D : \A x \in D \ T : T \in F => T \cup {x} \in F
  PROVE  SUBSET D \subseteq F
<1> DEFINE N == {n \in Nat : \A T \in SUBSET D : Cardinality(T) = n => T \in F}
<1>0. \A T \in SUBSET D : IsFiniteSet(T) /\ Cardinality(T) \in Nat
  BY FS_Subset, FS_CardinalityType
<1>1. 0 \in N
  BY <1>0, FS_EmptySet
<1>2. ASSUME NEW n \in Nat, n \in N PROVE n + 1 \in N
  <2> SUFFICES ASSUME NEW T \in SUBSET D, Cardinality(T) = n + 1 PROVE T \in F
    OBVIOUS
  <2>0. IsFiniteSet(T) /\ Cardinality(T) # 0
    BY <1>0
  <2>1. PICK x : x \in T
    <3>1. T # {}
      BY <2>0, FS_EmptySet
    <3> QED
      BY <3>1
  <2>2. T \ {x} \in SUBSET D /\ Cardinality(T \ {x}) = n
    <3>1. Cardinality(T \ {x}) = Cardinality(T) - 1
      BY <2>0, <2>1, FS_RemoveElement
    <3> QED
      BY <3>1
  <2>3. T \ {x} \in F
    BY <1>2, <2>2
  <2>4. (T \ {x}) \cup {x} \in F
    BY <2>1, <2>2, <2>3
  <2> QED
    BY <2>1, <2>4
<1>3. Nat \subseteq N
  <2> HIDE DEF N
  <2> QED
    BY <1>1, <1>2, NatInductionSet
<1> QED
  BY <1>0, <1>3

-----------------------------------------------------------------------------
(* Filtering a sequence. *)

\* The table the filter is read from.
Filtered(s, U) == CHOOSE g : g = [i \in 0..Len(s) |->
                    IF i = 0 THEN <<>> ELSE IF s[i] \in U THEN Append(g[i - 1], s[i]) ELSE g[i - 1]]

\* The filter of the model read as a table.
LEMMA OnlyIsFiltered ==
  ASSUME NEW s, NEW U
  PROVE  Only(s, U) = Filtered(s, U)[Len(s)]
BY DEF Only, Filtered

FilteredTo(g, s, U, n) ==
  \A i \in 0..n : g[i] = IF i = 0 THEN <<>> ELSE IF s[i] \in U THEN Append(g[i - 1], s[i]) ELSE g[i - 1]

\* The table exists up to every length.
LEMMA FilterTableExists ==
  ASSUME NEW s, NEW U
  PROVE  \A n \in Nat : \E g : DOMAIN g = 0..n /\ FilteredTo(g, s, U, n)
<1> DEFINE N == {n \in Nat : \E g : DOMAIN g = 0..n /\ FilteredTo(g, s, U, n)}
<1>1. 0 \in N
  <2>1. DOMAIN [i \in 0..0 |-> <<>>] = 0..0 /\ FilteredTo([i \in 0..0 |-> <<>>], s, U, 0)
    BY DEF FilteredTo
  <2> QED
    BY <2>1
<1>2. ASSUME NEW n \in Nat, n \in N PROVE n + 1 \in N
  <2>1. PICK g : DOMAIN g = 0..n /\ FilteredTo(g, s, U, n)
    BY <1>2
  <2> DEFINE e == IF s[n + 1] \in U THEN Append(g[n], s[n + 1]) ELSE g[n]
  <2> DEFINE h == [i \in 0..(n + 1) |-> IF i = n + 1 THEN e ELSE g[i]]
  <2>2. ASSUME NEW i \in 0..(n + 1)
        PROVE  h[i] = IF i = 0 THEN <<>> ELSE IF s[i] \in U THEN Append(h[i - 1], s[i]) ELSE h[i - 1]
    <3>1. CASE i = n + 1
      <4>1. h[i] = e /\ h[i - 1] = g[n] /\ i # 0
        BY <3>1
      <4> QED
        BY <3>1, <4>1
    <3>2. CASE i \in 0..n
      <4>1. h[i] = g[i] /\ (i # 0 => h[i - 1] = g[i - 1])
        BY <3>2
      <4>2. g[i] = IF i = 0 THEN <<>> ELSE IF s[i] \in U THEN Append(g[i - 1], s[i]) ELSE g[i - 1]
        BY <2>1, <3>2 DEF FilteredTo
      <4> QED
        BY <4>1, <4>2
    <3> QED
      BY <3>1, <3>2
  <2>3. DOMAIN h = 0..(n + 1) /\ FilteredTo(h, s, U, n + 1)
    BY <2>2 DEF FilteredTo
  <2> QED
    BY <2>3
<1>3. Nat \subseteq N
  <2> HIDE DEF N
  <2> QED
    BY <1>1, <1>2, NatInductionSet
<1> QED
  BY <1>3

\* So it satisfies its recursive equation.
LEMMA FilteredUnfold ==
  ASSUME NEW E, NEW s \in Seq(E), NEW U
  PROVE  FilteredTo(Filtered(s, U), s, U, Len(s))
<1>1. PICK g : DOMAIN g = 0..Len(s) /\ FilteredTo(g, s, U, Len(s))
  BY LenProperties, FilterTableExists
<1> DEFINE Body(u) == [i \in 0..Len(s) |->
                         IF i = 0 THEN <<>> ELSE IF s[i] \in U THEN Append(u[i - 1], s[i]) ELSE u[i - 1]]
<1>2. PICK h : h = [i \in 0..Len(s) |-> g[i]]
  OBVIOUS
<1>3. h = Body(h)
  <2>1. ASSUME NEW i \in 0..Len(s) PROVE h[i] = Body(h)[i]
    <3>1. g[i] = IF i = 0 THEN <<>> ELSE IF s[i] \in U THEN Append(g[i - 1], s[i]) ELSE g[i - 1]
      BY <1>1 DEF FilteredTo
    <3>2. h[i] = g[i] /\ (i # 0 => h[i - 1] = g[i - 1])
      BY <1>2, LenProperties
    <3> QED
      BY <3>1, <3>2
  <2>2. h = [i \in 0..Len(s) |-> h[i]]
    BY <1>2
  <2>3. [i \in 0..Len(s) |-> h[i]] = [i \in 0..Len(s) |-> Body(h)[i]]
    BY <2>1
  <2>4. [i \in 0..Len(s) |-> Body(h)[i]] = Body(h)
    OBVIOUS
  <2> QED
    BY <2>2, <2>3, <2>4
<1>4. Filtered(s, U) = Body(Filtered(s, U))
  BY <1>3 DEF Filtered
<1>5. \A i \in 0..Len(s) : Filtered(s, U)[i] = Body(Filtered(s, U))[i]
  BY <1>4
<1> HIDE DEF Body
<1>6. \A u : \A i \in 0..Len(s) : Body(u)[i] =
        IF i = 0 THEN <<>> ELSE IF s[i] \in U THEN Append(u[i - 1], s[i]) ELSE u[i - 1]
  BY DEF Body
<1>7. \A i \in 0..Len(s) : Filtered(s, U)[i] =
        IF i = 0 THEN <<>> ELSE IF s[i] \in U THEN Append(Filtered(s, U)[i - 1], s[i]) ELSE Filtered(s, U)[i - 1]
  BY <1>5, <1>6
<1> QED
  BY <1>7 DEF FilteredTo

\* The filter keeps exactly the elements in U, each as often as it was there.
LEMMA OnlyKeeps ==
  ASSUME NEW E, NEW s \in Seq(E), IsInjective(s), NEW U
  PROVE  /\ Only(s, U) \in Seq(E)
         /\ ToSet(Only(s, U)) = ToSet(s) \cap U
         /\ IsInjective(Only(s, U))
<1> DEFINE g == Filtered(s, U)
<1> DEFINE Good(i) == /\ g[i] \in Seq(E)
                      /\ ToSet(g[i]) = {s[j] : j \in 1..i} \cap U
                      /\ IsInjective(g[i])
<1> DEFINE N == {n \in Nat : n <= Len(s) => Good(n)}
<1>s. Len(s) \in Nat /\ DOMAIN s = 1..Len(s) /\ \A i \in 1..Len(s) : s[i] \in E
  BY LenProperties, ElementOfSeq
<1>g. /\ g[0] = <<>>
      /\ \A i \in 1..Len(s) : g[i] = IF s[i] \in U THEN Append(g[i - 1], s[i]) ELSE g[i - 1]
  BY <1>s, FilteredUnfold DEF FilteredTo
<1> HIDE DEF g
<1>1. 0 \in N
  <2>1. DOMAIN <<>> = {} /\ <<>> \in Seq(E)
    OBVIOUS
  <2>2. ToSet(<<>>) = {} /\ IsInjective(<<>>)
    BY <2>1 DEF ToSet, IsInjective
  <2>3. {s[j] : j \in 1..0} \cap U = {}
    OBVIOUS
  <2>4. Good(0)
    BY <1>g, <2>1, <2>2, <2>3
  <2> QED
    BY <2>4
<1>2. ASSUME NEW n \in Nat, n \in N PROVE n + 1 \in N
  <2> SUFFICES ASSUME n + 1 <= Len(s) PROVE Good(n + 1)
    OBVIOUS
  <2>1. n + 1 \in 1..Len(s) /\ (n + 1) - 1 = n /\ n <= Len(s)
    BY <1>s
  <2>2. Good(n)
    BY <1>2, <2>1
  <2>3. {s[j] : j \in 1..(n + 1)} = {s[j] : j \in 1..n} \cup {s[n + 1]}
    BY <1>s, <2>1
  <2>4. CASE s[n + 1] \notin U
    <3>1. g[n + 1] = g[n]
      BY <1>g, <2>1, <2>4
    <3>2. {s[j] : j \in 1..(n + 1)} \cap U = {s[j] : j \in 1..n} \cap U
      BY <2>3, <2>4
    <3> QED
      BY <2>2, <3>1, <3>2
  <2>5. CASE s[n + 1] \in U
    <3> DEFINE t == g[n]
    <3> DEFINE x == s[n + 1]
    <3>0. t \in Seq(E) /\ x \in E
      BY <1>s, <2>1, <2>2
    <3>1. g[n + 1] = Append(t, x)
      BY <1>g, <2>1, <2>5
    <3>2. x \notin ToSet(t)
      <4>1. ASSUME NEW j \in 1..n, s[j] = s[n + 1] PROVE FALSE
        <5>1. j \in DOMAIN s /\ n + 1 \in DOMAIN s /\ j # n + 1
          BY <1>s, <2>1
        <5> QED
          BY <4>1, <5>1 DEF IsInjective
      <4> QED
        BY <2>2, <4>1
    <3> HIDE DEF t, x
    <3>3. /\ Append(t, x) \in Seq(E) /\ Len(Append(t, x)) = Len(t) + 1 /\ Len(t) \in Nat
          /\ \A i \in 1..Len(t) : Append(t, x)[i] = t[i]
          /\ Append(t, x)[Len(t) + 1] = x
          /\ DOMAIN t = 1..Len(t) /\ DOMAIN Append(t, x) = 1..(Len(t) + 1)
      BY <3>0, AppendProperties, LenProperties
    <3>4. ToSet(Append(t, x)) = ToSet(t) \cup {x}
      BY <3>3 DEF ToSet
    <3>5. IsInjective(Append(t, x))
      <4>1. IsInjective(t)
        BY <2>2 DEF t
      <4> SUFFICES ASSUME NEW i \in 1..(Len(t) + 1), NEW j \in 1..(Len(t) + 1),
                          Append(t, x)[i] = Append(t, x)[j], i < j
                   PROVE  FALSE
        BY <3>3 DEF IsInjective
      <4>2. i \in 1..Len(t) /\ Append(t, x)[i] = t[i]
        BY <3>3
      <4>3. CASE j = Len(t) + 1
        BY <3>2, <3>3, <4>2, <4>3 DEF ToSet
      <4>4. CASE j \in 1..Len(t)
        <5>1. i \in DOMAIN t /\ j \in DOMAIN t /\ t[i] = t[j]
          BY <3>3, <4>2, <4>4
        <5> QED
          BY <4>1, <5>1 DEF IsInjective
      <4> QED
        BY <3>3, <4>3, <4>4
    <3>6. ToSet(t) = {s[j] : j \in 1..n} \cap U
      BY <2>2 DEF t
    <3>7. ({s[j] : j \in 1..n} \cap U) \cup {x} = {s[j] : j \in 1..(n + 1)} \cap U
      BY <2>3, <2>5 DEF x
    <3> QED
      BY <3>1, <3>3, <3>4, <3>5, <3>6, <3>7
  <2> QED
    BY <2>4, <2>5
<1>3. Nat \subseteq N
  <2> HIDE DEF N
  <2> QED
    BY <1>1, <1>2, NatInductionSet
<1> HIDE DEF Good
<1>4. Good(Len(s))
  BY <1>s, <1>3
<1>5. {s[j] : j \in 1..Len(s)} = ToSet(s)
  BY <1>s DEF ToSet
<1> QED
  BY <1>4, <1>5, OnlyIsFiltered DEF Good, g

\* Nothing is left of nothing.
LEMMA OnlyEmpty ==
  ASSUME NEW U
  PROVE  Only(<<>>, U) = <<>>
<1>1. <<>> \in Seq({}) /\ Len(<<>>) = 0 /\ 0 \in 0..0
  OBVIOUS
<1>2. FilteredTo(Filtered(<<>>, U), <<>>, U, Len(<<>>))
  BY <1>1, FilteredUnfold
<1>3. \A g : FilteredTo(g, <<>>, U, 0) => g[0] = <<>>
  BY <1>1 DEF FilteredTo
<1> QED
  BY <1>1, <1>2, <1>3, OnlyIsFiltered

\* The table of a longer sequence goes on where that of the shorter one ends.
LEMMA OnlyAppend ==
  ASSUME NEW E, NEW s \in Seq(E), NEW x \in E, NEW U
  PROVE  Only(Append(s, x), U) = IF x \in U THEN Append(Only(s, U), x) ELSE Only(s, U)
<1> DEFINE t == Append(s, x)
           g == Filtered(s, U)
           h == Filtered(t, U)
           N == {n \in Nat : n <= Len(s) => h[n] = g[n]}
<1>1. /\ Len(s) \in Nat /\ t \in Seq(E) /\ Len(t) = Len(s) + 1
      /\ \A i \in 1..Len(s) : t[i] = s[i]
      /\ t[Len(s) + 1] = x
  BY AppendProperties, LenProperties
<1>2. FilteredTo(g, s, U, Len(s)) /\ FilteredTo(h, t, U, Len(t))
  BY <1>1, FilteredUnfold
<1> HIDE DEF g, h, t
<1>3. 0 \in N
  BY <1>1, <1>2 DEF FilteredTo
<1>4. ASSUME NEW n \in Nat, n \in N PROVE n + 1 \in N
  <2> SUFFICES ASSUME n + 1 <= Len(s) PROVE h[n + 1] = g[n + 1]
    OBVIOUS
  <2>1. /\ n + 1 \in 0..Len(s) /\ n + 1 \in 0..Len(t) /\ (n + 1) - 1 = n /\ n + 1 # 0
        /\ n + 1 \in 1..Len(s) /\ n <= Len(s)
    BY <1>1
  <2>2. g[n + 1] = IF s[n + 1] \in U THEN Append(g[n], s[n + 1]) ELSE g[n]
    BY <1>2, <2>1 DEF FilteredTo
  <2>3. h[n + 1] = IF t[n + 1] \in U THEN Append(h[n], t[n + 1]) ELSE h[n]
    BY <1>2, <2>1 DEF FilteredTo
  <2>4. t[n + 1] = s[n + 1] /\ h[n] = g[n]
    BY <1>1, <1>4, <2>1
  <2> QED
    BY <2>2, <2>3, <2>4
<1>5. Nat \subseteq N
  <2> HIDE DEF N
  <2> QED
    BY <1>3, <1>4, NatInductionSet
<1>6. h[Len(s)] = g[Len(s)]
  BY <1>1, <1>5
<1>7. h[Len(s) + 1] = IF x \in U THEN Append(h[Len(s)], x) ELSE h[Len(s)]
  <2>1. Len(s) + 1 \in 0..Len(t) /\ (Len(s) + 1) - 1 = Len(s) /\ Len(s) + 1 # 0
    BY <1>1
  <2> QED
    BY <1>1, <1>2, <2>1 DEF FilteredTo
<1>8. Only(s, U) = g[Len(s)] /\ Only(t, U) = h[Len(t)]
  BY OnlyIsFiltered DEF g, h
<1> QED
  BY <1>1, <1>6, <1>7, <1>8 DEF t

\* A property of sequences that the empty one has and appending keeps.
LEMMA SequenceInduction ==
  ASSUME NEW E, NEW P, <<>> \in P,
         \A s \in Seq(E), x \in E : s \in P => Append(s, x) \in P
  PROVE  Seq(E) \subseteq P
<1> DEFINE N == {n \in Nat : \A s \in Seq(E) : Len(s) = n => s \in P}
<1>1. 0 \in N
  BY EmptySeq
<1>2. ASSUME NEW n \in Nat, n \in N PROVE n + 1 \in N
  <2> SUFFICES ASSUME NEW s \in Seq(E), Len(s) = n + 1 PROVE s \in P
    OBVIOUS
  <2>1. s # <<>>
    BY EmptySeq
  <2>2. PICK t \in Seq(E), x \in E : s = Append(t, x)
    BY <2>1, SequenceEmptyOrAppend
  <2>3. Len(s) = Len(t) + 1 /\ Len(t) \in Nat
    BY <2>2, AppendProperties, LenProperties
  <2>4. t \in P
    BY <1>2, <2>3
  <2> QED
    BY <2>2, <2>4
<1>3. Nat \subseteq N
  <2> HIDE DEF N
  <2> QED
    BY <1>1, <1>2, NatInductionSet
<1> QED
  BY <1>3, LenProperties

\* The filter takes elements of the sequence only.
LEMMA OnlyTyped ==
  ASSUME NEW E, NEW s \in Seq(E), NEW U
  PROVE  Only(s, U) \in Seq(E \cap U) /\ Only(s, U) \in Seq(E)
<1> DEFINE P == {t \in Seq(E) : Only(t, U) \in Seq(E \cap U)}
<1>1. <<>> \in P
  BY OnlyEmpty, EmptySeq
<1>2. ASSUME NEW t \in Seq(E), NEW x \in E, t \in P PROVE Append(t, x) \in P
  <2>1. Append(t, x) \in Seq(E)
    BY AppendProperties
  <2>2. Only(Append(t, x), U) = IF x \in U THEN Append(Only(t, U), x) ELSE Only(t, U)
    BY OnlyAppend
  <2>3. x \in U => Append(Only(t, U), x) \in Seq(E \cap U)
    BY <1>2, AppendProperties
  <2> QED
    BY <1>2, <2>1, <2>2, <2>3
<1> HIDE DEF P
<1>3. Seq(E) \subseteq P
  BY <1>1, <1>2, SequenceInduction
<1>4. Only(s, U) \in Seq(E \cap U)
  BY <1>3 DEF P
<1>5. \A u \in Seq(E \cap U) : u \in Seq(E)
  <2> SUFFICES ASSUME NEW u \in Seq(E \cap U) PROVE u \in Seq(E)
    OBVIOUS
  <2> QED
    BY SeqMonotonic, E \cap U \subseteq E
<1> QED
  BY <1>4, <1>5

\* The filter goes over a concatenation piece by piece.
LEMMA OnlyConcat ==
  ASSUME NEW E, NEW s \in Seq(E), NEW t \in Seq(E), NEW U
  PROVE  Only(s \o t, U) = Only(s, U) \o Only(t, U)
<1> DEFINE P == {u \in Seq(E) : Only(s \o u, U) = Only(s, U) \o Only(u, U)}
<1>0. Only(s, U) \in Seq(E)
  BY OnlyTyped
<1>1. <<>> \in P
  BY <1>0, OnlyEmpty, EmptySeq, ConcatEmptySeq
<1>2. ASSUME NEW u \in Seq(E), NEW x \in E, u \in P PROVE Append(u, x) \in P
  <2>1. Append(u, x) \in Seq(E) /\ s \o u \in Seq(E) /\ Only(u, U) \in Seq(E)
    BY AppendProperties, ConcatProperties, OnlyTyped
  <2>2. s \o Append(u, x) = Append(s \o u, x)
    OBVIOUS
  <2>3. Only(Append(s \o u, x), U) = IF x \in U THEN Append(Only(s \o u, U), x) ELSE Only(s \o u, U)
    BY <2>1, OnlyAppend
  <2>4. Only(Append(u, x), U) = IF x \in U THEN Append(Only(u, U), x) ELSE Only(u, U)
    BY OnlyAppend
  <2>5. Only(s, U) \o Append(Only(u, U), x) = Append(Only(s, U) \o Only(u, U), x)
    BY <1>0, <2>1
  <2> QED
    BY <1>2, <2>1, <2>2, <2>3, <2>4, <2>5
<1> HIDE DEF P
<1>3. Seq(E) \subseteq P
  BY <1>1, <1>2, SequenceInduction
<1> QED
  BY <1>3 DEF P

LEMMA FunctionIsSeq ==
  ASSUME NEW n \in Nat, NEW S, NEW f \in [1..n -> S]
  PROVE  f \in Seq(S) /\ Len(f) = n
<1>1. f \in Seq(S)
  BY SeqDef
<1>2. DOMAIN f = 1..n /\ DOMAIN f = 1..Len(f) /\ Len(f) \in Nat
  BY <1>1, LenProperties
<1>3. Len(f) = n
  BY <1>2
<1> QED
  BY <1>1, <1>3

-----------------------------------------------------------------------------
(* Folding a sequence from the left. *)

\* What FoldLeft picks last of an initial segment, and what it leaves.
LEMMA MaxOfSegment ==
  ASSUME NEW k \in Nat, NEW t \in SUBSET (1..(k + 1)), k + 1 \in t
  PROVE  Max(t) = k + 1 /\ t \ {Max(t)} \in SUBSET (1..k)
<1>1. \A y \in t : k + 1 >= y
  OBVIOUS
<1>2. \A x \in t : (\A y \in t : x >= y) => x = k + 1
  OBVIOUS
<1>3. Max(t) \in t /\ \A y \in t : Max(t) >= y
  BY <1>1 DEF Max
<1>4. Max(t) = k + 1
  BY <1>2, <1>3
<1>5. t \ {k + 1} \in SUBSET (1..k)
  OBVIOUS
<1> QED
  BY <1>4, <1>5

LEMMA MaxOfUpTo ==
  ASSUME NEW n \in Nat, NEW k \in 1..n
  PROVE  /\ Max(1..k) = k /\ (1..k) \ {k} = 1..(k - 1)
         /\ 1..k \in SUBSET (1..n) /\ k \in 1..k
<1>1. k - 1 \in Nat /\ (k - 1) + 1 = k /\ 1..k \in SUBSET (1..k) /\ k \in 1..k
  OBVIOUS
<1>2. Max(1..k) = k
  BY <1>1, MaxOfSegment
<1>3. (1..k) \ {k} = 1..(k - 1)
  OBVIOUS
<1>4. 1..k \in SUBSET (1..n)
  OBVIOUS
<1> QED
  BY <1>1, <1>2, <1>3, <1>4

FoldsTo(h, base, g, n) ==
  \A t \in SUBSET (1..n) : h[t] = IF t = {} THEN base ELSE g[Max(t)][h[t \ {Max(t)}]]

\* The table FoldLeft is read from exists: g holds, for every place of the
\* sequence, what the folded operator makes of an accumulator in W there.
LEMMA FoldTableExists ==
  ASSUME NEW n \in Nat, NEW W, NEW base \in W, NEW g \in [1..n -> [W -> W]]
  PROVE  \E h \in [SUBSET (1..n) -> W] : FoldsTo(h, base, g, n)
<1> DEFINE Table(m) == \E h \in [SUBSET (1..m) -> W] : FoldsTo(h, base, g, m)
           N == {m \in Nat : m <= n => Table(m)}
<1>1. 0 \in N
  <2> DEFINE h == [t \in SUBSET (1..0) |-> base]
  <2>1. \A t \in SUBSET (1..0) : t = {}
    OBVIOUS
  <2>2. h \in [SUBSET (1..0) -> W] /\ FoldsTo(h, base, g, 0)
    BY <2>1 DEF FoldsTo
  <2> QED
    BY <2>2
<1>2. ASSUME NEW m \in Nat, m \in N PROVE m + 1 \in N
  <2> SUFFICES ASSUME m + 1 <= n PROVE Table(m + 1)
    <3> HIDE DEF Table
    <3> QED
      OBVIOUS
  <2>1. m + 1 \in 1..n /\ m <= n
    OBVIOUS
  <2>2. PICK h \in [SUBSET (1..m) -> W] : FoldsTo(h, base, g, m)
    BY <1>2, <2>1
  <2> DEFINE u == [t \in SUBSET (1..(m + 1)) |->
                     IF m + 1 \in t THEN g[m + 1][h[t \ {m + 1}]] ELSE h[t]]
  <2>3. \A t \in SUBSET (1..(m + 1)) : m + 1 \notin t => t \in SUBSET (1..m)
    OBVIOUS
  <2>4. \A t \in SUBSET (1..(m + 1)) : t \ {m + 1} \in SUBSET (1..m)
    OBVIOUS
  <2>5. u \in [SUBSET (1..(m + 1)) -> W]
    BY <2>1, <2>3, <2>4
  <2>6. ASSUME NEW t \in SUBSET (1..(m + 1))
        PROVE  u[t] = IF t = {} THEN base ELSE g[Max(t)][u[t \ {Max(t)}]]
    <3>1. CASE m + 1 \in t
      <4>1. Max(t) = m + 1
        BY <3>1, MaxOfSegment
      <4>2. t \ {m + 1} \in SUBSET (1..(m + 1)) /\ m + 1 \notin t \ {m + 1}
        OBVIOUS
      <4>3. u[t \ {m + 1}] = h[t \ {m + 1}]
        BY <4>2
      <4> QED
        BY <3>1, <4>1, <4>3
    <3>2. CASE m + 1 \notin t
      <4>1. t \in SUBSET (1..m) /\ u[t] = h[t]
        BY <2>3, <3>2
      <4>2. h[t] = IF t = {} THEN base ELSE g[Max(t)][h[t \ {Max(t)}]]
        BY <2>2, <4>1 DEF FoldsTo
      <4>3. t \ {Max(t)} \in SUBSET (1..(m + 1)) /\ m + 1 \notin t \ {Max(t)}
        BY <3>2
      <4>4. u[t \ {Max(t)}] = h[t \ {Max(t)}]
        BY <4>3
      <4> QED
        BY <4>1, <4>2, <4>4
    <3> QED
      BY <3>1, <3>2
  <2>7. FoldsTo(u, base, g, m + 1)
    BY <2>6 DEF FoldsTo
  <2> QED
    BY <2>5, <2>7
<1>3. Nat \subseteq N
  <2> HIDE DEF N
  <2> QED
    BY <1>1, <1>2, NatInductionSet
<1>4. Table(n)
  <2> HIDE DEF Table
  <2>1. n \in N /\ n <= n
    BY <1>3
  <2> QED
    BY <2>1
<1> QED
  BY <1>4

\* What holds of the accumulators along the initial segments holds at the end.
LEMMA FoldAlongSegments ==
  ASSUME NEW n \in Nat, NEW h, NEW P, h[{}] \in P[0],
         \A k \in 1..n : h[1..(k - 1)] \in P[k - 1] => h[1..k] \in P[k]
  PROVE  h[1..n] \in P[n]
<1> DEFINE N == {m \in Nat : m <= n => h[1..m] \in P[m]}
<1>1. 0 \in N
  <2>1. 1..0 = {}
    OBVIOUS
  <2> QED
    BY <2>1
<1>2. ASSUME NEW m \in Nat, m \in N PROVE m + 1 \in N
  <2> SUFFICES ASSUME m + 1 <= n PROVE h[1..(m + 1)] \in P[m + 1]
    OBVIOUS
  <2>1. m + 1 \in 1..n /\ m <= n /\ (m + 1) - 1 = m
    OBVIOUS
  <2>2. h[1..m] \in P[m]
    BY <1>2, <2>1
  <2> QED
    BY <2>1, <2>2
<1>3. Nat \subseteq N
  <2> HIDE DEF N
  <2> QED
    BY <1>1, <1>2, NatInductionSet
<1> QED
  BY <1>3

-----------------------------------------------------------------------------
(* Finite sets of integers in ascending order. *)

\* A finite set of integers that is not empty has a largest element.
LEMMA LargestInteger ==
  ASSUME NEW S \in SUBSET Int, IsFiniteSet(S), S # {}
  PROVE  \E m \in S : \A n \in S : n <= m
<1> DEFINE F == {T \in SUBSET S : T = {} \/ \E m \in T : \A n \in T : n <= m}
<1>1. {} \in F
  OBVIOUS
<1>2. ASSUME NEW T \in SUBSET S, NEW x \in S \ T, T \in F PROVE T \cup {x} \in F
  <2>1. CASE T = {}
    <3>1. x \in T \cup {x} /\ \A n \in T \cup {x} : n <= x
      BY <2>1
    <3> QED
      BY <3>1
  <2>2. CASE T # {}
    <3>1. PICK m \in T : \A n \in T : n <= m
      BY <1>2, <2>2
    <3>2. CASE x <= m
      <4>1. m \in T \cup {x} /\ \A n \in T \cup {x} : n <= m
        BY <3>1, <3>2
      <4> QED
        BY <4>1
    <3>3. CASE ~(x <= m)
      <4>1. x \in T \cup {x} /\ \A n \in T \cup {x} : n <= x
        BY <3>1, <3>3
      <4> QED
        BY <4>1
    <3> QED
      BY <3>2, <3>3
  <2> QED
    BY <2>1, <2>2
<1>3. SUBSET S \subseteq F
  <2> HIDE DEF F
  <2> QED
    BY <1>1, <1>2, SubsetInduction
<1> QED
  BY <1>3

Increasing(s) == \A i, j \in DOMAIN s : i < j => s[i] < s[j]

\* A finite set of integers can be listed in ascending order.
LEMMA AscendingExists ==
  ASSUME NEW S \in SUBSET Int, IsFiniteSet(S)
  PROVE  \E s \in [1..Cardinality(S) -> S] : Increasing(s)
<1> DEFINE Listed(T) == \E s \in [1..Cardinality(T) -> T] : Increasing(s)
           N == {m \in Nat : \A T \in SUBSET S : Cardinality(T) = m => Listed(T)}
<1>1. \A T \in SUBSET S : IsFiniteSet(T) /\ Cardinality(T) \in Nat
  BY FS_Subset, FS_CardinalityType
<1>2. 0 \in N
  <2> SUFFICES ASSUME NEW T \in SUBSET S, Cardinality(T) = 0 PROVE Listed(T)
    OBVIOUS
  <2> DEFINE s == [i \in 1..Cardinality(T) |-> 0]
  <2>1. 1..Cardinality(T) = {}
    OBVIOUS
  <2>2. s \in [1..Cardinality(T) -> T] /\ Increasing(s)
    BY <2>1 DEF Increasing
  <2> QED
    BY <2>2
<1>3. ASSUME NEW m \in Nat, m \in N PROVE m + 1 \in N
  <2> SUFFICES ASSUME NEW T \in SUBSET S, Cardinality(T) = m + 1 PROVE Listed(T)
    OBVIOUS
  <2>1. T # {}
    BY FS_EmptySet
  <2>2. PICK x \in T : \A y \in T : y <= x
    BY <1>1, <2>1, LargestInteger
  <2>3. Cardinality(T \ {x}) = m
    <3>1. Cardinality(T \ {x}) = Cardinality(T) - 1
      BY <1>1, FS_RemoveElement
    <3> QED
      BY <3>1
  <2>4. PICK s \in [1..m -> T \ {x}] : Increasing(s)
    BY <1>3, <2>3
  <2> DEFINE u == [i \in 1..(m + 1) |-> IF i = m + 1 THEN x ELSE s[i]]
  <2>5. \A i \in 1..(m + 1) : i = m + 1 \/ i \in 1..m
    OBVIOUS
  <2>6. u \in [1..(m + 1) -> T]
    BY <2>5
  <2>7. ASSUME NEW i \in 1..(m + 1), NEW j \in 1..(m + 1), i < j PROVE u[i] < u[j]
    <3>1. i \in 1..m /\ u[i] = s[i] /\ s[i] \in T \ {x}
      BY <2>5, <2>7
    <3>2. CASE j = m + 1
      <4>1. u[j] = x /\ s[i] <= x /\ s[i] # x /\ s[i] \in Int /\ x \in Int
        BY <2>2, <3>1, <3>2
      <4> HIDE DEF u
      <4> QED
        BY <3>1, <4>1
    <3>3. CASE j \in 1..m
      <4>1. u[j] = s[j] /\ s[i] < s[j]
        BY <2>4, <2>7, <3>1, <3>3 DEF Increasing
      <4> QED
        BY <3>1, <4>1
    <3> QED
      BY <2>5, <3>2, <3>3
  <2>8. Increasing(u)
    BY <2>6, <2>7 DEF Increasing
  <2> QED
    BY <2>6, <2>8
<1>4. Nat \subseteq N
  <2> HIDE DEF N
  <2> QED
    BY <1>2, <1>3, NatInductionSet
<1>5. S \in SUBSET S /\ Cardinality(S) \in N
  BY <1>1, <1>4
<1> QED
  BY <1>5

\* Such a list leaves nothing out.
LEMMA AscendingListsAll ==
  ASSUME NEW S \in SUBSET Int, IsFiniteSet(S), NEW s \in [1..Cardinality(S) -> S], Increasing(s)
  PROVE  \A x \in S : \E i \in 1..Cardinality(S) : s[i] = x
<1> DEFINE n == Cardinality(S)
<1>1. n \in Nat
  BY FS_CardinalityType
<1>2. \A i, j \in 1..n : i < j \/ j < i \/ i = j
  BY <1>1
<1>3. \A i \in 1..n : s[i] \in Int
  OBVIOUS
<1>4. \A i, j \in 1..n : s[i] = s[j] => i = j
  BY <1>2, <1>3 DEF Increasing
<1>5. s \in Injection(1..n, S)
  BY <1>4 DEF Injection, IsInjective
<1>6. Cardinality(1..n) = n
  BY <1>1, FS_Interval
<1>7. s \in Surjection(1..n, S)
  BY <1>5, <1>6, FS_Injection
<1> QED
  BY <1>7 DEF Surjection

\* Max picks a place of a sequence among places of it.
LEMMA MaxOfPlaces ==
  ASSUME NEW n \in Nat, NEW t \in SUBSET (1..n), t # {}
  PROVE  Max(t) \in 1..n
<1>1. t \in SUBSET Int /\ IsFiniteSet(t)
  <2>1. IsFiniteSet(1..n)
    BY FS_Interval
  <2>2. IsFiniteSet(t)
    BY <2>1, FS_Subset
  <2> QED
    BY <2>2
<1>2. PICK m \in t : \A i \in t : i <= m
  BY <1>1, LargestInteger
<1>3. \A i \in t : m >= i
  BY <1>1, <1>2
<1> QED
  BY <1>2, <1>3 DEF Max

-----------------------------------------------------------------------------
(* One element more. *)

\* A longer sequence, by its places and by its elements.
LEMMA AppendIs ==
  ASSUME NEW E, NEW b \in Seq(E), NEW e \in E
  PROVE  /\ Append(b, e) \in Seq(E) /\ Len(b) \in Nat /\ Len(Append(b, e)) = Len(b) + 1
         /\ DOMAIN b = 1..Len(b) /\ DOMAIN Append(b, e) = 1..(Len(b) + 1)
         /\ \A i \in 1..Len(b) : Append(b, e)[i] = b[i] /\ b[i] \in E
         /\ Append(b, e)[Len(b) + 1] = e
         /\ Range(Append(b, e)) = Range(b) \cup {e}
<1>1. /\ Append(b, e) \in Seq(E) /\ Len(b) \in Nat /\ Len(Append(b, e)) = Len(b) + 1
      /\ DOMAIN b = 1..Len(b) /\ DOMAIN Append(b, e) = 1..(Len(b) + 1)
      /\ \A i \in 1..Len(b) : Append(b, e)[i] = b[i] /\ b[i] \in E
      /\ Append(b, e)[Len(b) + 1] = e
  BY AppendProperties, LenProperties, ElementOfSeq
<1>2. \A i \in 1..(Len(b) + 1) : i \in 1..Len(b) \/ i = Len(b) + 1
  BY <1>1
<1>3. 1..Len(b) \subseteq 1..(Len(b) + 1) /\ Len(b) + 1 \in 1..(Len(b) + 1)
  BY <1>1
<1>4. Range(Append(b, e)) = Range(b) \cup {e}
  BY <1>1, <1>2, <1>3 DEF Range
<1> QED
  BY <1>1, <1>4

\* Sets that agree on the elements of a sequence leave the same of it.
LEMMA OnlyAgrees ==
  ASSUME NEW E, NEW s \in Seq(E), NEW U, NEW V, \A i \in DOMAIN s : s[i] \in U <=> s[i] \in V
  PROVE  Only(s, U) = Only(s, V)
<1> DEFINE P == {t \in Seq(E) : (\A i \in DOMAIN t : t[i] \in U <=> t[i] \in V) => Only(t, U) = Only(t, V)}
<1>1. <<>> \in P
  BY OnlyEmpty, EmptySeq
<1>2. ASSUME NEW t \in Seq(E), NEW x \in E, t \in P PROVE Append(t, x) \in P
  <2>0. Append(t, x) \in Seq(E)
    BY AppendProperties
  <2> SUFFICES ASSUME \A i \in DOMAIN Append(t, x) : Append(t, x)[i] \in U <=> Append(t, x)[i] \in V
               PROVE  Only(Append(t, x), U) = Only(Append(t, x), V)
    BY <2>0
  <2>1. /\ Append(t, x) \in Seq(E) /\ Len(t) \in Nat /\ DOMAIN t = 1..Len(t)
        /\ DOMAIN Append(t, x) = 1..(Len(t) + 1)
        /\ \A i \in 1..Len(t) : Append(t, x)[i] = t[i]
        /\ Append(t, x)[Len(t) + 1] = x
    BY AppendProperties, LenProperties
  <2>2. (\A i \in DOMAIN t : t[i] \in U <=> t[i] \in V) /\ (x \in U <=> x \in V)
    BY <2>1
  <2>3. Only(t, U) = Only(t, V)
    BY <1>2, <2>2
  <2>4. Only(Append(t, x), U) = IF x \in U THEN Append(Only(t, U), x) ELSE Only(t, U)
    BY OnlyAppend
  <2>5. Only(Append(t, x), V) = IF x \in V THEN Append(Only(t, V), x) ELSE Only(t, V)
    BY OnlyAppend
  <2> QED
    BY <2>1, <2>2, <2>3, <2>4, <2>5
<1> HIDE DEF P
<1>3. Seq(E) \subseteq P
  BY <1>1, <1>2, SequenceInduction
<1> QED
  BY <1>3 DEF P

\* One element more, and a set that agrees on the others.
LEMMA OnlyNext ==
  ASSUME NEW E, NEW s \in Seq(E), NEW x \in E, NEW U, NEW V, \A i \in DOMAIN s : s[i] \in U <=> s[i] \in V
  PROVE  Only(Append(s, x), V) = IF x \in V THEN Append(Only(s, U), x) ELSE Only(s, U)
<1>1. Only(s, U) = Only(s, V)
  BY OnlyAgrees
<1>2. Only(Append(s, x), V) = IF x \in V THEN Append(Only(s, V), x) ELSE Only(s, V)
  BY OnlyAppend
<1> QED
  BY <1>1, <1>2

LEMMA SelfTyped ==
  ASSUME NEW s, s \in Seq(Range(s)), NEW x
  PROVE  /\ Append(s, x) \in Seq(Range(Append(s, x)))
         /\ Append(s, x) # <<>> /\ Len(Append(s, x)) = Len(s) + 1
         /\ \A i \in 1..Len(s) : Append(s, x)[i] = s[i]
         /\ Append(s, x)[Len(s) + 1] = x
         /\ s \o <<x>> = Append(s, x)
         /\ s \o <<>> = s
<1>1. s \in Seq(Range(s) \cup {x})
  OBVIOUS
<1>2. Append(s, x) \in Seq(Range(s) \cup {x}) /\ Len(Append(s, x)) = Len(s) + 1
      /\ (\A i \in 1..Len(s) : Append(s, x)[i] = s[i]) /\ Append(s, x)[Len(s) + 1] = x
  BY <1>1
<1>3. \A i \in 1..Len(Append(s, x)) : Append(s, x)[i] \in Range(Append(s, x))
  BY <1>2 DEF Range
<1>4. Append(s, x) \in Seq(Range(Append(s, x)))
  BY <1>2, <1>3
<1>5. s \o <<x>> = Append(s, x) /\ s \o <<>> = s
  BY <1>1, <1>2
<1>6. Append(s, x) # <<>>
  BY <1>1, AppendProperties
<1> QED
  BY <1>2, <1>4, <1>5, <1>6

LEMMA PrefixesOfOne ==
  ASSUME NEW c, NEW k \in 0 .. Len(<<c>>)
  PROVE  /\ k = 0 \/ k = 1
         /\ k = 0 => SubSeq(<<c>>, 1, k) = <<>>
         /\ k = 1 => SubSeq(<<c>>, 1, k) = <<c>>
<1>1. k = 0 \/ k = 1
  OBVIOUS
<1>2. k = 0 => SubSeq(<<c>>, 1, k) = <<>>
  BY SubSeqEmpty
<1>3. SubSeq(<<c>>, 1, 1) = <<c>>
  <2>1. <<c>> \in Seq({c}) /\ 1 = Len(<<c>>)
    OBVIOUS
  <2> QED
    BY <2>1, SubSeqFull
<1>4. k = 1 => SubSeq(<<c>>, 1, k) = <<c>>
  BY ONLY <1>3
<1> QED
  BY ONLY <1>1, <1>2, <1>4

LEMMA JoinTwo == ASSUME NEW a, NEW b PROVE <<a>> \o <<b>> = <<a, b>>
<1>1. <<a>> \in Seq({a, b}) /\ <<b>> \in Seq({a, b}) /\ <<a, b>> \in Seq({a, b})
      /\ Len(<<a>>) = 1 /\ Len(<<b>>) = 1 /\ Len(<<a, b>>) = 2
  OBVIOUS
<1>2. <<a>> \o <<b>> \in Seq({a, b}) /\ Len(<<a>> \o <<b>>) = 2
      /\ (<<a>> \o <<b>>)[1] = a /\ (<<a>> \o <<b>>)[2] = b
  BY <1>1, ConcatProperties
<1>3. \A i \in 1..2 : (<<a>> \o <<b>>)[i] = <<a, b>>[i]
  <2>1. \A i \in 1..2 : i = 1 \/ i = 2
    OBVIOUS
  <2> QED
    BY <1>2, <2>1
<1> QED
  BY <1>1, <1>2, <1>3, SeqEqual

-----------------------------------------------------------------------------
(* Texts put together from pieces. *)

\* What FoldLeft makes of the pieces, one by one.
LEMMA TextsFold ==
  ASSUME NEW S, NEW ts \in Seq(Seq(S))
  PROVE  \E f : /\ Texts(ts) = f[1..Len(ts)]
                /\ f[{}] = <<>>
                /\ \A k \in 1..Len(ts) : f[1..k] = f[1..(k - 1)] \o ts[k]
<1> DEFINE n == Len(ts)
           W == Seq(S)
           g == [i \in 1..n |-> [a \in W |-> a \o ts[i]]]
           Unfolds(f) == f = [t \in SUBSET (1..n) |-> IF t = {} THEN <<>> ELSE f[t \ {Max(t)}] \o ts[Max(t)]]
<1>1. n \in Nat /\ DOMAIN ts = 1..n /\ \A i \in 1..n : ts[i] \in Seq(S)
  BY LenProperties, ElementOfSeq
<1> HIDE DEF n
<1>2. \A i \in 1..n : \A a \in W : a \o ts[i] \in W
  BY <1>1, ConcatProperties
<1>3. g \in [1..n -> [W -> W]] /\ <<>> \in W
  BY <1>2, EmptySeq
<1> HIDE DEF W
<1>4. PICK h \in [SUBSET (1..n) -> W] : FoldsTo(h, <<>>, g, n)
  <2> HIDE DEF g
  <2> QED
    BY <1>1, <1>3, FoldTableExists
<1>5. \A t \in SUBSET (1..n) : t # {} => Max(t) \in 1..n
  BY <1>1, MaxOfPlaces
<1>6. \A t \in SUBSET (1..n) : h[t] = IF t = {} THEN <<>> ELSE h[t \ {Max(t)}] \o ts[Max(t)]
  <2> TAKE t \in SUBSET (1..n)
  <2>1. h[t] = IF t = {} THEN <<>> ELSE g[Max(t)][h[t \ {Max(t)}]]
    BY <1>4 DEF FoldsTo
  <2>2. t \ {Max(t)} \in SUBSET (1..n)
    OBVIOUS
  <2>3. h[t \ {Max(t)}] \in W
    BY <1>4, <2>2
  <2> QED
    BY <1>5, <2>1, <2>3
<1>7. Unfolds(h)
  BY <1>4, <1>6
<1>8. PICK f : f = (CHOOSE i : Unfolds(i))
  OBVIOUS
<1>9. Unfolds(f)
  BY <1>7, <1>8
<1>10. Texts(ts) = f[1..n]
  BY <1>1, <1>8 DEF Texts, FoldLeft, MapThenFoldSet
<1>11. \A t \in SUBSET (1..n) : f[t] = IF t = {} THEN <<>> ELSE f[t \ {Max(t)}] \o ts[Max(t)]
  BY <1>9
<1> HIDE DEF Unfolds
<1>12. {} \in SUBSET (1..n) /\ f[{}] = <<>>
  BY <1>11
<1>13. \A k \in 1..n : f[1..k] = f[1..(k - 1)] \o ts[k]
  <2> TAKE k \in 1..n
  <2>1. Max(1..k) = k /\ (1..k) \ {k} = 1..(k - 1) /\ 1..k \in SUBSET (1..n) /\ k \in 1..k
    BY <1>1, MaxOfUpTo
  <2> QED
    BY <1>11, <2>1
<1> QED
  BY <1>10, <1>12, <1>13 DEF n

LEMMA TextsEmpty == Texts(<<>>) = <<>>
<1>1. <<>> \in Seq(Seq({})) /\ Len(<<>>) = 0 /\ 1..0 = {}
  BY EmptySeq
<1>2. \E f : Texts(<<>>) = f[1..Len(<<>>)] /\ f[{}] = <<>>
  BY <1>1, TextsFold
<1> QED
  BY <1>1, <1>2

\* One piece more.
LEMMA TextsAppend ==
  ASSUME NEW S, NEW ts \in Seq(Seq(S)), NEW t \in Seq(S)
  PROVE  Texts(Append(ts, t)) = Texts(ts) \o t
<1> DEFINE us == Append(ts, t)
           n == Len(ts)
<1>1. /\ us \in Seq(Seq(S)) /\ n \in Nat /\ Len(us) = n + 1
      /\ (\A i \in 1..n : us[i] = ts[i]) /\ us[n + 1] = t
  BY AppendProperties, LenProperties
<1>2. PICK f : /\ Texts(ts) = f[1..n]
               /\ f[{}] = <<>>
               /\ \A k \in 1..n : f[1..k] = f[1..(k - 1)] \o ts[k]
  BY TextsFold
<1> HIDE DEF us
<1>3. PICK h : /\ Texts(us) = h[1..Len(us)]
               /\ h[{}] = <<>>
               /\ \A k \in 1..Len(us) : h[1..k] = h[1..(k - 1)] \o us[k]
  BY <1>1, TextsFold
<1> HIDE DEF n
<1> DEFINE N == {k \in Nat : k <= n => h[1..k] = f[1..k]}
<1>4. 0 \in N
  <2>1. 1..0 = {}
    OBVIOUS
  <2> QED
    BY <1>2, <1>3, <2>1
<1>5. ASSUME NEW k \in Nat, k \in N PROVE k + 1 \in N
  <2> SUFFICES ASSUME k + 1 <= n PROVE h[1..(k + 1)] = f[1..(k + 1)]
    OBVIOUS
  <2>1. k <= n /\ k + 1 \in 1..n /\ k + 1 \in 1..(n + 1) /\ (k + 1) - 1 = k
    BY <1>1
  <2>2. h[1..(k + 1)] = h[1..k] \o us[k + 1] /\ f[1..(k + 1)] = f[1..k] \o ts[k + 1]
    BY <1>1, <1>2, <1>3, <2>1
  <2> QED
    BY <1>1, <1>5, <2>1, <2>2
<1>6. Nat \subseteq N
  <2> HIDE DEF N
  <2> QED
    BY <1>4, <1>5, NatInductionSet
<1>7. h[1..n] = f[1..n]
  BY <1>1, <1>6
<1>8. n + 1 \in 1..(n + 1) /\ (n + 1) - 1 = n
  BY <1>1
<1>9. h[1..(n + 1)] = h[1..n] \o t
  BY <1>1, <1>3, <1>8
<1> QED
  BY <1>1, <1>2, <1>3, <1>7, <1>9 DEF us

LEMMA TextsTyped ==
  ASSUME NEW S, NEW ts \in Seq(Seq(S))
  PROVE  Texts(ts) \in Seq(S)
<1> DEFINE P == {us \in Seq(Seq(S)) : Texts(us) \in Seq(S)}
<1>1. <<>> \in P
  BY TextsEmpty, EmptySeq
<1>2. ASSUME NEW us \in Seq(Seq(S)), NEW u \in Seq(S), us \in P PROVE Append(us, u) \in P
  <2>1. Texts(Append(us, u)) = Texts(us) \o u
    BY TextsAppend
  <2> QED
    BY <1>2, <2>1, AppendProperties, ConcatProperties
<1> HIDE DEF P
<1>3. Seq(Seq(S)) \subseteq P
  BY <1>1, <1>2, SequenceInduction
<1> QED
  BY <1>3 DEF P

LEMMA TextsOneMore ==
  ASSUME NEW S, NEW n \in Nat, NEW f \in [1..n -> Seq(S)], NEW g \in [1..(n + 1) -> Seq(S)],
         \A i \in 1..n : g[i] = f[i]
  PROVE  Texts(f) \in Seq(S) /\ Texts(g) = Texts(f) \o g[n + 1]
<1>1. f \in Seq(Seq(S)) /\ Len(f) = n /\ n + 1 \in 1..(n + 1) /\ n + 1 \in Nat
  BY FunctionIsSeq
<1>2. g \in Seq(Seq(S)) /\ Len(g) = n + 1 /\ g[n + 1] \in Seq(S)
  BY <1>1, FunctionIsSeq
<1> DEFINE a == Append(f, g[n + 1])
<1>3. /\ a \in Seq(Seq(S)) /\ Len(a) = n + 1 /\ a[n + 1] = g[n + 1] /\ \A i \in 1..n : a[i] = f[i]
  BY <1>1, <1>2, AppendIs
<1>4. \A i \in 1..(n + 1) : i \in 1..n \/ i = n + 1
  OBVIOUS
<1> HIDE DEF a
<1>5. a = g
  BY <1>2, <1>3, <1>4, SeqEqual
<1>6. Texts(Append(f, g[n + 1])) = Texts(f) \o g[n + 1] /\ Texts(f) \in Seq(S)
  BY <1>1, <1>2, TextsAppend, TextsTyped
<1> QED
  BY <1>5, <1>6 DEF a

LEMMA TextsOfNothing ==
  ASSUME NEW f, DOMAIN f = {}, f = [i \in DOMAIN f |-> f[i]]
  PROVE  Texts(f) = <<>>
<1>1. f = <<>>
  OBVIOUS
<1> QED
  BY <1>1, TextsEmpty
=============================================================================
