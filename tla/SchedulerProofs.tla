-------------------------- MODULE SchedulerProofs --------------------------
(***************************************************************************)
(* Proofs about the scheduler for every set of routes, shapes, requests    *)
(* and generations: first the algebra of finite sums, by induction over    *)
(* the subsets of a finite set (SequenceFacts), then one turn of the       *)
(* scheduler, and last its steps.                                          *)
(*                                                                         *)
(* The heart is Balanced.  That the totals of all members sum to zero and  *)
(* that each stays in a range is not inductive: what a turn adds to one    *)
(* member depends on what the others hold.  It is inductive for every SET  *)
(* of members at once: k of n members never hold more than m * k * (n - k) *)
(* together, m the largest weight (TurnEstimate is the step).              *)
(***************************************************************************)
EXTENDS SchedulerReload, SequenceFacts

-----------------------------------------------------------------------------
(* Sums over finite sets. *)

\* The sum of f over S, as the model writes it.
SetSum(f, S) == MapThenSumSet(LAMBDA e : f[e], S)

Some(s) == CHOOSE x \in s : TRUE

\* g is the table of the sums of f over the subsets of S with at most n elements.
SumsUpTo(g, f, S, n) ==
  /\ DOMAIN g = SUBSET S
  /\ \A s \in SUBSET S : Cardinality(s) <= n =>
        g[s] = IF s = {} THEN 0 ELSE f[Some(s)] + g[s \ {Some(s)}]

Sums(f, S) == CHOOSE g : g = [s \in SUBSET S |->
                 IF s = {} THEN 0 ELSE f[Some(s)] + g[s \ {Some(s)}]]

\* The fold of the model read as a table.
LEMMA SetSumIsSums ==
  ASSUME NEW f, NEW S
  PROVE  SetSum(f, S) = Sums(f, S)[S]
BY DEF SetSum, MapThenSumSet, MapThenFoldSet, Sums, Some

\* CHOOSE takes an element when there is one.
LEMMA SomeIn ==
  ASSUME NEW s, s # {}
  PROVE  Some(s) \in s
BY DEF Some

\* The table exists up to every size.
LEMMA SumsExist ==
  ASSUME NEW f, NEW S, IsFiniteSet(S)
  PROVE  \A n \in Nat : \E g : SumsUpTo(g, f, S, n)
<1> DEFINE N == {n \in Nat : \E g : SumsUpTo(g, f, S, n)}
<1>0. \A s \in SUBSET S : IsFiniteSet(s) /\ Cardinality(s) \in Nat /\ (Cardinality(s) = 0 <=> s = {})
  BY FS_Subset, FS_CardinalityType, FS_EmptySet
<1>1. 0 \in N
  <2>1. SumsUpTo([s \in SUBSET S |-> 0], f, S, 0)
    BY <1>0 DEF SumsUpTo
  <2> QED
    BY <2>1
<1>2. ASSUME NEW n \in Nat, n \in N PROVE n + 1 \in N
  <2>1. PICK g : SumsUpTo(g, f, S, n)
    BY <1>2
  <2> DEFINE h == [s \in SUBSET S |-> IF Cardinality(s) <= n THEN g[s]
                                     ELSE f[Some(s)] + g[s \ {Some(s)}]]
  <2>2. ASSUME NEW s \in SUBSET S, s # {}
        PROVE  s \ {Some(s)} \in SUBSET S /\ Cardinality(s \ {Some(s)}) = Cardinality(s) - 1
    <3>1. Cardinality(s \ {Some(s)}) = Cardinality(s) - 1
      BY <1>0, <2>2, SomeIn, FS_RemoveElement
    <3> QED
      BY <3>1
  <2>3. ASSUME NEW s \in SUBSET S, Cardinality(s) <= n + 1
        PROVE  h[s] = IF s = {} THEN 0 ELSE f[Some(s)] + h[s \ {Some(s)}]
    <3>1. CASE s = {}
      BY <1>0, <2>1, <3>1 DEF SumsUpTo
    <3>2. CASE s # {}
      <4>1. Cardinality(s \ {Some(s)}) <= n
        BY <1>0, <2>2, <2>3, <3>2
      <4>2. h[s \ {Some(s)}] = g[s \ {Some(s)}]
        BY <2>2, <3>2, <4>1
      <4>3. h[s] = f[Some(s)] + g[s \ {Some(s)}]
        BY <2>1, <3>2 DEF SumsUpTo
      <4> QED
        BY <3>2, <4>2, <4>3
    <3> QED
      BY <3>1, <3>2
  <2>4. SumsUpTo(h, f, S, n + 1)
    BY <2>3 DEF SumsUpTo
  <2> QED
    BY <2>4
<1>3. Nat \subseteq N
  <2> HIDE DEF N
  <2> QED
    BY <1>1, <1>2, NatInductionSet
<1> QED
  BY <1>3

\* So it satisfies its recursive equation.
LEMMA SumsUnfold ==
  ASSUME NEW f, NEW S, IsFiniteSet(S)
  PROVE  /\ Sums(f, S)[{}] = 0
         /\ \A s \in SUBSET S : s # {} =>
               Sums(f, S)[s] = f[Some(s)] + Sums(f, S)[s \ {Some(s)}]
<1>1. Cardinality(S) \in Nat /\ \A s \in SUBSET S : Cardinality(s) <= Cardinality(S)
  BY FS_Subset, FS_CardinalityType
<1>2. PICK g : SumsUpTo(g, f, S, Cardinality(S))
  BY <1>1, SumsExist
<1> DEFINE Body(u) == [s \in SUBSET S |-> IF s = {} THEN 0 ELSE f[Some(s)] + u[s \ {Some(s)}]]
<1>3. PICK h : h = [s \in SUBSET S |-> g[s]]
  OBVIOUS
<1>4. h = Body(h)
  <2>1. ASSUME NEW s \in SUBSET S PROVE h[s] = Body(h)[s]
    BY <1>1, <1>2, <1>3, <2>1 DEF SumsUpTo
  <2>2. h = [s \in SUBSET S |-> h[s]]
    BY <1>3
  <2>3. [s \in SUBSET S |-> h[s]] = [s \in SUBSET S |-> Body(h)[s]]
    BY <2>1
  <2>4. [s \in SUBSET S |-> Body(h)[s]] = Body(h)
    OBVIOUS
  <2> QED
    BY <2>2, <2>3, <2>4
<1>5. Sums(f, S) = Body(Sums(f, S))
  BY <1>4 DEF Sums
<1>6. \A s \in SUBSET S : Sums(f, S)[s] = Body(Sums(f, S))[s]
  BY <1>5
<1> HIDE DEF Body
<1>7. \A u : \A s \in SUBSET S : Body(u)[s] = IF s = {} THEN 0 ELSE f[Some(s)] + u[s \ {Some(s)}]
  BY DEF Body
<1> QED
  BY <1>6, <1>7

\* The table over S agrees with the table over a subset.
LEMMA SumsAgree ==
  ASSUME NEW f, NEW S, IsFiniteSet(S), NEW T \in SUBSET S
  PROVE  \A s \in SUBSET T : Sums(f, S)[s] = Sums(f, T)[s]
<1>0. IsFiniteSet(T)
  BY FS_Subset
<1>5. \A s \in SUBSET T : s # {} => Sums(f, T)[s] = f[Some(s)] + Sums(f, T)[s \ {Some(s)}]
  BY <1>0, SumsUnfold
<1> DEFINE N == {n \in Nat : \A s \in SUBSET T : Cardinality(s) = n => Sums(f, S)[s] = Sums(f, T)[s]}
<1>1. \A s \in SUBSET T : IsFiniteSet(s) /\ Cardinality(s) \in Nat /\ (Cardinality(s) = 0 <=> s = {})
  BY <1>0, FS_Subset, FS_CardinalityType, FS_EmptySet
<1>2. 0 \in N
  <2>1. Sums(f, S)[{}] = 0 /\ Sums(f, T)[{}] = 0
    BY <1>0, SumsUnfold
  <2> QED
    BY <1>1, <2>1
<1>3. ASSUME NEW n \in Nat, n \in N PROVE n + 1 \in N
  <2> SUFFICES ASSUME NEW s \in SUBSET T, Cardinality(s) = n + 1
               PROVE  Sums(f, S)[s] = Sums(f, T)[s]
    OBVIOUS
  <2>1. s # {}
    BY <1>1
  <2>2. s \ {Some(s)} \in SUBSET T
    OBVIOUS
  <2>3. Cardinality(s \ {Some(s)}) = n
    <3>1. Cardinality(s \ {Some(s)}) = Cardinality(s) - 1
      BY <1>1, <2>1, SomeIn, FS_RemoveElement
    <3> QED
      BY <3>1
  <2>4. Sums(f, S)[s \ {Some(s)}] = Sums(f, T)[s \ {Some(s)}]
    BY <1>3, <2>2, <2>3
  <2>5. Sums(f, S)[s] = f[Some(s)] + Sums(f, S)[s \ {Some(s)}]
    BY <2>1, SumsUnfold
  <2>6. Sums(f, T)[s] = f[Some(s)] + Sums(f, T)[s \ {Some(s)}]
    BY <1>5, <2>1
  <2> QED
    BY <2>4, <2>5, <2>6
<1>4. Nat \subseteq N
  <2> HIDE DEF N
  <2> QED
    BY <1>2, <1>3, NatInductionSet
<1> QED
  BY <1>1, <1>4

\* The recursive equation of a sum.
LEMMA SetSumUnfold ==
  ASSUME NEW f, NEW S, IsFiniteSet(S)
  PROVE  SetSum(f, S) = IF S = {} THEN 0 ELSE f[Some(S)] + SetSum(f, S \ {Some(S)})
<1>1. CASE S = {}
  BY <1>1, SumsUnfold, SetSumIsSums
<1>2. CASE S # {}
  <2>1. Sums(f, S)[S] = f[Some(S)] + Sums(f, S)[S \ {Some(S)}]
    BY <1>2, SumsUnfold
  <2>2. Sums(f, S)[S \ {Some(S)}] = Sums(f, S \ {Some(S)})[S \ {Some(S)}]
    BY SumsAgree
  <2> QED
    BY <1>2, <2>1, <2>2, SetSumIsSums
<1> QED
  BY <1>1, <1>2

\* A sum of integers is an integer.
LEMMA SetSumInt ==
  ASSUME NEW f, NEW S, IsFiniteSet(S), \A x \in S : f[x] \in Int
  PROVE  SetSum(f, S) \in Int
<1> DEFINE N == {n \in Nat : \A s \in SUBSET S : Cardinality(s) = n => SetSum(f, s) \in Int}
<1>1. \A s \in SUBSET S : IsFiniteSet(s) /\ Cardinality(s) \in Nat /\ (Cardinality(s) = 0 <=> s = {})
  BY FS_Subset, FS_CardinalityType, FS_EmptySet
<1>2. 0 \in N
  <2>1. SetSum(f, {}) = 0
    BY FS_EmptySet, SetSumUnfold
  <2> QED
    BY <1>1, <2>1
<1>3. ASSUME NEW n \in Nat, n \in N PROVE n + 1 \in N
  <2> SUFFICES ASSUME NEW s \in SUBSET S, Cardinality(s) = n + 1
               PROVE  SetSum(f, s) \in Int
    OBVIOUS
  <2>1. s # {} /\ IsFiniteSet(s)
    BY <1>1
  <2>2. Some(s) \in s
    BY <2>1, SomeIn
  <2>3. Cardinality(s \ {Some(s)}) = Cardinality(s) - 1
    BY <2>1, <2>2, FS_RemoveElement
  <2>4. SetSum(f, s \ {Some(s)}) \in Int
    <3>1. s \ {Some(s)} \in SUBSET S /\ Cardinality(s \ {Some(s)}) = n
      BY <2>3
    <3> QED
      BY <1>3, <3>1
  <2>5. SetSum(f, s) = f[Some(s)] + SetSum(f, s \ {Some(s)})
    BY <2>1, SetSumUnfold
  <2>6. f[Some(s)] \in Int
    BY <2>2
  <2> QED
    BY <2>4, <2>5, <2>6
<1>4. Nat \subseteq N
  <2> HIDE DEF N
  <2> QED
    BY <1>2, <1>3, NatInductionSet
<1> QED
  BY <1>1, <1>4

\* Any element may be taken out first.
LEMMA SetSumRemove ==
  ASSUME NEW f, NEW S, IsFiniteSet(S), \A x \in S : f[x] \in Int
  PROVE  \A x \in S : SetSum(f, S) = f[x] + SetSum(f, S \ {x})
<1> DEFINE Free(s) == \A x \in s : SetSum(f, s) = f[x] + SetSum(f, s \ {x})
<1> DEFINE N == {n \in Nat : \A s \in SUBSET S : Cardinality(s) = n => Free(s)}
<1>1. \A s \in SUBSET S : IsFiniteSet(s) /\ Cardinality(s) \in Nat /\ (Cardinality(s) = 0 <=> s = {})
  BY FS_Subset, FS_CardinalityType, FS_EmptySet
<1>2. 0 \in N
  BY <1>1
<1>3. ASSUME NEW n \in Nat, n \in N PROVE n + 1 \in N
  <2> SUFFICES ASSUME NEW s \in SUBSET S, Cardinality(s) = n + 1, NEW x \in s
               PROVE  SetSum(f, s) = f[x] + SetSum(f, s \ {x})
    OBVIOUS
  <2> DEFINE c == Some(s)
  <2>1. s # {} /\ IsFiniteSet(s)
    BY <1>1
  <2>2. c \in s
    BY <2>1, SomeIn
  <2>3. SetSum(f, s) = f[c] + SetSum(f, s \ {c})
    BY <2>1, SetSumUnfold
  <2> HIDE DEF c
  <2>4. CASE c = x
    BY <2>3, <2>4
  <2>5. CASE c # x
    <3>1. \A y \in s : s \ {y} \in SUBSET S /\ Cardinality(s \ {y}) = n
      <4> SUFFICES ASSUME NEW y \in s PROVE s \ {y} \in SUBSET S /\ Cardinality(s \ {y}) = n
        OBVIOUS
      <4>1. Cardinality(s \ {y}) = Cardinality(s) - 1
        BY <2>1, FS_RemoveElement
      <4> QED
        BY <4>1
    <3>2. Free(s \ {c}) /\ Free(s \ {x})
      BY <1>3, <2>2, <3>1
    <3>3. SetSum(f, s \ {c}) = f[x] + SetSum(f, (s \ {c}) \ {x})
      BY <2>5, <3>2
    <3>4. SetSum(f, s \ {x}) = f[c] + SetSum(f, (s \ {x}) \ {c})
      BY <2>2, <2>5, <3>2
    <3>5. (s \ {c}) \ {x} = (s \ {x}) \ {c}
      OBVIOUS
    <3>6. SetSum(f, (s \ {x}) \ {c}) \in Int
      <4>1. IsFiniteSet((s \ {x}) \ {c}) /\ \A y \in (s \ {x}) \ {c} : f[y] \in Int
        BY <1>1
      <4> QED
        BY <4>1, SetSumInt
    <3>7. f[x] \in Int /\ f[c] \in Int
      BY <2>2
    <3>8. \A u, v, r \in Int : u + (v + r) = v + (u + r)
      OBVIOUS
    <3>9. f[c] + (f[x] + SetSum(f, (s \ {x}) \ {c})) = f[x] + (f[c] + SetSum(f, (s \ {x}) \ {c}))
      BY <3>6, <3>7, <3>8
    <3> QED
      BY <2>3, <3>3, <3>4, <3>5, <3>9
  <2> QED
    BY <2>4, <2>5
<1>4. Nat \subseteq N
  <2> HIDE DEF N
  <2> QED
    BY <1>2, <1>3, NatInductionSet
<1> HIDE DEF Free
<1>5. Free(S)
  BY <1>1, <1>4
<1> QED
  BY <1>5 DEF Free

\* The empty sum.
LEMMA SetSumEmpty == \A f : SetSum(f, {}) = 0
BY FS_EmptySet, SetSumUnfold

\* One more element.
LEMMA SetSumAdd ==
  ASSUME NEW f, NEW S, IsFiniteSet(S), NEW x, x \notin S, f[x] \in Int, \A y \in S : f[y] \in Int
  PROVE  SetSum(f, S \cup {x}) = f[x] + SetSum(f, S)
<1>1. IsFiniteSet(S \cup {x}) /\ \A y \in S \cup {x} : f[y] \in Int
  BY FS_AddElement
<1>2. (S \cup {x}) \ {x} = S
  OBVIOUS
<1>3. \A y \in S \cup {x} : SetSum(f, S \cup {x}) = f[y] + SetSum(f, (S \cup {x}) \ {y})
  BY <1>1, SetSumRemove
<1> QED
  BY <1>2, <1>3

\* The sum of two functions that are added pointwise.
LEMMA SetSumPlus ==
  ASSUME NEW S, IsFiniteSet(S), NEW f, NEW g, NEW h,
         \A x \in S : f[x] \in Int /\ g[x] \in Int /\ h[x] = f[x] + g[x]
  PROVE  SetSum(h, S) = SetSum(f, S) + SetSum(g, S)
<1> DEFINE F == {T \in SUBSET S : SetSum(h, T) = SetSum(f, T) + SetSum(g, T)}
<1>1. {} \in F
  BY SetSumEmpty
<1>2. ASSUME NEW T \in SUBSET S, NEW x \in S \ T, T \in F PROVE T \cup {x} \in F
  <2>1. IsFiniteSet(T)
    BY FS_Subset
  <2>2. SetSum(f, T \cup {x}) = f[x] + SetSum(f, T)
    BY <2>1, SetSumAdd
  <2>3. SetSum(g, T \cup {x}) = g[x] + SetSum(g, T)
    BY <2>1, SetSumAdd
  <2>4. SetSum(h, T \cup {x}) = h[x] + SetSum(h, T)
    <3>1. h[x] \in Int /\ \A y \in T : h[y] \in Int
      OBVIOUS
    <3> QED
      BY <2>1, <3>1, SetSumAdd
  <2>5. SetSum(f, T) \in Int /\ SetSum(g, T) \in Int
    BY <2>1, SetSumInt
  <2>6. SetSum(h, T) = SetSum(f, T) + SetSum(g, T)
    BY <1>2
  <2>7. f[x] \in Int /\ g[x] \in Int /\ h[x] = f[x] + g[x]
    OBVIOUS
  <2>8. SetSum(h, T \cup {x}) = SetSum(f, T \cup {x}) + SetSum(g, T \cup {x})
    BY <2>2, <2>3, <2>4, <2>5, <2>6, <2>7
  <2> QED
    BY <2>8
<1>3. SUBSET S \subseteq F
  <2> HIDE DEF F
  <2> QED
    BY <1>1, <1>2, SubsetInduction
<1> QED
  BY <1>3

\* What every element stays below, the sum does as often as there are elements.
LEMMA SetSumAtMost ==
  ASSUME NEW S, IsFiniteSet(S), NEW f, NEW m \in Int, \A x \in S : f[x] \in Int /\ f[x] <= m
  PROVE  SetSum(f, S) <= Cardinality(S) * m
<1> DEFINE F == {T \in SUBSET S : SetSum(f, T) <= Cardinality(T) * m}
<1>1. {} \in F
  BY SetSumEmpty, FS_EmptySet
<1>2. ASSUME NEW T \in SUBSET S, NEW x \in S \ T, T \in F PROVE T \cup {x} \in F
  <2>1. IsFiniteSet(T)
    BY FS_Subset
  <2>2. SetSum(f, T \cup {x}) = f[x] + SetSum(f, T)
    BY <2>1, SetSumAdd
  <2>3. SetSum(f, T) \in Int
    BY <2>1, SetSumInt
  <2>4. Cardinality(T) \in Nat /\ Cardinality(T \cup {x}) = Cardinality(T) + 1
    BY <2>1, FS_CardinalityType, FS_AddElement
  <2>5. (Cardinality(T) + 1) * m = Cardinality(T) * m + m /\ Cardinality(T) * m \in Int
    BY <2>4, SMTT(60)
  <2>6. SetSum(f, T) <= Cardinality(T) * m /\ f[x] \in Int /\ f[x] <= m
    BY <1>2
  <2>7. SetSum(f, T \cup {x}) <= Cardinality(T \cup {x}) * m
    BY <2>2, <2>3, <2>4, <2>5, <2>6
  <2> QED
    BY <2>7
<1>3. SUBSET S \subseteq F
  <2> HIDE DEF F
  <2> QED
    BY <1>1, <1>2, SubsetInduction
<1> QED
  BY <1>3

\* A part and the rest.
LEMMA SetSumSplit ==
  ASSUME NEW S, IsFiniteSet(S), NEW f, NEW A \in SUBSET S, \A x \in S : f[x] \in Int
  PROVE  SetSum(f, S) = SetSum(f, A) + SetSum(f, S \ A)
<1> DEFINE F == {T \in SUBSET (S \ A) : SetSum(f, A \cup T) = SetSum(f, A) + SetSum(f, T)}
<1>0. IsFiniteSet(A) /\ IsFiniteSet(S \ A)
  BY FS_Subset
<1>a. SetSum(f, A) \in Int
  BY <1>0, SetSumInt
<1>1. {} \in F
  <2>1. A \cup {} = A /\ SetSum(f, {}) = 0
    BY SetSumEmpty
  <2>2. SetSum(f, A \cup {}) = SetSum(f, A) + SetSum(f, {})
    BY <1>a, <2>1
  <2> QED
    BY <2>2
<1>2. ASSUME NEW T \in SUBSET (S \ A), NEW x \in (S \ A) \ T, T \in F PROVE T \cup {x} \in F
  <2>1. IsFiniteSet(T) /\ IsFiniteSet(A \cup T)
    BY FS_Subset
  <2>2. SetSum(f, T \cup {x}) = f[x] + SetSum(f, T)
    BY <2>1, SetSumAdd
  <2>3. SetSum(f, (A \cup T) \cup {x}) = f[x] + SetSum(f, A \cup T)
    <3>1. x \notin A \cup T /\ f[x] \in Int /\ \A y \in A \cup T : f[y] \in Int
      OBVIOUS
    <3> QED
      BY <2>1, <3>1, SetSumAdd
  <2>4. SetSum(f, T) \in Int
    BY <2>1, SetSumInt
  <2>5. A \cup (T \cup {x}) = (A \cup T) \cup {x}
    OBVIOUS
  <2>6. SetSum(f, A \cup T) = SetSum(f, A) + SetSum(f, T) /\ f[x] \in Int
    BY <1>2
  <2>7. \A u, v, r \in Int : u + (v + r) = v + (u + r)
    OBVIOUS
  <2>8. f[x] + (SetSum(f, A) + SetSum(f, T)) = SetSum(f, A) + (f[x] + SetSum(f, T))
    BY <1>a, <2>4, <2>6, <2>7
  <2>9. SetSum(f, A \cup (T \cup {x})) = SetSum(f, A) + SetSum(f, T \cup {x})
    BY <2>2, <2>3, <2>5, <2>6, <2>8
  <2> QED
    BY <2>9
<1>3. SUBSET (S \ A) \subseteq F
  <2> HIDE DEF F
  <2> QED
    BY <1>0, <1>1, <1>2, SubsetInduction, SMTT(60)
<1>4. S = A \cup (S \ A) /\ S \ A \in F
  BY <1>3
<1> QED
  BY <1>4

\* A function on a finite set has a largest value.
LEMMA LargestValue ==
  ASSUME NEW S, IsFiniteSet(S), S # {}, NEW f, \A x \in S : f[x] \in Int
  PROVE  \E x \in S : \A y \in S : f[x] >= f[y]
<1> DEFINE F == {T \in SUBSET S : T = {} \/ \E x \in T : \A y \in T : f[x] >= f[y]}
<1>1. {} \in F
  OBVIOUS
<1>2. ASSUME NEW T \in SUBSET S, NEW z \in S \ T, T \in F PROVE T \cup {z} \in F
  <2>1. CASE T = {}
    <3>1. z \in T \cup {z} /\ \A y \in T \cup {z} : f[z] >= f[y]
      BY <2>1
    <3> QED
      BY <3>1
  <2>2. CASE T # {}
    <3>1. PICK x \in T : \A y \in T : f[x] >= f[y]
      BY <1>2, <2>2
    <3>2. CASE f[x] >= f[z]
      <4>1. x \in T \cup {z} /\ \A y \in T \cup {z} : f[x] >= f[y]
        BY <3>1, <3>2
      <4> QED
        BY <4>1
    <3>3. CASE ~(f[x] >= f[z])
      <4>1. z \in T \cup {z} /\ \A y \in T \cup {z} : f[z] >= f[y]
        BY <3>1, <3>3
      <4> QED
        BY <4>1
    <3> QED
      BY <3>2, <3>3
  <2> QED
    BY <2>1, <2>2
<1>3. SUBSET S \subseteq F
  <2> HIDE DEF F
  <2> QED
    BY <1>1, <1>2, SubsetInduction
<1> QED
  BY <1>3

\* Sums depend on the values inside the set only.
LEMMA SetSumSame ==
  ASSUME NEW S, IsFiniteSet(S), NEW f, NEW g, \A x \in S : f[x] \in Int /\ g[x] = f[x]
  PROVE  SetSum(g, S) = SetSum(f, S)
<1> DEFINE F == {T \in SUBSET S : SetSum(g, T) = SetSum(f, T)}
<1>1. {} \in F
  BY SetSumEmpty
<1>2. ASSUME NEW T \in SUBSET S, NEW x \in S \ T, T \in F PROVE T \cup {x} \in F
  <2>1. IsFiniteSet(T)
    BY FS_Subset
  <2>2. SetSum(f, T \cup {x}) = f[x] + SetSum(f, T)
    BY <2>1, SetSumAdd
  <2>3. SetSum(g, T \cup {x}) = g[x] + SetSum(g, T)
    <3>1. g[x] \in Int /\ \A y \in T : g[y] \in Int
      OBVIOUS
    <3> QED
      BY <2>1, <3>1, SetSumAdd
  <2> QED
    BY <1>2, <2>2, <2>3
<1>3. SUBSET S \subseteq F
  <2> HIDE DEF F
  <2> QED
    BY <1>1, <1>2, SubsetInduction
<1> QED
  BY <1>3

\* A sum of naturals is a natural.
LEMMA SetSumNotNegative ==
  ASSUME NEW S, IsFiniteSet(S), NEW f, \A x \in S : f[x] \in Nat
  PROVE  SetSum(f, S) \in Nat
<1> DEFINE F == {T \in SUBSET S : SetSum(f, T) \in Nat}
<1>1. {} \in F
  BY SetSumEmpty
<1>2. ASSUME NEW T \in SUBSET S, NEW x \in S \ T, T \in F PROVE T \cup {x} \in F
  <2>1. IsFiniteSet(T) /\ f[x] \in Int /\ \A y \in T : f[y] \in Int
    BY FS_Subset
  <2>2. SetSum(f, T \cup {x}) = f[x] + SetSum(f, T)
    BY <2>1, SetSumAdd
  <2>3. SetSum(f, T) \in Nat /\ f[x] \in Nat
    BY <1>2
  <2>4. SetSum(f, T \cup {x}) \in Nat
    BY <2>2, <2>3
  <2> QED
    BY <2>4
<1>3. SUBSET S \subseteq F
  <2> HIDE DEF F
  <2> QED
    BY <1>1, <1>2, SubsetInduction
<1> QED
  BY <1>3

\* A part of a sum of naturals is no larger than the whole.
LEMMA SetSumOfSubset ==
  ASSUME NEW S, IsFiniteSet(S), NEW f, NEW A \in SUBSET S, \A x \in S : f[x] \in Nat
  PROVE  SetSum(f, A) <= SetSum(f, S)
<1>1. IsFiniteSet(S \ A) /\ IsFiniteSet(A)
  BY FS_Subset
<1>2. SetSum(f, S \ A) \in Nat
  BY <1>1, SetSumNotNegative
<1>3. SetSum(f, A) \in Nat
  BY <1>1, SetSumNotNegative
<1>4. \A x \in S : f[x] \in Int
  OBVIOUS
<1>5. SetSum(f, S) = SetSum(f, A) + SetSum(f, S \ A)
  BY <1>4, SetSumSplit
<1> QED
  BY <1>2, <1>3, <1>5

-----------------------------------------------------------------------------
(* One turn of the smooth selection over the members D. *)

Balanced(f, D, m) ==
  /\ f \in [D -> Int]
  /\ SetSum(f, D) = 0
  /\ \A A \in SUBSET D : SetSum(f, A) <= m * (Cardinality(A) * (Cardinality(D) - Cardinality(A)))

\* A positive factor can be cancelled.
LEMMA CancelFactor ==
  ASSUME NEW p \in Nat, NEW u \in Int, NEW v \in Int, (p + 1) * u <= (p + 1) * v
  PROVE  u <= v
<1> SUFFICES ASSUME u >= v + 1 PROVE FALSE
  OBVIOUS
<1>1. PICK d \in Nat : u = v + 1 + d
  <2>1. u - v - 1 \in Nat /\ u = v + 1 + (u - v - 1)
    OBVIOUS
  <2> QED
    BY <2>1
<1>2. (p + 1) * u = (p + 1) * v + (p + 1) + (p + 1) * d
  BY <1>1
<1>3. (p + 1) * d \in Nat /\ (p + 1) * v \in Int
  OBVIOUS
<1> QED
  BY <1>2, <1>3

\* The estimate of a turn: k members without the winner, q of them in the
\* pool, d members outside; x the total of those not in the pool, t of all,
\* rb the winner's.
LEMMA TurnEstimate ==
  ASSUME NEW m \in Nat, NEW k \in Nat, NEW q \in 0..k, NEW d \in Nat,
         NEW x \in Int, NEW y \in Int, NEW rb \in Int,
         x <= m * ((k - q) * (d + q)),
         y <= q * rb,
         (x + y) + rb <= m * ((k + 1) * (d - 1)) + (q + 1) * m
  PROVE  x + y <= m * (k * d)
<1>1. q * ((x + y) + rb) <= q * (m * ((k + 1) * (d - 1)) + (q + 1) * m)
  <2>1. \A u, v \in Int : u <= v => q * u <= q * v
    <3> SUFFICES ASSUME NEW u \in Int, NEW v \in Int, u <= v PROVE q * u <= q * v
      OBVIOUS
    <3>1. q * (v - u) \in Nat /\ q * (v - u) = q * v - q * u
      OBVIOUS
    <3> QED
      BY <3>1
  <2>2. (x + y) + rb \in Int /\ m * ((k + 1) * (d - 1)) + (q + 1) * m \in Int
    OBVIOUS
  <2> QED
    BY <2>1, <2>2
<1>2. (q + 1) * (x + y) <= x + q * ((x + y) + rb)
  <2>1. (q + 1) * (x + y) = x + y + q * (x + y) /\ q * ((x + y) + rb) = q * (x + y) + q * rb
    OBVIOUS
  <2>2. q * (x + y) \in Int /\ q * rb \in Int
    OBVIOUS
  <2> QED
    BY <2>1, <2>2
<1>3. m * ((k - q) * (d + q)) + q * (m * ((k + 1) * (d - 1)) + (q + 1) * m) = (q + 1) * (m * (k * d))
  OBVIOUS
<1>4. (q + 1) * (x + y) <= (q + 1) * (m * (k * d))
  <2>1. q * ((x + y) + rb) \in Int /\ q * (m * ((k + 1) * (d - 1)) + (q + 1) * m) \in Int
        /\ m * ((k - q) * (d + q)) \in Int /\ (q + 1) * (x + y) \in Int /\ (q + 1) * (m * (k * d)) \in Int
    OBVIOUS
  <2> QED
    BY <1>1, <1>2, <1>3, <2>1
<1>5. x + y \in Int /\ m * (k * d) \in Int /\ q \in Nat
  OBVIOUS
<1> QED
  BY <1>4, <1>5, CancelFactor

\* A turn keeps balance: the pool P gains its weights, the winner b pays for all.
LEMMA BalanceKept ==
  ASSUME NEW D, IsFiniteSet(D), NEW m \in Nat, NEW f, Balanced(f, D, m),
         NEW P \in SUBSET D, NEW w, \A e \in D : w[e] \in Nat /\ w[e] <= m,
         NEW r, r = [e \in D |-> f[e] + (IF e \in P THEN w[e] ELSE 0)],
         NEW b \in P, \A e \in P : r[b] >= r[e]
  PROVE  Balanced([r EXCEPT ![b] = @ - SetSum(w, P)], D, m)
<1> DEFINE g == [r EXCEPT ![b] = @ - SetSum(w, P)]
<1> DEFINE n == Cardinality(D)
<1> DEFINE z == [e \in D |-> IF e \in P THEN w[e] ELSE 0]
<1>fin. \A A \in SUBSET D : IsFiniteSet(A) /\ Cardinality(A) \in Nat /\ Cardinality(A) <= n
  BY FS_Subset, FS_CardinalityType
<1>n. n \in Nat
  BY FS_CardinalityType
<1>int. \A e \in D : f[e] \in Int /\ z[e] \in Int /\ w[e] \in Int /\ r[e] = f[e] + z[e]
  BY DEF Balanced
<1>rint. r \in [D -> Int]
  BY <1>int
<1>w. SetSum(w, P) \in Nat
  BY <1>fin, SetSumNotNegative
<1>g. g \in [D -> Int] /\ g[b] = r[b] - SetSum(w, P) /\ \A e \in D \ {b} : g[e] = r[e]
  BY <1>rint, <1>w
<1>sum. \A A \in SUBSET D : SetSum(f, A) \in Int /\ SetSum(w, A) \in Int /\ SetSum(r, A) \in Int
  <2> SUFFICES ASSUME NEW A \in SUBSET D
               PROVE  SetSum(f, A) \in Int /\ SetSum(w, A) \in Int /\ SetSum(r, A) \in Int
    OBVIOUS
  <2>1. IsFiniteSet(A)
    BY <1>fin
  <2>2. \A e \in A : f[e] \in Int /\ w[e] \in Int /\ r[e] \in Int
    BY <1>int, <1>rint
  <2> QED
    BY <2>1, <2>2, SetSumInt
<1> HIDE DEF g, n, z
\* Raising adds the weights of the pool.
<1>1. \A A \in SUBSET D : SetSum(r, A) = SetSum(f, A) + SetSum(w, A \cap P)
  <2> SUFFICES ASSUME NEW A \in SUBSET D
               PROVE  SetSum(r, A) = SetSum(f, A) + SetSum(w, A \cap P)
    OBVIOUS
  <2>1. IsFiniteSet(A) /\ IsFiniteSet(A \cap P) /\ IsFiniteSet(A \ (A \cap P))
    BY <1>fin
  <2>2. \A e \in A : f[e] \in Int /\ z[e] \in Int /\ r[e] = f[e] + z[e]
    BY <1>int
  <2>3. SetSum(r, A) = SetSum(f, A) + SetSum(z, A)
    BY <2>1, <2>2, SetSumPlus
  <2>4. SetSum(z, A) = SetSum(z, A \cap P) + SetSum(z, A \ (A \cap P))
    BY <2>1, <2>2, SetSumSplit, ZenonT(60)
  <2>5. SetSum(z, A \cap P) = SetSum(w, A \cap P)
    <3>1. \A e \in A \cap P : w[e] \in Int /\ z[e] = w[e]
      BY <1>int DEF z
    <3> QED
      BY <2>1, <3>1, SetSumSame
  <2>6. SetSum(z, A \ (A \cap P)) = 0
    <3>1. \A e \in A \ (A \cap P) : z[e] \in Int /\ z[e] <= 0 /\ z[e] \in Nat
      BY DEF z
    <3>2. SetSum(z, A \ (A \cap P)) <= Cardinality(A \ (A \cap P)) * 0
      <4>1. 0 \in Int /\ \A e \in A \ (A \cap P) : z[e] \in Int /\ z[e] <= 0
        BY <3>1
      <4> QED
        BY <2>1, <4>1, SetSumAtMost
    <3>3. SetSum(z, A \ (A \cap P)) \in Nat
      BY <2>1, <3>1, SetSumNotNegative
    <3>4. Cardinality(A \ (A \cap P)) \in Nat
      BY <1>fin
    <3> QED
      BY <3>2, <3>3, <3>4
  <2>7. SetSum(w, A \cap P) \in Int
    BY <1>sum
  <2> QED
    BY <2>3, <2>4, <2>5, <2>6, <2>7
\* Charging the winner takes the pool's weight back out of any set it is in.
<1>2. \A A \in SUBSET D : b \in A => SetSum(g, A) = SetSum(r, A) - SetSum(w, P)
  <2> SUFFICES ASSUME NEW A \in SUBSET D, b \in A
               PROVE  SetSum(g, A) = SetSum(r, A) - SetSum(w, P)
    OBVIOUS
  <2>1. IsFiniteSet(A) /\ IsFiniteSet(A \ {b})
    BY <1>fin
  <2>2. \A e \in A : g[e] \in Int /\ r[e] \in Int
    BY <1>g, <1>rint
  <2>3. SetSum(g, A) = g[b] + SetSum(g, A \ {b})
    BY <2>1, <2>2, SetSumRemove
  <2>4. SetSum(r, A) = r[b] + SetSum(r, A \ {b})
    BY <2>1, <2>2, SetSumRemove
  <2>5. SetSum(g, A \ {b}) = SetSum(r, A \ {b})
    <3>1. \A e \in A \ {b} : r[e] \in Int /\ g[e] = r[e]
      BY <1>g, <2>2
    <3> QED
      BY <2>1, <3>1, SetSumSame
  <2>6. SetSum(r, A \ {b}) \in Int
    BY <1>sum
  <2>7. g[b] = r[b] - SetSum(w, P) /\ r[b] \in Int
    BY <1>g, <1>rint
  <2> QED
    BY <1>w, <2>3, <2>4, <2>5, <2>6, <2>7
<1>3. \A A \in SUBSET D : b \notin A => SetSum(g, A) = SetSum(r, A)
  <2> SUFFICES ASSUME NEW A \in SUBSET D, b \notin A PROVE SetSum(g, A) = SetSum(r, A)
    OBVIOUS
  <2>1. IsFiniteSet(A) /\ \A e \in A : r[e] \in Int /\ g[e] = r[e]
    BY <1>fin, <1>g, <1>rint
  <2> QED
    BY <2>1, SetSumSame
<1>4. SetSum(g, D) = 0
  <2>0. D \in SUBSET D /\ b \in D
    OBVIOUS
  <2>1. SetSum(r, D) = SetSum(f, D) + SetSum(w, D \cap P)
    BY <1>1, <2>0
  <2>2. SetSum(g, D) = SetSum(r, D) - SetSum(w, P)
    BY <1>2, <2>0
  <2>3. D \cap P = P /\ SetSum(f, D) = 0
    BY DEF Balanced
  <2> QED
    BY <1>w, <2>1, <2>2, <2>3
<1>5. ASSUME NEW A \in SUBSET D
      PROVE  SetSum(g, A) <= m * (Cardinality(A) * (n - Cardinality(A)))
  <2> DEFINE k == Cardinality(A)
  <2> DEFINE Q == A \cap P
  <2> DEFINE q == Cardinality(Q)
  <2>k. k \in Nat /\ k <= n /\ IsFiniteSet(A) /\ IsFiniteSet(Q) /\ q \in Nat
    BY <1>fin
  <2>f. SetSum(f, A) <= m * (k * (n - k))
    BY DEF Balanced, n
  <2>1. CASE b \in A
    <3>1. SetSum(r, A) = SetSum(f, A) + SetSum(w, Q) /\ SetSum(g, A) = SetSum(r, A) - SetSum(w, P)
      <4>1. SetSum(r, A) = SetSum(f, A) + SetSum(w, Q)
        BY <1>1
      <4>2. SetSum(g, A) = SetSum(r, A) - SetSum(w, P)
        BY <1>2, <2>1
      <4> QED
        BY <4>1, <4>2
    <3>2. SetSum(w, Q) <= SetSum(w, P)
      <4>1. IsFiniteSet(P) /\ Q \in SUBSET P /\ \A e \in P : w[e] \in Nat
        BY <1>fin
      <4> QED
        BY <4>1, SetSumOfSubset
    <3>3. SetSum(f, A) \in Int /\ SetSum(w, Q) \in Int
      BY <1>sum
    <3>4. m * (k * (n - k)) \in Int
      BY <2>k, <1>n
    <3> HIDE DEF k, Q
    <3> QED
      BY <1>w, <2>f, <3>1, <3>2, <3>3, <3>4 DEF k
  <2>2. CASE b \notin A
    <3>1. q <= k /\ Cardinality(A \ Q) = k - q
      <4>1. (A \ Q) \cup Q = A /\ (A \ Q) \cap Q = {} /\ IsFiniteSet(A \ Q)
        BY <1>fin
      <4>2. Cardinality(A) = Cardinality(A \ Q) + Cardinality(Q) - Cardinality({})
        BY <2>k, <4>1, FS_Union
      <4>3. Cardinality({}) = 0 /\ Cardinality(A \ Q) \in Nat
        BY <1>fin, FS_EmptySet
      <4> QED
        BY <2>k, <4>2, <4>3
    <3>2. Cardinality(A \cup {b}) = k + 1 /\ k + 1 <= n
      <4>1. Cardinality(A \cup {b}) = k + 1
        BY <2>k, <2>2, FS_AddElement
      <4>2. Cardinality(A \cup {b}) <= n
        BY <1>fin
      <4> QED
        BY <4>1, <4>2
    <3>3. SetSum(r, A) = SetSum(r, Q) + SetSum(r, A \ Q)
      <4>1. \A e \in A : r[e] \in Int
        BY <1>rint
      <4> QED
        BY <2>k, <4>1, SetSumSplit
    <3>4. SetSum(r, A \ Q) <= m * ((k - q) * ((n - k) + q))
      <4>1. SetSum(r, A \ Q) = SetSum(f, A \ Q) + SetSum(w, (A \ Q) \cap P)
        BY <1>1
      <4>2. (A \ Q) \cap P = {} /\ SetSum(w, {}) = 0 /\ SetSum(f, A \ Q) \in Int
        BY <1>sum, SetSumEmpty
      <4>3. SetSum(r, A \ Q) = SetSum(f, A \ Q)
        BY <4>1, <4>2
      <4>4. SetSum(f, A \ Q) <= m * (Cardinality(A \ Q) * (n - Cardinality(A \ Q)))
        BY DEF Balanced, n
      <4>5. n - (k - q) = (n - k) + q
        BY <1>n, <2>k
      <4> QED
        BY <3>1, <4>3, <4>4, <4>5
    <3>5. SetSum(r, Q) <= q * r[b]
      <4>1. r[b] \in Int /\ \A e \in Q : r[e] \in Int /\ r[e] <= r[b]
        BY <1>rint
      <4> QED
        BY <2>k, <4>1, SetSumAtMost
    <3>6. SetSum(r, A \ Q) + SetSum(r, Q) + r[b] <= m * ((k + 1) * ((n - k) - 1)) + (q + 1) * m
      <4>1. SetSum(r, A \cup {b}) = r[b] + SetSum(r, A)
        <5>1. r[b] \in Int /\ \A e \in A : r[e] \in Int
          BY <1>rint
        <5> QED
          BY <2>k, <2>2, <5>1, SetSumAdd
      <4>2. SetSum(r, A \cup {b}) = SetSum(f, A \cup {b}) + SetSum(w, (A \cup {b}) \cap P)
        BY <1>1
      <4>3. (A \cup {b}) \cap P = Q \cup {b} /\ b \notin Q
        BY <2>2
      <4>4. SetSum(w, Q \cup {b}) <= (q + 1) * m
        <5>1. Cardinality(Q \cup {b}) = q + 1 /\ IsFiniteSet(Q \cup {b})
          BY <2>k, <4>3, FS_AddElement
        <5>2. \A e \in Q \cup {b} : w[e] \in Int /\ w[e] <= m
          BY <1>int
        <5> QED
          BY <5>1, <5>2, SetSumAtMost
      <4>5. SetSum(f, A \cup {b}) <= m * ((k + 1) * ((n - k) - 1))
        <5>1. SetSum(f, A \cup {b}) <= m * (Cardinality(A \cup {b}) * (n - Cardinality(A \cup {b})))
          BY DEF Balanced, n
        <5>2. n - (k + 1) = (n - k) - 1
          BY <1>n, <2>k
        <5> QED
          BY <3>2, <5>1, <5>2
      <4>6. SetSum(f, A \cup {b}) \in Int /\ SetSum(w, Q \cup {b}) \in Int
            /\ SetSum(r, A) \in Int /\ SetSum(r, Q) \in Int /\ SetSum(r, A \ Q) \in Int /\ r[b] \in Int
        BY <1>sum, <1>rint
      <4>7. m * ((k + 1) * ((n - k) - 1)) \in Int /\ (q + 1) * m \in Int
        BY <1>n, <2>k
      <4> HIDE DEF k, Q, q
      <4>0. \A u, v, x, y \in Int : u <= x /\ v <= y => u + v <= x + y
        OBVIOUS
      <4>a. SetSum(f, A \cup {b}) + SetSum(w, Q \cup {b}) <= m * ((k + 1) * ((n - k) - 1)) + (q + 1) * m
        BY <4>0, <4>4, <4>5, <4>6, <4>7
      <4>8. r[b] + SetSum(r, A) <= m * ((k + 1) * ((n - k) - 1)) + (q + 1) * m
        BY <4>1, <4>2, <4>3, <4>a
      <4> QED
        BY <3>3, <4>6, <4>8
    <3>7. SetSum(r, A \ Q) + SetSum(r, Q) <= m * (k * (n - k))
      <4>1. k \in Nat /\ q \in 0..k /\ n - k \in Nat /\ r[b] \in Int
            /\ SetSum(r, A \ Q) \in Int /\ SetSum(r, Q) \in Int
        BY <1>n, <1>sum, <1>rint, <2>k, <3>1
      <4> HIDE DEF k, Q, q
      <4> QED
        BY <3>4, <3>5, <3>6, <4>1, TurnEstimate
    <3>8. SetSum(r, A \ Q) \in Int /\ SetSum(r, Q) \in Int
      BY <1>sum
    <3> QED
      BY <1>3, <2>2, <3>3, <3>7, <3>8
  <2> QED
    BY <2>1, <2>2
<1> QED
  BY <1>g, <1>4, <1>5 DEF Balanced, g, n

\* Balance bounds each running total on both sides.
LEMMA BalanceBounds ==
  ASSUME NEW D, IsFiniteSet(D), NEW m \in Nat, NEW f, Balanced(f, D, m), NEW e \in D
  PROVE  f[e] \in -(m * (Cardinality(D) - 1))..(m * (Cardinality(D) - 1))
<1> DEFINE n == Cardinality(D)
<1>1. n \in Nat /\ f[e] \in Int /\ \A x \in D : f[x] \in Int
  BY FS_CardinalityType DEF Balanced
<1>2. SetSum(f, {e}) = f[e]
  <2>1. SetSum(f, {} \cup {e}) = f[e] + SetSum(f, {})
    BY <1>1, FS_EmptySet, SetSumAdd
  <2> QED
    BY <1>1, <2>1, SetSumEmpty
<1>3. f[e] <= m * (n - 1)
  <2>1. SetSum(f, {e}) <= m * (Cardinality({e}) * (n - Cardinality({e})))
    BY DEF Balanced
  <2>2. Cardinality({e}) = 1
    BY FS_Singleton
  <2> QED
    BY <1>1, <1>2, <2>1, <2>2
<1>4. 0 - f[e] <= m * (n - 1)
  <2>1. SetSum(f, D) = f[e] + SetSum(f, D \ {e}) /\ SetSum(f, D) = 0
    BY <1>1, SetSumRemove DEF Balanced
  <2>2. Cardinality(D \ {e}) = n - 1 /\ IsFiniteSet(D \ {e})
    BY FS_RemoveElement
  <2>3. SetSum(f, D \ {e}) \in Int
    BY <1>1, <2>2, SetSumInt
  <2>4. SetSum(f, D \ {e}) <= m * ((n - 1) * (n - (n - 1)))
    <3>1. SetSum(f, D \ {e}) <= m * (Cardinality(D \ {e}) * (n - Cardinality(D \ {e})))
      BY DEF Balanced
    <3> QED
      BY <2>2, <3>1
  <2>5. m * ((n - 1) * (n - (n - 1))) = m * (n - 1)
    BY <1>1
  <2> QED
    BY <1>1, <2>1, <2>3, <2>4, <2>5
<1>5. m * (n - 1) \in Int
  BY <1>1
<1> QED
  BY <1>1, <1>3, <1>4, <1>5

-----------------------------------------------------------------------------
(* One route: shapes, heads, the winner. *)

\* A sequence has finitely many elements.
LEMMA FiniteRange ==
  ASSUME NEW E, NEW s \in Seq(E)
  PROVE  IsFiniteSet(ToSet(s)) /\ ToSet(s) \subseteq E
<1>1. s \in [1..Len(s) -> E] /\ Len(s) \in Nat /\ DOMAIN s = 1..Len(s)
  BY LenProperties
<1>2. s \in Surjection(1..Len(s), ToSet(s))
  BY <1>1 DEF Surjection, ToSet
<1>3. IsFiniteSet(1..Len(s))
  BY <1>1, FS_Interval
<1> QED
  BY <1>1, <1>2, <1>3, FS_Surjection DEF ToSet

\* The largest weight of a fingerprint, 0 when the strategy reads none.
Top(fp) == Max({0} \cup ToSet(fp.weights))

\* Top bounds every weight of the fingerprint.
LEMMA TopIsLargest ==
  ASSUME NEW fp, fp.weights \in Seq(Nat)
  PROVE  Top(fp) \in Nat /\ \A x \in ToSet(fp.weights) : x <= Top(fp)
<1> DEFINE S == {0} \cup ToSet(fp.weights)
<1>1. IsFiniteSet(ToSet(fp.weights)) /\ ToSet(fp.weights) \subseteq Nat
  BY FiniteRange
<1>2. IsFiniteSet(S)
  BY <1>1, FS_Singleton, FS_Union
<1>3. S # {} /\ \A x \in S : x \in Nat
  BY <1>1
<1> HIDE DEF S
<1>4. \E x \in S : \A y \in S : x >= y
  <2> DEFINE f == [x \in S |-> x]
  <2>1. \A x \in S : f[x] = x /\ f[x] \in Int
    BY <1>3
  <2> HIDE DEF f
  <2>2. \E x \in S : \A y \in S : f[x] >= f[y]
    BY <1>2, <1>3, <2>1, LargestValue
  <2> QED
    BY <2>1, <2>2
<1>5. Max(S) \in S /\ \A y \in S : Max(S) >= y
  BY <1>4 DEF Max
<1> QED
  BY <1>3, <1>5 DEF Top, S

Fingerprints == {Fingerprint(s) : s \in Shapes}

\* What the assumptions on the shapes give.
LEMMA ShapeFacts ==
  ASSUME NEW s \in Shapes
  PROVE  /\ s.members \in Seq(ToSet(s.members)) /\ IsInjective(s.members)
         /\ IsFiniteSet(ToSet(s.members)) /\ ToSet(s.members) # {}
         /\ Fingerprint(s).members = s.members
         /\ Top(Fingerprint(s)) \in Nat
         /\ \A e \in ToSet(s.members) : s.weight[e] \in Nat
         /\ IsWRR(s) => \A e \in ToSet(s.members) : s.weight[e] <= Top(Fingerprint(s))
<1> DEFINE m == s.members
<1> DEFINE W == [i \in 1..Len(m) |-> s.weight[m[i]]]
<1>1. m \in Seq(ToSet(m)) /\ IsInjective(m) /\ Len(m) > 0 /\ \A e \in ToSet(m) : s.weight[e] \in Nat
  BY ShapesTyped
<1>2. Len(m) \in Nat /\ DOMAIN m = 1..Len(m) /\ \A i \in 1..Len(m) : m[i] \in ToSet(m)
  BY <1>1, LenProperties DEF ToSet
<1>3. IsFiniteSet(ToSet(m)) /\ ToSet(m) # {}
  <2>1. 1 \in 1..Len(m)
    BY <1>1, <1>2
  <2> QED
    BY <1>1, <1>2, <2>1, FiniteRange
<1>4. W \in Seq(Nat) /\ Len(W) = Len(m) /\ DOMAIN W = 1..Len(m)
  BY <1>1, <1>2
<1> HIDE DEF m, W
<1>5. Fingerprint(s).members = m
  BY DEF Fingerprint, m
<1>6. Fingerprint(s).weights = IF IsWRR(s) THEN W ELSE <<>>
  BY DEF Fingerprint, W, m
<1>7. Fingerprint(s).weights \in Seq(Nat)
  <2>1. <<>> \in Seq(Nat)
    OBVIOUS
  <2> QED
    BY <1>4, <1>6, <2>1
<1>8. Top(Fingerprint(s)) \in Nat /\ \A x \in ToSet(Fingerprint(s).weights) : x <= Top(Fingerprint(s))
  BY <1>7, TopIsLargest
<1>9. ASSUME IsWRR(s), NEW e \in ToSet(m) PROVE s.weight[e] <= Top(Fingerprint(s))
  <2>1. PICK i \in 1..Len(m) : m[i] = e
    BY <1>2 DEF ToSet
  <2>2. W[i] = s.weight[e]
    BY <2>1 DEF W
  <2>3. s.weight[e] \in ToSet(Fingerprint(s).weights)
    BY <1>4, <1>6, <1>9, <2>1, <2>2 DEF ToSet
  <2> QED
    BY <1>8, <2>3
<1> QED
  BY <1>1, <1>3, <1>5, <1>8, <1>9 DEF m

\* The heads of a plan are members, each once.
LEMMA HeadsAreMembers ==
  ASSUME NEW s \in Shapes, NEW heads \in HeadSets(s)
  PROVE  heads \in Seq(ToSet(s.members)) /\ IsInjective(heads) /\ ToSet(heads) \subseteq ToSet(s.members)
<1>1. PICK up \in SUBSET ToSet(s.members) : heads = Only(s.members, up)
  BY DEF HeadSets
<1>2. s.members \in Seq(ToSet(s.members)) /\ IsInjective(s.members)
  BY ShapeFacts
<1> QED
  BY <1>1, <1>2, OnlyKeeps

\* FirstBest returns a member of the pool that no other one outbids.
LEMMA BestIsBest ==
  ASSUME NEW D, NEW pool \in Seq(D), pool # <<>>, NEW cw \in [D -> Int]
  PROVE  /\ FirstBest(cw, pool) \in ToSet(pool)
         /\ \A e \in ToSet(pool) : cw[FirstBest(cw, pool)] >= cw[e]
<1> DEFINE n == Len(pool)
<1> DEFINE I == {i \in 1..n : \A j \in 1..n : cw[pool[i]] >= cw[pool[j]]}
<1>1. n \in Nat \ {0} /\ DOMAIN pool = 1..n /\ \A i \in 1..n : pool[i] \in D
  BY LenProperties, EmptySeq, ElementOfSeq
<1>2. I # {}
  <2> DEFINE f == [i \in 1..n |-> cw[pool[i]]]
  <2>1. \A i \in 1..n : f[i] = cw[pool[i]] /\ f[i] \in Int
    BY <1>1
  <2>2. IsFiniteSet(1..n) /\ 1..n # {}
    <3>1. n \in Int /\ 1 \in Int /\ 1 \in 1..n
      BY <1>1
    <3> HIDE DEF n
    <3> QED
      BY <3>1, FS_Interval
  <2> HIDE DEF f
  <2>3. \E i \in 1..n : \A j \in 1..n : f[i] >= f[j]
    BY <2>1, <2>2, LargestValue
  <2> QED
    BY <2>1, <2>3
<1>3. I \in SUBSET Nat
  BY <1>1
<1>4. FirstBest(cw, pool) = pool[Min(I)]
  BY DEF FirstBest
<1>5. Min(I) \in I
  <2> HIDE DEF I
  <2>1. \E i \in I : \A j \in I : i <= j
    BY <1>2, <1>3, LeastNatural
  <2> QED
    BY <2>1 DEF Min
<1>6. Min(I) \in 1..n /\ \A j \in 1..n : cw[pool[Min(I)]] >= cw[pool[j]]
  BY <1>5
<1> QED
  BY <1>1, <1>4, <1>6 DEF ToSet

-----------------------------------------------------------------------------
(* What a turn returns and leaves behind. *)

Credits == UNION {[ToSet(s.members) -> Int] : s \in Shapes}

StateType == [fingerprint : Fingerprints, generation : Nat, cursor : 0..(CursorPeriod - 1), cw : Credits]

SoundState(st) ==
  /\ st \in StateType
  /\ Balanced(st.cw, ToSet(st.fingerprint.members), Top(st.fingerprint))

SoundPlan(s, heads, plan) ==
  /\ IsInjective(plan)
  /\ ToSet(plan) = ToSet(heads)
  /\ IsWRR(s) => s.weight[Head(plan)] > 0

\* freshState: nobody owes anything.
LEMMA FreshIsSound ==
  ASSUME NEW s \in Shapes, NEW gen \in Nat
  PROVE  /\ SoundState(FreshState(s, gen))
         /\ FreshState(s, gen).fingerprint = Fingerprint(s)
         /\ FreshState(s, gen).generation = gen
<1> DEFINE D == ToSet(s.members)
<1> DEFINE f == [e \in D |-> 0]
<1> DEFINE m == Top(Fingerprint(s))
<1>1. IsFiniteSet(D) /\ m \in Nat /\ Fingerprint(s).members = s.members
  BY ShapeFacts
<1>2. f \in [D -> Int] /\ f \in Credits
  BY DEF Credits
<1>3. 0 \in 0..(CursorPeriod - 1)
  BY CursorPeriodCommon
<1>4. FreshState(s, gen) \in StateType
  BY <1>2, <1>3 DEF FreshState, StateType, Fingerprints
<1> HIDE DEF m
<1>5. ASSUME NEW A \in SUBSET D
      PROVE  SetSum(f, A) = 0 /\ SetSum(f, A) <= m * (Cardinality(A) * (Cardinality(D) - Cardinality(A)))
  <2>1. IsFiniteSet(A) /\ Cardinality(A) \in Nat /\ Cardinality(D) \in Nat /\ Cardinality(A) <= Cardinality(D)
    BY <1>1, FS_Subset, FS_CardinalityType
  <2>2. \A e \in A : f[e] \in Int /\ f[e] <= 0 /\ f[e] \in Nat
    OBVIOUS
  <2> HIDE DEF f
  <2>3. SetSum(f, A) \in Nat
    BY <2>1, <2>2, SetSumNotNegative
  <2>4. SetSum(f, A) <= Cardinality(A) * 0
    <3>1. 0 \in Int /\ \A e \in A : f[e] \in Int /\ f[e] <= 0
      BY <2>2
    <3> QED
      BY <2>1, <3>1, SetSumAtMost
  <2>5. SetSum(f, A) = 0
    BY <2>1, <2>3, <2>4
  <2>6. \A u, v, x \in Nat : u * (v * x) \in Nat
    OBVIOUS
  <2>7. Cardinality(D) - Cardinality(A) \in Nat
    BY <2>1
  <2>8. m * (Cardinality(A) * (Cardinality(D) - Cardinality(A))) \in Nat
    BY <1>1, <2>1, <2>6, <2>7
  <2> QED
    BY <2>5, <2>8
<1>6. Balanced(f, D, m)
  BY <1>2, <1>5 DEF Balanced
<1>7. FreshState(s, gen).cw = f /\ FreshState(s, gen).fingerprint = Fingerprint(s)
      /\ FreshState(s, gen).generation = gen
  BY DEF FreshState
<1> QED
  BY <1>1, <1>4, <1>6, <1>7 DEF SoundState, m

\* A turn of smooth selection.
LEMMA WeightedTurnIsSound ==
  ASSUME NEW s \in Shapes, IsWRR(s), NEW heads \in HeadSets(s), ~Unservable(s, heads),
         NEW st, SoundState(st), st.fingerprint = Fingerprint(s)
  PROVE  /\ SoundState(WeightedTurn(st, s, heads).state)
         /\ WeightedTurn(st, s, heads).state.fingerprint = st.fingerprint
         /\ WeightedTurn(st, s, heads).state.generation = st.generation
         /\ SoundPlan(s, heads, WeightedTurn(st, s, heads).attempts)
<1> DEFINE D == ToSet(s.members)
<1> DEFINE m == Top(Fingerprint(s))
<1> DEFINE pool == Pool(s, heads)
<1> DEFINE P == ToSet(pool)
<1> DEFINE r == Raised(st, s, pool)
<1> DEFINE b == FirstBest(r, pool)
<1> DEFINE g == [r EXCEPT ![b] = @ - PoolWeight(s, pool)]
<1>1. IsFiniteSet(D) /\ m \in Nat /\ Fingerprint(s).members = s.members
      /\ \A e \in D : s.weight[e] \in Nat /\ s.weight[e] <= m
  BY ShapeFacts
<1>2. heads \in Seq(D) /\ IsInjective(heads) /\ ToSet(heads) \subseteq D
  BY HeadsAreMembers
<1>3. pool \in Seq(D) /\ P = {e \in ToSet(heads) : s.weight[e] > 0} /\ pool # <<>>
  <2>1. pool = Only(heads, {e \in ToSet(heads) : s.weight[e] > 0})
    BY DEF Pool
  <2>2. pool \in Seq(D) /\ P = ToSet(heads) \cap {e \in ToSet(heads) : s.weight[e] > 0}
    <3> HIDE DEF pool
    <3> QED
      BY <1>2, <2>1, OnlyKeeps
  <2>3. pool # <<>>
    BY DEF Unservable
  <2> QED
    BY <2>2, <2>3
<1>4. Balanced(st.cw, D, m) /\ st.cw \in [D -> Int] /\ st \in StateType
  BY <1>1 DEF SoundState, Balanced
<1>5. r = [e \in D |-> st.cw[e] + (IF e \in P THEN s.weight[e] ELSE 0)]
  BY <1>4 DEF Raised
<1>6. r \in [D -> Int]
  BY <1>1, <1>4, <1>5
<1> HIDE DEF pool, r
<1>7. b \in P /\ \A e \in P : r[b] >= r[e]
  BY <1>3, <1>6, BestIsBest
<1>8. PoolWeight(s, pool) = SetSum(s.weight, P)
  BY DEF PoolWeight, SetSum
<1>9. P \in SUBSET D
  BY <1>2, <1>3
<1> HIDE DEF D, P, b, m
<1>10. Balanced(g, D, m)
  <2>1. Balanced([r EXCEPT ![b] = @ - SetSum(s.weight, P)], D, m)
    BY <1>1, <1>4, <1>5, <1>7, <1>9, BalanceKept
  <2> QED
    BY <1>8, <2>1
<1>11. g \in Credits
  BY <1>10 DEF Balanced, Credits, D
<1> HIDE DEF g
<1>12. /\ WeightedTurn(st, s, heads).state = [st EXCEPT !.cw = g]
       /\ WeightedTurn(st, s, heads).attempts = <<b>> \o Only(heads, ToSet(heads) \ {b})
  BY DEF WeightedTurn, g, b, r, pool
<1>13. /\ [st EXCEPT !.cw = g] \in StateType
       /\ [st EXCEPT !.cw = g].cw = g
       /\ [st EXCEPT !.cw = g].fingerprint = st.fingerprint
       /\ [st EXCEPT !.cw = g].generation = st.generation
  BY <1>4, <1>11 DEF StateType
<1>14. SoundState([st EXCEPT !.cw = g])
  BY <1>1, <1>10, <1>13 DEF SoundState, D, m
<1>15. SoundPlan(s, heads, <<b>> \o Only(heads, ToSet(heads) \ {b}))
  <2> DEFINE rest == Only(heads, ToSet(heads) \ {b})
  <2> DEFINE plan == <<b>> \o rest
  <2>1. rest \in Seq(D) /\ ToSet(rest) = ToSet(heads) \ {b} /\ IsInjective(rest)
    <3>1. ToSet(heads) \cap (ToSet(heads) \ {b}) = ToSet(heads) \ {b}
      OBVIOUS
    <3> QED
      BY <1>2, <3>1, OnlyKeeps DEF D
  <2>2. b \in ToSet(heads) /\ b \in D /\ s.weight[b] > 0
    BY <1>3, <1>7, <1>9
  <2> HIDE DEF rest
  <2>3. /\ Len(rest) \in Nat /\ DOMAIN rest = 1..Len(rest)
        /\ plan \in Seq(D) /\ Len(plan) = Len(rest) + 1 /\ DOMAIN plan = 1..(Len(rest) + 1)
        /\ plan[1] = b /\ \A i \in 1..Len(rest) : plan[i + 1] = rest[i]
        /\ Head(plan) = b
    BY <2>1, <2>2
  <2> HIDE DEF plan
  <2>4. ToSet(plan) = ToSet(heads)
    <3>1. ToSet(plan) \subseteq ToSet(heads)
      <4> SUFFICES ASSUME NEW i \in 1..(Len(rest) + 1) PROVE plan[i] \in ToSet(heads)
        BY <2>3 DEF ToSet
      <4>1. CASE i = 1
        BY <2>2, <2>3, <4>1
      <4>2. CASE i # 1
        <5>1. i - 1 \in 1..Len(rest) /\ plan[(i - 1) + 1] = rest[i - 1] /\ (i - 1) + 1 = i
          BY <2>3, <4>2
        <5>2. rest[i - 1] \in ToSet(rest)
          BY <2>3, <5>1 DEF ToSet
        <5> QED
          BY <2>1, <5>1, <5>2
      <4> QED
        BY <4>1, <4>2
    <3>2. ToSet(heads) \subseteq ToSet(plan)
      <4> SUFFICES ASSUME NEW e \in ToSet(heads) PROVE e \in ToSet(plan)
        OBVIOUS
      <4>1. CASE e = b
        <5>1. 1 \in 1..(Len(rest) + 1)
          BY <2>3
        <5> QED
          BY <2>3, <4>1, <5>1 DEF ToSet
      <4>2. CASE e # b
        <5>1. PICK i \in 1..Len(rest) : rest[i] = e
          BY <2>1, <2>3, <4>2 DEF ToSet
        <5>2. i + 1 \in 1..(Len(rest) + 1) /\ plan[i + 1] = e
          BY <2>3, <5>1
        <5> QED
          BY <2>3, <5>2 DEF ToSet
      <4> QED
        BY <4>1, <4>2
    <3> QED
      BY <3>1, <3>2
  <2>5. IsInjective(plan)
    <3> SUFFICES ASSUME NEW i \in 1..(Len(rest) + 1), NEW j \in 1..(Len(rest) + 1), plan[i] = plan[j], i < j
                 PROVE  FALSE
      BY <2>3 DEF IsInjective
    <3>1. j - 1 \in 1..Len(rest) /\ plan[j] = rest[j - 1]
      <4>1. j - 1 \in 1..Len(rest) /\ (j - 1) + 1 = j
        BY <2>3
      <4> QED
        BY <2>3, <4>1
    <3>2. CASE i = 1
      <4>1. rest[j - 1] \in ToSet(rest)
        BY <2>3, <3>1 DEF ToSet
      <4> QED
        BY <2>1, <2>3, <3>1, <3>2, <4>1
    <3>3. CASE i # 1
      <4>1. i - 1 \in 1..Len(rest) /\ (i - 1) + 1 = i
        BY <2>3, <3>3
      <4>2. plan[i] = rest[i - 1]
        BY <2>3, <4>1
      <4>3. i - 1 \in DOMAIN rest /\ j - 1 \in DOMAIN rest /\ rest[i - 1] = rest[j - 1]
        BY <2>3, <3>1, <4>1, <4>2
      <4>4. i - 1 = j - 1
        BY <2>1, <4>3 DEF IsInjective
      <4> QED
        BY <4>4
    <3> QED
      BY <3>2, <3>3
  <2> QED
    BY <2>2, <2>3, <2>4, <2>5 DEF SoundPlan, plan, rest
<1> QED
  BY <1>12, <1>13, <1>14, <1>15

\* A turn of round_robin.
LEMMA RotatingTurnIsSound ==
  ASSUME NEW s \in Shapes, ~IsWRR(s), NEW heads \in HeadSets(s), ~Unservable(s, heads),
         NEW st, SoundState(st)
  PROVE  /\ SoundState(RotatingTurn(st, heads).state)
         /\ RotatingTurn(st, heads).state.fingerprint = st.fingerprint
         /\ RotatingTurn(st, heads).state.generation = st.generation
         /\ SoundPlan(s, heads, RotatingTurn(st, heads).attempts)
<1> DEFINE D == ToSet(s.members)
<1> DEFINE n == Len(heads)
<1> DEFINE k == st.cursor % n
<1> DEFINE plan == SubSeq(heads, k + 1, n) \o SubSeq(heads, 1, k)
<1>1. heads \in Seq(D) /\ IsInjective(heads) /\ heads # <<>>
  BY HeadsAreMembers DEF Unservable
<1>2. n \in Nat \ {0} /\ DOMAIN heads = 1..n /\ \A i \in 1..n : heads[i] \in D
  BY <1>1, LenProperties, EmptySeq, ElementOfSeq
<1>3. st \in StateType /\ st.cursor \in Nat /\ CursorPeriod \in Nat \ {0}
  BY CursorPeriodCommon DEF SoundState, StateType
<1> HIDE DEF D, n
<1>4. k \in 0..(n - 1)
  BY <1>2, <1>3
<1>5. (st.cursor + 1) % CursorPeriod \in 0..(CursorPeriod - 1)
  BY <1>3
<1>6. RotatingTurn(st, heads).attempts = plan
      /\ RotatingTurn(st, heads).state = [st EXCEPT !.cursor = (@ + 1) % CursorPeriod]
  BY DEF RotatingTurn, n
<1> DEFINE new == [st EXCEPT !.cursor = (@ + 1) % CursorPeriod]
<1>7. new \in StateType /\ new.cw = st.cw /\ new.fingerprint = st.fingerprint /\ new.generation = st.generation
  BY <1>3, <1>5 DEF StateType
<1>8. SoundState(new)
  BY <1>7 DEF SoundState
<1> HIDE DEF k
<1>9. /\ SubSeq(heads, k + 1, n) \in Seq(D) /\ Len(SubSeq(heads, k + 1, n)) = n - k
      /\ \A i \in 1..(n - k) : SubSeq(heads, k + 1, n)[i] = heads[k + i]
  <2>1. k + 1 \in Int /\ n \in Int /\ k + 1 <= n /\ \A i \in (k + 1)..n : heads[i] \in D
    BY <1>2, <1>4
  <2>2. /\ SubSeq(heads, k + 1, n) \in Seq(D)
        /\ Len(SubSeq(heads, k + 1, n)) = IF k + 1 <= n THEN n - (k + 1) + 1 ELSE 0
        /\ \A i \in 1..(n - (k + 1) + 1) : SubSeq(heads, k + 1, n)[i] = heads[(k + 1) + i - 1]
    BY <2>1, SubSeqProperties
  <2>3. n - (k + 1) + 1 = n - k /\ \A i \in 1..(n - k) : (k + 1) + i - 1 = k + i
    BY <1>2, <1>4
  <2> QED
    BY <2>1, <2>2, <2>3
<1>10. /\ SubSeq(heads, 1, k) \in Seq(D) /\ Len(SubSeq(heads, 1, k)) = k
       /\ \A i \in 1..k : SubSeq(heads, 1, k)[i] = heads[i]
  <2>1. 1 \in Int /\ k \in Int /\ \A i \in 1..k : heads[i] \in D
    BY <1>2, <1>4
  <2>2. /\ SubSeq(heads, 1, k) \in Seq(D)
        /\ Len(SubSeq(heads, 1, k)) = IF 1 <= k THEN k - 1 + 1 ELSE 0
        /\ \A i \in 1..(k - 1 + 1) : SubSeq(heads, 1, k)[i] = heads[1 + i - 1]
    BY <2>1, SubSeqProperties
  <2>3. k - 1 + 1 = k /\ (~(1 <= k) => k = 0) /\ \A i \in 1..k : 1 + i - 1 = i
    BY <1>4
  <2> QED
    BY <2>2, <2>3
<1>11. /\ plan \in Seq(D) /\ Len(plan) = n /\ DOMAIN plan = 1..n
       /\ \A i \in 1..n : plan[i] = IF i <= n - k THEN heads[k + i] ELSE heads[i - (n - k)]
  <2>1. /\ plan \in Seq(D)
        /\ Len(plan) = (n - k) + k
        /\ \A i \in 1..((n - k) + k) : plan[i] =
             IF i <= n - k THEN SubSeq(heads, k + 1, n)[i] ELSE SubSeq(heads, 1, k)[i - (n - k)]
    <3>1. ASSUME NEW s1 \in Seq(D), NEW s2 \in Seq(D), Len(s1) = n - k, Len(s2) = k
          PROVE  /\ s1 \o s2 \in Seq(D)
                 /\ Len(s1 \o s2) = (n - k) + k
                 /\ \A i \in 1..((n - k) + k) :
                      (s1 \o s2)[i] = IF i <= n - k THEN s1[i] ELSE s2[i - (n - k)]
      <4>1. /\ s1 \o s2 \in Seq(D)
            /\ Len(s1 \o s2) = Len(s1) + Len(s2)
            /\ \A i \in 1..(Len(s1) + Len(s2)) :
                 (s1 \o s2)[i] = IF i <= Len(s1) THEN s1[i] ELSE s2[i - Len(s1)]
        BY ConcatProperties, Zenon
      <4> QED
        BY <3>1, <4>1, Zenon
    <3> QED
      BY <1>9, <1>10, <3>1, Zenon
  <2> HIDE DEF plan
  <2>2. (n - k) + k = n /\ DOMAIN plan = 1..Len(plan)
    BY <1>2, <1>4, <2>1, LenProperties
  <2>3. ASSUME NEW i \in 1..n
        PROVE  plan[i] = IF i <= n - k THEN heads[k + i] ELSE heads[i - (n - k)]
    <3>1. i <= n - k => i \in 1..(n - k)
      BY <1>2, <1>4
    <3>2. ~(i <= n - k) => i - (n - k) \in 1..k
      BY <1>2, <1>4
    <3> QED
      BY <1>9, <1>10, <2>1, <2>2, <3>1, <3>2
  <2> QED
    BY <2>1, <2>2, <2>3
<1> HIDE DEF plan
\* Position i of the plan is position At(i) of the heads.
<1> DEFINE At(i) == IF i <= n - k THEN k + i ELSE i - (n - k)
<1>12. \A i \in 1..n : At(i) \in 1..n /\ plan[i] = heads[At(i)]
  BY <1>2, <1>4, <1>11
<1>13. \A i, j \in 1..n : At(i) = At(j) => i = j
  BY <1>2, <1>4
<1>14. \A j \in 1..n : \E i \in 1..n : At(i) = j
  <2> SUFFICES ASSUME NEW j \in 1..n PROVE \E i \in 1..n : At(i) = j
    OBVIOUS
  <2>1. CASE j > k
    <3>1. j - k \in 1..n /\ At(j - k) = j
      BY <1>2, <1>4, <2>1
    <3> QED
      BY <3>1
  <2>2. CASE ~(j > k)
    <3>1. j + (n - k) \in 1..n /\ At(j + (n - k)) = j
      BY <1>2, <1>4, <2>2
    <3> QED
      BY <3>1
  <2> QED
    BY <2>1, <2>2
<1> HIDE DEF At
<1>15. IsInjective(plan)
  <2> SUFFICES ASSUME NEW i \in 1..n, NEW j \in 1..n, plan[i] = plan[j] PROVE i = j
    BY <1>11 DEF IsInjective
  <2>1. At(i) = At(j)
    BY <1>1, <1>2, <1>12 DEF IsInjective
  <2> QED
    BY <1>13, <2>1
<1>16. ToSet(plan) = ToSet(heads)
  <2>1. ToSet(plan) = {plan[i] : i \in 1..n} /\ ToSet(heads) = {heads[i] : i \in 1..n}
    BY <1>2, <1>11 DEF ToSet
  <2> QED
    BY <1>12, <1>14, <2>1
<1>17. SoundPlan(s, heads, plan)
  BY <1>15, <1>16 DEF SoundPlan
<1> QED
  BY <1>6, <1>7, <1>8, <1>17

\* Either turn.
LEMMA TurnIsSound ==
  ASSUME NEW s \in Shapes, NEW heads \in HeadSets(s), ~Unservable(s, heads),
         NEW st, SoundState(st), st.fingerprint = Fingerprint(s)
  PROVE  /\ SoundState(Turn(st, s, heads).state)
         /\ Turn(st, s, heads).state.fingerprint = st.fingerprint
         /\ Turn(st, s, heads).state.generation = st.generation
         /\ SoundPlan(s, heads, Turn(st, s, heads).attempts)
<1>1. CASE IsWRR(s)
  BY <1>1, WeightedTurnIsSound DEF Turn
<1>2. CASE ~IsWRR(s)
  BY <1>2, RotatingTurnIsSound DEF Turn
<1> QED
  BY <1>1, <1>2

-----------------------------------------------------------------------------
(* The steps of the scheduler and its requests. *)

ConfTyped == conf \in Seq(Configs) /\ Live \in 1..MaxGen

RotSound ==
  /\ DOMAIN rot \subseteq RouteId
  /\ \A r \in DOMAIN rot : SoundState(rot[r]) /\ rot[r].generation \in 1..Live

RequestSound(v) ==
  /\ v.pc \in {"idle", "matched", "planned"}
  /\ v.pc # "idle" => /\ v.gen \in 1..Live /\ v.route \in RouteId
                      /\ ShapeAt(v.gen, v.route) \in Shapes
  /\ v.pc = "planned" /\ v.plan # <<>> => SoundPlan(ShapeAt(v.gen, v.route), v.heads, v.plan)

RequestsSound == DOMAIN req = Request /\ \A q \in Request : RequestSound(req[q])

SchedulerInv ==
  /\ ConfTyped
  /\ RotSound
  /\ prunedGen \in 0..Live
  /\ RequestsSound

\* What every generation says of a route: a valid shape or none.
LEMMA ShapeAtTyped ==
  ASSUME ConfTyped, NEW gen \in 1..Live, NEW route \in RouteId
  PROVE  ShapeAt(gen, route) = NoRoute \/ ShapeAt(gen, route) \in Shapes
<1>1. conf[gen] \in Configs
  BY ElementOfSeq DEF ConfTyped, Live
<1> QED
  BY <1>1 DEF ShapeAt, Configs

\* stateFor: the stored state or a fresh one, sound and of this fingerprint.
LEMMA StateForIsSound ==
  ASSUME RotSound, NEW s \in Shapes, NEW gen \in 1..Live, NEW route, Live \in Nat
  PROVE  /\ SoundState(StateFor(route, s, gen).st)
         /\ StateFor(route, s, gen).st.fingerprint = Fingerprint(s)
         /\ StateFor(route, s, gen).st.generation \in 1..Live
<1>1. gen \in Nat
  OBVIOUS
<1>2. /\ SoundState(FreshState(s, gen))
      /\ FreshState(s, gen).fingerprint = Fingerprint(s)
      /\ FreshState(s, gen).generation = gen
  BY <1>1, FreshIsSound
<1>3. StateFor(route, s, gen).st =
        IF route \in DOMAIN rot /\ rot[route].fingerprint = Fingerprint(s)
        THEN rot[route] ELSE FreshState(s, gen)
  BY DEF StateFor
<1>4. CASE route \in DOMAIN rot /\ rot[route].fingerprint = Fingerprint(s)
  BY <1>3, <1>4 DEF RotSound
<1>5. CASE ~(route \in DOMAIN rot /\ rot[route].fingerprint = Fingerprint(s))
  BY <1>2, <1>3, <1>5
<1> QED
  BY <1>4, <1>5

\* A request whose generations are still the same stays sound.
LEMMA RequestStays ==
  ASSUME NEW v, RequestSound(v), Live \in Nat, Live' \in Nat, Live <= Live',
         \A g \in 1..Live : conf'[g] = conf[g]
  PROVE  RequestSound(v)'
<1>1. CASE v.pc = "idle"
  BY <1>1 DEF RequestSound
<1>2. CASE v.pc # "idle"
  <2>1. v.gen \in 1..Live /\ v.gen \in 1..Live'
    BY <1>2 DEF RequestSound
  <2>2. ShapeAt(v.gen, v.route)' = ShapeAt(v.gen, v.route)
    BY <2>1 DEF ShapeAt
  <2> QED
    BY <1>2, <2>1, <2>2 DEF RequestSound
<1> QED
  BY <1>1, <1>2

\* The first generation, no rotation, idle requests.
LEMMA SchedulerInvInit == Init => SchedulerInv
<1> SUFFICES ASSUME Init PROVE SchedulerInv
  OBVIOUS
<1>1. PICK c \in Configs : conf = <<c>>
  BY DEF Init
<1>2. conf \in Seq(Configs) /\ Len(conf) = 1
  BY <1>1
<1>3. ConfTyped
  BY <1>2, MaxGenTyped DEF ConfTyped, Live
<1>4. DOMAIN rot = {}
  BY DEF Init, SchedulerInit
<1>5. RequestsSound
  BY DEF Init, RequestsSound, RequestSound, Idle
<1>6. prunedGen \in 0..Live
  BY <1>2 DEF Init, Live
<1> QED
  BY <1>3, <1>4, <1>5, <1>6 DEF SchedulerInv, RotSound

\* config.Store swaps in a generation.
LEMMA ReloadKeeps ==
  ASSUME SchedulerInv, NEW c \in Configs, Reload(c)
  PROVE  SchedulerInv'
<1>1. /\ conf \in Seq(Configs) /\ Live \in 1..MaxGen /\ Live < MaxGen /\ MaxGen \in Nat
      /\ conf' = Append(conf, c) /\ rot' = rot /\ prunedGen' = prunedGen /\ req' = req
  BY MaxGenTyped DEF SchedulerInv, ConfTyped, Reload
<1>2. /\ conf' \in Seq(Configs) /\ Len(conf') = Len(conf) + 1
      /\ \A g \in 1..Len(conf) : conf'[g] = conf[g]
  BY <1>1, AppendProperties
<1>3. Live' = Live + 1 /\ Live \in Nat /\ Live' \in Nat /\ Live <= Live'
  BY <1>1, <1>2 DEF Live
<1>4. ConfTyped'
  BY <1>1, <1>2, <1>3 DEF ConfTyped
<1>5. RotSound'
  <2>1. \A g \in 1..Live : g \in 1..Live'
    BY <1>3
  <2> QED
    BY <1>1, <2>1 DEF SchedulerInv, RotSound, SoundState
<1>6. prunedGen' \in 0..Live'
  BY <1>1, <1>3 DEF SchedulerInv
<1>7. RequestsSound'
  <2> SUFFICES ASSUME NEW q \in Request PROVE RequestSound(req[q])'
    BY <1>1 DEF SchedulerInv, RequestsSound
  <2>1. RequestSound(req[q])
    BY DEF SchedulerInv, RequestsSound
  <2>2. \A g \in 1..Live : conf'[g] = conf[g]
    BY <1>2 DEF Live
  <2>3. RequestSound(req[q])'
    <3> DEFINE v == req[q]
    <3>1. v' = v
      BY <1>1
    <3> QED
      BY <1>1, <1>3, <2>1, <2>2, RequestStays
  <2> QED
    BY <2>3
<1> QED
  BY <1>4, <1>5, <1>6, <1>7 DEF SchedulerInv

\* Steps that leave the configurations alone change one request at most.
LEMMA OneRequest ==
  ASSUME SchedulerInv, conf' = conf, NEW q \in Request, NEW v,
         req' = [req EXCEPT ![q] = v], RequestSound(v)
  PROVE  RequestsSound'
<1>1. Live' = Live /\ \A g, r : ShapeAt(g, r)' = ShapeAt(g, r)
  BY DEF Live, ShapeAt
<1>2. DOMAIN req' = Request /\ \A p \in Request : req'[p] = IF p = q THEN v ELSE req[p]
  BY DEF SchedulerInv, RequestsSound
<1>3. ASSUME NEW p \in Request PROVE RequestSound(req[p])'
  <2>1. RequestSound(req'[p])
    BY <1>2 DEF SchedulerInv, RequestsSound
  <2> QED
    BY <1>1, <2>1 DEF RequestSound
<1> QED
  BY <1>2, <1>3 DEF RequestsSound

\* A request takes its snapshot and its route.
LEMMA ArriveKeeps ==
  ASSUME SchedulerInv, NEW q \in Request, NEW route \in RouteId, Arrive(q, route)
  PROVE  SchedulerInv'
<1> DEFINE v == [pc |-> "matched", gen |-> Live, route |-> route]
<1>1. /\ ConfTyped /\ RotSound /\ prunedGen \in 0..Live /\ RequestsSound
      /\ rot' = rot /\ conf' = conf /\ prunedGen' = prunedGen
      /\ req' = [req EXCEPT ![q] = v]
  BY DEF SchedulerInv, Arrive
<1>2. Live \in 1..Live
  BY <1>1, MaxGenTyped DEF ConfTyped
<1>3. ShapeAt(Live, route) \in Shapes
  BY <1>1, <1>2, ShapeAtTyped DEF Arrive
<1>4. RequestSound(v)
  BY <1>2, <1>3 DEF RequestSound
<1> HIDE DEF v
<1>5. RequestsSound'
  BY <1>1, <1>4, OneRequest
<1> QED
  BY <1>1, <1>5 DEF SchedulerInv, ConfTyped, RotSound, SoundState, Live

\* The once-per-generation prune.
LEMMA ServiceKeeps ==
  ASSUME SchedulerInv, NEW q \in Request, Service(q)
  PROVE  SchedulerInv'
<1>1. /\ ConfTyped /\ RotSound /\ RequestsSound /\ RequestSound(req[q]) /\ req[q].pc = "matched"
      /\ conf' = conf /\ req' = req /\ prunedGen' = req[q].gen
      /\ PruneRoutes({r \in RouteId : ShapeAt(req[q].gen, r) # NoRoute})
  BY DEF SchedulerInv, RequestsSound, Service
<1>2. prunedGen' \in 0..Live
  BY <1>1, MaxGenTyped DEF RequestSound, ConfTyped
<1>3. DOMAIN rot' \subseteq DOMAIN rot /\ \A r \in DOMAIN rot' : rot'[r] = rot[r]
  BY <1>1 DEF PruneRoutes
<1>4. Live' = Live
  BY <1>1 DEF Live
<1>5. RotSound'
  BY <1>1, <1>3, <1>4 DEF RotSound, SoundState
<1>6. RequestsSound'
  BY <1>1, <1>4 DEF RequestsSound, RequestSound, ShapeAt
<1>7. ConfTyped'
  BY <1>1, <1>4 DEF ConfTyped
<1> QED
  BY <1>2, <1>4, <1>5, <1>6, <1>7 DEF SchedulerInv

\* Scheduler.Plan.
LEMMA PlanKeeps ==
  ASSUME SchedulerInv, NEW q \in Request, Plan(q)
  PROVE  SchedulerInv'
<1> DEFINE gen == req[q].gen
<1> DEFINE route == req[q].route
<1> DEFINE s == ShapeAt(gen, route)
<1>1. /\ ConfTyped /\ RotSound /\ RequestsSound /\ RequestSound(req[q]) /\ req[q].pc = "matched"
      /\ conf' = conf /\ prunedGen' = prunedGen /\ prunedGen \in 0..Live
  BY DEF SchedulerInv, RequestsSound, Plan
<1>2. gen \in 1..Live /\ route \in RouteId /\ s \in Shapes /\ Live \in Nat
  BY <1>1, MaxGenTyped DEF RequestSound, ConfTyped
<1>3. PICK heads \in HeadSets(s) :
        /\ PlanUpdates(route, s, gen, heads)
        /\ req' = [req EXCEPT ![q] =
             [pc |-> "planned", gen |-> gen, route |-> route, heads |-> heads,
              plan |-> PlanAttempts(route, s, gen, heads)]]
  BY DEF Plan
<1> DEFINE v == [pc |-> "planned", gen |-> gen, route |-> route, heads |-> heads,
                 plan |-> PlanAttempts(route, s, gen, heads)]
<1> DEFINE sf == StateFor(route, s, gen)
<1>4. Live' = Live
  BY <1>1 DEF Live
<1> HIDE DEF gen, route, s
<1>5. SoundState(sf.st) /\ sf.st.fingerprint = Fingerprint(s) /\ sf.st.generation \in 1..Live
  BY <1>1, <1>2, StateForIsSound
<1>6. ASSUME ~Unservable(s, heads)
      PROVE  /\ SoundState(Turn(sf.st, s, heads).state)
             /\ Turn(sf.st, s, heads).state.generation \in 1..Live
             /\ SoundPlan(s, heads, Turn(sf.st, s, heads).attempts)
  <2> HIDE DEF sf
  <2> QED
    BY <1>2, <1>5, <1>6, TurnIsSound
<1>7. RequestSound(v)
  <2>1. v.plan = PlanAttempts(route, s, gen, heads) /\ v.pc = "planned" /\ v.gen = gen /\ v.route = route
        /\ v.heads = heads
    OBVIOUS
  <2> HIDE DEF v
  <2>2. v.plan # <<>> => SoundPlan(s, heads, v.plan)
    BY <1>6, <2>1 DEF PlanAttempts
  <2> QED
    BY <1>2, <2>1, <2>2 DEF RequestSound, s
<1>8. RequestsSound'
  <2> HIDE DEF v
  <2>1. req' = [req EXCEPT ![q] = v]
    BY <1>3 DEF v
  <2> QED
    BY <1>1, <1>7, <2>1, OneRequest
<1>9. RotSound'
  <2>1. CASE Unservable(s, heads) \/ ~sf.stored
    <3>1. rot' = rot
      BY <1>3, <2>1 DEF PlanUpdates
    <3> QED
      BY <1>1, <1>4, <3>1 DEF RotSound, SoundState
  <2>2. CASE ~(Unservable(s, heads) \/ ~sf.stored)
    <3>1. rot' = [r \in DOMAIN rot \cup {route} |->
                    IF r = route THEN Turn(sf.st, s, heads).state ELSE rot[r]]
      BY <1>3, <2>2 DEF PlanUpdates
    <3> HIDE DEF sf
    <3>2. \A r \in DOMAIN rot' : SoundState(rot'[r]) /\ rot'[r].generation \in 1..Live
      BY <1>1, <1>6, <2>2, <3>1 DEF RotSound
    <3>3. DOMAIN rot' \subseteq RouteId
      BY <1>1, <1>2, <3>1 DEF RotSound
    <3> QED
      BY <1>4, <3>2, <3>3 DEF RotSound, SoundState
  <2> QED
    BY <2>1, <2>2
<1> QED
  BY <1>1, <1>4, <1>8, <1>9 DEF SchedulerInv, ConfTyped

\* The request is over.
LEMMA FinishKeeps ==
  ASSUME SchedulerInv, NEW q \in Request, Finish(q)
  PROVE  SchedulerInv'
<1>1. /\ ConfTyped /\ RotSound /\ prunedGen \in 0..Live
      /\ rot' = rot /\ conf' = conf /\ prunedGen' = prunedGen /\ req' = [req EXCEPT ![q] = Idle]
  BY DEF SchedulerInv, Finish
<1>2. RequestSound(Idle)
  BY DEF RequestSound, Idle
<1>3. RequestsSound'
  BY <1>1, <1>2, OneRequest
<1> QED
  BY <1>1, <1>3 DEF SchedulerInv, ConfTyped, RotSound, SoundState, Live

\* Every step keeps the invariant.
LEMMA SchedulerInvNext == SchedulerInv /\ [Next]_vars => SchedulerInv'
<1> SUFFICES ASSUME SchedulerInv, [Next]_vars PROVE SchedulerInv'
  OBVIOUS
<1>1. ASSUME NEW c \in Configs, Reload(c) PROVE SchedulerInv'
  BY <1>1, ReloadKeeps
<1>2. ASSUME NEW q \in Request, NEW route \in RouteId, Arrive(q, route) PROVE SchedulerInv'
  BY <1>2, ArriveKeeps
<1>3. ASSUME NEW q \in Request, Service(q) PROVE SchedulerInv'
  BY <1>3, ServiceKeeps
<1>4. ASSUME NEW q \in Request, Plan(q) PROVE SchedulerInv'
  BY <1>4, PlanKeeps
<1>5. ASSUME NEW q \in Request, Finish(q) PROVE SchedulerInv'
  BY <1>5, FinishKeeps
<1>6. CASE UNCHANGED vars
  BY <1>6 DEF vars, SchedulerInv, ConfTyped, RotSound, SoundState, RequestsSound, RequestSound, Live, ShapeAt
<1> QED
  BY <1>1, <1>2, <1>3, <1>4, <1>5, <1>6 DEF Next

\* The scheduler's inductive invariant holds of every reachable state.
THEOREM SchedulerInvCorrect == Spec => []SchedulerInv
BY SchedulerInvInit, SchedulerInvNext, PTL DEF Spec

\* stateFor, PruneRoutes, onGeneration: states, generations and requests have their types.
THEOREM SchedulerTypeCorrect == Spec => []TypeOK
<1>1. SchedulerInv => TypeOK
  <2> SUFFICES ASSUME SchedulerInv PROVE TypeOK
    OBVIOUS
  <2>1. conf \in UNION {[1..n -> Configs] : n \in 1..MaxGen}
    <3>1. conf \in [1..Live -> Configs] /\ Live \in 1..MaxGen
      BY LenProperties DEF SchedulerInv, ConfTyped, Live
    <3> QED
      BY <3>1
  <2>2. ASSUME NEW r \in DOMAIN rot
        PROVE  /\ rot[r].generation \in 1..Live
               /\ rot[r].cursor \in 0..(CursorPeriod - 1)
               /\ rot[r].cw \in [ToSet(rot[r].fingerprint.members) -> Int]
    BY DEF SchedulerInv, RotSound, SoundState, StateType, Balanced
  <2>3. DOMAIN rot \subseteq RouteId /\ prunedGen \in 0..Live
        /\ \A q \in Request : req[q].pc \in {"idle", "matched", "planned"}
    BY DEF SchedulerInv, RotSound, RequestsSound, RequestSound
  <2> QED
    BY <2>1, <2>2, <2>3 DEF TypeOK
<1> QED
  BY <1>1, SchedulerInvCorrect, PTL

\* RoutePlan: a plan is the head set of its snapshot, each once, and no
\* running total can put a weight-0 member at its head.
THEOREM PlansCorrect == Spec => []PlansOrderTheHeads
<1>1. SchedulerInv => PlansOrderTheHeads
  BY DEF SchedulerInv, RequestsSound, RequestSound, SoundPlan, PlansOrderTheHeads, PlanShape
<1> QED
  BY <1>1, SchedulerInvCorrect, PTL

\* Plan, the weighted branch: the running totals of a route sum to zero, and
\* none goes beyond the largest weight times the number of its siblings.
THEOREM CreditCorrect == Spec => []CreditStaysInBounds
<1>1. SchedulerInv => CreditStaysInBounds
  <2> SUFFICES ASSUME SchedulerInv, NEW r \in DOMAIN rot
               PROVE  LET cw    == rot[r].cw
                          top   == Max({0} \cup ToSet(rot[r].fingerprint.weights))
                          reach == top * (Cardinality(DOMAIN cw) - 1)
                      IN  /\ MapThenSumSet(LAMBDA e : cw[e], DOMAIN cw) = 0
                          /\ \A e \in DOMAIN cw : cw[e] \in -reach..reach
    BY DEF CreditStaysInBounds
  <2> DEFINE fp == rot[r].fingerprint
  <2> DEFINE D == ToSet(fp.members)
  <2>1. SoundState(rot[r])
    BY DEF SchedulerInv, RotSound
  <2>2. PICK s \in Shapes : fp = Fingerprint(s)
    BY <2>1 DEF SoundState, StateType, Fingerprints
  <2>3. IsFiniteSet(D) /\ Top(fp) \in Nat
    BY <2>2, ShapeFacts
  <2>4. Balanced(rot[r].cw, D, Top(fp)) /\ DOMAIN rot[r].cw = D
    BY <2>1 DEF SoundState, Balanced
  <2>5. MapThenSumSet(LAMBDA e : rot[r].cw[e], DOMAIN rot[r].cw) = 0
    BY <2>4 DEF Balanced, SetSum
  <2>6. \A e \in D : rot[r].cw[e] \in -(Top(fp) * (Cardinality(D) - 1))..(Top(fp) * (Cardinality(D) - 1))
    <3> HIDE DEF D, fp
    <3> QED
      BY <2>3, <2>4, BalanceBounds
  <2> QED
    BY <2>4, <2>5, <2>6 DEF Top
<1> QED
  BY <1>1, SchedulerInvCorrect, PTL
=============================================================================
