----------------------------- MODULE Induction -----------------------------
(***************************************************************************)
(* Induction over natural numbers and finite sets, and sums over finite    *)
(* sets.  The induction theorems of the library take the predicate as an   *)
(* operator, which no prover here can instantiate; the ones below take the *)
(* set of the arguments it holds of.  They rest on NatLessThanWellFounded  *)
(* and WFMin, which speak of sets only.                                    *)
(***************************************************************************)
EXTENDS Integers, FiniteSets, FiniteSetsExt, FiniteSetTheorems,
        WellFoundedInduction, TLAPS

\* A nonempty set of natural numbers has a least element.
LEMMA LeastNat ==
  ASSUME NEW T \in SUBSET Nat, T # {}
  PROVE  \E x \in T : \A y \in T : x <= y
<1> DEFINE R == {r \in Nat \X Nat : r[1] < r[2]}
<1>1. IsWellFoundedOn(R, Nat)
  BY NatLessThanWellFounded DEF OpToRel
<1>2. \A x, y \in Nat : y < x => <<y, x>> \in R
  OBVIOUS
<1> HIDE DEF R
<1>3. PICK x \in T : \A y \in T : ~ (<<y, x>> \in R)
  BY <1>1, WFMin
<1>4. ASSUME NEW y \in T
      PROVE  x <= y
  <2>1. x \in Nat /\ y \in Nat /\ ~ (y < x)
    BY <1>2, <1>3
  <2> QED
    BY <2>1
<1> QED
  BY <1>4

\* A set that has 0 and the successor of each of its numbers has them all.
LEMMA NatSetInduction ==
  ASSUME NEW T, 0 \in T, \A n \in Nat : n \in T => n + 1 \in T
  PROVE  \A n \in Nat : n \in T
<1> SUFFICES ASSUME NEW n \in Nat, n \notin T
             PROVE  FALSE
  OBVIOUS
<1>1. PICK x \in Nat \ T : \A y \in Nat \ T : x <= y
  BY LeastNat
<1>2. x - 1 \in Nat /\ x - 1 \in T
  BY <1>1
<1> QED
  BY <1>1, <1>2

\* A bounded one has a greatest.
LEMMA GreatestNat ==
  ASSUME NEW N \in Nat, NEW T \in SUBSET (0 .. N), T # {}
  PROVE  \E x \in T : \A y \in T : y <= x
<1> DEFINE D == {N - x : x \in T}
<1>1. D \in SUBSET Nat /\ D # {}
  <2>1. \A x \in T : x \in 0 .. N /\ N - x \in Nat
    OBVIOUS
  <2>2. PICK x : x \in T
    OBVIOUS
  <2>3. N - x \in D
    BY <2>2
  <2> QED
    BY <2>1, <2>3
<1>2. PICK d \in D : \A y \in D : d <= y
  BY <1>1, LeastNat
<1>3. PICK x \in T : d = N - x
  BY <1>2
<1>4. ASSUME NEW y \in T
      PROVE  y <= x
  <2>1. N - x <= N - y
    BY <1>2, <1>3
  <2> QED
    BY <2>1
<1> QED
  BY <1>4

\* A subset of a finite set, less one element.
LEMMA OneLess ==
  ASSUME NEW S, IsFiniteSet(S), NEW s \in SUBSET S, NEW x \in s
  PROVE  /\ s \ {x} \in SUBSET S
         /\ Cardinality(s \ {x}) = Cardinality(s) - 1
         /\ Cardinality(s) \in Nat /\ Cardinality(s \ {x}) \in Nat
<1>1. IsFiniteSet(s)
  BY FS_Subset
<1>2. IsFiniteSet(s \ {x}) /\ Cardinality(s \ {x}) = Cardinality(s) - 1
  BY <1>1, FS_RemoveElement
<1> QED
  BY <1>1, <1>2, FS_CardinalityType

\* A family of sets that has the empty one, and every set of its with one more
\* element of S, has S.
LEMMA FiniteSetInduction ==
  ASSUME NEW S, IsFiniteSet(S), NEW F, {} \in F,
         \A T \in SUBSET S : \A x \in S \ T : T \in F => T \cup {x} \in F
  PROVE  S \in F
<1> DEFINE N == {n \in Nat : \A T \in SUBSET S : Cardinality(T) = n => T \in F}
<1>1. \A T \in SUBSET S : IsFiniteSet(T) /\ Cardinality(T) \in Nat
  BY FS_Subset, FS_CardinalityType
<1>2. 0 \in N
  BY <1>1, FS_EmptySet
<1>3. ASSUME NEW n \in Nat, n \in N
      PROVE  n + 1 \in N
  <2> SUFFICES ASSUME NEW T \in SUBSET S, Cardinality(T) = n + 1
               PROVE  T \in F
    OBVIOUS
  <2>1. PICK x : x \in T
    BY <1>1, FS_EmptySet
  <2>2. Cardinality(T \ {x}) = n /\ T \ {x} \in SUBSET S
    BY <2>1, OneLess
  <2>3. T \ {x} \in F
    BY <1>3, <2>2
  <2>4. (T \ {x}) \cup {x} = T /\ x \in S \ (T \ {x})
    BY <2>1
  <2> QED
    BY <2>2, <2>3, <2>4
<1> HIDE DEF N
<1>4. \A n \in Nat : n \in N
  BY <1>2, <1>3, NatSetInduction
<1> QED
  BY <1>1, <1>4 DEF N

-----------------------------------------------------------------------------
(* Sums.  Folds defines a fold over a set S as the value at S of a function *)
(* that is defined recursively on its subsets.                              *)

\* The element a fold takes from a set first.
First(s) == CHOOSE x \in s : TRUE

\* f sums the weights w of the elements of each subset of S.
Sums(f, w, S) ==
  f = [s \in SUBSET S |-> IF s = {} THEN 0 ELSE w[First(s)] + f[s \ {First(s)}]]

\* The first element is an element.
LEMMA FirstIn == \A s : s # {} => First(s) \in s
  BY DEF First

\* Such a function exists, so the recursive definition has a meaning.
LEMMA SumsExist ==
  ASSUME NEW S, IsFiniteSet(S), NEW w
  PROVE  \E f : Sums(f, w, S)
<1> DEFINE Upto(n) == {s \in SUBSET S : Cardinality(s) <= n}
           Step(f, s) == IF s = {} THEN 0 ELSE w[First(s)] + f[s \ {First(s)}]
           N == {n \in Nat : \E f : f = [s \in Upto(n) |-> Step(f, s)]}
<1>1. \A T \in SUBSET S : IsFiniteSet(T) /\ Cardinality(T) \in Nat
  BY FS_Subset, FS_CardinalityType
<1>2. ASSUME NEW s \in SUBSET S, s # {}
      PROVE  /\ s \ {First(s)} \in SUBSET S
             /\ Cardinality(s \ {First(s)}) = Cardinality(s) - 1
  BY <1>2, FirstIn, OneLess
<1>3. 0 \in N
  <2> DEFINE g == [s \in Upto(0) |-> 0]
  <2>1. \A s \in Upto(0) : s = {}
    BY <1>1, FS_EmptySet
  <2>2. g = [s \in Upto(0) |-> Step(g, s)]
    BY <2>1
  <2> QED
    BY <2>2
<1>4. ASSUME NEW n \in Nat, n \in N
      PROVE  n + 1 \in N
  <2>1. PICK f : f = [s \in Upto(n) |-> Step(f, s)]
    BY <1>4
  <2> DEFINE g == [s \in Upto(n + 1) |-> Step(f, s)]
  <2>2. ASSUME NEW s \in Upto(n + 1), s # {}
        PROVE  s \ {First(s)} \in Upto(n)
    BY <1>1, <1>2, <2>2
  <2>3. ASSUME NEW s \in Upto(n)
        PROVE  g[s] = f[s]
    <3>1. s \in Upto(n + 1)
      BY <1>1
    <3>2. f[s] = Step(f, s)
      BY <2>1
    <3> QED
      BY <3>1, <3>2
  <2> HIDE DEF Upto
  <2>4. \A s \in Upto(n + 1) : Step(g, s) = Step(f, s)
    <3> HIDE DEF g
    <3> QED
      BY <2>2, <2>3
  <2>5. g = [s \in Upto(n + 1) |-> Step(g, s)]
    <3> HIDE DEF Step
    <3> QED
      BY <2>4
  <2>6. \E h : h = [s \in Upto(n + 1) |-> Step(h, s)]
    <3> HIDE DEF Step, g
    <3> QED
      BY <2>5
  <2>7. n + 1 \in Nat
    OBVIOUS
  <2> HIDE DEF Step, Upto
  <2> QED
    BY <2>6, <2>7
<1> HIDE DEF N
<1>5. Cardinality(S) \in N
  BY <1>1, <1>3, <1>4, NatSetInduction
<1>6. Upto(Cardinality(S)) = SUBSET S
  BY FS_Subset
<1> QED
  BY <1>5, <1>6 DEF N, Sums

\* What such a function is at a set, unfolded once.
LEMMA SumsUnfold ==
  ASSUME NEW S, NEW w, NEW f, Sums(f, w, S)
  PROVE  /\ f[{}] = 0
         /\ \A s \in SUBSET S : s # {} => /\ First(s) \in s
                                          /\ f[s] = w[First(s)] + f[s \ {First(s)}]
<1> DEFINE Step(s) == IF s = {} THEN 0 ELSE w[First(s)] + f[s \ {First(s)}]
<1>1. f = [s \in SUBSET S |-> Step(s)]
  BY DEF Sums
<1>2. \A s \in SUBSET S : f[s] = Step(s)
  <2> HIDE DEF Step
  <2> QED
    BY <1>1
<1> QED
  BY <1>2, FirstIn

\* Sums of natural numbers are natural numbers.
LEMMA SumsType ==
  ASSUME NEW S, IsFiniteSet(S), NEW w, \A x \in S : w[x] \in Nat,
         NEW f, Sums(f, w, S)
  PROVE  \A s \in SUBSET S : f[s] \in Nat
<1> DEFINE N == {n \in Nat : \A s \in SUBSET S : Cardinality(s) = n => f[s] \in Nat}
<1>1. \A s \in SUBSET S : IsFiniteSet(s) /\ Cardinality(s) \in Nat
  BY FS_Subset, FS_CardinalityType
<1>2. 0 \in N
  BY <1>1, FS_EmptySet, SumsUnfold
<1>3. ASSUME NEW n \in Nat, n \in N
      PROVE  n + 1 \in N
  <2> SUFFICES ASSUME NEW s \in SUBSET S, Cardinality(s) = n + 1
               PROVE  f[s] \in Nat
    OBVIOUS
  <2> DEFINE c == First(s)
  <2>0. s # {}
    BY FS_EmptySet
  <2>1. c \in s /\ f[s] = w[c] + f[s \ {c}]
    BY <2>0, SumsUnfold
  <2> HIDE DEF c
  <2>2. s \ {c} \in SUBSET S /\ Cardinality(s \ {c}) = n
    BY <2>1, OneLess
  <2>3. f[s \ {c}] \in Nat
    BY <1>3, <2>2
  <2> QED
    BY <2>1, <2>3
<1> HIDE DEF N
<1>4. \A n \in Nat : n \in N
  BY <1>2, <1>3, NatSetInduction
<1> QED
  BY <1>1, <1>4 DEF N

\* A sum does not depend on which element is taken first.
LEMMA SumsTakeAny ==
  ASSUME NEW S, IsFiniteSet(S), NEW w, \A x \in S : w[x] \in Nat,
         NEW f, Sums(f, w, S)
  PROVE  \A x \in S : f[S] = w[x] + f[S \ {x}]
<1> DEFINE Good(s) == \A x \in s : f[s] = w[x] + f[s \ {x}]
           N == {n \in Nat : \A s \in SUBSET S : Cardinality(s) = n => Good(s)}
<1>1. \A s \in SUBSET S : IsFiniteSet(s) /\ Cardinality(s) \in Nat /\ f[s] \in Nat
  BY FS_Subset, FS_CardinalityType, SumsType
<1>2. 0 \in N
  BY <1>1, FS_EmptySet
<1>3. ASSUME NEW n \in Nat, n \in N
      PROVE  n + 1 \in N
  <2> SUFFICES ASSUME NEW s \in SUBSET S, Cardinality(s) = n + 1
               PROVE  Good(s)
    OBVIOUS
  <2>1. \A x \in s : s \ {x} \in SUBSET S /\ Cardinality(s \ {x}) = n
    BY OneLess
  <2>2. \A x \in s : Good(s \ {x})
    BY <1>3, <2>1
  <2> DEFINE c == First(s)
  <2>0. s # {}
    BY FS_EmptySet
  <2>3. c \in s /\ f[s] = w[c] + f[s \ {c}]
    BY <2>0, SumsUnfold
  <2> HIDE DEF c
  <2>4. ASSUME NEW x \in s, x # c
        PROVE  f[s] = w[x] + f[s \ {x}]
    <3>1. x \in s \ {c} /\ c \in s \ {x} /\ (s \ {c}) \ {x} = (s \ {x}) \ {c}
      BY <2>3, <2>4
    <3>2. f[s \ {c}] = w[x] + f[(s \ {x}) \ {c}]
      BY <2>2, <2>3, <3>1
    <3>3. f[s \ {x}] = w[c] + f[(s \ {x}) \ {c}]
      BY <2>2, <3>1
    <3>4. f[(s \ {x}) \ {c}] \in Nat /\ w[x] \in Nat /\ w[c] \in Nat
      BY <1>1, <2>3
    <3> QED
      BY <2>3, <3>2, <3>3, <3>4
  <2> QED
    BY <2>3, <2>4
<1> HIDE DEF N
<1>4. Cardinality(S) \in N
  BY <1>1, <1>2, <1>3, NatSetInduction
<1> QED
  BY <1>4 DEF N

\* Functions that sum weights agreeing on a set give it the same sum.
LEMMA SumsAgree ==
  ASSUME NEW S, NEW T, IsFiniteSet(S), IsFiniteSet(T), NEW w, NEW v, NEW f, NEW g,
         Sums(f, w, S), Sums(g, v, T),
         NEW U \in SUBSET (S \cap T), \A x \in U : w[x] = v[x]
  PROVE  f[U] = g[U]
<1> DEFINE N == {n \in Nat : \A s \in SUBSET U : Cardinality(s) = n => f[s] = g[s]}
<1>0. IsFiniteSet(U)
  BY FS_Subset
<1>1. \A s \in SUBSET U : IsFiniteSet(s) /\ Cardinality(s) \in Nat
  BY <1>0, FS_Subset, FS_CardinalityType
<1>2. 0 \in N
  BY <1>1, FS_EmptySet, SumsUnfold, ZenonT(40)
<1>3. ASSUME NEW n \in Nat, n \in N
      PROVE  n + 1 \in N
  <2> SUFFICES ASSUME NEW s \in SUBSET U, Cardinality(s) = n + 1
               PROVE  f[s] = g[s]
    OBVIOUS
  <2>1. s # {} /\ s \in SUBSET S /\ s \in SUBSET T
    BY FS_EmptySet
  <2> DEFINE c == First(s)
  <2>2. c \in s /\ f[s] = w[c] + f[s \ {c}] /\ g[s] = v[c] + g[s \ {c}]
    BY <2>1, SumsUnfold
  <2> HIDE DEF c
  <2>3. s \ {c} \in SUBSET U /\ Cardinality(s \ {c}) = n
    BY <1>0, <2>2, OneLess
  <2>4. f[s \ {c}] = g[s \ {c}]
    BY <1>3, <2>3
  <2> QED
    BY <2>2, <2>4
<1> HIDE DEF N
<1>4. Cardinality(U) \in N
  BY <1>0, <1>2, <1>3, NatSetInduction, FS_CardinalityType
<1> QED
  BY <1>4 DEF N
=============================================================================
