------------------------------ MODULE DataLemmas ------------------------------
(***************************************************************************)
(* Facts about numbers and sums that several proofs of this project use.   *)
(*                                                                         *)
(* An induction over data is done here by a least counterexample: a set of *)
(* numbers has a least element, and a set of subsets of a finite set has   *)
(* one that contains no other.                                             *)
(***************************************************************************)
EXTENDS Integers, Sequences, FiniteSets, Functions, FiniteSetTheorems,
        WellFoundedInduction, TLAPS

-----------------------------------------------------------------------------
(* Least counterexamples. *)

LEMMA LeastNumber ==
  ASSUME NEW T, T \subseteq Nat, T # {}
  PROVE  \E x \in T : \A y \in T : x <= y
  <1> DEFINE R == OpToRel(<, Nat)
  <1>1. IsWellFoundedOn(R, Nat)
    BY NatLessThanWellFounded
  <1> HIDE DEF R
  <1>2. PICK x \in T : \A y \in T : <<y, x>> \notin R
    BY <1>1, WFMin
  <1>3. \A y \in T : ~(y < x)
    BY <1>2 DEF R, OpToRel
  <1> QED
    BY <1>3

\* A set of numbers up to n has a first element, which no element precedes.
LEMMA NatSteps ==
  ASSUME NEW n \in Nat, NEW T, T \subseteq 0..n, T # {}
  PROVE  \E k \in T : k - 1 \notin T
  <1>1. PICK k \in T : \A y \in T : k <= y
    <2>1. T \subseteq Nat
      OBVIOUS
    <2> QED
      BY <2>1, LeastNumber
  <1>2. k \in Nat
    OBVIOUS
  <1> QED
    BY <1>1, <1>2

LEMMA SmallestSubset ==
  ASSUME NEW S, IsFiniteSet(S), NEW C, C \subseteq SUBSET S, C # {}
  PROVE  \E s \in C : \A r \in SUBSET s : r # s => r \notin C
  <1>1. IsWellFoundedOn(StrictSubsetOrdering(S), SUBSET S)
    BY FS_StrictSubsetOrderingWellFounded, FS_FiniteSubsetsOfFinite
  <1>2. PICK s \in C : \A r \in C : <<r, s>> \notin StrictSubsetOrdering(S)
    BY <1>1, WFMin
  <1>3. ASSUME NEW r \in C, r \subseteq s, r # s
        PROVE  FALSE
    BY <1>2, <1>3 DEF StrictSubsetOrdering
  <1> QED
    BY <1>3

-----------------------------------------------------------------------------
(***************************************************************************)
(* SumFunctionOnSet adds the terms one by one, in the order Chosen says:   *)
(* the recursive function of its definition exists on every finite set.    *)
(***************************************************************************)
Chosen(s) == CHOOSE x \in s : TRUE

IsSum(f, S, g) ==
    g = [s \in SUBSET S |-> IF s = {} THEN 0 ELSE f[Chosen(s)] + g[s \ {Chosen(s)}]]

LEMMA ChosenIsThere == ASSUME NEW s, s # {} PROVE Chosen(s) \in s
  BY DEF Chosen

\* On the subsets of a set, the function that adds is the same whatever it is
\* defined on besides.
LEMMA SumsAgree ==
  ASSUME NEW S, IsFiniteSet(S), NEW T \in SUBSET S, NEW f, NEW g, NEW h,
         IsSum(f, S, g), IsSum(f, T, h), NEW r \in SUBSET T
  PROVE  g[r] = h[r]
  <1> DEFINE C == {q \in SUBSET T : g[q] # h[q]}
  <1>1. SUFFICES ASSUME C # {} PROVE FALSE
    OBVIOUS
  <1>2. IsFiniteSet(T)
    BY FS_Subset
  <1>3. PICK s \in C : \A q \in SUBSET s : q # s => q \notin C
    BY <1>1, <1>2, SmallestSubset
  <1>4. g[s] = IF s = {} THEN 0 ELSE f[Chosen(s)] + g[s \ {Chosen(s)}]
    BY DEF IsSum
  <1>5. h[s] = IF s = {} THEN 0 ELSE f[Chosen(s)] + h[s \ {Chosen(s)}]
    BY DEF IsSum
  <1>6. s # {} => g[s \ {Chosen(s)}] = h[s \ {Chosen(s)}]
    BY <1>3, ChosenIsThere
  <1> QED
    BY <1>4, <1>5, <1>6

LEMMA SumExists ==
  ASSUME NEW S, IsFiniteSet(S), NEW f
  PROVE  \E g : IsSum(f, S, g)
  <1> DEFINE C == {s \in SUBSET S : ~ \E g : IsSum(f, s, g)}
  <1>1. SUFFICES ASSUME C # {} PROVE FALSE
    OBVIOUS
  <1>2. PICK s \in C : \A r \in SUBSET s : r # s => r \notin C
    <2>1. C \subseteq SUBSET S
      OBVIOUS
    <2> HIDE DEF C
    <2> QED
      BY <1>1, <2>1, SmallestSubset
  <1> DEFINE Of(r) == CHOOSE h : IsSum(f, r, h)
             v(r) == IF r = {} THEN 0 ELSE f[Chosen(r)] + Of(r \ {Chosen(r)})[r \ {Chosen(r)}]
             g == [r \in SUBSET s |-> v(r)]
  <1>3. ASSUME NEW r \in SUBSET s, r # s
        PROVE  IsSum(f, r, Of(r))
    <2>1. \E h : IsSum(f, r, h)
      BY <1>2, <1>3
    <2> QED
      BY <2>1
  <1>4. ASSUME NEW r \in SUBSET s, r # s
        PROVE  Of(r)[r] = v(r)
    <2> HIDE DEF Of
    <2>1. Of(r)[r] = IF r = {} THEN 0 ELSE f[Chosen(r)] + Of(r)[r \ {Chosen(r)}]
      BY <1>3, <1>4 DEF IsSum
    <2>2. CASE r # {}
      <3> DEFINE q == r \ {Chosen(r)}
      <3>1. q \in SUBSET r /\ q # r /\ q # s
        BY <2>2, ChosenIsThere
      <3>2. IsSum(f, q, Of(q)) /\ IsSum(f, r, Of(r))
        BY <1>3, <1>4, <3>1
      <3>3. IsFiniteSet(r)
        BY FS_Subset
      <3>4. Of(r)[q] = Of(q)[q]
        BY <3>1, <3>2, <3>3, SumsAgree
      <3> QED
        BY <2>1, <3>4
    <2> QED
      BY <2>1, <2>2
  <1>5. ASSUME NEW r \in SUBSET s
        PROVE  v(r) = IF r = {} THEN 0 ELSE f[Chosen(r)] + g[r \ {Chosen(r)}]
    <2> HIDE DEF Of
    <2>1. CASE r # {}
      <3> DEFINE q == r \ {Chosen(r)}
      <3>1. q \in SUBSET s /\ q # s
        BY <2>1, ChosenIsThere
      <3>2. g[q] = v(q) /\ Of(q)[q] = v(q)
        BY <1>4, <3>1
      <3> QED
        BY <2>1, <3>2
    <2> QED
      BY <2>1
  <1> HIDE DEF v
  <1>6. IsSum(f, s, g)
    BY <1>5 DEF IsSum
  <1> QED
    BY <1>6

LEMMA SumIs ==
  ASSUME NEW S, IsFiniteSet(S), NEW f
  PROVE  \E g : IsSum(f, S, g) /\ SumFunctionOnSet(f, S) = g[S]
  <1> DEFINE h == CHOOSE g : IsSum(f, S, g)
  <1>1. IsSum(f, S, h)
    BY SumExists
  <1>2. SumFunctionOnSet(f, S) = h[S]
    BY DEF SumFunctionOnSet, FoldFunctionOnSet, MapThenFoldSet, IsSum, Chosen
  <1> QED
    BY <1>1, <1>2

-----------------------------------------------------------------------------
(* Sums over finite sets. *)

LEMMA SumOfNone ==
  ASSUME NEW f
  PROVE  SumFunctionOnSet(f, {}) = 0
  <1>1. PICK g : IsSum(f, {}, g) /\ SumFunctionOnSet(f, {}) = g[{}]
    BY SumIs, FS_EmptySet
  <1> QED
    BY <1>1 DEF IsSum

LEMMA SumUnfolds ==
  ASSUME NEW S, IsFiniteSet(S), S # {}, NEW f
  PROVE  \E x \in S : SumFunctionOnSet(f, S) = f[x] + SumFunctionOnSet(f, S \ {x})
  <1> DEFINE x == Chosen(S)
  <1>1. x \in S /\ IsFiniteSet(S \ {x}) /\ S \ {x} \in SUBSET S
    BY ChosenIsThere, FS_Subset
  <1>2. PICK g : IsSum(f, S, g) /\ SumFunctionOnSet(f, S) = g[S]
    BY SumIs
  <1>3. PICK h : IsSum(f, S \ {x}, h) /\ SumFunctionOnSet(f, S \ {x}) = h[S \ {x}]
    BY <1>1, SumIs
  <1>4. g[S \ {x}] = h[S \ {x}]
    BY <1>1, <1>2, <1>3, SumsAgree
  <1>5. g[S] = f[x] + g[S \ {x}]
    BY <1>2 DEF IsSum
  <1> QED
    BY <1>1, <1>2, <1>3, <1>4, <1>5

LEMMA SumType ==
  ASSUME NEW S, IsFiniteSet(S), NEW f, \A x \in S : f[x] \in Nat
  PROVE  SumFunctionOnSet(f, S) \in Nat
  <1> DEFINE C == {s \in SUBSET S : SumFunctionOnSet(f, s) \notin Nat}
  <1>1. SUFFICES ASSUME C # {} PROVE FALSE
    OBVIOUS
  <1>2. PICK s \in C : \A r \in SUBSET s : r # s => r \notin C
    <2>1. C \subseteq SUBSET S
      OBVIOUS
    <2> HIDE DEF C
    <2> QED
      BY <1>1, <2>1, SmallestSubset
  <1>3. s # {} /\ IsFiniteSet(s)
    <2>1. SumFunctionOnSet(f, s) \notin Nat /\ s \in SUBSET S
      BY <1>2
    <2>2. SumFunctionOnSet(f, {}) \in Nat
      BY SumOfNone
    <2> QED
      BY <2>1, <2>2, FS_Subset
  <1>4. PICK x \in s : SumFunctionOnSet(f, s) = f[x] + SumFunctionOnSet(f, s \ {x})
    BY <1>3, SumUnfolds
  <1>5. SumFunctionOnSet(f, s \ {x}) \in Nat
    BY <1>2
  <1> QED
    BY <1>4, <1>5

\* The elements may be added in any order.
LEMMA SumWithout ==
  ASSUME NEW S, IsFiniteSet(S), NEW f, \A x \in S : f[x] \in Nat, NEW e \in S
  PROVE  SumFunctionOnSet(f, S) = f[e] + SumFunctionOnSet(f, S \ {e})
  <1> DEFINE Splits(s) == \A x \in s :
                 SumFunctionOnSet(f, s) = f[x] + SumFunctionOnSet(f, s \ {x})
             C == {s \in SUBSET S : ~Splits(s)}
  <1> SUFFICES ASSUME C # {} PROVE FALSE
    OBVIOUS
  <1> HIDE DEF Splits
  <1>1. PICK s \in C : \A r \in SUBSET s : r # s => r \notin C
    <2>1. C \subseteq SUBSET S
      OBVIOUS
    <2> HIDE DEF C
    <2> QED
      BY <2>1, SmallestSubset
  <1>2. IsFiniteSet(s)
    BY FS_Subset
  <1>3. PICK x \in s : SumFunctionOnSet(f, s) # f[x] + SumFunctionOnSet(f, s \ {x})
    BY DEF Splits
  <1>4. PICK y \in s : SumFunctionOnSet(f, s) = f[y] + SumFunctionOnSet(f, s \ {y})
    BY <1>2, <1>3, SumUnfolds
  <1>5. x # y
    BY <1>3, <1>4
  <1>6. Splits(s \ {x}) /\ Splits(s \ {y})
    BY <1>1
  <1>7. SumFunctionOnSet(f, s \ {y}) = f[x] + SumFunctionOnSet(f, (s \ {y}) \ {x})
    BY <1>5, <1>6 DEF Splits
  <1>8. SumFunctionOnSet(f, s \ {x}) = f[y] + SumFunctionOnSet(f, (s \ {x}) \ {y})
    BY <1>5, <1>6 DEF Splits
  <1>9. (s \ {y}) \ {x} = (s \ {x}) \ {y}
    OBVIOUS
  <1>10. IsFiniteSet((s \ {x}) \ {y}) /\ \A z \in (s \ {x}) \ {y} : f[z] \in Nat
    BY <1>2, FS_Subset
  <1>11. SumFunctionOnSet(f, (s \ {x}) \ {y}) \in Nat
    BY <1>10, SumType
  <1>12. f[x] \in Nat /\ f[y] \in Nat
    OBVIOUS
  <1> QED
    BY <1>3, <1>4, <1>7, <1>8, <1>9, <1>11, <1>12

\* A sum is no more than the sum of the parts its terms are made of.
LEMMA SumOfParts ==
  ASSUME NEW S, IsFiniteSet(S), NEW h, NEW f, NEW g,
         \A x \in S : h[x] \in Nat /\ f[x] \in Nat /\ g[x] \in Nat /\ h[x] <= f[x] + g[x]
  PROVE  SumFunctionOnSet(h, S) <= SumFunctionOnSet(f, S) + SumFunctionOnSet(g, S)
  <1> DEFINE Below(s) ==
               SumFunctionOnSet(h, s) <= SumFunctionOnSet(f, s) + SumFunctionOnSet(g, s)
             C == {s \in SUBSET S : ~Below(s)}
  <1> HIDE DEF Below
  <1> SUFFICES ASSUME C # {} PROVE FALSE
    BY DEF Below
  <1>1. PICK s \in C : \A r \in SUBSET s : r # s => r \notin C
    <2>1. C \subseteq SUBSET S
      OBVIOUS
    <2> HIDE DEF C
    <2> QED
      BY <2>1, SmallestSubset
  <1>2. IsFiniteSet(s) /\ s \in SUBSET S
    BY FS_Subset
  <1>3. CASE s = {}
    <2>1. Below({})
      BY SumOfNone DEF Below
    <2> QED
      BY <1>3, <2>1
  <1>4. ASSUME NEW x \in s
        PROVE  FALSE
    <2> DEFINE r == s \ {x}
    <2>1. r \in SUBSET s /\ r # s /\ IsFiniteSet(r) /\ r \in SUBSET S
      BY <1>2, <1>4, FS_Subset
    <2>2. Below(r)
      BY <1>1, <2>1
    <2>3. /\ SumFunctionOnSet(h, s) = h[x] + SumFunctionOnSet(h, r)
          /\ SumFunctionOnSet(f, s) = f[x] + SumFunctionOnSet(f, r)
          /\ SumFunctionOnSet(g, s) = g[x] + SumFunctionOnSet(g, r)
      BY <1>2, <1>4, SumWithout
    <2> HIDE DEF r
    <2>4. /\ SumFunctionOnSet(h, r) \in Nat
          /\ SumFunctionOnSet(f, r) \in Nat
          /\ SumFunctionOnSet(g, r) \in Nat
      BY <2>1, SumType
    <2>5. h[x] \in Nat /\ f[x] \in Nat /\ g[x] \in Nat /\ h[x] <= f[x] + g[x]
      BY <1>2, <1>4
    <2>6. Below(s)
      BY <2>2, <2>3, <2>4, <2>5 DEF Below
    <2> QED
      BY <2>6
  <1> QED
    BY <1>3, <1>4

\* Terms of at most bound, those that are not zero counted.
LEMMA SumBounded ==
  ASSUME NEW S, IsFiniteSet(S), NEW f, NEW bound \in Nat,
         \A x \in S : f[x] \in Nat /\ f[x] <= bound
  PROVE  SumFunctionOnSet(f, S) <= bound * Cardinality({x \in S : f[x] > 0})
  <1> DEFINE Some(s) == {x \in s : f[x] > 0}
             Below(s) == SumFunctionOnSet(f, s) <= bound * Cardinality(Some(s))
             C == {s \in SUBSET S : ~Below(s)}
  <1> HIDE DEF Below
  <1> SUFFICES ASSUME C # {} PROVE FALSE
    BY DEF Below
  <1>1. PICK s \in C : \A r \in SUBSET s : r # s => r \notin C
    <2>1. C \subseteq SUBSET S
      OBVIOUS
    <2> HIDE DEF C
    <2> QED
      BY <2>1, SmallestSubset
  <1>2. IsFiniteSet(s) /\ s \in SUBSET S
    BY FS_Subset
  <1>3. CASE s = {}
    <2>1. Some({}) = {} /\ Cardinality(Some({})) = 0
      BY FS_EmptySet
    <2>2. Below({})
      BY <2>1, SumOfNone DEF Below
    <2> QED
      BY <1>3, <2>2
  <1>4. ASSUME NEW x \in s
        PROVE  FALSE
    <2> DEFINE r == s \ {x}
    <2>1. r \in SUBSET s /\ r # s /\ IsFiniteSet(r) /\ r \in SUBSET S
      BY <1>2, <1>4, FS_Subset
    <2>2. Below(r)
      BY <1>1, <2>1
    <2>3. SumFunctionOnSet(f, s) = f[x] + SumFunctionOnSet(f, r)
      BY <1>2, <1>4, SumWithout
    <2>4. Some(s) = IF f[x] > 0 THEN Some(r) \cup {x} ELSE Some(r)
      BY <1>4
    <2>5. x \notin Some(r)
      OBVIOUS
    <2>6. IsFiniteSet(Some(r))
      BY <2>1, FS_Subset
    <2> HIDE DEF r, Some
    <2>7. Cardinality(Some(s)) = IF f[x] > 0 THEN Cardinality(Some(r)) + 1
                                 ELSE Cardinality(Some(r))
      BY <2>4, <2>5, <2>6, FS_AddElement
    <2>8. SumFunctionOnSet(f, r) \in Nat
      BY <2>1, SumType
    <2>9. f[x] \in Nat /\ f[x] <= bound
      BY <1>2, <1>4
    <2> DEFINE n == Cardinality(Some(r))
    <2>10. n \in Nat
      BY <2>6, FS_CardinalityType
    <2> HIDE DEF n
    <2>11. bound * (n + 1) = bound * n + bound /\ bound * n \in Nat
      BY <2>10
    <2>12. Below(s)
      BY <2>2, <2>3, <2>7, <2>8, <2>9, <2>10, <2>11 DEF Below, n
    <2> QED
      BY <2>12
  <1> QED
    BY <1>3, <1>4

\* A sum grows with its terms.
LEMMA SumAtMost ==
  ASSUME NEW S, IsFiniteSet(S), NEW h, NEW f,
         \A x \in S : h[x] \in Nat /\ f[x] \in Nat /\ h[x] <= f[x]
  PROVE  SumFunctionOnSet(h, S) <= SumFunctionOnSet(f, S)
  <1> DEFINE none == [x \in S |-> 0]
  <1>1. \A x \in S : none[x] = 0
    OBVIOUS
  <1> HIDE DEF none
  <1>2. {x \in S : none[x] > 0} = {}
    BY <1>1
  <1>3. Cardinality({x \in S : none[x] > 0}) = 0
    BY <1>2, FS_EmptySet
  <1>4. SumFunctionOnSet(none, S) <= 0 * Cardinality({x \in S : none[x] > 0})
    BY <1>1, SumBounded
  <1>5. SumFunctionOnSet(h, S) <= SumFunctionOnSet(f, S) + SumFunctionOnSet(none, S)
    BY <1>1, SumOfParts
  <1>6. /\ SumFunctionOnSet(h, S) \in Nat /\ SumFunctionOnSet(f, S) \in Nat
        /\ SumFunctionOnSet(none, S) \in Nat
    BY <1>1, SumType
  <1> QED
    BY <1>3, <1>4, <1>5, <1>6

\* A sum depends on nothing but its terms.
LEMMA SumSame ==
  ASSUME NEW S, IsFiniteSet(S), NEW f, NEW g, \A x \in S : f[x] \in Nat /\ g[x] = f[x]
  PROVE  SumFunctionOnSet(g, S) = SumFunctionOnSet(f, S)
  <1>1. SumFunctionOnSet(g, S) <= SumFunctionOnSet(f, S)
    BY SumAtMost
  <1>2. SumFunctionOnSet(f, S) <= SumFunctionOnSet(g, S)
    BY SumAtMost
  <1>3. SumFunctionOnSet(g, S) \in Nat /\ SumFunctionOnSet(f, S) \in Nat
    BY SumType
  <1> QED
    BY <1>1, <1>2, <1>3

\* One term changes.
LEMMA SumChanged ==
  ASSUME NEW S, IsFiniteSet(S), NEW f, NEW g, NEW e \in S,
         \A x \in S : f[x] \in Nat /\ g[x] \in Nat,
         \A x \in S \ {e} : g[x] = f[x]
  PROVE  SumFunctionOnSet(g, S) = SumFunctionOnSet(f, S) - f[e] + g[e]
  <1>1. IsFiniteSet(S \ {e})
    BY FS_Subset
  <1>2. SumFunctionOnSet(g, S \ {e}) = SumFunctionOnSet(f, S \ {e})
    BY <1>1, SumSame
  <1>3. SumFunctionOnSet(g, S) = g[e] + SumFunctionOnSet(g, S \ {e})
    BY SumWithout
  <1>4. SumFunctionOnSet(f, S) = f[e] + SumFunctionOnSet(f, S \ {e})
    BY SumWithout
  <1>5. SumFunctionOnSet(f, S \ {e}) \in Nat
    BY <1>1, SumType
  <1> QED
    BY <1>2, <1>3, <1>4, <1>5

\* The sum over two sets that share no element.
LEMMA SumOfUnion ==
  ASSUME NEW A, IsFiniteSet(A), NEW B, IsFiniteSet(B), A \cap B = {}, NEW f,
         \A x \in A \cup B : f[x] \in Nat
  PROVE  SumFunctionOnSet(f, A \cup B) = SumFunctionOnSet(f, A) + SumFunctionOnSet(f, B)
  <1> DEFINE Adds(b) ==
               SumFunctionOnSet(f, A \cup b) = SumFunctionOnSet(f, A) + SumFunctionOnSet(f, b)
             C == {b \in SUBSET B : ~Adds(b)}
  <1> HIDE DEF Adds
  <1> SUFFICES ASSUME C # {} PROVE FALSE
    BY DEF Adds
  <1>1. PICK b \in C : \A r \in SUBSET b : r # b => r \notin C
    <2>1. C \subseteq SUBSET B
      OBVIOUS
    <2> HIDE DEF C
    <2> QED
      BY <2>1, SmallestSubset
  <1>2. IsFiniteSet(b) /\ b \in SUBSET B
    BY FS_Subset
  <1>3. SumFunctionOnSet(f, A) \in Nat
    BY SumType
  <1>4. CASE b = {}
    <2>1. A \cup {} = A
      OBVIOUS
    <2>2. Adds({})
      BY <1>3, <2>1, SumOfNone DEF Adds
    <2> QED
      BY <1>4, <2>2
  <1>5. ASSUME NEW x \in b
        PROVE  FALSE
    <2> DEFINE r == b \ {x}
    <2>1. r \in SUBSET b /\ r # b /\ IsFiniteSet(r) /\ r \in SUBSET B
      BY <1>2, <1>5, FS_Subset
    <2>2. Adds(r)
      BY <1>1, <2>1
    <2>3. (A \cup b) \ {x} = A \cup r /\ x \in A \cup b
      BY <1>2, <1>5
    <2>4. IsFiniteSet(A \cup b) /\ \A y \in A \cup b : f[y] \in Nat
      BY <1>2, FS_Union
    <2>5. SumFunctionOnSet(f, b) = f[x] + SumFunctionOnSet(f, r)
      BY <1>2, <1>5, SumWithout
    <2>6. SumFunctionOnSet(f, A \cup b) = f[x] + SumFunctionOnSet(f, A \cup r)
      BY <2>3, <2>4, SumWithout
    <2> HIDE DEF r
    <2>7. SumFunctionOnSet(f, r) \in Nat
      BY <2>1, SumType
    <2>8. f[x] \in Nat
      BY <1>2, <1>5
    <2>9. Adds(b)
      BY <1>3, <2>2, <2>5, <2>6, <2>7, <2>8 DEF Adds
    <2> QED
      BY <2>9
  <1> QED
    BY <1>4, <1>5

\* A sum over fewer terms is no larger.
LEMMA SumOfSubset ==
  ASSUME NEW S, IsFiniteSet(S), NEW T \in SUBSET S, NEW f, \A x \in S : f[x] \in Nat
  PROVE  SumFunctionOnSet(f, T) <= SumFunctionOnSet(f, S)
  <1>1. IsFiniteSet(T) /\ IsFiniteSet(S \ T)
    BY FS_Subset
  <1>2. SumFunctionOnSet(f, T \cup (S \ T))
          = SumFunctionOnSet(f, T) + SumFunctionOnSet(f, S \ T)
    <2>1. \A x \in T \cup (S \ T) : f[x] \in Nat
      OBVIOUS
    <2>2. T \cap (S \ T) = {}
      OBVIOUS
    <2> QED
      BY <1>1, <2>1, <2>2, SumOfUnion
  <1>3. T \cup (S \ T) = S
    OBVIOUS
  <1>4. SumFunctionOnSet(f, T) \in Nat /\ SumFunctionOnSet(f, S \ T) \in Nat
    BY <1>1, SumType
  <1>5. SumFunctionOnSet(f, S) = SumFunctionOnSet(f, T) + SumFunctionOnSet(f, S \ T)
    BY <1>2, <1>3, Zenon
  <1> QED
    BY <1>4, <1>5

\* The elements of a set are counted group by group.
LEMMA SumOfFibers ==
  ASSUME NEW S, IsFiniteSet(S), NEW R, IsFiniteSet(R), NEW key \in [S -> R], NEW f,
         \A r \in R : f[r] = Cardinality({x \in S : key[x] = r})
  PROVE  SumFunctionOnSet(f, R) = Cardinality(S)
  <1> DEFINE Of(s) == {x \in S : key[x] \in s}
             Counts(s) == SumFunctionOnSet(f, s) = Cardinality(Of(s))
             C == {s \in SUBSET R : ~Counts(s)}
  <1>0. \A s : IsFiniteSet(Of(s))
    BY FS_Subset
  <1>1. \A r \in R : f[r] \in Nat
    <2> SUFFICES ASSUME NEW r \in R PROVE f[r] \in Nat
      OBVIOUS
    <2>1. IsFiniteSet({x \in S : key[x] = r})
      BY FS_Subset
    <2> QED
      BY <2>1, FS_CardinalityType
  <1>2. Counts(R) => SumFunctionOnSet(f, R) = Cardinality(S)
    <2>1. Of(R) = S
      OBVIOUS
    <2> QED
      BY <2>1
  <1> HIDE DEF Counts
  <1> SUFFICES ASSUME C # {} PROVE FALSE
    BY <1>2
  <1>3. PICK s \in C : \A r \in SUBSET s : r # s => r \notin C
    <2>1. C \subseteq SUBSET R
      OBVIOUS
    <2> HIDE DEF C
    <2> QED
      BY <2>1, SmallestSubset
  <1>4. IsFiniteSet(s) /\ s \in SUBSET R
    BY FS_Subset
  <1>5. CASE s = {}
    <2>1. Of({}) = {} /\ Cardinality(Of({})) = 0
      BY FS_EmptySet
    <2>2. Counts({})
      BY <2>1, SumOfNone DEF Counts
    <2> QED
      BY <1>5, <2>2
  <1>6. ASSUME NEW e \in s
        PROVE  FALSE
    <2> DEFINE r == s \ {e}
               group == {x \in S : key[x] = e}
    <2>1. r \in SUBSET s /\ r # s /\ IsFiniteSet(r) /\ r \in SUBSET R
      BY <1>4, <1>6, FS_Subset
    <2>2. Counts(r)
      BY <1>3, <2>1
    <2>3. SumFunctionOnSet(f, s) = f[e] + SumFunctionOnSet(f, r)
      BY <1>1, <1>4, <1>6, SumWithout
    <2>4. f[e] = Cardinality(group) /\ IsFiniteSet(group)
      BY <1>4, <1>6, FS_Subset
    <2>5. Of(s) = Of(r) \cup group /\ Of(r) \cap group = {}
      BY <1>6
    <2>6. IsFiniteSet(Of(r))
      BY <1>0
    <2> HIDE DEF r, group, Of
    <2>7. Cardinality(Of(s)) = Cardinality(Of(r)) + Cardinality(group)
      <3>1. Cardinality(Of(r) \cup group)
              = Cardinality(Of(r)) + Cardinality(group) - Cardinality(Of(r) \cap group)
        BY <2>4, <2>6, FS_Union
      <3>2. /\ Cardinality(Of(r) \cap group) = 0
            /\ Cardinality(Of(s)) = Cardinality(Of(r) \cup group)
        BY <2>5, FS_EmptySet
      <3>3. Cardinality(Of(r)) \in Nat /\ Cardinality(group) \in Nat
        BY <2>4, <2>6, FS_CardinalityType
      <3> QED
        BY <3>1, <3>2, <3>3
    <2>8. Cardinality(Of(r)) \in Nat /\ Cardinality(group) \in Nat
      BY <2>4, <2>6, FS_CardinalityType
    <2>9. Counts(s)
      BY <2>2, <2>3, <2>4, <2>7, <2>8 DEF Counts
    <2> QED
      BY <2>9
  <1> QED
    BY <1>5, <1>6

LEMMA SumOfZeros ==
  ASSUME NEW S, IsFiniteSet(S), NEW f, \A x \in S : f[x] = 0
  PROVE  SumFunctionOnSet(f, S) = 0
  <1>1. {x \in S : f[x] > 0} = {}
    OBVIOUS
  <1>2. Cardinality({x \in S : f[x] > 0}) = 0
    BY <1>1, FS_EmptySet
  <1>3. SumFunctionOnSet(f, S) <= 0 * Cardinality({x \in S : f[x] > 0})
    BY SumBounded
  <1>4. SumFunctionOnSet(f, S) \in Nat
    BY SumType
  <1> QED
    BY <1>2, <1>3, <1>4

\* A sum over pairs is added row by row.
SumOfPairs(f, A, B) == SumFunctionOnSet(f, A \X B)

LEMMA SumOfRows ==
  ASSUME NEW A, IsFiniteSet(A), NEW B, IsFiniteSet(B), NEW f, NEW g,
         \A p \in A \X B : f[p] \in Nat,
         \A a \in A : g[a] = SumOfPairs(f, {a}, B)
  PROVE  SumOfPairs(f, A, B) = SumFunctionOnSet(g, A)
  <1> USE DEF SumOfPairs
  <1> DEFINE Adds(s) == SumFunctionOnSet(f, s \X B) = SumFunctionOnSet(g, s)
             C == {s \in SUBSET A : ~Adds(s)}
  <1>1. Adds(A) => SumFunctionOnSet(f, A \X B) = SumFunctionOnSet(g, A)
    OBVIOUS
  <1>2. Adds({})
    <2>1. {} \X B = {}
      OBVIOUS
    <2> QED
      BY <2>1, SumOfNone
  <1>3. \A s \in SUBSET A : \A p \in s \X B : f[p] \in Nat
    OBVIOUS
  <1>4. ASSUME NEW s \in SUBSET A
        PROVE  IsFiniteSet(s \X B)
    <2>1. IsFiniteSet(s)
      BY FS_Subset
    <2> QED
      BY <2>1, FS_Product
  <1>5. \A a \in A : g[a] \in Nat
    <2> SUFFICES ASSUME NEW a \in A PROVE SumFunctionOnSet(f, {a} \X B) \in Nat
      OBVIOUS
    <2>1. {a} \in SUBSET A
      OBVIOUS
    <2> QED
      BY <1>3, <1>4, <2>1, SumType
  <1> HIDE DEF Adds
  <1> SUFFICES ASSUME C # {} PROVE FALSE
    BY <1>1
  <1>6. PICK s \in C : \A r \in SUBSET s : r # s => r \notin C
    <2>1. C \subseteq SUBSET A
      OBVIOUS
    <2> HIDE DEF C
    <2> QED
      BY <2>1, SmallestSubset
  <1>7. IsFiniteSet(s) /\ s \in SUBSET A
    BY FS_Subset
  <1>8. PICK e \in s : TRUE
    BY <1>2, <1>6
  <1> DEFINE r == s \ {e}
  <1>9. r \in SUBSET s /\ r # s /\ r \in SUBSET A /\ {e} \in SUBSET A
    BY <1>7, <1>8
  <1>10. Adds(r)
    BY <1>6, <1>9
  <1>11. SumFunctionOnSet(g, s) = g[e] + SumFunctionOnSet(g, r)
    BY <1>5, <1>7, <1>8, SumWithout
  <1>12. s \X B = ({e} \X B) \cup (r \X B) /\ ({e} \X B) \cap (r \X B) = {}
    BY <1>8
  <1>13. IsFiniteSet({e} \X B) /\ IsFiniteSet(r \X B)
    BY <1>4, <1>9
  <1>14. \A p \in ({e} \X B) \cup (r \X B) : f[p] \in Nat
    BY <1>3, <1>9
  <1> HIDE DEF r
  <1>15. SumFunctionOnSet(f, ({e} \X B) \cup (r \X B))
           = SumFunctionOnSet(f, {e} \X B) + SumFunctionOnSet(f, r \X B)
    <2> DEFINE here == {e} \X B
               others == r \X B
    <2>1. IsFiniteSet(here) /\ IsFiniteSet(others) /\ here \cap others = {}
      BY <1>12, <1>13
    <2>2. \A p \in here \cup others : f[p] \in Nat
      BY <1>14
    <2> HIDE DEF here, others
    <2>3. SumFunctionOnSet(f, here \cup others)
            = SumFunctionOnSet(f, here) + SumFunctionOnSet(f, others)
      BY <2>1, <2>2, SumOfUnion
    <2> QED
      BY <2>3 DEF here, others
  <1>16. g[e] = SumFunctionOnSet(f, {e} \X B)
    BY <1>7, <1>8
  <1>17. SumFunctionOnSet(f, s \X B) = g[e] + SumFunctionOnSet(f, r \X B)
    BY <1>12, <1>15, <1>16, Zenon
  <1>18. Adds(s)
    BY <1>10, <1>11, <1>17 DEF Adds
  <1> QED
    BY <1>18
===============================================================================
