----------------------------- MODULE SumTheorems -----------------------------
(***************************************************************************)
(* Sums over finite sets (SumFunctionOnSet of Functions), which the gates, *)
(* the book, the budget and the accounts add up money with: what they are  *)
(* worth for sets of any size.  The library's induction takes an operator; *)
(* here induction is over a set, which makes it first-order, and it rests   *)
(* on the well-foundedness of the natural numbers.                         *)
(***************************************************************************)
EXTENDS Integers, FiniteSets, Sequences, Functions, FiniteSetTheorems, SequenceTheorems,
        WellFoundedInduction, TLAPS

(***************************************************************************)
(* Induction over sets                                                     *)
(***************************************************************************)

\* A set of natural numbers that is not empty has a least element.
LEMMA LeastNatural ==
  ASSUME NEW S, S \subseteq Nat, S # {}
  PROVE  \E x \in S : \A y \in S : x <= y
<1> DEFINE R == {ss \in Nat \X Nat : ss[1] < ss[2]}
<1>1. IsWellFoundedOn(R, Nat)
  BY NatLessThanWellFounded DEF OpToRel
<1>2. \E x \in S : \A y \in S : <<y, x>> \notin R
  <2> HIDE DEF R
  <2> QED BY <1>1, WFMin
<1>3. \A x, y \in Nat : <<y, x>> \in R <=> y < x
  OBVIOUS
<1>4. PICK x \in S : \A y \in S : <<y, x>> \notin R
  BY <1>2
<1> HIDE DEF R
<1>5. \A y \in S : ~ (y < x)
  BY <1>3, <1>4
<1> QED
  BY <1>5

\* Induction over the natural numbers, for membership in a set.
LEMMA NaturalInduction ==
  ASSUME NEW G, 0 \in G, \A n \in Nat : n \in G => n + 1 \in G
  PROVE  Nat \subseteq G
<1> SUFFICES ASSUME Nat \ G # {} PROVE FALSE
  OBVIOUS
<1>1. PICK n \in Nat \ G : \A m \in Nat \ G : n <= m
  BY LeastNatural
<1>2. n - 1 \in Nat /\ n - 1 \in G
  BY <1>1
<1> QED
  BY <1>1, <1>2

\* Induction over the subsets of a finite set: what holds of the empty set, and of a set
\* whenever it holds of the set without any one of its elements, holds of every subset.
LEMMA FiniteInduction ==
  ASSUME NEW S, IsFiniteSet(S), NEW G,
         {} \in G,
         \A T \in SUBSET S : (T # {} /\ \A x \in T : T \ {x} \in G) => T \in G
  PROVE  \A T \in SUBSET S : T \in G
<1> DEFINE Good == {n \in Nat : \A T \in SUBSET S : Cardinality(T) = n => T \in G}
<1>1. 0 \in Good
  <2>1. \A T \in SUBSET S : Cardinality(T) = 0 => T = {}
    BY FS_Subset, FS_EmptySet
  <2> QED
    BY <2>1
<1>2. \A n \in Nat : n \in Good => n + 1 \in Good
  <2> SUFFICES ASSUME NEW n \in Nat, n \in Good,
                      NEW T \in SUBSET S, Cardinality(T) = n + 1
               PROVE  T \in G
    OBVIOUS
  <2>1. IsFiniteSet(T) /\ T # {}
    BY FS_Subset, FS_EmptySet
  <2>2. ASSUME NEW x \in T PROVE T \ {x} \in G
    <3>1. Cardinality(T \ {x}) = Cardinality(T) - 1
      BY <2>1, FS_RemoveElement
    <3>2. Cardinality(T \ {x}) = n
      BY <3>1
    <3> QED
      BY <3>2
  <2> QED
    BY <2>1, <2>2
<1>3. Nat \subseteq Good
  <2> HIDE DEF Good
  <2> QED BY <1>1, <1>2, NaturalInduction
<1>4. \A T \in SUBSET S : Cardinality(T) \in Nat
  BY FS_Subset, FS_CardinalityType
<1> QED
  BY <1>3, <1>4

\* A finite set that is not empty has an element at which a function is greatest.
LEMMA GreatestOfFinite ==
  ASSUME NEW S, IsFiniteSet(S), S # {}, NEW f, \A x \in S : f[x] \in Nat
  PROVE  \E x \in S : \A y \in S : f[y] <= f[x]
<1> DEFINE G == {T \in SUBSET S : T = {} \/ \E x \in T : \A y \in T : f[y] <= f[x]}
<1>1. {} \in G
  OBVIOUS
<1>2. ASSUME NEW T \in SUBSET S, T # {}, \A x \in T : T \ {x} \in G PROVE T \in G
  <2>1. PICK x \in T : T \ {x} \in G
    BY <1>2
  <2>2. CASE T \ {x} = {}
    <3>1. \A y \in T : f[y] <= f[x]
      BY <2>2
    <3> QED
      BY <3>1
  <2>3. CASE T \ {x} # {}
    <3>1. PICK z \in T \ {x} : \A y \in T \ {x} : f[y] <= f[z]
      BY <2>1, <2>3
    <3>2. CASE f[z] <= f[x]
      <4>1. \A y \in T : f[y] <= f[x]
        BY <3>1, <3>2
      <4> QED
        BY <4>1
    <3>3. CASE ~ (f[z] <= f[x])
      <4>1. \A y \in T : f[y] <= f[z]
        BY <3>1, <3>3
      <4> QED
        BY <4>1
    <3> QED
      BY <3>2, <3>3
  <2> QED
    BY <2>2, <2>3
<1>3. S \in G
  <2> HIDE DEF G
  <2> QED
    BY <1>1, <1>2, FiniteInduction
<1> QED
  BY <1>3

(***************************************************************************)
(* The recursion a sum is the value of                                     *)
(***************************************************************************)

Chosen(s) == CHOOSE x \in s : TRUE

\* h adds f up over every subset of S, one chosen element at a time.
AddsUp(h, f, S) ==
    h = [s \in SUBSET S |-> IF s = {} THEN 0 ELSE f[Chosen(s)] + h[s \ {Chosen(s)}]]

\* A sum is what the recursion of MapThenFoldSet gives for the set.
LEMMA SumChosen ==
  ASSUME NEW f, NEW S
  PROVE  SumFunctionOnSet(f, S) = (CHOOSE h : AddsUp(h, f, S))[S]
BY DEF SumFunctionOnSet, FoldFunctionOnSet, MapThenFoldSet, AddsUp, Chosen

\* Such an h exists, and two of them agree wherever both are defined.
LEMMA AddsUpExists ==
  ASSUME NEW f, NEW S, IsFiniteSet(S)
  PROVE  \E h : AddsUp(h, f, S)
<1> DEFINE Body(h) == [s \in SUBSET S |-> IF s = {} THEN 0 ELSE f[Chosen(s)] + h[s \ {Chosen(s)}]]
           Upto(h, n) == \A s \in SUBSET S : Cardinality(s) <= n => h[s] = Body(h)[s]
           Good == {n \in Nat : \E h : Upto(h, n)}
<1>1. \A s \in SUBSET S : /\ Cardinality(s) \in Nat
                          /\ Cardinality(s) = 0 <=> s = {}
                          /\ s # {} => /\ Cardinality(s \ {Chosen(s)}) = Cardinality(s) - 1
                                       /\ s \ {Chosen(s)} \in SUBSET S
  <2> TAKE s \in SUBSET S
  <2>1. IsFiniteSet(s)
    BY FS_Subset
  <2>2. s # {} => Chosen(s) \in s
    BY DEF Chosen
  <2>3. s # {} => Cardinality(s \ {Chosen(s)}) = Cardinality(s) - 1
    BY <2>1, <2>2, FS_RemoveElement
  <2> QED
    BY <2>1, <2>3, FS_CardinalityType, FS_EmptySet
<1>2. 0 \in Good
  <2> DEFINE zero == [s \in SUBSET S |-> 0]
  <2>1. ASSUME NEW s \in SUBSET S, Cardinality(s) <= 0 PROVE s = {}
    <3>1. Cardinality(s) \in Nat
      BY <1>1
    <3>2. Cardinality(s) = 0
      BY <2>1, <3>1
    <3> QED
      BY <1>1, <3>2
  <2>2. Upto(zero, 0)
    BY <2>1
  <2> HIDE DEF zero, Upto
  <2> QED
    BY <2>2
<1>3. ASSUME NEW n \in Nat, n \in Good PROVE n + 1 \in Good
  <2>1. PICK h : Upto(h, n)
    BY <1>3
  <2>2. Upto(Body(h), n + 1)
    <3> SUFFICES ASSUME NEW s \in SUBSET S, Cardinality(s) <= n + 1
                 PROVE  Body(h)[s] = Body(Body(h))[s]
      OBVIOUS
    <3>1. CASE s = {}
      BY <3>1
    <3>2. CASE s # {}
      <4> DEFINE t == s \ {Chosen(s)}
      <4>1. t \in SUBSET S /\ Cardinality(t) <= n
        BY <1>1, <3>2
      <4>2. h[t] = Body(h)[t]
        BY <2>1, <4>1
      <4> HIDE DEF t
      <4>3. Body(h)[s] = f[Chosen(s)] + h[t]
        BY <3>2 DEF t
      <4>4. Body(Body(h))[s] = f[Chosen(s)] + Body(h)[t]
        BY <3>2 DEF t
      <4> QED
        BY <4>2, <4>3, <4>4
    <3> QED
      BY <3>1, <3>2
  <2> HIDE DEF Upto
  <2> QED
    BY <2>2
<1>4. Nat \subseteq Good
  <2> HIDE DEF Good
  <2> QED BY <1>2, <1>3, NaturalInduction
<1>5. Cardinality(S) \in Good
  BY <1>1, <1>4
<1>6. PICK h : Upto(h, Cardinality(S))
  BY <1>5
<1>7. \A s \in SUBSET S : Cardinality(s) <= Cardinality(S)
  BY FS_Subset
<1>8. \A s \in SUBSET S : h[s] = Body(h)[s]
  BY <1>6, <1>7
<1>9. Body(h) = Body(Body(h))
  <2> SUFFICES ASSUME NEW s \in SUBSET S PROVE Body(h)[s] = Body(Body(h))[s]
    OBVIOUS
  <2>1. CASE s = {}
    BY <2>1
  <2>2. CASE s # {}
    <3> DEFINE t == s \ {Chosen(s)}
    <3>1. t \in SUBSET S
      OBVIOUS
    <3>2. h[t] = Body(h)[t]
      BY <1>8, <3>1
    <3> HIDE DEF t
    <3>3. Body(h)[s] = f[Chosen(s)] + h[t]
      BY <2>2 DEF t
    <3>4. Body(Body(h))[s] = f[Chosen(s)] + Body(h)[t]
      BY <2>2 DEF t
    <3> QED
      BY <3>2, <3>3, <3>4
  <2> QED
    BY <2>1, <2>2
<1> HIDE DEF Upto
<1>10. AddsUp(Body(h), f, S)
  BY <1>9 DEF AddsUp
<1> HIDE DEF Body
<1> QED
  BY <1>10

\* Two such recursions agree on every part of a set where their functions do.
LEMMA AddsUpUnique ==
  ASSUME NEW f, NEW g, NEW S, IsFiniteSet(S), NEW T \in SUBSET S,
         \A x \in T : f[x] = g[x],
         NEW h, AddsUp(h, f, S), NEW k, AddsUp(k, g, T)
  PROVE  \A s \in SUBSET T : h[s] = k[s]
<1> DEFINE Same == {s \in SUBSET T : h[s] = k[s]}
<1>1. {} \in Same
  BY DEF AddsUp
<1>2. ASSUME NEW s \in SUBSET T, s # {}, \A x \in s : s \ {x} \in Same
      PROVE  s \in Same
  <2>1. Chosen(s) \in s
    BY <1>2 DEF Chosen
  <2>2. h[s] = f[Chosen(s)] + h[s \ {Chosen(s)}]
    BY <1>2 DEF AddsUp
  <2>3. k[s] = g[Chosen(s)] + k[s \ {Chosen(s)}]
    BY <1>2 DEF AddsUp
  <2> QED
    BY <1>2, <2>1, <2>2, <2>3
<1>3. IsFiniteSet(T)
  BY FS_Subset
<1> HIDE DEF Same
<1>4. \A s \in SUBSET T : s \in Same
  BY <1>1, <1>2, <1>3, FiniteInduction
<1> QED
  BY <1>4 DEF Same

(***************************************************************************)
(* What a sum is worth                                                     *)
(***************************************************************************)

\* The sum of nothing.
LEMMA SumEmpty ==
  ASSUME NEW f
  PROVE  SumFunctionOnSet(f, {}) = 0
<1>1. IsFiniteSet({})
  BY FS_EmptySet
<1>2. PICK h : AddsUp(h, f, {})
  BY <1>1, AddsUpExists
<1>3. AddsUp(CHOOSE hh : AddsUp(hh, f, {}), f, {})
  BY <1>2
<1> QED
  BY <1>3, SumChosen DEF AddsUp

\* Sums of functions that agree on the set are equal.
LEMMA SumAgree ==
  ASSUME NEW S, IsFiniteSet(S), NEW f, NEW g, \A x \in S : f[x] = g[x]
  PROVE  SumFunctionOnSet(f, S) = SumFunctionOnSet(g, S)
<1> DEFINE h == CHOOSE hh : AddsUp(hh, f, S)
           k == CHOOSE kk : AddsUp(kk, g, S)
<1>1. AddsUp(h, f, S) /\ AddsUp(k, g, S)
  BY AddsUpExists
<1> HIDE DEF h, k
<1>2. h[S] = k[S]
  BY <1>1, AddsUpUnique
<1> QED
  BY <1>2, SumChosen DEF h, k

\* A sum is the chosen element and the sum of the others.
LEMMA SumStep ==
  ASSUME NEW S, IsFiniteSet(S), NEW f, S # {}
  PROVE  /\ Chosen(S) \in S
         /\ SumFunctionOnSet(f, S) = f[Chosen(S)] + SumFunctionOnSet(f, S \ {Chosen(S)})
<1> DEFINE T == S \ {Chosen(S)}
           h == CHOOSE hh : AddsUp(hh, f, S)
           k == CHOOSE kk : AddsUp(kk, f, T)
<1>1. IsFiniteSet(T) /\ T \in SUBSET S
  BY FS_Subset
<1>2. AddsUp(h, f, S) /\ AddsUp(k, f, T)
  BY <1>1, AddsUpExists
<1>3. SumFunctionOnSet(f, S) = h[S] /\ SumFunctionOnSet(f, T) = k[T]
  BY SumChosen
<1> HIDE DEF h, k
<1>4. h[S] = f[Chosen(S)] + h[T]
  BY <1>2 DEF AddsUp
<1>5. h[T] = k[T]
  BY <1>1, <1>2, AddsUpUnique
<1> QED
  BY <1>3, <1>4, <1>5 DEF Chosen

\* A sum of integers is an integer, and one of natural numbers is a natural number.
LEMMA SumInt ==
  ASSUME NEW S, IsFiniteSet(S), NEW f, \A x \in S : f[x] \in Int
  PROVE  SumFunctionOnSet(f, S) \in Int
<1> DEFINE Typed == {T \in SUBSET S : SumFunctionOnSet(f, T) \in Int}
<1>1. {} \in Typed
  BY SumEmpty
<1>2. ASSUME NEW T \in SUBSET S, T # {}, \A x \in T : T \ {x} \in Typed
      PROVE  T \in Typed
  <2> DEFINE c == Chosen(T)
  <2>1. IsFiniteSet(T)
    BY FS_Subset
  <2>2. c \in T /\ SumFunctionOnSet(f, T) = f[c] + SumFunctionOnSet(f, T \ {c})
    BY <1>2, <2>1, SumStep
  <2> HIDE DEF c
  <2>3. f[c] \in Int /\ SumFunctionOnSet(f, T \ {c}) \in Int
    BY <1>2, <2>2
  <2> QED
    BY <2>2, <2>3
<1> HIDE DEF Typed
<1>3. \A T \in SUBSET S : T \in Typed
  BY <1>1, <1>2, FiniteInduction
<1> QED
  BY <1>3 DEF Typed

\* Sums of natural numbers are natural numbers.
LEMMA SumNat ==
  ASSUME NEW S, IsFiniteSet(S), NEW f, \A x \in S : f[x] \in Nat
  PROVE  SumFunctionOnSet(f, S) \in Nat
<1> DEFINE Typed == {T \in SUBSET S : SumFunctionOnSet(f, T) \in Nat}
<1>1. {} \in Typed
  BY SumEmpty
<1>2. ASSUME NEW T \in SUBSET S, T # {}, \A x \in T : T \ {x} \in Typed
      PROVE  T \in Typed
  <2> DEFINE c == Chosen(T)
  <2>1. IsFiniteSet(T)
    BY FS_Subset
  <2>2. c \in T /\ SumFunctionOnSet(f, T) = f[c] + SumFunctionOnSet(f, T \ {c})
    BY <1>2, <2>1, SumStep
  <2> HIDE DEF c
  <2>3. f[c] \in Nat /\ SumFunctionOnSet(f, T \ {c}) \in Nat
    BY <1>2, <2>2
  <2> QED
    BY <2>2, <2>3
<1> HIDE DEF Typed
<1>3. \A T \in SUBSET S : T \in Typed
  BY <1>1, <1>2, FiniteInduction
<1> QED
  BY <1>3 DEF Typed

\* Any element may be taken out of a sum.
LEMMA SumRemove ==
  ASSUME NEW S, IsFiniteSet(S), NEW f, \A x \in S : f[x] \in Int, NEW y \in S
  PROVE  SumFunctionOnSet(f, S) = f[y] + SumFunctionOnSet(f, S \ {y})
<1> DEFINE Sum(T) == SumFunctionOnSet(f, T)
           Good == {T \in SUBSET S : \A x \in T : Sum(T) = f[x] + Sum(T \ {x})}
<1>0. \A T \in SUBSET S : IsFiniteSet(T) /\ Sum(T) \in Int
  BY FS_Subset, SumInt
<1>1. {} \in Good
  OBVIOUS
<1>2. ASSUME NEW T \in SUBSET S, T # {}, \A x \in T : T \ {x} \in Good
      PROVE  T \in Good
  <2> DEFINE c == Chosen(T)
  <2>1. c \in T /\ Sum(T) = f[c] + Sum(T \ {c})
    BY <1>0, <1>2, SumStep
  <2> HIDE DEF c
  <2>2. ASSUME NEW x \in T, x # c PROVE Sum(T) = f[x] + Sum(T \ {x})
    <3> DEFINE rest == Sum((T \ {c}) \ {x})
    <3>1. Sum(T \ {c}) = f[x] + rest
      BY <1>2, <2>1, <2>2
    <3>2. (T \ {c}) \ {x} = (T \ {x}) \ {c}
      OBVIOUS
    <3>3. Sum(T \ {x}) = f[c] + rest
      <4>1. Sum(T \ {x}) = f[c] + Sum((T \ {x}) \ {c})
        BY <1>2, <2>1, <2>2
      <4> QED
        BY <3>2, <4>1
    <3>4. rest \in Int /\ f[x] \in Int /\ f[c] \in Int
      BY <1>0, <2>1
    <3>5. Sum(T) = f[c] + (f[x] + rest)
      BY <2>1, <3>1
    <3> HIDE DEF rest
    <3>6. f[c] + (f[x] + rest) = f[x] + (f[c] + rest)
      BY <3>4
    <3> QED
      BY <3>3, <3>5, <3>6
  <2> QED
    BY <2>1, <2>2
<1> HIDE DEF Good
<1>3. \A T \in SUBSET S : T \in Good
  BY <1>1, <1>2, FiniteInduction
<1> QED
  BY <1>3 DEF Good

\* A sum after one value has changed.
LEMMA SumChange ==
  ASSUME NEW S, IsFiniteSet(S), NEW f, NEW g, NEW y \in S,
         \A x \in S : f[x] \in Int /\ g[x] \in Int,
         \A x \in S \ {y} : g[x] = f[x]
  PROVE  SumFunctionOnSet(g, S) = SumFunctionOnSet(f, S) - f[y] + g[y]
<1> DEFINE T == S \ {y}
<1>1. IsFiniteSet(T)
  BY FS_Subset
<1>2. SumFunctionOnSet(f, S) = f[y] + SumFunctionOnSet(f, T)
  BY SumRemove
<1>3. SumFunctionOnSet(g, S) = g[y] + SumFunctionOnSet(g, T)
  BY SumRemove
<1>4. SumFunctionOnSet(f, T) = SumFunctionOnSet(g, T)
  BY <1>1, SumAgree
<1>5. SumFunctionOnSet(f, T) \in Int
  BY <1>1, SumInt
<1> QED
  BY <1>2, <1>3, <1>4, <1>5

\* A sum bounds its parts, when nothing in it is negative.
LEMMA SumPart ==
  ASSUME NEW S, IsFiniteSet(S), NEW f, \A x \in S : f[x] \in Nat, NEW T \in SUBSET S
  PROVE  SumFunctionOnSet(f, T) <= SumFunctionOnSet(f, S)
<1> DEFINE Sum(U) == SumFunctionOnSet(f, U)
           Good == {U \in SUBSET S : \A V \in SUBSET U : Sum(V) <= Sum(U)}
<1>0. \A U \in SUBSET S : IsFiniteSet(U) /\ Sum(U) \in Nat
  BY FS_Subset, SumNat
<1>1. {} \in Good
  BY <1>0
<1>2. ASSUME NEW U \in SUBSET S, U # {}, \A x \in U : U \ {x} \in Good
      PROVE  U \in Good
  <2> SUFFICES ASSUME NEW V \in SUBSET U, V # U PROVE Sum(V) <= Sum(U)
    BY <1>0
  <2>1. PICK x \in U : x \notin V
    OBVIOUS
  <2>2. Sum(V) <= Sum(U \ {x})
    BY <1>2, <2>1
  <2>3. Sum(U) = f[x] + Sum(U \ {x})
    BY <1>0, <2>1, SumRemove
  <2>4. Sum(V) \in Nat /\ Sum(U \ {x}) \in Nat /\ f[x] \in Nat
    BY <1>0
  <2> HIDE DEF Sum
  <2> QED
    BY <2>2, <2>3, <2>4
<1> HIDE DEF Good
<1>3. \A U \in SUBSET S : U \in Good
  BY <1>1, <1>2, FiniteInduction
<1> QED
  BY <1>3 DEF Good

\* Larger terms add up to a larger sum.
LEMMA SumMonotone ==
  ASSUME NEW S, IsFiniteSet(S), NEW f, NEW g,
         \A x \in S : f[x] \in Int /\ g[x] \in Int /\ f[x] <= g[x]
  PROVE  SumFunctionOnSet(f, S) <= SumFunctionOnSet(g, S)
<1> DEFINE SumF(T) == SumFunctionOnSet(f, T)
           SumG(T) == SumFunctionOnSet(g, T)
           Good == {T \in SUBSET S : SumF(T) <= SumG(T)}
<1>0. \A T \in SUBSET S : IsFiniteSet(T) /\ SumF(T) \in Int /\ SumG(T) \in Int
  BY FS_Subset, SumInt
<1>1. {} \in Good
  BY SumEmpty
<1>2. ASSUME NEW T \in SUBSET S, T # {}, \A x \in T : T \ {x} \in Good
      PROVE  T \in Good
  <2>1. PICK x \in T : TRUE
    BY <1>2
  <2>2. SumF(T) = f[x] + SumF(T \ {x}) /\ SumG(T) = g[x] + SumG(T \ {x})
    BY <1>0, <2>1, SumRemove
  <2>3. SumF(T \ {x}) \in Int /\ SumG(T \ {x}) \in Int /\ SumF(T \ {x}) <= SumG(T \ {x})
    BY <1>0, <1>2, <2>1
  <2> HIDE DEF SumF, SumG
  <2> QED
    BY <2>1, <2>2, <2>3
<1> HIDE DEF Good
<1>3. \A T \in SUBSET S : T \in Good
  BY <1>1, <1>2, FiniteInduction
<1> QED
  BY <1>3 DEF Good

\* No more than as many times the largest term as there are terms.
LEMMA SumBound ==
  ASSUME NEW S, IsFiniteSet(S), NEW f, NEW m \in Int, \A x \in S : f[x] \in Int /\ f[x] <= m
  PROVE  SumFunctionOnSet(f, S) <= Cardinality(S) * m
<1> DEFINE Sum(T) == SumFunctionOnSet(f, T)
           Good == {T \in SUBSET S : Sum(T) <= Cardinality(T) * m}
<1>0. \A T \in SUBSET S : IsFiniteSet(T) /\ Sum(T) \in Int /\ Cardinality(T) \in Nat
  BY FS_Subset, FS_CardinalityType, SumInt
<1>1. {} \in Good
  <2>1. Sum({}) = 0 /\ Cardinality({}) = 0
    BY SumEmpty, FS_EmptySet
  <2> QED
    BY <2>1
<1>2. ASSUME NEW T \in SUBSET S, T # {}, \A x \in T : T \ {x} \in Good
      PROVE  T \in Good
  <2>1. PICK x \in T : TRUE
    BY <1>2
  <2> DEFINE k == Cardinality(T \ {x})
  <2>2. Sum(T) = f[x] + Sum(T \ {x})
    BY <1>0, <2>1, SumRemove
  <2>3. Cardinality(T) = k + 1 /\ k \in Nat
    BY <1>0, <2>1, FS_RemoveElement, FS_CardinalityType
  <2>4. Sum(T \ {x}) \in Int /\ Sum(T \ {x}) <= k * m
    BY <1>0, <1>2, <2>1
  <2>5. f[x] \in Int /\ f[x] <= m
    OBVIOUS
  <2> HIDE DEF Sum, k
  <2>6. k * m \in Int /\ (k + 1) * m = k * m + m
    BY <2>3
  <2>7. Sum(T) <= (k + 1) * m
    BY <2>2, <2>4, <2>5, <2>6
  <2> QED
    BY <2>3, <2>7 DEF Sum
<1> HIDE DEF Good
<1>3. \A T \in SUBSET S : T \in Good
  BY <1>1, <1>2, FiniteInduction
<1> QED
  BY <1>3 DEF Good

\* The sum of a longer sequence.
LEMMA SumAppend ==
  ASSUME NEW s \in Seq(Int), NEW x \in Int
  PROVE  /\ SumFunction(s) \in Int
         /\ SumFunction(Append(s, x)) = SumFunction(s) + x
<1> DEFINE n == Len(s)
           t == Append(s, x)
<1>1. n \in Nat /\ DOMAIN s = 1 .. n /\ DOMAIN t = 1 .. n + 1 /\ t[n + 1] = x /\ \A i \in 1 .. n : t[i] = s[i] /\ s[i] \in Int
  OBVIOUS
<1>2. IsFiniteSet(1 .. n) /\ IsFiniteSet(1 .. n + 1)
  BY <1>1, FS_Interval
<1>3. (1 .. n + 1) \ {n + 1} = 1 .. n /\ n + 1 \in 1 .. n + 1 /\ \A i \in 1 .. n + 1 : i \in 1 .. n \/ i = n + 1
  BY <1>1
<1> HIDE DEF n, t
<1>4. SumFunctionOnSet(s, 1 .. n) \in Int /\ SumFunctionOnSet(t, 1 .. n) = SumFunctionOnSet(s, 1 .. n)
  BY <1>1, <1>2, SumInt, SumAgree
<1>5. \A i \in 1 .. n + 1 : t[i] \in Int
  BY <1>1, <1>3
<1>6. SumFunctionOnSet(t, 1 .. n + 1) = t[n + 1] + SumFunctionOnSet(t, (1 .. n + 1) \ {n + 1})
  BY <1>2, <1>3, <1>5, SumRemove
<1>7. SumFunctionOnSet(t, 1 .. n + 1) = SumFunctionOnSet(s, 1 .. n) + x
  <2>1. SumFunctionOnSet(t, 1 .. n + 1) = x + SumFunctionOnSet(s, 1 .. n)
    BY <1>1, <1>3, <1>4, <1>6, Zenon
  <2> QED BY <1>4, <2>1
<1> QED
  BY <1>1, <1>4, <1>7 DEF SumFunction, t

\* The sum of no terms but zeros.
LEMMA SumZero ==
  ASSUME NEW S, IsFiniteSet(S), NEW f, \A x \in S : f[x] = 0
  PROVE  SumFunctionOnSet(f, S) = 0
<1> DEFINE Good == {T \in SUBSET S : SumFunctionOnSet(f, T) = 0}
<1>1. {} \in Good
  BY SumEmpty
<1>2. ASSUME NEW T \in SUBSET S, T # {}, \A x \in T : T \ {x} \in Good
      PROVE  T \in Good
  <2>1. PICK x \in T : TRUE
    BY <1>2
  <2>2. IsFiniteSet(T) /\ \A y \in T : f[y] \in Int
    BY FS_Subset
  <2>3. SumFunctionOnSet(f, T) = f[x] + SumFunctionOnSet(f, T \ {x})
    BY <2>1, <2>2, SumRemove
  <2> QED
    BY <1>2, <2>1, <2>3
<1> HIDE DEF Good
<1>3. \A T \in SUBSET S : T \in Good
  BY <1>1, <1>2, FiniteInduction
<1> QED
  BY <1>3 DEF Good

\* What is added up by a key, and then over the keys, is what is added up at once.
LEMMA SumByKey ==
  ASSUME NEW S, IsFiniteSet(S), NEW f, \A x \in S : f[x] \in Int,
         NEW K, IsFiniteSet(K), NEW key, \A x \in S : key[x] \in K
  PROVE  SumFunctionOnSet([k \in K |-> SumFunctionOnSet(f, {x \in S : key[x] = k})], K) = SumFunctionOnSet(f, S)
<1> DEFINE Of(T, k) == {x \in T : key[x] = k}
           parts(T) == [k \in K |-> SumFunctionOnSet(f, Of(T, k))]
           Good == {T \in SUBSET S : SumFunctionOnSet(parts(T), K) = SumFunctionOnSet(f, T)}
<1>0. \A T \in SUBSET S : \A k : /\ Of(T, k) \in SUBSET S /\ IsFiniteSet(Of(T, k))
                                 /\ SumFunctionOnSet(f, Of(T, k)) \in Int
  <2> TAKE T \in SUBSET S
  <2> TAKE k
  <2>1. Of(T, k) \in SUBSET S
    OBVIOUS
  <2> HIDE DEF Of
  <2>2. IsFiniteSet(Of(T, k)) /\ \A x \in Of(T, k) : f[x] \in Int
    BY <2>1, FS_Subset
  <2> QED BY <2>1, <2>2, SumInt
<1>1. {} \in Good
  <2>1. \A k \in K : parts({})[k] = 0
    <3>1. \A k : Of({}, k) = {}
      OBVIOUS
    <3> HIDE DEF Of
    <3> QED BY <3>1, SumEmpty
  <2> HIDE DEF parts
  <2>2. SumFunctionOnSet(parts({}), K) = 0
    BY <2>1, SumZero
  <2> QED BY <2>2, SumEmpty
<1>2. ASSUME NEW T \in SUBSET S, T # {}, \A x \in T : T \ {x} \in Good
      PROVE  T \in Good
  <2>1. PICK x \in T : TRUE
    BY <1>2
  <2> DEFINE U == T \ {x}
             q == key[x]
  <2>2. U \in SUBSET S /\ IsFiniteSet(T) /\ \A y \in T : f[y] \in Int
    BY FS_Subset
  <2>3. SumFunctionOnSet(f, T) = f[x] + SumFunctionOnSet(f, U)
    BY <2>1, <2>2, SumRemove
  <2>4. \A k \in K \ {q} : parts(T)[k] = parts(U)[k]
    <3>1. \A k \in K \ {q} : Of(T, k) = Of(U, k)
      OBVIOUS
    <3> HIDE DEF Of
    <3> QED BY <3>1
  <2>5. parts(T)[q] = f[x] + parts(U)[q]
    <3>1. Of(T, q) \ {x} = Of(U, q) /\ x \in Of(T, q) /\ q \in K /\ Of(T, q) \in SUBSET S
      OBVIOUS
    <3>2. IsFiniteSet(Of(T, q))
      BY <1>0
    <3> HIDE DEF Of, q, U
    <3>3. \A y \in Of(T, q) : f[y] \in Int
      BY <3>1
    <3>4. SumFunctionOnSet(f, Of(T, q)) = f[x] + SumFunctionOnSet(f, Of(T, q) \ {x})
      BY <3>1, <3>2, <3>3, SumRemove
    <3> QED BY <3>1, <3>4
  <2>6. \A k \in K : parts(T)[k] \in Int /\ parts(U)[k] \in Int
    BY <1>0, <2>2
  <2>7. q \in K /\ f[x] \in Int /\ SumFunctionOnSet(parts(U), K) \in Int
    <3>1. q \in K /\ f[x] \in Int
      OBVIOUS
    <3> HIDE DEF parts
    <3> QED BY <2>6, <3>1, SumInt
  <2> HIDE DEF parts, Of, q, U
  <2>8. SumFunctionOnSet(parts(T), K) = SumFunctionOnSet(parts(U), K) - parts(U)[q] + parts(T)[q]
    <3> DEFINE before == parts(U)
               after == parts(T)
    <3>1. (\A k \in K : before[k] \in Int /\ after[k] \in Int) /\ (\A k \in K \ {q} : after[k] = before[k])
      BY <2>4, <2>6
    <3> HIDE DEF before, after
    <3>2. SumFunctionOnSet(after, K) = SumFunctionOnSet(before, K) - before[q] + after[q]
      BY <2>7, <3>1, SumChange
    <3> QED BY <3>2 DEF before, after
  <2>9. SumFunctionOnSet(parts(U), K) = SumFunctionOnSet(f, U)
    BY <1>2, <2>1 DEF U
  <2>10. parts(U)[q] \in Int
    BY <2>6, <2>7
  <2>11. SumFunctionOnSet(parts(T), K) = SumFunctionOnSet(f, T)
    BY <2>3, <2>5, <2>7, <2>8, <2>9, <2>10
  <2> QED BY <2>11
<1> HIDE DEF Good
<1>3. S \in Good
  BY <1>1, <1>2, FiniteInduction
<1> QED
  BY <1>3, Zenon DEF Good, parts, Of

\* As many as there are of a kind among some, counted one by one.
LEMMA SumOfOnes ==
  ASSUME NEW S, IsFiniteSet(S), NEW W, NEW f, \A x \in S : f[x] = IF x \in W THEN 1 ELSE 0
  PROVE  SumFunctionOnSet(f, S) = Cardinality({x \in S : x \in W})
<1> DEFINE In(T) == {x \in T : x \in W}
           Good == {T \in SUBSET S : SumFunctionOnSet(f, T) = Cardinality(In(T))}
<1>1. {} \in Good
  <2>1. In({}) = {}
    OBVIOUS
  <2> HIDE DEF In
  <2> QED BY <2>1, SumEmpty, FS_EmptySet
<1>2. ASSUME NEW T \in SUBSET S, T # {}, \A x \in T : T \ {x} \in Good
      PROVE  T \in Good
  <2>1. PICK x \in T : TRUE
    BY <1>2
  <2>2. IsFiniteSet(T) /\ (\A y \in T : f[y] \in Int) /\ IsFiniteSet(In(T))
    <3>1. In(T) \in SUBSET S
      OBVIOUS
    <3> HIDE DEF In
    <3> QED BY <3>1, FS_Subset
  <2>3. SumFunctionOnSet(f, T) = f[x] + SumFunctionOnSet(f, T \ {x})
    BY <2>1, <2>2, SumRemove
  <2>4. In(T \ {x}) = In(T) \ {x} /\ (x \in In(T) <=> x \in W)
    OBVIOUS
  <2>5. SumFunctionOnSet(f, T \ {x}) = Cardinality(In(T \ {x}))
    BY <1>2, <2>1
  <2> HIDE DEF In
  <2>6. Cardinality(In(T)) \in Nat /\ Cardinality(In(T) \ {x}) = IF x \in W THEN Cardinality(In(T)) - 1 ELSE Cardinality(In(T))
    BY <2>2, <2>4, FS_RemoveElement, FS_CardinalityType
  <2>7. f[x] = IF x \in W THEN 1 ELSE 0
    OBVIOUS
  <2>8. SumFunctionOnSet(f, T) = f[x] + Cardinality(In(T) \ {x})
    BY <2>3, <2>4, <2>5
  <2>9. f[x] + Cardinality(In(T) \ {x}) = Cardinality(In(T))
    BY <2>6, <2>7
  <2> QED BY <2>8, <2>9
<1> HIDE DEF Good
<1>3. S \in Good
  BY <1>1, <1>2, FiniteInduction
<1> QED
  BY <1>3, Zenon DEF Good, In

\* A sum over two parts.
LEMMA SumSplit ==
  ASSUME NEW S, IsFiniteSet(S), NEW f, \A x \in S : f[x] \in Int, NEW A, NEW B, A \cup B = S, A \cap B = {}
  PROVE  SumFunctionOnSet(f, S) = SumFunctionOnSet(f, A) + SumFunctionOnSet(f, B)
<1> DEFINE Sum(T) == SumFunctionOnSet(f, T)
           Good == {T \in SUBSET A : Sum(B \cup T) = Sum(T) + Sum(B)}
<1>0. /\ IsFiniteSet(A) /\ IsFiniteSet(B) /\ Sum(B) \in Int
      /\ \A T \in SUBSET S : IsFiniteSet(T) /\ Sum(T) \in Int
  <2>1. \A T \in SUBSET S : IsFiniteSet(T) /\ Sum(T) \in Int
    BY FS_Subset, SumInt
  <2> HIDE DEF Sum
  <2> QED BY <2>1
<1>1. {} \in Good
  BY <1>0, SumEmpty
<1>2. ASSUME NEW T \in SUBSET A, T # {}, \A x \in T : T \ {x} \in Good
      PROVE  T \in Good
  <2>1. PICK x \in T : TRUE
    BY <1>2
  <2>2. T \in SUBSET S /\ B \cup T \in SUBSET S /\ (B \cup T) \ {x} = B \cup (T \ {x}) /\ T \ {x} \in SUBSET S
    BY <2>1
  <2>3. Sum(B \cup T) = f[x] + Sum((B \cup T) \ {x})
    BY <1>0, <2>1, <2>2, SumRemove
  <2>4. Sum(T) = f[x] + Sum(T \ {x})
    BY <1>0, <2>1, <2>2, SumRemove
  <2>5. Sum(B \cup (T \ {x})) = Sum(T \ {x}) + Sum(B)
    BY <1>2, <2>1
  <2>6. f[x] \in Int /\ Sum(T \ {x}) \in Int /\ Sum(B) \in Int
    BY <1>0, <2>2
  <2> HIDE DEF Sum
  <2>7. Sum(B \cup T) = f[x] + (Sum(T \ {x}) + Sum(B))
    BY <2>2, <2>3, <2>5
  <2>8. Sum(B \cup T) = Sum(T) + Sum(B)
    BY <2>4, <2>6, <2>7
  <2> QED BY <2>8
<1> HIDE DEF Good
<1>3. A \in Good
  BY <1>0, <1>1, <1>2, FiniteInduction
<1>4. B \cup A = S
  OBVIOUS
<1> QED
  BY <1>3, <1>4 DEF Good

\* A finite set of integers that is not empty has a greatest and a least.
LEMMA FiniteIntegers ==
  ASSUME NEW S, IsFiniteSet(S), S # {}, S \subseteq Int
  PROVE  (\E x \in S : \A y \in S : x >= y) /\ (\E x \in S : \A y \in S : x <= y)
<1> DEFINE G == {T \in SUBSET S : T = {} \/ ((\E x \in T : \A y \in T : x >= y) /\ (\E x \in T : \A y \in T : x <= y))}
<1>1. {} \in G
  OBVIOUS
<1>2. ASSUME NEW T \in SUBSET S, T # {}, \A x \in T : T \ {x} \in G PROVE T \in G
  <2>1. PICK x \in T : T \ {x} \in G
    BY <1>2
  <2>2. CASE T \ {x} = {}
    <3>1. \A y \in T : x >= y /\ x <= y
      BY <2>2
    <3> QED BY <3>1
  <2>3. CASE T \ {x} # {}
    <3>1. PICK hi \in T \ {x} : \A y \in T \ {x} : hi >= y
      BY <2>1, <2>3
    <3>2. PICK lo \in T \ {x} : \A y \in T \ {x} : lo <= y
      BY <2>1, <2>3
    <3>3. \E z \in T : \A y \in T : z >= y
      <4>1. CASE hi >= x
        <5>1. \A y \in T : hi >= y
          BY <3>1, <4>1
        <5> QED BY <5>1
      <4>2. CASE ~ (hi >= x)
        <5>1. \A y \in T : x >= y
          BY <3>1, <4>2
        <5> QED BY <5>1
      <4> QED BY <4>1, <4>2
    <3>4. \E z \in T : \A y \in T : z <= y
      <4>1. CASE lo <= x
        <5>1. \A y \in T : lo <= y
          BY <3>2, <4>1
        <5> QED BY <5>1
      <4>2. CASE ~ (lo <= x)
        <5>1. \A y \in T : x <= y
          BY <3>2, <4>2
        <5> QED BY <5>1
      <4> QED BY <4>1, <4>2
    <3> QED BY <3>3, <3>4
  <2> QED BY <2>2, <2>3
<1>3. S \in G
  <2> HIDE DEF G
  <2> QED BY <1>1, <1>2, FiniteInduction
<1> QED BY <1>3

\* What a function takes on a finite set is finite.
LEMMA FiniteValues ==
  ASSUME NEW S, IsFiniteSet(S), NEW f
  PROVE  IsFiniteSet({f[x] : x \in S})
<1> DEFINE T == {f[x] : x \in S}
           g == [x \in S |-> f[x]]
<1>1. g \in Surjection(S, T)
  BY DEF Surjection
<1> HIDE DEF g, T
<1> QED BY <1>1, FS_Surjection DEF T
=============================================================================
