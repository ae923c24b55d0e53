-------------------------- MODULE AlgorithmsProofs ----------------------------
(***************************************************************************)
(* The strategies, the simulators, the searches and the pages, for any     *)
(* bars, tapes, trades, scores, prices and selections: a strategy says of  *)
(* a bar what it said when it was the last, a backtest's cash is what its  *)
(* trades brought, the shared pool's ceiling is exact, the leaderboard has *)
(* the best results, the learner's values stay in range, the figures of    *)
(* the page are those of the trades, and a page shows what is selected.    *)
(***************************************************************************)
EXTENDS MCAlgorithms, SumTheorems, SequenceTheorems

(***************************************************************************)
(* Rankings, recursion and finite sets of integers                         *)
(***************************************************************************)

\* R orders S, strictly and totally; rank gives each element its place.
Orders(R, S) ==
  /\ \A x \in S : <<x, x>> \notin R
  /\ \A x, y, z \in S : <<x, y>> \in R /\ <<y, z>> \in R => <<x, z>> \in R
  /\ \A x, y \in S : x # y => <<x, y>> \in R \/ <<y, x>> \in R
Places(rank, R, S) == \A x \in S : rank[x] = 1 + Cardinality({y \in S : <<y, x>> \in R})

\* The places a finite set's elements take in a strict total order are the numbers from 1
\* to as many as there are, each taken once, and in the order's own order.
LEMMA Ranking ==
  ASSUME NEW S, IsFiniteSet(S), NEW R,
         Orders(R, S), NEW rank, Places(rank, R, S)
  PROVE  /\ \A x \in S : rank[x] \in 1 .. Cardinality(S)
         /\ \A x, y \in S : <<x, y>> \in R <=> rank[x] < rank[y]
         /\ \A k \in 1 .. Cardinality(S) : \E x \in S : rank[x] = k
         /\ \A x, y \in S : rank[x] = rank[y] => x = y
<1> USE DEF Orders, Places
<1> DEFINE Before(x) == {y \in S : <<y, x>> \in R}
           n == Cardinality(S)
           place == [x \in S |-> 1 + Cardinality(Before(x))]
<1>0. n \in Nat /\ \A x \in S : Cardinality(Before(x)) \in Nat /\ IsFiniteSet(Before(x))
  BY FS_Subset, FS_CardinalityType
<1>1. ASSUME NEW x \in S PROVE Cardinality(Before(x)) < n
  <2>1. Before(x) \in SUBSET S /\ x \notin Before(x)
    OBVIOUS
  <2>2. Cardinality(Before(x)) <= n /\ Cardinality(Before(x)) # n
    <3> HIDE DEF Before
    <3> QED BY <2>1, FS_Subset
  <2> QED
    BY <1>0, <2>2
<1>2. ASSUME NEW x \in S, NEW y \in S, <<x, y>> \in R
      PROVE  Cardinality(Before(x)) < Cardinality(Before(y))
  <2>1. Before(x) \in SUBSET Before(y) /\ x \in Before(y) /\ x \notin Before(x)
    BY <1>2
  <2>2. Cardinality(Before(x)) <= Cardinality(Before(y)) /\ Cardinality(Before(x)) # Cardinality(Before(y))
    <3>1. IsFiniteSet(Before(y))
      BY <1>0
    <3> HIDE DEF Before
    <3> QED BY <2>1, <3>1, FS_Subset
  <2> QED
    BY <1>0, <2>2
<1>3. \A x \in S : rank[x] = place[x] /\ place[x] = 1 + Cardinality(Before(x))
  OBVIOUS
<1>4. place \in [S -> 1 .. n]
  <2>1. \A x \in S : 1 + Cardinality(Before(x)) \in 1 .. n
    BY <1>0, <1>1
  <2> HIDE DEF Before, n
  <2> QED BY <2>1
<1> HIDE DEF Before, n, place
<1>5. \A x, y \in S : <<x, y>> \in R <=> place[x] < place[y]
  <2> SUFFICES ASSUME NEW x \in S, NEW y \in S PROVE <<x, y>> \in R <=> place[x] < place[y]
    OBVIOUS
  <2>1. CASE <<x, y>> \in R
    BY <1>0, <1>2, <1>3, <2>1
  <2>2. CASE <<y, x>> \in R
    BY <1>0, <1>2, <1>3, <2>2
  <2>3. CASE x = y
    BY <1>0, <1>3, <2>3
  <2> QED
    BY <2>1, <2>2, <2>3
<1>6. \A k \in 1 .. n : \E x \in S : place[x] = k
  <2>1. place \in Injection(S, 1 .. n)
    <3>1. ASSUME NEW x \in S, NEW y \in S, place[x] = place[y], x # y PROVE FALSE
      BY <1>4, <1>5, <3>1
    <3> QED BY <1>4, <3>1 DEF Injection, IsInjective
  <2>2. IsFiniteSet(1 .. n) /\ Cardinality(1 .. n) = n
    BY <1>0, FS_Interval
  <2>3. place \in Surjection(S, 1 .. n)
    BY <2>1, <2>2, FS_Injection DEF n
  <2> QED
    BY <2>3 DEF Surjection
<1>7. \A x, y \in S : place[x] = place[y] => x = y
  BY <1>0, <1>3, <1>5
<1> QED
  BY <1>3, <1>4, <1>5, <1>6, <1>7 DEF n

\* f starts at p with base, and goes on to n by the steps G, which stay in V.
Steps(G, V, p, n) == \A i \in p + 1 .. n : \A v \in V : G[<<i, v>>] \in V
Follows(f, base, G, p, n) == \A i \in p .. n : f[i] = IF i = p THEN base ELSE G[<<i, f[i - 1]>>]

\* A function defined by recursion over an interval exists, when each step stays in V.
LEMMA Recursion ==
  ASSUME NEW V, NEW p \in Int, NEW n \in Int, NEW base \in V, NEW G, Steps(G, V, p, n)
  PROVE  \E f \in [p .. n -> V] : Follows(f, base, G, p, n)
<1> USE DEF Steps, Follows
<1> DEFINE Solves(f, m) == /\ f \in [p .. p + m -> V]
                           /\ \A i \in p .. p + m : f[i] = IF i = p THEN base ELSE G[<<i, f[i - 1]>>]
           Good == {m \in Nat : p + m <= n => \E f : Solves(f, m)}
<1>1. 0 \in Good
  <2>1. Solves([i \in p .. p |-> base], 0)
    OBVIOUS
  <2> QED BY <2>1
<1>2. ASSUME NEW m \in Nat, m \in Good PROVE m + 1 \in Good
  <2> HIDE DEF Solves
  <2> SUFFICES ASSUME p + (m + 1) <= n PROVE \E f : Solves(f, m + 1)
    OBVIOUS
  <2> USE DEF Solves
  <2>1. PICK f : Solves(f, m)
    BY <1>2
  <2> DEFINE q == p + m + 1
             g == [i \in p .. p + (m + 1) |-> IF i = q THEN G[<<q, f[p + m]>>] ELSE f[i]]
  <2>2. G[<<q, f[p + m]>>] \in V
    <3>1. p + m \in p .. p + m /\ q \in p + 1 .. n
      OBVIOUS
    <3> QED BY <2>1, <3>1
  <2>3. g \in [p .. p + (m + 1) -> V]
    <3>1. \A i \in p .. p + (m + 1) : i # q => i \in p .. p + m
      OBVIOUS
    <3> QED BY <2>1, <2>2, <3>1
  <2>4. ASSUME NEW i \in p .. p + (m + 1)
        PROVE  g[i] = IF i = p THEN base ELSE G[<<i, g[i - 1]>>]
    <3>1. CASE i = q
      <4>1. q # p /\ q - 1 = p + m /\ p + m # q /\ p + m \in p .. p + (m + 1)
        OBVIOUS
      <4>2. g[q] = G[<<q, f[p + m]>>] /\ g[q - 1] = f[p + m]
        BY <4>1, <3>1
      <4> HIDE DEF g, q
      <4> QED BY <3>1, <4>1, <4>2
    <3>2. CASE i # q
      <4>1. i \in p .. p + m /\ (i # p => i - 1 \in p .. p + m /\ i - 1 # q)
        BY <3>2
      <4>2. g[i] = f[i] /\ (i # p => g[i - 1] = f[i - 1])
        BY <3>2, <4>1
      <4>3. f[i] = IF i = p THEN base ELSE G[<<i, f[i - 1]>>]
        BY <2>1, <4>1
      <4> HIDE DEF g
      <4> QED BY <4>2, <4>3
    <3> QED BY <3>1, <3>2
  <2>5. Solves(g, m + 1)
    <3> HIDE DEF g
    <3> QED BY <2>3, <2>4
  <2> QED BY <2>5
<1>3. Nat \subseteq Good
  <2> HIDE DEF Good
  <2> QED BY <1>1, <1>2, NaturalInduction
<1>4. CASE n < p
  <2>1. p .. n = {}
    BY <1>4
  <2>2. [i \in p .. n |-> base] \in [p .. n -> V]
    OBVIOUS
  <2> QED BY <2>1, <2>2
<1>5. CASE n >= p
  <2>1. n - p \in Nat /\ p + (n - p) = n
    BY <1>5
  <2>2. n - p \in Good
    BY <1>3, <2>1
  <2>3. PICK f : Solves(f, n - p)
    BY <2>1, <2>2
  <2>4. f \in [p .. n -> V] /\ \A i \in p .. n : f[i] = IF i = p THEN base ELSE G[<<i, f[i - 1]>>]
    BY <2>1, <2>3
  <2> QED BY <2>4
<1> QED BY <1>4, <1>5

\* So Max and Min of the community modules are among its members, and bound them.
LEMMA MaxFacts ==
  ASSUME NEW S, IsFiniteSet(S), S # {}, S \subseteq Int
  PROVE  Max(S) \in S /\ Min(S) \in S /\ \A y \in S : y <= Max(S) /\ Min(S) <= y
<1>1. (\E x \in S : \A y \in S : x >= y) /\ (\E x \in S : \A y \in S : x <= y)
  BY FiniteIntegers
<1>2. Max(S) \in S /\ \A y \in S : Max(S) >= y
  BY <1>1 DEF Max
<1>3. Min(S) \in S /\ \A y \in S : Min(S) <= y
  BY <1>1 DEF Min
<1>4. \A y \in S : y \in Int /\ Max(S) \in Int
  BY <1>2
<1> QED BY <1>2, <1>3, <1>4

(***************************************************************************)
(* The indicators and the strategies                                       *)
(* Everything a strategy reads of two histories is the same as far as the  *)
(* histories are: the indicators first, then the windows, then the rules.  *)
(***************************************************************************)

\* The periods are positive, and as long in the instance as they are in the code, compared
\* with each other.
LEMMA Periods ==
  /\ \A n \in {2, 3, 5, 6, 9, 10, 12, 13, 14, 15, 20, 21, 22, 25, 26, 30, 35, 40, 50, 200} : P(n) \in Nat \ {0}
  /\ P(12) <= P(26) /\ P(2) <= P(30) /\ P(5) <= P(30) /\ P(5) <= P(15) /\ P(13) <= P(30) /\ P(15) <= P(30)
  /\ P(5) <= P(40) /\ P(10) <= P(40) /\ P(25) <= P(40) /\ P(30) <= P(40) /\ P(35) <= P(40)
  /\ P(20) <= P(21) /\ P(20) <= P(22)
<1>1. \A n \in {2, 3, 5, 6, 9, 10, 12, 13, 14, 15, 20, 21, 22, 25, 26, 30, 35, 40, 50, 200} : n \in 1 .. 40 \cup {50, 200}
  OBVIOUS
<1>2. \A n \in 1 .. 40 \cup {50, 200} : P(n) \in Nat \ {0}
  BY FeedAssumption
<1>3. \A m, n \in 1 .. 40 : m <= n => P(m) <= P(n)
  BY FeedAssumption
<1>4. {2, 5, 10, 12, 13, 15, 20, 21, 22, 25, 26, 30, 35, 40} \subseteq 1 .. 40
  OBVIOUS
<1> QED BY <1>1, <1>2, <1>3, <1>4

\* Two functions are alike up to n: defined at the same of the first n, with the same values.
Alike(f, g, n) ==
  /\ 0 \notin DOMAIN f /\ 0 \notin DOMAIN g
  /\ \A j \in 1 .. n : (j \in DOMAIN f <=> j \in DOMAIN g) /\ (j \in DOMAIN f => f[j] = g[j])

\* Two sequences of which the first n are the same.
Same(s, t, n) ==
  /\ Len(s) \in Nat /\ DOMAIN s = 1 .. Len(s) /\ Len(t) \in Nat /\ DOMAIN t = 1 .. Len(t)
  /\ n \in Int /\ n <= Len(s) /\ n <= Len(t)
  /\ \A j \in 1 .. n : s[j] = t[j]

Numbers(s) == \A j \in 1 .. Len(s) : s[j] \in Int
Changes(g, h, k, l, n) ==
  (\A j \in 2 .. k : g[j] \in Int) /\ (\A j \in 2 .. l : h[j] \in Int) /\ \A j \in 2 .. n : g[j] = h[j]

\* A moving average of two histories that agree up to bar n agrees up to bar n.
LEMMA SMAAlike ==
  ASSUME NEW s, NEW t, NEW n, Same(s, t, n), NEW p \in Nat \ {0}
  PROVE  /\ Alike(SMA(s, p), SMA(t, p), n)
         /\ DOMAIN SMA(s, p) = p .. Len(s)
<1> USE DEF Same
<1>1. DOMAIN SMA(s, p) = p .. Len(s) /\ DOMAIN SMA(t, p) = p .. Len(t)
  BY DEF SMA
<1>2. ASSUME NEW i \in p .. n PROVE SMA(s, p)[i] = SMA(t, p)[i]
  <2> DEFINE W == i - p + 1 .. i
             f == [j \in W |-> s[j]]
             g == [j \in W |-> t[j]]
  <2>1. W \subseteq 1 .. n
    OBVIOUS
  <2>2. f = g
    BY <2>1
  <2>3. SMA(s, p)[i] = SumFunctionOnSet(f, W) \div p /\ SMA(t, p)[i] = SumFunctionOnSet(g, W) \div p
    BY DEF SMA, SumOver
  <2> HIDE DEF f, g, W
  <2> QED BY <2>2, <2>3
<1>3. \A j \in 1 .. n : (j \in p .. Len(s) <=> j \in p .. n) /\ (j \in p .. Len(t) <=> j \in p .. n)
  OBVIOUS
<1> QED BY <1>1, <1>2, <1>3 DEF Alike

\* The average of the first p values seeds the recursion.
LEMMA EMAFacts ==
  ASSUME NEW s, Len(s) \in Nat, DOMAIN s = 1 .. Len(s), \A j \in 1 .. Len(s) : s[j] \in Int, NEW p \in Nat \ {0}
  PROVE  /\ EMA(s, p) \in [p .. Len(s) -> Int]
         /\ p <= Len(s) => EMA(s, p)[p] = SumFunctionOnSet([j \in 1 .. p |-> s[j]], 1 .. p) \div p
         /\ \A i \in p + 1 .. Len(s) : EMA(s, p)[i] = (2 * s[i] + (p - 1) * EMA(s, p)[i - 1]) \div (p + 1)
<1> DEFINE n == Len(s)
           seed == SumFunctionOnSet([j \in 1 .. p |-> s[j]], 1 .. p) \div p
           Body(w) == [i \in p .. n |-> IF i = p THEN seed ELSE (2 * s[i] + (p - 1) * w[i - 1]) \div (p + 1)]
<1>1. EMA(s, p) = CHOOSE w : w = Body(w)
  BY DEF EMA, SumOver
<1>2. CASE p > n
  <2>1. p .. n = {}
    BY <1>2
  <2>2. \A v, w : Body(v) = Body(w)
    BY <2>1
  <2>3. Body(s) = Body(Body(s))
    BY <2>2
  <2>4. EMA(s, p) = Body(EMA(s, p))
    <3> HIDE DEF Body
    <3> QED BY <1>1, <2>3
  <2>5. DOMAIN Body(EMA(s, p)) = {} /\ EMA(s, p) \in [{} -> Int]
    <3> DEFINE w == EMA(s, p)
    <3>1. w = Body(w)
      BY <2>4
    <3> HIDE DEF w
    <3>2. w \in [p .. n -> Int]
      BY <2>1, <3>1
    <3> QED BY <2>1, <3>2 DEF w
  <2>6. p + 1 .. n = {} /\ ~ (p <= n)
    BY <1>2
  <2> QED BY <2>1, <2>5, <2>6
<1>3. CASE p <= n
  <2>1. seed \in Int
    <3> DEFINE f == [j \in 1 .. p |-> s[j]]
    <3>1. \A j \in 1 .. p : f[j] \in Int
      BY <1>3
    <3>2. IsFiniteSet(1 .. p)
      BY FS_Interval
    <3> HIDE DEF f
    <3>3. SumFunctionOnSet(f, 1 .. p) \in Int
      BY <3>1, <3>2, SumInt
    <3>4. SumFunctionOnSet(f, 1 .. p) \div p \in Int
      BY <3>3
    <3> QED BY <3>4 DEF f
  <2> HIDE DEF seed
  <2> DEFINE G == [u \in (p + 1 .. n) \X Int |-> (2 * s[u[1]] + (p - 1) * u[2]) \div (p + 1)]
  <2>2. \A i \in p + 1 .. n : \A v \in Int : G[<<i, v>>] = (2 * s[i] + (p - 1) * v) \div (p + 1) /\ G[<<i, v>>] \in Int
    <3> TAKE i \in p + 1 .. n
    <3> TAKE v \in Int
    <3>1. s[i] \in Int /\ <<i, v>> \in (p + 1 .. n) \X Int
      BY <1>3
    <3>2. G[<<i, v>>] = (2 * s[i] + (p - 1) * v) \div (p + 1)
      BY <3>1
    <3>3. 2 * s[i] + (p - 1) * v \in Int /\ p + 1 \in Nat \ {0}
      BY <3>1
    <3>4. (2 * s[i] + (p - 1) * v) \div (p + 1) \in Int
      BY <3>3
    <3> QED BY <3>2, <3>4
  <2> HIDE DEF G
  <2>3. PICK f \in [p .. n -> Int] : Follows(f, seed, G, p, n)
    <3>1. Steps(G, Int, p, n)
      BY <2>2 DEF Steps
    <3>2. p \in Int /\ n \in Int
      OBVIOUS
    <3> HIDE DEF n
    <3> QED BY ONLY <2>1, <3>1, <3>2, Recursion
  <2>4. f = Body(f)
    <3>1. ASSUME NEW i \in p .. n PROVE f[i] = Body(f)[i]
      <4>1. f[i] = IF i = p THEN seed ELSE G[<<i, f[i - 1]>>]
        BY <2>3 DEF Follows
      <4>2. i # p => i \in p + 1 .. n /\ i - 1 \in p .. n /\ f[i - 1] \in Int
        OBVIOUS
      <4>3. i # p => G[<<i, f[i - 1]>>] = (2 * s[i] + (p - 1) * f[i - 1]) \div (p + 1)
        BY <2>2, <4>2
      <4>4. Body(f)[i] = IF i = p THEN seed ELSE (2 * s[i] + (p - 1) * f[i - 1]) \div (p + 1)
        OBVIOUS
      <4> HIDE DEF Body
      <4> QED BY <4>1, <4>3, <4>4
    <3> HIDE DEF n
    <3> QED BY <3>1
  <2>5. EMA(s, p) = Body(EMA(s, p))
    <3> HIDE DEF Body
    <3> QED BY <1>1, <2>4
  <2> DEFINE w == EMA(s, p)
  <2>6. w = Body(w)
    BY <2>5
  <2> HIDE DEF w
  <2>7. w = [i \in p .. n |-> w[i]]
    BY <2>6
  <2>8. /\ w[p] = seed
        /\ \A i \in p + 1 .. n : w[i] = (2 * s[i] + (p - 1) * w[i - 1]) \div (p + 1)
    <3>1. \A i \in p .. n : w[i] = IF i = p THEN seed ELSE (2 * s[i] + (p - 1) * w[i - 1]) \div (p + 1)
      BY <2>6
    <3>2. p \in p .. n /\ \A i \in p + 1 .. n : i \in p .. n /\ i # p
      BY <1>3
    <3> HIDE DEF Body
    <3> QED BY <3>1, <3>2
  <2>9. \A i \in p .. n : w[i] \in Int
    <3> DEFINE Good == {k \in Nat : p + k <= n => w[p + k] \in Int}
    <3>1. 0 \in Good
      BY <2>1, <2>8
    <3>2. ASSUME NEW k \in Nat, k \in Good PROVE k + 1 \in Good
      <4> SUFFICES ASSUME p + (k + 1) <= n PROVE w[p + (k + 1)] \in Int
        OBVIOUS
      <4> DEFINE i == p + (k + 1)
      <4>1. i \in p + 1 .. n /\ i - 1 = p + k /\ w[i - 1] \in Int
        BY <3>2
      <4> HIDE DEF i
      <4>2. w[i] = (2 * s[i] + (p - 1) * w[i - 1]) \div (p + 1)
        BY <2>8, <4>1
      <4>3. s[i] \in Int
        BY <4>1
      <4>4. 2 * s[i] + (p - 1) * w[i - 1] \in Int /\ p + 1 \in Nat \ {0}
        BY <4>1, <4>3
      <4>5. w[i] \in Int
        BY <4>2, <4>4
      <4> QED BY <4>5 DEF i
    <3>3. Nat \subseteq Good
      <4> HIDE DEF Good
      <4> QED BY <3>1, <3>2, NaturalInduction
    <3>4. ASSUME NEW i \in p .. n PROVE w[i] \in Int
      <4> DEFINE k == i - p
      <4>1. k \in Nat /\ p + k = i /\ p + k <= n
        OBVIOUS
      <4> HIDE DEF k
      <4>2. k \in Good
        BY <3>3, <4>1
      <4>3. w[p + k] \in Int
        BY <4>1, <4>2
      <4> QED BY <4>1, <4>3
    <3> QED BY <3>4
  <2>10. w \in [p .. n -> Int]
    BY <2>7, <2>9
  <2> QED BY <2>8, <2>10 DEF w, seed
<1> QED BY <1>2, <1>3

\* So does an exponential average, by the recursion: its seed, and then each bar from the one before.
LEMMA EMAAlike ==
  ASSUME NEW s, NEW t, NEW n, Same(s, t, n), NEW p \in Nat \ {0},
         Numbers(s), Numbers(t)
  PROVE  /\ Alike(EMA(s, p), EMA(t, p), n)
         /\ EMA(s, p) \in [p .. Len(s) -> Int] /\ EMA(t, p) \in [p .. Len(t) -> Int]
<1> DEFINE v == EMA(s, p)
           w == EMA(t, p)
<1> USE DEF Same, Numbers
<1>1. /\ v \in [p .. Len(s) -> Int]
      /\ p <= Len(s) => v[p] = SumFunctionOnSet([j \in 1 .. p |-> s[j]], 1 .. p) \div p
      /\ \A i \in p + 1 .. Len(s) : v[i] = (2 * s[i] + (p - 1) * v[i - 1]) \div (p + 1)
  BY EMAFacts
<1>2. /\ w \in [p .. Len(t) -> Int]
      /\ p <= Len(t) => w[p] = SumFunctionOnSet([j \in 1 .. p |-> t[j]], 1 .. p) \div p
      /\ \A i \in p + 1 .. Len(t) : w[i] = (2 * t[i] + (p - 1) * w[i - 1]) \div (p + 1)
  BY EMAFacts
<1> HIDE DEF v, w
<1> DEFINE Good == {k \in Nat : p + k <= n => v[p + k] = w[p + k]}
<1>3. 0 \in Good
  <2> SUFFICES ASSUME p <= n PROVE v[p] = w[p]
    OBVIOUS
  <2> DEFINE f == [j \in 1 .. p |-> s[j]]
             g == [j \in 1 .. p |-> t[j]]
  <2>1. f = g
    OBVIOUS
  <2>2. v[p] = SumFunctionOnSet(f, 1 .. p) \div p /\ w[p] = SumFunctionOnSet(g, 1 .. p) \div p
    BY <1>1, <1>2
  <2> HIDE DEF f, g
  <2> QED BY <2>1, <2>2
<1>4. ASSUME NEW k \in Nat, k \in Good PROVE k + 1 \in Good
  <2> SUFFICES ASSUME p + (k + 1) <= n PROVE v[p + (k + 1)] = w[p + (k + 1)]
    OBVIOUS
  <2> DEFINE i == p + (k + 1)
  <2>1. i \in p + 1 .. Len(s) /\ i \in p + 1 .. Len(t) /\ i \in 1 .. n /\ i - 1 = p + k /\ v[i - 1] = w[i - 1]
    BY <1>4
  <2> HIDE DEF i
  <2>2. v[i] = w[i]
    BY <1>1, <1>2, <2>1
  <2> QED BY <2>2 DEF i
<1>5. Nat \subseteq Good
  <2> HIDE DEF Good
  <2> QED BY <1>3, <1>4, NaturalInduction
<1>6. \A j \in p .. n : v[j] = w[j]
  <2> TAKE j \in p .. n
  <2> DEFINE k == j - p
  <2>1. k \in Nat /\ p + k = j /\ p + k <= n
    OBVIOUS
  <2> HIDE DEF k
  <2>2. v[p + k] = w[p + k]
    BY <1>5, <2>1
  <2> QED BY <2>1, <2>2
<1>7. \A j \in 1 .. n : (j \in p .. Len(s) <=> j \in p .. n) /\ (j \in p .. Len(t) <=> j \in p .. n)
  OBVIOUS
<1>8. Alike(v, w, n)
  BY <1>1, <1>2, <1>6, <1>7 DEF Alike
<1> QED BY <1>1, <1>2, <1>8 DEF v, w

\* Wilder's average, which the mean of the first p changes seeds.
LEMMA WilderFacts ==
  ASSUME NEW change, NEW n \in Nat, \A j \in 2 .. n : change[j] \in Int, NEW p \in Nat \ {0}
  PROVE  /\ Wilder(change, n, p) \in [p + 1 .. n -> Int]
         /\ p + 1 <= n => Wilder(change, n, p)[p + 1]
                            = SumFunctionOnSet([j \in 2 .. p + 1 |-> change[j]], 2 .. p + 1) \div p
         /\ \A i \in p + 2 .. n : Wilder(change, n, p)[i] = (Wilder(change, n, p)[i - 1] * (p - 1) + change[i]) \div p
<1> DEFINE q == p + 1
           seed == SumFunctionOnSet([j \in 2 .. q |-> change[j]], 2 .. q) \div p
           Body(w) == [i \in q .. n |-> IF i = q THEN seed ELSE (w[i - 1] * (p - 1) + change[i]) \div p]
<1>1. Wilder(change, n, p) = CHOOSE w : w = Body(w)
  BY DEF Wilder, SumOver
<1>2. CASE q > n
  <2>1. q .. n = {}
    BY <1>2
  <2>2. \A v, w : Body(v) = Body(w)
    BY <2>1
  <2>3. Body(change) = Body(Body(change))
    BY <2>2
  <2>4. Wilder(change, n, p) = Body(Wilder(change, n, p))
    <3> HIDE DEF Body
    <3> QED BY <1>1, <2>3
  <2>5. Wilder(change, n, p) \in [q .. n -> Int]
    <3> DEFINE w == Wilder(change, n, p)
    <3>1. w = Body(w)
      BY <2>4
    <3> HIDE DEF w
    <3>2. w \in [q .. n -> Int]
      BY <2>1, <3>1
    <3> QED BY <3>2 DEF w
  <2>6. p + 2 .. n = {} /\ ~ (p + 1 <= n)
    BY <1>2
  <2> QED BY <2>5, <2>6
<1>3. CASE q <= n
  <2>0. q \in Int /\ n \in Int /\ q \in q .. n /\ p + 2 .. n = q + 1 .. n
        /\ \A i \in q + 1 .. n : i \in q .. n /\ i # q /\ i - 1 \in q .. n /\ i \in 2 .. n
    BY <1>3
  <2>1. seed \in Int
    <3> DEFINE f == [j \in 2 .. q |-> change[j]]
    <3>1. \A j \in 2 .. q : f[j] \in Int
      BY <1>3
    <3>2. IsFiniteSet(2 .. q)
      BY <2>0, FS_Interval
    <3> HIDE DEF f, q
    <3>3. SumFunctionOnSet(f, 2 .. q) \in Int
      BY <3>1, <3>2, SumInt
    <3>4. SumFunctionOnSet(f, 2 .. q) \div p \in Int
      BY <3>3
    <3> QED BY <3>4 DEF f
  <2> HIDE DEF seed
  <2> DEFINE G == [u \in (q + 1 .. n) \X Int |-> (u[2] * (p - 1) + change[u[1]]) \div p]
  <2> HIDE DEF q
  <2>2. \A i \in q + 1 .. n : \A v \in Int : G[<<i, v>>] = (v * (p - 1) + change[i]) \div p /\ G[<<i, v>>] \in Int
    <3> TAKE i \in q + 1 .. n
    <3> TAKE v \in Int
    <3>1. change[i] \in Int /\ <<i, v>> \in (q + 1 .. n) \X Int
      BY <2>0
    <3>2. G[<<i, v>>] = (v * (p - 1) + change[i]) \div p
      BY <3>1
    <3>3. v * (p - 1) + change[i] \in Int
      BY <3>1
    <3>4. (v * (p - 1) + change[i]) \div p \in Int
      BY <3>3
    <3> QED BY <3>2, <3>4
  <2> HIDE DEF G
  <2>3. PICK f \in [q .. n -> Int] : Follows(f, seed, G, q, n)
    <3>1. Steps(G, Int, q, n)
      BY <2>2 DEF Steps
    <3>2. q \in Int /\ n \in Int
      BY <2>0
    <3> QED BY ONLY <2>1, <3>1, <3>2, Recursion
  <2>4. f = Body(f)
    <3>1. ASSUME NEW i \in q .. n PROVE f[i] = Body(f)[i]
      <4>1. f[i] = IF i = q THEN seed ELSE G[<<i, f[i - 1]>>]
        BY <2>3 DEF Follows
      <4>2. i # q => i \in q + 1 .. n /\ i - 1 \in q .. n /\ f[i - 1] \in Int
        BY <2>0
      <4>3. i # q => G[<<i, f[i - 1]>>] = (f[i - 1] * (p - 1) + change[i]) \div p
        BY <2>2, <4>2
      <4>4. Body(f)[i] = IF i = q THEN seed ELSE (f[i - 1] * (p - 1) + change[i]) \div p
        OBVIOUS
      <4> HIDE DEF Body
      <4> QED BY <4>1, <4>3, <4>4
    <3> QED BY <3>1
  <2>5. Wilder(change, n, p) = Body(Wilder(change, n, p))
    <3> HIDE DEF Body
    <3> QED BY <1>1, <2>4
  <2> DEFINE w == Wilder(change, n, p)
  <2>6. w = Body(w)
    BY <2>5
  <2> HIDE DEF w
  <2>7. w = [i \in q .. n |-> w[i]]
    BY <2>6
  <2>8. /\ w[q] = seed
        /\ \A i \in q + 1 .. n : w[i] = (w[i - 1] * (p - 1) + change[i]) \div p
    <3>1. \A i \in q .. n : w[i] = IF i = q THEN seed ELSE (w[i - 1] * (p - 1) + change[i]) \div p
      BY <2>6
    <3> HIDE DEF Body
    <3> QED BY <2>0, <3>1
  <2>9. \A i \in q .. n : w[i] \in Int
    <3> DEFINE Good == {k \in Nat : q + k <= n => w[q + k] \in Int}
    <3>1. 0 \in Good
      BY <2>0, <2>1, <2>8
    <3>2. ASSUME NEW k \in Nat, k \in Good PROVE k + 1 \in Good
      <4> SUFFICES ASSUME q + (k + 1) <= n PROVE w[q + (k + 1)] \in Int
        OBVIOUS
      <4> DEFINE i == q + (k + 1)
      <4>1. i \in q + 1 .. n /\ i - 1 = q + k /\ w[i - 1] \in Int
        BY <2>0, <3>2
      <4> HIDE DEF i
      <4>2. w[i] = (w[i - 1] * (p - 1) + change[i]) \div p
        BY <2>8, <4>1
      <4>3. change[i] \in Int
        BY <2>0, <4>1
      <4>4. w[i - 1] * (p - 1) + change[i] \in Int
        BY <4>1, <4>3
      <4>5. w[i] \in Int
        BY <4>2, <4>4
      <4> QED BY <4>5 DEF i
    <3>3. Nat \subseteq Good
      <4> HIDE DEF Good
      <4> QED BY <3>1, <3>2, NaturalInduction
    <3>4. ASSUME NEW i \in q .. n PROVE w[i] \in Int
      <4> DEFINE k == i - q
      <4>1. k \in Nat /\ q + k = i /\ q + k <= n
        BY <2>0
      <4> HIDE DEF k
      <4>2. k \in Good
        BY <3>3, <4>1
      <4>3. w[q + k] \in Int
        BY <4>1, <4>2
      <4> QED BY <4>1, <4>3
    <3> QED BY <3>4
  <2>10. w \in [q .. n -> Int]
    BY <2>7, <2>9
  <2> QED BY <2>0, <2>8, <2>10 DEF w, seed, q
<1>4. q \in Int
  OBVIOUS
<1> QED BY <1>2, <1>3, <1>4

\* So does Wilder's average of the changes that lead to the bars.
LEMMA WilderAlike ==
  ASSUME NEW g, NEW h, NEW k \in Nat, NEW l \in Nat, NEW n \in Int, n <= k, n <= l, NEW p \in Nat \ {0},
         Changes(g, h, k, l, n)
  PROVE  /\ Alike(Wilder(g, k, p), Wilder(h, l, p), n)
         /\ DOMAIN Wilder(g, k, p) = p + 1 .. k /\ DOMAIN Wilder(h, l, p) = p + 1 .. l
<1> USE DEF Changes
<1> DEFINE v == Wilder(g, k, p)
           w == Wilder(h, l, p)
           q == p + 1
<1>0. q \in Int /\ p + 2 = q + 1 /\ q >= 2
  OBVIOUS
<1>1. /\ v \in [q .. k -> Int]
      /\ q <= k => v[q] = SumFunctionOnSet([j \in 2 .. q |-> g[j]], 2 .. q) \div p
      /\ \A i \in q + 1 .. k : v[i] = (v[i - 1] * (p - 1) + g[i]) \div p
  <2>1. k \in Nat /\ p \in Nat \ {0} /\ \A j \in 2 .. k : g[j] \in Int
    OBVIOUS
  <2>2. /\ v \in [p + 1 .. k -> Int]
        /\ p + 1 <= k => v[p + 1] = SumFunctionOnSet([j \in 2 .. p + 1 |-> g[j]], 2 .. p + 1) \div p
        /\ \A i \in p + 2 .. k : v[i] = (v[i - 1] * (p - 1) + g[i]) \div p
    BY ONLY <2>1, WilderFacts
  <2> HIDE DEF v
  <2>3. p + 2 .. k = q + 1 .. k
    BY <1>0
  <2> QED BY <2>2, <2>3
<1>2. /\ w \in [q .. l -> Int]
      /\ q <= l => w[q] = SumFunctionOnSet([j \in 2 .. q |-> h[j]], 2 .. q) \div p
      /\ \A i \in q + 1 .. l : w[i] = (w[i - 1] * (p - 1) + h[i]) \div p
  <2>1. l \in Nat /\ p \in Nat \ {0} /\ \A j \in 2 .. l : h[j] \in Int
    OBVIOUS
  <2>2. /\ w \in [p + 1 .. l -> Int]
        /\ p + 1 <= l => w[p + 1] = SumFunctionOnSet([j \in 2 .. p + 1 |-> h[j]], 2 .. p + 1) \div p
        /\ \A i \in p + 2 .. l : w[i] = (w[i - 1] * (p - 1) + h[i]) \div p
    BY ONLY <2>1, WilderFacts
  <2> HIDE DEF w
  <2>3. p + 2 .. l = q + 1 .. l
    BY <1>0
  <2> QED BY <2>2, <2>3
<1> HIDE DEF v, w, q
<1> DEFINE Good == {m \in Nat : q + m <= n => v[q + m] = w[q + m]}
<1>3. 0 \in Good
  <2> SUFFICES ASSUME q <= n PROVE v[q] = w[q]
    BY <1>0
  <2> DEFINE a == [j \in 2 .. q |-> g[j]]
             b == [j \in 2 .. q |-> h[j]]
  <2>1. a = b
    BY <1>0
  <2>2. v[q] = SumFunctionOnSet(a, 2 .. q) \div p /\ w[q] = SumFunctionOnSet(b, 2 .. q) \div p
    BY <1>0, <1>1, <1>2
  <2> HIDE DEF a, b
  <2> QED BY <2>1, <2>2
<1>4. ASSUME NEW m \in Nat, m \in Good PROVE m + 1 \in Good
  <2> SUFFICES ASSUME q + (m + 1) <= n PROVE v[q + (m + 1)] = w[q + (m + 1)]
    OBVIOUS
  <2> DEFINE i == q + (m + 1)
  <2>1. i \in q + 1 .. k /\ i \in q + 1 .. l /\ i \in 2 .. n /\ i - 1 = q + m /\ v[i - 1] = w[i - 1]
    BY <1>0, <1>4
  <2> HIDE DEF i
  <2>2. v[i] = w[i]
    BY <1>1, <1>2, <2>1
  <2> QED BY <2>2 DEF i
<1>5. Nat \subseteq Good
  <2> HIDE DEF Good
  <2> QED BY <1>3, <1>4, NaturalInduction
<1>6. \A j \in q .. n : v[j] = w[j]
  <2> TAKE j \in q .. n
  <2> DEFINE m == j - q
  <2>1. m \in Nat /\ q + m = j /\ q + m <= n
    BY <1>0
  <2> HIDE DEF m
  <2>2. v[q + m] = w[q + m]
    BY <1>5, <2>1
  <2> QED BY <2>1, <2>2
<1>7. \A j \in 1 .. n : (j \in q .. k <=> j \in q .. n) /\ (j \in q .. l <=> j \in q .. n)
  BY <1>0
<1>8. DOMAIN v = q .. k /\ DOMAIN w = q .. l
  BY <1>1, <1>2
<1>9. Alike(v, w, n)
  <2>1. 0 \notin DOMAIN v /\ 0 \notin DOMAIN w
    BY <1>0, <1>8
  <2> QED BY <1>6, <1>7, <1>8, <2>1 DEF Alike
<1> QED BY <1>8, <1>9 DEF v, w, q

\* So does the relative strength, of the gains and the losses.
LEMMA RSIAlike ==
  ASSUME NEW s, NEW t, NEW n, Same(s, t, n), NEW p \in Nat \ {0},
         Numbers(s), Numbers(t)
  PROVE  Alike(RSI(s, p), RSI(t, p), n)
<1> USE DEF Same, Numbers
<1> DEFINE us == Wilder(Gains(s), Len(s), p)
           ut == Wilder(Gains(t), Len(t), p)
           ds == Wilder(Losses(s), Len(s), p)
           dt == Wilder(Losses(t), Len(t), p)
<1>1. /\ \A j \in 2 .. Len(s) : Gains(s)[j] \in Int /\ Losses(s)[j] \in Int
      /\ \A j \in 2 .. Len(t) : Gains(t)[j] \in Int /\ Losses(t)[j] \in Int
      /\ \A j \in 2 .. n : Gains(s)[j] = Gains(t)[j] /\ Losses(s)[j] = Losses(t)[j]
  <2>1. ASSUME NEW j \in 2 .. Len(s) PROVE Gains(s)[j] \in Int /\ Losses(s)[j] \in Int
    <3>1. s[j] \in Int /\ s[j - 1] \in Int
      OBVIOUS
    <3> QED BY <3>1 DEF Gains, Losses
  <2>2. ASSUME NEW j \in 2 .. Len(t) PROVE Gains(t)[j] \in Int /\ Losses(t)[j] \in Int
    <3>1. t[j] \in Int /\ t[j - 1] \in Int
      OBVIOUS
    <3> QED BY <3>1 DEF Gains, Losses
  <2>3. ASSUME NEW j \in 2 .. n PROVE Gains(s)[j] = Gains(t)[j] /\ Losses(s)[j] = Losses(t)[j]
    <3>1. s[j] = t[j] /\ s[j - 1] = t[j - 1] /\ j \in 2 .. Len(s) /\ j \in 2 .. Len(t)
      OBVIOUS
    <3> QED BY <3>1 DEF Gains, Losses
  <2> QED BY <2>1, <2>2, <2>3
<1>2. Alike(us, ut, n) /\ Alike(ds, dt, n)
      /\ DOMAIN us = p + 1 .. Len(s) /\ DOMAIN ut = p + 1 .. Len(t) /\ DOMAIN ds = p + 1 .. Len(s) /\ DOMAIN dt = p + 1 .. Len(t)
  <2>1. /\ Len(s) \in Nat /\ Len(t) \in Nat /\ n \in Int /\ n <= Len(s) /\ n <= Len(t) /\ p \in Nat \ {0}
        /\ \A j \in 2 .. Len(s) : Gains(s)[j] \in Int
        /\ \A j \in 2 .. Len(t) : Gains(t)[j] \in Int
        /\ \A j \in 2 .. n : Gains(s)[j] = Gains(t)[j]
        /\ \A j \in 2 .. Len(s) : Losses(s)[j] \in Int
        /\ \A j \in 2 .. Len(t) : Losses(t)[j] \in Int
        /\ \A j \in 2 .. n : Losses(s)[j] = Losses(t)[j]
    BY <1>1
  <2> DEFINE k == Len(s)
             l == Len(t)
             gs == Gains(s)
             gt == Gains(t)
             ls == Losses(s)
             lt == Losses(t)
  <2>2. /\ k \in Nat /\ l \in Nat /\ n \in Int /\ n <= k /\ n <= l /\ p \in Nat \ {0}
        /\ Changes(gs, gt, k, l, n)
    BY <2>1 DEF Changes
  <2>3. /\ k \in Nat /\ l \in Nat /\ n \in Int /\ n <= k /\ n <= l /\ p \in Nat \ {0}
        /\ Changes(ls, lt, k, l, n)
    BY <2>1 DEF Changes
  <2> HIDE DEF k, l, gs, gt, ls, lt
  <2>4. Alike(Wilder(gs, k, p), Wilder(gt, l, p), n) /\ DOMAIN Wilder(gs, k, p) = p + 1 .. k /\ DOMAIN Wilder(gt, l, p) = p + 1 .. l
    BY ONLY <2>2, WilderAlike
  <2>5. Alike(Wilder(ls, k, p), Wilder(lt, l, p), n) /\ DOMAIN Wilder(ls, k, p) = p + 1 .. k /\ DOMAIN Wilder(lt, l, p) = p + 1 .. l
    BY ONLY <2>3, WilderAlike
  <2> QED BY <2>4, <2>5 DEF k, l, gs, gt, ls, lt
<1>3. /\ RSI(s, p) = [i \in p + 1 .. Len(s) |-> IF ds[i] = 0 THEN IF us[i] = 0 THEN 50 ELSE 100
                                                ELSE 100 - (100 * ds[i]) \div (us[i] + ds[i])]
      /\ RSI(t, p) = [i \in p + 1 .. Len(t) |-> IF dt[i] = 0 THEN IF ut[i] = 0 THEN 50 ELSE 100
                                                ELSE 100 - (100 * dt[i]) \div (ut[i] + dt[i])]
  BY DEF RSI
<1> HIDE DEF us, ut, ds, dt
<1>4. ASSUME NEW j \in p + 1 .. n PROVE RSI(s, p)[j] = RSI(t, p)[j]
  <2>1. j \in 1 .. n /\ j \in p + 1 .. Len(s) /\ j \in p + 1 .. Len(t)
    OBVIOUS
  <2>2. us[j] = ut[j] /\ ds[j] = dt[j]
    BY <1>2, <2>1 DEF Alike
  <2> QED BY <1>3, <2>1, <2>2
<1>5. \A j \in 1 .. n : (j \in p + 1 .. Len(s) <=> j \in p + 1 .. n) /\ (j \in p + 1 .. Len(t) <=> j \in p + 1 .. n)
  OBVIOUS
<1>6. DOMAIN RSI(s, p) = p + 1 .. Len(s) /\ DOMAIN RSI(t, p) = p + 1 .. Len(t)
  BY <1>3
<1> QED BY <1>4, <1>5, <1>6 DEF Alike

\* A function on the first numbers is a sequence of as many values.
LEMMA OnLen ==
  ASSUME NEW k \in Int, NEW f, f = [j \in 1 .. k |-> f[j]]
  PROVE  Len(f) = (IF k < 0 THEN 0 ELSE k) /\ Len(f) \in Nat /\ DOMAIN f = 1 .. Len(f) /\ DOMAIN f = 1 .. k
<1> DEFINE m == IF k < 0 THEN 0 ELSE k
           V == {f[j] : j \in 1 .. k}
<1>1. m \in Nat /\ 1 .. m = 1 .. k
  OBVIOUS
<1>2. f \in [1 .. m -> V]
  BY <1>1
<1> HIDE DEF V, m
<1>3. f \in Seq(V) /\ Len(f) = m /\ DOMAIN f = 1 .. m
  <2>1. m \in Nat
    BY <1>1
  <2>2. f \in Seq(V)
    BY ONLY <1>2, <2>1
  <2>3. DOMAIN f = 1 .. m /\ Len(f) \in Nat /\ DOMAIN f = 1 .. Len(f)
    BY ONLY <1>2, <2>2
  <2>4. Len(f) = m
    <3> DEFINE l == Len(f)
    <3>1. l \in Nat /\ 1 .. l = 1 .. m
      BY <2>3
    <3> HIDE DEF l
    <3>2. (l > m => l \in 1 .. l /\ l \notin 1 .. m) /\ (m > l => m \in 1 .. m /\ m \notin 1 .. l)
      BY ONLY <2>1, <3>1
    <3>3. l = m
      BY ONLY <2>1, <3>1, <3>2
    <3> QED BY <3>3 DEF l
  <2> QED BY <2>2, <2>3, <2>4
<1> QED BY <1>1, <1>3 DEF m

Shorter(k, p) == IF k - p + 1 < 0 THEN 0 ELSE k - p + 1
Shifted(f, p, k) == [m \in 1 .. k - p + 1 |-> f[m + p - 1]]
AgreeFrom(f, g, p, n) == \A j \in p .. n : f[j] = g[j]

Shifts(f, g, p, k, l, n) ==
  /\ Same(Shifted(f, p, k), Shifted(g, p, l), n - p + 1)
  /\ Len(Shifted(f, p, k)) = Shorter(k, p)
  /\ Len(Shifted(g, p, l)) = Shorter(l, p)

\* Two series that agree from bar p on still agree when they are numbered from p.
LEMMA ShiftSame ==
  \A f, g : \A p \in Nat \ {0} : \A k, l, n \in Nat :
     (n <= k /\ n <= l /\ AgreeFrom(f, g, p, n)) => Shifts(f, g, p, k, l, n)
<1> SUFFICES ASSUME NEW f, NEW g, NEW p \in Nat \ {0}, NEW k \in Nat, NEW l \in Nat, NEW n \in Nat, n <= k, n <= l,
                    AgreeFrom(f, g, p, n)
             PROVE  Shifts(f, g, p, k, l, n)
  OBVIOUS
<1> DEFINE a == Shifted(f, p, k)
           b == Shifted(g, p, l)
           m == k - p + 1
           o == l - p + 1
<1>1. a = [j \in 1 .. m |-> a[j]] /\ b = [j \in 1 .. o |-> b[j]] /\ m \in Int /\ o \in Int
  BY DEF Shifted
<1>2. ASSUME NEW j \in 1 .. n - p + 1 PROVE a[j] = b[j]
  <2>1. j + p - 1 \in p .. n /\ j \in 1 .. m /\ j \in 1 .. o
    OBVIOUS
  <2>2. a[j] = f[j + p - 1] /\ b[j] = g[j + p - 1]
    BY <2>1 DEF Shifted
  <2> QED BY <2>1, <2>2 DEF AgreeFrom
<1>3. n - p + 1 \in Int /\ n - p + 1 <= m /\ n - p + 1 <= o /\ n - p + 1 <= n
  OBVIOUS
<1> HIDE DEF a, b, m, o
<1>4. Len(a) = (IF m < 0 THEN 0 ELSE m) /\ Len(a) \in Nat /\ DOMAIN a = 1 .. Len(a)
  BY ONLY <1>1, OnLen
<1>5. Len(b) = (IF o < 0 THEN 0 ELSE o) /\ Len(b) \in Nat /\ DOMAIN b = 1 .. Len(b)
  BY ONLY <1>1, OnLen
<1>6. n - p + 1 <= Len(a) /\ n - p + 1 <= Len(b)
  <2> DEFINE d == n - p + 1
             la == Len(a)
             lb == Len(b)
  <2>1. d \in Int /\ d <= m /\ d <= o /\ m \in Int /\ o \in Int
    BY <1>1, <1>3
  <2>2. la = (IF m < 0 THEN 0 ELSE m) /\ lb = (IF o < 0 THEN 0 ELSE o)
    BY <1>4, <1>5
  <2> HIDE DEF d, la, lb
  <2>3. d <= la /\ d <= lb
    BY ONLY <2>1, <2>2
  <2> QED BY <2>3 DEF d, la, lb
<1> QED BY <1>2, <1>3, <1>4, <1>5, <1>6 DEF Same, Shifts, Shorter, a, b, m, o

\* Back in the numbering before the shift.
LEMMA ShiftBack ==
  ASSUME NEW f, NEW g, NEW p \in Nat \ {0}, NEW q \in Nat \ {0}, NEW k \in Nat, NEW l \in Nat, NEW n \in Nat,
         n <= k, n <= l, Alike(f, g, n - p + 1),
         q .. k - p + 1 \subseteq DOMAIN f
  PROVE  Alike([i \in p + q - 1 .. k |-> f[i - p + 1]], [i \in p + q - 1 .. l |-> g[i - p + 1]], n)
<1> DEFINE a == [i \in p + q - 1 .. k |-> f[i - p + 1]]
           b == [i \in p + q - 1 .. l |-> g[i - p + 1]]
<1>1. ASSUME NEW j \in p + q - 1 .. n PROVE a[j] = b[j]
  <2>1. j - p + 1 \in 1 .. n - p + 1 /\ j - p + 1 \in q .. k - p + 1 /\ j \in p + q - 1 .. k /\ j \in p + q - 1 .. l
    OBVIOUS
  <2>2. f[j - p + 1] = g[j - p + 1]
    BY <2>1 DEF Alike
  <2> QED BY <2>1, <2>2
<1>2. DOMAIN a = p + q - 1 .. k /\ DOMAIN b = p + q - 1 .. l
  OBVIOUS
<1>3. \A j \in 1 .. n : (j \in p + q - 1 .. k <=> j \in p + q - 1 .. n) /\ (j \in p + q - 1 .. l <=> j \in p + q - 1 .. n)
  OBVIOUS
<1> HIDE DEF a, b
<1>4. Alike(a, b, n)
  BY <1>1, <1>2, <1>3 DEF Alike
<1> QED BY <1>4 DEF a, b

\* The MACD line and its signal, which is an average of the line numbered from its first value.
LEMMA MACDAlike ==
  ASSUME NEW s, NEW t, NEW n \in Nat, Same(s, t, n), Numbers(s), Numbers(t)
  PROVE  Alike(MACD(s).line, MACD(t).line, n) /\ Alike(MACD(s).signal, MACD(t).signal, n)
<1> DEFINE p == P(26)
           q == P(9)
           fs == EMA(s, P(12))
           ft == EMA(t, P(12))
           ss == EMA(s, p)
           st == EMA(t, p)
           k == Len(s)
           l == Len(t)
           ds == [j \in p .. k |-> fs[j] - ss[j]]
           dt == [j \in p .. l |-> ft[j] - st[j]]
           vs == Shifted(ds, p, k)
           vt == Shifted(dt, p, l)
           as == EMA(vs, q)
           at == EMA(vt, q)
<1>1. p \in Nat \ {0} /\ q \in Nat \ {0} /\ P(12) \in Nat \ {0} /\ P(12) <= p
  BY Periods
<1>2. k \in Nat /\ l \in Nat /\ n <= k /\ n <= l
  BY DEF Same
<1>3. /\ Alike(fs, ft, n) /\ fs \in [P(12) .. k -> Int] /\ ft \in [P(12) .. l -> Int]
      /\ Alike(ss, st, n) /\ ss \in [p .. k -> Int] /\ st \in [p .. l -> Int]
  BY <1>1, EMAAlike
<1>4. vs = [m \in 1 .. k - p + 1 |-> fs[m + p - 1] - ss[m + p - 1]]
      /\ vt = [m \in 1 .. l - p + 1 |-> ft[m + p - 1] - st[m + p - 1]]
  <2>1. \A m \in 1 .. k - p + 1 : m + p - 1 \in p .. k
    BY <1>1, <1>2
  <2>2. \A m \in 1 .. l - p + 1 : m + p - 1 \in p .. l
    BY <1>1, <1>2
  <2> HIDE DEF p, k, l, fs, ft, ss, st
  <2> QED BY <2>1, <2>2 DEF Shifted
<1>5. /\ MACD(s).line = [i \in p .. k |-> vs[i - p + 1]] /\ MACD(s).signal = [i \in p + q - 1 .. k |-> as[i - p + 1]]
      /\ MACD(t).line = [i \in p .. l |-> vt[i - p + 1]] /\ MACD(t).signal = [i \in p + q - 1 .. l |-> at[i - p + 1]]
  <2> DEFINE us == [m \in 1 .. k - p + 1 |-> fs[m + p - 1] - ss[m + p - 1]]
             ut == [m \in 1 .. l - p + 1 |-> ft[m + p - 1] - st[m + p - 1]]
  <2>1. /\ MACD(s).line = [i \in p .. k |-> us[i - p + 1]] /\ MACD(s).signal = [i \in p + q - 1 .. k |-> EMA(us, q)[i - p + 1]]
        /\ MACD(t).line = [i \in p .. l |-> ut[i - p + 1]] /\ MACD(t).signal = [i \in p + q - 1 .. l |-> EMA(ut, q)[i - p + 1]]
    BY DEF MACD
  <2>2. vs = us /\ vt = ut
    BY <1>4
  <2> HIDE DEF us, ut, vs, vt
  <2> QED BY <2>1, <2>2
<1> HIDE DEF p, q, k, l, fs, ft, ss, st
<1>6. AgreeFrom(ds, dt, p, n)
  <2> SUFFICES ASSUME NEW j \in p .. n PROVE ds[j] = dt[j]
    BY DEF AgreeFrom
  <2>1. j \in 1 .. n /\ j \in p .. k /\ j \in p .. l /\ j \in P(12) .. k
    BY <1>1, <1>2
  <2>2. fs[j] = ft[j] /\ ss[j] = st[j]
    BY <1>3, <2>1 DEF Alike
  <2> QED BY <2>1, <2>2
<1> HIDE DEF ds, dt, vs, vt
<1>7. /\ Same(vs, vt, n - p + 1)
      /\ Len(vs) = (IF k - p + 1 < 0 THEN 0 ELSE k - p + 1)
      /\ Len(vt) = (IF l - p + 1 < 0 THEN 0 ELSE l - p + 1)
  <2>1. p \in Nat \ {0} /\ k \in Nat /\ l \in Nat /\ n \in Nat /\ n <= k /\ n <= l
    BY <1>1, <1>2
  <2>2. Shifts(ds, dt, p, k, l, n)
    BY ONLY <1>6, <2>1, ShiftSame
  <2> QED BY <2>2 DEF Shifts, vs, vt, Shorter
<1>8. Numbers(vs) /\ Numbers(vt)
  <2>1. ASSUME NEW m \in 1 .. Len(vs) PROVE vs[m] \in Int
    <3>1. m \in 1 .. k - p + 1 /\ m + p - 1 \in p .. k /\ m + p - 1 \in P(12) .. k
      BY <1>1, <1>2, <1>7
    <3>2. vs[m] = fs[m + p - 1] - ss[m + p - 1]
      BY <1>4, <3>1
    <3> QED BY <1>3, <3>1, <3>2
  <2>2. ASSUME NEW m \in 1 .. Len(vt) PROVE vt[m] \in Int
    <3>1. m \in 1 .. l - p + 1 /\ m + p - 1 \in p .. l /\ m + p - 1 \in P(12) .. l
      BY <1>1, <1>2, <1>7
    <3>2. vt[m] = ft[m + p - 1] - st[m + p - 1]
      BY <1>4, <3>1
    <3> QED BY <1>3, <3>1, <3>2
  <2> QED BY <2>1, <2>2 DEF Numbers
<1>9. Alike(as, at, n - p + 1) /\ DOMAIN as = q .. Len(vs)
  BY <1>1, <1>7, <1>8, EMAAlike
<1>10. Alike(vs, vt, n - p + 1) /\ DOMAIN vs = 1 .. Len(vs)
  BY <1>7 DEF Same, Alike
<1>11. q .. k - p + 1 \subseteq DOMAIN as /\ 1 .. k - p + 1 \subseteq DOMAIN vs
  BY <1>1, <1>2, <1>7, <1>9, <1>10
<1> HIDE DEF as, at
<1>12. p \in Nat \ {0} /\ q \in Nat \ {0} /\ 1 \in Nat \ {0} /\ k \in Nat /\ l \in Nat /\ n \in Nat /\ n <= k /\ n <= l
  BY <1>1, <1>2
<1>13. Alike([i \in p + q - 1 .. k |-> as[i - p + 1]], [i \in p + q - 1 .. l |-> at[i - p + 1]], n)
  BY ONLY <1>9, <1>11, <1>12, ShiftBack, ZenonT(40)
<1>14. Alike([i \in p + 1 - 1 .. k |-> vs[i - p + 1]], [i \in p + 1 - 1 .. l |-> vt[i - p + 1]], n)
  BY ONLY <1>10, <1>11, <1>12, ShiftBack, ZenonT(40)
<1>15. p + 1 - 1 = p
  BY <1>1
<1>16. Alike([i \in p .. k |-> vs[i - p + 1]], [i \in p .. l |-> vt[i - p + 1]], n)
  BY <1>14, <1>15
<1> QED BY <1>5, <1>13, <1>16

\* Two histories of which the first n bars are the same.
Agree(b, c, n) == b \in Seq(Shapes) /\ c \in Seq(Shapes) /\ Same(b, c, n)

\* The bars of two histories that agree, and the fields they have.
LEMMA BarFields ==
  ASSUME NEW b, NEW c, NEW n, Agree(b, c, n)
  PROVE  /\ \A j \in 1 .. Len(b) : b[j] \in Shapes
         /\ \A x \in Shapes : /\ x.open \in Nat /\ x.high \in Nat /\ x.low \in Nat /\ x.close \in Nat
                              /\ x.volume \in Nat /\ x.opens \in BOOLEAN
         /\ \A j \in 1 .. n : b[j] = c[j] /\ b[j] \in Shapes
<1>1. \A x \in Shapes : x \in [open : Nat, high : Nat, low : Nat, close : Nat, volume : Nat, opens : BOOLEAN]
  BY FeedAssumption
<1>2. \A j \in 1 .. Len(b) : b[j] \in Shapes
  BY DEF Agree
<1>3. \A x \in Shapes : /\ x.open \in Nat /\ x.high \in Nat /\ x.low \in Nat /\ x.close \in Nat
                        /\ x.volume \in Nat /\ x.opens \in BOOLEAN
  BY <1>1
<1> QED BY <1>2, <1>3 DEF Agree, Same

\* Their closes are sequences of numbers that agree.
LEMMA ClosesSame ==
  ASSUME NEW b, NEW c, NEW n, Agree(b, c, n)
  PROVE  Same(Closes(b), Closes(c), n) /\ Numbers(Closes(b)) /\ Numbers(Closes(c)) /\ n \in Int
<1> DEFINE k == Len(b)
           l == Len(c)
           s == Closes(b)
           t == Closes(c)
<1>1. b \in Seq(Shapes) /\ c \in Seq(Shapes) /\ k \in Nat /\ DOMAIN b = 1 .. k /\ l \in Nat /\ DOMAIN c = 1 .. l
      /\ n \in Int /\ n <= k /\ n <= l /\ \A j \in 1 .. n : b[j] = c[j]
  BY DEF Agree, Same
<1>2. \A x \in Shapes : x.close \in Nat
  BY BarFields
<1>3. \A j \in 1 .. k : b[j] \in Shapes
  BY <1>1
<1>4. \A j \in 1 .. l : c[j] \in Shapes
  BY <1>1
<1>5. s = [i \in 1 .. k |-> 100 * b[i].close] /\ t = [i \in 1 .. l |-> 100 * c[i].close]
  BY <1>1 DEF Closes
<1> HIDE DEF k, l, s, t
<1>6. s = [j \in 1 .. k |-> s[j]] /\ t = [j \in 1 .. l |-> t[j]] /\ k \in Int /\ l \in Int
  BY <1>1, <1>5
<1>7. Len(s) = k /\ DOMAIN s = 1 .. k
  <2>1. Len(s) = (IF k < 0 THEN 0 ELSE k) /\ DOMAIN s = 1 .. k
    BY ONLY <1>6, OnLen
  <2> QED BY <1>1, <2>1
<1>8. Len(t) = l /\ DOMAIN t = 1 .. l
  <2>1. Len(t) = (IF l < 0 THEN 0 ELSE l) /\ DOMAIN t = 1 .. l
    BY ONLY <1>6, OnLen
  <2> QED BY <1>1, <2>1
<1>9. Numbers(s)
  <2>1. \A j \in 1 .. k : b[j].close \in Nat
    BY <1>2, <1>3
  <2>2. \A j \in 1 .. k : s[j] \in Int
    BY <1>5, <2>1
  <2> QED BY <1>7, <2>2 DEF Numbers
<1>10. Numbers(t)
  <2>1. \A j \in 1 .. l : c[j].close \in Nat
    BY <1>2, <1>4
  <2>2. \A j \in 1 .. l : t[j] \in Int
    BY <1>5, <2>1
  <2> QED BY <1>8, <2>2 DEF Numbers
<1>11. \A j \in 1 .. n : j \in 1 .. k /\ j \in 1 .. l
  BY <1>1
<1>12. \A j \in 1 .. n : s[j] = t[j]
  BY <1>1, <1>5, <1>11
<1> QED BY <1>1, <1>7, <1>8, <1>9, <1>10, <1>12 DEF Same, s, t

\* What a strategy takes from a window.
SameWindow(b, c, from, to) ==
  /\ HighestHigh(b, from, to) = HighestHigh(c, from, to) /\ LowestHigh(b, from, to) = LowestHigh(c, from, to)
  /\ LowestLow(b, from, to) = LowestLow(c, from, to)
  /\ HighestClose(b, from, to) = HighestClose(c, from, to) /\ LowestClose(b, from, to) = LowestClose(c, from, to)
  /\ SumOfCloses(b, from, to) = SumOfCloses(c, from, to) /\ VolumeOver(b, from, to) = VolumeOver(c, from, to)

\* The extremes, the sum of the closes and the volume of a window that both have.
LEMMA WindowsSame ==
  \A b, c, n : Agree(b, c, n) => \A from, to \in Int : (1 <= from /\ to <= n) => SameWindow(b, c, from, to)
<1> SUFFICES ASSUME NEW b, NEW c, NEW n, Agree(b, c, n), NEW from \in Int, NEW to \in Int, 1 <= from, to <= n
             PROVE  SameWindow(b, c, from, to)
  OBVIOUS
<1> DEFINE W == from .. to
<1>1. \A j \in W : b[j] = c[j]
  BY DEF Agree, Same
<1>2. /\ {b[j].high : j \in W} = {c[j].high : j \in W} /\ {b[j].low : j \in W} = {c[j].low : j \in W}
      /\ {b[j].close : j \in W} = {c[j].close : j \in W}
  <2> HIDE DEF W
  <2> QED BY <1>1
<1> DEFINE f == [j \in W |-> b[j].close]
           g == [j \in W |-> c[j].close]
           u == [j \in W |-> b[j].volume]
           v == [j \in W |-> c[j].volume]
<1>3. f = g /\ u = v
  <2> HIDE DEF W
  <2> QED BY <1>1
<1>4. /\ SumOfCloses(b, from, to) = SumFunctionOnSet(f, W) /\ SumOfCloses(c, from, to) = SumFunctionOnSet(g, W)
      /\ VolumeOver(b, from, to) = SumFunctionOnSet(u, W) /\ VolumeOver(c, from, to) = SumFunctionOnSet(v, W)
  BY DEF SumOfCloses, VolumeOver, SumOver
<1> DEFINE hb == {b[j].high : j \in W}
           hc == {c[j].high : j \in W}
           lb == {b[j].low : j \in W}
           lc == {c[j].low : j \in W}
           cb == {b[j].close : j \in W}
           cc == {c[j].close : j \in W}
<1>5. /\ HighestHigh(b, from, to) = Max(hb) /\ LowestHigh(b, from, to) = Min(hb) /\ LowestLow(b, from, to) = Min(lb)
      /\ HighestClose(b, from, to) = Max(cb) /\ LowestClose(b, from, to) = Min(cb)
  BY DEF HighestHigh, LowestHigh, LowestLow, HighestClose, LowestClose, Highest, Lowest
<1>6. /\ HighestHigh(c, from, to) = Max(hc) /\ LowestHigh(c, from, to) = Min(hc) /\ LowestLow(c, from, to) = Min(lc)
      /\ HighestClose(c, from, to) = Max(cc) /\ LowestClose(c, from, to) = Min(cc)
  BY DEF HighestHigh, LowestHigh, LowestLow, HighestClose, LowestClose, Highest, Lowest
<1>7. hb = hc /\ lb = lc /\ cb = cc
  BY <1>2
<1> HIDE DEF W, f, g, u, v, hb, hc, lb, lc, cb, cc
<1> QED BY <1>3, <1>4, <1>5, <1>6, <1>7 DEF SameWindow

SameBands(b, c, i) ==
  /\ BandSquare(b, P(20), i) = BandSquare(c, P(20), i)
  /\ \A x : AtOrBelowLower(b, x, i) = AtOrBelowLower(c, x, i) /\ AtOrAboveUpper(b, x, i) = AtOrAboveUpper(c, x, i)
  /\ Squeezed(b, i) = Squeezed(c, i)

\* The Bollinger bands and their width.
LEMMA BandsSame ==
  \A b, c, n : Agree(b, c, n) => \A i \in 1 .. n : i >= P(20) => SameBands(b, c, i)
<1> SUFFICES ASSUME NEW b, NEW c, NEW n, Agree(b, c, n), NEW i \in 1 .. n, i >= P(20)
             PROVE  SameBands(b, c, i)
  OBVIOUS
<1> DEFINE p == P(20)
           W == i - p + 1 .. i
<1>1. p \in Nat \ {0} /\ n \in Int
  BY Periods DEF Agree, Same
<1>2. i - p + 1 \in Int /\ i \in Int /\ 1 <= i - p + 1 /\ i <= n
  BY <1>1
<1>3. SumOfCloses(b, i - p + 1, i) = SumOfCloses(c, i - p + 1, i)
  <2>1. SameWindow(b, c, i - p + 1, i)
    <3> DEFINE from == i - p + 1
    <3>1. from \in Int /\ i \in Int /\ 1 <= from /\ i <= n
      BY <1>2
    <3> HIDE DEF from
    <3>2. SameWindow(b, c, from, i)
      BY <3>1, WindowsSame
    <3> QED BY <3>2 DEF from
  <2> QED BY <2>1 DEF SameWindow
<1>4. \A j \in W : b[j] = c[j]
  BY <1>2 DEF Agree, Same
<1> DEFINE sum == SumOfCloses(b, i - p + 1, i)
           f == [j \in W |-> (p * b[j].close - sum) * (p * b[j].close - sum)]
           g == [j \in W |-> (p * c[j].close - sum) * (p * c[j].close - sum)]
<1>5. f = g
  <2> HIDE DEF W, sum, p
  <2> QED BY <1>4
<1>6. BandSquare(b, p, i) = SumFunctionOnSet(f, W) /\ BandSquare(c, p, i) = SumFunctionOnSet(g, W)
  <2>1. BandSquare(b, p, i) = SumFunctionOnSet(f, W)
    BY DEF BandSquare, SumOver
  <2> DEFINE other == SumOfCloses(c, i - p + 1, i)
             h == [j \in W |-> (p * c[j].close - other) * (p * c[j].close - other)]
  <2>2. BandSquare(c, p, i) = SumFunctionOnSet(h, W)
    BY DEF BandSquare, SumOver
  <2>3. other = sum
    BY <1>3
  <2>4. h = g
    <3> HIDE DEF other, sum, W, p
    <3> QED BY <2>3
  <2> HIDE DEF h, g, f, W
  <2> QED BY <2>1, <2>2, <2>4
<1>7. BandSquare(b, p, i) = BandSquare(c, p, i)
  <2> HIDE DEF f, g, W, p
  <2> QED BY <1>5, <1>6
<1>8. \A x : AtOrBelowLower(b, x, i) = AtOrBelowLower(c, x, i)
  BY <1>3, <1>7, Zenon DEF AtOrBelowLower
<1>9. \A x : AtOrAboveUpper(b, x, i) = AtOrAboveUpper(c, x, i)
  BY <1>3, <1>7, Zenon DEF AtOrAboveUpper
<1>10. Squeezed(b, i) = Squeezed(c, i)
  <2> DEFINE Narrow(square, total) == 10000 * square < P(20) * total * total
  <2>1. Squeezed(b, i) = Narrow(BandSquare(b, p, i), SumOfCloses(b, i - p + 1, i))
    BY SMTT(20) DEF Squeezed
  <2>2. Squeezed(c, i) = Narrow(BandSquare(c, p, i), SumOfCloses(c, i - p + 1, i))
    BY SMTT(20) DEF Squeezed
  <2> HIDE DEF Narrow
  <2> QED BY ONLY <1>3, <1>7, <2>1, <2>2
<1> QED BY <1>7, <1>8, <1>9, <1>10 DEF SameBands

\* The cumulative volume-weighted price.
LEMMA VWAPAlike ==
  \A b, c, n : Agree(b, c, n) => Alike(VWAP(b), VWAP(c), n) /\ \A i \in 1 .. n : VWAP(b)[i] = VWAP(c)[i]
<1> SUFFICES ASSUME NEW b, NEW c, NEW n, Agree(b, c, n)
             PROVE  Alike(VWAP(b), VWAP(c), n) /\ \A i \in 1 .. n : VWAP(b)[i] = VWAP(c)[i]
  OBVIOUS
<1> DEFINE Weight(x) == IF x.volume = 0 THEN 1 ELSE x.volume
           Traded(x) == Weight(x) * ((100 * (x.high + x.low + x.close)) \div 3)
<1>1. /\ DOMAIN b = 1 .. Len(b) /\ DOMAIN c = 1 .. Len(c) /\ Len(b) \in Nat /\ Len(c) \in Nat
      /\ n \in Int /\ n <= Len(b) /\ n <= Len(c) /\ \A j \in 1 .. n : b[j] = c[j]
  BY DEF Agree, Same
<1>2. DOMAIN VWAP(b) = 1 .. Len(b) /\ DOMAIN VWAP(c) = 1 .. Len(c)
  BY <1>1 DEF VWAP
<1>3. ASSUME NEW i \in 1 .. n PROVE VWAP(b)[i] = VWAP(c)[i]
  <2> DEFINE W == 1 .. i
             f == [j \in W |-> Traded(b[j])]
             g == [j \in W |-> Traded(c[j])]
             u == [j \in W |-> Weight(b[j])]
             v == [j \in W |-> Weight(c[j])]
  <2>1. \A j \in W : b[j] = c[j]
    BY <1>1
  <2>2. f = g /\ u = v
    <3> HIDE DEF Traded, Weight, W
    <3> QED BY <2>1
  <2>3. i \in 1 .. Len(b) /\ i \in 1 .. Len(c)
    BY <1>1
  <2>4. VWAP(b)[i] = SumFunctionOnSet(f, W) \div SumFunctionOnSet(u, W)
        /\ VWAP(c)[i] = SumFunctionOnSet(g, W) \div SumFunctionOnSet(v, W)
    BY <1>1, <2>3 DEF VWAP, SumOver
  <2> HIDE DEF f, g, u, v, W
  <2> QED BY <2>2, <2>4
<1>4. \A j \in 1 .. n : j \in 1 .. Len(b) /\ j \in 1 .. Len(c)
  BY <1>1
<1>5. 0 \notin DOMAIN VWAP(b) /\ 0 \notin DOMAIN VWAP(c)
  BY <1>2
<1> QED BY <1>2, <1>3, <1>4, <1>5 DEF Alike

\* The pair of bars that a crossing compares is there in both histories or in neither.
SamePair(f, g, u, v, i) ==
  /\ BothAt(f, u, i) = BothAt(g, v, i)
  /\ BothAt(f, u, i) => i - 1 \in 1 .. i /\ f[i] = g[i] /\ f[i - 1] = g[i - 1] /\ u[i] = v[i] /\ u[i - 1] = v[i - 1]

\* Two series cross, or do not, in both histories.
LEMMA BothSame ==
  ASSUME NEW f, NEW g, NEW u, NEW v, NEW i \in Nat \ {0}, Alike(f, g, i), Alike(u, v, i)
  PROVE  SamePair(f, g, u, v, i)
<1>1. BothAt(f, u, i) <=> i \in DOMAIN f /\ i \in DOMAIN u /\ i - 1 \in DOMAIN f /\ i - 1 \in DOMAIN u
  BY DEF BothAt
<1>2. BothAt(g, v, i) <=> i \in DOMAIN g /\ i \in DOMAIN v /\ i - 1 \in DOMAIN g /\ i - 1 \in DOMAIN v
  BY DEF BothAt
<1>3. i \in 1 .. i /\ (i - 1 = 0 \/ i - 1 \in 1 .. i)
  OBVIOUS
<1>4. i - 1 \in DOMAIN f \/ i - 1 \in DOMAIN g => i - 1 \in 1 .. i
  BY <1>3 DEF Alike
<1>5. BothAt(f, u, i) <=> BothAt(g, v, i)
  BY <1>1, <1>2, <1>3, <1>4 DEF Alike
<1>6. BothAt(f, u, i) \in BOOLEAN /\ BothAt(g, v, i) \in BOOLEAN
  BY DEF BothAt
<1>7. BothAt(f, u, i) = BothAt(g, v, i)
  BY <1>5, <1>6
<1>8. BothAt(f, u, i) => i - 1 \in 1 .. i /\ f[i] = g[i] /\ f[i - 1] = g[i - 1] /\ u[i] = v[i] /\ u[i - 1] = v[i - 1]
  BY <1>1, <1>3, <1>4 DEF Alike
<1> QED BY <1>7, <1>8 DEF SamePair

\* The stochastic oscillator and its average, numbered from its first value.
LEMMA StochasticAlike ==
  \A b, c : \A n \in Nat : Agree(b, c, n) => Alike(Stochastic(b).k, Stochastic(c).k, n) /\ Alike(Stochastic(b).d, Stochastic(c).d, n)
<1> SUFFICES ASSUME NEW b, NEW c, NEW n \in Nat, Agree(b, c, n)
             PROVE  Alike(Stochastic(b).k, Stochastic(c).k, n) /\ Alike(Stochastic(b).d, Stochastic(c).d, n)
  OBVIOUS
<1> DEFINE p == P(14)
           q == P(3)
           k == Len(b)
           l == Len(c)
           Place(x, i) == IF HighestHigh(x, i - p + 1, i) = LowestLow(x, i - p + 1, i) THEN 50
                          ELSE (100 * (x[i].close - LowestLow(x, i - p + 1, i)))
                                 \div (HighestHigh(x, i - p + 1, i) - LowestLow(x, i - p + 1, i))
           kb == [i \in p .. k |-> Place(b, i)]
           kc == [i \in p .. l |-> Place(c, i)]
           vb == Shifted(kb, p, k)
           vc == Shifted(kc, p, l)
           ab == SMA(vb, q)
           ac == SMA(vc, q)
<1>1. p \in Nat \ {0} /\ q \in Nat \ {0}
  BY Periods
<1>2. k \in Nat /\ l \in Nat /\ n <= k /\ n <= l /\ \A j \in 1 .. n : b[j] = c[j]
  BY DEF Agree, Same
<1>3. /\ Stochastic(b).k = kb /\ Stochastic(b).d = [i \in p + q - 1 .. k |-> ab[i - p + 1]]
      /\ Stochastic(c).k = kc /\ Stochastic(c).d = [i \in p + q - 1 .. l |-> ac[i - p + 1]]
  BY DEF Stochastic, Shifted
<1>4. ASSUME NEW i \in p .. n PROVE kb[i] = kc[i] /\ i \in 1 .. n /\ i \in p .. k /\ i \in p .. l
  <2> DEFINE from == i - p + 1
  <2>1. i \in 1 .. n /\ i \in p .. k /\ i \in p .. l /\ from \in Int /\ 1 <= from /\ i <= n /\ i \in Int
    BY <1>1, <1>2
  <2>2. SameWindow(b, c, from, i)
    <3> HIDE DEF from
    <3> QED BY <2>1, WindowsSame
  <2>3. Place(b, i) = Place(c, i)
    <3>1. b[i] = c[i] /\ HighestHigh(b, from, i) = HighestHigh(c, from, i) /\ LowestLow(b, from, i) = LowestLow(c, from, i)
      BY <1>2, <2>1, <2>2 DEF SameWindow
    <3> QED BY <3>1
  <2>4. kb[i] = Place(b, i) /\ kc[i] = Place(c, i)
    <3> HIDE DEF Place
    <3> QED BY <2>1
  <2> HIDE DEF kb, kc, Place
  <2> QED BY <2>1, <2>3, <2>4
<1>5. DOMAIN kb = p .. k /\ DOMAIN kc = p .. l
  OBVIOUS
<1> HIDE DEF p, q, k, l, kb, kc, Place
<1>6. AgreeFrom(kb, kc, p, n)
  BY <1>4 DEF AgreeFrom
<1>7. Alike(kb, kc, n)
  <2>1. \A j \in 1 .. n : (j \in p .. k <=> j \in p .. n) /\ (j \in p .. l <=> j \in p .. n)
    BY <1>1, <1>2
  <2>2. 0 \notin p .. k /\ 0 \notin p .. l
    BY <1>1
  <2> QED BY <1>4, <1>5, <2>1, <2>2 DEF Alike
<1> HIDE DEF vb, vc
<1>8. Shifts(kb, kc, p, k, l, n)
  <2>1. p \in Nat \ {0} /\ k \in Nat /\ l \in Nat /\ n \in Nat /\ n <= k /\ n <= l
    BY <1>1, <1>2
  <2> QED BY ONLY <1>6, <2>1, ShiftSame
<1>9. Same(vb, vc, n - p + 1) /\ Len(vb) = Shorter(k, p)
  BY <1>8 DEF Shifts, vb, vc
<1> DEFINE m == n - p + 1
<1>10. Same(vb, vc, m)
  BY <1>9
<1> HIDE DEF m
<1>11. Alike(ab, ac, m) /\ DOMAIN ab = q .. Len(vb)
  <2>1. Alike(SMA(vb, q), SMA(vc, q), m) /\ DOMAIN SMA(vb, q) = q .. Len(vb)
    BY ONLY <1>1, <1>10, SMAAlike
  <2> QED BY <2>1
<1> HIDE DEF ab, ac
<1>12. q .. k - p + 1 \subseteq DOMAIN ab
  <2>1. Len(vb) >= k - p + 1 /\ Len(vb) \in Nat
    BY <1>1, <1>2, <1>9 DEF Shorter, Same
  <2> QED BY <1>1, <1>2, <1>11, <2>1
<1>13. p \in Nat \ {0} /\ q \in Nat \ {0} /\ k \in Nat /\ l \in Nat /\ n \in Nat /\ n <= k /\ n <= l /\ Alike(ab, ac, n - p + 1)
  BY <1>1, <1>2, <1>11 DEF m
<1>14. Alike([i \in p + q - 1 .. k |-> ab[i - p + 1]], [i \in p + q - 1 .. l |-> ac[i - p + 1]], n)
  BY ONLY <1>12, <1>13, ShiftBack
<1> QED BY <1>3, <1>7, <1>14

\* The indicators of two histories are alike as far as the histories agree.
LEMMA IndicatorsAlike ==
  \A b, c : \A n \in Nat : Agree(b, c, n) =>
     /\ \A p \in Nat \ {0} : /\ Alike(SMA(Closes(b), p), SMA(Closes(c), p), n)
                             /\ Alike(EMA(Closes(b), p), EMA(Closes(c), p), n)
                             /\ Alike(RSI(Closes(b), p), RSI(Closes(c), p), n)
     /\ Alike(MACD(Closes(b)).line, MACD(Closes(c)).line, n)
     /\ Alike(MACD(Closes(b)).signal, MACD(Closes(c)).signal, n)
<1> SUFFICES ASSUME NEW b, NEW c, NEW n \in Nat, Agree(b, c, n)
             PROVE  /\ \A p \in Nat \ {0} : /\ Alike(SMA(Closes(b), p), SMA(Closes(c), p), n)
                             /\ Alike(EMA(Closes(b), p), EMA(Closes(c), p), n)
                             /\ Alike(RSI(Closes(b), p), RSI(Closes(c), p), n)
                    /\ Alike(MACD(Closes(b)).line, MACD(Closes(c)).line, n)
                    /\ Alike(MACD(Closes(b)).signal, MACD(Closes(c)).signal, n)
  OBVIOUS
<1> DEFINE s == Closes(b)
           t == Closes(c)
<1>1. Same(s, t, n) /\ Numbers(s) /\ Numbers(t)
  BY ClosesSame
<1> HIDE DEF s, t
<1>2. ASSUME NEW p \in Nat \ {0} PROVE Alike(SMA(s, p), SMA(t, p), n) /\ Alike(EMA(s, p), EMA(t, p), n) /\ Alike(RSI(s, p), RSI(t, p), n)
  <2>1. Alike(SMA(s, p), SMA(t, p), n)
    BY ONLY <1>1, SMAAlike
  <2>2. Alike(EMA(s, p), EMA(t, p), n)
    BY ONLY <1>1, EMAAlike
  <2>3. Alike(RSI(s, p), RSI(t, p), n)
    BY ONLY <1>1, RSIAlike
  <2> QED BY <2>1, <2>2, <2>3
<1>3. Alike(MACD(s).line, MACD(t).line, n) /\ Alike(MACD(s).signal, MACD(t).signal, n)
  BY ONLY <1>1, MACDAlike
<1> QED BY <1>2, <1>3 DEF s, t

\* What a rule reads of the bars up to i: the bar, its close and its VWAP.
LEMMA SeenSame ==
  ASSUME NEW b, NEW c, NEW i \in Nat \ {0}, Agree(b, c, i)
  PROVE  /\ \A j \in 1 .. i : b[j] = c[j] /\ Closes(b)[j] = Closes(c)[j] /\ VWAP(b)[j] = VWAP(c)[j]
         /\ b[i] = c[i] /\ Closes(b)[i] = Closes(c)[i] /\ VWAP(b)[i] = VWAP(c)[i]
<1>1. \A j \in 1 .. i : b[j] = c[j]
  BY DEF Agree, Same
<1>2. \A j \in 1 .. i : Closes(b)[j] = Closes(c)[j]
  BY ClosesSame DEF Same
<1>3. \A j \in 1 .. i : VWAP(b)[j] = VWAP(c)[j]
  BY VWAPAlike
<1>4. i \in 1 .. i
  OBVIOUS
<1> QED BY <1>1, <1>2, <1>3, <1>4

\* The average volume before a bar, and how many times it the bar trades.
LEMMA VolumesSame ==
  ASSUME NEW b, NEW c, NEW i \in Nat \ {0}, Agree(b, c, i), i > P(20)
  PROVE  AverageVolume(b, i) = AverageVolume(c, i) /\ \A t : Ratio(b, i, t) = Ratio(c, i, t)
<1> DEFINE from == i - P(20)
           to == i - 1
<1>1. from \in Int /\ to \in Int /\ 1 <= from /\ to <= i
  BY Periods
<1> HIDE DEF from, to
<1>2. VolumeOver(b, from, to) = VolumeOver(c, from, to)
  BY <1>1, WindowsSame DEF SameWindow
<1>3. AverageVolume(b, i) = AverageVolume(c, i)
  BY <1>2 DEF AverageVolume, from, to
<1>4. b[i] = c[i]
  BY SeenSame
<1> QED BY <1>3, <1>4 DEF Ratio

\* macd_crossover.
LEMMA macdSame ==
  ASSUME NEW b, NEW c, NEW i \in Nat \ {0}, Agree(b, c, i)
  PROVE  macdCrossover(b, i) = macdCrossover(c, i)
<1> DEFINE f == MACD(Closes(b)).line
           g == MACD(Closes(c)).line
           u == MACD(Closes(b)).signal
           v == MACD(Closes(c)).signal
<1>1. Alike(f, g, i) /\ Alike(u, v, i)
  BY IndicatorsAlike
<1>2. /\ macdCrossover(b, i) = IF ~BothAt(f, u, i) THEN {} ELSE Says(CrossesUp(f, u, i), CrossesDown(f, u, i))
      /\ macdCrossover(c, i) = IF ~BothAt(g, v, i) THEN {} ELSE Says(CrossesUp(g, v, i), CrossesDown(g, v, i))
  BY DEF macdCrossover
<1> HIDE DEF f, g, u, v
<1>3. SamePair(f, g, u, v, i)
  BY ONLY <1>1, i \in Nat \ {0}, BothSame
<1> QED BY <1>2, <1>3 DEF SamePair, CrossesUp, CrossesDown

\* rsi_oversold_overbought.
LEMMA rsiSame ==
  ASSUME NEW b, NEW c, NEW i \in Nat \ {0}, Agree(b, c, i)
  PROVE  rsiOversoldOverbought(b, i) = rsiOversoldOverbought(c, i)
<1> DEFINE f == RSI(Closes(b), P(14))
           g == RSI(Closes(c), P(14))
<1>1. Alike(f, g, i)
  BY Periods, IndicatorsAlike
<1>2. SamePair(f, g, f, g, i)
  <2> HIDE DEF f, g
  <2> QED BY ONLY <1>1, i \in Nat \ {0}, BothSame
<1> QED BY <1>2 DEF SamePair, rsiOversoldOverbought

\* golden_death_cross.
LEMMA goldenSame ==
  ASSUME NEW b, NEW c, NEW i \in Nat \ {0}, Agree(b, c, i)
  PROVE  goldenDeathCross(b, i) = goldenDeathCross(c, i)
<1> DEFINE f == SMA(Closes(b), P(50))
           g == SMA(Closes(c), P(50))
           u == SMA(Closes(b), P(200))
           v == SMA(Closes(c), P(200))
<1>1. Alike(f, g, i) /\ Alike(u, v, i)
  BY Periods, IndicatorsAlike
<1>2. SamePair(f, g, u, v, i)
  <2> HIDE DEF f, g, u, v
  <2> QED BY ONLY <1>1, i \in Nat \ {0}, BothSame
<1> QED BY <1>2 DEF SamePair, goldenDeathCross, CrossesUp, CrossesDown

\* ema_bounce.
LEMMA emaSame ==
  ASSUME NEW b, NEW c, NEW i \in Nat \ {0}, Agree(b, c, i)
  PROVE  emaBounce(b, i) = emaBounce(c, i)
<1> DEFINE f == EMA(Closes(b), P(21))
           g == EMA(Closes(c), P(21))
<1>1. Alike(f, g, i)
  BY Periods, IndicatorsAlike
<1>2. SamePair(f, g, f, g, i)
  <2> HIDE DEF f, g
  <2> QED BY ONLY <1>1, i \in Nat \ {0}, BothSame
<1>3. Closes(b)[i] = Closes(c)[i] /\ (i - 1 \in 1 .. i => Closes(b)[i - 1] = Closes(c)[i - 1])
  BY SeenSame
<1> QED BY <1>2, <1>3 DEF SamePair, emaBounce

\* bollinger_bounce.
LEMMA bounceSame ==
  ASSUME NEW b, NEW c, NEW i \in Nat \ {0}, Agree(b, c, i)
  PROVE  bollingerBounce(b, i) = bollingerBounce(c, i)
<1>1. CASE i - 1 < P(20)
  BY <1>1 DEF bollingerBounce
<1>2. CASE ~(i - 1 < P(20))
  <2>1. i - 1 \in 1 .. i /\ i \in 1 .. i /\ i - 1 >= P(20) /\ i >= P(20)
    BY <1>2, Periods
  <2>2. SameBands(b, c, i) /\ SameBands(b, c, i - 1)
    BY <2>1, BandsSame
  <2>3. b[i] = c[i] /\ b[i - 1] = c[i - 1]
    BY <2>1, SeenSame
  <2>4. /\ \A x : AtOrBelowLower(b, x, i) = AtOrBelowLower(c, x, i) /\ AtOrAboveUpper(b, x, i) = AtOrAboveUpper(c, x, i)
        /\ \A x : AtOrBelowLower(b, x, i - 1) = AtOrBelowLower(c, x, i - 1) /\ AtOrAboveUpper(b, x, i - 1) = AtOrAboveUpper(c, x, i - 1)
    BY <2>2 DEF SameBands
  <2> QED BY <2>3, <2>4 DEF bollingerBounce
<1> QED BY <1>1, <1>2

\* bollinger_squeeze.
LEMMA squeezeSame ==
  ASSUME NEW b, NEW c, NEW i \in Nat \ {0}, Agree(b, c, i)
  PROVE  bollingerSqueeze(b, i) = bollingerSqueeze(c, i)
<1>1. CASE i - 1 < P(20)
  BY <1>1 DEF bollingerSqueeze
<1>2. CASE ~(i - 1 < P(20))
  <2>1. i - 1 \in 1 .. i /\ i \in 1 .. i /\ i - 1 >= P(20) /\ i >= P(20)
    BY <1>2, Periods
  <2>2. SameBands(b, c, i) /\ SameBands(b, c, i - 1)
    BY <2>1, BandsSame
  <2>3. b[i] = c[i]
    BY <2>1, SeenSame
  <2>4. /\ Squeezed(b, i) = Squeezed(c, i) /\ Squeezed(b, i - 1) = Squeezed(c, i - 1)
        /\ \A x : AtOrBelowLower(b, x, i - 1) = AtOrBelowLower(c, x, i - 1) /\ AtOrAboveUpper(b, x, i - 1) = AtOrAboveUpper(c, x, i - 1)
    BY <2>2 DEF SameBands
  <2> QED BY <2>3, <2>4 DEF bollingerSqueeze
<1> QED BY <1>1, <1>2

\* stochastic_crossover.
LEMMA stochasticSame ==
  ASSUME NEW b, NEW c, NEW i \in Nat \ {0}, Agree(b, c, i)
  PROVE  stochasticCrossover(b, i) = stochasticCrossover(c, i)
<1> DEFINE f == Stochastic(b).k
           g == Stochastic(c).k
           u == Stochastic(b).d
           v == Stochastic(c).d
<1>1. Alike(f, g, i) /\ Alike(u, v, i)
  BY StochasticAlike
<1>2. SamePair(f, g, u, v, i)
  <2> HIDE DEF f, g, u, v
  <2> QED BY ONLY <1>1, i \in Nat \ {0}, BothSame
<1> QED BY <1>2 DEF SamePair, stochasticCrossover, CrossesUp, CrossesDown

\* volume_breakout.
LEMMA volumeSame ==
  ASSUME NEW b, NEW c, NEW i \in Nat \ {0}, Agree(b, c, i)
  PROVE  volumeBreakout(b, i) = volumeBreakout(c, i)
<1>1. CASE i <= P(20)
  BY <1>1 DEF volumeBreakout
<1>2. CASE ~(i <= P(20))
  <2>1. i > P(20) /\ i - 1 \in 1 .. i
    BY <1>2, Periods
  <2>2. AverageVolume(b, i) = AverageVolume(c, i) /\ Ratio(b, i, 20) = Ratio(c, i, 20)
    BY <2>1, VolumesSame
  <2>3. Closes(b)[i] = Closes(c)[i] /\ Closes(b)[i - 1] = Closes(c)[i - 1]
    BY <2>1, SeenSame
  <2>4. Alike(SMA(Closes(b), P(20)), SMA(Closes(c), P(20)), i)
    BY Periods, IndicatorsAlike
  <2>5. SMA(Closes(b), P(20))[i] = SMA(Closes(c), P(20))[i]
    <3>1. i \in P(20) .. Len(Closes(b)) /\ i \in 1 .. i
      <4>1. i <= Len(Closes(b)) /\ Len(Closes(b)) \in Nat
        BY ClosesSame DEF Same
      <4>2. P(20) \in Nat
        BY Periods
      <4> QED BY <2>1, <4>1, <4>2
    <3>2. DOMAIN SMA(Closes(b), P(20)) = P(20) .. Len(Closes(b))
      BY DEF SMA
    <3> QED BY <2>4, <3>1, <3>2 DEF Alike
  <2> QED BY <2>2, <2>3, <2>5 DEF volumeBreakout
<1> QED BY <1>1, <1>2

\* mean_reversion.
LEMMA reversionSame ==
  ASSUME NEW b, NEW c, NEW i \in Nat \ {0}, Agree(b, c, i)
  PROVE  meanReversion(b, i) = meanReversion(c, i)
<1> DEFINE f == SMA(Closes(b), P(20))
           g == SMA(Closes(c), P(20))
           u == RSI(Closes(b), P(14))
           v == RSI(Closes(c), P(14))
<1>1. Alike(f, g, i) /\ Alike(u, v, i)
  BY Periods, IndicatorsAlike
<1>2. /\ i \in DOMAIN f \intersect DOMAIN u <=> i \in DOMAIN g \intersect DOMAIN v
      /\ i \in DOMAIN f \intersect DOMAIN u => f[i] = g[i] /\ u[i] = v[i]
  <2> HIDE DEF f, g, u, v
  <2> QED BY <1>1 DEF Alike
<1>3. Closes(b)[i] = Closes(c)[i]
  BY SeenSame
<1> QED BY <1>2, <1>3 DEF meanReversion

\* trend_following.
LEMMA trendSame ==
  ASSUME NEW b, NEW c, NEW i \in Nat \ {0}, Agree(b, c, i)
  PROVE  trendFollowing(b, i) = trendFollowing(c, i)
<1> DEFINE f == EMA(Closes(b), P(9))
           g == EMA(Closes(c), P(9))
           u == EMA(Closes(b), P(21))
           v == EMA(Closes(c), P(21))
           x == SMA(Closes(b), P(50))
           y == SMA(Closes(c), P(50))
<1>1. Alike(f, g, i) /\ Alike(u, v, i) /\ Alike(x, y, i)
  BY Periods, IndicatorsAlike
<1>2. SamePair(f, g, u, v, i)
  <2> HIDE DEF f, g, u, v
  <2> QED BY ONLY <1>1, i \in Nat \ {0}, BothSame
<1>3. (i \in DOMAIN x <=> i \in DOMAIN y) /\ (i \in DOMAIN x => x[i] = y[i])
  <2> HIDE DEF x, y
  <2> QED BY <1>1 DEF Alike
<1>4. Closes(b)[i] = Closes(c)[i]
  BY SeenSame
<1> QED BY <1>2, <1>3, <1>4 DEF SamePair, trendFollowing, CrossesUp, CrossesDown

\* The last n bars before bar i.
LEMMA LevelsSame ==
  ASSUME NEW b, NEW c, NEW i \in Nat \ {0}, Agree(b, c, i), NEW n \in Nat \ {0}, i > n
  PROVE  Support(b, i, n) = Support(c, i, n) /\ Resistance(b, i, n) = Resistance(c, i, n)
<1> DEFINE from == i - n
           to == i - 1
<1>1. from \in Int /\ to \in Int /\ 1 <= from /\ to <= i
  OBVIOUS
<1> HIDE DEF from, to
<1>2. SameWindow(b, c, from, to)
  BY <1>1, WindowsSame
<1> QED BY <1>2 DEF SameWindow, Support, Resistance, from, to

\* The RSI of fourteen bars, which several rules read at several bars.
LEMMA RSISame ==
  ASSUME NEW b, NEW c, NEW i \in Nat \ {0}, Agree(b, c, i)
  PROVE  \A j \in 1 .. i : /\ j \in DOMAIN RSI(Closes(b), P(14)) <=> j \in DOMAIN RSI(Closes(c), P(14))
                           /\ j \in DOMAIN RSI(Closes(b), P(14)) => RSI(Closes(b), P(14))[j] = RSI(Closes(c), P(14))[j]
<1>1. Alike(RSI(Closes(b), P(14)), RSI(Closes(c), P(14)), i)
  BY Periods, IndicatorsAlike
<1> QED BY <1>1 DEF Alike

\* support_bounce and resistance_rejection.
LEMMA supportSame ==
  ASSUME NEW b, NEW c, NEW i \in Nat \ {0}, Agree(b, c, i)
  PROVE  supportBounce(b, i) = supportBounce(c, i) /\ resistanceRejection(b, i) = resistanceRejection(c, i)
<1>1. CASE i <= P(20)
  BY <1>1 DEF supportBounce, resistanceRejection
<1>2. CASE ~(i <= P(20))
  <2>1. i > P(20) /\ i \in 1 .. i
    BY <1>2, Periods
  <2>2. Support(b, i, P(20)) = Support(c, i, P(20)) /\ Resistance(b, i, P(20)) = Resistance(c, i, P(20))
    BY <2>1, Periods, LevelsSame
  <2>3. b[i] = c[i]
    BY SeenSame
  <2>4. /\ i \in DOMAIN RSI(Closes(b), P(14)) <=> i \in DOMAIN RSI(Closes(c), P(14))
        /\ i \in DOMAIN RSI(Closes(b), P(14)) => RSI(Closes(b), P(14))[i] = RSI(Closes(c), P(14))[i]
    BY <2>1, RSISame
  <2> DEFINE f == RSI(Closes(b), P(14))
             g == RSI(Closes(c), P(14))
             low == Support(b, i, P(20))
             high == Resistance(b, i, P(20))
  <2>5. supportBounce(b, i) = supportBounce(c, i)
    <3> DEFINE Met(x, level, r) == Says(1000 * x.low <= 1005 * level /\ x.close > level /\ r < 40, FALSE)
    <3>1. supportBounce(b, i) = IF i \notin DOMAIN f THEN {} ELSE Met(b[i], Support(b, i, P(20)), f[i])
      BY <1>2, ZenonT(40) DEF supportBounce
    <3>2. supportBounce(c, i) = IF i \notin DOMAIN g THEN {} ELSE Met(c[i], Support(c, i, P(20)), g[i])
      BY <1>2, ZenonT(40) DEF supportBounce
    <3>3. (i \in DOMAIN f <=> i \in DOMAIN g) /\ (i \in DOMAIN f => f[i] = g[i])
      BY <2>4
    <3> HIDE DEF f, g, low, high, Met
    <3> QED BY ONLY <2>2, <2>3, <3>1, <3>2, <3>3
  <2>6. resistanceRejection(b, i) = resistanceRejection(c, i)
    <3> DEFINE Met(x, level, r) == Says(FALSE, 1000 * x.high >= 995 * level /\ x.close < level /\ r > 60)
    <3>1. resistanceRejection(b, i) = IF i \notin DOMAIN f THEN {} ELSE Met(b[i], Resistance(b, i, P(20)), f[i])
      BY <1>2, ZenonT(40) DEF resistanceRejection
    <3>2. resistanceRejection(c, i) = IF i \notin DOMAIN g THEN {} ELSE Met(c[i], Resistance(c, i, P(20)), g[i])
      BY <1>2, ZenonT(40) DEF resistanceRejection
    <3>3. (i \in DOMAIN f <=> i \in DOMAIN g) /\ (i \in DOMAIN f => f[i] = g[i])
      BY <2>4
    <3> HIDE DEF f, g, low, high, Met
    <3> QED BY ONLY <2>2, <2>3, <3>1, <3>2, <3>3
  <2> QED BY <2>5, <2>6
<1> QED BY <1>1, <1>2

\* breakout and breakdown.
LEMMA breakSame ==
  ASSUME NEW b, NEW c, NEW i \in Nat \ {0}, Agree(b, c, i)
  PROVE  breakout(b, i) = breakout(c, i) /\ breakdown(b, i) = breakdown(c, i)
<1>1. CASE i <= P(20)
  BY <1>1 DEF breakout, breakdown
<1>2. CASE ~(i <= P(20))
  <2>1. i > P(20) /\ i \in 1 .. i
    BY <1>2, Periods
  <2>2. Support(b, i, P(20)) = Support(c, i, P(20)) /\ Resistance(b, i, P(20)) = Resistance(c, i, P(20))
    BY <2>1, Periods, LevelsSame
  <2>3. b[i] = c[i]
    BY SeenSame
  <2>4. AverageVolume(b, i) = AverageVolume(c, i) /\ Ratio(b, i, 15) = Ratio(c, i, 15)
    BY <2>1, VolumesSame
  <2> QED BY <2>2, <2>3, <2>4 DEF breakout, breakdown
<1> QED BY <1>1, <1>2

\* double_bottom and double_top.
LEMMA doubleSame ==
  ASSUME NEW b, NEW c, NEW i \in Nat \ {0}, Agree(b, c, i)
  PROVE  doubleBottom(b, i) = doubleBottom(c, i) /\ doubleTop(b, i) = doubleTop(c, i)
<1>1. CASE i <= P(40)
  BY <1>1 DEF doubleBottom, doubleTop
<1>2. CASE ~(i <= P(40))
  <2>1. i > P(40) /\ i - 1 \in 1 .. i
    BY <1>2, Periods
  <2>2. \A gap \in Gaps(i) : i - gap \in 1 .. i
    BY Periods DEF Gaps
  <2>3. b[i] = c[i] /\ b[i - 1] = c[i - 1] /\ \A gap \in Gaps(i) : b[i - gap] = c[i - gap]
    BY <2>1, <2>2, SeenSame
  <2>4. doubleBottom(b, i) = doubleBottom(c, i)
    <3> DEFINE Twice(x) == \E gap \in Gaps(i) :
                             /\ 100 * Distance(x[i - gap].low, x[i].low) < 2 * x[i - gap].low
                             /\ x[i].close > x[i - 1].close /\ 100 * x[i].close > 102 * x[i].low
    <3>1. Twice(b) = Twice(c)
      BY <2>3
    <3>2. doubleBottom(b, i) = Says(Twice(b), FALSE) /\ doubleBottom(c, i) = Says(Twice(c), FALSE)
      BY <1>2 DEF doubleBottom
    <3> HIDE DEF Twice
    <3> QED BY <3>1, <3>2
  <2>5. doubleTop(b, i) = doubleTop(c, i)
    <3> DEFINE Twice(x) == \E gap \in Gaps(i) :
                             /\ 100 * Distance(x[i - gap].high, x[i].high) < 2 * x[i - gap].high
                             /\ x[i].close < x[i - 1].close /\ 100 * x[i].close < 98 * x[i].high
    <3>1. Twice(b) = Twice(c)
      BY <2>3
    <3>2. doubleTop(b, i) = Says(FALSE, Twice(b)) /\ doubleTop(c, i) = Says(FALSE, Twice(c))
      BY <1>2 DEF doubleTop
    <3> HIDE DEF Twice
    <3> QED BY <3>1, <3>2
  <2> QED BY <2>4, <2>5
<1> QED BY <1>1, <1>2

\* bull_flag and bear_flag.
LEMMA flagSame ==
  ASSUME NEW b, NEW c, NEW i \in Nat \ {0}, Agree(b, c, i)
  PROVE  bullFlag(b, i) = bullFlag(c, i) /\ bearFlag(b, i) = bearFlag(c, i)
<1>1. CASE i <= P(15)
  BY <1>1 DEF bullFlag, bearFlag
<1>2. CASE ~(i <= P(15))
  <2> DEFINE from == i - P(5)
             to == i - 1
  <2>1. from \in 1 .. i /\ from \in Int /\ to \in Int /\ 1 <= from /\ to <= i /\ i - P(15) \in 1 .. i
    BY <1>2, Periods
  <2>2. SameWindow(b, c, from, to)
    <3> HIDE DEF from, to
    <3> QED BY <2>1, WindowsSame
  <2>3. FlagHigh(b, i) = FlagHigh(c, i) /\ FlagLow(b, i) = FlagLow(c, i)
    BY <2>2 DEF SameWindow, FlagHigh, FlagLow
  <2>4. b[i] = c[i] /\ b[i - P(5)] = c[i - P(5)] /\ b[i - P(15)] = c[i - P(15)]
    BY <2>1, SeenSame
  <2> HIDE DEF from, to
  <2> QED BY <2>3, <2>4 DEF bullFlag, bearFlag, TightFlag
<1> QED BY <1>1, <1>2

\* ascending_triangle.
LEMMA triangleSame ==
  ASSUME NEW b, NEW c, NEW i \in Nat \ {0}, Agree(b, c, i)
  PROVE  ascendingTriangle(b, i) = ascendingTriangle(c, i)
<1>1. CASE i <= P(30)
  BY <1>1 DEF ascendingTriangle
<1>2. CASE ~(i <= P(30))
  <2> DEFINE old == i - P(15)
             mid == i - P(13)
             new == i - P(2)
             last == i - 1
  <2>1. /\ old \in Int /\ mid \in Int /\ new \in Int /\ last \in Int /\ i \in Int
        /\ 1 <= old /\ mid <= i /\ 1 <= new /\ last <= i /\ i <= i
    BY <1>2, Periods
  <2>2. SameWindow(b, c, old, last) /\ SameWindow(b, c, old, mid) /\ SameWindow(b, c, new, i)
    <3> HIDE DEF old, mid, new, last
    <3> QED BY <2>1, WindowsSame
  <2>3. b[i] = c[i]
    BY SeenSame
  <2>4. /\ HighestHigh(b, old, last) = HighestHigh(c, old, last) /\ LowestHigh(b, old, last) = LowestHigh(c, old, last)
        /\ LowestLow(b, old, mid) = LowestLow(c, old, mid) /\ LowestLow(b, new, i) = LowestLow(c, new, i)
    BY <2>2 DEF SameWindow
  <2> DEFINE Triangle(top, bottom, firstLow, lastLow, x) ==
               Says(1000 * (top - bottom) <= 15 * bottom /\ lastLow > firstLow /\ x.close > top, FALSE)
  <2>5. /\ ascendingTriangle(b, i) = Triangle(HighestHigh(b, old, last), LowestHigh(b, old, last),
                                             LowestLow(b, old, mid), LowestLow(b, new, i), b[i])
        /\ ascendingTriangle(c, i) = Triangle(HighestHigh(c, old, last), LowestHigh(c, old, last),
                                             LowestLow(c, old, mid), LowestLow(c, new, i), c[i])
    BY <1>2 DEF ascendingTriangle
  <2> HIDE DEF Triangle, old, mid, new, last
  <2> QED BY <2>3, <2>4, <2>5
<1> QED BY <1>1, <1>2

\* fibonacci_retracement.
LEMMA fibonacciSame ==
  ASSUME NEW b, NEW c, NEW i \in Nat \ {0}, Agree(b, c, i)
  PROVE  fibonacciRetracement(b, i) = fibonacciRetracement(c, i)
<1>1. CASE i <= P(30)
  BY <1>1 DEF fibonacciRetracement
<1>2. CASE ~(i <= P(30))
  <2> DEFINE old == i - P(30)
             mid == i - P(5) - 1
  <2>1. old \in Int /\ mid \in Int /\ 1 <= old /\ mid <= i /\ i - 1 \in 1 .. i
    BY <1>2, Periods
  <2>2. SameWindow(b, c, old, mid)
    <3> HIDE DEF old, mid
    <3> QED BY <2>1, WindowsSame
  <2>3. b[i] = c[i] /\ b[i - 1] = c[i - 1]
    BY <2>1, SeenSame
  <2>4. \A top, range, t : Bounces(b, i, top, range, t) = Bounces(c, i, top, range, t)
    BY <2>3 DEF Bounces
  <2>5. HighestHigh(b, old, mid) = HighestHigh(c, old, mid) /\ LowestLow(b, old, mid) = LowestLow(c, old, mid)
    BY <2>2 DEF SameWindow
  <2> DEFINE Bounced(x, top, range) == Says(range > 0 /\ \E t \in {618, 500} : Bounces(x, i, top, range, t), FALSE)
  <2>6. \A top, range : Bounced(b, top, range) = Bounced(c, top, range)
    <3> TAKE top, range
    <3> DEFINE one == \E t \in {618, 500} : Bounces(b, i, top, range, t)
               two == \E t \in {618, 500} : Bounces(c, i, top, range, t)
    <3>1. one = two
      BY ONLY <2>4
    <3>2. Bounced(b, top, range) = Says(range > 0 /\ one, FALSE) /\ Bounced(c, top, range) = Says(range > 0 /\ two, FALSE)
      OBVIOUS
    <3> HIDE DEF one, two, Bounced
    <3> QED BY ONLY <3>1, <3>2
  <2>7. fibonacciRetracement(b, i) = Bounced(b, HighestHigh(b, old, mid), HighestHigh(b, old, mid) - LowestLow(b, old, mid))
    BY <1>2 DEF fibonacciRetracement
  <2>8. fibonacciRetracement(c, i) = Bounced(c, HighestHigh(c, old, mid), HighestHigh(c, old, mid) - LowestLow(c, old, mid))
    BY <1>2 DEF fibonacciRetracement
  <2> HIDE DEF Bounced, old, mid
  <2> QED BY ONLY <2>5, <2>6, <2>7, <2>8
<1> QED BY <1>1, <1>2

\* vwap_bounce.
LEMMA vwapSame ==
  ASSUME NEW b, NEW c, NEW i \in Nat \ {0}, Agree(b, c, i)
  PROVE  vwapBounce(b, i) = vwapBounce(c, i)
<1>1. CASE i < 3
  BY <1>1 DEF vwapBounce
<1>2. CASE ~(i < 3)
  <2>1. i - 1 \in 1 .. i /\ i - 2 \in 1 .. i /\ i \in 1 .. i
    BY <1>2
  <2>2. \A j \in {i - 2, i - 1, i} : Closes(b)[j] = Closes(c)[j] /\ VWAP(b)[j] = VWAP(c)[j]
    BY <2>1, SeenSame
  <2> QED BY <1>2, <2>2 DEF vwapBounce
<1> QED BY <1>1, <1>2

\* ichimoku_cloud.
LEMMA cloudSame ==
  ASSUME NEW b, NEW c, NEW i \in Nat \ {0}, Agree(b, c, i)
  PROVE  ichimokuCloud(b, i) = ichimokuCloud(c, i)
<1> DEFINE f == EMA(Closes(b), P(9))
           g == EMA(Closes(c), P(9))
           u == EMA(Closes(b), P(21))
           v == EMA(Closes(c), P(21))
           x == SMA(Closes(b), P(50))
           y == SMA(Closes(c), P(50))
<1>1. Alike(f, g, i) /\ Alike(u, v, i) /\ Alike(x, y, i)
  BY Periods, IndicatorsAlike
<1>2. SamePair(f, g, u, v, i) /\ SamePair(x, y, x, y, i)
  <2> HIDE DEF f, g, u, v, x, y
  <2>1. SamePair(f, g, u, v, i)
    BY ONLY <1>1, i \in Nat \ {0}, BothSame
  <2>2. SamePair(x, y, x, y, i)
    BY ONLY <1>1, i \in Nat \ {0}, BothSame
  <2> QED BY <2>1, <2>2
<1>3. Closes(b)[i] = Closes(c)[i] /\ (i - 1 \in 1 .. i => Closes(b)[i - 1] = Closes(c)[i - 1])
  BY SeenSame
<1> QED BY <1>2, <1>3 DEF SamePair, ichimokuCloud

\* range_bound.
LEMMA rangeSame ==
  ASSUME NEW b, NEW c, NEW i \in Nat \ {0}, Agree(b, c, i)
  PROVE  rangeBound(b, i) = rangeBound(c, i)
<1>1. CASE i <= P(30)
  BY <1>1 DEF rangeBound
<1>2. CASE ~(i <= P(30))
  <2>1. i > P(30) /\ i \in 1 .. i
    BY <1>2, Periods
  <2>2. Support(b, i, P(30)) = Support(c, i, P(30)) /\ Resistance(b, i, P(30)) = Resistance(c, i, P(30))
    BY <2>1, Periods, LevelsSame
  <2>3. b[i] = c[i]
    BY SeenSame
  <2>4. /\ i \in DOMAIN RSI(Closes(b), P(14)) <=> i \in DOMAIN RSI(Closes(c), P(14))
        /\ i \in DOMAIN RSI(Closes(b), P(14)) => RSI(Closes(b), P(14))[i] = RSI(Closes(c), P(14))[i]
    BY <2>1, RSISame
  <2> QED BY <2>2, <2>3, <2>4 DEF rangeBound
<1> QED BY <1>1, <1>2

\* cup_and_handle.
LEMMA cupSame ==
  ASSUME NEW b, NEW c, NEW i \in Nat \ {0}, Agree(b, c, i)
  PROVE  cupAndHandle(b, i) = cupAndHandle(c, i)
<1>1. CASE i <= P(40)
  BY <1>1 DEF cupAndHandle
<1>2. CASE ~(i <= P(40))
  <2> DEFINE old == i - P(30)
             mid == i - P(10) - 1
             new == i - P(5)
             last == i - 1
  <2>1. /\ old \in Int /\ mid \in Int /\ new \in Int /\ last \in Int
        /\ 1 <= old /\ mid <= i /\ 1 <= new /\ last <= i /\ new \in 1 .. i /\ i - P(35) \in 1 .. i
    BY <1>2, Periods
  <2>2. SameWindow(b, c, old, mid) /\ SameWindow(b, c, new, last)
    <3> HIDE DEF old, mid, new, last
    <3> QED BY <2>1, WindowsSame
  <2>3. b[i] = c[i] /\ b[i - P(5)] = c[i - P(5)] /\ b[i - P(35)] = c[i - P(35)]
    BY <2>1, SeenSame
  <2> QED BY <2>2, <2>3 DEF cupAndHandle, SameWindow
<1> QED BY <1>1, <1>2

\* head_and_shoulders.
LEMMA shouldersSame ==
  ASSUME NEW b, NEW c, NEW i \in Nat \ {0}, Agree(b, c, i)
  PROVE  headAndShoulders(b, i) = headAndShoulders(c, i)
<1>1. CASE i <= P(40)
  BY <1>1 DEF headAndShoulders
<1>2. CASE ~(i <= P(40))
  <2> DEFINE f1 == i - P(35)
             t1 == i - P(25) - 1
             f2 == i - P(25)
             t2 == i - P(10) - 1
             f3 == i - P(10)
             t3 == i - 1
             f4 == i - P(30)
             t4 == i - P(5) - 1
  <2>1. /\ f1 \in Int /\ t1 \in Int /\ 1 <= f1 /\ t1 <= i
        /\ f2 \in Int /\ t2 \in Int /\ 1 <= f2 /\ t2 <= i
        /\ f3 \in Int /\ t3 \in Int /\ 1 <= f3 /\ t3 <= i
        /\ f4 \in Int /\ t4 \in Int /\ 1 <= f4 /\ t4 <= i /\ i - 1 \in 1 .. i
    BY <1>2, Periods
  <2>2. SameWindow(b, c, f1, t1) /\ SameWindow(b, c, f2, t2) /\ SameWindow(b, c, f3, t3) /\ SameWindow(b, c, f4, t4)
    <3> HIDE DEF f1, f2, f3, f4, t1, t2, t3, t4
    <3> QED BY <2>1, WindowsSame
  <2>3. b[i] = c[i] /\ b[i - 1] = c[i - 1]
    BY <2>1, SeenSame
  <2> QED BY <2>2, <2>3 DEF headAndShoulders, SameWindow
<1> QED BY <1>1, <1>2

\* The session of a bar starts no later than the bar.
LEMMA SessionFacts ==
  ASSUME NEW b, NEW m \in Nat \ {0}
  PROVE  SessionStart(b, m) \in 1 .. m
<1> DEFINE S == {1} \union {j \in 1 .. m : b[j].opens}
<1>1. S \subseteq 1 .. m /\ S # {} /\ 1 .. m \subseteq Int
  OBVIOUS
<1>2. IsFiniteSet(1 .. m)
  BY FS_Interval
<1>3. IsFiniteSet(S)
  <2> HIDE DEF S
  <2> QED BY <1>1, <1>2, FS_Subset
<1>4. SessionStart(b, m) = Max(S)
  BY DEF SessionStart
<1> HIDE DEF S
<1>5. Max(S) \in S
  BY <1>1, <1>3, MaxFacts
<1> QED BY <1>1, <1>4, <1>5

\* The session of a bar begins at the same bar in both histories.
LEMMA SessionSame ==
  ASSUME NEW b, NEW c, NEW i \in Nat \ {0}, Agree(b, c, i)
  PROVE  \A m \in 1 .. i : SessionStart(b, m) = SessionStart(c, m) /\ SessionStart(b, m) \in 1 .. m
<1>1. \A j \in 1 .. i : b[j] = c[j]
  BY DEF Agree, Same
<1> SUFFICES ASSUME NEW m \in 1 .. i
             PROVE  SessionStart(b, m) = SessionStart(c, m) /\ SessionStart(b, m) \in 1 .. m
  OBVIOUS
<1>2. {j \in 1 .. m : b[j].opens} = {j \in 1 .. m : c[j].opens}
  <2>1. \A j \in 1 .. m : b[j] = c[j]
    BY <1>1
  <2> QED BY <2>1
<1>3. SessionStart(b, m) = SessionStart(c, m)
  BY <1>2 DEF SessionStart
<1> QED BY <1>3, SessionFacts

\* vwap_reclaim.
LEMMA reclaimSame ==
  ASSUME NEW b, NEW c, NEW i \in Nat \ {0}, Agree(b, c, i)
  PROVE  vwapReclaim(b, i) = vwapReclaim(c, i)
<1>1. CASE i <= P(21)
  BY <1>1 DEF vwapReclaim
<1>2. CASE ~(i <= P(21))
  <2>1. i > P(20) /\ i - 1 \in 1 .. i /\ i \in 1 .. i
    BY <1>2, Periods
  <2>2. AverageVolume(b, i) = AverageVolume(c, i) /\ Ratio(b, i, 10) = Ratio(c, i, 10)
    BY <2>1, VolumesSame
  <2>3. \A j \in {i - 1, i} : Closes(b)[j] = Closes(c)[j] /\ VWAP(b)[j] = VWAP(c)[j]
    BY <2>1, SeenSame
  <2> QED BY <2>2, <2>3 DEF vwapReclaim
<1> QED BY <1>1, <1>2

\* What the gap strategies take from the session and the one before it.
LEMMA GapSame ==
  ASSUME NEW b, NEW c, NEW i \in Nat \ {0}, Agree(b, c, i)
  PROVE  /\ SessionStart(b, i) = SessionStart(c, i) /\ SessionStart(b, i) \in 1 .. i
         /\ Gapped(b, i) = Gapped(c, i)
         /\ Gapped(b, i) => /\ SessionStart(b, i) - 1 \in 1 .. i
                            /\ PriorClose(b, i) = PriorClose(c, i) /\ GapOf(b, i) = GapOf(c, i)
<1>1. SessionStart(b, i) = SessionStart(c, i) /\ SessionStart(b, i) \in 1 .. i
  BY SessionSame
<1>2. Gapped(b, i) = Gapped(c, i)
  BY <1>1 DEF Gapped
<1>3. ASSUME Gapped(b, i)
      PROVE  SessionStart(b, i) - 1 \in 1 .. i /\ PriorClose(b, i) = PriorClose(c, i) /\ GapOf(b, i) = GapOf(c, i)
  <2> DEFINE start == SessionStart(b, i)
  <2>1. start - 1 \in 1 .. i /\ start \in 1 .. i
    BY <1>1, <1>3 DEF Gapped
  <2>2. b[start - 1] = c[start - 1] /\ b[start] = c[start]
    <3> HIDE DEF start
    <3> QED BY <2>1, SeenSame
  <2> QED BY <1>1, <2>1, <2>2 DEF PriorClose, GapOf
<1> QED BY <1>1, <1>2, <1>3

\* gap_and_go.
LEMMA gapSame ==
  ASSUME NEW b, NEW c, NEW i \in Nat \ {0}, Agree(b, c, i)
  PROVE  gapAndGo(b, i) = gapAndGo(c, i)
<1> DEFINE start == SessionStart(b, i)
<1>1. start = SessionStart(c, i) /\ start \in 1 .. i /\ Gapped(b, i) = Gapped(c, i)
  BY GapSame
<1>2. CASE ~Gapped(b, i) \/ i # start + 2
  BY <1>1, <1>2 DEF gapAndGo
<1>3. CASE ~(~Gapped(b, i) \/ i # start + 2)
  <2>1. /\ PriorClose(b, i) = PriorClose(c, i) /\ GapOf(b, i) = GapOf(c, i)
        /\ start - 1 \in 1 .. i /\ i - 1 \in 1 .. i /\ i \in 1 .. i /\ i = start + 2
    BY <1>1, <1>3, GapSame
  <2> DEFINE first == SessionStart(b, start - 1)
             last == start - 1
  <2>2. first = SessionStart(c, start - 1) /\ first \in 1 .. last /\ last \in 1 .. i
    <3> HIDE DEF start
    <3> QED BY <2>1, SessionSame
  <2>3. first \in Int /\ 1 <= first /\ last \in Int /\ last <= i /\ start \in Int /\ 1 <= start /\ i \in Int /\ i <= i
    BY <1>1, <2>1, <2>2
  <2>4. SameWindow(b, c, first, last) /\ SameWindow(b, c, start, i)
    <3> HIDE DEF first, last, start
    <3> QED BY <2>3, WindowsSame
  <2>5. VolumeOver(b, first, last) = VolumeOver(c, first, last) /\ VolumeOver(b, start, i) = VolumeOver(c, start, i)
    BY <2>4 DEF SameWindow
  <2>6. \A j \in {i - 1, i} : Closes(b)[j] = Closes(c)[j] /\ VWAP(b)[j] = VWAP(c)[j]
    BY <2>1, SeenSame
  <2> DEFINE Go(x, from, to, prior, gap, close, now) ==
               Says(/\ 100 * gap >= close
                    /\ Closes(x)[i - 1] > VWAP(x)[i - 1] /\ Closes(x)[i] > VWAP(x)[i]
                    /\ ~(prior > 0 /\ 10 * Cardinality(from .. to) * now < 12 * 3 * prior), FALSE)
  <2>7. gapAndGo(b, i) = Go(b, first, last, VolumeOver(b, first, last), GapOf(b, i), PriorClose(b, i), VolumeOver(b, start, i))
    BY <1>3 DEF gapAndGo
  <2>8. gapAndGo(c, i) = Go(c, first, last, VolumeOver(c, first, last), GapOf(c, i), PriorClose(c, i), VolumeOver(c, start, i))
    <3> DEFINE s2 == SessionStart(c, i)
               f2 == SessionStart(c, s2 - 1)
    <3>1. ~(~Gapped(c, i) \/ i # s2 + 2)
      BY <1>1, <1>3
    <3>2. gapAndGo(c, i) = Go(c, f2, s2 - 1, VolumeOver(c, f2, s2 - 1), GapOf(c, i), PriorClose(c, i), VolumeOver(c, s2, i))
      BY <3>1 DEF gapAndGo
    <3>3. s2 = start /\ f2 = first /\ s2 - 1 = last
      BY <1>1, <2>2
    <3> HIDE DEF s2, f2, first, last, start, Go
    <3> QED BY ONLY <3>2, <3>3, Zenon
  <2>9. \A from, to, prior, gap, close, now : Go(b, from, to, prior, gap, close, now) = Go(c, from, to, prior, gap, close, now)
    <3> TAKE from, to, prior, gap, close, now
    <3> DEFINE one == Closes(b)[i - 1] > VWAP(b)[i - 1] /\ Closes(b)[i] > VWAP(b)[i]
               two == Closes(c)[i - 1] > VWAP(c)[i - 1] /\ Closes(c)[i] > VWAP(c)[i]
               wide == 100 * gap >= close
               quiet == prior > 0 /\ 10 * Cardinality(from .. to) * now < 12 * 3 * prior
    <3>1. one = two
      BY <2>6
    <3>2. /\ Go(b, from, to, prior, gap, close, now) = Says(/\ wide /\ one /\ ~quiet, FALSE)
          /\ Go(c, from, to, prior, gap, close, now) = Says(/\ wide /\ two /\ ~quiet, FALSE)
      BY Zenon
    <3> HIDE DEF one, two, wide, quiet, Go
    <3> QED BY <3>1, <3>2
  <2> HIDE DEF Go, first, last, start
  <2> QED BY <2>1, <2>5, <2>7, <2>8, <2>9
<1> QED BY <1>2, <1>3

\* gap_fill_fade.
LEMMA fadeSame ==
  ASSUME NEW b, NEW c, NEW i \in Nat \ {0}, Agree(b, c, i)
  PROVE  gapFillFade(b, i) = gapFillFade(c, i)
<1> DEFINE start == SessionStart(b, i)
<1>1. start = SessionStart(c, i) /\ start \in 1 .. i /\ Gapped(b, i) = Gapped(c, i)
  BY GapSame
<1>2. CASE ~Gapped(b, i) \/ i = start \/ i > start + P(6)
  BY <1>1, <1>2 DEF gapFillFade
<1>3. CASE ~(~Gapped(b, i) \/ i = start \/ i > start + P(6))
  <2>1. PriorClose(b, i) = PriorClose(c, i) /\ GapOf(b, i) = GapOf(c, i)
    BY <1>1, <1>3, GapSame
  <2> DEFINE Fills(x, gap, close, k) == gap > 0 /\ x[k].close < close /\ x[k - 1].close >= close
             Reverses(x, gap, close, k) == gap < 0 /\ x[k].close > close /\ x[k - 1].close <= close
             Fade(x, gap, close) ==
               IF \E k \in start + 1 .. i - 1 : Fills(x, gap, close, k) \/ Reverses(x, gap, close, k) THEN {}
               ELSE Says(1000 * Distance(gap, 0) >= 15 * close /\ Reverses(x, gap, close, i),
                         1000 * Distance(gap, 0) >= 15 * close /\ Fills(x, gap, close, i))
  <2>2. gapFillFade(b, i) = Fade(b, GapOf(b, i), PriorClose(b, i))
    BY <1>3 DEF gapFillFade
  <2>3. gapFillFade(c, i) = Fade(c, GapOf(c, i), PriorClose(c, i))
    BY <1>1, <1>3 DEF gapFillFade
  <2>4. \A k \in start + 1 .. i : k \in 1 .. i /\ k - 1 \in 1 .. i
    BY <1>1
  <2>5. \A k \in start + 1 .. i : b[k] = c[k] /\ b[k - 1] = c[k - 1]
    <3> HIDE DEF start
    <3> QED BY <2>4, SeenSame
  <2>6. \A gap, close : \A k \in start + 1 .. i :
           Fills(b, gap, close, k) = Fills(c, gap, close, k) /\ Reverses(b, gap, close, k) = Reverses(c, gap, close, k)
    <3> HIDE DEF start
    <3> QED BY <2>5
  <2>7. i \in start + 1 .. i /\ start + 1 .. i - 1 \subseteq start + 1 .. i
    BY <1>1, <1>3
  <2>8. \A gap, close : Fade(b, gap, close) = Fade(c, gap, close)
    <3> HIDE DEF start, Fills, Reverses
    <3> TAKE gap, close
    <3>1. (\E k \in start + 1 .. i - 1 : Fills(b, gap, close, k) \/ Reverses(b, gap, close, k))
           = (\E k \in start + 1 .. i - 1 : Fills(c, gap, close, k) \/ Reverses(c, gap, close, k))
      BY <2>6, <2>7
    <3>2. Fills(b, gap, close, i) = Fills(c, gap, close, i) /\ Reverses(b, gap, close, i) = Reverses(c, gap, close, i)
      BY <2>6, <2>7
    <3> QED BY <3>1, <3>2
  <2> HIDE DEF Fade
  <2> QED BY <2>1, <2>2, <2>3, <2>8
<1> QED BY <1>2, <1>3

\* momentum_burst.
LEMMA burstSame ==
  ASSUME NEW b, NEW c, NEW i \in Nat \ {0}, Agree(b, c, i)
  PROVE  momentumBurst(b, i) = momentumBurst(c, i)
<1>1. SessionStart(b, i) = SessionStart(c, i) /\ SessionStart(b, i) \in 1 .. i
  BY GapSame
<1>2. CASE i <= P(22) \/ SessionStart(b, i) > i - 2
  BY <1>1, <1>2 DEF momentumBurst
<1>3. CASE ~(i <= P(22) \/ SessionStart(b, i) > i - 2)
  <2>1. i > P(20) /\ \A k \in i - 2 .. i : k \in 1 .. i
    BY <1>1, <1>3, Periods
  <2>2. AverageVolume(b, i) = AverageVolume(c, i)
    BY <2>1, VolumesSame
  <2>3. \A k \in i - 2 .. i : b[k] = c[k] /\ Closes(b)[k] = Closes(c)[k] /\ VWAP(b)[k] = VWAP(c)[k]
    BY <2>1, SeenSame
  <2> DEFINE Burst(x, volume) ==
               Says(volume > 0
                    /\ \A k \in i - 2 .. i : /\ x[k].close > x[k].open /\ Closes(x)[k] > VWAP(x)[k]
                                             /\ k > i - 2 => 10 * P(20) * x[k].volume > 15 * volume, FALSE)
  <2>4. momentumBurst(b, i) = Burst(b, AverageVolume(b, i))
    BY <1>3 DEF momentumBurst
  <2>5. momentumBurst(c, i) = Burst(c, AverageVolume(c, i))
    BY <1>1, <1>3 DEF momentumBurst
  <2>6. \A volume : Burst(b, volume) = Burst(c, volume)
    <3> TAKE volume
    <3> DEFINE Strong(x, k) == /\ x[k].close > x[k].open /\ Closes(x)[k] > VWAP(x)[k]
                               /\ k > i - 2 => 10 * P(20) * x[k].volume > 15 * volume
    <3>1. \A k \in i - 2 .. i : Strong(b, k) = Strong(c, k)
      BY <2>3
    <3> DEFINE one == \A k \in i - 2 .. i : Strong(b, k)
               two == \A k \in i - 2 .. i : Strong(c, k)
    <3>2. one = two
      <4> HIDE DEF Strong
      <4> QED BY <3>1
    <3>3. Burst(b, volume) = Says(volume > 0 /\ one, FALSE) /\ Burst(c, volume) = Says(volume > 0 /\ two, FALSE)
      OBVIOUS
    <3> HIDE DEF one, two, Burst
    <3> QED BY ONLY <3>2, <3>3, Zenon
  <2> HIDE DEF Burst
  <2> QED BY <2>2, <2>4, <2>5, <2>6
<1> QED BY <1>2, <1>3

\* rsi_divergence_5m.
LEMMA divergenceSame ==
  ASSUME NEW b, NEW c, NEW i \in Nat \ {0}, Agree(b, c, i)
  PROVE  rsiDivergence(b, i) = rsiDivergence(c, i)
<1> DEFINE f == RSI(Closes(b), P(14))
           g == RSI(Closes(c), P(14))
           back == i - P(10)
<1>1. SessionStart(b, i) = SessionStart(c, i)
  BY GapSame
<1>2. CASE i <= P(10) + 2
  BY <1>2 DEF rsiDivergence
<1>3. CASE ~(i <= P(10) + 2)
  <2>1. back \in 1 .. i /\ i \in 1 .. i
    BY <1>3, Periods
  <2>2. \A j \in {back, i} : (j \in DOMAIN f <=> j \in DOMAIN g) /\ (j \in DOMAIN f => f[j] = g[j])
    BY <2>1, RSISame
  <2>3. b[i] = c[i] /\ b[back] = c[back]
    BY <2>1, SeenSame
  <2> DEFINE Diverges(old, new, before, now) ==
               Says(new.low < old.low /\ now > before /\ now < 40, new.high > old.high /\ now < before /\ now > 60)
  <2>4. rsiDivergence(b, i) = IF {back, i} \ DOMAIN f # {} \/ SessionStart(b, i) > back THEN {}
                              ELSE Diverges(b[back], b[i], f[back], f[i])
    BY <1>3 DEF rsiDivergence
  <2>5. rsiDivergence(c, i) = IF {back, i} \ DOMAIN g # {} \/ SessionStart(c, i) > back THEN {}
                              ELSE Diverges(c[back], c[i], g[back], g[i])
    BY <1>3 DEF rsiDivergence
  <2>6. {back, i} \ DOMAIN f # {} <=> {back, i} \ DOMAIN g # {}
    <3> HIDE DEF f, g, back
    <3> QED BY <2>2
  <2>7. ~({back, i} \ DOMAIN f # {}) => f[back] = g[back] /\ f[i] = g[i]
    <3> HIDE DEF f, g, back
    <3> QED BY <2>2
  <2> HIDE DEF f, g, back, Diverges
  <2> QED BY <1>1, <2>3, <2>4, <2>5, <2>6, <2>7
<1> QED BY <1>2, <1>3

\* What the registry gives to each name.
LEMMA RegistryFacts ==
  ASSUME NEW b, NEW i
  PROVE  /\ SignalsAt("macd_crossover", b, i) = macdCrossover(b, i)
         /\ SignalsAt("rsi_oversold", b, i) = rsiOversoldOverbought(b, i)
         /\ SignalsAt("golden_cross", b, i) = goldenDeathCross(b, i)
         /\ SignalsAt("ema_bounce", b, i) = emaBounce(b, i)
         /\ SignalsAt("bollinger_bounce", b, i) = bollingerBounce(b, i)
         /\ SignalsAt("bollinger_squeeze", b, i) = bollingerSqueeze(b, i)
         /\ SignalsAt("stochastic_crossover", b, i) = stochasticCrossover(b, i)
         /\ SignalsAt("volume_breakout", b, i) = volumeBreakout(b, i)
         /\ SignalsAt("mean_reversion", b, i) = meanReversion(b, i)
         /\ SignalsAt("trend_following", b, i) = trendFollowing(b, i)
         /\ SignalsAt("support_bounce", b, i) = supportBounce(b, i)
         /\ SignalsAt("resistance_rejection", b, i) = resistanceRejection(b, i)
         /\ SignalsAt("breakout", b, i) = breakout(b, i)
         /\ SignalsAt("breakdown", b, i) = breakdown(b, i)
         /\ SignalsAt("double_bottom", b, i) = doubleBottom(b, i)
         /\ SignalsAt("double_top", b, i) = doubleTop(b, i)
         /\ SignalsAt("bull_flag", b, i) = bullFlag(b, i)
         /\ SignalsAt("bear_flag", b, i) = bearFlag(b, i)
         /\ SignalsAt("ascending_triangle", b, i) = ascendingTriangle(b, i)
         /\ SignalsAt("fibonacci_retracement", b, i) = fibonacciRetracement(b, i)
         /\ SignalsAt("vwap_bounce", b, i) = vwapBounce(b, i)
         /\ SignalsAt("ichimoku_cloud", b, i) = ichimokuCloud(b, i)
         /\ SignalsAt("range_bound", b, i) = rangeBound(b, i)
         /\ SignalsAt("cup_and_handle", b, i) = cupAndHandle(b, i)
         /\ SignalsAt("head_and_shoulders", b, i) = headAndShoulders(b, i)
         /\ SignalsAt("opening_range_breakout", b, i) = openingRangeBreakout(b, i)
         /\ SignalsAt("vwap_reclaim", b, i) = vwapReclaim(b, i)
         /\ SignalsAt("gap_and_go", b, i) = gapAndGo(b, i)
         /\ SignalsAt("gap_fill_fade", b, i) = gapFillFade(b, i)
         /\ SignalsAt("momentum_burst", b, i) = momentumBurst(b, i)
         /\ SignalsAt("rsi_divergence_5m", b, i) = rsiDivergence(b, i)
BY DEF SignalsAt

\* A strategy says nothing of a bar that a bar after it could change.
LEMMA SignalsSame ==
  ASSUME NEW b, NEW c, NEW i \in Nat \ {0}, Agree(b, c, i), NEW s \in STRATEGIES \ {"opening_range_breakout"}
  PROVE  SignalsAt(s, b, i) = SignalsAt(s, c, i)
<1>0. i \in Nat \ {0} /\ Agree(b, c, i)
  OBVIOUS
<1>1. CASE s = "macd_crossover"
  <2>1. macdCrossover(b, i) = macdCrossover(c, i)
    BY ONLY <1>0, macdSame
  <2> QED BY <1>1, <2>1, RegistryFacts
<1>2. CASE s = "rsi_oversold"
  <2>1. rsiOversoldOverbought(b, i) = rsiOversoldOverbought(c, i)
    BY ONLY <1>0, rsiSame
  <2> QED BY <1>2, <2>1, RegistryFacts
<1>3. CASE s = "golden_cross"
  <2>1. goldenDeathCross(b, i) = goldenDeathCross(c, i)
    BY ONLY <1>0, goldenSame
  <2> QED BY <1>3, <2>1, RegistryFacts
<1>4. CASE s = "ema_bounce"
  <2>1. emaBounce(b, i) = emaBounce(c, i)
    BY ONLY <1>0, emaSame
  <2> QED BY <1>4, <2>1, RegistryFacts
<1>5. CASE s = "bollinger_bounce"
  <2>1. bollingerBounce(b, i) = bollingerBounce(c, i)
    BY ONLY <1>0, bounceSame
  <2> QED BY <1>5, <2>1, RegistryFacts
<1>6. CASE s = "bollinger_squeeze"
  <2>1. bollingerSqueeze(b, i) = bollingerSqueeze(c, i)
    BY ONLY <1>0, squeezeSame
  <2> QED BY <1>6, <2>1, RegistryFacts
<1>7. CASE s = "stochastic_crossover"
  <2>1. stochasticCrossover(b, i) = stochasticCrossover(c, i)
    BY ONLY <1>0, stochasticSame
  <2> QED BY <1>7, <2>1, RegistryFacts
<1>8. CASE s = "volume_breakout"
  <2>1. volumeBreakout(b, i) = volumeBreakout(c, i)
    BY ONLY <1>0, volumeSame
  <2> QED BY <1>8, <2>1, RegistryFacts
<1>9. CASE s = "mean_reversion"
  <2>1. meanReversion(b, i) = meanReversion(c, i)
    BY ONLY <1>0, reversionSame
  <2> QED BY <1>9, <2>1, RegistryFacts
<1>10. CASE s = "trend_following"
  <2>1. trendFollowing(b, i) = trendFollowing(c, i)
    BY ONLY <1>0, trendSame
  <2> QED BY <1>10, <2>1, RegistryFacts
<1>11. CASE s = "support_bounce"
  <2>1. supportBounce(b, i) = supportBounce(c, i)
    BY ONLY <1>0, supportSame
  <2> QED BY <1>11, <2>1, RegistryFacts
<1>12. CASE s = "resistance_rejection"
  <2>1. resistanceRejection(b, i) = resistanceRejection(c, i)
    BY ONLY <1>0, supportSame
  <2> QED BY <1>12, <2>1, RegistryFacts
<1>13. CASE s = "breakout"
  <2>1. breakout(b, i) = breakout(c, i)
    BY ONLY <1>0, breakSame
  <2> QED BY <1>13, <2>1, RegistryFacts
<1>14. CASE s = "breakdown"
  <2>1. breakdown(b, i) = breakdown(c, i)
    BY ONLY <1>0, breakSame
  <2> QED BY <1>14, <2>1, RegistryFacts
<1>15. CASE s = "double_bottom"
  <2>1. doubleBottom(b, i) = doubleBottom(c, i)
    BY ONLY <1>0, doubleSame
  <2> QED BY <1>15, <2>1, RegistryFacts
<1>16. CASE s = "double_top"
  <2>1. doubleTop(b, i) = doubleTop(c, i)
    BY ONLY <1>0, doubleSame
  <2> QED BY <1>16, <2>1, RegistryFacts
<1>17. CASE s = "bull_flag"
  <2>1. bullFlag(b, i) = bullFlag(c, i)
    BY ONLY <1>0, flagSame
  <2> QED BY <1>17, <2>1, RegistryFacts
<1>18. CASE s = "bear_flag"
  <2>1. bearFlag(b, i) = bearFlag(c, i)
    BY ONLY <1>0, flagSame
  <2> QED BY <1>18, <2>1, RegistryFacts
<1>19. CASE s = "ascending_triangle"
  <2>1. ascendingTriangle(b, i) = ascendingTriangle(c, i)
    BY ONLY <1>0, triangleSame
  <2> QED BY <1>19, <2>1, RegistryFacts
<1>20. CASE s = "fibonacci_retracement"
  <2>1. fibonacciRetracement(b, i) = fibonacciRetracement(c, i)
    BY ONLY <1>0, fibonacciSame
  <2> QED BY <1>20, <2>1, RegistryFacts
<1>21. CASE s = "vwap_bounce"
  <2>1. vwapBounce(b, i) = vwapBounce(c, i)
    BY ONLY <1>0, vwapSame
  <2> QED BY <1>21, <2>1, RegistryFacts
<1>22. CASE s = "ichimoku_cloud"
  <2>1. ichimokuCloud(b, i) = ichimokuCloud(c, i)
    BY ONLY <1>0, cloudSame
  <2> QED BY <1>22, <2>1, RegistryFacts
<1>23. CASE s = "range_bound"
  <2>1. rangeBound(b, i) = rangeBound(c, i)
    BY ONLY <1>0, rangeSame
  <2> QED BY <1>23, <2>1, RegistryFacts
<1>24. CASE s = "cup_and_handle"
  <2>1. cupAndHandle(b, i) = cupAndHandle(c, i)
    BY ONLY <1>0, cupSame
  <2> QED BY <1>24, <2>1, RegistryFacts
<1>25. CASE s = "head_and_shoulders"
  <2>1. headAndShoulders(b, i) = headAndShoulders(c, i)
    BY ONLY <1>0, shouldersSame
  <2> QED BY <1>25, <2>1, RegistryFacts
<1>26. CASE s = "vwap_reclaim"
  <2>1. vwapReclaim(b, i) = vwapReclaim(c, i)
    BY ONLY <1>0, reclaimSame
  <2> QED BY <1>26, <2>1, RegistryFacts
<1>27. CASE s = "gap_and_go"
  <2>1. gapAndGo(b, i) = gapAndGo(c, i)
    BY ONLY <1>0, gapSame
  <2> QED BY <1>27, <2>1, RegistryFacts
<1>28. CASE s = "gap_fill_fade"
  <2>1. gapFillFade(b, i) = gapFillFade(c, i)
    BY ONLY <1>0, fadeSame
  <2> QED BY <1>28, <2>1, RegistryFacts
<1>29. CASE s = "momentum_burst"
  <2>1. momentumBurst(b, i) = momentumBurst(c, i)
    BY ONLY <1>0, burstSame
  <2> QED BY <1>29, <2>1, RegistryFacts
<1>30. CASE s = "rsi_divergence_5m"
  <2>1. rsiDivergence(b, i) = rsiDivergence(c, i)
    BY ONLY <1>0, divergenceSame
  <2> QED BY <1>30, <2>1, RegistryFacts
<1> QED BY <1>1, <1>2, <1>3, <1>4, <1>5, <1>6, <1>7, <1>8, <1>9, <1>10, <1>11, <1>12, <1>13, <1>14, <1>15, <1>16, <1>17, <1>18, <1>19, <1>20, <1>21, <1>22, <1>23, <1>24, <1>25, <1>26, <1>27, <1>28, <1>29, <1>30 DEF STRATEGIES, Daily, Intraday

\* Whatever the strategy, it says buy, sell, both or nothing.
LEMMA SignalsType ==
  ASSUME NEW b, NEW i, NEW s \in STRATEGIES
  PROVE  SignalsAt(s, b, i) \in SUBSET {"buy", "sell"}
<1>0. \A buy, sell : Says(buy, sell) \in SUBSET {"buy", "sell"}
  BY DEF Says
<1>1. CASE s = "macd_crossover"
  <2>1. macdCrossover(b, i) \in SUBSET {"buy", "sell"}
    BY ONLY <1>0, Zenon DEF macdCrossover
  <2> QED BY <1>1, <2>1, RegistryFacts
<1>2. CASE s = "rsi_oversold"
  <2>1. rsiOversoldOverbought(b, i) \in SUBSET {"buy", "sell"}
    BY ONLY <1>0, Zenon DEF rsiOversoldOverbought
  <2> QED BY <1>2, <2>1, RegistryFacts
<1>3. CASE s = "golden_cross"
  <2>1. goldenDeathCross(b, i) \in SUBSET {"buy", "sell"}
    BY ONLY <1>0, ZenonT(40) DEF goldenDeathCross
  <2> QED BY <1>3, <2>1, RegistryFacts
<1>4. CASE s = "ema_bounce"
  <2>1. emaBounce(b, i) \in SUBSET {"buy", "sell"}
    BY ONLY <1>0 DEF emaBounce
  <2> QED BY <1>4, <2>1, RegistryFacts
<1>5. CASE s = "bollinger_bounce"
  <2>1. bollingerBounce(b, i) \in SUBSET {"buy", "sell"}
    BY ONLY <1>0, Zenon DEF bollingerBounce
  <2> QED BY <1>5, <2>1, RegistryFacts
<1>6. CASE s = "bollinger_squeeze"
  <2>1. bollingerSqueeze(b, i) \in SUBSET {"buy", "sell"}
    BY ONLY <1>0, Zenon DEF bollingerSqueeze
  <2> QED BY <1>6, <2>1, RegistryFacts
<1>7. CASE s = "stochastic_crossover"
  <2>1. stochasticCrossover(b, i) \in SUBSET {"buy", "sell"}
    BY ONLY <1>0, Zenon DEF stochasticCrossover
  <2> QED BY <1>7, <2>1, RegistryFacts
<1>8. CASE s = "volume_breakout"
  <2>1. volumeBreakout(b, i) \in SUBSET {"buy", "sell"}
    BY ONLY <1>0, Zenon DEF volumeBreakout
  <2> QED BY <1>8, <2>1, RegistryFacts
<1>9. CASE s = "mean_reversion"
  <2>1. meanReversion(b, i) \in SUBSET {"buy", "sell"}
    BY ONLY <1>0, Zenon DEF meanReversion
  <2> QED BY <1>9, <2>1, RegistryFacts
<1>10. CASE s = "trend_following"
  <2>1. trendFollowing(b, i) \in SUBSET {"buy", "sell"}
    BY ONLY <1>0, Zenon DEF trendFollowing
  <2> QED BY <1>10, <2>1, RegistryFacts
<1>11. CASE s = "support_bounce"
  <2>1. supportBounce(b, i) \in SUBSET {"buy", "sell"}
    BY ONLY <1>0, ZenonT(40) DEF supportBounce
  <2> QED BY <1>11, <2>1, RegistryFacts
<1>12. CASE s = "resistance_rejection"
  <2>1. resistanceRejection(b, i) \in SUBSET {"buy", "sell"}
    BY ONLY <1>0, ZenonT(40) DEF resistanceRejection
  <2> QED BY <1>12, <2>1, RegistryFacts
<1>13. CASE s = "breakout"
  <2>1. breakout(b, i) \in SUBSET {"buy", "sell"}
    BY ONLY <1>0, Zenon DEF breakout
  <2> QED BY <1>13, <2>1, RegistryFacts
<1>14. CASE s = "breakdown"
  <2>1. breakdown(b, i) \in SUBSET {"buy", "sell"}
    BY ONLY <1>0, Zenon DEF breakdown
  <2> QED BY <1>14, <2>1, RegistryFacts
<1>15. CASE s = "double_bottom"
  <2>1. doubleBottom(b, i) \in SUBSET {"buy", "sell"}
    BY ONLY <1>0, Zenon DEF doubleBottom
  <2> QED BY <1>15, <2>1, RegistryFacts
<1>16. CASE s = "double_top"
  <2>1. doubleTop(b, i) \in SUBSET {"buy", "sell"}
    BY ONLY <1>0, Zenon DEF doubleTop
  <2> QED BY <1>16, <2>1, RegistryFacts
<1>17. CASE s = "bull_flag"
  <2>1. bullFlag(b, i) \in SUBSET {"buy", "sell"}
    BY ONLY <1>0, Zenon DEF bullFlag
  <2> QED BY <1>17, <2>1, RegistryFacts
<1>18. CASE s = "bear_flag"
  <2>1. bearFlag(b, i) \in SUBSET {"buy", "sell"}
    BY ONLY <1>0, Zenon DEF bearFlag
  <2> QED BY <1>18, <2>1, RegistryFacts
<1>19. CASE s = "ascending_triangle"
  <2>1. ascendingTriangle(b, i) \in SUBSET {"buy", "sell"}
    BY ONLY <1>0, Zenon DEF ascendingTriangle
  <2> QED BY <1>19, <2>1, RegistryFacts
<1>20. CASE s = "fibonacci_retracement"
  <2>1. fibonacciRetracement(b, i) \in SUBSET {"buy", "sell"}
    BY ONLY <1>0, ZenonT(40) DEF fibonacciRetracement
  <2> QED BY <1>20, <2>1, RegistryFacts
<1>21. CASE s = "vwap_bounce"
  <2>1. vwapBounce(b, i) \in SUBSET {"buy", "sell"}
    BY ONLY <1>0 DEF vwapBounce
  <2> QED BY <1>21, <2>1, RegistryFacts
<1>22. CASE s = "ichimoku_cloud"
  <2>1. ichimokuCloud(b, i) \in SUBSET {"buy", "sell"}
    BY ONLY <1>0, Zenon DEF ichimokuCloud
  <2> QED BY <1>22, <2>1, RegistryFacts
<1>23. CASE s = "range_bound"
  <2>1. rangeBound(b, i) \in SUBSET {"buy", "sell"}
    BY ONLY <1>0, Zenon DEF rangeBound
  <2> QED BY <1>23, <2>1, RegistryFacts
<1>24. CASE s = "cup_and_handle"
  <2>1. cupAndHandle(b, i) \in SUBSET {"buy", "sell"}
    BY ONLY <1>0, Zenon DEF cupAndHandle
  <2> QED BY <1>24, <2>1, RegistryFacts
<1>25. CASE s = "head_and_shoulders"
  <2>1. headAndShoulders(b, i) \in SUBSET {"buy", "sell"}
    BY ONLY <1>0, Zenon DEF headAndShoulders
  <2> QED BY <1>25, <2>1, RegistryFacts
<1>26. CASE s = "opening_range_breakout"
  <2>1. openingRangeBreakout(b, i) \in SUBSET {"buy", "sell"}
    BY ONLY <1>0, Zenon DEF openingRangeBreakout
  <2> QED BY <1>26, <2>1, RegistryFacts
<1>27. CASE s = "vwap_reclaim"
  <2>1. vwapReclaim(b, i) \in SUBSET {"buy", "sell"}
    BY ONLY <1>0, Zenon DEF vwapReclaim
  <2> QED BY <1>27, <2>1, RegistryFacts
<1>28. CASE s = "gap_and_go"
  <2>1. gapAndGo(b, i) \in SUBSET {"buy", "sell"}
    BY ONLY <1>0, Zenon DEF gapAndGo
  <2> QED BY <1>28, <2>1, RegistryFacts
<1>29. CASE s = "gap_fill_fade"
  <2>1. gapFillFade(b, i) \in SUBSET {"buy", "sell"}
    BY ONLY <1>0, ZenonT(40) DEF gapFillFade
  <2> QED BY <1>29, <2>1, RegistryFacts
<1>30. CASE s = "momentum_burst"
  <2>1. momentumBurst(b, i) \in SUBSET {"buy", "sell"}
    BY ONLY <1>0, Zenon DEF momentumBurst
  <2> QED BY <1>30, <2>1, RegistryFacts
<1>31. CASE s = "rsi_divergence_5m"
  <2>1. rsiDivergence(b, i) \in SUBSET {"buy", "sell"}
    BY ONLY <1>0, Zenon DEF rsiDivergence
  <2> QED BY <1>31, <2>1, RegistryFacts
<1> QED BY <1>1, <1>2, <1>3, <1>4, <1>5, <1>6, <1>7, <1>8, <1>9, <1>10, <1>11, <1>12, <1>13, <1>14, <1>15, <1>16, <1>17, <1>18, <1>19, <1>20, <1>21, <1>22, <1>23, <1>24, <1>25, <1>26, <1>27, <1>28, <1>29, <1>30, <1>31 DEF STRATEGIES, Daily, Intraday

\* Each bar has been given to every strategy once.
FeedInv ==
  /\ FeedTypeOK
  /\ \A s \in STRATEGIES : Len(said[s]) = Len(bars)
  /\ NoRepaint

\* Before the first bar nothing is said.
LEMMA FeedInit_Inv == FeedInit => FeedInv
<1> SUFFICES ASSUME FeedInit PROVE FeedInv
  OBVIOUS
<1>1. bars = <<>> /\ said = [s \in STRATEGIES |-> <<>>] /\ FeedBound \in Nat
  BY FeedAssumption DEF FeedInit
<1>2. FeedTypeOK
  BY <1>1 DEF FeedTypeOK
<1>3. \A s \in STRATEGIES : Len(said[s]) = Len(bars)
  BY <1>1
<1>4. DOMAIN bars = {}
  BY <1>1
<1>5. NoRepaint
  BY <1>4 DEF NoRepaint
<1> QED BY <1>2, <1>3, <1>5 DEF FeedInv

\* A history and the one that has a bar more agree on all of the first.
LEMMA LongerAgrees ==
  ASSUME NEW b \in Seq(Shapes), NEW x \in Shapes
  PROVE  \A i \in 1 .. Len(b) : i \in Nat \ {0} /\ Agree(b, Append(b, x), i)
<1>1. /\ Append(b, x) \in Seq(Shapes) /\ Len(Append(b, x)) = Len(b) + 1
      /\ \A j \in 1 .. Len(b) : Append(b, x)[j] = b[j]
  OBVIOUS
<1>2. Len(b) \in Nat /\ DOMAIN b = 1 .. Len(b) /\ DOMAIN Append(b, x) = 1 .. Len(Append(b, x))
  BY <1>1
<1> QED BY <1>1, <1>2 DEF Agree, Same

\* A bar more leaves what the strategies say of the earlier bars as it was.
LEMMA FeedStep == FeedInv /\ [FeedNext]_feedVars => FeedInv'
<1> SUFFICES ASSUME FeedInv, [FeedNext]_feedVars PROVE FeedInv'
  OBVIOUS
<1>1. CASE UNCHANGED feedVars
  BY <1>1 DEF feedVars, FeedInv, FeedTypeOK, NoRepaint
<1>2. ASSUME NEW shape \in Shapes, AppendBar(shape) PROVE FeedInv'
  <2> DEFINE n == Len(bars)
  <2>1. /\ bars \in Seq(Shapes) /\ n <= FeedBound /\ said \in [STRATEGIES -> Seq(SUBSET {"buy", "sell"})]
        /\ \A s \in STRATEGIES : Len(said[s]) = n
        /\ FeedBound \in Nat /\ n \in Nat
    <3>1. bars \in Seq(Shapes) /\ n <= FeedBound /\ said \in [STRATEGIES -> Seq(SUBSET {"buy", "sell"})]
      BY DEF FeedInv, FeedTypeOK
    <3>2. \A s \in STRATEGIES : Len(said[s]) = n
      BY DEF FeedInv
    <3>3. FeedBound \in Nat
      BY FeedAssumption
    <3>4. n \in Nat
      BY <3>1
    <3> QED BY ONLY <3>1, <3>2, <3>3, <3>4
  <2>2. /\ n < FeedBound /\ bars' = Append(bars, shape)
        /\ said' = [s \in STRATEGIES |-> Append(said[s], SignalsAt(s, bars', Len(bars')))]
    BY <1>2 DEF AppendBar
  <2>3. bars' \in Seq(Shapes) /\ Len(bars') = n + 1 /\ DOMAIN bars' = 1 .. n + 1
    BY <2>1, <2>2
  <2> DEFINE Now(s) == SignalsAt(s, bars', Len(bars'))
  <2>4. \A s \in STRATEGIES : said'[s] = Append(said[s], Now(s)) /\ Now(s) \in SUBSET {"buy", "sell"}
    BY <2>2, SignalsType
  <2> HIDE DEF Now
  <2>5. ASSUME NEW s \in STRATEGIES
        PROVE  /\ said'[s] \in Seq(SUBSET {"buy", "sell"}) /\ Len(said'[s]) = n + 1
               /\ said'[s][n + 1] = Now(s) /\ \A i \in 1 .. n : said'[s][i] = said[s][i]
    <3>1. said[s] \in Seq(SUBSET {"buy", "sell"}) /\ Len(said[s]) = n /\ Now(s) \in SUBSET {"buy", "sell"}
      BY <2>1, <2>4
    <3> DEFINE q == said[s]
    <3>2. q \in Seq(SUBSET {"buy", "sell"}) /\ Len(q) = n
      BY <3>1
    <3> HIDE DEF q, n
    <3>3. /\ Append(q, Now(s)) \in Seq(SUBSET {"buy", "sell"}) /\ Len(Append(q, Now(s))) = n + 1
          /\ Append(q, Now(s))[n + 1] = Now(s) /\ \A i \in 1 .. n : Append(q, Now(s))[i] = q[i]
      BY ONLY <2>1, <3>1, <3>2
    <3> QED BY <2>4, <3>3 DEF q
  <2>6. FeedTypeOK'
    <3>1. DOMAIN said' = STRATEGIES /\ said' = [s \in STRATEGIES |-> said'[s]]
      BY <2>2
    <3>2. said' \in [STRATEGIES -> Seq(SUBSET {"buy", "sell"})]
      BY <2>5, <3>1
    <3>3. Len(bars') <= FeedBound
      BY <2>1, <2>2, <2>3
    <3> QED BY <2>3, <3>2, <3>3 DEF FeedTypeOK
  <2>7. ASSUME NEW s \in STRATEGIES \ {"opening_range_breakout"}, NEW i \in 1 .. n + 1
        PROVE  SignalsAt(s, bars', i) = said'[s][i]
    <3>1. CASE i = n + 1
      BY <2>3, <2>5, <3>1 DEF Now
    <3>2. CASE i # n + 1
      <4>1. i \in 1 .. n /\ i \in Nat \ {0}
        BY <2>1, <3>2
      <4>2. Agree(bars, bars', i)
        BY <2>1, <2>2, <4>1, LongerAgrees
      <4>3. SignalsAt(s, bars, i) = SignalsAt(s, bars', i)
        BY <4>1, <4>2, SignalsSame
      <4>4. i \in DOMAIN bars
        BY <2>1, <4>1
      <4>5. SignalsAt(s, bars, i) = said[s][i]
        BY <4>4 DEF FeedInv, NoRepaint
      <4> QED BY <2>5, <4>1, <4>3, <4>5
    <3> QED BY <3>1, <3>2
  <2>8. NoRepaint'
    BY <2>3, <2>7 DEF NoRepaint
  <2> QED BY <2>3, <2>5, <2>6, <2>8 DEF FeedInv
<1> QED BY <1>1, <1>2 DEF FeedNext

\* The invariant of a feed, through every bar it gets.
THEOREM FeedInductive == FeedSpec => []FeedInv
<1> QED BY FeedInit_Inv, FeedStep, PTL DEF FeedSpec

(* A strategy says of each bar of a longer history what it said when that  *)
(* bar was the last, whatever the bars and the periods: a backtest sees the *)
(* signals the auto-trader would have acted on (the registry of            *)
(* strategyEngine.js; the opening-range breakout is the exception).        *)
THEOREM NeverRepaints == FeedSpec => [](FeedTypeOK /\ NoRepaint)
<1>1. FeedInv => FeedTypeOK /\ NoRepaint
  BY DEF FeedInv
<1> QED BY <1>1, FeedInductive, PTL

(***************************************************************************)
(* The backtesters                                                         *)
(* A book whose cash is the capital and what its trades brought.           *)
(***************************************************************************)

Position == [shares : Nat \ {0}, entry : Nat, stop : Int, target : Int]
Books == [cash : Int, position : Position \cup {NoPosition}, trades : Seq(Int)]

\* CashConserved, of any book.
Conserved(b) ==
  b.cash + (IF b.position # NoPosition THEN b.position.shares * b.position.entry ELSE 0)
    = Capital + Earned(b.trades) - Commission * (Len(b.trades) + (IF b.position # NoPosition THEN 1 ELSE 0))
Right(b) == b \in Books /\ Conserved(b)

SimInv ==
  /\ engine \in {"strategy", "combo", "user"} /\ tick \in 0 .. TapeBound /\ price \in Nat
  /\ Right(book)

\* The settings of a backtest are numbers.
LEMMA SimConstants ==
  /\ TapeBound \in Nat /\ Capital \in Nat /\ PositionPct \in Nat /\ StopPct \in Nat /\ TargetPct \in Nat
  /\ SlippagePct \in Nat /\ Commission \in Nat
BY SimAssumption

\* What a bar's price costs and brings.
LEMMA PriceFacts ==
  ASSUME NEW p \in Int
  PROVE  Gets(p) \in Int /\ Cents(p) \in Int /\ (p \in Nat \ {0} => Pays(p) \in Nat \ {0})
<1>1. SlippagePct \in Nat
  BY SimConstants
<1>2. Gets(p) \in Int
  BY <1>1 DEF Gets
<1>3. Cents(p) \in Int
  BY DEF Cents
<1>4. ASSUME p \in Nat \ {0} PROVE Pays(p) \in Nat \ {0}
  <2>1. p * (100 + SlippagePct) = 100 * p + p * SlippagePct /\ p * SlippagePct \in Nat
    BY <1>1, <1>4
  <2> DEFINE q == p * (100 + SlippagePct)
  <2>2. q \in Int /\ q >= 100 * p
    BY <1>1, <1>4, <2>1
  <2>3. Pays(p) = q \div 100
    BY DEF Pays
  <2> HIDE DEF q
  <2> QED BY <1>4, <2>2, <2>3
<1> QED BY <1>2, <1>3, <1>4

\* A position is opened for what it costs.
LEMMA OpenFacts ==
  ASSUME NEW b, Right(b), b.position = NoPosition, NEW basis \in Nat \ {0}, NEW shares \in Nat \ {0}
  PROVE  Right(OpenAt(b, basis, shares))
<1> DEFINE stop == Cents((basis * (100 - StopPct)) \div 100)
           target == Cents((basis * (100 + TargetPct)) \div 100)
           p == [shares |-> shares, entry |-> basis, stop |-> stop, target |-> target]
           c == OpenAt(b, basis, shares)
<1>1. stop \in Int /\ target \in Int
  <2>1. (basis * (100 - StopPct)) \div 100 \in Int /\ (basis * (100 + TargetPct)) \div 100 \in Int
    BY SimConstants
  <2> QED BY <2>1, PriceFacts
<1>2. p \in Position /\ p # NoPosition /\ p.shares = shares /\ p.entry = basis
  <2> HIDE DEF stop, target
  <2>1. p \in Position /\ p.shares = shares /\ p.entry = basis
    BY <1>1 DEF Position
  <2>2. p \in [shares : Int, entry : Int, stop : Int, target : Int]
    BY <1>1
  <2> QED BY <2>1, <2>2, SimAssumption
<1>3. b \in Books /\ Conserved(b)
  BY DEF Right
<1>4. c = [b EXCEPT !.cash = @ - (shares * basis + Commission), !.position = p]
  BY DEF OpenAt
<1> HIDE DEF p, c
<1>5. c \in Books /\ c.cash = b.cash - (shares * basis + Commission) /\ c.position = p /\ c.trades = b.trades
  <2>1. b.cash - (shares * basis + Commission) \in Int
    BY <1>3, SimConstants DEF Books
  <2> QED BY <1>2, <1>3, <1>4, <2>1 DEF Books
<1>6. b.cash \in Int /\ Len(b.trades) \in Nat /\ Earned(b.trades) \in Int
  <2>1. b.cash \in Int /\ b.trades \in Seq(Int) /\ Len(b.trades) \in Nat
    BY <1>3 DEF Books
  <2>2. Earned(b.trades) \in Int
    BY ONLY <2>1, SumAppend, 0 \in Int DEF Earned
  <2> QED BY <2>1, <2>2
<1>7. b.cash = Capital + Earned(b.trades) - Commission * Len(b.trades)
  BY <1>3, <1>6, SimConstants DEF Conserved
<1>8. Commission * (Len(b.trades) + 1) = Commission * Len(b.trades) + Commission /\ Commission * Len(b.trades) \in Int
  BY <1>6, SimConstants
<1>9. c.cash + shares * basis = Capital + Earned(c.trades) - Commission * (Len(c.trades) + 1)
  <2> DEFINE paid == shares * basis
             charged == Commission * Len(b.trades)
             total == Earned(b.trades)
  <2>1. paid \in Int /\ charged \in Int /\ total \in Int /\ b.cash \in Int /\ Capital \in Int /\ Commission \in Int
    BY <1>6, <1>8, SimConstants
  <2>2. /\ c.cash = b.cash - (paid + Commission) /\ b.cash = Capital + total - charged
        /\ Commission * (Len(c.trades) + 1) = charged + Commission /\ Earned(c.trades) = total
    BY <1>5, <1>7, <1>8
  <2> HIDE DEF paid, charged, total
  <2>3. c.cash + paid = Capital + total - (charged + Commission)
    BY <2>1, <2>2
  <2> QED BY <2>2, <2>3 DEF paid
<1>11. Conserved(c)
  BY <1>2, <1>5, <1>9 DEF Conserved
<1> QED BY <1>5, <1>11 DEF Right, c

\* A position is closed for what it brings.
LEMMA CloseFacts ==
  ASSUME NEW b, Right(b), b.position # NoPosition, NEW fill \in Int
  PROVE  Right(CloseAt(b, fill)) /\ CloseAt(b, fill).position = NoPosition
<1> DEFINE shares == b.position.shares
           basis == b.position.entry
           profit == (fill - basis) * shares - Commission
           c == CloseAt(b, fill)
<1>1. b \in Books /\ Conserved(b)
  BY DEF Right
<1>2. shares \in Nat /\ basis \in Nat /\ b.cash \in Int /\ b.trades \in Seq(Int)
  BY <1>1 DEF Books, Position
<1>3. c = [cash |-> b.cash + shares * fill - Commission, position |-> NoPosition, trades |-> Append(b.trades, profit)]
  BY DEF CloseAt
<1>4. b.cash + shares * basis = Capital + Earned(b.trades) - Commission * (Len(b.trades) + 1)
  BY <1>1 DEF Conserved
<1> HIDE DEF shares, basis, c
<1>5. profit \in Int /\ shares * fill \in Int /\ profit = shares * fill - shares * basis - Commission /\ shares * basis \in Int
  BY <1>2, SimConstants
<1> HIDE DEF profit
<1>6. c.cash = b.cash + shares * fill - Commission /\ c.position = NoPosition /\ c.trades = Append(b.trades, profit)
      /\ c.cash \in Int /\ c.trades \in Seq(Int) /\ c \in Books
  <2>1. b.cash + shares * fill - Commission \in Int /\ Append(b.trades, profit) \in Seq(Int)
    BY <1>2, <1>5, SimConstants
  <2> QED BY <1>3, <2>1 DEF Books
<1>7. Earned(b.trades) \in Int /\ Earned(c.trades) = Earned(b.trades) + profit
  BY <1>2, <1>5, <1>6, SumAppend DEF Earned
<1>8. Len(c.trades) = Len(b.trades) + 1 /\ Len(b.trades) \in Nat
  BY <1>2, <1>6
<1>9. Commission * (Len(b.trades) + 1) \in Int
  BY <1>8, SimConstants
<1>10. c.cash = Capital + Earned(c.trades) - Commission * (Len(b.trades) + 1)
  <2> DEFINE brought == shares * fill
             paid == shares * basis
             charged == Commission * (Len(b.trades) + 1)
             total == Earned(b.trades)
             money == b.cash
  <2>1. /\ brought \in Int /\ paid \in Int /\ charged \in Int /\ total \in Int /\ money \in Int
        /\ Capital \in Int /\ Commission \in Int /\ profit \in Int
    BY <1>2, <1>5, <1>7, <1>9, SimConstants
  <2>2. /\ c.cash = money + brought - Commission /\ money + paid = Capital + total - charged
        /\ profit = brought - paid - Commission /\ Earned(c.trades) = total + profit
    BY <1>4, <1>5, <1>6, <1>7
  <2> HIDE DEF brought, paid, charged, total, money
  <2>3. c.cash = Capital + (total + profit) - charged
    BY <2>1, <2>2
  <2> QED BY <2>2, <2>3 DEF charged
<1>11. Conserved(c)
  BY <1>6, <1>8, <1>10 DEF Conserved
<1> QED BY <1>6, <1>11 DEF Right, c

\* A buy that affords no share, or spends, keeps the account right.
LEMMA BoughtFacts ==
  ASSUME NEW b, Right(b), NEW at \in Nat \ {0}, NEW leverage \in Nat \ {0}
  PROVE  Right(Bought(b, at, leverage))
<1> DEFINE shares == Shares(b.cash, Pays(at), leverage)
<1>1. Pays(at) \in Nat \ {0}
  BY PriceFacts
<1>2. shares \in Int
  <2>1. b.cash \in Int
    BY DEF Right, Books
  <2>2. b.cash * PositionPct * leverage \in Int /\ 100 * Pays(at) \in Nat \ {0}
    BY <1>1, <2>1, SimConstants
  <2> QED BY <2>2 DEF Shares
<1>3. Bought(b, at, leverage) = IF b.position # NoPosition \/ shares <= 0 THEN b ELSE OpenAt(b, Pays(at), shares)
  BY DEF Bought
<1> HIDE DEF shares
<1>4. CASE b.position # NoPosition \/ shares <= 0
  BY <1>3, <1>4
<1>5. CASE b.position = NoPosition /\ shares > 0
  <2>1. shares \in Nat \ {0} /\ Bought(b, at, leverage) = OpenAt(b, Pays(at), shares)
    BY <1>2, <1>3, <1>5
  <2> QED BY <1>1, <1>5, <2>1, OpenFacts
<1> QED BY <1>2, <1>4, <1>5

\* So does a sale, of a position or of none.
LEMMA SoldFacts ==
  ASSUME NEW b, Right(b), NEW at \in Int
  PROVE  Right(Sold(b, at))
<1>1. Gets(at) \in Int
  BY PriceFacts
<1>2. CASE b.position = NoPosition
  BY <1>2 DEF Sold
<1>3. CASE b.position # NoPosition
  <2>1. Sold(b, at) = CloseAt(b, Gets(at))
    BY <1>3 DEF Sold
  <2> QED BY <1>1, <1>3, <2>1, CloseFacts
<1> QED BY <1>2, <1>3

\* The prices of a bar that is replayed.
LEMMA BarFacts ==
  ASSUME NEW seen \in Tape
  PROVE  seen.low \in Nat \ {0} /\ seen.close \in Nat \ {0} /\ Cents(seen.close) \in Int /\ Cents(seen.low) \in Int
<1>1. seen \in [low : Nat \ {0}, high : Nat, close : Nat \ {0}]
  BY SimAssumption
<1>2. seen.low \in Nat \ {0} /\ seen.close \in Nat \ {0}
  BY <1>1
<1> QED BY <1>2, PriceFacts

\* Whatever a bar does to the book, the book stays right.
LEMMA BookSteps ==
  ASSUME SimInv, NEW seen \in Tape
  PROVE  /\ \A stop \in Int : (HitStop(seen, stop) \/ HitTarget(seen, stop)) => Right(book')
         /\ StrategyBar(seen) => Right(book')
         /\ ComboBar(seen) => Right(book')
         /\ \A stop \in Int : (UserExit(seen, stop) \/ UserHold(seen, stop)) => Right(book')
         /\ UserFlat(seen) => Right(book')
<1> USE DEF SimInv
<1>0. seen.low \in Nat \ {0} /\ seen.close \in Nat \ {0}
  BY BarFacts
<1>1. Held => book.position \in Position /\ book.position.target \in Int /\ book.position # NoPosition
  BY DEF Held, Right, Books, Position
<1>2. ASSUME NEW stop \in Int, HitStop(seen, stop) \/ HitTarget(seen, stop) PROVE Right(book')
  <2>1. Held /\ (book' = CloseAt(book, Gets(stop)) \/ book' = CloseAt(book, Gets(book.position.target)))
    BY <1>2 DEF HitStop, HitTarget, Stopped, Reached
  <2>2. Gets(stop) \in Int /\ Gets(book.position.target) \in Int
    BY <1>1, <2>1, PriceFacts
  <2> QED BY <1>1, <2>1, <2>2, CloseFacts
<1>3. ASSUME StrategyBar(seen) PROVE Right(book')
  <2>1. PICK signals \in {<< >>, <<"buy">>, <<"sell">>, <<"buy", "sell">>, <<"sell", "buy">>} :
             book' = Signalled(book, seen.close, signals)
    BY <1>3 DEF StrategyBar
  <2> DEFINE at == seen.close
  <2>2. at \in Nat \ {0} /\ at \in Int /\ 1 \in Nat \ {0}
    BY <1>0
  <2> HIDE DEF at
  <2>3. Right(Bought(book, at, 1)) /\ Right(Sold(book, at))
    BY <2>2, BoughtFacts, SoldFacts
  <2>4. Right(Sold(Bought(book, at, 1), at)) /\ Right(Bought(Sold(book, at), at, 1))
    BY <2>2, <2>3, BoughtFacts, SoldFacts
  <2>5. book' \in {book, Bought(book, at, 1), Sold(book, at), Sold(Bought(book, at, 1), at), Bought(Sold(book, at), at, 1)}
    <3>1. book' = Signalled(book, at, signals)
      BY <2>1 DEF at
    <3>2. CASE signals = << >>
      BY <3>1, <3>2 DEF Signalled
    <3>3. CASE signals = <<"buy">>
      BY <3>1, <3>3 DEF Signalled
    <3>4. CASE signals = <<"sell">>
      <4>1. <<"sell">> # << >> /\ <<"sell">> # <<"buy">>
        OBVIOUS
      <4> QED BY <3>1, <3>4, <4>1 DEF Signalled
    <3>5. CASE signals = <<"buy", "sell">>
      <4>1. <<"buy", "sell">> # << >> /\ <<"buy", "sell">> # <<"buy">> /\ <<"buy", "sell">> # <<"sell">>
        OBVIOUS
      <4> QED BY <3>1, <3>5, <4>1 DEF Signalled
    <3>6. CASE signals = <<"sell", "buy">>
      <4>1. <<"sell", "buy">> # << >> /\ <<"sell", "buy">> # <<"buy">> /\ <<"sell", "buy">> # <<"sell">>
            /\ <<"sell", "buy">> # <<"buy", "sell">>
        OBVIOUS
      <4> QED BY <3>1, <3>6, <4>1 DEF Signalled
    <3> QED BY <2>1, <3>2, <3>3, <3>4, <3>5, <3>6
  <2> QED BY <2>3, <2>4, <2>5
<1>4. ASSUME ComboBar(seen) PROVE Right(book')
  <2> DEFINE at == seen.close
  <2>1. book' \in {book, Bought(book, at, 1), Sold(book, at), Sold(Bought(book, at, 1), at)}
    BY <1>4 DEF ComboBar
  <2>2. at \in Nat \ {0} /\ at \in Int /\ 1 \in Nat \ {0}
    BY <1>0
  <2> HIDE DEF at
  <2>3. Right(Bought(book, at, 1)) /\ Right(Sold(book, at))
    BY <2>2, BoughtFacts, SoldFacts
  <2>4. Right(Sold(Bought(book, at, 1), at))
    BY <2>2, <2>3, SoldFacts
  <2> QED BY <2>1, <2>3, <2>4
<1>5. ASSUME NEW stop \in Int, UserExit(seen, stop) PROVE Right(book')
  <2>1. Held /\ book' = CloseAt(book, Gets(seen.close))
    BY <1>5 DEF UserExit
  <2>2. Gets(seen.close) \in Int
    BY <1>0, PriceFacts
  <2> QED BY <1>1, <2>1, <2>2, CloseFacts
<1>6. ASSUME NEW stop \in Int, UserHold(seen, stop) PROVE Right(book')
  <2>1. Held /\ book' = [book EXCEPT !.position.stop = stop]
    BY <1>6 DEF UserHold
  <2> DEFINE p == [book.position EXCEPT !.stop = stop]
  <2>2. book \in Books /\ Conserved(book)
    BY DEF Right
  <2>3. p \in Position /\ p.shares = book.position.shares /\ p.entry = book.position.entry
    BY <1>1, <2>1 DEF Position
  <2>4. p # NoPosition
    <3>1. p \in [shares : Int, entry : Int, stop : Int, target : Int]
      BY <2>3 DEF Position
    <3> QED BY <3>1, SimAssumption
  <2>5. book' = [book EXCEPT !.position = p]
    BY <2>1
  <2> HIDE DEF p
  <2>6. book' \in Books /\ book'.cash = book.cash /\ book'.trades = book.trades /\ book'.position = p
    BY <2>2, <2>3, <2>5 DEF Books
  <2>7. Conserved(book')
    BY <1>1, <2>1, <2>2, <2>3, <2>4, <2>6 DEF Conserved
  <2> QED BY <2>6, <2>7 DEF Right
<1>7. ASSUME UserFlat(seen) PROVE Right(book')
  <2>1. book' = book \/ \E at \in {seen.close, seen.low}, leverage \in Leverages : book' = Bought(book, at, leverage)
    BY <1>7 DEF UserFlat
  <2>2. \A at \in {seen.close, seen.low}, leverage \in Leverages : at \in Nat \ {0} /\ leverage \in Nat \ {0}
    BY <1>0, SimAssumption
  <2> QED BY <2>1, <2>2, BoughtFacts
<1> QED BY <1>2, <1>3, <1>4, <1>5, <1>6, <1>7

\* A backtest starts with its capital and no trade.
LEMMA SimInit_Inv == SimInit => SimInv
<1> SUFFICES ASSUME SimInit PROVE SimInv
  OBVIOUS
<1>1. book = [cash |-> Capital, position |-> NoPosition, trades |-> << >>]
  BY DEF SimInit
<1>2. book \in Books
  BY <1>1, SimConstants DEF Books
<1>3. Earned(<< >>) = 0
  <2>1. DOMAIN << >> = {}
    OBVIOUS
  <2> QED BY <2>1, SumEmpty DEF Earned, SumFunction
<1>4. Conserved(book)
  BY <1>1, <1>3, SimConstants DEF Conserved
<1> QED BY <1>2, <1>4, SimConstants DEF SimInit, SimInv, Right

\* Every bar of the three engines, and the close at the end, keeps the account right.
LEMMA SimStep == SimInv /\ [SimNext]_simVars => SimInv'
<1> SUFFICES ASSUME SimInv, [SimNext]_simVars PROVE SimInv'
  OBVIOUS
<1>1. CASE UNCHANGED simVars
  BY <1>1 DEF simVars, SimInv, Right, Books, Conserved
<1>2. ASSUME NEW seen \in Tape,
             \/ engine # "user" /\ Held /\ (HitStop(seen, book.position.stop) \/ HitTarget(seen, book.position.stop))
             \/ StrategyBar(seen) \/ ComboBar(seen)
             \/ engine = "user" /\ \E stop \in Stops(seen) :
                  HitStop(seen, stop) \/ HitTarget(seen, stop) \/ UserExit(seen, stop) \/ UserHold(seen, stop)
             \/ UserFlat(seen)
      PROVE  SimInv'
  <2>1. Bar(seen)
    BY <1>2 DEF HitStop, HitTarget, StrategyBar, ComboBar, UserExit, UserHold, UserFlat
  <2>2. engine' = engine /\ tick' \in 0 .. TapeBound /\ price' \in Nat
    BY <2>1, BarFacts, SimConstants DEF SimInv, Bar
  <2>3. Held => book.position.stop \in Int
    BY DEF SimInv, Right, Books, Position, Held
  <2>4. \A stop \in Stops(seen) : stop \in Int
    BY <2>3, BarFacts DEF Stops
  <2>5. Right(book')
    BY <1>2, <2>3, <2>4, BookSteps
  <2> QED BY <2>2, <2>5 DEF SimInv, Right, Books, Conserved
<1>3. CASE CloseAtEnd
  <2>1. book' = CloseAt(book, Gets(price)) /\ book.position # NoPosition /\ UNCHANGED <<engine, tick, price>>
    BY <1>3 DEF CloseAtEnd, Held
  <2>2. Gets(price) \in Int /\ Right(book)
    BY PriceFacts DEF SimInv
  <2>3. Right(book')
    BY <2>1, <2>2, CloseFacts
  <2> QED BY <2>1, <2>3 DEF SimInv, Right, Books, Conserved
<1> QED BY <1>1, <1>2, <1>3 DEF SimNext

\* The invariant of a backtest, through every bar of every tape.
THEOREM SimInductive == SimSpec => []SimInv
BY SimInit_Inv, SimStep, PTL DEF SimSpec

\* What the invariant says of the account.
LEMMA SimInvFacts == SimInv => SimTypeOK /\ CashConserved
<1> SUFFICES ASSUME SimInv PROVE SimTypeOK /\ CashConserved
  OBVIOUS
<1>1. book \in Books /\ Conserved(book)
  BY DEF SimInv, Right
<1>2. CashConserved
  BY <1>1 DEF CashConserved, Conserved, Held
<1>3. SimTypeOK
  BY <1>1 DEF SimTypeOK, SimInv, Books, Position, Held
<1> QED BY <1>2, <1>3

(* The cash of a backtest, with the cost of what is held, is the capital   *)
(* and the profits of its trades less the commission of every entry, in the *)
(* three engines (backtester, comboBacktester, strategySandbox).           *)
THEOREM CashIsConserved == SimSpec => [](SimTypeOK /\ CashConserved)
BY SimInvFacts, SimInductive, PTL

(***************************************************************************)
(* The shared pool                                                         *)
(* Every trade of the legs is queued once, and then refused, open or booked. *)
(***************************************************************************)

TradeRow == [id : Nat, entry : Nat, exit : Nat, bought : Nat \ {0}, sold : Nat]
TakenRow == [id : Nat, entry : Nat, exit : Nat, bought : Nat \ {0}, sold : Nat, shares : Int]

\* By exit, and no trade twice.
ByExits(s) == \A m, n \in DOMAIN s : m < n => s[m].exit <= s[n].exit /\ s[m] # s[n]

PoolInv ==
  /\ queue \in Seq(TradeRow)
  /\ \A m, n \in DOMAIN queue : m < n => queue[m].entry <= queue[n].entry /\ queue[m].id # queue[n].id
  /\ accepted \subseteq TakenRow /\ IsFiniteSet(accepted) /\ refused \subseteq TradeRow
  /\ open \in Seq(accepted) /\ ByExits(open)
  /\ \A u \in accepted \cup refused, n \in DOMAIN queue : u.entry <= queue[n].entry
  /\ \A u \in accepted, n \in DOMAIN queue : u.id # queue[n].id
  /\ \A u \in accepted \ ToSet(open), n \in DOMAIN queue : u.exit < queue[n].entry
  /\ PoolTypeOK
  /\ CeilingExact

\* The first of some positions.
LEMMA FirstFacts ==
  ASSUME NEW X, NEW s \in Seq(X), NEW positions \in SUBSET (1 .. Len(s))
  PROVE  /\ First(positions, s) \in 1 .. Len(s) + 1
         /\ First(positions, s) <= Len(s) => First(positions, s) \in positions
         /\ \A n \in positions : First(positions, s) <= n
<1> DEFINE T == positions \cup {Len(s) + 1}
<1>0. Len(s) \in Nat
  OBVIOUS
<1>1. T \subseteq Nat /\ T # {} /\ T \subseteq 1 .. Len(s) + 1
  <2>1. 1 .. Len(s) \subseteq 1 .. Len(s) + 1 /\ Len(s) + 1 \in 1 .. Len(s) + 1 /\ 1 .. Len(s) + 1 \subseteq Nat
    BY <1>0
  <2> QED BY <2>1
<1> HIDE DEF T
<1>2. \E x \in T : \A y \in T : x <= y
  BY <1>1, LeastNatural
<1>3. Min(T) \in T /\ \A y \in T : Min(T) <= y
  BY <1>2 DEF Min
<1>4. First(positions, s) = Min(T)
  BY DEF First, T
<1>5. Min(T) \in 1 .. Len(s) + 1 /\ (Min(T) <= Len(s) => Min(T) \in positions)
  BY <1>0, <1>1, <1>3 DEF T
<1> QED BY <1>3, <1>4, <1>5 DEF T

\* Where the exits that are due end.
LEMMA DueFacts ==
  ASSUME NEW X, X \subseteq TakenRow, open \in Seq(X), ByExits(open), NEW e \in Nat
  PROVE  /\ Due(e) \in 1 .. Len(open) + 1
         /\ \A n \in 1 .. Len(open) : n < Due(e) <=> open[n].exit < e
<1> DEFINE L == {n \in DOMAIN open : open[n].exit >= e}
<1>1. Len(open) \in Nat /\ DOMAIN open = 1 .. Len(open) /\ \A n \in 1 .. Len(open) : open[n].exit \in Nat
  <2>1. Len(open) \in Nat /\ DOMAIN open = 1 .. Len(open) /\ \A n \in 1 .. Len(open) : open[n] \in TakenRow
    OBVIOUS
  <2> QED BY <2>1 DEF TakenRow
<1>2. L \in SUBSET (1 .. Len(open)) /\ Due(e) = First(L, open)
  BY <1>1 DEF Due
<1> HIDE DEF L
<1>3. /\ Due(e) \in 1 .. Len(open) + 1
      /\ Due(e) <= Len(open) => Due(e) \in L
      /\ \A n \in L : Due(e) <= n
  BY <1>2, FirstFacts
<1>4. ASSUME NEW n \in 1 .. Len(open) PROVE n < Due(e) <=> open[n].exit < e
  <2>1. CASE n < Due(e)
    <3>1. n \notin L
      BY <1>3, <2>1
    <3> QED BY <1>1, <2>1, <3>1 DEF L
  <2>2. CASE n >= Due(e)
    <3>1. Due(e) \in 1 .. Len(open) /\ open[Due(e)].exit >= e
      BY <1>1, <1>3, <2>2 DEF L
    <3>2. open[Due(e)].exit <= open[n].exit
      BY <1>1, <2>2, <3>1 DEF ByExits
    <3> QED BY <1>1, <2>2, <3>1, <3>2
  <2> QED BY <1>3, <2>1, <2>2
<1> QED BY <1>3, <1>4

\* As many elements as positions, when none is there twice.
LEMMA CardOfSeq ==
  ASSUME NEW X, NEW s \in Seq(X), \A m, n \in DOMAIN s : m < n => s[m] # s[n]
  PROVE  IsFiniteSet(ToSet(s)) /\ Cardinality(ToSet(s)) = Len(s)
<1>1. Len(s) \in Nat /\ DOMAIN s = 1 .. Len(s) /\ s \in [1 .. Len(s) -> X]
  OBVIOUS
<1>2. IsFiniteSet(1 .. Len(s)) /\ Cardinality(1 .. Len(s)) = Len(s)
  BY <1>1, FS_Interval
<1>3. \A m, n \in 1 .. Len(s) : s[m] = s[n] => m = n
  <2> TAKE m, n \in 1 .. Len(s)
  <2>1. m \in Int /\ n \in Int
    OBVIOUS
  <2> QED BY <1>1, <2>1
<1>4. s \in Bijection(1 .. Len(s), ToSet(s))
  <2>1. s \in [1 .. Len(s) -> ToSet(s)]
    BY <1>1 DEF ToSet
  <2>2. \A x \in ToSet(s) : \E n \in 1 .. Len(s) : s[n] = x
    BY <1>1 DEF ToSet
  <2> QED BY <1>3, <2>1, <2>2 DEF Bijection, Injection, Surjection, IsInjective
<1> QED BY <1>2, <1>4, FS_Bijection DEF ExistsBijection

\* What is not due yet stays, in its order.
LEMMA RemainingFacts ==
  ASSUME NEW X, X \subseteq TakenRow, open \in Seq(X), ByExits(open), NEW e \in Nat
  PROVE  /\ Remaining(e) \in Seq(X) /\ ByExits(Remaining(e)) /\ Len(Remaining(e)) <= Len(open)
         /\ ToSet(Remaining(e)) = {u \in ToSet(open) : u.exit >= e}
         /\ IsFiniteSet(ToSet(Remaining(e))) /\ Cardinality(ToSet(Remaining(e))) = Len(Remaining(e))
<1> DEFINE d == Due(e)
           n == Len(open)
           rest == Remaining(e)
<1>1. n \in Nat /\ DOMAIN open = 1 .. n /\ \A k \in 1 .. n : open[k].exit \in Nat /\ open[k] \in X
  <2>1. n \in Nat /\ DOMAIN open = 1 .. n /\ \A k \in 1 .. n : open[k] \in X
    OBVIOUS
  <2>2. \A k \in 1 .. n : open[k] \in TakenRow
    BY <2>1
  <2> QED BY <2>1, <2>2 DEF TakenRow
<1>2. d \in 1 .. n + 1 /\ \A k \in 1 .. n : k < d <=> open[k].exit < e
  BY DueFacts
<1>3. rest = SubSeq(open, d, n)
  BY DEF Remaining
<1> HIDE DEF d, n, rest
<1>4. rest \in Seq(X) /\ Len(rest) = n - d + 1 /\ \A k \in 1 .. n - d + 1 : rest[k] = open[d + k - 1]
  <2>1. Len(open) = n
    BY DEF n
  <2>2. CASE d <= n
    BY <1>1, <1>2, <1>3, <2>1, <2>2, SubSeqProperties
  <2>3. CASE d = n + 1
    <3>1. rest = << >>
      BY <1>1, <1>3, <2>3
    <3> QED BY <1>1, <2>3, <3>1
  <2> QED BY <1>1, <1>2, <2>2, <2>3
<1>5. DOMAIN rest = 1 .. n - d + 1 /\ n - d + 1 \in Nat
  <2>1. n - d + 1 \in Nat
    BY <1>1, <1>2
  <2> QED BY <1>4, <2>1
<1>6. \A k \in 1 .. n - d + 1 : d + k - 1 \in 1 .. n /\ d + k - 1 >= d
  BY <1>1, <1>2
<1>7. ByExits(rest)
  <2> SUFFICES ASSUME NEW k \in DOMAIN rest, NEW l \in DOMAIN rest, k < l
               PROVE  rest[k].exit <= rest[l].exit /\ rest[k] # rest[l]
    BY DEF ByExits
  <2>1. rest[k] = open[d + k - 1] /\ rest[l] = open[d + l - 1] /\ d + k - 1 < d + l - 1
        /\ d + k - 1 \in DOMAIN open /\ d + l - 1 \in DOMAIN open
    BY <1>1, <1>2, <1>4, <1>5, <1>6
  <2> QED BY <2>1 DEF ByExits
<1>8. ToSet(rest) = {u \in ToSet(open) : u.exit >= e}
  <2>1. ASSUME NEW u \in ToSet(rest) PROVE u \in ToSet(open) /\ u.exit >= e
    <3>1. PICK k \in 1 .. n - d + 1 : u = rest[k]
      BY <1>5 DEF ToSet
    <3>2. u = open[d + k - 1] /\ d + k - 1 \in 1 .. n /\ ~(d + k - 1 < d)
      BY <1>1, <1>2, <1>4, <1>6, <3>1
    <3> QED BY <1>1, <1>2, <3>2 DEF ToSet
  <2>2. ASSUME NEW u \in ToSet(open), u.exit >= e PROVE u \in ToSet(rest)
    <3>1. PICK j \in 1 .. n : u = open[j]
      BY <1>1 DEF ToSet
    <3>2. j >= d
      BY <1>1, <1>2, <2>2, <3>1
    <3> DEFINE k == j - d + 1
    <3>3. k \in 1 .. n - d + 1 /\ d + k - 1 = j
      BY <1>1, <1>2, <3>2
    <3> HIDE DEF k
    <3>4. rest[k] = u
      BY <1>4, <3>1, <3>3
    <3> QED BY <1>5, <3>3, <3>4 DEF ToSet
  <2> QED BY <2>1, <2>2
<1>9. Len(rest) <= n
  BY <1>1, <1>2, <1>4
<1>10. IsFiniteSet(ToSet(rest)) /\ Cardinality(ToSet(rest)) = Len(rest)
  BY <1>4, <1>7, CardOfSeq DEF ByExits
<1> QED BY <1>4, <1>7, <1>8, <1>9, <1>10 DEF rest, n

\* A trade put in its place.
LEMMA PlacedFacts ==
  ASSUME NEW X, X \subseteq TakenRow, NEW s \in Seq(X), ByExits(s), NEW t \in TakenRow, t \notin ToSet(s)
  PROVE  /\ Placed(s, t) \in Seq(X \cup {t}) /\ Len(Placed(s, t)) = Len(s) + 1
         /\ ByExits(Placed(s, t)) /\ ToSet(Placed(s, t)) = ToSet(s) \cup {t}
<1> DEFINE n == Len(s)
           L == {k \in DOMAIN s : ByExit(t, s[k])}
           i == First(L, s)
           p == Placed(s, t)
<1>1. n \in Nat /\ DOMAIN s = 1 .. n /\ \A k \in 1 .. n : s[k].exit \in Nat /\ s[k] \in X
  <2>1. n \in Nat /\ DOMAIN s = 1 .. n /\ \A k \in 1 .. n : s[k] \in X
    OBVIOUS
  <2>2. \A k \in 1 .. n : s[k] \in TakenRow
    BY <2>1
  <2> QED BY <2>1, <2>2 DEF TakenRow
<1>2. t.exit \in Nat
  BY DEF TakenRow
<1>3. L \in SUBSET (1 .. n) /\ p = InsertAt(s, i, t)
  BY <1>1 DEF Placed
<1>4. i \in 1 .. n + 1 /\ (i <= n => i \in L) /\ \A k \in L : i <= k
  <2> HIDE DEF L
  <2> QED BY <1>3, FirstFacts
<1>5. \A k \in 1 .. n : (k < i => s[k].exit <= t.exit) /\ (k >= i => t.exit < s[k].exit)
  <2> TAKE k \in 1 .. n
  <2>1. k < i => s[k].exit <= t.exit
    <3> HIDE DEF i, L
    <3>0. k \in Int /\ i \in Int
      BY <1>4
    <3>1. k < i => k \notin L
      <4> SUFFICES ASSUME k < i, k \in L PROVE FALSE
        OBVIOUS
      <4>1. i <= k
        BY <1>4
      <4> QED BY <3>0, <4>1
    <3>2. k \in DOMAIN s /\ (k \notin L => ~ (t.exit < s[k].exit))
      BY <1>1 DEF L, ByExit
    <3> QED BY <1>1, <1>2, <3>1, <3>2
  <2>2. ASSUME k >= i PROVE t.exit < s[k].exit
    <3>1. i \in 1 .. n /\ t.exit < s[i].exit
      BY <1>1, <1>4, <2>2 DEF ByExit
    <3>2. s[i].exit <= s[k].exit
      BY <1>1, <2>2, <3>1 DEF ByExits
    <3> QED BY <1>1, <1>2, <3>1, <3>2
  <2> QED BY <2>1, <2>2
<1> HIDE DEF i, L, n, p
<1> DEFINE front == SubSeq(s, 1, i - 1)
           back == SubSeq(s, i, n)
<1>6. Len(s) = n /\ s \in Seq(X \cup {t})
  BY DEF n
<1>7. front \in Seq(X \cup {t}) /\ Len(front) = i - 1 /\ \A k \in 1 .. i - 1 : front[k] = s[k]
  <2>1. CASE i = 1
    <3>1. front = << >>
      BY <1>6, <2>1
    <3> QED BY <2>1, <3>1
  <2>2. CASE i > 1
    BY <1>1, <1>4, <1>6, <2>2, SubSeqProperties
  <2> QED BY <1>4, <2>1, <2>2
<1>8. back \in Seq(X \cup {t}) /\ Len(back) = n - i + 1 /\ \A k \in 1 .. n - i + 1 : back[k] = s[i + k - 1]
  <2>1. CASE i = n + 1
    <3>1. back = << >>
      BY <1>1, <1>6, <2>1
    <3> QED BY <1>1, <2>1, <3>1
  <2>2. CASE i <= n
    BY <1>1, <1>4, <1>6, <2>2, SubSeqProperties
  <2> QED BY <1>1, <1>4, <2>1, <2>2
<1>9. p = front \o <<t>> \o back
  BY <1>3, <1>6 DEF InsertAt
<1> HIDE DEF front, back
<1>10. /\ front \o <<t>> \in Seq(X \cup {t}) /\ Len(front \o <<t>>) = i
       /\ \A k \in 1 .. i - 1 : (front \o <<t>>)[k] = s[k]
       /\ (front \o <<t>>)[i] = t
  <2> DEFINE one == <<t>>
  <2>1. one \in Seq(X \cup {t}) /\ Len(one) = 1 /\ one[1] = t
    OBVIOUS
  <2>2. i - 1 + 1 = i /\ i - 1 \in Nat /\ i - (i - 1) = 1 /\ i \in 1 .. i /\ ~ (i <= i - 1)
    BY <1>4
  <2> HIDE DEF one
  <2>3. /\ front \o one \in Seq(X \cup {t}) /\ Len(front \o one) = Len(front) + Len(one)
        /\ \A k \in 1 .. Len(front) + Len(one) :
              (front \o one)[k] = IF k <= Len(front) THEN front[k] ELSE one[k - Len(front)]
    BY ONLY <1>7, <2>1, ConcatProperties
  <2>4. Len(front \o one) = i /\ \A k \in 1 .. i : (front \o one)[k] = IF k <= i - 1 THEN front[k] ELSE one[k - (i - 1)]
    BY <1>7, <2>1, <2>2, <2>3
  <2>5. (front \o one)[i] = t
    BY <2>1, <2>2, <2>4
  <2>6. \A k \in 1 .. i - 1 : (front \o one)[k] = s[k]
    BY <1>4, <1>7, <2>4
  <2> QED BY <2>3, <2>4, <2>5, <2>6 DEF one
<1>11. /\ p \in Seq(X \cup {t}) /\ Len(p) = n + 1
       /\ \A k \in 1 .. i - 1 : p[k] = s[k]
       /\ p[i] = t
       /\ \A k \in i + 1 .. n + 1 : p[k] = s[k - 1]
  <2> DEFINE head == front \o <<t>>
  <2>0. head \in Seq(X \cup {t}) /\ Len(head) = i /\ (\A k \in 1 .. i - 1 : head[k] = s[k]) /\ head[i] = t /\ p = head \o back
    BY <1>9, <1>10
  <2> HIDE DEF head
  <2>1. /\ p \in Seq(X \cup {t}) /\ Len(p) = Len(head) + Len(back)
        /\ \A k \in 1 .. Len(head) + Len(back) : p[k] = IF k <= Len(head) THEN head[k] ELSE back[k - Len(head)]
    BY ONLY <1>8, <2>0, ConcatProperties, ZenonT(40)
  <2>2. Len(head) + Len(back) = n + 1
    BY <1>1, <1>4, <1>8, <2>0
  <2>3. \A k \in 1 .. i : p[k] = head[k]
    BY <1>1, <1>4, <2>0, <2>1, <2>2
  <2>4. ASSUME NEW k \in i + 1 .. n + 1 PROVE p[k] = s[k - 1]
    <3>1. p[k] = back[k - i] /\ k - i \in 1 .. n - i + 1 /\ i + (k - i) - 1 = k - 1
      BY <1>1, <1>4, <2>0, <2>1, <2>2
    <3> QED BY <1>8, <3>1
  <2> QED BY <1>1, <1>4, <2>0, <2>1, <2>2, <2>3, <2>4
<1>12. DOMAIN p = 1 .. n + 1
  BY <1>1, <1>11
<1>13. \A k \in 1 .. n + 1 : \/ k \in 1 .. n /\ k < i /\ p[k] = s[k]
                             \/ k = i /\ p[k] = t
                             \/ k - 1 \in 1 .. n /\ k > i /\ p[k] = s[k - 1]
  BY <1>1, <1>4, <1>11
<1>14. ToSet(p) = ToSet(s) \cup {t}
  <2>1. ASSUME NEW u \in ToSet(p) PROVE u \in ToSet(s) \cup {t}
    BY <1>1, <1>12, <1>13 DEF ToSet
  <2>2. t \in ToSet(p)
    BY <1>4, <1>11, <1>12 DEF ToSet
  <2>3. ASSUME NEW u \in ToSet(s) PROVE u \in ToSet(p)
    <3>1. PICK k \in 1 .. n : u = s[k]
      BY <1>1 DEF ToSet
    <3>2. CASE k < i
      <4>1. k \in 1 .. i - 1 /\ k \in 1 .. n + 1
        BY <1>1, <1>4, <3>2
      <4> QED BY <1>11, <1>12, <3>1, <4>1 DEF ToSet
    <3>3. CASE k >= i
      <4>1. k + 1 \in i + 1 .. n + 1 /\ k + 1 \in 1 .. n + 1 /\ k + 1 - 1 = k
        BY <1>1, <1>4, <3>3
      <4> QED BY <1>11, <1>12, <3>1, <4>1 DEF ToSet
    <3> QED BY <1>4, <3>2, <3>3
  <2> QED BY <2>1, <2>2, <2>3
<1>15. ByExits(p)
  <2> SUFFICES ASSUME NEW k \in 1 .. n + 1, NEW l \in 1 .. n + 1, k < l
               PROVE  p[k].exit <= p[l].exit /\ p[k] # p[l]
    BY <1>12 DEF ByExits
  <2>0. \A j \in 1 .. n : s[j] # t
    BY <1>1 DEF ToSet
  <2>1. \A a, b \in 1 .. n : a < b => s[a].exit <= s[b].exit /\ s[a] # s[b]
    BY <1>1 DEF ByExits
  <2>2. CASE k < i /\ l < i
    <3>1. p[k] = s[k] /\ p[l] = s[l] /\ k \in 1 .. n /\ l \in 1 .. n
      BY <1>4, <1>13, <2>2
    <3> QED BY <2>1, <3>1
  <2>3. CASE k < i /\ l = i
    BY <1>5, <1>13, <2>0, <2>3
  <2>4. CASE k < i /\ l > i
    <3>1. p[k] = s[k] /\ p[l] = s[l - 1] /\ k \in 1 .. n /\ l - 1 \in 1 .. n /\ k < l - 1
      BY <1>4, <1>13, <2>4
    <3> QED BY <2>1, <3>1
  <2>5. CASE k = i
    <3>1. p[k] = t /\ p[l] = s[l - 1] /\ l - 1 \in 1 .. n /\ l - 1 >= i
      BY <1>4, <1>13, <2>5
    <3>2. t.exit < s[l - 1].exit
      BY <1>5, <3>1
    <3> QED BY <1>1, <1>2, <2>0, <3>1, <3>2
  <2>6. CASE k > i
    <3>1. p[k] = s[k - 1] /\ p[l] = s[l - 1] /\ k - 1 \in 1 .. n /\ l - 1 \in 1 .. n /\ k - 1 < l - 1
      BY <1>4, <1>13, <2>6
    <3> QED BY <2>1, <3>1
  <2> QED BY <1>4, <2>2, <2>3, <2>4, <2>5, <2>6
<1> QED BY <1>11, <1>14, <1>15 DEF p, n

\* What a sequence of taken trades is worth, and made.
LEMMA WorthType ==
  ASSUME NEW s \in Seq(TakenRow)
  PROVE  Values(s) \in Int /\ Profits(s) \in Int
<1>1. Len(s) \in Nat /\ DOMAIN s = 1 .. Len(s) /\ \A n \in 1 .. Len(s) : s[n] \in TakenRow
  OBVIOUS
<1>2. \A n \in 1 .. Len(s) : Value(s[n]) \in Int /\ Cost(s[n]) \in Int
  <2> TAKE n \in 1 .. Len(s)
  <2>1. s[n] \in TakenRow
    BY <1>1
  <2>2. \A t \in TakenRow : t.shares \in Int /\ t.sold \in Nat /\ t.bought \in Nat
    BY ONLY SMTT(20) DEF TakenRow
  <2>3. \A x, y \in Int : x * y \in Int
    OBVIOUS
  <2> QED BY ONLY <2>1, <2>2, <2>3 DEF Value, Cost
<1> DEFINE values == [n \in 1 .. Len(s) |-> Value(s[n])]
           profits == [n \in 1 .. Len(s) |-> Value(s[n]) - Cost(s[n])]
<1>3. DOMAIN values = 1 .. Len(s) /\ DOMAIN profits = 1 .. Len(s)
  OBVIOUS
<1>4. (\A n \in 1 .. Len(s) : values[n] \in Int) /\ (\A n \in 1 .. Len(s) : profits[n] \in Int)
  BY <1>2
<1>5. IsFiniteSet(1 .. Len(s))
  BY <1>1, FS_Interval
<1>6. Values(s) = SumFunctionOnSet(values, 1 .. Len(s)) /\ Profits(s) = SumFunctionOnSet(profits, 1 .. Len(s))
  <2>1. Values(s) = SumFunction(values) /\ Profits(s) = SumFunction(profits)
    BY <1>1 DEF Values, Profits
  <2> HIDE DEF values, profits
  <2> QED BY <1>3, <2>1 DEF SumFunction
<1> HIDE DEF values, profits
<1> QED BY <1>4, <1>5, <1>6, SumInt

\* The legs' trades, in the order of their entries, before any is looked at.
LEMMA PoolInit_Inv == PoolInit => PoolInv
<1> SUFFICES ASSUME PoolInit PROVE PoolInv
  OBVIOUS
<1> USE PortfolioAssumption
<1>1. PICK ts \in LegTrades : queue \in SetToSeqs(ts) /\ InOrder(queue)
  BY DEF PoolInit
<1>2. ts \subseteq TradeRow /\ \A a, b \in ts : a.id = b.id => a = b
  BY DEF TradeRow
<1>3. Cardinality(ts) \in Nat
  BY FS_CardinalityType
<1>4. queue \in [1 .. Cardinality(ts) -> ts] /\ \A m, n \in 1 .. Cardinality(ts) : m # n => queue[m] # queue[n]
  BY <1>1 DEF SetToSeqs, IsInjective
<1>5. queue \in Seq(ts) /\ DOMAIN queue = 1 .. Cardinality(ts)
  BY <1>3, <1>4
<1>6. queue \in Seq(TradeRow) /\ \A n \in DOMAIN queue : queue[n] \in TradeRow /\ queue[n] \in ts
  BY <1>2, <1>4, <1>5
<1>7. ASSUME NEW m \in DOMAIN queue, NEW n \in DOMAIN queue, m < n
      PROVE  queue[m].entry <= queue[n].entry /\ queue[m].id # queue[n].id
  <2>1. queue[m].entry \in Nat /\ queue[n].entry \in Nat
    BY <1>6 DEF TradeRow
  <2>2. queue[m] # queue[n] /\ (queue[m].entry < queue[n].entry \/ queue[m].entry = queue[n].entry)
    <3>1. m \in Int /\ n \in Int /\ m # n
      BY <1>5, <1>7
    <3>2. queue[m] # queue[n]
      BY <1>4, <1>5, <3>1
    <3> QED BY <1>1, <1>7, <3>2 DEF InOrder, ByEntry
  <2> QED BY <1>2, <1>6, <2>1, <2>2
<1>8. open = << >> /\ cash \in Int /\ accepted = {} /\ refused = {} /\ endings = {}
  BY DEF PoolInit
<1>9. open \in Seq(accepted) /\ Len(open) = 0 /\ ToSet(open) = {} /\ ByExits(open)
  BY <1>8 DEF ToSet, ByExits
<1>10. PoolTypeOK /\ CeilingExact
  BY <1>8, <1>9 DEF PoolTypeOK, CeilingExact
<1> QED
  BY <1>6, <1>7, <1>8, <1>9, <1>10, FS_EmptySet DEF PoolInv

\* Who is live at the next entry: those whose exit is not due by then.
LEMMA LiveFacts ==
  ASSUME PoolInv, queue # << >>
  PROVE  LET e == Head(queue).entry IN
         /\ {u \in accepted : Live(u, e)} = ToSet(Remaining(e))
         /\ Remaining(e) \in Seq(accepted) /\ ByExits(Remaining(e))
         /\ IsFiniteSet(ToSet(Remaining(e))) /\ Cardinality(ToSet(Remaining(e))) = Len(Remaining(e))
         /\ Len(Remaining(e)) <= MaxConcurrent
         /\ Values(Booked(e)) \in Int
<1> DEFINE e == Head(queue).entry
           rest == Remaining(e)
<1> USE DEF PoolInv
<1>1. 1 \in DOMAIN queue /\ e = queue[1].entry /\ e \in Nat
  <2>1. queue[1] \in TradeRow /\ 1 \in DOMAIN queue /\ Head(queue) = queue[1]
    OBVIOUS
  <2> QED BY <2>1 DEF TradeRow
<1> HIDE DEF e
<1>2. accepted \subseteq TakenRow /\ open \in Seq(accepted) /\ ByExits(open)
  OBVIOUS
<1>3. /\ rest \in Seq(accepted) /\ ByExits(rest) /\ Len(rest) <= Len(open)
      /\ ToSet(rest) = {u \in ToSet(open) : u.exit >= e}
      /\ IsFiniteSet(ToSet(rest)) /\ Cardinality(ToSet(rest)) = Len(rest)
  BY ONLY <1>1, <1>2, RemainingFacts
<1>4. ToSet(open) \subseteq accepted /\ Len(open) <= MaxConcurrent /\ MaxConcurrent \in Nat /\ Len(open) \in Nat /\ Len(rest) \in Nat
  BY <1>3, PortfolioAssumption DEF PoolTypeOK
<1>5. {u \in accepted : Live(u, e)} = ToSet(rest)
  <2>1. ASSUME NEW u \in accepted PROVE Live(u, e) <=> u \in ToSet(rest)
    <3>1. u.entry <= e
      BY <1>1
    <3>2. u.exit \in Nat
      BY DEF TakenRow
    <3>3. u \notin ToSet(open) => u.exit < e
      BY <1>1
    <3> QED BY <1>1, <1>3, <3>1, <3>2, <3>3 DEF Live
  <2> QED BY <1>3, <1>4, <2>1
<1>6. Booked(e) \in Seq(TakenRow)
  <2>1. Due(e) \in 1 .. Len(open) + 1
    BY ONLY <1>1, <1>2, DueFacts
  <2>2. open \in Seq(TakenRow) /\ Len(open) \in Nat
    BY <1>2
  <2>3. CASE Due(e) = 1
    <3>1. Booked(e) = << >>
      BY <2>3, <2>2 DEF Booked
    <3> QED BY <3>1
  <2>4. CASE Due(e) > 1
    <3>1. 1 \in 1 .. Len(open) /\ Due(e) - 1 \in 1 .. Len(open)
      BY <2>1, <2>2, <2>4
    <3>2. SubSeq(open, 1, Due(e) - 1) \in Seq(TakenRow)
      BY <2>1, <2>2, <2>4, <3>1, SubSeqProperties
    <3> QED BY <3>2 DEF Booked
  <2> QED BY <2>1, <2>3, <2>4
<1>7. Values(Booked(e)) \in Int
  BY <1>6, WorthType
<1> QED BY <1>3, <1>4, <1>5, <1>7 DEF e

\* A trade is taken or refused: who is live at its entry is exactly who is open.
LEMMA PoolReplay == PoolInv /\ Replay => PoolInv'
<1> SUFFICES ASSUME PoolInv, Replay PROVE PoolInv'
  OBVIOUS
<1> DEFINE trade == Head(queue)
           e == trade.entry
           rest == Remaining(e)
           funds == cash + Values(Booked(e))
           shares == (funds * PoolPct) \div (100 * trade.bought)
           taken == Taken(trade, shares)
           full == Len(rest) >= MaxConcurrent
<1>1. queue # << >> /\ queue' = Tail(queue) /\ endings' = endings
  BY DEF Replay
<1>2. \/ /\ full \/ shares = 0
         /\ open' = rest /\ cash' = funds /\ refused' = (IF full THEN refused \cup {trade} ELSE refused)
         /\ accepted' = accepted
      \/ /\ ~ full
         /\ open' = Placed(rest, taken) /\ cash' = funds - Cost(taken)
         /\ accepted' = accepted \cup {taken} /\ refused' = refused
  BY DEF Replay
<1>3. /\ {u \in accepted : Live(u, e)} = ToSet(rest)
      /\ rest \in Seq(accepted) /\ ByExits(rest)
      /\ IsFiniteSet(ToSet(rest)) /\ Cardinality(ToSet(rest)) = Len(rest)
      /\ Len(rest) <= MaxConcurrent
      /\ Values(Booked(e)) \in Int
  <2> HIDE DEF PoolInv
  <2> QED BY <1>1, LiveFacts
<1>4. trade \in TradeRow /\ e \in Nat /\ trade.bought \in Nat \ {0}
  <2>1. trade \in TradeRow
    BY <1>1 DEF PoolInv
  <2> QED BY <2>1 DEF TradeRow
<1>5. funds \in Int /\ cash \in Int
  BY <1>3 DEF PoolInv, PoolTypeOK
<1>6. shares \in Int
  <2> HIDE DEF funds, trade
  <2>1. PoolPct \in Int /\ funds * PoolPct \in Int /\ 100 * trade.bought \in Nat \ {0}
    BY <1>4, <1>5, PortfolioAssumption
  <2> QED BY <2>1
<1>7. taken \in TakenRow /\ taken.entry = e /\ taken.id = trade.id
  <2> HIDE DEF shares, trade
  <2> QED BY <1>4, <1>6 DEF Taken, TradeRow, TakenRow
<1>8. Cost(taken) \in Int
  <2>1. taken.shares \in Int /\ taken.bought \in Int
    <3> HIDE DEF taken
    <3> QED BY <1>7 DEF TakenRow
  <2> QED BY <2>1 DEF Cost
<1>9. /\ queue' \in Seq(TradeRow)
      /\ \A n \in DOMAIN queue' : n + 1 \in DOMAIN queue /\ queue'[n] = queue[n + 1] /\ n \in Nat /\ 1 < n + 1
      /\ trade = queue[1] /\ 1 \in DOMAIN queue
  <2>1. queue \in Seq(TradeRow)
    BY DEF PoolInv
  <2> QED BY <1>1, <2>1
<1>10. /\ \A m, n \in DOMAIN queue : m < n => queue[m].entry <= queue[n].entry /\ queue[m].id # queue[n].id
       /\ accepted \subseteq TakenRow /\ IsFiniteSet(accepted) /\ refused \subseteq TradeRow
       /\ \A u \in accepted \cup refused, n \in DOMAIN queue : u.entry <= queue[n].entry
       /\ \A u \in accepted, n \in DOMAIN queue : u.id # queue[n].id
       /\ \A u \in accepted \ ToSet(open), n \in DOMAIN queue : u.exit < queue[n].entry
       /\ Len(open) <= MaxConcurrent /\ ToSet(open) \subseteq accepted /\ endings \subseteq Int
       /\ CeilingExact
       /\ open \in Seq(accepted) /\ ByExits(open)
  BY DEF PoolInv, PoolTypeOK
<1>11. ToSet(rest) = {u \in ToSet(open) : u.exit >= e}
  <2> HIDE DEF e
  <2> QED BY ONLY <1>4, <1>10, RemainingFacts
<1> HIDE DEF trade, e, rest, funds, shares, taken, full
<1>12. \A m, n \in DOMAIN queue' : m < n => queue'[m].entry <= queue'[n].entry /\ queue'[m].id # queue'[n].id
  BY <1>9, <1>10
<1>13. \A n \in DOMAIN queue' : e <= queue'[n].entry /\ trade.id # queue'[n].id
  BY <1>9, <1>10 DEF e
<1>14. \A u \in accepted \cup refused : u.entry <= e
  BY <1>9, <1>10 DEF e
<1>15. \A n \in DOMAIN queue' : queue'[n].entry \in Nat
  <2>1. \A n \in DOMAIN queue' : queue'[n] \in TradeRow
    BY <1>9
  <2> QED BY <2>1 DEF TradeRow
<1>16. ASSUME NEW u \in accepted \ ToSet(rest), NEW n \in DOMAIN queue' PROVE u.exit < queue'[n].entry
  <2>1. u.exit \in Nat
    BY <1>10 DEF TakenRow
  <2>2. CASE u \in ToSet(open)
    <3>1. u.exit < e
      BY <1>4, <1>11, <2>1, <2>2
    <3> QED BY <1>4, <1>13, <1>15, <2>1, <3>1
  <2>3. CASE u \notin ToSet(open)
    BY <1>9, <1>10, <2>3
  <2> QED BY <2>2, <2>3
<1>17. MaxConcurrent \in Nat /\ Len(rest) \in Nat
  BY <1>3, PortfolioAssumption
<1>18. CASE /\ full \/ shares = 0
            /\ open' = rest /\ cash' = funds /\ refused' = (IF full THEN refused \cup {trade} ELSE refused)
            /\ accepted' = accepted
  <2>1. \A u \in refused' : u \in refused \/ (full /\ u = trade)
    BY <1>18
  <2>2. refused' \subseteq TradeRow
    BY <1>4, <1>10, <2>1
  <2>3. \A u \in accepted' \cup refused' : u.entry <= e
    BY <1>4, <1>14, <1>18, <2>1 DEF e
  <2>4. ASSUME NEW u \in accepted' \cup refused', NEW n \in DOMAIN queue' PROVE u.entry <= queue'[n].entry
    <3>1. u.entry \in Nat
      BY <1>10, <1>18, <2>2 DEF TakenRow, TradeRow
    <3> QED BY <1>4, <1>13, <1>15, <2>3, <3>1
  <2>5. \A u \in accepted', n \in DOMAIN queue' : u.id # queue'[n].id
    BY <1>9, <1>10, <1>18
  <2>6. ToSet(rest) \subseteq accepted
    BY <1>3
  <2>7. PoolTypeOK'
    BY <1>1, <1>3, <1>5, <1>10, <1>18, <2>6 DEF PoolTypeOK
  <2>8. CeilingExact'
    <3>1. full => Len(rest) = MaxConcurrent
      BY <1>3, <1>17 DEF full
    <3>2. full => Cardinality({u \in accepted : Live(u, trade.entry)}) = MaxConcurrent
      BY <1>3, <3>1 DEF e
    <3>3. \A t \in accepted : Cardinality({u \in accepted : Live(u, t.entry)}) <= MaxConcurrent
      BY <1>10 DEF CeilingExact
    <3>4. \A t \in refused : Cardinality({u \in accepted : Live(u, t.entry)}) = MaxConcurrent
      BY <1>10 DEF CeilingExact
    <3>5. \A t \in refused' : Cardinality({u \in accepted : Live(u, t.entry)}) = MaxConcurrent
      BY <2>1, <3>2, <3>4
    <3>6. CeilingExact' <=> /\ \A t \in accepted' : Cardinality({u \in accepted' : Live(u, t.entry)}) <= MaxConcurrent
                            /\ \A t \in refused' : Cardinality({u \in accepted' : Live(u, t.entry)}) = MaxConcurrent
      BY DEF CeilingExact, Live
    <3> QED BY <1>18, <3>3, <3>5, <3>6
  <2>9. \A u \in accepted' \ ToSet(open'), n \in DOMAIN queue' : u.exit < queue'[n].entry
    BY <1>16, <1>18
  <2> QED
    BY <1>3, <1>9, <1>10, <1>12, <1>18, <2>2, <2>4, <2>5, <2>7, <2>8, <2>9 DEF PoolInv, ByExits, ToSet
<1>19. CASE /\ ~ full
            /\ open' = Placed(rest, taken) /\ cash' = funds - Cost(taken)
            /\ accepted' = accepted \cup {taken} /\ refused' = refused
  <2>1. ToSet(rest) \subseteq accepted /\ taken \notin accepted /\ Len(rest) < MaxConcurrent
    <3>1. \A u \in accepted : u.id # taken.id
      BY <1>7, <1>9, <1>10
    <3> QED BY <1>3, <1>17, <1>19, <3>1 DEF full
  <2>2. /\ open' \in Seq(accepted') /\ Len(open') = Len(rest) + 1
        /\ ByExits(open') /\ ToSet(open') = ToSet(rest) \cup {taken}
    <3>1. rest \in Seq(accepted) /\ accepted \subseteq TakenRow /\ ByExits(rest) /\ taken \in TakenRow /\ taken \notin ToSet(rest)
      BY <1>3, <1>7, <1>10, <2>1
    <3>2. /\ Placed(rest, taken) \in Seq(accepted \cup {taken}) /\ Len(Placed(rest, taken)) = Len(rest) + 1
          /\ ByExits(Placed(rest, taken)) /\ ToSet(Placed(rest, taken)) = ToSet(rest) \cup {taken}
      BY ONLY <3>1, PlacedFacts
    <3> QED BY <1>19, <3>2
  <2>3. accepted' \subseteq TakenRow /\ IsFiniteSet(accepted') /\ refused' \subseteq TradeRow
    BY <1>7, <1>10, <1>19, FS_AddElement
  <2>4. \A u \in accepted' \cup refused' : u.entry <= e
    BY <1>4, <1>7, <1>14, <1>19
  <2>5. ASSUME NEW u \in accepted' \cup refused', NEW n \in DOMAIN queue' PROVE u.entry <= queue'[n].entry
    <3>1. u.entry \in Nat
      BY <2>3 DEF TakenRow, TradeRow
    <3> QED BY <1>4, <1>13, <1>15, <2>4, <3>1
  <2>6. \A u \in accepted', n \in DOMAIN queue' : u.id # queue'[n].id
    BY <1>7, <1>9, <1>10, <1>13, <1>19
  <2>7. \A u \in accepted' \ ToSet(open'), n \in DOMAIN queue' : u.exit < queue'[n].entry
    BY <1>16, <1>19, <2>2
  <2>8. PoolTypeOK'
    <3>1. Len(open') <= MaxConcurrent
      BY <1>17, <2>1, <2>2
    <3>2. ToSet(open') \subseteq accepted'
      BY <1>19, <2>1, <2>2
    <3>3. cash' \in Int
      BY <1>5, <1>8, <1>19
    <3> QED BY <1>1, <1>10, <3>1, <3>2, <3>3 DEF PoolTypeOK
  <2>9. ASSUME NEW a \in Nat, a <= e
        PROVE  /\ a # e => {u \in accepted' : Live(u, a)} = {u \in accepted : Live(u, a)}
               /\ a = e => Cardinality({u \in accepted' : Live(u, a)}) <= MaxConcurrent
    <3>1. ASSUME a # e PROVE {u \in accepted' : Live(u, a)} = {u \in accepted : Live(u, a)}
      <4>1. ~ Live(taken, a)
        BY <1>4, <1>7, <2>9, <3>1 DEF Live
      <4> QED BY <1>19, <4>1
    <3>2. ASSUME a = e PROVE Cardinality({u \in accepted' : Live(u, a)}) <= MaxConcurrent
      <4> DEFINE A == {u \in accepted : Live(u, a)}
                 B == {u \in accepted' : Live(u, a)}
      <4>1. A = ToSet(rest) /\ IsFiniteSet(A) /\ Cardinality(A) < MaxConcurrent /\ Cardinality(A) \in Nat
        BY <1>3, <1>17, <2>1, <3>2
      <4>2. taken \notin A
        BY <2>1
      <4>3. B = A \/ B = A \cup {taken}
        BY <1>19
      <4> HIDE DEF A, B
      <4>4. Cardinality(A \cup {taken}) = Cardinality(A) + 1
        BY <4>1, <4>2, FS_AddElement
      <4>5. Cardinality(B) = Cardinality(A) \/ Cardinality(B) = Cardinality(A) + 1
        BY <4>3, <4>4
      <4>6. Cardinality(B) <= MaxConcurrent
        BY ONLY <1>17, <4>1, <4>5
      <4> QED BY <4>6 DEF B
    <3> QED BY <3>1, <3>2
  <2>10. CeilingExact'
    <3>1. ASSUME NEW t \in accepted' PROVE Cardinality({u \in accepted' : Live(u, t.entry)}) <= MaxConcurrent
      <4>1. t.entry \in Nat /\ t.entry <= e
        BY <2>3, <2>4 DEF TakenRow
      <4>2. t.entry # e => t \in accepted
        BY <1>7, <1>19
      <4>3. t \in accepted => Cardinality({u \in accepted : Live(u, t.entry)}) <= MaxConcurrent
        BY <1>10 DEF CeilingExact
      <4> QED BY <2>9, <4>1, <4>2, <4>3
    <3>2. ASSUME NEW t \in refused' PROVE Cardinality({u \in accepted' : Live(u, t.entry)}) = MaxConcurrent
      <4>1. t.entry \in Nat /\ t.entry <= e
        BY <2>3, <2>4 DEF TradeRow
      <4>2. Cardinality({u \in accepted : Live(u, t.entry)}) = MaxConcurrent
        BY <1>10, <1>19 DEF CeilingExact
      <4>3. t.entry # e
        <5> SUFFICES ASSUME t.entry = e PROVE FALSE
          OBVIOUS
        <5>1. Cardinality({u \in accepted : Live(u, e)}) = Len(rest)
          BY <1>3
        <5> QED BY <1>17, <2>1, <4>2, <5>1
      <4> QED BY <2>9, <4>1, <4>2, <4>3
    <3>3. CeilingExact' <=> /\ \A t \in accepted' : Cardinality({u \in accepted' : Live(u, t.entry)}) <= MaxConcurrent
                            /\ \A t \in refused' : Cardinality({u \in accepted' : Live(u, t.entry)}) = MaxConcurrent
      BY DEF CeilingExact, Live
    <3> QED BY <3>1, <3>2, <3>3
  <2> QED
    BY <1>9, <1>12, <2>2, <2>3, <2>5, <2>6, <2>7, <2>8, <2>10 DEF PoolInv, ByExits, ToSet
<1> QED BY <1>2, <1>18, <1>19

\* What is left is booked, and the trades reshuffled.
LEMMA PoolEnd == PoolInv /\ (Drain \/ Shuffle) => PoolInv'
<1> SUFFICES ASSUME PoolInv, Drain \/ Shuffle PROVE PoolInv'
  OBVIOUS
<1>1. accepted \subseteq TakenRow /\ IsFiniteSet(accepted) /\ open \in Seq(accepted) /\ cash \in Int /\ endings \subseteq Int
  BY DEF PoolInv, PoolTypeOK
<1>2. queue = << >> /\ queue' = queue /\ accepted' = accepted /\ refused' = refused
  BY DEF Drain, Shuffle
<1>3. CeilingExact'
  BY <1>2 DEF PoolInv, CeilingExact, Live
<1>4. /\ open' \in Seq(accepted') /\ ByExits(open') /\ Len(open') <= MaxConcurrent /\ ToSet(open') \subseteq accepted'
      /\ cash' \in Int /\ endings' \subseteq Int
  <2>1. CASE Drain
    <3>1. Values(open) \in Int
      <4>1. open \in Seq(TakenRow)
        BY <1>1
      <4> QED BY <4>1, WorthType
    <3>2. open' = << >> /\ cash' = cash + Values(open) /\ endings' = endings
      BY <2>1 DEF Drain
    <3>3. 0 <= MaxConcurrent
      BY PortfolioAssumption
    <3>4. open' \in Seq(accepted') /\ ByExits(open') /\ Len(open') = 0 /\ ToSet(open') = {}
      BY <3>2 DEF ByExits, ToSet
    <3> QED BY <1>1, <3>1, <3>2, <3>3, <3>4
  <2>2. CASE Shuffle
    <3>1. open' = open /\ cash' = cash
      BY <2>2 DEF Shuffle
    <3>2. PICK order \in SetToSeqs(accepted) : endings' = endings \cup {PoolCash + Profits(order)}
      BY <2>2 DEF Shuffle
    <3>3. order \in Seq(TakenRow)
      <4>1. Cardinality(accepted) \in Nat
        BY <1>1, FS_CardinalityType
      <4>2. order \in [1 .. Cardinality(accepted) -> accepted]
        BY <3>2 DEF SetToSeqs
      <4> QED BY <1>1, <4>1, <4>2
    <3>4. PoolCash + Profits(order) \in Int
      BY <3>3, WorthType, PortfolioAssumption
    <3> QED BY <1>1, <1>2, <3>1, <3>2, <3>4 DEF PoolInv, PoolTypeOK, ByExits, ToSet
  <2> QED BY <2>1, <2>2
<1>5. PoolTypeOK'
  BY <1>4 DEF PoolTypeOK
<1> QED
  BY <1>1, <1>2, <1>3, <1>4, <1>5 DEF PoolInv, ByExits, ToSet

\* The invariant of the replay, for any trades of any legs.
THEOREM PoolInductive == PoolSpec => []PoolInv
<1>1. PoolInv /\ UNCHANGED poolVars => PoolInv'
  BY DEF poolVars, PoolInv, PoolTypeOK, CeilingExact, Live, ByExits, ToSet
<1>2. PoolInv /\ [PoolNext]_poolVars => PoolInv'
  BY <1>1, PoolReplay, PoolEnd DEF PoolNext
<1> QED BY <1>2, PoolInit_Inv, PTL DEF PoolSpec

(* No more than the ceiling of positions is ever live at an entry, and a   *)
(* trade is refused for it only when that many are, whatever the trades of *)
(* the legs (portfolioBacktest, backtestAdvanced.js).                      *)
THEOREM CeilingIsExact == PoolSpec => []CeilingExact
<1>1. PoolInv => CeilingExact
  BY DEF PoolInv
<1> QED BY <1>1, PoolInductive, PTL

(***************************************************************************)
(* The searches                                                            *)
(* A leaderboard is sorted, has the best, and is of what was tried.        *)
(***************************************************************************)

\* Sorting keeps every result, once, and puts none behind one that scored less.
LEMMA SortedFacts ==
  ASSUME NEW list \in Seq(Result)
  PROVE  \E from \in [1 .. Len(list) -> 1 .. Len(list)] :
            /\ SortedByScore(list) = [k \in 1 .. Len(list) |-> list[from[k]]]
            /\ \A i \in 1 .. Len(list) : \E k \in 1 .. Len(list) : from[k] = i
            /\ \A k, l \in 1 .. Len(list) : k < l => /\ from[k] # from[l]
                                                     /\ list[from[k]].score >= list[from[l]].score
<1> DEFINE S == 1 .. Len(list)
           R == {u \in S \X S : Outranks(list, u[1], u[2])}
           rank == [i \in S |-> Rank(list, i)]
           from == [k \in S |-> CHOOSE i \in S : Rank(list, i) = k]
<1>1. Len(list) \in Nat /\ DOMAIN list = S /\ IsFiniteSet(S) /\ Cardinality(S) = Len(list)
  <2>1. Len(list) \in Nat /\ DOMAIN list = S
    OBVIOUS
  <2>2. IsFiniteSet(S) /\ Cardinality(S) = IF 1 > Len(list) THEN 0 ELSE Len(list) - 1 + 1
    BY <2>1, FS_Interval
  <2> QED BY <2>1, <2>2
<1>2. \A i \in S : list[i].score \in Int
  <2>1. \A i \in S : list[i] \in Result
    BY <1>1
  <2> QED BY <2>1, SearchAssumption DEF Result
<1>3. \A i, j \in S : <<i, j>> \in R <=> Outranks(list, i, j)
  OBVIOUS
<1>4. /\ \A i \in S : <<i, i>> \notin R
      /\ \A i, j, l \in S : <<i, j>> \in R /\ <<j, l>> \in R => <<i, l>> \in R
      /\ \A i, j \in S : i # j => <<i, j>> \in R \/ <<j, i>> \in R
  <2> HIDE DEF R
  <2> QED BY <1>2, <1>3, SMTT(20) DEF Outranks
<1>5. \A i \in S : rank[i] = 1 + Cardinality({j \in S : <<j, i>> \in R})
  <2> TAKE i \in S
  <2>1. {j \in S : <<j, i>> \in R} = {j \in DOMAIN list : Outranks(list, j, i)}
    BY <1>1, <1>3
  <2> HIDE DEF R
  <2> QED BY <2>1 DEF Rank
<1>6. /\ \A i \in S : rank[i] \in S
      /\ \A i, j \in S : <<i, j>> \in R <=> rank[i] < rank[j]
      /\ \A k \in S : \E i \in S : rank[i] = k
      /\ \A i, j \in S : rank[i] = rank[j] => i = j
  <2>1. IsFiniteSet(S) /\ Cardinality(S) = Len(list) /\ S = 1 .. Len(list)
    BY <1>1
  <2> HIDE DEF R, rank, S, from
  <2>2. Orders(R, S) /\ Places(rank, R, S)
    BY <1>4, <1>5 DEF Orders, Places
  <2>3. /\ \A i \in S : rank[i] \in 1 .. Cardinality(S)
        /\ \A i, j \in S : <<i, j>> \in R <=> rank[i] < rank[j]
        /\ \A k \in 1 .. Cardinality(S) : \E i \in S : rank[i] = k
        /\ \A i, j \in S : rank[i] = rank[j] => i = j
    <3>1. IsFiniteSet(S) BY <2>1
    <3>2. Orders(R, S) BY <2>2
    <3>3. Places(rank, R, S) BY <2>2
    <3> QED BY ONLY <3>1, <3>2, <3>3, Ranking
  <2> QED BY <2>1, <2>3
<1>7. \A k \in S : from[k] \in S /\ rank[from[k]] = k
  <2> TAKE k \in S
  <2>1. \E i \in S : Rank(list, i) = k
    BY <1>6
  <2>2. (CHOOSE i \in S : Rank(list, i) = k) \in S /\ Rank(list, CHOOSE i \in S : Rank(list, i) = k) = k
    BY <2>1
  <2> QED BY <2>2
<1>8. SortedByScore(list) = [k \in S |-> list[from[k]]]
  BY <1>1 DEF SortedByScore
<1>9. from \in [S -> S]
  BY <1>7
<1> HIDE DEF from, rank, R
<1>11. \A i \in S : \E k \in S : from[k] = i
  <2> SUFFICES ASSUME NEW i \in S PROVE \E k \in S : from[k] = i
    OBVIOUS
  <2>1. rank[i] \in S /\ from[rank[i]] \in S /\ rank[from[rank[i]]] = rank[i]
    BY <1>6, <1>7
  <2> QED BY <1>6, <2>1
<1>12. ASSUME NEW k \in S, NEW l \in S, k < l
       PROVE  from[k] # from[l] /\ list[from[k]].score >= list[from[l]].score
  <2>1. <<from[k], from[l]>> \in R
    <3>1. from[k] \in S /\ from[l] \in S /\ rank[from[k]] < rank[from[l]]
      BY <1>7, <1>12
    <3> HIDE DEF S
    <3> QED BY <1>6, <3>1
  <2>2. Outranks(list, from[k], from[l])
    BY <1>3, <1>7, <2>1
  <2> QED BY <1>2, <1>7, <1>12, <2>2 DEF Outranks
<1> QED
  BY <1>8, <1>9, <1>11, <1>12

\* The leaderboard: as many of the sorted results as fit.
LEMMA BoardFacts ==
  ASSUME NEW list \in Seq(Result)
  PROVE  LET board == BestFirst(list)
             m == IF Len(list) < TopN THEN Len(list) ELSE TopN
         IN  /\ board \in Seq(Result) /\ Len(board) = m /\ m \in 0 .. TopN
             /\ \E from \in [1 .. Len(list) -> 1 .. Len(list)] :
                  /\ \A k \in 1 .. m : board[k] = list[from[k]]
                  /\ \A i \in 1 .. Len(list) : \E k \in 1 .. Len(list) : from[k] = i
                  /\ \A k, l \in 1 .. Len(list) : k < l => /\ from[k] # from[l]
                                                           /\ list[from[k]].score >= list[from[l]].score
<1> DEFINE m == IF Len(list) < TopN THEN Len(list) ELSE TopN
           sorted == SortedByScore(list)
<1>1. PICK from \in [1 .. Len(list) -> 1 .. Len(list)] :
            /\ sorted = [k \in 1 .. Len(list) |-> list[from[k]]]
            /\ \A i \in 1 .. Len(list) : \E k \in 1 .. Len(list) : from[k] = i
            /\ \A k, l \in 1 .. Len(list) : k < l => /\ from[k] # from[l]
                                                     /\ list[from[k]].score >= list[from[l]].score
  BY SortedFacts
<1>2. sorted \in Seq(Result) /\ Len(sorted) = Len(list) /\ \A k \in 1 .. Len(list) : sorted[k] = list[from[k]]
  <2>1. Len(list) \in Nat /\ \A k \in 1 .. Len(list) : list[from[k]] \in Result
    OBVIOUS
  <2>2. DOMAIN sorted = 1 .. Len(list) /\ \A k \in 1 .. Len(list) : sorted[k] = list[from[k]]
    BY <1>1
  <2> HIDE DEF sorted
  <2>3. sorted \in Seq(Result)
    BY <1>1, <2>1, IsASeq
  <2> QED BY <2>1, <2>2, <2>3
<1>3. m \in 0 .. TopN /\ m <= Len(sorted) /\ m \in Nat /\ m <= Len(list)
  BY <1>2, SearchAssumption
<1>4. BestFirst(list) = SubSeq(sorted, 1, m)
  BY <1>2 DEF BestFirst, Leaders
<1> HIDE DEF sorted, m
<1>5. /\ SubSeq(sorted, 1, m) \in Seq(Result) /\ Len(SubSeq(sorted, 1, m)) = m
      /\ \A k \in 1 .. m : SubSeq(sorted, 1, m)[k] = sorted[k]
  BY <1>2, <1>3, SubSeqProperties
<1>6. \A k \in 1 .. m : BestFirst(list)[k] = list[from[k]]
  BY <1>2, <1>3, <1>4, <1>5
<1> QED
  BY <1>1, <1>3, <1>4, <1>5, <1>6 DEF m

\* What the row of a finished run says of the results.
Published ==
  LET board == BestFirst(results)
  IN /\ run.leaderboard = [i \in DOMAIN board |-> board[i].params]
     /\ run.best = IF board = <<>> THEN None ELSE board[1].params

SearchInv ==
  /\ SearchTypeOK
  /\ \A i \in DOMAIN results : results[i].params <= tried
  /\ \A i, j \in DOMAIN results : i < j => results[i].params < results[j].params
  /\ job \in {"created", "started"} => tried = 0
  /\ job = "searching" => tried < Budget
  /\ job = "finishing" => tried = Budget
  /\ run.completed <= tried
  /\ (job = "searching" /\ run.status = "running" /\ dbErrors = 0) => tried - run.completed = (tried % FlushEvery)
  /\ run.status = "done" => job = "none" /\ tried = Budget /\ Published

\* A flush is due every so many combinations, at least one.
LEMMA FlushType == FlushEvery \in Nat \ {0}
<1>1. Budget \div Flushes \in Int /\ Budget \div Flushes >= 0
  BY SearchAssumption
<1> HIDE DEF FlushEvery
<1> QED BY <1>1 DEF FlushEvery

\* Remainders of a number and the next.
LEMMA NextRemainder ==
  ASSUME NEW n \in Nat, NEW d \in Nat \ {0}
  PROVE  (n % d) \in 0 .. d - 1 /\ ((n + 1) % d = 0 \/ (n + 1) % d = (n % d) + 1)
<1> DEFINE q == n \div d
           r == (n % d)
<1>1. q \in Int /\ r \in 0 .. d - 1 /\ n = d * q + r
  OBVIOUS
<1> HIDE DEF q, r
<1>2. CASE r = d - 1
  <2>1. n + 1 = d * (q + 1)
    BY <1>1, <1>2
  <2>2. (d * (q + 1)) % d = 0
    BY <1>1
  <2> QED BY <1>1, <2>1, <2>2 DEF r
<1>3. CASE r < d - 1
  <2>1. n + 1 = d * q + (r + 1) /\ r + 1 \in 0 .. d - 1
    BY <1>1, <1>3
  <2>2. (d * q + (r + 1)) % d = r + 1
    BY <1>1, <2>1
  <2> QED BY <1>1, <2>1, <2>2 DEF r
<1> QED BY <1>1, <1>2, <1>3

\* Before a search is asked for there is neither row nor result.
LEMMA SearchInit_Inv == SearchInit => SearchInv
<1> SUFFICES ASSUME SearchInit PROVE SearchInv
  OBVIOUS
<1> USE SearchAssumption DEF SearchInit
<1>1. run \in RunRow
  <2>1. <<>> \in [1 .. 0 -> 1 .. Budget] /\ 0 \in 0 .. TopN
    OBVIOUS
  <2>2. <<>> \in UNION {[1 .. n -> 1 .. Budget] : n \in 0 .. TopN}
    BY <2>1
  <2>3. [status |-> "absent", completed |-> 0, leaderboard |-> <<>>, best |-> None] \in RunRow
    BY <2>2, SMTT(20) DEF RunRow, None
  <2> QED BY <2>3
<1>2. SearchTypeOK
  BY <1>1 DEF SearchTypeOK
<1> QED BY <1>2 DEF SearchInv

\* The row's fields keep their types.
LEMMA RowForms ==
  ASSUME run \in RunRow
  PROVE  /\ \A st \in {"absent", "pending", "running", "done", "failed"} :
                LET row == [run EXCEPT !.status = st]
                IN  row \in RunRow /\ row.status = st /\ row.completed = run.completed
         /\ \A n \in 0 .. Budget :
                LET row == [run EXCEPT !.completed = n]
                IN  row \in RunRow /\ row.status = run.status /\ row.completed = n
BY DEF RunRow

\* What a sample may be drawn around is a set of parameters tried, or none.
LEMMA PoolType == results \in Seq(Result) => GoodPool \subseteq 0 .. Budget
<1> SUFFICES ASSUME results \in Seq(Result) PROVE GoodPool \subseteq 0 .. Budget
  OBVIOUS
<1> DEFINE sorted == SortedByScore(results)
           most == IF Len(results) \div Quarter = 0 THEN 1 ELSE Len(results) \div Quarter
           m == IF Len(sorted) < most THEN Len(sorted) ELSE most
<1>1. sorted \in Seq(Result)
  <2>1. PICK from \in [1 .. Len(results) -> 1 .. Len(results)] : sorted = [k \in 1 .. Len(results) |-> results[from[k]]]
    BY SortedFacts
  <2>2. Len(results) \in Nat /\ \A k \in 1 .. Len(results) : results[from[k]] \in Result
    OBVIOUS
  <2> HIDE DEF sorted
  <2> QED BY <2>1, <2>2, IsASeq
<1>2. most \in Nat
  BY SearchAssumption
<1> HIDE DEF sorted, most
<1>3. m \in 0 .. Len(sorted)
  BY <1>1, <1>2
<1> HIDE DEF m
<1>4. SubSeq(sorted, 1, m) \in Seq(Result)
  BY <1>1, <1>3, SubSeqProperties
<1>5. \A i \in DOMAIN SubSeq(sorted, 1, m) : SubSeq(sorted, 1, m)[i].params \in 1 .. Budget
  BY <1>4 DEF Result
<1>6. Budget \in Nat
  BY SearchAssumption
<1>7. GoodPool = {None} \/ GoodPool = {SubSeq(sorted, 1, m)[i].params : i \in DOMAIN SubSeq(sorted, 1, m)}
  <2>1. SubSeq(sorted, 1, m) = Leaders(sorted, most)
    BY DEF Leaders, m
  <2>2. GoodPool = {None} \/ GoodPool = {Leaders(sorted, most)[i].params : i \in DOMAIN Leaders(sorted, most)}
    <3>1. CASE kind = "grid" \/ tried < Warmup \/ Len(results) < Warmup
      BY <3>1, Zenon DEF GoodPool
    <3>2. CASE ~(kind = "grid" \/ tried < Warmup \/ Len(results) < Warmup)
      BY ONLY <3>2 DEF GoodPool, sorted, most
    <3> QED BY <3>1, <3>2
  <2> QED BY <2>1, <2>2
<1> DEFINE best == SubSeq(sorted, 1, m)
<1>8. CASE GoodPool = {None}
  BY <1>6, <1>8 DEF None
<1>9. CASE GoodPool = {best[i].params : i \in DOMAIN best}
  <2>1. \A i \in DOMAIN best : best[i].params \in 1 .. Budget
    BY <1>5
  <2> HIDE DEF best
  <2>2. \A v \in 1 .. Budget : v \in 0 .. Budget
    BY <1>6
  <2> QED BY <1>9, <2>1, <2>2
<1> QED BY <1>7, <1>8, <1>9

\* Every step of the job, of the row and of the database keeps the invariant.
LEMMA SearchStep == SearchInv /\ [SearchNext]_searchVars => SearchInv'
<1> SUFFICES ASSUME SearchInv, [SearchNext]_searchVars PROVE SearchInv'
  OBVIOUS
<1> USE DEF SearchInv, SearchTypeOK
<1>0. /\ Budget \in Nat \ {0} /\ TopN \in Nat \ {0} /\ FlushEvery \in Nat \ {0} /\ DbFailures \in Nat
      /\ run.status \in {"absent", "pending", "running", "done", "failed"}
      /\ run.completed \in 0 .. Budget /\ tried \in Nat
  BY FlushType, SearchAssumption DEF RunRow
<1> HIDE DEF FlushEvery
<1>1. CASE StartSearch
  <2>1. run' \in RunRow /\ run'.status = "pending" /\ run'.completed = run.completed
    BY <1>1, RowForms DEF StartSearch
  <2> QED BY <1>0, <1>1, <2>1 DEF StartSearch
<1>2. CASE BeginSearch
  <2>1. CASE run.status = "absent"
    BY <1>0, <1>2, <2>1 DEF BeginSearch
  <2>2. CASE run.status # "absent"
    <3>1. run' \in RunRow /\ run'.status = "running" /\ run'.completed = run.completed /\ job' = "started"
      BY <1>2, <2>2, RowForms DEF BeginSearch
    <3> QED BY <1>0, <1>2, <3>1 DEF BeginSearch
  <2> QED BY <2>1, <2>2
<1>3. CASE LoadBars
  <2>1. CASE job' = "searching" /\ UNCHANGED run
    <3>1. 0 % FlushEvery = 0
      BY <1>0
    <3>2. tried = 0 /\ run.completed = 0 /\ FlushEvery' = FlushEvery
      BY <1>0, <1>3 DEF LoadBars, FlushEvery
    <3> QED BY <1>0, <1>3, <2>1, <3>1, <3>2 DEF LoadBars
  <2>2. CASE job' = "none" /\ run' = Updated([run EXCEPT !.status = "failed"])
    <3>1. CASE run.status = "absent"
      BY <1>0, <1>3, <2>2, <3>1 DEF LoadBars, Updated
    <3>2. CASE run.status # "absent"
      <4>1. run' \in RunRow /\ run'.status = "failed" /\ run'.completed = run.completed
        BY <2>2, <3>2, RowForms DEF Updated
      <4> QED BY <1>0, <1>3, <2>2, <4>1 DEF LoadBars
    <3> QED BY <3>1, <3>2
  <2>3. CASE job' = "failing" /\ UNCHANGED run
    BY <1>0, <1>3, <2>3 DEF LoadBars
  <2> QED BY <1>3, <2>1, <2>2, <2>3 DEF LoadBars
<1>4. CASE EvaluateOne
  <2>1. /\ job = "searching" /\ tried < Budget /\ tried' = tried + 1 /\ UNCHANGED <<kind, dbErrors>>
        /\ job' = IF tried' = Budget THEN "finishing" ELSE job
    BY <1>4 DEF EvaluateOne
  <2>2. tried' \in 1 .. Budget
    BY <1>0, <2>1
  <2>3. /\ results' \in Seq(Result)
        /\ \A i \in DOMAIN results' : results'[i].params <= tried'
        /\ \A i, j \in DOMAIN results' : i < j => results'[i].params < results'[j].params
    <3>0. \A i \in DOMAIN results : results[i].params \in Int
      <4>1. \A i \in DOMAIN results : results[i] \in Result
        OBVIOUS
      <4> QED BY <1>0, <4>1 DEF Result
    <3>1. CASE UNCHANGED results
      BY <1>0, <2>1, <3>0, <3>1
    <3>2. CASE \E s \in Scores, near \in GoodPool :
                  results' = Append(results, [params |-> tried + 1, score |-> s, near |-> near])
      <4>1. PICK s \in Scores, near \in GoodPool :
                  results' = Append(results, [params |-> tried + 1, score |-> s, near |-> near])
        BY <3>2
      <4> DEFINE new == [params |-> tried + 1, score |-> s, near |-> near]
      <4>2. new \in Result /\ new.params = tried + 1
        BY <1>0, <2>1, <2>2, PoolType DEF Result
      <4> HIDE DEF new
      <4>3. results' \in Seq(Result) /\ Len(results') = Len(results) + 1 /\ Len(results) \in Nat
            /\ (\A i \in 1 .. Len(results) : results'[i] = results[i]) /\ results'[Len(results) + 1] = new
            /\ DOMAIN results = 1 .. Len(results)
        BY <4>1, <4>2 DEF new
      <4>4. \A i \in DOMAIN results' : i \in DOMAIN results \/ i = Len(results) + 1
        BY <4>3
      <4>5. \A i \in DOMAIN results' : results'[i].params <= tried'
        BY <1>0, <2>1, <3>0, <4>2, <4>3, <4>4
      <4>6. ASSUME NEW i \in DOMAIN results', NEW j \in DOMAIN results', i < j
            PROVE  results'[i].params < results'[j].params
        <5>1. i \in DOMAIN results
          BY <4>3, <4>4, <4>6
        <5>2. CASE j \in DOMAIN results
          BY <4>3, <4>6, <5>1, <5>2
        <5>3. CASE j = Len(results) + 1
          BY <1>0, <3>0, <4>2, <4>3, <5>1, <5>3
        <5> QED BY <4>4, <5>2, <5>3
      <4> QED BY <4>3, <4>5, <4>6
    <3> QED BY <1>4, <3>1, <3>2 DEF EvaluateOne
  <2>4. /\ run' \in RunRow /\ run'.completed <= tried' /\ run'.status = run.status
        /\ run.status = "running" =>
             run'.completed = IF (tried' % FlushEvery) = 0 \/ tried' = Budget THEN tried' ELSE run.completed
    <3>1. CASE run.status # "absent" /\ (tried' % FlushEvery = 0 \/ tried' = Budget)
      <4>1. run' = [run EXCEPT !.completed = tried']
        BY <1>4, <3>1 DEF EvaluateOne, Updated
      <4>2. run' \in RunRow /\ run'.status = run.status /\ run'.completed = tried'
        BY <2>2, <4>1, RowForms
      <4> QED BY <1>0, <2>2, <3>1, <4>2
    <3>2. CASE run.status = "absent" \/ ~(tried' % FlushEvery = 0 \/ tried' = Budget)
      <4>1. run' = run
        BY <1>4, <3>2 DEF EvaluateOne, Updated
      <4> QED BY <1>0, <2>1, <3>2, <4>1
    <3> QED BY <3>1, <3>2
  <2>5. tried % FlushEvery \in Int /\ ((tried + 1) % FlushEvery = 0 \/ (tried + 1) % FlushEvery = (tried % FlushEvery) + 1)
    <3>1. tried \in Nat /\ FlushEvery \in Nat \ {0}
      BY <1>0
    <3>2. tried % FlushEvery \in 0 .. FlushEvery - 1 /\ ((tried + 1) % FlushEvery = 0 \/ (tried + 1) % FlushEvery = (tried % FlushEvery) + 1)
      BY ONLY <3>1, NextRemainder
    <3> QED BY <3>1, <3>2
  <2>6. (job' = "searching" /\ run'.status = "running" /\ dbErrors' = 0)
          => tried' - run'.completed = (tried' % FlushEvery')
    <3> SUFFICES ASSUME job' = "searching", run'.status = "running", dbErrors' = 0
                 PROVE  tried' - run'.completed = (tried' % FlushEvery)
      BY DEF FlushEvery
    <3>1. tried' # Budget /\ run.status = "running" /\ tried - run.completed = (tried % FlushEvery)
      BY <2>1, <2>4
    <3> QED BY <1>0, <2>1, <2>4, <2>5, <3>1
  <2>7. run.status # "done"
    BY <2>1
  <2> QED BY <1>0, <2>1, <2>2, <2>3, <2>4, <2>6, <2>7
<1>5. CASE FinishSearch
  <2>1. job = "finishing" /\ job' = "none" /\ UNCHANGED <<kind, results, tried, dbErrors>> /\ tried = Budget
    BY <1>5 DEF FinishSearch
  <2>2. CASE run.status = "absent"
    BY <1>0, <1>5, <2>1, <2>2 DEF FinishSearch, Updated
  <2>3. CASE run.status # "absent"
    <3> DEFINE board == BestFirst(results)
               list == [i \in DOMAIN board |-> board[i].params]
               first == IF board = <<>> THEN None ELSE board[1].params
    <3>1. run' = [status |-> "done", completed |-> Budget, leaderboard |-> list, best |-> first]
      BY <1>5, <2>3 DEF FinishSearch, Updated
    <3>2. board \in Seq(Result) /\ Len(board) \in 0 .. TopN
      BY BoardFacts
    <3>3. DOMAIN board = 1 .. Len(board) /\ \A i \in DOMAIN board : board[i].params \in 1 .. Budget
      <4> HIDE DEF board
      <4>1. DOMAIN board = 1 .. Len(board) /\ \A i \in DOMAIN board : board[i] \in Result
        BY <3>2
      <4> QED BY <4>1 DEF Result
    <3>4. list \in [1 .. Len(board) -> 1 .. Budget]
      BY <3>3
    <3>5. list \in UNION {[1 .. n -> 1 .. Budget] : n \in 0 .. TopN}
      BY <3>2, <3>4
    <3>6. first \in 0 .. Budget
      <4>1. CASE board = <<>>
        BY <1>0, <4>1 DEF None
      <4>2. CASE board # <<>>
        <5>1. 1 \in DOMAIN board
          BY <3>2, <4>2
        <5> QED BY <3>3, <4>2, <5>1
      <4> QED BY <4>1, <4>2
    <3>7. run'.leaderboard = list /\ run'.best = first /\ run'.completed = Budget
      BY <3>1
    <3>8. Published'
      BY <2>1, <3>7 DEF Published
    <3> HIDE DEF list, first, board
    <3>9. run' \in RunRow
      <4>1. [status |-> "done", completed |-> Budget, leaderboard |-> list, best |-> first] \in RunRow
        <5> DEFINE Lists == UNION {[1 .. n -> 1 .. Budget] : n \in 0 .. TopN}
        <5>1. list \in Lists /\ Budget \in 0 .. Budget
          BY <1>0, <3>5
        <5>2. RunRow = [status : {"absent", "pending", "running", "done", "failed"}, completed : 0 .. Budget,
                        leaderboard : Lists, best : 0 .. Budget]
          BY DEF RunRow
        <5> HIDE DEF Lists
        <5> QED BY <3>6, <5>1, <5>2
      <4> QED BY <3>1, <4>1
    <3> QED BY <1>0, <2>1, <3>7, <3>8, <3>9
  <2> QED BY <2>2, <2>3
<1>6. CASE DatabaseFails
  BY <1>0, <1>6 DEF DatabaseFails, Published
<1>7. CASE MarkFailed
  BY <1>0, <1>7, RowForms DEF MarkFailed, Updated, RunRow, Published
<1>8. CASE DeleteRun
  BY <1>0, <1>8, RowForms DEF DeleteRun, RunRow, Published
<1>9. CASE RestartServer
  BY <1>0, <1>9 DEF RestartServer, Published
<1>10. CASE UNCHANGED searchVars
  BY <1>10 DEF searchVars, Published
<1> QED
  BY <1>1, <1>2, <1>3, <1>4, <1>5, <1>6, <1>7, <1>8, <1>9, <1>10 DEF SearchNext

\* What is published is the best of what was evaluated.
LEMMA SearchInvLeaders == SearchInv => LeaderboardBest
<1> SUFFICES ASSUME SearchInv PROVE LeaderboardBest
  OBVIOUS
<1> USE DEF SearchInv, SearchTypeOK
<1>0. Budget \in Nat \ {0} /\ TopN \in Nat \ {0} /\ FlushEvery \in Nat \ {0} /\ tried \in Nat
  BY FlushType, SearchAssumption
<1> HIDE DEF FlushEvery
<1>1. ASSUME job = "searching", run.status = "running", dbErrors = 0 PROVE tried - run.completed < FlushEvery
  <2>1. tried % FlushEvery \in 0 .. FlushEvery - 1
    BY ONLY <1>0, NextRemainder
  <2> QED BY <1>0, <1>1, <2>1
<1> DEFINE scored(p) == CHOOSE r \in {results[i] : i \in DOMAIN results} : r.params = p
           listed == {run.leaderboard[i] : i \in DOMAIN run.leaderboard}
           all == {results[i].params : i \in DOMAIN results}
           rest == all \ listed
<1>2. ASSUME run.status = "done"
      PROVE  /\ tried = Budget /\ listed \subseteq all
             /\ rest # {} => Cardinality(listed) = TopN
             /\ \A p \in listed, q \in rest : scored(p).score >= scored(q).score
             /\ (run.best = None) <=> (all = {})
             /\ run.best # None => \A q \in all : scored(run.best).score >= scored(q).score
  <2> DEFINE n == Len(results)
             m == IF n < TopN THEN n ELSE TopN
             board == BestFirst(results)
  <2>1. n \in Nat /\ DOMAIN results = 1 .. n /\ m \in Nat /\ m <= n /\ m <= TopN
    BY <1>0
  <2>2. PICK from \in [1 .. n -> 1 .. n] :
              /\ \A k \in 1 .. m : board[k] = results[from[k]]
              /\ \A i \in 1 .. n : \E k \in 1 .. n : from[k] = i
              /\ \A k, l \in 1 .. n : k < l => /\ from[k] # from[l]
                                               /\ results[from[k]].score >= results[from[l]].score
    BY BoardFacts
  <2>3. board \in Seq(Result) /\ Len(board) = m
    BY BoardFacts
  <2>4. /\ run.leaderboard = [i \in DOMAIN board |-> board[i].params]
        /\ run.best = IF board = <<>> THEN None ELSE board[1].params
    BY <1>2 DEF Published
  <2> HIDE DEF board, m
  <2>5. DOMAIN board = 1 .. m /\ (board = <<>> <=> m = 0)
    <3>1. DOMAIN board = 1 .. Len(board) /\ (board = <<>> <=> Len(board) = 0)
      BY <2>3, EmptySeq
    <3>2. Len(board) = m
      BY <2>3
    <3> QED BY <3>1, <3>2, Zenon
  <2>6. listed = {results[from[k]].params : k \in 1 .. m}
    BY <2>2, <2>4, <2>5
  <2> HIDE DEF n
  <2>7. \A k \in 1 .. m : k \in 1 .. n
    BY <2>1
  <2>8. \A k \in 1 .. n : from[k] \in 1 .. n
    BY <2>2
  <2>9. \A i \in 1 .. n : results[i].params \in 1 .. Budget /\ results[i].score \in Int
    <3>1. \A i \in 1 .. n : results[i] \in Result
      BY <2>1
    <3> QED BY <3>1, SearchAssumption DEF Result
  <2>10. \A i, j \in 1 .. n : results[i].params = results[j].params => i = j
    <3> TAKE i, j \in 1 .. n
    <3>1. results[i].params \in Int /\ results[j].params \in Int /\ i \in Int /\ j \in Int
      BY <1>0, <2>9
    <3>2. (i < j => results[i].params < results[j].params) /\ (j < i => results[j].params < results[i].params)
      BY <2>1
    <3> QED BY <3>1, <3>2
  <2>11. \A i \in 1 .. n : scored(results[i].params) = results[i]
    <3> TAKE i \in 1 .. n
    <3> DEFINE r == scored(results[i].params)
    <3>1. r \in {results[j] : j \in DOMAIN results} /\ r.params = results[i].params
      <4>1. \E r1 \in {results[j] : j \in DOMAIN results} : r1.params = results[i].params
        BY <2>1
      <4> QED BY <4>1
    <3>2. PICK j \in 1 .. n : r = results[j]
      BY <2>1, <3>1
    <3> HIDE DEF r
    <3>3. i = j
      BY <2>10, <3>1, <3>2
    <3> QED BY <3>2, <3>3 DEF r
  <2> HIDE DEF scored
  <2>12. \A k, l \in 1 .. n : k <= l => results[from[k]].score >= results[from[l]].score
    <3> TAKE k, l \in 1 .. n
    <3>1. results[from[k]].score \in Int /\ k \in Int /\ l \in Int
      BY <2>1, <2>8, <2>9
    <3> QED BY <2>2, <3>1
  <2>13. \A q \in all : \E l \in 1 .. n : q = results[from[l]].params
    <3> TAKE q \in all
    <3>1. PICK i \in 1 .. n : q = results[i].params
      BY <2>1
    <3>2. PICK l \in 1 .. n : from[l] = i
      BY <2>2
    <3> QED BY <3>1, <3>2
  <2>14. \A k, l \in 1 .. n : from[k] = from[l] => k = l
    <3>1. \A k \in 1 .. n : k \in Int
      OBVIOUS
    <3>2. \A k, l \in 1 .. n : k < l => from[k] # from[l]
      BY <2>2
    <3> QED BY <3>1, <3>2
  <2>15. \A q \in rest : \E l \in 1 .. n : q = results[from[l]].params /\ l > m
    <3> TAKE q \in rest
    <3>1. PICK l \in 1 .. n : q = results[from[l]].params
      BY <2>13
    <3>2. l \notin 1 .. m
      BY <2>6, <3>1
    <3> QED BY <2>1, <3>1, <3>2
  <2>16. tried = Budget
    BY <1>2
  <2>17. listed \subseteq all
    BY <2>1, <2>6, <2>7, <2>8
  <2>18. ASSUME rest # {} PROVE Cardinality(listed) = TopN
    <3>1. PICK l \in 1 .. n : l > m
      BY <2>15, <2>18
    <3>2. m = TopN
      BY <1>0, <2>1, <3>1 DEF m
    <3> DEFINE f == [k \in 1 .. m |-> results[from[k]].params]
    <3>3. f \in [1 .. m -> listed]
      BY <2>6
    <3>4. \A k, kk \in 1 .. m : f[k] = f[kk] => k = kk
      <4> TAKE k, kk \in 1 .. m
      <4>1. k \in 1 .. n /\ kk \in 1 .. n /\ f[k] = results[from[k]].params /\ f[kk] = results[from[kk]].params
        BY <2>7
      <4>2. from[k] \in 1 .. n /\ from[kk] \in 1 .. n
        BY <2>8, <4>1
      <4> HIDE DEF f
      <4> QED BY ONLY <2>10, <2>14, <4>1, <4>2
    <3>5. \A p \in listed : \E k \in 1 .. m : f[k] = p
      BY <2>6
    <3> HIDE DEF f, listed
    <3>6. f \in Bijection(1 .. m, listed)
      BY <3>3, <3>4, <3>5 DEF Bijection, Injection, Surjection, IsInjective
    <3>7. IsFiniteSet(1 .. m) /\ Cardinality(1 .. m) = m
      BY <2>1, FS_Interval
    <3>8. ExistsBijection(1 .. m, listed)
      BY <3>6 DEF ExistsBijection
    <3> QED BY <3>2, <3>7, <3>8, FS_Bijection
  <2>19. ASSUME NEW p \in listed, NEW q \in rest PROVE scored(p).score >= scored(q).score
    <3>1. PICK k \in 1 .. m : p = results[from[k]].params
      BY <2>6
    <3>2. PICK l \in 1 .. n : q = results[from[l]].params /\ l > m
      BY <2>15
    <3>3. k \in 1 .. n /\ k <= l
      BY <2>1, <3>1, <3>2
    <3>4. scored(p) = results[from[k]] /\ scored(q) = results[from[l]]
      BY <2>8, <2>11, <3>1, <3>2, <3>3
    <3> QED BY <2>12, <3>3, <3>4
  <2>20. all = {} <=> n = 0
    <3>1. n # 0 => 1 \in 1 .. n
      BY <2>1
    <3>2. n = 0 => 1 .. n = {}
      BY <2>1
    <3>3. n = 0 => all = {}
      BY <2>1, <3>2
    <3>4. n # 0 => results[1].params \in all
      BY <2>1, <3>1
    <3> QED BY <3>3, <3>4
  <2>21. CASE m = 0
    <3>1. n = 0
      BY <1>0, <2>1, <2>21 DEF m
    <3>2. run.best = None
      BY <2>4, <2>5, <2>21
    <3> QED BY <2>16, <2>17, <2>18, <2>19, <2>20, <3>1, <3>2
  <2>22. CASE m # 0
    <3>1. n # 0 /\ 1 \in 1 .. m /\ 1 \in 1 .. n
      BY <2>1, <2>22
    <3>2. run.best = results[from[1]].params
      BY <2>2, <2>4, <2>5, <2>22, <3>1
    <3>3. run.best # None
      BY <2>8, <2>9, <3>1, <3>2 DEF None
    <3>4. ASSUME NEW q \in all PROVE scored(run.best).score >= scored(q).score
      <4>1. PICK l \in 1 .. n : q = results[from[l]].params
        BY <2>13
      <4>2. scored(run.best) = results[from[1]] /\ scored(q) = results[from[l]]
        BY <2>8, <2>11, <3>1, <3>2, <4>1
      <4>3. 1 <= l
        BY <2>1
      <4> QED BY <2>12, <3>1, <4>2, <4>3
    <3> QED BY <2>16, <2>17, <2>18, <2>19, <2>20, <3>1, <3>3, <3>4
  <2> QED BY <2>21, <2>22
<1> HIDE DEF scored, rest, all, listed
<1> QED BY <1>1, <1>2 DEF LeaderboardBest, scored, rest, all, listed

\* The invariant of a search, grid or bayesian, deleted or failed on the way.
THEOREM SearchInductive == SearchSpec => []SearchInv
BY SearchInit_Inv, SearchStep, PTL DEF SearchSpec

(* A run that says done tried everything and lists the best of it, the best *)
(* parameters being of a highest score; and its progress is never ahead, nor *)
(* more than a flush behind while no write failed, whatever was deleted or *)
(* restarted (hyperopt.js and bayesianHyperopt.js).                        *)
THEOREM LeadersAreBest == SearchSpec => []LeaderboardBest
BY SearchInductive, SearchInvLeaders, PTL

(***************************************************************************)
(* The learner                                                             *)
(* What it gained is what its positions brought; its values are discounted. *)
(***************************************************************************)

\* How much what is held gained since it was bought.
Holding == IF entry = Flat THEN 0 ELSE Price(IF bar > BarCount THEN BarCount ELSE bar) - entry

LearnInv ==
  /\ series \in [1 .. BarCount -> [state : MarketStates, price : LogPrices]]
  /\ qTable \in [MarketStates -> [Actions -> -(2 * Steepest) .. 2 * Steepest]]
  /\ episode \in 1 .. Episodes + 2 /\ bar \in 1 .. BarCount + 1
  /\ Learning => bar <= BarCount
  /\ entry = Flat \/ entry \in {p + CostIn : p \in LogPrices}
  /\ gained \in Int /\ marked \in Int
  /\ trades \in Nat /\ trades < bar
  /\ gained + Holding = marked
  /\ log.return = log.marked

\* What a pair is made of.
LEMMA Pairs ==
  ASSUME NEW S, NEW T, NEW x \in S \X T
  PROVE  \E p \in S, q \in T : x = <<p, q>>
OBVIOUS

\* No two prices differ by more than a reward may bring.
LEMMA SteepestFacts ==
  /\ Steepest \in Nat /\ CostIn \in Nat /\ CostOut \in Nat
  /\ \A p, q \in LogPrices : p - q + CostIn + CostOut <= Steepest
<1>0. \A x \in LogPrices \X LogPrices : \E p \in LogPrices, q \in LogPrices : x = <<p, q>>
  BY Pairs
<1> USE QLearnerAssumption
<1> DEFINE D == {p - q : p, q \in LogPrices}
           diff == [x \in LogPrices \X LogPrices |-> x[1] - x[2]]
<1>1. D = {diff[x] : x \in LogPrices \X LogPrices}
  <2>1. ASSUME NEW x \in LogPrices \X LogPrices PROVE diff[x] \in D
    <3>1. PICK p \in LogPrices, q \in LogPrices : x = <<p, q>>
      <4> HIDE DEF D, diff
      <4> QED BY ONLY <1>0, x \in LogPrices \X LogPrices
    <3>2. diff[<<p, q>>] = p - q
      BY <3>1
    <3>3. p - q \in D
      OBVIOUS
    <3> HIDE DEF diff, D
    <3> QED BY <3>1, <3>2, <3>3
  <2>2. ASSUME NEW d \in D PROVE \E x \in LogPrices \X LogPrices : diff[x] = d
    <3>1. PICK p, q \in LogPrices : d = p - q
      OBVIOUS
    <3>2. <<p, q>> \in LogPrices \X LogPrices /\ diff[<<p, q>>] = p - q
      OBVIOUS
    <3> HIDE DEF diff
    <3> QED BY <3>1, <3>2
  <2> HIDE DEF D, diff
  <2> QED BY <2>1, <2>2
<1>2. IsFiniteSet(D)
  <2>1. IsFiniteSet(LogPrices \X LogPrices)
    BY FS_Product
  <2> HIDE DEF D, diff
  <2> QED BY <1>1, <2>1, FiniteValues
<1>3. D \subseteq Int /\ D # {} /\ 0 \in D
  <2>1. PICK p \in LogPrices : p \in Int
    OBVIOUS
  <2>2. p - p = 0 /\ p - p \in D
    BY <2>1
  <2>3. D \subseteq Int
    OBVIOUS
  <2> QED BY <2>2, <2>3
<1>4. \A p, q \in LogPrices : p - q \in D
  OBVIOUS
<1>5. Steepest = Max(D) + CostIn + CostOut
  BY DEF Steepest
<1> HIDE DEF D
<1>6. Max(D) \in D /\ \A d \in D : d <= Max(D)
  BY <1>2, <1>3, MaxFacts
<1>7. Max(D) \in Nat
  <2>1. Max(D) \in Int /\ 0 <= Max(D)
    BY <1>3, <1>6
  <2> QED BY <2>1
<1>8. \A p, q \in LogPrices : p - q <= Max(D) /\ p - q \in Int
  BY <1>3, <1>4, <1>6
<1>9. \A p, q \in LogPrices : p - q + CostIn + CostOut <= Steepest
  <2> TAKE p, q \in LogPrices
  <2> DEFINE d == p - q
  <2>1. d <= Max(D) /\ d \in Int
    BY <1>8
  <2> HIDE DEF d
  <2>2. d + CostIn + CostOut <= Steepest
    BY <1>5, <1>7, <2>1
  <2> QED BY <2>2 DEF d
<1> QED BY <1>5, <1>7, <1>9

\* A row of the table: its best value, and the first action that has it.
LEMMA BestFacts ==
  ASSUME NEW s, NEW lo \in Int, NEW hi \in Int, qTable[s] \in [Actions -> lo .. hi]
  PROVE  Best(s) \in lo .. hi /\ Greedy(s) \in Actions
<1> DEFINE V == {qTable[s][a] : a \in Actions}
           W == {a \in Actions : qTable[s][a] = Best(s)}
           row == qTable[s]
<1>1. IsFiniteSet(Actions) /\ Actions # {} /\ Actions \subseteq Int
  <2>1. 0 \in Int /\ 2 \in Int
    OBVIOUS
  <2>2. IsFiniteSet(0 .. 2)
    BY ONLY <2>1, FS_Interval
  <2> QED BY <2>2 DEF Actions
<1>2. IsFiniteSet(V)
  <2>1. IsFiniteSet({row[a] : a \in Actions})
    <3> HIDE DEF row
    <3> QED BY <1>1, FiniteValues
  <2> QED BY <2>1
<1>3. V # {} /\ V \subseteq lo .. hi /\ V \subseteq Int
  <2>1. V # {}
    BY <1>1
  <2>2. V \subseteq lo .. hi
    OBVIOUS
  <2>3. lo .. hi \subseteq Int
    OBVIOUS
  <2> QED BY ONLY <2>1, <2>2, <2>3
<1>4. Best(s) = Max(V)
  BY DEF Best
<1>5. Best(s) \in V
  <2> HIDE DEF V
  <2> QED BY <1>2, <1>3, <1>4, MaxFacts
<1>6. W # {} /\ W \subseteq Actions
  BY <1>5
<1>7. IsFiniteSet(W)
  BY <1>1, <1>6, FS_Subset
<1>8. Greedy(s) = Min(W)
  BY DEF Greedy
<1>9. Greedy(s) \in W
  <2>1. W \subseteq Int
    BY <1>1, <1>6
  <2> HIDE DEF W
  <2> QED BY <1>6, <1>7, <1>8, <2>1, MaxFacts
<1> QED BY <1>3, <1>5, <1>6, <1>9

\* The prices a step reads are of the series, and what is held was bought at one of them.
LEMMA LearnPrices ==
  ASSUME LearnInv
  PROVE  /\ \A i \in 1 .. BarCount : Price(i) \in LogPrices /\ Price(i) \in Int /\ series[i].state \in MarketStates
         /\ entry # Flat => entry \in Int /\ \E p \in LogPrices : p \in Int /\ entry = p + CostIn
         /\ \A i \in 1 .. BarCount + 1 : i <= BarCount \/ i = BarCount + 1
         /\ BarCount \in 1 .. BarCount /\ BarCount \in Nat /\ Episodes \in Nat \ {0} /\ CostIn \in Nat /\ CostOut \in Nat
<1> USE QLearnerAssumption
<1>1. ASSUME NEW i \in 1 .. BarCount PROVE Price(i) \in LogPrices /\ series[i].state \in MarketStates
  <2>1. series[i] \in [state : MarketStates, price : LogPrices]
    BY DEF LearnInv
  <2> QED BY <2>1 DEF Price
<1>2. entry # Flat => entry \in Int /\ \E p \in LogPrices : p \in Int /\ entry = p + CostIn
  BY DEF LearnInv
<1>3. BarCount \in Nat \ {0} /\ BarCount \in 1 .. BarCount /\ \A i \in 1 .. BarCount + 1 : i <= BarCount \/ i = BarCount + 1
  OBVIOUS
<1>4. \A i \in 1 .. BarCount : Price(i) \in Int
  BY <1>1
<1> QED BY <1>1, <1>2, <1>3, <1>4

\* A step of the walk: what it amounts to keeps the account of what is held.
LEMMA TradeFacts ==
  ASSUME LearnInv, bar \in 1 .. BarCount, NEW a \in Actions, Trade(Effect(a)), bar' = bar + 1, series' = series
  PROVE  /\ Effect(a) \in Actions
         /\ entry' = Flat \/ entry' \in {p + CostIn : p \in LogPrices}
         /\ gained' \in Int /\ marked' \in Int /\ trades' \in Nat /\ trades' < bar'
         /\ gained' + Holding' = marked'
<1> DEFINE e == Effect(a)
           next == IF bar + 1 > BarCount THEN BarCount ELSE bar + 1
<1>1. /\ \A i \in 1 .. BarCount : Price(i) \in LogPrices /\ Price(i) \in Int
      /\ entry # Flat => entry \in Int
      /\ BarCount \in Nat /\ CostIn \in Nat /\ CostOut \in Nat
  BY LearnPrices
<1>2. gained \in Int /\ marked \in Int /\ trades \in Nat /\ trades < bar /\ gained + Holding = marked
  BY DEF LearnInv
<1>3. e \in {0, 1, 2} /\ (e = 1 => entry = Flat) /\ (e = 2 => entry # Flat) /\ e \in Actions
  BY DEF Effect, Actions
<1>4. Price(bar) \in Int /\ Price(bar) \in LogPrices /\ next \in 1 .. BarCount /\ Price(next) \in Int /\ Move(bar) = Price(next) - Price(bar)
  <2>1. next \in 1 .. BarCount /\ (bar < BarCount => next = bar + 1) /\ (~ (bar < BarCount) => next = bar)
    BY <1>1
  <2>2. Price(bar) \in Int /\ Price(next) \in Int
    BY <1>1, <2>1
  <2>3. Move(bar) = Price(next) - Price(bar)
    BY <2>1, <2>2 DEF Move
  <2> QED BY <1>1, <2>1, <2>3
<1>5. entry # Flat => gained + (Price(bar) - entry) = marked
  BY <1>1, <1>2 DEF Holding
<1>6. entry = Flat => gained = marked
  BY <1>1, <1>2 DEF Holding
<1>7. Holding' = IF entry' = Flat THEN 0 ELSE Price(next) - entry'
  BY DEF Holding, Price
<1>8. Flat \notin Int /\ bar \in Int
  BY QLearnerAssumption
<1> HIDE DEF e, next
<1>9. CASE e = 1
  <2>1. entry' = Price(bar) + CostIn /\ marked' = marked - CostIn + Move(bar) /\ gained' = gained /\ trades' = trades
    BY <1>9 DEF Trade, e
  <2>2. entry' \in {p + CostIn : p \in LogPrices} /\ entry' \in Int /\ entry' # Flat
    BY <1>1, <1>4, <1>8, <2>1
  <2>3. Holding' = Price(next) - entry' /\ gained = marked
    BY <1>3, <1>6, <1>7, <1>9, <2>2
  <2>4. gained' + Holding' = marked' /\ marked' \in Int
    BY <1>1, <1>2, <1>4, <2>1, <2>3
  <2> QED BY <1>2, <1>3, <1>8, <2>1, <2>2, <2>4 DEF e
<1>10. CASE e = 2
  <2>1. entry' = Flat /\ marked' = marked - CostOut /\ gained' = gained + ExitReturn /\ trades' = trades + 1
    BY <1>10 DEF Trade, e
  <2>2. Holding' = 0 /\ gained + (Price(bar) - entry) = marked /\ entry \in Int /\ ExitReturn = Price(bar) - CostOut - entry
    BY <1>1, <1>3, <1>5, <1>7, <1>10, <2>1 DEF ExitReturn
  <2>3. gained' + Holding' = marked' /\ marked' \in Int /\ gained' \in Int
    BY <1>1, <1>2, <1>4, <2>1, <2>2
  <2> QED BY <1>2, <1>3, <1>8, <2>1, <2>3 DEF e
<1>11. CASE e = 0
  <2>1. entry' = entry /\ marked' = (IF entry = Flat THEN marked ELSE marked + Move(bar)) /\ gained' = gained /\ trades' = trades
    BY <1>11 DEF Trade, e
  <2>2. CASE entry = Flat
    BY <1>2, <1>3, <1>6, <1>7, <1>8, <2>1, <2>2 DEF e
  <2>3. CASE entry # Flat
    <3>1. entry \in {p + CostIn : p \in LogPrices}
      BY <2>3 DEF LearnInv
    <3>2. gained' + Holding' = marked' /\ marked' \in Int
      BY <1>1, <1>2, <1>4, <1>5, <1>7, <2>1, <2>3
    <3> QED BY <1>2, <1>3, <1>8, <2>1, <3>1, <3>2 DEF e
  <2> QED BY <2>2, <2>3
<1> QED BY <1>3, <1>9, <1>10, <1>11

\* What a bar rewards.
LEMMA RewardFacts ==
  ASSUME LearnInv, bar \in 1 .. BarCount, NEW effect \in Actions, effect = 2 => entry # Flat
  PROVE  Reward(effect) \in -Steepest .. Steepest
<1>1. /\ \A i \in 1 .. BarCount : Price(i) \in LogPrices /\ Price(i) \in Int
      /\ entry # Flat => entry \in Int /\ \E p \in LogPrices : p \in Int /\ entry = p + CostIn
      /\ BarCount \in Nat /\ CostIn \in Nat /\ CostOut \in Nat
  BY LearnPrices
<1>2. Steepest \in Nat /\ \A p, q \in LogPrices : p - q + CostIn + CostOut <= Steepest
  BY SteepestFacts
<1>3. Price(bar) \in LogPrices /\ Price(bar) \in Int
  BY <1>1
<1>4. ASSUME entry # Flat PROVE ExitReturn \in -Steepest .. Steepest
  <2>1. PICK p \in LogPrices : p \in Int /\ entry = p + CostIn
    BY <1>1, <1>4
  <2>2. Price(bar) - p + CostIn + CostOut <= Steepest /\ p - Price(bar) + CostIn + CostOut <= Steepest
    BY <1>2, <1>3
  <2>3. ExitReturn = Price(bar) - CostOut - (p + CostIn)
    BY <2>1 DEF ExitReturn
  <2> DEFINE c == Price(bar)
  <2> HIDE DEF c
  <2>4. c \in Int /\ c - p + CostIn + CostOut <= Steepest /\ p - c + CostIn + CostOut <= Steepest /\ ExitReturn = c - CostOut - (p + CostIn)
    BY <1>3, <2>2, <2>3 DEF c
  <2> QED BY <1>1, <1>2, <2>1, <2>4
<1>5. Move(bar) \in -Steepest .. Steepest
  <2>1. CASE bar < BarCount
    <3> DEFINE p == Price(bar + 1)
               q == Price(bar)
    <3>1. bar + 1 \in 1 .. BarCount
      BY <1>1, <2>1
    <3>2. p \in LogPrices /\ p \in Int /\ q \in LogPrices /\ q \in Int
      BY <1>1, <1>3, <3>1
    <3>3. Move(bar) = p - q
      BY <2>1 DEF Move
    <3> HIDE DEF p, q
    <3>4. p - q + CostIn + CostOut <= Steepest /\ q - p + CostIn + CostOut <= Steepest
      BY <1>2, <3>2
    <3> QED BY <1>1, <1>2, <3>2, <3>3, <3>4
  <2>2. CASE ~ (bar < BarCount)
    <3>1. Move(bar) = 0
      BY <2>2 DEF Move
    <3> QED BY <1>2, <3>1
  <2> QED BY <2>1, <2>2
<1>6. Move(bar) \div 10 \in -Steepest .. Steepest
  <2> DEFINE m == Move(bar)
  <2> HIDE DEF m
  <2>1. m \in -Steepest .. Steepest
    BY <1>5 DEF m
  <2>2. m \div 10 \in -Steepest .. Steepest
    BY <1>2, <2>1
  <2> QED BY <2>2 DEF m
<1>7. 0 \in -Steepest .. Steepest
  BY <1>2
<1>8. Reward(effect) \in {ExitReturn, Move(bar) \div 10, 0} /\ (Reward(effect) = ExitReturn \/ effect # 2)
      /\ (effect = 2 => Reward(effect) = ExitReturn) /\ (effect # 2 => Reward(effect) \in {Move(bar) \div 10, 0})
  BY DEF Reward
<1> QED BY <1>4, <1>6, <1>7, <1>8

\* The new value lies between the old one and its target.
LEMMA LearntFacts ==
  ASSUME NEW top \in Nat, NEW value \in -(2 * top) .. 2 * top, NEW reward \in -top .. top, NEW best \in -(2 * top) .. 2 * top
  PROVE  Learnt(value, reward + best \div 2) \in -(2 * top) .. 2 * top
<1> DEFINE target == reward + best \div 2
<1>1. target \in -(2 * top) .. 2 * top
  OBVIOUS
<1> HIDE DEF target
<1>2. value + (target - value) \div 2 \in -(2 * top) .. 2 * top
  BY <1>1
<1> QED BY <1>2 DEF Learnt, target

\* The learner starts with an empty table and no position.
LEMMA LearnInit_Inv == LearnInit => LearnInv
<1> SUFFICES ASSUME LearnInit PROVE LearnInv
  OBVIOUS
<1>1. Steepest \in Nat /\ 0 \in -(2 * Steepest) .. 2 * Steepest
  BY SteepestFacts
<1>2. qTable \in [MarketStates -> [Actions -> -(2 * Steepest) .. 2 * Steepest]]
  <2>1. qTable = [s \in MarketStates |-> [a \in Actions |-> 0]]
    BY DEF LearnInit
  <2> QED BY <1>1, <2>1
<1>3. episode = 1 /\ bar = 1 /\ entry = Flat /\ gained = 0 /\ trades = 0 /\ marked = 0 /\ log.return = log.marked
  BY DEF LearnInit, WalkStarts, NoLog
<1>4. Holding = 0
  BY <1>3 DEF Holding
<1> QED BY <1>2, <1>3, <1>4, QLearnerAssumption DEF LearnInv, LearnInit, Learning

\* Every bar of an episode, and of the evaluation, keeps the invariant.
LEMMA LearnStep == LearnInv /\ [LearnNext]_learnVars => LearnInv'
<1> SUFFICES ASSUME LearnInv, [LearnNext]_learnVars PROVE LearnInv'
  OBVIOUS
<1>0. /\ \A i \in 1 .. BarCount : Price(i) \in Int /\ series[i].state \in MarketStates
      /\ BarCount \in Nat \ {0} /\ BarCount \in 1 .. BarCount /\ Episodes \in Nat \ {0}
  BY LearnPrices, QLearnerAssumption
<1>1. Steepest \in Nat
  BY SteepestFacts
<1>2. CASE UNCHANGED learnVars
  BY <1>2 DEF learnVars, LearnInv, Holding, Learning, Price
<1>3. ASSUME NEW a \in Actions, Train(a) PROVE LearnInv'
  <2>1. /\ Learning /\ bar < BarCount /\ bar' = bar + 1 /\ series' = series /\ episode' = episode /\ log' = log
        /\ Trade(Effect(a))
    BY <1>3 DEF Train
  <2>2. bar \in 1 .. BarCount /\ bar' \in 1 .. BarCount /\ bar' \in 1 .. BarCount + 1
    BY <1>0, <2>1 DEF LearnInv
  <2>3. /\ Effect(a) \in Actions
        /\ entry' = Flat \/ entry' \in {p + CostIn : p \in LogPrices}
        /\ gained' \in Int /\ marked' \in Int /\ trades' \in Nat /\ trades' < bar'
        /\ gained' + Holding' = marked'
    BY <2>1, <2>2, TradeFacts
  <2> DEFINE s == series[bar].state
             t == series[bar + 1].state
             effect == Effect(a)
             B == -(2 * Steepest) .. 2 * Steepest
  <2>4. s \in MarketStates /\ t \in MarketStates
    BY <1>0, <2>1, <2>2
  <2>5. qTable' = [qTable EXCEPT ![s][effect] = Learnt(@, Reward(effect) + Best(t) \div 2)]
    BY <1>3 DEF Train
  <2>6. effect = 2 => entry # Flat
    BY DEF Effect
  <2>7. Reward(effect) \in -Steepest .. Steepest
    <3> HIDE DEF effect
    <3> QED BY <2>2, <2>3, <2>6, RewardFacts DEF effect
  <2> HIDE DEF s, t, effect
  <2>8. qTable \in [MarketStates -> [Actions -> B]]
    BY DEF LearnInv
  <2>9. Best(t) \in B
    <3>1. -(2 * Steepest) \in Int /\ 2 * Steepest \in Int /\ qTable[t] \in [Actions -> -(2 * Steepest) .. 2 * Steepest]
      BY <1>1, <2>4, <2>8
    <3> QED BY <3>1, BestFacts
  <2>10. effect \in Actions
    BY <2>3 DEF effect
  <2>11. qTable[s][effect] \in B
    BY <2>4, <2>8, <2>10
  <2>12. Learnt(qTable[s][effect], Reward(effect) + Best(t) \div 2) \in B
    BY <1>1, <2>7, <2>9, <2>11, LearntFacts
  <2> HIDE DEF B
  <2>13. qTable' \in [MarketStates -> [Actions -> B]]
    BY <2>4, <2>5, <2>8, <2>10, <2>12
  <2>14. /\ series' \in [1 .. BarCount -> [state : MarketStates, price : LogPrices]]
         /\ qTable' \in [MarketStates -> [Actions -> -(2 * Steepest) .. 2 * Steepest]]
         /\ episode' \in 1 .. Episodes + 2 /\ bar' <= BarCount
         /\ log'.return = log'.marked
    BY <2>1, <2>2, <2>13 DEF LearnInv, B
  <2> QED BY <2>2, <2>3, <2>14 DEF LearnInv
<1>4. CASE Evaluate
  <2>1. /\ episode = Episodes + 1 /\ bar <= BarCount /\ bar' = bar + 1 /\ series' = series /\ qTable' = qTable
        /\ episode' = episode /\ log' = log /\ Trade(Effect(Greedy(series[bar].state)))
    BY <1>4 DEF Evaluate
  <2>2. bar \in 1 .. BarCount /\ bar' \in 1 .. BarCount + 1
    BY <1>0, <2>1 DEF LearnInv
  <2>3. Greedy(series[bar].state) \in Actions
    <3> DEFINE s == series[bar].state
    <3>1. s \in MarketStates
      BY <1>0, <2>2
    <3> HIDE DEF s
    <3>2. -(2 * Steepest) \in Int /\ 2 * Steepest \in Int /\ qTable[s] \in [Actions -> -(2 * Steepest) .. 2 * Steepest]
      BY <1>1, <3>1 DEF LearnInv
    <3>3. Greedy(s) \in Actions
      BY <3>2, BestFacts
    <3> QED BY <3>3 DEF s
  <2>4. /\ entry' = Flat \/ entry' \in {p + CostIn : p \in LogPrices}
        /\ gained' \in Int /\ marked' \in Int /\ trades' \in Nat /\ trades' < bar'
        /\ gained' + Holding' = marked'
    BY <2>1, <2>2, <2>3, TradeFacts
  <2>5. ~ Learning'
    BY <1>0, <2>1 DEF Learning
  <2> QED BY <2>1, <2>2, <2>4, <2>5 DEF LearnInv
<1>5. CASE WalkEnds
  <2>1. /\ episode <= Episodes + 1 /\ bar = (IF Learning THEN BarCount ELSE BarCount + 1)
        /\ episode' = episode + 1 /\ bar' = 1 /\ entry' = Flat /\ gained' = 0 /\ trades' = 0 /\ marked' = 0
        /\ series' = series /\ qTable' = qTable
        /\ log' = IF entry = Flat
                  THEN [return |-> gained, trades |-> trades, marked |-> marked]
                  ELSE [return |-> gained + (Price(BarCount) - CostOut - entry),
                        trades |-> trades + 1, marked |-> marked - CostOut]
    BY <1>5 DEF WalkEnds, WalkDone
  <2>2. (IF bar > BarCount THEN BarCount ELSE bar) = BarCount
    BY <1>0, <2>1 DEF LearnInv
  <2>3. gained \in Int /\ marked \in Int /\ gained + Holding = marked /\ episode \in 1 .. Episodes + 2
    BY DEF LearnInv
  <2>4. CostOut \in Nat /\ (entry # Flat => entry \in Int) /\ Price(BarCount) \in Int
    BY LearnPrices
  <2>5. log'.return = log'.marked
    <3>1. CASE entry = Flat
      <4>1. gained = marked
        BY <2>3, <3>1 DEF Holding
      <4> QED BY <2>1, <3>1, <4>1
    <3>2. CASE entry # Flat
      <4>1. gained + (Price(BarCount) - entry) = marked
        BY <2>2, <2>3, <3>2 DEF Holding
      <4>2. gained + (Price(BarCount) - CostOut - entry) = marked - CostOut
        BY <2>3, <2>4, <3>2, <4>1
      <4>3. log' = [return |-> gained + (Price(BarCount) - CostOut - entry), trades |-> trades + 1, marked |-> marked - CostOut]
        BY <2>1, <3>2
      <4> QED BY <4>2, <4>3
    <3> QED BY <3>1, <3>2
  <2>6. Holding' = 0
    BY <2>1 DEF Holding
  <2>7. episode' \in 1 .. Episodes + 2 /\ bar' \in 1 .. BarCount + 1 /\ bar' <= BarCount
    BY <1>0, <2>1, <2>3
  <2>8. series' \in [1 .. BarCount -> [state : MarketStates, price : LogPrices]]
        /\ qTable' \in [MarketStates -> [Actions -> -(2 * Steepest) .. 2 * Steepest]]
    BY <2>1 DEF LearnInv
  <2> QED BY <2>1, <2>5, <2>6, <2>7, <2>8 DEF LearnInv
<1> QED BY <1>2, <1>3, <1>4, <1>5 DEF LearnNext

\* The invariant of the learner, through every episode.
THEOREM LearnInductive == LearnSpec => []LearnInv
BY LearnInit_Inv, LearnStep, PTL DEF LearnSpec

\* What the invariant says of the table and of the return.
LEMMA LearnInvFacts == LearnInv => LearnTypeOK /\ ValuesBounded /\ ReturnsAreHeld
<1> SUFFICES ASSUME LearnInv PROVE LearnTypeOK /\ ValuesBounded /\ ReturnsAreHeld
  OBVIOUS
<1>1. Steepest \in Nat
  BY SteepestFacts
<1>2. qTable \in [MarketStates -> [Actions -> -(2 * Steepest) .. 2 * Steepest]]
  BY DEF LearnInv
<1>3. ValuesBounded
  BY <1>2 DEF ValuesBounded
<1>4. -(2 * Steepest) .. 2 * Steepest \subseteq Int
  BY <1>1
<1>5. qTable \in [MarketStates -> [Actions -> Int]]
  <2> DEFINE B == -(2 * Steepest) .. 2 * Steepest
  <2>1. B \subseteq Int /\ qTable \in [MarketStates -> [Actions -> B]]
    BY <1>2, <1>4
  <2> HIDE DEF B
  <2>2. [Actions -> B] \subseteq [Actions -> Int]
    BY <2>1
  <2> QED BY <2>1, <2>2
<1>6. trades \in 0 .. BarCount
  BY QLearnerAssumption DEF LearnInv
<1>7. LearnTypeOK
  BY <1>5, <1>6 DEF LearnTypeOK, LearnInv
<1>8. ReturnsAreHeld
  BY DEF ReturnsAreHeld, LearnInv, Holding
<1> QED BY <1>3, <1>7, <1>8

(***************************************************************************)
(* The performance page                                                    *)
(* Its totals are those of the rows, by symbol, by period and in all.      *)
(***************************************************************************)

\* The rows of both tables, and the closed ones among them.
LEMMA RowFacts ==
  ASSUME PerfTypeOK
  PROVE  /\ Len(rows) \in Nat /\ DOMAIN rows = 1 .. Len(rows)
         /\ \A i \in DOMAIN rows : rows[i] \in ClosedTrades /\ rows[i].when \in Nat /\ rows[i].source \in {"journal", "auto"}
         /\ Closed \in SUBSET (DOMAIN rows) /\ IsFiniteSet(Closed) /\ Cardinality(Closed) \in Nat
         /\ \A i \in Closed : rows[i].pnl \in Int /\ IsClosed(rows[i])
<1>1. Len(rows) \in Nat /\ DOMAIN rows = 1 .. Len(rows) /\ \A i \in DOMAIN rows : rows[i] \in ClosedTrades
  BY DEF PerfTypeOK
<1>2. \A i \in DOMAIN rows : rows[i].when \in Nat /\ rows[i].source \in {"journal", "auto"} /\ rows[i].pnl \in Int \cup {Unbooked}
  BY <1>1, PerformanceAssumption
<1>3. Closed \in SUBSET (DOMAIN rows) /\ \A i \in Closed : IsClosed(rows[i])
  BY DEF Closed
<1>4. IsFiniteSet(1 .. Len(rows))
  BY <1>1, FS_Interval
<1>5. IsFiniteSet(Closed) /\ Cardinality(Closed) \in Nat
  BY <1>1, <1>3, <1>4, FS_Subset, FS_CardinalityType
<1>6. \A i \in Closed : rows[i].pnl \in Int
  BY <1>2, <1>3 DEF IsClosed
<1> QED BY <1>1, <1>2, <1>3, <1>5, <1>6

\* The closed trades are collected each once, none before an earlier one.
LEMMA CollectFacts ==
  ASSUME PerfTypeOK
  PROVE  \E from \in [1 .. Cardinality(Closed) -> Closed] :
            /\ CollectClosedTrades = [k \in 1 .. Cardinality(Closed) |-> rows[from[k]]]
            /\ \A i \in Closed : \E k \in 1 .. Cardinality(Closed) : from[k] = i
            /\ \A k, l \in 1 .. Cardinality(Closed) : k < l => Earlier(from[k], from[l])
<1> DEFINE S == Closed
           n == Cardinality(Closed)
           R == {u \in S \X S : Earlier(u[1], u[2])}
           rank == [i \in S |-> PlaceInTime(i)]
           from == [k \in 1 .. n |-> CHOOSE i \in S : PlaceInTime(i) = k]
<1>1. /\ n \in Nat /\ IsFiniteSet(S)
      /\ \A i \in S : i \in Int /\ rows[i].when \in Nat /\ rows[i].source \in {"journal", "auto"}
  BY RowFacts
<1>2. \A i, j \in S : <<i, j>> \in R <=> Earlier(i, j)
  OBVIOUS
<1>3. /\ \A i \in S : <<i, i>> \notin R
      /\ \A i, j, l \in S : <<i, j>> \in R /\ <<j, l>> \in R => <<i, l>> \in R
      /\ \A i, j \in S : i # j => <<i, j>> \in R \/ <<j, i>> \in R
  <2> HIDE DEF R, S
  <2>1. \A i \in S : ~ Earlier(i, i)
    BY <1>1 DEF Earlier, Collected
  <2>2. \A i, j, l \in S : Earlier(i, j) /\ Earlier(j, l) => Earlier(i, l)
    BY <1>1 DEF Earlier, Collected
  <2>3. \A i, j \in S : i # j => Earlier(i, j) \/ Earlier(j, i)
    BY <1>1 DEF Earlier, Collected
  <2> QED BY <1>2, <2>1, <2>2, <2>3
<1>4. \A i \in S : rank[i] = 1 + Cardinality({j \in S : <<j, i>> \in R})
  <2> TAKE i \in S
  <2>1. {j \in S : <<j, i>> \in R} = {j \in Closed : Earlier(j, i)}
    BY <1>2
  <2> HIDE DEF R
  <2> QED BY <2>1 DEF PlaceInTime
<1>5. /\ \A i \in S : rank[i] \in 1 .. n
      /\ \A i, j \in S : <<i, j>> \in R <=> rank[i] < rank[j]
      /\ \A k \in 1 .. n : \E i \in S : rank[i] = k
      /\ \A i, j \in S : rank[i] = rank[j] => i = j
  <2>1. n = Cardinality(S)
    OBVIOUS
  <2> HIDE DEF R, rank, S, from, n
  <2>2. Orders(R, S)
    BY <1>3 DEF Orders
  <2>3. Places(rank, R, S)
    BY <1>4 DEF Places
  <2>4. IsFiniteSet(S)
    BY <1>1
  <2>5. /\ \A i \in S : rank[i] \in 1 .. Cardinality(S)
        /\ \A i, j \in S : <<i, j>> \in R <=> rank[i] < rank[j]
        /\ \A k \in 1 .. Cardinality(S) : \E i \in S : rank[i] = k
        /\ \A i, j \in S : rank[i] = rank[j] => i = j
    BY ONLY <2>2, <2>3, <2>4, Ranking
  <2> QED BY <2>1, <2>5
<1>6. \A k \in 1 .. n : from[k] \in S /\ rank[from[k]] = k
  <2> TAKE k \in 1 .. n
  <2>1. \E i \in S : PlaceInTime(i) = k
    BY <1>5
  <2>2. (CHOOSE i \in S : PlaceInTime(i) = k) \in S /\ PlaceInTime(CHOOSE i \in S : PlaceInTime(i) = k) = k
    BY <2>1
  <2> QED BY <2>2
<1>7. CollectClosedTrades = [k \in 1 .. n |-> rows[from[k]]]
  BY DEF CollectClosedTrades
<1>8. from \in [1 .. n -> S]
  BY <1>6
<1> HIDE DEF from, rank, R
<1>9. \A i \in S : \E k \in 1 .. n : from[k] = i
  <2> SUFFICES ASSUME NEW i \in S PROVE \E k \in 1 .. n : from[k] = i
    OBVIOUS
  <2>1. rank[i] \in 1 .. n /\ from[rank[i]] \in S /\ rank[from[rank[i]]] = rank[i]
    BY <1>5, <1>6
  <2> QED BY <1>5, <2>1
<1>10. ASSUME NEW k \in 1 .. n, NEW l \in 1 .. n, k < l PROVE Earlier(from[k], from[l])
  <2>1. from[k] \in S /\ from[l] \in S /\ rank[from[k]] < rank[from[l]]
    BY <1>6, <1>10
  <2>2. <<from[k], from[l]>> \in R
    BY <1>5, <2>1
  <2> QED BY <1>2, <2>1, <2>2
<1> HIDE DEF n
<1> QED
  BY <1>7, <1>8, <1>9, <1>10 DEF n

\* The greater of two numbers.
LEMMA MaxOfTwo ==
  ASSUME NEW a \in Int, NEW b \in Int
  PROVE  Max({a, b}) = IF a >= b THEN a ELSE b
<1> DEFINE m == IF a >= b THEN a ELSE b
<1>1. m \in {a, b} /\ \A y \in {a, b} : m >= y
  OBVIOUS
<1>2. \A x \in {a, b} : (\A y \in {a, b} : x >= y) => x = m
  OBVIOUS
<1>3. Max({a, b}) \in {a, b} /\ \A y \in {a, b} : Max({a, b}) >= y
  <2> HIDE DEF m
  <2> QED BY <1>1 DEF Max
<1> QED BY <1>2, <1>3

Point == [curve : Int, peak : Int, drop : Int]

\* The walk along the curve, a trade at a time.
LEMMA WalkFacts ==
  ASSUME NEW closed, Len(closed) \in Nat, \A i \in 1 .. Len(closed) : closed[i].pnl \in Int
  PROVE  /\ Walk(closed) \in [0 .. Len(closed) -> Point]
         /\ Walk(closed)[0] = [curve |-> 0, peak |-> 0, drop |-> 0]
         /\ \A i \in 1 .. Len(closed) : Walk(closed)[i] = Passed(Walk(closed)[i - 1], closed[i].pnl)
<1> DEFINE n == Len(closed)
           start == [curve |-> 0, peak |-> 0, drop |-> 0]
           G == [u \in (1 .. n) \X Point |-> Passed(u[2], closed[u[1]].pnl)]
           Body(w) == [m \in 0 .. n |-> IF m = 0 THEN start ELSE Passed(w[m - 1], closed[m].pnl)]
<1>1. start \in Point
  BY DEF Point
<1>2. ASSUME NEW v \in Point, NEW p \in Int PROVE Passed(v, p) \in Point
  <2> DEFINE c == v.curve + p
             k == Max({v.peak, c})
             d == Max({v.drop, k - c})
  <2>1. v.curve \in Int /\ v.peak \in Int /\ v.drop \in Int
    BY DEF Point
  <2>2. c \in Int
    BY <2>1
  <2> HIDE DEF c
  <2>3. k \in Int
    BY <2>1, <2>2, MaxOfTwo
  <2> HIDE DEF k
  <2>4. d \in Int
    BY <2>1, <2>2, <2>3, MaxOfTwo
  <2>5. Passed(v, p) = [curve |-> c, peak |-> k, drop |-> d]
    BY DEF Passed, c, k
  <2> HIDE DEF d
  <2> QED BY <2>2, <2>3, <2>4, <2>5 DEF Point
<1>3. \A i \in 0 + 1 .. n : \A v \in Point : G[<<i, v>>] = Passed(v, closed[i].pnl) /\ G[<<i, v>>] \in Point
  <2> TAKE i \in 0 + 1 .. n
  <2> TAKE v \in Point
  <2>1. i \in 1 .. n /\ <<i, v>> \in (1 .. n) \X Point
    OBVIOUS
  <2>2. G[<<i, v>>] = Passed(v, closed[i].pnl)
    BY <2>1
  <2> QED BY <1>2, <2>1, <2>2
<1> HIDE DEF G, start
<1>4. PICK f \in [0 .. n -> Point] : \A i \in 0 .. n : f[i] = IF i = 0 THEN start ELSE G[<<i, f[i - 1]>>]
  <2>1. Steps(G, Point, 0, n)
    BY <1>3 DEF Steps
  <2>2. 0 \in Int /\ n \in Int
    OBVIOUS
  <2> HIDE DEF n
  <2>3. \E f \in [0 .. n -> Point] : Follows(f, start, G, 0, n)
    BY ONLY <1>1, <2>1, <2>2, Recursion
  <2> QED BY <2>3 DEF Follows
<1>5. f = Body(f)
  <2>1. \A i \in 0 .. n : f[i] = Body(f)[i]
    <3> TAKE i \in 0 .. n
    <3>1. i # 0 => i \in 0 + 1 .. n /\ f[i - 1] \in Point
      OBVIOUS
    <3> QED BY <1>3, <1>4, <3>1
  <2> HIDE DEF n
  <2> QED BY <2>1
<1>6. Walk(closed) = CHOOSE w : w = Body(w)
  BY DEF Walk, start
<1>7. Walk(closed) = Body(Walk(closed))
  <2> HIDE DEF Body
  <2> QED BY <1>5, <1>6
<1>8. DOMAIN Walk(closed) = 0 .. n /\ Walk(closed)[0] = start
      /\ \A i \in 1 .. n : Walk(closed)[i] = Passed(Walk(closed)[i - 1], closed[i].pnl)
  <2> DEFINE w == Walk(closed)
  <2> HIDE DEF w
  <2>1. w = Body(w)
    BY <1>7 DEF w
  <2>2. DOMAIN w = 0 .. n
    BY <2>1
  <2>3. \A i \in 0 .. n : w[i] = IF i = 0 THEN start ELSE Passed(w[i - 1], closed[i].pnl)
    BY <2>1
  <2>4. 0 \in 0 .. n /\ \A i \in 1 .. n : i \in 0 .. n /\ i # 0
    OBVIOUS
  <2> HIDE DEF Body, n
  <2> QED BY <2>2, <2>3, <2>4 DEF w
<1>9. \A i \in 0 .. n : f[i] = Walk(closed)[i]
  <2> DEFINE w == Walk(closed)
             H == [u \in (1 .. n) \X Point |-> Passed(u[2], closed[u[1]].pnl)]
             Met == {m \in Nat : m <= n => f[m] = w[m]}
  <2> HIDE DEF w
  <2>0. w[0] = start /\ \A i \in 1 .. n : w[i] = Passed(w[i - 1], closed[i].pnl)
    BY <1>8 DEF w
  <2>1. 0 \in Met
    <3>1. 0 \in 0 .. n
      OBVIOUS
    <3>2. f[0] = start
      BY <1>4, <3>1
    <3> QED BY <2>0, <3>2
  <2>2. ASSUME NEW m \in Nat, m \in Met PROVE m + 1 \in Met
    <3> SUFFICES ASSUME m + 1 <= n PROVE f[m + 1] = w[m + 1]
      OBVIOUS
    <3>1. m + 1 \in 1 .. n /\ m + 1 \in 0 .. n /\ m + 1 # 0 /\ (m + 1) - 1 = m /\ m + 1 \in 0 + 1 .. n /\ m \in 0 .. n
      OBVIOUS
    <3>2. f[m] = w[m] /\ f[m] \in Point
      BY <2>2, <3>1
    <3>3. f[m + 1] = G[<<m + 1, f[m]>>]
      BY <1>4, <3>1
    <3>4. f[m + 1] = Passed(f[m], closed[m + 1].pnl)
      BY <1>3, <3>1, <3>2, <3>3
    <3> QED BY <2>0, <3>1, <3>2, <3>4
  <2>3. Nat \subseteq Met
    <3> HIDE DEF Met
    <3> QED BY <2>1, <2>2, NaturalInduction
  <2>4. \A i \in 0 .. n : f[i] = w[i]
    BY <2>3
  <2> QED BY <2>4 DEF w
<1>10. Walk(closed) \in [0 .. n -> Point]
  <2> DEFINE w == Walk(closed)
  <2> HIDE DEF w
  <2>1. w = Body(w)
    BY <1>7 DEF w
  <2>2. w = [i \in 0 .. n |-> w[i]]
    BY <2>1
  <2>3. \A i \in 0 .. n : w[i] \in Point
    BY <1>9 DEF w
  <2> QED BY <2>2, <2>3 DEF w
<1> QED BY <1>8, <1>10 DEF start
\* The total after each trade, the curve's peak before it, and the deepest fall before it.
LEMMA DeepestFall ==
  ASSUME NEW closed, Len(closed) \in Nat, DOMAIN closed = 1 .. Len(closed),
         \A i \in 1 .. Len(closed) : closed[i].pnl \in Int
  PROVE  LET total(m) == SumPnl(closed, 1 .. m)
         IN  Walk(closed)[Len(closed)].drop = Max(UNION {{total(i) - total(j) : i \in 0 .. j} : j \in 0 .. Len(closed)})
<1> DEFINE n == Len(closed)
           w == Walk(closed)
           pnl == [i \in 1 .. n |-> closed[i].pnl]
           total(m) == SumPnl(closed, 1 .. m)
           Deep(m) == /\ w[m].curve = total(m)
                      /\ \E j \in 0 .. m : w[m].peak = total(j)
                      /\ \A j \in 0 .. m : total(j) <= w[m].peak
                      /\ \E j \in 0 .. m : \E i \in 0 .. j : w[m].drop = total(i) - total(j)
                      /\ \A j \in 0 .. m : \A i \in 0 .. j : total(i) - total(j) <= w[m].drop
           Good == {m \in Nat : m <= n => Deep(m)}
           falls == UNION {{total(i) - total(j) : i \in 0 .. j} : j \in 0 .. n}
<1>1. /\ w \in [0 .. n -> Point] /\ w[0] = [curve |-> 0, peak |-> 0, drop |-> 0]
      /\ \A i \in 1 .. n : w[i] = Passed(w[i - 1], closed[i].pnl)
  BY WalkFacts
<1>2. total(0) = 0 /\ \A m \in 1 .. n : total(m) = total(m - 1) + closed[m].pnl
  <2>1. \A m : total(m) = SumFunctionOnSet(pnl, 1 .. m)
    BY DEF SumPnl
  <2>2. total(0) = 0
    <3>1. 1 .. 0 = {}
      OBVIOUS
    <3> HIDE DEF total, pnl
    <3> QED BY <2>1, <3>1, SumEmpty
  <2>3. ASSUME NEW m \in 1 .. n PROVE total(m) = total(m - 1) + closed[m].pnl
    <3>1. m \in 1 .. m /\ (1 .. m) \ {m} = 1 .. m - 1 /\ IsFiniteSet(1 .. m) /\ IsFiniteSet(1 .. m - 1)
      <4>1. m \in Int /\ m - 1 \in Int /\ 1 \in Int
        OBVIOUS
      <4>2. IsFiniteSet(1 .. m) /\ IsFiniteSet(1 .. m - 1)
        BY ONLY <4>1, FS_Interval
      <4> QED BY <4>2
    <3>2. (\A i \in 1 .. m : pnl[i] \in Int) /\ (\A i \in 1 .. m - 1 : pnl[i] \in Int) /\ pnl[m] = closed[m].pnl
      OBVIOUS
    <3> HIDE DEF total, pnl
    <3>3. SumFunctionOnSet(pnl, 1 .. m) = pnl[m] + SumFunctionOnSet(pnl, (1 .. m) \ {m})
      BY <3>1, <3>2, SumRemove
    <3>4. SumFunctionOnSet(pnl, 1 .. m - 1) \in Int
      BY <3>1, <3>2, SumInt
    <3>5. SumFunctionOnSet(pnl, 1 .. m) = pnl[m] + SumFunctionOnSet(pnl, 1 .. m - 1)
      BY <3>1, <3>3, Zenon
    <3>6. pnl[m] \in Int
      BY <3>1, <3>2
    <3> QED BY <2>1, <3>2, <3>4, <3>5, <3>6
  <2> QED BY <2>2, <2>3
<1>3. \A m \in 0 .. n : total(m) \in Int
  <2> DEFINE Typed == {m \in Nat : m <= n => total(m) \in Int}
  <2> HIDE DEF total
  <2>1. 0 \in Typed
    BY <1>2
  <2>2. ASSUME NEW m \in Nat, m \in Typed PROVE m + 1 \in Typed
    <3> SUFFICES ASSUME m + 1 <= n PROVE total(m + 1) \in Int
      OBVIOUS
    <3>1. m + 1 \in 1 .. n /\ (m + 1) - 1 = m /\ total(m) \in Int
      BY <2>2
    <3>2. total(m + 1) = total((m + 1) - 1) + closed[m + 1].pnl /\ closed[m + 1].pnl \in Int
      BY <1>2, <3>1
    <3> QED BY <3>1, <3>2
  <2>3. Nat \subseteq Typed
    <3> HIDE DEF Typed
    <3> QED BY <2>1, <2>2, NaturalInduction
  <2> QED BY <2>3
<1> HIDE DEF total, w
<1>4. 0 \in Good
  <2>1. 0 .. 0 = {0}
    OBVIOUS
  <2>2. w[0].curve = 0 /\ w[0].peak = 0 /\ w[0].drop = 0
    BY <1>1
  <2>3. \A j \in 0 .. 0 : j = 0 /\ total(j) = 0 /\ \A i \in 0 .. j : i = 0 /\ total(i) - total(j) = 0
    BY <1>2
  <2>4. 0 \in 0 .. 0 /\ total(0) - total(0) = 0 /\ total(0) = 0
    BY <1>2
  <2>5. Deep(0)
    BY <2>2, <2>3, <2>4
  <2> QED BY <2>5
<1>5. ASSUME NEW m \in Nat, m \in Good PROVE m + 1 \in Good
  <2> HIDE DEF Deep
  <2> SUFFICES ASSUME m + 1 <= n PROVE Deep(m + 1)
    OBVIOUS
  <2> DEFINE q == m + 1
             v == w[m]
             c == v.curve + closed[q].pnl
             k == Max({v.peak, c})
             d == Max({v.drop, k - c})
  <2>1. q \in 1 .. n /\ q \in 0 .. n /\ q - 1 = m /\ m \in 0 .. n /\ q \in Nat
        /\ \A j \in 0 .. q : j \in 0 .. n /\ (j \in 0 .. m \/ j = q)
    OBVIOUS
  <2>2. Deep(m)
    BY <1>5, <2>1
  <2>3. closed[q].pnl \in Int /\ v.curve \in Int /\ v.peak \in Int /\ v.drop \in Int
    <3>1. v \in Point
      BY <1>1, <2>1
    <3>2. closed[q].pnl \in Int
      BY <2>1
    <3> QED BY <3>1, <3>2 DEF Point
  <2>4. w[q] = [curve |-> c, peak |-> k, drop |-> d]
    BY <1>1, <2>1 DEF Passed
  <2> HIDE DEF q, v
  <2>5. c \in Int
    BY <2>3
  <2>6. c = total(q)
    <3>1. v.curve = total(m)
      BY <2>2 DEF Deep, v
    <3> QED BY <1>2, <2>1, <3>1
  <2> HIDE DEF c
  <2>7. k = IF v.peak >= c THEN v.peak ELSE c
    BY <2>3, <2>5, MaxOfTwo
  <2> HIDE DEF k
  <2>8. k - c \in Int /\ k \in Int
    BY <2>3, <2>5, <2>7
  <2>9. d = IF v.drop >= k - c THEN v.drop ELSE k - c
    BY <2>3, <2>8, MaxOfTwo
  <2> HIDE DEF d
  <2>10. \A j \in 0 .. q : total(j) \in Int
    BY <1>3, <2>1
  <2>11. w[q].curve = c /\ w[q].peak = k /\ w[q].drop = d
    BY <2>4
  <2>12. 0 .. m \subseteq 0 .. q /\ q \in 0 .. q
    BY <2>1
  <2>13. (\E j \in 0 .. q : k = total(j)) /\ \A j \in 0 .. q : total(j) <= k
    <3>1. PICK j \in 0 .. m : v.peak = total(j)
      BY <2>2 DEF Deep, v
    <3>2. \A i \in 0 .. m : total(i) <= v.peak
      BY <2>2 DEF Deep, v
    <3>3. \E i \in 0 .. q : k = total(i)
      BY <2>6, <2>7, <2>12, <3>1
    <3>4. ASSUME NEW i \in 0 .. q PROVE total(i) <= k
      <4>1. i \in 0 .. m \/ i = q
        BY <2>1
      <4> QED BY <2>3, <2>5, <2>6, <2>7, <2>10, <3>2, <4>1
    <3> QED BY <3>3, <3>4
  <2>14. \E j \in 0 .. q : \E i \in 0 .. j : d = total(i) - total(j)
    <3>1. CASE v.drop >= k - c
      <4>1. PICK j \in 0 .. m : \E i \in 0 .. j : v.drop = total(i) - total(j)
        BY <2>2 DEF Deep, v
      <4>2. j \in 0 .. q /\ \E i \in 0 .. j : d = total(i) - total(j)
        BY <2>9, <2>12, <3>1, <4>1
      <4> QED BY <4>2
    <3>2. CASE ~ (v.drop >= k - c)
      <4>1. PICK i \in 0 .. q : k = total(i)
        BY <2>13
      <4>2. d = total(i) - total(q)
        BY <2>6, <2>9, <3>2, <4>1
      <4> QED BY <2>12, <4>2
    <3> QED BY <3>1, <3>2
  <2>15. ASSUME NEW j \in 0 .. q, NEW i \in 0 .. j PROVE total(i) - total(j) <= d
    <3>1. i \in 0 .. q /\ i \in Int /\ j \in Int
      BY <2>1
    <3>2. total(i) \in Int /\ total(j) \in Int
      BY <2>10, <3>1
    <3>3. CASE j \in 0 .. m
      <4>1. total(i) - total(j) <= v.drop
        BY <2>2, <3>3 DEF Deep, v
      <4>2. v.drop <= d
        BY <2>3, <2>8, <2>9
      <4>3. d \in Int
        BY <2>3, <2>8, <2>9
      <4> QED BY <2>3, <3>2, <4>1, <4>2, <4>3
    <3>4. CASE j = q
      <4>1. total(i) <= k /\ total(j) = c
        BY <2>6, <2>13, <3>1, <3>4
      <4>2. k - c <= d /\ d \in Int
        BY <2>3, <2>8, <2>9
      <4> QED BY <2>5, <2>8, <3>2, <4>1, <4>2
    <3> QED BY <2>1, <3>3, <3>4
  <2>16. Deep(q)
    BY <2>6, <2>11, <2>13, <2>14, <2>15 DEF Deep
  <2> QED BY <2>16 DEF q
<1>6. Deep(n)
  <2>1. Nat \subseteq Good
    <3> HIDE DEF Good
    <3> QED BY <1>4, <1>5, NaturalInduction
  <2> HIDE DEF Deep
  <2>2. n \in Nat
    OBVIOUS
  <2> QED BY <2>1, <2>2
<1>7. w[n].drop \in falls /\ \A x \in falls : x <= w[n].drop
  BY <1>6
<1>8. falls \subseteq Int /\ w[n].drop \in Int
  <2>1. ASSUME NEW j \in 0 .. n, NEW i \in 0 .. j PROVE total(i) - total(j) \in Int
    <3>1. i \in 0 .. n
      OBVIOUS
    <3> QED BY <1>3, <3>1
  <2>2. falls \subseteq Int
    BY <2>1
  <2> HIDE DEF falls
  <2> QED BY <1>7, <2>2
<1>9. Max(falls) = w[n].drop
  <2> HIDE DEF falls
  <2>1. Max(falls) \in falls /\ \A x \in falls : Max(falls) >= x
    <3>1. \E y \in falls : \A x \in falls : y >= x
      BY <1>7, <1>8
    <3> QED BY <3>1 DEF Max
  <2>2. Max(falls) \in Int /\ Max(falls) >= w[n].drop /\ Max(falls) <= w[n].drop
    BY <1>7, <1>8, <2>1
  <2> QED BY <1>8, <2>2
<1> QED BY <1>9 DEF w, total

\* Of the rows of the symbols, the results, the wins and the counts add up to the whole's.
LEMMA SymbolsAddUp ==
  ASSUME NEW closed, Len(closed) \in Nat, DOMAIN closed = 1 .. Len(closed),
         \A i \in 1 .. Len(closed) : closed[i].pnl \in Int
  PROVE  LET bySymbol == PerSymbol(closed)
         IN  /\ SumFunction([s \in DOMAIN bySymbol |-> bySymbol[s].pnl]) = SumPnl(closed, DOMAIN closed)
             /\ SumFunction([s \in DOMAIN bySymbol |-> bySymbol[s].wins]) = ComputeStats(closed).wins
             /\ SumFunction([s \in DOMAIN bySymbol |-> bySymbol[s].trades]) = ComputeStats(closed).trades
<1> DEFINE D == 1 .. Len(closed)
           K == {closed[i].symbol : i \in D}
           key == [i \in D |-> closed[i].symbol]
           pnl == [i \in D |-> closed[i].pnl]
           W == {i \in D : closed[i].pnl > 0}
           ones(T) == [i \in D |-> IF i \in T THEN 1 ELSE 0]
           own(s) == {i \in D : closed[i].symbol = s}
           by == PerSymbol(closed)
<1>1. IsFiniteSet(D) /\ Cardinality(D) = Len(closed)
  BY FS_Interval
<1>2. IsFiniteSet(K) /\ \A i \in D : key[i] \in K
  <2>1. K = {key[i] : i \in D}
    OBVIOUS
  <2>2. \A i \in D : key[i] \in K
    OBVIOUS
  <2> HIDE DEF K, key, D
  <2> QED BY <1>1, <2>1, <2>2, FiniteValues
<1>3. /\ DOMAIN by = K
      /\ \A s \in K : /\ by[s].trades = Cardinality(own(s))
                       /\ by[s].pnl = SumPnl(closed, own(s))
                       /\ by[s].wins = Cardinality(Wins(closed, own(s)))
  BY DEF PerSymbol
<1>4. \A s : own(s) = {i \in D : key[i] = s} /\ IsFiniteSet(own(s)) /\ own(s) \in SUBSET D
  <2>1. \A s : own(s) = {i \in D : key[i] = s} /\ own(s) \in SUBSET D
    OBVIOUS
  <2> HIDE DEF own
  <2> QED BY <1>1, <2>1, FS_Subset
<1>5. ASSUME NEW f, \A i \in D : f[i] \in Int, NEW g, DOMAIN g = K, g = [s \in K |-> g[s]],
             \A s \in K : g[s] = SumFunctionOnSet(f, own(s))
      PROVE  SumFunction(g) = SumFunctionOnSet(f, D)
  <2> DEFINE h == [s \in K |-> SumFunctionOnSet(f, {i \in D : key[i] = s})]
  <2>1. g = h
    BY <1>4, <1>5
  <2>2. SumFunctionOnSet(h, K) = SumFunctionOnSet(f, D)
    <3> HIDE DEF D, K, key, own
    <3> QED BY ONLY <1>1, <1>2, <1>5, SumByKey
  <2> HIDE DEF h
  <2> QED BY <1>5, <2>1, <2>2 DEF SumFunction
<1> HIDE DEF by
<1>6. SumFunction([s \in K |-> by[s].pnl]) = SumPnl(closed, D)
  <2> DEFINE g == [s \in K |-> by[s].pnl]
  <2>1. \A T : SumPnl(closed, T) = SumFunctionOnSet(pnl, T)
    BY DEF SumPnl
  <2>2. \A i \in D : pnl[i] \in Int
    OBVIOUS
  <2>3. DOMAIN g = K /\ g = [s \in K |-> g[s]] /\ \A s \in K : g[s] = by[s].pnl
    OBVIOUS
  <2> HIDE DEF pnl, g, own, K, D
  <2>4. \A s \in K : g[s] = SumFunctionOnSet(pnl, own(s))
    BY <1>3, <2>1, <2>3
  <2>5. SumFunction(g) = SumFunctionOnSet(pnl, D)
    BY <1>5, <2>2, <2>3, <2>4
  <2> QED BY <2>1, <2>5 DEF g
<1>7. ASSUME NEW T PROVE /\ \A i \in D : ones(T)[i] \in Int
                         /\ \A U \in SUBSET D : SumFunctionOnSet(ones(T), U) = Cardinality({i \in U : i \in T})
  <2>1. \A i \in D : ones(T)[i] = IF i \in T THEN 1 ELSE 0
    OBVIOUS
  <2> HIDE DEF ones, D
  <2>2. \A i \in D : ones(T)[i] \in Int
    BY <2>1
  <2>3. ASSUME NEW U \in SUBSET D PROVE SumFunctionOnSet(ones(T), U) = Cardinality({i \in U : i \in T})
    <3> DEFINE f == ones(T)
    <3>1. IsFiniteSet(U) /\ \A i \in U : f[i] = IF i \in T THEN 1 ELSE 0
      BY <1>1, <2>1, FS_Subset
    <3> HIDE DEF f
    <3>2. SumFunctionOnSet(f, U) = Cardinality({i \in U : i \in T})
      BY ONLY <3>1, SumOfOnes
    <3> QED BY <3>2 DEF f
  <2> QED BY <2>2, <2>3
<1>8. SumFunction([s \in K |-> by[s].wins]) = Cardinality(W)
  <2> DEFINE g == [s \in K |-> by[s].wins]
             f == ones(W)
  <2>1. DOMAIN g = K /\ g = [s \in K |-> g[s]] /\ \A s \in K : g[s] = by[s].wins
    OBVIOUS
  <2>2. \A s : Wins(closed, own(s)) = {i \in own(s) : i \in W}
    BY <1>4 DEF Wins
  <2>3. {i \in D : i \in W} = W /\ D \in SUBSET D
    OBVIOUS
  <2>4. (\A i \in D : f[i] \in Int) /\ \A U \in SUBSET D : SumFunctionOnSet(f, U) = Cardinality({i \in U : i \in W})
    <3> HIDE DEF ones, W, D
    <3> QED BY <1>7
  <2> HIDE DEF g, f, ones, own, K, D, W
  <2>5. \A s \in K : g[s] = SumFunctionOnSet(f, own(s))
    BY <1>3, <1>4, <2>1, <2>2, <2>4
  <2>6. SumFunction(g) = SumFunctionOnSet(f, D)
    BY <1>5, <2>1, <2>4, <2>5
  <2> QED BY <2>3, <2>4, <2>6 DEF g
<1>9. SumFunction([s \in K |-> by[s].trades]) = Cardinality(D)
  <2> DEFINE g == [s \in K |-> by[s].trades]
             f == ones(D)
  <2>1. DOMAIN g = K /\ g = [s \in K |-> g[s]] /\ \A s \in K : g[s] = by[s].trades
    OBVIOUS
  <2>2. \A s : {i \in own(s) : i \in D} = own(s)
    BY <1>4
  <2>3. {i \in D : i \in D} = D /\ D \in SUBSET D
    OBVIOUS
  <2>4. (\A i \in D : f[i] \in Int) /\ \A U \in SUBSET D : SumFunctionOnSet(f, U) = Cardinality({i \in U : i \in D})
    <3> HIDE DEF ones, D
    <3> QED BY <1>7
  <2> HIDE DEF g, f, ones, own, K, D
  <2>5. \A s \in K : g[s] = SumFunctionOnSet(f, own(s))
    BY <1>3, <1>4, <2>1, <2>2, <2>4
  <2>6. SumFunction(g) = SumFunctionOnSet(f, D)
    BY <1>5, <2>1, <2>4, <2>5
  <2> QED BY <2>3, <2>4, <2>6 DEF g
<1>10. ComputeStats(closed).wins = Cardinality(W) /\ ComputeStats(closed).trades = Cardinality(D)
  BY <1>1 DEF ComputeStats, Wins
<1> HIDE DEF D, K, W
<1>11. DOMAIN closed = D /\ DOMAIN by = K
  BY <1>3 DEF D
<1> QED BY <1>6, <1>8, <1>9, <1>10, <1>11, Zenon DEF by

\* The result since a moment and the result before it.
LEMMA PeriodsAddUp ==
  ASSUME NEW closed, Len(closed) \in Nat, DOMAIN closed = 1 .. Len(closed), NEW start \in Nat,
         \A i \in 1 .. Len(closed) : closed[i].pnl \in Int /\ closed[i].when \in Nat
  PROVE  SumPnl(closed, DOMAIN closed)
           = SumSince(closed, start) + SumPnl(closed, {i \in DOMAIN closed : closed[i].when < start})
<1> DEFINE D == 1 .. Len(closed)
           pnl == [i \in D |-> closed[i].pnl]
           A == {i \in D : closed[i].when >= start}
           B == {i \in D : closed[i].when < start}
<1>1. IsFiniteSet(D)
  BY FS_Interval
<1>2. A \cup B = D /\ A \cap B = {} /\ \A i \in D : pnl[i] \in Int
  OBVIOUS
<1>3. (\A T : SumPnl(closed, T) = SumFunctionOnSet(pnl, T)) /\ SumSince(closed, start) = SumPnl(closed, A)
  BY DEF SumPnl, SumSince
<1> HIDE DEF A, B, pnl, D
<1>4. SumFunctionOnSet(pnl, D) = SumFunctionOnSet(pnl, A) + SumFunctionOnSet(pnl, B)
  BY ONLY <1>1, <1>2, SumSplit
<1> QED BY <1>3, <1>4 DEF D, B

\* The parts together: the totals, the deepest fall, the symbols and the periods.
LEMMA StatsFacts == PerfTypeOK => StatsAddUp
<1> SUFFICES ASSUME PerfTypeOK PROVE StatsAddUp
  OBVIOUS
<1> DEFINE n == Cardinality(Closed)
           closed == CollectClosedTrades
<1>1. PICK from \in [1 .. n -> Closed] : closed = [k \in 1 .. n |-> rows[from[k]]]
  BY CollectFacts
<1>2. n \in Nat /\ \A k \in 1 .. n : rows[from[k]] \in ClosedTrades /\ rows[from[k]].pnl \in Int /\ rows[from[k]].when \in Nat
  <2>1. \A k \in 1 .. n : from[k] \in Closed /\ from[k] \in DOMAIN rows
    BY RowFacts
  <2> QED BY <2>1, RowFacts
<1> HIDE DEF n, closed
<1>3. /\ Len(closed) \in Nat /\ DOMAIN closed = 1 .. Len(closed)
      /\ \A i \in 1 .. Len(closed) : closed[i].pnl \in Int /\ closed[i].when \in Nat
  <2>1. closed \in Seq(ClosedTrades) /\ Len(closed) = n
    BY <1>1, <1>2
  <2> QED BY <1>1, <1>2, <2>1
<1> DEFINE total(m) == SumPnl(closed, 1 .. m)
           falls == Max(UNION {{total(i) - total(j) : i \in 0 .. j} : j \in 0 .. Len(closed)})
<1>4. ComputeStats(closed).maxDrawdown = falls
  <2>1. Walk(closed)[Len(closed)].drop = falls
    <3> HIDE DEF falls
    <3> QED BY <1>3, DeepestFall DEF falls
  <2> QED BY <2>1 DEF ComputeStats
<1> DEFINE by == PerSymbol(closed)
<1>5. /\ SumFunction([s \in DOMAIN by |-> by[s].pnl]) = SumPnl(closed, DOMAIN closed)
      /\ SumFunction([s \in DOMAIN by |-> by[s].wins]) = ComputeStats(closed).wins
      /\ SumFunction([s \in DOMAIN by |-> by[s].trades]) = ComputeStats(closed).trades
  BY <1>3, SymbolsAddUp
<1>6. ASSUME NEW t \in ClosedTrades
      PROVE  SumPnl(closed, DOMAIN closed)
               = SumSince(closed, t.when) + SumPnl(closed, {i \in DOMAIN closed : closed[i].when < t.when})
  <2>1. t.when \in Nat
    BY PerformanceAssumption
  <2> QED BY <1>3, <2>1, PeriodsAddUp
<1> QED BY <1>4, <1>5, <1>6, Zenon DEF StatsAddUp, closed, falls, total, by

(* The deepest drop is the largest fall of the total between two moments,  *)
(* the symbols add up to the whole and so do the periods, for the trades of *)
(* both tables in whatever order they were logged (routes/performance.js). *)
THEOREM FiguresAddUp == PerfSpec => [](PerfTypeOK /\ StatsAddUp)
<1>1. PerfInit => PerfTypeOK
  BY PerformanceAssumption DEF PerfInit, PerfTypeOK
<1>2. PerfTypeOK /\ [PerfNext]_perfVars => PerfTypeOK'
  <2> SUFFICES ASSUME PerfTypeOK, [PerfNext]_perfVars PROVE PerfTypeOK'
    OBVIOUS
  <2>1. CASE UNCHANGED perfVars
    BY <2>1 DEF perfVars, PerfTypeOK
  <2>2. ASSUME NEW t \in ClosedTrades, Log(t) PROVE PerfTypeOK'
    BY <2>2, PerformanceAssumption DEF Log, PerfTypeOK
  <2> QED BY <2>1, <2>2 DEF PerfNext
<1> QED BY <1>1, <1>2, StatsFacts, PTL DEF PerfSpec

(***************************************************************************)
(* The pages of the client                                                 *)
(* Every page's requests, by what guards their answers and what their      *)
(* flags mean.                                                             *)
(***************************************************************************)

\* A request whose answer no later request, and no change of selection, throws away; one
\* that sets no flag unless it is such a request; one that not only a button starts; one
\* that nothing follows; one that others follow, before its flag is cleared or after.
Kept(r) == /\ r.guard \notin {"latest", "query"}
           /\ r.guard # "none" => r.on \cap {"key", "chained"} = {}
Steady(r) == (r.lock # Open => Kept(r)) /\ (r.guard = "query" => r.kind = "load")
Reloaded(r) == ~(r.on \subseteq {"press"})
Ends(r) == r.next = {} /\ ~r.waits
Goes(r, parts) == r.next = parts /\ ~r.waits
Holds(r, parts, flag) == r.next = parts /\ r.waits /\ r.lock = flag

\* The requests that end where they answer.
LEMMA EndForms ==
  /\ \A on : /\ Steady(Load(on)) /\ Ends(Load(on))
             /\ Steady(Guarded(on)) /\ Ends(Guarded(on))
             /\ Steady(Latest(on)) /\ Ends(Latest(on))
             /\ Steady(Query(on)) /\ Ends(Query(on))
  /\ Steady(Write) /\ Ends(Write) 
  /\ Steady(Asked) /\ Ends(Asked)
  /\ Steady(Mounted) /\ Ends(Mounted)
  /\ Steady(Refreshed) /\ Ends(Refreshed)
BY DEF Steady, Ends, Load, Guarded, Latest, Query, Write, Asked, Mounted, Refreshed, Request, Open

\* The same, under a flag of their own.
LEMMA FlagForms ==
   \A f : /\ Steady(Under(Asked, f)) /\ Ends(Under(Asked, f))
          /\ Steady(Under(Write, f)) /\ Ends(Under(Write, f))
          /\ Steady(Gated(Write, f)) /\ Ends(Gated(Write, f))
          /\ Steady(Under(Refreshed, f)) /\ Ends(Under(Refreshed, f))
          /\ \A on : Steady(Under(Load(on), f)) /\ Ends(Under(Load(on), f))
          /\ Steady(Flagged(Asked, f)) /\ Ends(Flagged(Asked, f))
          /\ Steady(Flagged(Mounted, f)) /\ Ends(Flagged(Mounted, f))
          /\ Steady(Flagged(Refreshed, f)) /\ Ends(Flagged(Refreshed, f))
          /\ \A on : Steady(Flagged(Load(on), f)) /\ Ends(Flagged(Load(on), f))
BY DEF Steady, Ends, Load, Write, Asked, Mounted, Refreshed, Request, Open, Kept, Under, Gated, Flagged

\* The requests that reload a part when they end.
LEMMA ThenForms ==
   \A m : /\ Steady(Then(Write, m)) /\ Goes(Then(Write, m), m)
          /\ Steady(Anyway(Write, m)) /\ Goes(Anyway(Write, m), m)
          /\ Steady(Maybe(Refreshed, m)) /\ Goes(Maybe(Refreshed, m), m)
          /\ \A f : /\ Steady(Then(Under(Write, f), m)) /\ Goes(Then(Under(Write, f), m), m)
                    /\ Steady(Maybe(Under(Write, f), m)) /\ Goes(Maybe(Under(Write, f), m), m)
                    /\ Steady(Then(Gated(Write, f), m)) /\ Goes(Then(Gated(Write, f), m), m)
          /\ \A on : /\ Steady(Then(Load(on), m)) /\ Goes(Then(Load(on), m), m)
                     /\ Steady(Then(Guarded(on), m)) /\ Goes(Then(Guarded(on), m), m)
                     /\ Steady(Maybe(Guarded(on), m)) /\ Goes(Maybe(Guarded(on), m), m)
BY DEF Steady, Goes, Load, Guarded, Write, Refreshed, Request, Open, Kept, Then, Anyway, Maybe, Under, Gated

\* The requests that keep their flag until the part they reload has answered.
LEMMA HoldForms ==
   \A m : /\ Steady(Waiting(Write, m)) /\ Holds(Waiting(Write, m), m, Open)
          /\ \A f : Steady(Waiting(Under(Write, f), m)) /\ Holds(Waiting(Under(Write, f), m), m, f)
BY DEF Steady, Holds, Write, Request, Open, Kept, Waiting, Under

\* The loads that something else than a press asks for.
LEMMA ReloadForms ==
  \A on, x : (x \in on /\ x # "press") =>
     /\ Reloaded(Load(on)) /\ Reloaded(Guarded(on)) /\ Reloaded(Latest(on)) /\ Reloaded(Query(on))
     /\ \A f : Reloaded(Under(Load(on), f)) /\ Reloaded(Flagged(Load(on), f))
     /\ \A m : Reloaded(Maybe(Load(on), m)) /\ Reloaded(Then(Guarded(on), m))
BY DEF Reloaded, Load, Guarded, Latest, Query, Request, Under, Flagged, Maybe, Then

\* The loads that hold no flag of another part, and stay while their page does.
LEMMA IdleForms ==
  \A on : /\ Kept(Load(on)) /\ Load(on).lock = Open
          /\ "key" \notin on /\ "chained" \notin on =>
                /\ Kept(Guarded(on)) /\ Guarded(on).lock = Open
                /\ \A m : Kept(Then(Guarded(on), m)) /\ Then(Guarded(on), m).lock = Open
          /\ \A f : Kept(Under(Load(on), f)) /\ Under(Load(on), f).lock = f
          /\ \A m : Kept(Maybe(Load(on), m))
BY DEF Kept, Load, Guarded, Request, Under, Then, Maybe, Open

\* A page on which nothing follows; one whose handlers go on with parts, which not only a
\* button starts.
Plain(p) == \A n \in DOMAIN p : Steady(p[n]) /\ Ends(p[n])
Chains(p, m) == \A n \in DOMAIN p : Steady(p[n]) /\ (Ends(p[n]) \/ Goes(p[n], {m}))

\* The pages none of whose requests starts another.
LEMMA PlainPages ==
    \A p \in {Dashboard, TradeTags, StrategyLabTests, SignalCharts, Orderflow, ProducerConsumer, HyperoptAdvanced, BacktestAnalysis, StrategyAudit, StrategyMigrator, Plots, Protections, Edge, Exchanges, Leverage, Utilities, AuditLog, WebhookPanel, Login, Slippage, StockScreener, AICenter, GapPage, DocsHint, Sidebar, DemoBanner, TradingChart} : Plain(p)
<1>1. Plain(Dashboard)
  BY EndForms, FlagForms DEF Plain, Dashboard
<1>2. Plain(TradeTags)
  BY EndForms, FlagForms DEF Plain, TradeTags
<1>3. Plain(StrategyLabTests)
  BY EndForms, FlagForms DEF Plain, StrategyLabTests
<1>4. Plain(SignalCharts)
  BY EndForms, FlagForms DEF Plain, SignalCharts
<1>5. Plain(Orderflow)
  BY EndForms, FlagForms DEF Plain, Orderflow
<1>6. Plain(ProducerConsumer)
  BY EndForms, FlagForms DEF Plain, ProducerConsumer
<1>7. Plain(HyperoptAdvanced)
  BY EndForms, FlagForms DEF Plain, HyperoptAdvanced
<1>8. Plain(BacktestAnalysis)
  BY EndForms, FlagForms DEF Plain, BacktestAnalysis
<1>9. Plain(StrategyAudit)
  BY EndForms, FlagForms DEF Plain, StrategyAudit
<1>10. Plain(StrategyMigrator)
  BY EndForms, FlagForms DEF Plain, StrategyMigrator
<1>11. Plain(Plots)
  BY EndForms, FlagForms DEF Plain, Plots
<1>12. Plain(Protections)
  BY EndForms, FlagForms DEF Plain, Protections
<1>13. Plain(Edge)
  BY EndForms, FlagForms DEF Plain, Edge
<1>14. Plain(Exchanges)
  BY EndForms, FlagForms DEF Plain, Exchanges
<1>15. Plain(Leverage)
  BY EndForms, FlagForms DEF Plain, Leverage
<1>16. Plain(Utilities)
  BY EndForms, FlagForms DEF Plain, Utilities
<1>17. Plain(AuditLog)
  BY EndForms, FlagForms DEF Plain, AuditLog
<1>18. Plain(WebhookPanel)
  BY EndForms, FlagForms DEF Plain, WebhookPanel
<1>19. Plain(Login)
  BY EndForms, FlagForms DEF Plain, Login
<1>20. Plain(Slippage)
  BY EndForms, FlagForms DEF Plain, Slippage
<1>21. Plain(StockScreener)
  BY EndForms, FlagForms DEF Plain, StockScreener
<1>22. Plain(AICenter)
  BY EndForms, FlagForms DEF Plain, AICenter
<1>23. Plain(GapPage)
  BY EndForms, FlagForms DEF Plain, GapPage
<1>24. Plain(DocsHint)
  BY EndForms, FlagForms DEF Plain, DocsHint
<1>25. Plain(Sidebar)
  BY EndForms, FlagForms DEF Plain, Sidebar
<1>26. Plain(DemoBanner)
  BY EndForms, FlagForms DEF Plain, DemoBanner
<1>27. Plain(TradingChart)
  BY EndForms, FlagForms DEF Plain, TradingChart
<1> QED
  BY <1>1, <1>2, <1>3, <1>4, <1>5, <1>6, <1>7, <1>8, <1>9, <1>10, <1>11, <1>12, <1>13, <1>14, <1>15, <1>16, <1>17, <1>18, <1>19, <1>20, <1>21, <1>22, <1>23, <1>24, <1>25, <1>26, <1>27

\* The pages where a request reloads one part.
LEMMA ChainedPages ==
    \A p \in {TradeReplay, StrategyLabTrader, AutoTradeRow, Hyperopt, SavedBacktests, FreqaiModels, RlLite, Notifications, EventCalendar, Webhooks, AccountProfile, SessionsList, FeaturePage, Themes, ThemeAlerts, MarketNews} : \E m \in DOMAIN p : Chains(p, m) /\ Reloaded(p[m])
<1>1. "chart" \in DOMAIN TradeReplay /\ Chains(TradeReplay, "chart") /\ Reloaded(TradeReplay["chart"])
  <2>1. Chains(TradeReplay, "chart")
    BY EndForms, FlagForms, ThenForms DEF Chains, TradeReplay
  <2>2. "chart" \in DOMAIN TradeReplay /\ Reloaded(TradeReplay["chart"])
    BY ReloadForms DEF TradeReplay
  <2> QED
    BY <2>1, <2>2
<1>2. "status" \in DOMAIN StrategyLabTrader /\ Chains(StrategyLabTrader, "status") /\ Reloaded(StrategyLabTrader["status"])
  <2>1. Chains(StrategyLabTrader, "status")
    BY EndForms, FlagForms, ThenForms DEF Chains, StrategyLabTrader
  <2>2. "status" \in DOMAIN StrategyLabTrader /\ Reloaded(StrategyLabTrader["status"])
    BY ReloadForms DEF StrategyLabTrader
  <2> QED
    BY <2>1, <2>2
<1>3. "status" \in DOMAIN AutoTradeRow /\ Chains(AutoTradeRow, "status") /\ Reloaded(AutoTradeRow["status"])
  <2>1. Chains(AutoTradeRow, "status")
    BY EndForms, FlagForms, ThenForms DEF Chains, AutoTradeRow
  <2>2. "status" \in DOMAIN AutoTradeRow /\ Reloaded(AutoTradeRow["status"])
    BY ReloadForms DEF AutoTradeRow
  <2> QED
    BY <2>1, <2>2
<1>4. "runs" \in DOMAIN Hyperopt /\ Chains(Hyperopt, "runs") /\ Reloaded(Hyperopt["runs"])
  <2>1. Chains(Hyperopt, "runs")
    BY EndForms, FlagForms, ThenForms DEF Chains, Hyperopt
  <2>2. "runs" \in DOMAIN Hyperopt /\ Reloaded(Hyperopt["runs"])
    BY ReloadForms DEF Hyperopt, Mounted
  <2> QED
    BY <2>1, <2>2
<1>5. "items" \in DOMAIN SavedBacktests /\ Chains(SavedBacktests, "items") /\ Reloaded(SavedBacktests["items"])
  <2>1. Chains(SavedBacktests, "items")
    BY EndForms, FlagForms, ThenForms DEF Chains, SavedBacktests
  <2>2. "items" \in DOMAIN SavedBacktests /\ Reloaded(SavedBacktests["items"])
    BY ReloadForms DEF SavedBacktests, Refreshed
  <2> QED
    BY <2>1, <2>2
<1>6. "items" \in DOMAIN FreqaiModels /\ Chains(FreqaiModels, "items") /\ Reloaded(FreqaiModels["items"])
  <2>1. Chains(FreqaiModels, "items")
    BY EndForms, FlagForms, ThenForms DEF Chains, FreqaiModels
  <2>2. "items" \in DOMAIN FreqaiModels /\ Reloaded(FreqaiModels["items"])
    BY ReloadForms DEF FreqaiModels, Refreshed
  <2> QED
    BY <2>1, <2>2
<1>7. "tables" \in DOMAIN RlLite /\ Chains(RlLite, "tables") /\ Reloaded(RlLite["tables"])
  <2>1. Chains(RlLite, "tables")
    BY EndForms, FlagForms, ThenForms DEF Chains, RlLite
  <2>2. "tables" \in DOMAIN RlLite /\ Reloaded(RlLite["tables"])
    BY ReloadForms DEF RlLite, Mounted
  <2> QED
    BY <2>1, <2>2
<1>8. "items" \in DOMAIN Notifications /\ Chains(Notifications, "items") /\ Reloaded(Notifications["items"])
  <2>1. Chains(Notifications, "items")
    BY EndForms, FlagForms, ThenForms DEF Chains, Notifications
  <2>2. "items" \in DOMAIN Notifications /\ Reloaded(Notifications["items"])
    BY ReloadForms DEF Notifications
  <2> QED
    BY <2>1, <2>2
<1>9. "events" \in DOMAIN EventCalendar /\ Chains(EventCalendar, "events") /\ Reloaded(EventCalendar["events"])
  <2>1. Chains(EventCalendar, "events")
    BY EndForms, FlagForms, ThenForms DEF Chains, EventCalendar
  <2>2. "events" \in DOMAIN EventCalendar /\ Reloaded(EventCalendar["events"])
    BY ReloadForms DEF EventCalendar
  <2> QED
    BY <2>1, <2>2
<1>10. "items" \in DOMAIN Webhooks /\ Chains(Webhooks, "items") /\ Reloaded(Webhooks["items"])
  <2>1. Chains(Webhooks, "items")
    BY EndForms, FlagForms, ThenForms DEF Chains, Webhooks
  <2>2. "items" \in DOMAIN Webhooks /\ Reloaded(Webhooks["items"])
    BY ReloadForms DEF Webhooks, Mounted
  <2> QED
    BY <2>1, <2>2
<1>11. "profile" \in DOMAIN AccountProfile /\ Chains(AccountProfile, "profile") /\ Reloaded(AccountProfile["profile"])
  <2>1. Chains(AccountProfile, "profile")
    BY EndForms, FlagForms, ThenForms DEF Chains, AccountProfile
  <2>2. "profile" \in DOMAIN AccountProfile /\ Reloaded(AccountProfile["profile"])
    BY ReloadForms DEF AccountProfile, Mounted
  <2> QED
    BY <2>1, <2>2
<1>12. "rows" \in DOMAIN SessionsList /\ Chains(SessionsList, "rows") /\ Reloaded(SessionsList["rows"])
  <2>1. Chains(SessionsList, "rows")
    BY EndForms, FlagForms, ThenForms DEF Chains, SessionsList
  <2>2. "rows" \in DOMAIN SessionsList /\ Reloaded(SessionsList["rows"])
    BY ReloadForms DEF SessionsList, Mounted
  <2> QED
    BY <2>1, <2>2
<1>13. "list" \in DOMAIN FeaturePage /\ Chains(FeaturePage, "list") /\ Reloaded(FeaturePage["list"])
  <2>1. Chains(FeaturePage, "list")
    BY EndForms, FlagForms, ThenForms DEF Chains, FeaturePage
  <2>2. "list" \in DOMAIN FeaturePage /\ Reloaded(FeaturePage["list"])
    BY ReloadForms DEF FeaturePage
  <2> QED
    BY <2>1, <2>2
<1>14. "themes" \in DOMAIN Themes /\ Chains(Themes, "themes") /\ Reloaded(Themes["themes"])
  <2>1. Chains(Themes, "themes")
    BY EndForms, FlagForms, ThenForms DEF Chains, Themes
  <2>2. "themes" \in DOMAIN Themes /\ Reloaded(Themes["themes"])
    BY ReloadForms DEF Themes
  <2> QED
    BY <2>1, <2>2
<1>15. "alerts" \in DOMAIN ThemeAlerts /\ Chains(ThemeAlerts, "alerts") /\ Reloaded(ThemeAlerts["alerts"])
  <2>1. Chains(ThemeAlerts, "alerts")
    BY EndForms, FlagForms, ThenForms DEF Chains, ThemeAlerts
  <2>2. "alerts" \in DOMAIN ThemeAlerts /\ Reloaded(ThemeAlerts["alerts"])
    BY ReloadForms DEF ThemeAlerts
  <2> QED
    BY <2>1, <2>2
<1>16. "list" \in DOMAIN MarketNews /\ Chains(MarketNews, "list") /\ Reloaded(MarketNews["list"])
  <2>1. Chains(MarketNews, "list")
    BY EndForms, FlagForms, ThenForms DEF Chains, MarketNews
  <2>2. "list" \in DOMAIN MarketNews /\ Reloaded(MarketNews["list"])
    BY ReloadForms DEF MarketNews
  <2> QED
    BY <2>1, <2>2
<1> QED
  BY <1>1, <1>2, <1>3, <1>4, <1>5, <1>6, <1>7, <1>8, <1>9, <1>10, <1>11, <1>12, <1>13, <1>14, <1>15, <1>16

\* A page whose handlers go on with k, or with m, those that wait for it under the flag.
Waits(p, m, k, flag) ==
    \A n \in DOMAIN p : Steady(p[n]) /\ (Ends(p[n]) \/ Goes(p[n], {m}) \/ Goes(p[n], {k}) \/ Holds(p[n], {m}, flag))
WaitedFor(p, m, flag) ==
    /\ m \in DOMAIN p /\ Reloaded(p[m]) /\ Kept(p[m])
    /\ flag # Open => p[m].lock \in {Open, flag}

\* The pages where the reload keeps the flag of the request that asked for it.
LEMMA WaitingPages ==
    \A p \in {AlpacaTrading, BrokerGovernance, StrategyEditor, AIWorkspace, StrategyAb, FreqaiSidecar, Docs} : \E m, k \in DOMAIN p : \E flag :
        Waits(p, m, k, flag) /\ WaitedFor(p, m, flag) /\ Reloaded(p[k]) /\ ~p[m].waits
<1>1. Waits(AlpacaTrading, "account", "account", Open) /\ WaitedFor(AlpacaTrading, "account", Open) /\ "account" \in DOMAIN AlpacaTrading /\ Reloaded(AlpacaTrading["account"]) /\ ~AlpacaTrading["account"].waits
  <2>1. Waits(AlpacaTrading, "account", "account", Open)
    BY EndForms, FlagForms, ThenForms, HoldForms DEF Waits, AlpacaTrading
  <2>2. WaitedFor(AlpacaTrading, "account", Open) /\ "account" \in DOMAIN AlpacaTrading /\ Reloaded(AlpacaTrading["account"])
    BY ReloadForms, IdleForms DEF WaitedFor, Open, AlpacaTrading, Refreshed
  <2>3. ~AlpacaTrading["account"].waits
    BY EndForms, FlagForms, ThenForms DEF Ends, Goes, AlpacaTrading
  <2> QED
    BY <2>1, <2>2, <2>3
<1>2. Waits(BrokerGovernance, "state", "state", "busy") /\ WaitedFor(BrokerGovernance, "state", "busy") /\ "state" \in DOMAIN BrokerGovernance /\ Reloaded(BrokerGovernance["state"]) /\ ~BrokerGovernance["state"].waits
  <2>1. Waits(BrokerGovernance, "state", "state", "busy")
    BY EndForms, FlagForms, ThenForms, HoldForms DEF Waits, BrokerGovernance
  <2>2. WaitedFor(BrokerGovernance, "state", "busy") /\ "state" \in DOMAIN BrokerGovernance /\ Reloaded(BrokerGovernance["state"])
    BY ReloadForms, IdleForms DEF WaitedFor, Open, BrokerGovernance, Refreshed
  <2>3. ~BrokerGovernance["state"].waits
    BY EndForms, FlagForms, ThenForms DEF Ends, Goes, BrokerGovernance
  <2> QED
    BY <2>1, <2>2, <2>3
<1>3. Waits(StrategyEditor, "list", "list", "busy") /\ WaitedFor(StrategyEditor, "list", "busy") /\ "list" \in DOMAIN StrategyEditor /\ Reloaded(StrategyEditor["list"]) /\ ~StrategyEditor["list"].waits
  <2>1. Waits(StrategyEditor, "list", "list", "busy")
    BY EndForms, FlagForms, ThenForms, HoldForms, SMTT(20) DEF Waits, StrategyEditor
  <2>2. WaitedFor(StrategyEditor, "list", "busy") /\ "list" \in DOMAIN StrategyEditor /\ Reloaded(StrategyEditor["list"])
    BY ReloadForms, IdleForms DEF WaitedFor, Open, StrategyEditor, Mounted
  <2>3. ~StrategyEditor["list"].waits
    BY EndForms, FlagForms, ThenForms DEF Ends, Goes, StrategyEditor
  <2> QED
    BY <2>1, <2>2, <2>3
<1>4. Waits(AIWorkspace, "history", "history", "request") /\ WaitedFor(AIWorkspace, "history", "request") /\ "history" \in DOMAIN AIWorkspace /\ Reloaded(AIWorkspace["history"]) /\ ~AIWorkspace["history"].waits
  <2>1. Waits(AIWorkspace, "history", "history", "request")
    BY EndForms, FlagForms, ThenForms, HoldForms DEF Waits, AIWorkspace
  <2>2. WaitedFor(AIWorkspace, "history", "request") /\ "history" \in DOMAIN AIWorkspace /\ Reloaded(AIWorkspace["history"])
    BY ReloadForms, IdleForms DEF WaitedFor, Open, AIWorkspace
  <2>3. ~AIWorkspace["history"].waits
    BY EndForms, FlagForms, ThenForms DEF Ends, Goes, AIWorkspace
  <2> QED
    BY <2>1, <2>2, <2>3
<1>5. Waits(StrategyAb, "runs", "trades", "busy") /\ WaitedFor(StrategyAb, "runs", "busy") /\ "trades" \in DOMAIN StrategyAb /\ Reloaded(StrategyAb["trades"]) /\ ~StrategyAb["runs"].waits
  <2>1. Waits(StrategyAb, "runs", "trades", "busy")
    BY EndForms, FlagForms, ThenForms, HoldForms DEF Waits, StrategyAb
  <2>2. WaitedFor(StrategyAb, "runs", "busy") /\ "trades" \in DOMAIN StrategyAb /\ Reloaded(StrategyAb["trades"])
    BY ReloadForms, IdleForms DEF WaitedFor, Open, StrategyAb
  <2>3. ~StrategyAb["runs"].waits
    BY EndForms, FlagForms, ThenForms DEF Ends, Goes, StrategyAb
  <2> QED
    BY <2>1, <2>2, <2>3
<1>6. Waits(FreqaiSidecar, "status", "models", Open) /\ WaitedFor(FreqaiSidecar, "status", Open) /\ "models" \in DOMAIN FreqaiSidecar /\ Reloaded(FreqaiSidecar["models"]) /\ ~FreqaiSidecar["status"].waits
  <2>1. Waits(FreqaiSidecar, "status", "models", Open)
    BY EndForms, FlagForms, ThenForms, HoldForms DEF Waits, FreqaiSidecar
  <2>2. WaitedFor(FreqaiSidecar, "status", Open) /\ "models" \in DOMAIN FreqaiSidecar /\ Reloaded(FreqaiSidecar["models"])
    BY ReloadForms, IdleForms DEF WaitedFor, Open, FreqaiSidecar, Refreshed
  <2>3. ~FreqaiSidecar["status"].waits
    BY EndForms, FlagForms, ThenForms DEF Ends, Goes, FreqaiSidecar
  <2> QED
    BY <2>1, <2>2, <2>3
<1>7. Waits(Docs, "toc", "page", "refreshing") /\ WaitedFor(Docs, "toc", "refreshing") /\ "page" \in DOMAIN Docs /\ Reloaded(Docs["page"]) /\ ~Docs["toc"].waits
  <2>1. Waits(Docs, "toc", "page", "refreshing")
    BY EndForms, FlagForms, ThenForms, HoldForms, SMTT(20) DEF Waits, Docs
  <2>2. WaitedFor(Docs, "toc", "refreshing") /\ "page" \in DOMAIN Docs /\ Reloaded(Docs["page"])
    BY ReloadForms, IdleForms DEF WaitedFor, Open, Docs
  <2>3. ~Docs["toc"].waits
    BY EndForms, FlagForms, ThenForms DEF Ends, Goes, Docs
  <2> QED
    BY <2>1, <2>2, <2>3
<1> QED
  BY <1>1, <1>2, <1>3, <1>4, <1>5, <1>6, <1>7 DEF WaitedFor

\* How the parts of a page fit together.  What sets a flag is never thrown away.  What a
\* handler goes on with is a part of the page that not only a button starts; and when the
\* handler keeps its flag meanwhile, one part, whose answer is never thrown away and which
\* neither waits in its turn nor sets another flag.
FitsTogether(p) ==
    \A n \in DOMAIN p :
        /\ Steady(p[n])
        /\ \A m \in p[n].next :
              /\ m \in DOMAIN p /\ Reloaded(p[m])
              /\ p[n].waits => /\ p[n].next = {m} /\ Kept(p[m]) /\ ~p[m].waits
                               /\ p[n].lock # Open => p[m].lock \in {Open, p[n].lock}

\* Whatever the page, its flags, reloads and guards fit together.
LEMMA PagesFitTogether == \A p \in Pages : FitsTogether(p)
<1>1. \A p : Plain(p) => FitsTogether(p)
  BY DEF Plain, Ends, FitsTogether
<1>2. \A p : (\E m \in DOMAIN p : Chains(p, m) /\ Reloaded(p[m])) => FitsTogether(p)
  BY DEF Chains, Ends, Goes, FitsTogether
<1>3. ASSUME NEW p, NEW m \in DOMAIN p, NEW k \in DOMAIN p, NEW flag,
             Waits(p, m, k, flag), WaitedFor(p, m, flag), Reloaded(p[k]), ~p[m].waits
      PROVE  FitsTogether(p)
  BY <1>3 DEF Waits, WaitedFor, Ends, Goes, Holds, FitsTogether
<1> QED
  BY <1>1, <1>2, <1>3, PlainPages, ChainedPages, WaitingPages DEF Pages

\* The parts that follow the selection are asked for when it changes, and guarded.
LEMMA FollowingParts ==
    \A p, n : <<p, n>> \in Following =>
        n \in DOMAIN p /\ "key" \in p[n].on /\ p[n].guard # "none" /\ p[n].kind = "load"
<1>1. \A on : /\ Guarded(on).on = on /\ Guarded(on).guard # "none" /\ Guarded(on).kind = "load"
              /\ Query(on).on = on /\ Query(on).guard # "none" /\ Query(on).kind = "load"
              /\ Latest(on).on = on /\ Latest(on).guard # "none" /\ Latest(on).kind = "load"
              /\ \A m : /\ Then(Guarded(on), m).on = on /\ Then(Guarded(on), m).guard # "none" /\ Then(Guarded(on), m).kind = "load"
                        /\ Maybe(Guarded(on), m).on = on /\ Maybe(Guarded(on), m).guard # "none" /\ Maybe(Guarded(on), m).kind = "load"
  BY DEF Guarded, Query, Latest, Request, Then, Maybe
<1>2. /\ "list" \in DOMAIN TradeReplay /\ "key" \in TradeReplay["list"].on /\ TradeReplay["list"].guard # "none" /\ TradeReplay["list"].kind = "load"
      /\ "detail" \in DOMAIN TradeReplay /\ "key" \in TradeReplay["detail"].on /\ TradeReplay["detail"].guard # "none" /\ TradeReplay["detail"].kind = "load"
  BY <1>1 DEF TradeReplay
<1>3. "hvInfo" \in DOMAIN StrategyLabTests /\ "key" \in StrategyLabTests["hvInfo"].on /\ StrategyLabTests["hvInfo"].guard # "none" /\ StrategyLabTests["hvInfo"].kind = "load"
  BY <1>1 DEF StrategyLabTests
<1>4. "positions" \in DOMAIN StrategyLabTrader /\ "key" \in StrategyLabTrader["positions"].on /\ StrategyLabTrader["positions"].guard # "none" /\ StrategyLabTrader["positions"].kind = "load"
  BY <1>1 DEF StrategyLabTrader
<1>5. "selected" \in DOMAIN Hyperopt /\ "key" \in Hyperopt["selected"].on /\ Hyperopt["selected"].guard # "none" /\ Hyperopt["selected"].kind = "load"
  BY <1>1 DEF Hyperopt
<1>6. "alerts" \in DOMAIN ThemeAlerts /\ "key" \in ThemeAlerts["alerts"].on /\ ThemeAlerts["alerts"].guard # "none" /\ ThemeAlerts["alerts"].kind = "load"
  BY <1>1 DEF ThemeAlerts
<1>7. "page" \in DOMAIN Docs /\ "key" \in Docs["page"].on /\ Docs["page"].guard # "none" /\ Docs["page"].kind = "load"
  BY <1>1 DEF Docs
<1>8. "candles" \in DOMAIN TradingChart /\ "key" \in TradingChart["candles"].on /\ TradingChart["candles"].guard # "none" /\ TradingChart["candles"].kind = "load"
  BY <1>1 DEF TradingChart
<1> QED
  BY <1>2, <1>3, <1>4, <1>5, <1>6, <1>7, <1>8 DEF Following

-----------------------------------------------------------------------------

CallSet == [id : Nat, what : Parts, key : Selections, read : {Unread} \union Nat, frees : {Open} \union Flags(Parts)]

PagesTyped ==
    /\ page \in Pages /\ selection \in Selections
    /\ calls \subseteq CallSet
    /\ shown \in [Parts -> {Blank} \union [key : Selections, version : Nat]]
    /\ version \in Nat /\ confirmed \in [Parts -> Nat] /\ starts \in Nat

Exclusive(flag) == \A n \in Parts : page[n].lock = flag => page[n].gate = flag /\ page[n].on \subseteq {"press"}

\* A request that clears a flag is one whose answer nothing throws away, and clears its own
\* flag if it waits; a flag that is set is cleared by a request; two requests that clear an
\* exclusive one are the same, and while it is in flight the flag is set.
FlagsBacked ==
    /\ \A c \in calls : /\ c.frees # Open => Kept(page[c.what])
                        /\ page[c.what].waits => c.frees = page[c.what].lock
    /\ \A flag \in held : flag # Open /\ \E c \in calls : c.frees = flag
    /\ \A c, d \in calls : (c.frees = d.frees /\ c.frees # Open /\ Exclusive(c.frees)) => c = d /\ c.frees \in held

InFlight(n) == \E c \in calls : c.what = n

\* What a part that follows the selection asks for is what is selected; it shows that, or
\* failed, or asks again.
FollowersAsk ==
    \A n \in Parts : <<page, n>> \in Following =>
        /\ \A c \in calls : c.what = n => c.key = selection
        /\ shown[n] = Blank \/ shown[n].key = selection \/ n \in failed \/ InFlight(n)

\* No list of React Query is ahead of the server; what it asked for after a write was
\* confirmed contains the write; it shows that, or failed, or asks again.
ListsFollowWrites ==
    /\ \A c \in calls : c.read # Unread => c.read <= version
    /\ \A n \in Parts : confirmed[n] <= version
    /\ \A n \in Parts : page[n].guard = "query" =>
        /\ \A c \in calls : (c.what = n /\ c.read # Unread) => c.read >= confirmed[n]
        /\ shown[n] = Blank \/ shown[n].version >= confirmed[n] \/ n \in failed \/ InFlight(n)

PageInv == PagesTyped /\ FlagsBacked /\ FollowersAsk /\ ListsFollowWrites

-----------------------------------------------------------------------------

\* What joins the requests in flight, and what is left of them.
LEMMA BeginIs ==
    ASSUME PagesTyped, starts' \in Nat, NEW cs \in SUBSET CallSet, NEW parts \in SUBSET Parts,
           NEW key \in Selections, NEW frees, \A n \in parts : frees[n] \in {Open} \union Flags(Parts)
    PROVE  LET now == Begin(cs, parts, key, frees) IN
           /\ now \subseteq CallSet
           /\ \A c \in now : \/ c \in cs
                             \/ c.what \in parts /\ c.key = key /\ c.read = Unread /\ c.frees = frees[c.what]
           /\ \A c \in cs : c \in now \/ (c.what \in parts /\ ~Kept(page[c.what]))
           /\ \A n \in parts : \E c \in now : c.what = n /\ c.frees = frees[n]
           /\ \A c \in now : (c.what \in parts /\ page[c.what].guard = "query") => c.read = Unread
<1> DEFINE fresh == {[id |-> starts', what |-> n, key |-> key, read |-> Unread, frees |-> frees[n]] : n \in parts}
           now == Begin(cs, parts, key, frees)
<1>1. now = (cs \ Superseded(cs, parts)) \union fresh
  BY DEF Begin
<1>2. \A c \in fresh : c \in CallSet /\ c.what \in parts /\ c.key = key /\ c.read = Unread /\ c.frees = frees[c.what]
  BY DEF CallSet
<1>3. \A n \in parts : \E c \in fresh : c.what = n /\ c.frees = frees[n]
  <2> TAKE n \in parts
  <2> DEFINE c == [id |-> starts', what |-> n, key |-> key, read |-> Unread, frees |-> frees[n]]
  <2>1. c \in fresh /\ c.what = n /\ c.frees = frees[n]
    OBVIOUS
  <2> QED
    BY <2>1
<1>4. \A c \in Superseded(cs, parts) : c \in cs /\ c.what \in parts /\ ~Kept(page[c.what])
  BY DEF Superseded, Kept
<1>5. \A c \in cs : (c.what \in parts /\ page[c.what].guard = "query") => c \in Superseded(cs, parts)
  BY DEF Superseded
<1> HIDE DEF fresh, now
<1> QED
  BY <1>1, <1>2, <1>3, <1>4, <1>5 DEF now

\* The flags that requests take.
LEMMA OwnFlags ==
    ASSUME NEW parts \in SUBSET Parts
    PROVE  /\ \A n \in parts : OwnFlag(parts)[n] = page[n].lock /\ page[n].lock \in {Open} \union Flags(Parts)
           /\ \A flag : flag \in Flags(parts) <=> flag # Open /\ \E n \in parts : page[n].lock = flag
BY DEF OwnFlag, Flags

\* A page is mounted with its loads in flight and their flags held.
LEMMA PageInit_Inv == pageInit => PageInv
<1> SUFFICES ASSUME pageInit PROVE PageInv
  OBVIOUS
<1> USE DEF pageInit
<1>1. PagesTyped
  <2>1. calls \subseteq CallSet
    BY DEF CallSet, Flags, On
  <2>2. shown \in [Parts -> {Blank} \union [key : Selections, version : Nat]]
    OBVIOUS
  <2> QED
    BY <2>1, <2>2 DEF PagesTyped
<1>2. FitsTogether(page)
  BY PagesFitTogether
<1>3. \A c \in calls : c.what \in On("mount") /\ c.key = selection /\ c.read = Unread /\ c.frees = page[c.what].lock
  OBVIOUS
<1>4. \A n \in On("mount") : \E c \in calls : c.what = n /\ c.frees = page[n].lock
  <2> TAKE n \in On("mount")
  <2> DEFINE c == [id |-> 0, what |-> n, key |-> selection, read |-> Unread, frees |-> page[n].lock]
  <2>1. c \in calls /\ c.what = n /\ c.frees = page[n].lock
    OBVIOUS
  <2> QED
    BY <2>1
<1>5. FlagsBacked
  <2>1. \A c \in calls : /\ c.frees # Open => Kept(page[c.what])
                         /\ page[c.what].waits => c.frees = page[c.what].lock
    BY <1>2, <1>3 DEF FitsTogether, Steady, On, Parts
  <2>2. \A flag \in held : flag # Open /\ \E c \in calls : c.frees = flag
    BY <1>4 DEF Flags
  <2>3. \A c \in calls : ~Exclusive(c.frees)
    BY <1>3 DEF Exclusive, On
  <2> QED
    BY <2>1, <2>2, <2>3 DEF FlagsBacked
<1>6. FollowersAsk
  BY <1>3 DEF FollowersAsk
<1>7. ListsFollowWrites
  BY <1>3 DEF ListsFollowWrites
<1> QED
  BY <1>1, <1>5, <1>6, <1>7 DEF PageInv

\* What starting requests does to the flags, when none of them is for an exclusive flag that
\* is set: the requests left of cs are in flight already, or were, with the flags in held.
LEMMA StartKeepsFlags ==
    ASSUME PageInv, UNCHANGED page, starts' \in Nat,
           NEW cs \in SUBSET calls, \A c \in calls : c \in cs \/ ~Kept(page[c.what]),
           NEW parts \in SUBSET Parts, NEW key \in Selections, Start(cs, parts, key),
           \A n, m \in parts : n = m \/ ~Exclusive(page[n].lock),
           \A n \in parts : Exclusive(page[n].lock) => page[n].lock \notin held
    PROVE  FlagsBacked'
<1> USE DEF PageInv
<1>0. cs \subseteq CallSet /\ page \in Pages /\ Parts' = Parts /\ FitsTogether(page)
  BY PagesFitTogether DEF PagesTyped, Parts
<1>1. calls' = Begin(cs, parts, key, OwnFlag(parts)) /\ held' = held \union Flags(parts)
  BY DEF Start
<1>2. /\ \A c \in calls' : \/ c \in cs
                           \/ c.what \in parts /\ c.frees = page[c.what].lock
      /\ \A c \in cs : c \in calls' \/ ~Kept(page[c.what])
      /\ \A n \in parts : \E c \in calls' : c.what = n /\ c.frees = page[n].lock
  BY <1>0, <1>1, BeginIs, OwnFlags
<1>3. \A c \in calls' : /\ c.frees # Open => Kept(page[c.what])
                        /\ page[c.what].waits => c.frees = page[c.what].lock
  BY <1>0, <1>2 DEF FlagsBacked, FitsTogether, Steady, Parts
<1>4. \A flag \in held' : flag # Open /\ \E c \in calls' : c.frees = flag
  <2> SUFFICES ASSUME NEW flag \in held' PROVE flag # Open /\ \E c \in calls' : c.frees = flag
    OBVIOUS
  <2>1. CASE flag \in held
    <3>1. flag # Open
      BY <2>1 DEF FlagsBacked
    <3>2. PICK c \in calls : c.frees = flag
      BY <2>1 DEF FlagsBacked
    <3>3. c \in calls'
      BY <1>2, <3>1, <3>2 DEF FlagsBacked
    <3> QED
      BY <3>1, <3>2, <3>3
  <2>2. CASE flag \in Flags(parts)
    BY <1>2, <2>2, OwnFlags
  <2> QED
    BY <1>1, <2>1, <2>2
<1>5. ASSUME NEW c \in calls', NEW d \in calls', c.frees = d.frees, c.frees # Open, Exclusive(c.frees)
      PROVE  c = d /\ c.frees \in held'
  <2>1. CASE c \in cs /\ d \in cs
    BY <1>1, <1>5, <2>1 DEF FlagsBacked
  <2>2. CASE c \in cs /\ d \notin cs
    BY <1>2, <1>5, <2>2 DEF FlagsBacked
  <2>3. CASE c \notin cs /\ d \in cs
    BY <1>2, <1>5, <2>3 DEF FlagsBacked
  <2>4. CASE c \notin cs /\ d \notin cs
    <3>1. c.what \in parts /\ d.what \in parts /\ c.what = d.what /\ c.frees = page[c.what].lock
      BY <1>2, <1>5, <2>4
    <3>2. c.frees \in Flags(parts)
      BY <1>5, <3>1, OwnFlags
    <3>3. c = d
      BY <1>1, <2>4, <3>1 DEF Begin, OwnFlag
    <3> QED
      BY <1>1, <3>2, <3>3
  <2> QED
    BY <2>1, <2>2, <2>3, <2>4
<1>6. \A flag : Exclusive(flag)' <=> Exclusive(flag)
  BY <1>0 DEF Exclusive
<1> QED
  BY <1>3, <1>4, <1>5, <1>6 DEF FlagsBacked

\* What a handler does that goes on with parts.
Frees(c, parts) ==
    [n \in parts |-> IF page[c.what].waits /\ parts # {} /\ c.frees # Open THEN c.frees ELSE page[n].lock]

\* What a request that ends starts, and the flags that leaves.
LEMMA ContinueIs ==
    ASSUME PageInv, NEW c \in calls, NEW parts \in SUBSET page[c.what].next, Continue(c, parts)
    PROVE  /\ parts \in SUBSET Parts /\ starts' \in Nat
           /\ held' = (held \ (IF page[c.what].waits /\ parts # {} THEN {} ELSE {c.frees})) \union Flags(parts)
           /\ calls' \subseteq CallSet
           /\ \A d \in calls' :
                \/ d \in calls \ {c}
                \/ /\ d.what \in parts /\ d.read = Unread /\ d.frees = Frees(c, parts)[d.what]
                   /\ d.key = selection \/ \A n \in parts : page[n].guard = "none"
           /\ \A d \in calls \ {c} : d \in calls' \/ (d.what \in parts /\ ~Kept(page[d.what]))
           /\ \A n \in parts : \E d \in calls' : d.what = n /\ d.frees = Frees(c, parts)[n]
           /\ \A d \in calls' : (d.what \in parts /\ page[d.what].guard = "query") => d.read = Unread
<1> USE DEF PageInv
<1>1. FitsTogether(page) /\ c \in CallSet /\ c.what \in Parts /\ c.key \in Selections
  BY PagesFitTogether DEF PagesTyped, CallSet
<1>2. parts \in SUBSET Parts
  BY <1>1 DEF FitsTogether, Parts
<1>3. starts' \in Nat
  BY DEF Continue, Counted, PagesTyped
<1> DEFINE key == IF \E n \in parts : page[n].guard # "none" THEN selection ELSE c.key
<1>4. key \in Selections /\ (key = selection \/ \A n \in parts : page[n].guard = "none")
  BY <1>1 DEF PagesTyped
<1>5. calls' = Begin(calls \ {c}, parts, key, Frees(c, parts))
  BY DEF Continue, Frees
<1>6. calls \ {c} \in SUBSET CallSet
  BY DEF PagesTyped
<1>7. \A n \in parts : Frees(c, parts)[n] \in {Open} \union Flags(Parts)
  BY <1>1, <1>2 DEF Frees, Flags, CallSet
<1>8. held' = (held \ (IF page[c.what].waits /\ parts # {} THEN {} ELSE {c.frees})) \union Flags(parts)
  BY DEF Continue
<1> HIDE DEF key
<1> QED
  BY <1>2, <1>3, <1>4, <1>5, <1>6, <1>7, <1>8, BeginIs

\* A flag outlives a request only under the reload that waits for it.
LEMMA ContinueKeepsFlags ==
    ASSUME PageInv, UNCHANGED page, NEW c \in calls, NEW parts \in SUBSET page[c.what].next, Continue(c, parts)
    PROVE  FlagsBacked'
<1> USE DEF PageInv
<1> DEFINE waits == page[c.what].waits /\ parts # {}
<1>0. page \in Pages /\ Parts' = Parts /\ FitsTogether(page) /\ c.what \in Parts
  BY PagesFitTogether DEF PagesTyped, Parts, CallSet
<1>1. /\ parts \in SUBSET Parts
      /\ held' = (held \ (IF waits THEN {} ELSE {c.frees})) \union Flags(parts)
      /\ \A d \in calls' : d \in calls \ {c} \/ (d.what \in parts /\ d.frees = Frees(c, parts)[d.what])
      /\ \A d \in calls \ {c} : d \in calls' \/ ~Kept(page[d.what])
      /\ \A n \in parts : \E d \in calls' : d.what = n /\ d.frees = Frees(c, parts)[n]
  BY ContinueIs
<1>2. \A n \in parts : ~Exclusive(page[n].lock) /\ Steady(page[n])
  BY <1>0, <1>1 DEF FitsTogether, Reloaded, Exclusive, Parts
<1>3. \A n \in parts : Frees(c, parts)[n] = IF waits /\ c.frees # Open THEN c.frees ELSE page[n].lock
  BY DEF Frees
<1>4. waits => \E m \in parts : /\ parts = {m} /\ Kept(page[m]) /\ ~page[m].waits
                                /\ c.frees # Open => page[m].lock \in {Open, c.frees}
  BY <1>0 DEF FitsTogether, FlagsBacked, Parts
<1> HIDE DEF waits
<1>5. ASSUME NEW d \in calls'
      PROVE  /\ d.frees # Open => Kept(page[d.what])
             /\ page[d.what].waits => d.frees = page[d.what].lock
  BY <1>1, <1>2, <1>3, <1>4 DEF FlagsBacked, Steady
<1>6. ASSUME NEW flag \in held' PROVE flag # Open /\ \E d \in calls' : d.frees = flag
  <2>1. CASE flag \in held /\ (waits \/ flag # c.frees)
    <3>1. flag # Open
      BY <2>1 DEF FlagsBacked
    <3>2. PICK d \in calls : d.frees = flag
      BY <2>1 DEF FlagsBacked
    <3>3. CASE d # c
      BY <1>1, <3>1, <3>2, <3>3 DEF FlagsBacked
    <3>4. CASE d = c
      BY <1>1, <1>3, <1>4, <2>1, <3>1, <3>2, <3>4
    <3> QED
      BY <3>1, <3>3, <3>4
  <2>2. CASE flag \in Flags(parts)
    <3>1. flag # Open /\ \E n \in parts : page[n].lock = flag
      BY <2>2 DEF Flags
    <3>2. \A n \in parts : page[n].lock = flag => Frees(c, parts)[n] = flag
      BY <1>3, <1>4, <3>1
    <3> QED
      BY <1>1, <3>1, <3>2
  <2> QED
    BY <1>1, <2>1, <2>2
<1>7. ASSUME NEW d \in calls', NEW e \in calls', d.frees = e.frees, d.frees # Open, Exclusive(d.frees)
      PROVE  d = e /\ d.frees \in held'
  <2>1. CASE d \in calls \ {c} /\ e \in calls \ {c}
    <3>1. d = e /\ d.frees \in held
      BY <1>7, <2>1 DEF FlagsBacked
    <3>2. d.frees # c.frees
      BY <1>7, <2>1 DEF FlagsBacked
    <3> QED
      BY <1>1, <3>1, <3>2
  <2>2. ASSUME NEW f \in calls', f \notin calls \ {c}, f.frees = d.frees
        PROVE  waits /\ c.frees = f.frees /\ f.what \in parts
    BY <1>1, <1>2, <1>3, <1>7, <2>2
  <2>3. \A f \in calls \ {c} : c.frees # d.frees \/ f.frees # d.frees
    BY <1>7 DEF FlagsBacked
  <2>4. CASE d \notin calls \ {c}
    <3>1. e \notin calls \ {c}
      BY <1>7, <2>2, <2>3, <2>4
    <3>2. d.what = e.what
      BY <1>4, <1>7, <2>2, <2>4, <3>1
    <3>3. d = e
      BY <1>7, <2>4, <3>1, <3>2 DEF Continue, Begin
    <3>4. c.frees \in held
      BY <1>7, <2>2, <2>4 DEF FlagsBacked
    <3> QED
      BY <1>1, <2>2, <2>4, <3>3, <3>4
  <2>5. CASE e \notin calls \ {c}
    BY <1>7, <2>2, <2>3, <2>4, <2>5
  <2> QED
    BY <2>1, <2>4, <2>5
<1>8. \A flag : Exclusive(flag)' <=> Exclusive(flag)
  BY <1>0 DEF Exclusive
<1> QED
  BY <1>5, <1>6, <1>7, <1>8 DEF FlagsBacked

\* Every flag that is held has its request in flight, after any step.
LEMMA PageNext_Flags == PageInv /\ [pageNext]_pageVars => FlagsBacked'
<1> SUFFICES ASSUME PageInv, [pageNext]_pageVars PROVE FlagsBacked'
  OBVIOUS
<1>0. page \in Pages /\ page' = page /\ FitsTogether(page) /\ starts \in Nat /\ Parts' = Parts
  <2>1. page' = page
    BY DEF pageNext, pageVars, Select, Poll, Press, Serve, Answer, Fail
  <2> QED
    BY <2>1, PagesFitTogether DEF PageInv, PagesTyped, Parts
<1>1. ASSUME NEW s \in Selections, Select(s) PROVE FlagsBacked'
  <2>1. starts' \in Nat /\ Start(calls \ Dropped, On("key"), s)
    BY <1>0, <1>1 DEF Select, Counted
  <2>2. \A c \in calls : c \in calls \ Dropped \/ ~Kept(page[c.what])
    BY DEF Dropped, Kept, Keyed
  <2>3. On("key") \in SUBSET Parts /\ \A n \in On("key") : ~Exclusive(page[n].lock)
    BY DEF On, Exclusive
  <2> QED
    BY <1>0, <2>1, <2>2, <2>3, StartKeepsFlags
<1>2. ASSUME NEW n \in Parts, Poll(n) PROVE FlagsBacked'
  <2>1. starts' \in Nat /\ Start(calls, {n}, selection) /\ selection \in Selections
    BY <1>0, <1>2 DEF Poll, Counted, PageInv, PagesTyped
  <2>2. ~Exclusive(page[n].lock)
    BY <1>2 DEF Poll, On, Exclusive
  <2> QED
    BY <1>0, <2>1, <2>2, StartKeepsFlags
<1>3. ASSUME NEW n \in Parts, Press(n) PROVE FlagsBacked'
  <2>1. starts' \in Nat /\ Start(calls, {n}, selection) /\ selection \in Selections
    BY <1>0, <1>3 DEF Press, Counted, PageInv, PagesTyped
  <2>2. Exclusive(page[n].lock) => page[n].lock \notin held
    BY <1>3 DEF Press, On, Exclusive
  <2> QED
    BY <1>0, <2>1, <2>2, StartKeepsFlags
<1>4. ASSUME NEW c \in calls, Serve(c) PROVE FlagsBacked'
  <2> DEFINE to == [c EXCEPT !.read = version']
  <2>1. calls' = (calls \ {c}) \union {to} /\ held' = held
    BY <1>4 DEF Serve
  <2>2. to.what = c.what /\ to.frees = c.frees
    BY DEF PageInv, PagesTyped, CallSet
  <2> HIDE DEF to
  <2>3. \A flag : Exclusive(flag)' <=> Exclusive(flag)
    BY <1>0 DEF Exclusive
  <2> QED
    BY <1>0, <2>1, <2>2, <2>3 DEF PageInv, FlagsBacked
<1>5. ASSUME NEW c \in calls, Answer(c) PROVE FlagsBacked'
  <2>1. PICK parts \in {page[c.what].next} \union (IF page[c.what].maybe THEN {{}} ELSE {}) : Continue(c, parts)
    BY <1>5 DEF Answer
  <2>2. parts \in SUBSET page[c.what].next
    OBVIOUS
  <2> QED
    BY <1>0, <2>1, <2>2, ContinueKeepsFlags
<1>6. ASSUME NEW c \in calls, Fail(c) PROVE FlagsBacked'
  <2>1. CASE page[c.what].despite
    BY <1>0, <1>6, <2>1, ContinueKeepsFlags DEF Fail
  <2>2. CASE ~page[c.what].despite
    <3>1. calls' = calls \ {c} /\ held' = held \ {c.frees}
      BY <1>6, <2>2 DEF Fail, HeldAfterFailure
    <3>2. \A flag : Exclusive(flag)' <=> Exclusive(flag)
      BY <1>0 DEF Exclusive
    <3> QED
      BY <1>0, <3>1, <3>2 DEF PageInv, FlagsBacked
  <2> QED
    BY <2>1, <2>2
<1>7. ASSUME UNCHANGED pageVars PROVE FlagsBacked'
  BY <1>7 DEF pageVars, PageInv, FlagsBacked, Exclusive, Parts
<1> QED
  BY <1>1, <1>2, <1>3, <1>4, <1>5, <1>6, <1>7 DEF pageNext

\* Every part, request and answer keeps its type.
LEMMA PageNext_Typed == PageInv /\ [pageNext]_pageVars => PagesTyped'
<1> SUFFICES ASSUME PageInv, [pageNext]_pageVars PROVE PagesTyped'
  OBVIOUS
<1> USE DEF PageInv
<1>0. page' = page /\ page \in Pages /\ Parts' = Parts /\ CallSet' = CallSet
  BY DEF pageNext, pageVars, Select, Poll, Press, Serve, Answer, Fail, PagesTyped, Parts, CallSet, Flags
<1>a. ASSUME NEW cs \in SUBSET calls, NEW parts \in SUBSET Parts, NEW key \in Selections, Start(cs, parts, key), starts' \in Nat
      PROVE  calls' \subseteq CallSet
  BY <1>a, BeginIs, OwnFlags DEF Start, PagesTyped
<1>1. ASSUME NEW s \in Selections, Select(s) PROVE PagesTyped'
  <2>1. starts' \in Nat /\ Start(calls \ Dropped, On("key"), s)
    BY <1>0, <1>1 DEF Select, Counted, PagesTyped
  <2>2. calls' \subseteq CallSet
    BY <1>a, <2>1 DEF On
  <2>3. shown' \in [Parts -> {Blank} \union [key : Selections, version : Nat]]
    BY <1>1 DEF Select, PagesTyped
  <2> QED
    BY <1>0, <1>1, <2>1, <2>2, <2>3 DEF Select, PagesTyped
<1>2. ASSUME NEW n \in Parts, Poll(n) \/ Press(n) PROVE PagesTyped'
  <2>1. starts' \in Nat /\ Start(calls, {n}, selection) /\ selection \in Selections
    BY <1>2 DEF Poll, Press, Counted, PagesTyped
  <2>2. calls' \subseteq CallSet
    BY <1>a, <2>1
  <2> QED
    BY <1>0, <1>2, <2>1, <2>2 DEF Poll, Press, PagesTyped
<1>3. ASSUME NEW c \in calls, Serve(c) PROVE PagesTyped'
  <2>1. version' \in Nat
    BY <1>3 DEF Serve, PagesTyped
  <2>2. [c EXCEPT !.read = version'] \in CallSet
    BY <2>1 DEF PagesTyped, CallSet
  <2>3. calls' \subseteq CallSet
    BY <1>3, <2>2 DEF Serve, PagesTyped
  <2> QED
    BY <1>0, <1>3, <2>1, <2>3 DEF Serve, PagesTyped
<1>4. ASSUME NEW c \in calls, Answer(c) PROVE PagesTyped'
  <2>1. PICK parts \in {page[c.what].next} \union (IF page[c.what].maybe THEN {{}} ELSE {}) :
            /\ Continue(c, parts)
            /\ confirmed' = IF page[c.what].kind = "write"
                            THEN [n \in Parts |-> IF n \in parts THEN c.read ELSE confirmed[n]] ELSE confirmed
    BY <1>4 DEF Answer
  <2>2. parts \in SUBSET page[c.what].next
    OBVIOUS
  <2>3. calls' \subseteq CallSet /\ starts' \in Nat
    BY <2>1, <2>2, ContinueIs
  <2>4. c.what \in Parts /\ c.key \in Selections /\ c.read \in Nat
    BY <1>4 DEF Answer, PagesTyped, CallSet
  <2>5. confirmed' \in [Parts -> Nat]
    BY <2>1, <2>4 DEF PagesTyped
  <2>6. [key |-> c.key, version |-> c.read] \in [key : Selections, version : Nat]
    BY <2>4
  <2>7. shown' \in [Parts -> {Blank} \union [key : Selections, version : Nat]]
    BY <1>4, <2>6 DEF Answer, PagesTyped
  <2> QED
    BY <1>0, <1>4, <2>3, <2>5, <2>7 DEF Answer, PagesTyped
<1>5. ASSUME NEW c \in calls, Fail(c) PROVE PagesTyped'
  <2>1. calls' \subseteq CallSet /\ starts' \in Nat
    BY <1>5, ContinueIs DEF Fail, PagesTyped
  <2> QED
    BY <1>0, <1>5, <2>1 DEF Fail, PagesTyped
<1>6. ASSUME UNCHANGED pageVars PROVE PagesTyped'
  BY <1>0, <1>6 DEF pageVars, PagesTyped
<1> QED
  BY <1>1, <1>2, <1>3, <1>4, <1>5, <1>6 DEF pageNext

\* What starting requests does to what is in flight.
Joined(cs, parts, key) ==
    /\ \A c \in calls' : c \in cs \/ (c.what \in parts /\ c.key = key /\ c.read = Unread)
    /\ \A c \in cs : c \in calls' \/ c.what \in parts
    /\ \A n \in parts : \E c \in calls' : c.what = n
    /\ \A c \in calls' : (c.what \in parts /\ page[c.what].guard = "query") => c.read = Unread

\* What starts on a selection, a poll or a press.
LEMMA StartIs ==
    ASSUME PageInv, NEW cs \in SUBSET calls, NEW parts \in SUBSET Parts, NEW key \in Selections,
           Start(cs, parts, key), starts' \in Nat
    PROVE  Joined(cs, parts, key)
BY BeginIs, OwnFlags DEF Start, PageInv, PagesTyped, Joined

\* What follows the selection shows it, or a request for it is in flight.
LEMMA PageNext_Followers == PageInv /\ [pageNext]_pageVars => FollowersAsk'
<1> SUFFICES ASSUME PageInv, [pageNext]_pageVars PROVE FollowersAsk'
  OBVIOUS
<1> USE DEF PageInv
<1>0. page' = page /\ page \in Pages /\ Parts' = Parts
  BY DEF pageNext, pageVars, Select, Poll, Press, Serve, Answer, Fail, PagesTyped, Parts
<1> SUFFICES ASSUME NEW n \in Parts, <<page, n>> \in Following
             PROVE  /\ \A c \in calls' : c.what = n => c.key = selection'
                    /\ shown'[n] = Blank \/ shown'[n].key = selection' \/ n \in failed' \/ \E c \in calls' : c.what = n
  BY <1>0 DEF FollowersAsk, InFlight
<1>a. Keyed(n) /\ page[n].guard # "none" /\ n \in On("key")
  BY FollowingParts DEF Keyed, On
<1>b. /\ \A c \in calls : c.what = n => c.key = selection
      /\ shown[n] = Blank \/ shown[n].key = selection \/ n \in failed \/ \E c \in calls : c.what = n
  BY DEF FollowersAsk, InFlight
<1>1. CASE \E s \in Selections : Select(s)
  <2>1. PICK s \in Selections : Select(s)
    BY <1>1
  <2>2. starts' \in Nat /\ Start(calls \ Dropped, On("key"), s) /\ selection' = s
    BY <2>1 DEF Select, Counted, PagesTyped
  <2>3. calls \ Dropped \in SUBSET calls /\ On("key") \in SUBSET Parts
    BY DEF On
  <2>4. \A c \in calls \ Dropped : c.what # n
    BY <1>a DEF Dropped
  <2> QED
    <3>1. Joined(calls \ Dropped, On("key"), s)
      BY <2>2, <2>3, StartIs
    <3> QED
      BY <1>a, <2>2, <2>4, <3>1 DEF Joined
<1>2. CASE \E m \in Parts : Poll(m) \/ Press(m)
  <2>1. PICK m \in Parts : Poll(m) \/ Press(m)
    BY <1>2
  <2>2. /\ starts' \in Nat /\ Start(calls, {m}, selection) /\ selection' = selection /\ selection \in Selections
        /\ shown' = shown /\ failed' = failed
    BY <2>1 DEF Poll, Press, Counted, PagesTyped
  <2>3. /\ \A c \in calls' : c \in calls \/ (c.what \in {m} /\ c.key = selection)
        /\ \A c \in calls : c \in calls' \/ c.what \in {m}
        /\ \E c \in calls' : c.what = m
    <3>1. calls \in SUBSET calls /\ {m} \in SUBSET Parts
      OBVIOUS
    <3>2. Joined(calls, {m}, selection)
      BY <2>2, <3>1, StartIs
    <3> QED
      BY <3>2 DEF Joined
  <2> QED
    BY <1>b, <2>2, <2>3
<1>3. CASE \E c \in calls : Serve(c)
  <2>1. PICK c \in calls : Serve(c)
    BY <1>3
  <2> DEFINE to == [c EXCEPT !.read = version']
  <2>2. calls' = (calls \ {c}) \union {to}
    BY <2>1 DEF Serve
  <2>3. to.what = c.what /\ to.key = c.key
    BY DEF PagesTyped, CallSet
  <2> HIDE DEF to
  <2> QED
    BY <1>b, <2>1, <2>2, <2>3 DEF Serve
<1>4. ASSUME NEW c \in calls, NEW parts \in SUBSET page[c.what].next, Continue(c, parts), selection' = selection,
             shown'[n] = shown[n] \/ (c.what = n /\ shown'[n].key = c.key),
             c.what = n => n \in failed' \/ shown'[n].key = c.key,
             n \in failed => n \in failed' \/ n \in parts \/ n = c.what
      PROVE  /\ \A d \in calls' : d.what = n => d.key = selection'
             /\ shown'[n] = Blank \/ shown'[n].key = selection' \/ n \in failed' \/ \E d \in calls' : d.what = n
  <2>1. /\ \A d \in calls' : d \in calls \/ d.what # n \/ d.key = selection
        /\ \A d \in calls : d = c \/ d \in calls' \/ d.what \in parts
        /\ \A m \in parts : \E d \in calls' : d.what = m
    BY <1>4, <1>a, ContinueIs
  <2> QED
    BY <1>4, <1>b, <2>1
<1>5. CASE \E c \in calls : Answer(c)
  <2>1. PICK c \in calls : Answer(c)
    BY <1>5
  <2>2. PICK parts \in {page[c.what].next} \union (IF page[c.what].maybe THEN {{}} ELSE {}) :
            Continue(c, parts) /\ failed' = failed \ (parts \union {c.what})
    BY <2>1 DEF Answer
  <2>3. CASE page[c.what].kind = "load"
    <3>1. shown' = [shown EXCEPT ![c.what] = [key |-> c.key, version |-> c.read]] /\ selection' = selection
      BY <2>1, <2>3 DEF Answer
    <3>2. /\ shown'[n] = shown[n] \/ (c.what = n /\ shown'[n].key = c.key)
          /\ c.what = n => shown'[n].key = c.key
      BY <3>1 DEF PagesTyped
    <3> QED
      BY <1>4, <2>2, <3>1, <3>2
  <2>4. CASE page[c.what].kind # "load" /\ c.what # n
    BY <1>4, <2>1, <2>2, <2>4 DEF Answer
  <2>5. c.what = n => page[c.what].kind = "load"
    BY FollowingParts
  <2> QED
    BY <2>3, <2>4, <2>5
<1>6. CASE \E c \in calls : Fail(c)
  <2>1. PICK c \in calls : Fail(c)
    BY <1>6
  <2>2. /\ shown' = shown /\ selection' = selection /\ failed' = failed \union {c.what}
    BY <2>1 DEF Fail
  <2>3. CASE page[c.what].despite
    BY <1>4, <2>1, <2>2, <2>3 DEF Fail
  <2>4. CASE ~page[c.what].despite
    <3>1. calls' = calls \ {c}
      BY <2>1, <2>4 DEF Fail
    <3> QED
      BY <1>b, <2>2, <3>1
  <2> QED
    BY <2>3, <2>4
<1>7. CASE UNCHANGED pageVars
  BY <1>7, <1>b DEF pageVars
<1> QED
  BY <1>1, <1>2, <1>3, <1>5, <1>6, <1>7 DEF pageNext

\* What the end of c does to what is shown: parts ask again, c itself failed or shows what it
\* read, and the others are left alone.
Shows(c, parts) ==
    \A n \in Parts :
        \/ n \in parts
        \/ n = c.what /\ (n \in failed' \/ (shown'[n].version = c.read /\ c.read # Unread /\ confirmed' = confirmed))
        \/ n # c.what /\ shown'[n] = shown[n] /\ (n \in failed => n \in failed')
        \/ page[n].guard # "query"

Confirms(c, parts) ==
    \/ confirmed' = confirmed
    \/ c.read \in Nat /\ confirmed' = [n \in Parts |-> IF n \in parts THEN c.read ELSE confirmed[n]]

\* What a list shows is of the last write confirmed to it, or a reload is in flight.
LEMMA PageNext_Lists == PageInv /\ [pageNext]_pageVars => ListsFollowWrites'
<1> SUFFICES ASSUME PageInv, [pageNext]_pageVars PROVE ListsFollowWrites'
  OBVIOUS
<1> USE DEF PageInv
<1>0. page' = page /\ page \in Pages /\ Parts' = Parts /\ Unread = -1
  BY DEF pageNext, pageVars, Select, Poll, Press, Serve, Answer, Fail, PagesTyped, Parts, Unread
<1>t. /\ version \in Nat /\ confirmed \in [Parts -> Nat]
      /\ \A c \in calls : c.what \in Parts /\ (c.read = Unread \/ c.read \in Nat)
      /\ \A n \in Parts : shown[n] # Blank => shown[n].version \in Nat
  BY DEF PagesTyped, CallSet
<1> DEFINE FreshCalls(cs, conf) ==
              \A c \in cs : page[c.what].guard = "query" => c.read = Unread \/ c.read >= conf[c.what]
           FreshList(n, cs, sh, fa, conf) ==
              page[n].guard = "query" =>
                 sh[n] = Blank \/ sh[n].version >= conf[n] \/ n \in fa \/ \E c \in cs : c.what = n
<1>u. /\ FreshCalls(calls, confirmed)
      /\ \A n \in Parts : FreshList(n, calls, shown, failed, confirmed)
  BY <1>t DEF ListsFollowWrites, InFlight
<1>v. ASSUME \A c \in calls' : c.what \in Parts,
             \A c \in calls' : c.read # Unread => c.read <= version',
             \A n \in Parts : confirmed'[n] <= version',
             FreshCalls(calls', confirmed'),
             \A n \in Parts : FreshList(n, calls', shown', failed', confirmed')
      PROVE  ListsFollowWrites'
  BY <1>0, <1>v DEF ListsFollowWrites, InFlight
<1> HIDE DEF FreshCalls, FreshList
<1>1. ASSUME NEW cs \in SUBSET calls, NEW parts \in SUBSET Parts, NEW key \in Selections,
             Start(cs, parts, key), starts' \in Nat, version' = version, confirmed' = confirmed,
             \A n \in Parts : \/ n \in parts
                              \/ shown'[n] = shown[n] /\ (n \in failed => n \in failed')
                                   /\ \A c \in calls : c.what = n => c \in cs
                              \/ page[n].guard = "query" => shown'[n] = Blank
      PROVE  ListsFollowWrites'
  <2>1. /\ \A c \in calls' : c \in cs \/ (c.what \in parts /\ c.read = Unread)
        /\ \A c \in cs : c \in calls' \/ c.what \in parts
        /\ \A n \in parts : \E c \in calls' : c.what = n
    <3>1. Joined(cs, parts, key)
      BY <1>1, StartIs
    <3> QED
      BY <3>1 DEF Joined
  <2>2. \A c \in calls' : c.what \in Parts /\ (c.read # Unread => c.read <= version')
    BY <1>t, <1>1, <2>1 DEF ListsFollowWrites
  <2>3. FreshCalls(calls', confirmed')
    BY <1>u, <1>1, <2>1 DEF FreshCalls
  <2>4. \A n \in Parts : FreshList(n, calls', shown', failed', confirmed')
    BY <1>u, <1>1, <2>1 DEF FreshList
  <2>5. \A n \in Parts : confirmed'[n] <= version'
    BY <1>1 DEF ListsFollowWrites
  <2> QED
    BY <1>v, <2>2, <2>3, <2>4, <2>5
<1>2. CASE \E s \in Selections : Select(s)
  <2>1. PICK s \in Selections : Select(s)
    BY <1>2
  <2>2. /\ starts' \in Nat /\ Start(calls \ Dropped, On("key"), s) /\ version' = version /\ confirmed' = confirmed
        /\ calls \ Dropped \in SUBSET calls /\ On("key") \in SUBSET Parts
    BY <2>1 DEF Select, Counted, PagesTyped, On
  <2>3. \A n \in Parts : ~Keyed(n) =>
            shown'[n] = shown[n] /\ (n \in failed => n \in failed') /\ \A c \in calls : c.what = n => c \in calls \ Dropped
    BY <2>1 DEF Select, Dropped
  <2>4. \A n \in Parts : Keyed(n) => (page[n].guard = "query" => shown'[n] = Blank)
    BY <2>1 DEF Select
  <2> QED
    BY <1>1, <2>2, <2>3, <2>4
<1>3. CASE \E m \in Parts : Poll(m) \/ Press(m)
  <2>1. PICK m \in Parts : Poll(m) \/ Press(m)
    BY <1>3
  <2>2. /\ starts' \in Nat /\ Start(calls, {m}, selection) /\ selection \in Selections
        /\ shown' = shown /\ failed' = failed /\ version' = version /\ confirmed' = confirmed
        /\ calls \in SUBSET calls /\ {m} \in SUBSET Parts
    BY <2>1 DEF Poll, Press, Counted, PagesTyped
  <2> QED
    BY <1>1, <2>2
<1>4. CASE \E c \in calls : Serve(c)
  <2>1. PICK c \in calls : Serve(c)
    BY <1>4
  <2> DEFINE to == [c EXCEPT !.read = version']
  <2>2. calls' = (calls \ {c}) \union {to} /\ version' \in Nat /\ version <= version' /\ confirmed' = confirmed
    BY <1>t, <2>1 DEF Serve
  <2>3. to.what = c.what /\ to.read = version'
    BY DEF PagesTyped, CallSet
  <2> HIDE DEF to
  <2>4. \A d \in calls' : d.what \in Parts /\ (d.read # Unread => d.read <= version')
    BY <1>0, <1>t, <2>2, <2>3 DEF ListsFollowWrites
  <2>5. \A n \in Parts : confirmed'[n] <= version'
    BY <1>t, <2>2 DEF ListsFollowWrites
  <2>6. FreshCalls(calls', confirmed')
    BY <1>t, <1>u, <2>2, <2>3, <2>5 DEF FreshCalls
  <2>7. \A n \in Parts : FreshList(n, calls', shown', failed', confirmed')
    BY <1>u, <2>1, <2>2, <2>3 DEF FreshList, Serve
  <2> QED
    BY <1>v, <2>4, <2>5, <2>6, <2>7
<1>5. ASSUME NEW c \in calls, NEW parts \in SUBSET page[c.what].next, Continue(c, parts), version' = version,
             Confirms(c, parts), Shows(c, parts)
      PROVE  ListsFollowWrites'
  <2>1. /\ \A d \in calls' : d \in calls \ {c} \/ (d.what \in parts /\ d.read = Unread)
        /\ \A d \in calls \ {c} : d \in calls' \/ d.what \in parts
        /\ \A n \in parts : \E d \in calls' : d.what = n
        /\ \A d \in calls' : (d.what \in parts /\ page[d.what].guard = "query") => d.read = Unread
        /\ parts \in SUBSET Parts
    BY <1>5, ContinueIs
  <2>2. \A d \in calls' : d.what \in Parts /\ (d.read # Unread => d.read <= version')
    BY <1>t, <1>5, <2>1 DEF ListsFollowWrites
  <2>3. \A n \in Parts : confirmed'[n] <= version' /\ (n \notin parts => confirmed'[n] = confirmed[n])
    BY <1>0, <1>t, <1>5 DEF ListsFollowWrites, Confirms
  <2>4. FreshCalls(calls', confirmed')
    BY <1>u, <2>1, <2>2, <2>3 DEF FreshCalls
  <2>5. ASSUME NEW n \in Parts PROVE FreshList(n, calls', shown', failed', confirmed')
    BY <1>u, <1>5, <2>1, <2>3 DEF FreshList, FreshCalls, Shows
  <2> QED
    BY <1>v, <2>2, <2>3, <2>4, <2>5
<1>6. CASE \E c \in calls : Answer(c)
  <2>1. PICK c \in calls : Answer(c)
    BY <1>6
  <2>2. PICK parts \in {page[c.what].next} \union (IF page[c.what].maybe THEN {{}} ELSE {}) :
            /\ Continue(c, parts)
            /\ confirmed' = IF page[c.what].kind = "write"
                            THEN [n \in Parts |-> IF n \in parts THEN c.read ELSE confirmed[n]] ELSE confirmed
            /\ failed' = failed \ (parts \union {c.what})
    BY <2>1 DEF Answer
  <2>3. c.read \in Nat /\ c.read # Unread /\ version' = version /\ parts \in SUBSET page[c.what].next
    BY <1>t, <2>1 DEF Answer
  <2>4. CASE page[c.what].kind = "load"
    <3>1. shown' = [shown EXCEPT ![c.what] = [key |-> c.key, version |-> c.read]] /\ confirmed' = confirmed
      BY <2>1, <2>2, <2>4 DEF Answer
    <3>2. \A n \in Parts : /\ n = c.what => shown'[n].version = c.read
                           /\ n # c.what => shown'[n] = shown[n]
      BY <3>1 DEF PagesTyped
    <3>3. Shows(c, parts)
      BY <2>2, <2>3, <3>1, <3>2 DEF Shows
    <3>4. Confirms(c, parts)
      BY <3>1 DEF Confirms
    <3> QED
      BY <1>5, <2>2, <2>3, <3>3, <3>4
  <2>5. CASE page[c.what].kind # "load"
    <3>1. shown' = shown /\ page[c.what].guard # "query"
      BY <1>0, <1>t, <2>1, <2>5, PagesFitTogether DEF Answer, FitsTogether, Steady, Parts
    <3>2. Shows(c, parts)
      BY <2>2, <2>3, <3>1 DEF Shows
    <3>3. Confirms(c, parts)
      BY <2>2, <2>3 DEF Confirms
    <3> QED
      BY <1>5, <2>2, <2>3, <3>2, <3>3
  <2> QED
    BY <2>4, <2>5
<1>7. CASE \E c \in calls : Fail(c)
  <2>1. PICK c \in calls : Fail(c)
    BY <1>7
  <2>2. /\ shown' = shown /\ failed' = failed \union {c.what} /\ version' = version /\ confirmed' = confirmed
    BY <2>1 DEF Fail
  <2>3. CASE page[c.what].despite
    <3>1. Shows(c, page[c.what].next)
      BY <2>2 DEF Shows
    <3>2. Continue(c, page[c.what].next) /\ page[c.what].next \in SUBSET page[c.what].next
      BY <2>1, <2>3 DEF Fail
    <3>3. Confirms(c, page[c.what].next)
      BY <2>2 DEF Confirms
    <3> QED
      BY <1>5, <2>2, <3>1, <3>2, <3>3
  <2>4. CASE ~page[c.what].despite
    <3>1. calls' = calls \ {c}
      BY <2>1, <2>4 DEF Fail
    <3>2. \A d \in calls' : d.what \in Parts /\ (d.read # Unread => d.read <= version')
      BY <1>t, <2>2, <3>1 DEF ListsFollowWrites
    <3>3. FreshCalls(calls', confirmed')
      BY <1>u, <2>2, <3>1 DEF FreshCalls
    <3>4. \A n \in Parts : FreshList(n, calls', shown', failed', confirmed')
      BY <1>u, <2>2, <3>1 DEF FreshList
    <3> QED
      BY <1>v, <2>2, <3>2, <3>3, <3>4 DEF ListsFollowWrites
  <2> QED
    BY <2>3, <2>4
<1>8. CASE UNCHANGED pageVars
  BY <1>0, <1>8 DEF pageVars, ListsFollowWrites, InFlight
<1> QED
  BY <1>2, <1>3, <1>4, <1>6, <1>7, <1>8 DEF pageNext

\* The invariant of a page, through every selection, poll, press, answer and failure.
THEOREM PagesInductive == pageSpec => []PageInv
<1>1. PageInv /\ [pageNext]_pageVars => PageInv'
  BY PageNext_Typed, PageNext_Flags, PageNext_Followers, PageNext_Lists DEF PageInv
<1> QED
  BY PageInit_Inv, <1>1, PTL DEF pageSpec

\* What the invariant says of a page that has settled.
LEMMA PageInvHolds == PageInv => SettledShowsSelection /\ LocksFollowCalls /\ SettledIsFresh
<1> SUFFICES ASSUME PageInv PROVE SettledShowsSelection /\ LocksFollowCalls /\ SettledIsFresh
  OBVIOUS
<1> USE DEF PageInv
<1>1. SettledShowsSelection
  <2> SUFFICES ASSUME failed = {}, \A c \in calls : ~Keyed(c.what), NEW n \in Loads,
                      <<page, n>> \in Following, shown[n] # Blank
               PROVE  shown[n].key = selection
    BY DEF SettledShowsSelection
  <2>1. n \in Parts /\ Keyed(n)
    BY FollowingParts DEF Loads, Keyed
  <2> QED
    BY <2>1 DEF FollowersAsk, InFlight
<1>2. LocksFollowCalls
  <2> SUFFICES ASSUME NEW flag \in Flags(Parts)
               PROVE  LET under == {c \in calls : c.frees = flag}
                      IN  /\ flag \in held => under # {}
                          /\ Exclusive(flag) => Cardinality(under) <= 1 /\ (under # {} => flag \in held)
    BY DEF LocksFollowCalls, Exclusive
  <2> DEFINE under == {c \in calls : c.frees = flag}
  <2>1. flag # Open
    BY DEF Flags
  <2>2. flag \in held => under # {}
    BY DEF FlagsBacked
  <2>3. Exclusive(flag) => \A c, d \in under : c = d /\ flag \in held
    BY <2>1 DEF FlagsBacked
  <2>4. Exclusive(flag) => under = {} \/ \E c : under = {c}
    <3> HIDE DEF under
    <3> SUFFICES ASSUME Exclusive(flag), under # {} PROVE \E c : under = {c}
      OBVIOUS
    <3>1. PICK c : c \in under
      OBVIOUS
    <3>2. under = {c}
      BY <2>3, <3>1
    <3> QED
      BY <3>2
  <2>5. Exclusive(flag) => Cardinality(under) <= 1
    <3>1. CASE under = {}
      BY <3>1, FS_EmptySet
    <3>2. ASSUME NEW c, under = {c} PROVE Cardinality(under) <= 1
      <4>1. Cardinality({c}) = 1
        BY FS_Singleton
      <4> QED
        BY <3>2, <4>1
    <3> HIDE DEF under
    <3> QED
      BY <2>4, <3>1, <3>2
  <2> QED
    BY <2>2, <2>3, <2>5
<1>3. SettledIsFresh
  BY DEF SettledIsFresh, ListsFollowWrites, InFlight, Loads
<1> QED
  BY <1>1, <1>2, <1>3

\* A page that settled, with nothing under way and nothing failed, shows what is selected
\* (the effects and guards of pages/*.jsx).
THEOREM SettledPagesShowTheSelection == pageSpec => []SettledShowsSelection
<1>1. PageInv => SettledShowsSelection
  BY PageInvHolds
<1> QED
  BY <1>1, PagesInductive, PTL

\* A busy flag stands for a request that will free it, and the exclusive ones for one alone
\* (the flags that the buttons of pages/*.jsx and components/*.jsx are disabled by).
THEOREM FlagsFollowCalls == pageSpec => []LocksFollowCalls
<1>1. PageInv => LocksFollowCalls
  BY PageInvHolds
<1> QED
  BY <1>1, PagesInductive, PTL

\* A page that settled has read every confirmed write it reloads after (the reloads of
\* pages/*.jsx and the invalidations of hooks/useResource.js).
THEOREM SettledPagesAreFresh == pageSpec => []SettledIsFresh
<1>1. PageInv => SettledIsFresh
  BY PageInvHolds
<1> QED
  BY <1>1, PagesInductive, PTL

(***************************************************************************)
(* The run of them all                                                     *)
(* They share no variable: what each does when it is in focus is a step of *)
(* it, and the others stutter.                                             *)
(***************************************************************************)

\* Requests are numbered by the starts, flags and failures are of the page's own parts, and
\* nothing displayed is ahead of the server.
PageBounds ==
    /\ starts \in 0 .. StartBound /\ held \subseteq Flags(Parts) /\ failed \subseteq Parts
    /\ \A c \in calls : c.id \in 0 .. StartBound
    /\ \A n \in Parts : shown[n] # Blank => shown[n].version <= version

\* A page is mounted with nothing shown and its first requests numbered.
LEMMA PageInit_Bounds == pageInit => PageBounds
<1> SUFFICES ASSUME pageInit PROVE PageBounds
  OBVIOUS
<1> USE DEF pageInit
<1>1. starts \in 0 .. StartBound /\ failed \subseteq Parts
  BY PagesAssumption
<1>2. held \subseteq Flags(Parts)
  BY DEF Flags, On
<1>3. \A c \in calls : c.id \in 0 .. StartBound
  BY PagesAssumption
<1>4. \A n \in Parts : shown[n] = Blank
  OBVIOUS
<1> QED BY <1>1, <1>2, <1>3, <1>4 DEF PageBounds

\* Requests that join are numbered by the start they are counted with.
LEMMA JoinedBounds ==
  ASSUME NEW cs \in SUBSET calls, NEW parts, NEW key, NEW frees, \A c \in calls : c.id \in 0 .. StartBound,
         calls' = Begin(cs, parts, key, frees), parts # {} => starts' \in 0 .. StartBound
  PROVE  \A c \in calls' : c.id \in 0 .. StartBound
<1> SUFFICES ASSUME NEW c \in calls' PROVE c.id \in 0 .. StartBound
  OBVIOUS
<1>1. c \in cs \/ \E n \in parts : c = [id |-> starts', what |-> n, key |-> key, read |-> Unread, frees |-> frees[n]]
  BY DEF Begin
<1>2. CASE c \in cs
  BY <1>2
<1>3. CASE \E n \in parts : c = [id |-> starts', what |-> n, key |-> key, read |-> Unread, frees |-> frees[n]]
  <2>1. c.id = starts' /\ parts # {}
    BY <1>3
  <2> QED BY <2>1
<1> QED BY <1>1, <1>2, <1>3

\* No step shows what the server has not written, or numbers beyond the starts.
LEMMA PageStep_Bounds == PageInv /\ PageBounds /\ [pageNext]_pageVars => PageBounds'
<1> SUFFICES ASSUME PageInv, PageBounds, [pageNext]_pageVars PROVE PageBounds'
  OBVIOUS
<1>0. /\ page' = page /\ Parts' = Parts /\ StartBound \in Nat /\ version \in Nat
      /\ \A fs : Flags(fs)' = Flags(fs)
  BY PagesAssumption DEF pageNext, pageVars, Select, Poll, Press, Serve, Answer, Fail, Parts, Flags, PageInv, PagesTyped
<1>1. /\ starts \in 0 .. StartBound /\ held \subseteq Flags(Parts) /\ failed \subseteq Parts
      /\ \A c \in calls : c.id \in 0 .. StartBound
      /\ \A n \in Parts : shown[n] # Blank => shown[n].version <= version
  BY DEF PageBounds
<1>2. \A parts \in SUBSET Parts : Flags(parts) \subseteq Flags(Parts)
  BY DEF Flags
<1>3. \A c \in calls : /\ c.what \in Parts /\ (c.frees # Open => c.frees \in Flags(Parts))
                       /\ page[c.what].next \subseteq Parts
                       /\ (c.read # Unread => c.read \in Nat /\ c.read <= version)
  <2>1. \A c \in calls : c \in CallSet
    BY DEF PageInv, PagesTyped
  <2>2. \A c \in calls : page[c.what].next \subseteq Parts
    BY PagesFitTogether, <2>1 DEF PageInv, PagesTyped, FitsTogether, CallSet, Parts
  <2>3. \A c \in calls : c.read # Unread => c.read <= version
    BY DEF PageInv, ListsFollowWrites
  <2> QED BY <2>1, <2>2, <2>3 DEF CallSet
<1>4. ASSUME NEW s \in Selections, Select(s) PROVE PageBounds'
  <2>1. starts' \in 0 .. StartBound /\ version' = version
    BY <1>0, <1>1, <1>4 DEF Select, Counted
  <2>2. /\ calls' = Begin(calls \ Dropped, On("key"), s, OwnFlag(On("key"))) /\ held' = held \cup Flags(On("key"))
        /\ On("key") \in SUBSET Parts /\ calls \ Dropped \in SUBSET calls
    BY <1>4 DEF Select, Start, On
  <2>3. \A c \in calls' : c.id \in 0 .. StartBound
    BY <1>1, <2>1, <2>2, JoinedBounds
  <2>4. held' \subseteq Flags(Parts)
    BY <1>1, <1>2, <2>2
  <2>5. failed' \subseteq Parts
    BY <1>1, <1>4 DEF Select
  <2>6. \A n \in Parts : shown'[n] = Blank \/ shown'[n] = shown[n]
    BY <1>4 DEF Select
  <2> QED BY <1>0, <1>1, <2>1, <2>3, <2>4, <2>5, <2>6 DEF PageBounds
<1>5. ASSUME NEW n \in Parts, Poll(n) \/ Press(n) PROVE PageBounds'
  <2>1. starts' \in 0 .. StartBound /\ version' = version /\ failed' = failed /\ shown' = shown
    BY <1>0, <1>1, <1>5 DEF Poll, Press, Counted
  <2>2. calls' = Begin(calls, {n}, selection, OwnFlag({n})) /\ held' = held \cup Flags({n})
    BY <1>5 DEF Poll, Press, Start
  <2>3. \A c \in calls' : c.id \in 0 .. StartBound
    BY <1>1, <2>1, <2>2, JoinedBounds
  <2>4. held' \subseteq Flags(Parts)
    BY <1>1, <1>2, <2>2
  <2> QED BY <1>0, <1>1, <2>1, <2>3, <2>4 DEF PageBounds
<1>6. ASSUME NEW c \in calls, Serve(c) PROVE PageBounds'
  <2>1. version' \in Nat /\ version <= version' /\ starts' = starts /\ held' = held /\ failed' = failed /\ shown' = shown
    BY <1>0, <1>6 DEF Serve
  <2>2. \A d \in calls' : d \in calls \/ d = [c EXCEPT !.read = version']
    BY <1>6 DEF Serve
  <2>3. [c EXCEPT !.read = version'].id = c.id
    BY DEF PageInv, PagesTyped, CallSet
  <2>4. \A d \in calls' : d.id \in 0 .. StartBound
    BY <1>1, <2>2, <2>3
  <2>5. \A n \in Parts : shown[n] # Blank => shown[n].version \in Nat
    BY DEF PageInv, PagesTyped
  <2>6. \A n \in Parts : shown'[n] # Blank => shown'[n].version <= version'
    BY <1>0, <1>1, <2>1, <2>5
  <2> QED BY <1>0, <1>1, <2>1, <2>4, <2>6 DEF PageBounds
<1>7. ASSUME NEW c \in calls, NEW parts \in SUBSET page[c.what].next, Continue(c, parts)
      PROVE  starts' \in 0 .. StartBound /\ held' \subseteq Flags(Parts) /\ \A d \in calls' : d.id \in 0 .. StartBound
  <2>1. starts' \in 0 .. StartBound
    BY <1>0, <1>1, <1>7 DEF Continue, Counted
  <2>2. parts \in SUBSET Parts
    BY <1>3
  <2>3. held' \subseteq held \cup Flags(parts)
    BY <1>7 DEF Continue
  <2>4. \E key, frees : calls' = Begin(calls \ {c}, parts, key, frees)
    BY <1>7 DEF Continue
  <2>5. calls \ {c} \in SUBSET calls
    OBVIOUS
  <2>6. \A d \in calls' : d.id \in 0 .. StartBound
    BY <1>1, <2>1, <2>4, <2>5, JoinedBounds
  <2> QED BY <1>1, <1>2, <2>1, <2>2, <2>3, <2>6
<1>8. ASSUME NEW c \in calls, Answer(c) PROVE PageBounds'
  <2>1. PICK parts \in SUBSET page[c.what].next : Continue(c, parts) /\ failed' = failed \ (parts \union {c.what})
    BY <1>8 DEF Answer
  <2>2. starts' \in 0 .. StartBound /\ held' \subseteq Flags(Parts) /\ \A d \in calls' : d.id \in 0 .. StartBound
    BY <1>7, <2>1
  <2>3. /\ version' = version /\ c.read # Unread
        /\ shown' = IF page[c.what].kind = "load"
                    THEN [shown EXCEPT ![c.what] = [key |-> c.key, version |-> c.read]] ELSE shown
    BY <1>8 DEF Answer
  <2>4. shown \in [Parts -> {Blank} \union [key : Selections, version : Nat]]
    BY DEF PageInv, PagesTyped
  <2>5. \A n \in Parts : shown'[n] = shown[n] \/ shown'[n] = [key |-> c.key, version |-> c.read]
    BY <2>3, <2>4
  <2>6. \A n \in Parts : shown'[n] # Blank => shown'[n].version <= version
    BY <1>1, <1>3, <2>3, <2>5
  <2> QED BY <1>0, <1>1, <2>1, <2>2, <2>3, <2>6 DEF PageBounds
<1>9. ASSUME NEW c \in calls, Fail(c) PROVE PageBounds'
  <2>1. failed' \subseteq Parts /\ shown' = shown /\ version' = version
    BY <1>1, <1>3, <1>9 DEF Fail
  <2>2. starts' \in 0 .. StartBound /\ held' \subseteq Flags(Parts) /\ \A d \in calls' : d.id \in 0 .. StartBound
    <3>1. CASE page[c.what].despite
      <4>1. Continue(c, page[c.what].next) /\ page[c.what].next \in SUBSET page[c.what].next
        BY <1>9, <3>1 DEF Fail
      <4> QED BY <1>7, <4>1
    <3>2. CASE ~page[c.what].despite
      BY <1>1, <1>9, <3>2 DEF Fail, HeldAfterFailure
    <3> QED BY <3>1, <3>2
  <2> QED BY <1>0, <1>1, <2>1, <2>2 DEF PageBounds
<1>10. CASE UNCHANGED pageVars
  BY <1>0, <1>1, <1>10 DEF pageVars, PageBounds
<1> QED BY <1>4, <1>5, <1>6, <1>8, <1>9, <1>10 DEF pageNext

\* With those bounds the invariant is the type of the page.
LEMMA PageTypes == PageInv /\ PageBounds => pageTypeOK
<1> SUFFICES ASSUME PageInv, PageBounds PROVE pageTypeOK
  OBVIOUS
<1>1. /\ page \in Pages /\ selection \in Selections /\ calls \subseteq CallSet
      /\ shown \in [Parts -> {Blank} \union [key : Selections, version : Nat]]
      /\ version \in Nat /\ confirmed \in [Parts -> Nat]
  BY DEF PageInv, PagesTyped
<1>2. /\ \A c \in calls : c.read # Unread => c.read <= version
      /\ \A n \in Parts : confirmed[n] <= version
  BY DEF PageInv, ListsFollowWrites
<1>3. /\ starts \in 0 .. StartBound /\ held \subseteq Flags(Parts) /\ failed \subseteq Parts
      /\ \A c \in calls : c.id \in 0 .. StartBound
      /\ \A n \in Parts : shown[n] # Blank => shown[n].version <= version
  BY DEF PageBounds
<1> DEFINE Typed == [id : 0 .. StartBound, what : Parts, key : Selections, read : {Unread} \union 0 .. version,
                     frees : {Open} \union Flags(Parts)]
<1>4. ASSUME NEW c \in calls PROVE c \in Typed
  <2>1. c \in CallSet /\ c.id \in 0 .. StartBound /\ (c.read # Unread => c.read <= version)
    BY <1>1, <1>2, <1>3
  <2>2. c.read = Unread \/ c.read \in 0 .. version
    BY <1>1, <2>1 DEF CallSet
  <2>3. c = [id |-> c.id, what |-> c.what, key |-> c.key, read |-> c.read, frees |-> c.frees]
    BY <2>1 DEF CallSet
  <2>4. c.what \in Parts /\ c.key \in Selections /\ c.frees \in {Open} \union Flags(Parts)
    BY <2>1 DEF CallSet
  <2> QED BY <2>1, <2>2, <2>3, <2>4
<1>5. ASSUME NEW n \in Parts PROVE shown[n] \in {Blank} \union [key : Selections, version : 0 .. version]
  <2>1. shown[n] = Blank \/ (shown[n] \in [key : Selections, version : Nat] /\ shown[n].version <= version)
    BY <1>1, <1>3
  <2> QED BY <1>1, <2>1
<1>6. ASSUME NEW n \in Parts PROVE confirmed[n] \in 0 .. version
  BY <1>1, <1>2
<1> HIDE DEF Typed
<1>7. calls \subseteq Typed
  BY <1>4
<1>8. shown \in [Parts -> {Blank} \union [key : Selections, version : 0 .. version]]
  BY <1>1, <1>5
<1>9. confirmed \in [Parts -> 0 .. version]
  BY <1>1, <1>6
<1> QED BY <1>1, <1>3, <1>7, <1>8, <1>9 DEF pageTypeOK, Typed

(* Whatever the person does on a page, its requests are of its own parts   *)
(* and numbered, and nothing it shows or confirms is newer than what the   *)
(* server wrote (pages/*.jsx).                                             *)
THEOREM PagesKeepTheirType == pageSpec => []pageTypeOK
<1>1. PageInv /\ PageBounds /\ [pageNext]_pageVars => PageBounds'
  BY PageStep_Bounds
<1> QED
  BY <1>1, PageInit_Bounds, PageTypes, PagesInductive, PTL DEF pageSpec

\* Nothing is in the pool's queue when the legs made no trade.
LEMMA EmptyPool ==
    queue = <<>> /\ open = <<>> /\ cash = PoolCash /\ accepted = {} /\ refused = {} /\ endings = {} => PoolInit
<1> SUFFICES ASSUME queue = <<>>, open = <<>>, cash = PoolCash, accepted = {}, refused = {}, endings = {} PROVE PoolInit
  OBVIOUS
<1>1. Cardinality({}) = 0
  BY FS_EmptySet
<1>2. queue \in [1 .. 0 -> {}] /\ 1 .. 0 = {} /\ DOMAIN queue = {}
  OBVIOUS
<1>3. queue \in SetToSeqs({})
  BY <1>1, <1>2 DEF SetToSeqs
<1>4. InOrder(queue)
  BY <1>2 DEF InOrder
<1> QED BY <1>3, <1>4, NoTrades DEF PoolInit

\* The run begins where each of them does.
LEMMA AllBegin ==
    MCInit => FeedInit /\ SimInit /\ PoolInit /\ SearchInit /\ pageInit /\ LearnInit /\ PerfInit
<1> SUFFICES ASSUME MCInit
             PROVE  FeedInit /\ SimInit /\ PoolInit /\ SearchInit /\ pageInit /\ LearnInit /\ PerfInit
  OBVIOUS
<1>1. FeedInit /\ SearchInit /\ pageInit /\ LearnInit /\ PerfInit
  BY DEF MCInit
<1>2. SimInit
  <2>1. CASE focus = "simulator"
    BY <2>1 DEF MCInit
  <2>2. CASE focus # "simulator"
    BY <2>2 DEF MCInit, SimInit
  <2> QED BY <2>1, <2>2
<1>3. PoolInit
  <2>1. CASE focus = "pool"
    BY <2>1 DEF MCInit
  <2>2. CASE focus # "pool"
    BY <2>2, EmptyPool DEF MCInit
  <2> QED BY <2>1, <2>2
<1> QED BY <1>1, <1>2, <1>3

\* A step of the run is a step of the one in focus, and the others stand.
LEMMA AllStep ==
    [MCNext]_<<focus, feedVars, simVars, poolVars, searchVars, pageVars, learnVars, perfVars>> =>
        /\ [FeedNext]_feedVars /\ [SimNext]_simVars /\ [PoolNext]_poolVars /\ [SearchNext]_searchVars
        /\ [pageNext]_pageVars /\ [LearnNext]_learnVars /\ [PerfNext]_perfVars
BY DEF MCNext

(* The strategies, the simulators, the searches, the learner, the figures  *)
(* and the pages of the run are each what their own specification says:    *)
(* whatever holds of one alone holds of it in the run.                     *)
THEOREM RunImplementsEach ==
    MCSpec => FeedSpec /\ SimSpec /\ PoolSpec /\ SearchSpec /\ pageSpec /\ LearnSpec /\ PerfSpec
BY AllBegin, AllStep, PTL DEF MCSpec, FeedSpec, SimSpec, PoolSpec, SearchSpec, pageSpec, LearnSpec, PerfSpec

(* Every variable of the strategies, simulators, searches and pages keeps  *)
(* its type: a signal, an account, a leaderboard, a request in flight.     *)
THEOREM TypesAreKept == MCSpec => []TypeOK
<1>1. FeedInv => FeedTypeOK
  BY DEF FeedInv
<1>2. PoolInv => PoolTypeOK
  BY DEF PoolInv
<1>3. SearchInv => SearchTypeOK
  BY DEF SearchInv
<1>4. SimInv => SimTypeOK
  BY SimInvFacts
<1>5. LearnInv => LearnTypeOK
  BY LearnInvFacts
<1>6. FeedTypeOK /\ SimTypeOK /\ PoolTypeOK /\ SearchTypeOK /\ pageTypeOK /\ LearnTypeOK /\ PerfTypeOK => TypeOK
  BY DEF TypeOK
<1> QED
  BY <1>1, <1>2, <1>3, <1>4, <1>5, <1>6, RunImplementsEach, FeedInductive, SimInductive, PoolInductive,
     SearchInductive, PagesKeepTheirType, LearnInductive, FiguresAddUp, PTL

(* No account of the run loses or invents money, the learner's return is   *)
(* what its positions brought and its values are in the discounted range,  *)
(* and the figures of the page are those of the trades.                    *)
THEOREM EveryAccountAddsUp == MCSpec => []ReturnsAddUp
<1>1. SimInv => CashConserved
  BY SimInvFacts
<1>2. LearnInv => ReturnsAreHeld /\ ValuesBounded
  BY LearnInvFacts
<1>3. CashConserved /\ ReturnsAreHeld /\ ValuesBounded /\ StatsAddUp => ReturnsAddUp
  BY DEF ReturnsAddUp
<1> QED
  BY <1>1, <1>2, <1>3, RunImplementsEach, SimInductive, LearnInductive, FiguresAddUp, PTL
===============================================================================
