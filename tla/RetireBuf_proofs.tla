-------------------------- MODULE RetireBuf_proofs --------------------------
(***************************************************************************)
(* The memory of a cluster, for any number of workers, calls, nodes and    *)
(* data blocks, any reserve and any watermark: no node or block is lost or *)
(* in two places, and a reserve stays whole as long as its refills find    *)
(* nodes.  For two workers, and before a tick wraps: nothing is used again *)
(* while a session that may reach it is open.                              *)
(*                                                                         *)
(* The proof goes up through chunk_block.c: sequences, queues, what one    *)
(* allocation, sweep, refill or retirement does to the memory a thread     *)
(* sees (MemT), then the steps of a worker, which add up because only one  *)
(* thread's part of the sum changes in a step.  Last, how the queues age,  *)
(* beside what an open session may live through.                           *)
(***************************************************************************)
EXTENDS RetireBuf, FiniteSetTheorems, NaturalsInduction, SequenceTheorems, TLAPS

(***************************************************************************)
(* The sum of a function's values (SumFunction of the community module     *)
(* Functions).  It is a recursive function over the subsets of the domain  *)
(* that CHOOSE takes one element off at a time; these facts say that it    *)
(* does not matter which.                                                  *)
(***************************************************************************)
\* Every nonempty set of natural numbers has a least element.
LEMMA LeastNat ==
  ASSUME NEW S \in SUBSET Nat, S # {}
  PROVE  \E m \in S : \A k \in S : m <= k
<1> DEFINE Less == {ss \in Nat \X Nat : ss[1] < ss[2]}
<1>1. IsWellFoundedOn(Less, Nat)
  BY NatLessThanWellFounded, Zenon DEF OpToRel
<1>2. \A x, y \in Nat : <<y, x>> \in Less <=> y < x
  OBVIOUS
<1> HIDE DEF Less
<1>3. PICK m \in S : \A k \in S : ~ (<<k, m>> \in Less)
  BY <1>1, WFMin
<1>4. ASSUME NEW k \in S PROVE m <= k
  <2>1. m \in Nat /\ k \in Nat
    OBVIOUS
  <2>2. ~ (k < m)
    BY <2>1, <1>2, <1>3
  <2> QED
    BY <2>1, <2>2
<1> QED
  BY <1>4

\* The element the sum takes off a set.
Pick(s) == CHOOSE x \in s : TRUE

\* The value at s of a sum of f that is g on smaller sets.
SumOf(f, g, s) == IF s = {} THEN 0 ELSE f[Pick(s)] + g[s \ {Pick(s)}]

\* The recursive function behind SumFunction.
Sums(f) == CHOOSE g : g = [s \in SUBSET DOMAIN f |-> SumOf(f, g, s)]

\* What SumFunction computes.
LEMMA SumIsSums == \A f : SumFunction(f) = Sums(f)[DOMAIN f]
BY DEF SumFunction, SumFunctionOnSet, FoldFunctionOnSet, MapThenFoldSet, Sums, SumOf, Pick

\* A nonempty finite set without the element taken off has one element less.
LEMMA PickOff ==
  ASSUME NEW s, IsFiniteSet(s), s # {}
  PROVE  /\ Pick(s) \in s
         /\ IsFiniteSet(s \ {Pick(s)})
         /\ Cardinality(s) \in Nat \ {0}
         /\ Cardinality(s \ {Pick(s)}) = Cardinality(s) - 1
<1>1. Pick(s) \in s
  BY DEF Pick
<1>2. IsFiniteSet(s \ {Pick(s)}) /\ Cardinality(s \ {Pick(s)}) = Cardinality(s) - 1
  BY <1>1, FS_RemoveElement
<1>3. Cardinality(s) \in Nat \ {0}
  BY FS_CardinalityType, FS_EmptySet
<1> QED
  BY <1>1, <1>2, <1>3

\* The recursion has a solution, built from the small sets up.
LEMMA SumsDefined ==
  ASSUME NEW f, IsFiniteSet(DOMAIN f)
  PROVE  \A s \in SUBSET DOMAIN f : Sums(f)[s] = SumOf(f, Sums(f), s)
<1> DEFINE D == DOMAIN f
           N == Cardinality(D)
           Solves(g, n) == g = [s \in {r \in SUBSET D : Cardinality(r) <= n} |-> SumOf(f, g, s)]
           Fails == {n \in Nat : ~ \E g : Solves(g, n)}
<1>1. \A s \in SUBSET D : IsFiniteSet(s) /\ Cardinality(s) \in Nat /\ Cardinality(s) <= N
  BY FS_Subset, FS_CardinalityType
<1>2. N \in Nat
  BY FS_CardinalityType
<1> HIDE DEF D, N
<1>3. Fails = {}
  <2> SUFFICES ASSUME Fails # {} PROVE FALSE
    OBVIOUS
  <2>1. PICK n \in Fails : \A k \in Fails : n <= k
    <3>1. Fails \in SUBSET Nat
      OBVIOUS
    <3> HIDE DEF Fails
    <3> QED
      BY <3>1, LeastNat
  <2>2. n \in Nat /\ ~ \E g : Solves(g, n)
    OBVIOUS
  <2>3. CASE n = 0
    <3> DEFINE g == [s \in {r \in SUBSET D : Cardinality(r) <= 0} |-> 0]
    <3>1. ASSUME NEW s \in SUBSET D, Cardinality(s) <= 0 PROVE s = {}
      BY <1>1, <3>1, FS_EmptySet
    <3>2. Solves(g, 0)
      BY <3>1 DEF SumOf
    <3> QED
      BY <2>2, <2>3, <3>2
  <2>4. CASE n # 0
    <3>0. n - 1 \in Nat /\ ~ (n <= n - 1)
      BY <2>2, <2>4
    <3>1. n - 1 \notin Fails
      <4> HIDE DEF Fails
      <4> QED
        BY <2>1, <3>0
    <3>2. PICK g : Solves(g, n - 1)
      BY <3>0, <3>1
    <3> DEFINE Small == {r \in SUBSET D : Cardinality(r) <= n - 1}
               Upto == {r \in SUBSET D : Cardinality(r) <= n}
               h == [s \in Upto |-> SumOf(f, g, s)]
    <3>3. \A s \in Small : g[s] = SumOf(f, g, s)
      BY <3>2
    <3>4. \A s \in Small : s \in Upto /\ h[s] = g[s]
      BY <1>1, <2>2, <3>3
    <3>5. ASSUME NEW s \in Upto PROVE SumOf(f, g, s) = SumOf(f, h, s)
      <4>1. CASE s = {}
        BY <4>1 DEF SumOf
      <4>2. CASE s # {}
        <5>1. s \ {Pick(s)} \in SUBSET D /\ Cardinality(s \ {Pick(s)}) = Cardinality(s) - 1 
          BY <1>1, <4>2, PickOff
        <5>2. Cardinality(s) \in Nat /\ Cardinality(s) <= n
          BY <1>1
        <5>3. s \ {Pick(s)} \in Small
          BY <2>2, <5>1, <5>2
        <5>4. h[s \ {Pick(s)}] = g[s \ {Pick(s)}]
          BY <3>4, <5>3
        <5> QED
          BY <5>4 DEF SumOf
      <4> QED
        BY <4>1, <4>2
    <3>6. Solves(h, n)
      BY <3>5
    <3> QED
      BY <2>2, <3>6
  <2> QED
    BY <2>3, <2>4
<1>4. PICK g : Solves(g, N)
  BY <1>2, <1>3
<1>5. {r \in SUBSET D : Cardinality(r) <= N} = SUBSET D
  BY <1>1
<1>6. g = [s \in SUBSET D |-> SumOf(f, g, s)]
  BY <1>4, <1>5
<1>7. Sums(f) = [s \in SUBSET D |-> SumOf(f, Sums(f), s)]
  BY <1>6 DEF Sums, D
<1> QED
  BY <1>7 DEF D

\* What holds of the empty set, and of a set if of the set without the element
\* taken off, holds of every subset of a finite set.
LEMMA PickInduction ==
  ASSUME NEW D, IsFiniteSet(D), NEW T,
         {} \in T,
         \A s \in SUBSET D : s # {} /\ s \ {Pick(s)} \in T => s \in T
  PROVE  SUBSET D \subseteq T
<1> DEFINE Bad == {Cardinality(s) : s \in (SUBSET D) \ T}
<1> SUFFICES ASSUME (SUBSET D) \ T # {} PROVE FALSE
  OBVIOUS
<1>1. \A s \in SUBSET D : IsFiniteSet(s) /\ Cardinality(s) \in Nat
  BY FS_Subset, FS_CardinalityType
<1>2. Bad \in SUBSET Nat /\ Bad # {}
  BY <1>1
<1>3. PICK m \in Bad : \A k \in Bad : m <= k
  <2> HIDE DEF Bad
  <2> QED
    BY <1>2, LeastNat
<1>4. PICK s \in (SUBSET D) \ T : m = Cardinality(s)
  OBVIOUS
<1>5. s # {}
  OBVIOUS
<1>6. Cardinality(s \ {Pick(s)}) = m - 1 /\ m \in Nat \ {0}
  BY <1>1, <1>4, <1>5, PickOff
<1>7. s \ {Pick(s)} \in T
  <2>1. ~ (m <= m - 1)
    BY <1>6
  <2>2. m - 1 \notin Bad
    BY <1>3, <2>1
  <2>3. s \ {Pick(s)} \in SUBSET D
    OBVIOUS
  <2> QED
    BY <1>6, <2>2, <2>3
<1> QED
  BY <1>4, <1>5, <1>7

\* A sum of integers is an integer, and of natural numbers a natural number.
LEMMA SumType ==
  ASSUME NEW D, IsFiniteSet(D), NEW f
  PROVE  /\ f \in [D -> Int] => SumFunction(f) \in Int
         /\ f \in [D -> Nat] => SumFunction(f) \in Nat
<1>1. ASSUME NEW R, R = Int \/ R = Nat, f \in [D -> R] PROVE SumFunction(f) \in R
  <2> DEFINE T == {s \in SUBSET D : Sums(f)[s] \in R}
  <2>1. DOMAIN f = D
    BY <1>1
  <2>2. \A s \in SUBSET D : Sums(f)[s] = SumOf(f, Sums(f), s)
    BY <2>1, SumsDefined
  <2>3. {} \in T
    BY <1>1, <2>2 DEF SumOf
  <2>4. ASSUME NEW s \in SUBSET D, s # {}, s \ {Pick(s)} \in T PROVE s \in T
    <3>1. Pick(s) \in D
      BY <2>4 DEF Pick
    <3>2. f[Pick(s)] \in R /\ Sums(f)[s \ {Pick(s)}] \in R
      BY <1>1, <2>4, <3>1
    <3>3. Sums(f)[s] = f[Pick(s)] + Sums(f)[s \ {Pick(s)}]
      BY <2>2, <2>4 DEF SumOf
    <3> QED
      BY <1>1, <3>2, <3>3
  <2> HIDE DEF T
  <2>5. SUBSET D \subseteq T
    BY <2>3, <2>4, PickInduction
  <2>6. D \in T
    BY <2>5
  <2> QED
    BY <2>1, <2>6, SumIsSums DEF T
<1> QED
  BY <1>1

\* A sum changes by what one of its terms changes.
LEMMA SumChange ==
  ASSUME NEW D, IsFiniteSet(D), NEW f \in [D -> Int], NEW g \in [D -> Int], NEW c \in D,
         \A x \in D \ {c} : g[x] = f[x]
  PROVE  SumFunction(g) = SumFunction(f) + g[c] - f[c]
<1> DEFINE d(s) == IF c \in s THEN g[c] - f[c] ELSE 0
           T == {s \in SUBSET D : /\ Sums(f)[s] \in Int
                                  /\ Sums(g)[s] = Sums(f)[s] + d(s)}
<1>1. /\ DOMAIN f = D /\ DOMAIN g = D
      /\ f[c] \in Int /\ g[c] \in Int
  OBVIOUS
<1>2. \A s \in SUBSET D : /\ Sums(f)[s] = SumOf(f, Sums(f), s)
                          /\ Sums(g)[s] = SumOf(g, Sums(g), s)
  BY <1>1, SumsDefined
<1>3. {} \in T
  BY <1>2 DEF SumOf
<1>4. ASSUME NEW s \in SUBSET D, s # {}, s \ {Pick(s)} \in T PROVE s \in T
  <2> DEFINE p == Pick(s)
             r == s \ {p}
  <2>1. p \in s /\ p \in D
    BY <1>4 DEF Pick
  <2>2. f[p] \in Int /\ g[p] \in Int
    BY <2>1
  <2>3. Sums(f)[s] = f[p] + Sums(f)[r] /\ Sums(g)[s] = g[p] + Sums(g)[r]
    BY <1>2, <1>4 DEF SumOf
  <2>4. Sums(f)[r] \in Int /\ Sums(g)[r] = Sums(f)[r] + d(r)
    BY <1>4
  <2>5. CASE p = c
    <3>1. d(s) = g[c] - f[c] /\ d(r) = 0
      BY <2>1, <2>5
    <3> HIDE DEF p, r, d
    <3> QED
      BY <1>1, <2>3, <2>4, <2>5, <3>1 DEF p
  <2>6. CASE p # c
    <3>1. g[p] = f[p] /\ d(s) = d(r) /\ d(s) \in Int
      BY <1>1, <2>1, <2>6
    <3> HIDE DEF p, r, d
    <3> QED
      BY <2>2, <2>3, <2>4, <3>1
  <2> QED
    BY <2>5, <2>6
<1> HIDE DEF T
<1>5. SUBSET D \subseteq T
  BY <1>3, <1>4, PickInduction
<1>6. D \in T
  BY <1>5
<1>7. d(D) = g[c] - f[c]
  OBVIOUS
<1> QED
  BY <1>1, <1>6, <1>7, SumIsSums DEF T

\* The sum of nothing but zeros is zero.
LEMMA SumZero ==
  ASSUME NEW D, IsFiniteSet(D), NEW f \in [D -> {0}]
  PROVE  SumFunction(f) = 0
<1> DEFINE T == {s \in SUBSET D : Sums(f)[s] = 0}
<1>1. DOMAIN f = D
  OBVIOUS
<1>2. \A s \in SUBSET D : Sums(f)[s] = SumOf(f, Sums(f), s)
  BY <1>1, SumsDefined
<1>3. {} \in T
  BY <1>2 DEF SumOf
<1>4. ASSUME NEW s \in SUBSET D, s # {}, s \ {Pick(s)} \in T PROVE s \in T
  <2>1. f[Pick(s)] = 0
    BY <1>4 DEF Pick
  <2> QED
    BY <1>2, <1>4, <2>1 DEF SumOf
<1> HIDE DEF T
<1>5. SUBSET D \subseteq T
  BY <1>3, <1>4, PickInduction
<1>6. D \in T
  BY <1>5
<1> QED
  BY <1>1, <1>6, SumIsSums DEF T

\* The sum of natural numbers that are zero but for one is that one.
LEMMA SumSingle ==
  ASSUME NEW D, IsFiniteSet(D), NEW f \in [D -> Nat], NEW c \in D,
         \A x \in D \ {c} : f[x] = 0
  PROVE  SumFunction(f) = f[c]
<1> DEFINE z == [x \in D |-> 0]
<1>1. SumFunction(z) = 0
  BY SumZero
<1>2. z \in [D -> Int] /\ f \in [D -> Int] /\ (\A x \in D \ {c} : f[x] = z[x]) /\ z[c] = 0
  OBVIOUS
<1> HIDE DEF z
<1>3. SumFunction(f) = SumFunction(z) + f[c] - z[c]
  BY <1>2, SumChange
<1>4. f[c] \in Nat
  OBVIOUS
<1> QED
  BY <1>1, <1>2, <1>3, <1>4

\* No term of a sum of natural numbers is greater than the sum.
LEMMA SumAtLeast ==
  ASSUME NEW D, IsFiniteSet(D), NEW f \in [D -> Nat], NEW c \in D
  PROVE  f[c] <= SumFunction(f)
<1> DEFINE z == [f EXCEPT ![c] = 0]
<1>1. z \in [D -> Nat] /\ z \in [D -> Int] /\ f \in [D -> Int] /\ z[c] = 0
      /\ \A x \in D \ {c} : f[x] = z[x]
  OBVIOUS
<1> HIDE DEF z
<1>2. SumFunction(f) = SumFunction(z) + f[c] - z[c]
  BY <1>1, SumChange
<1>3. SumFunction(z) \in Nat
  BY <1>1, SumType
<1>4. f[c] \in Nat
  OBVIOUS
<1> QED
  BY <1>1, <1>2, <1>3, <1>4

(* Folds.                                                                   *)

\* The largest number of 1 .. k is k.
LEMMA MaxOf ==
  ASSUME NEW k \in Nat \ {0}
  PROVE  Max(1 .. k) = k /\ (1 .. k) \ {k} = 1 .. (k - 1)
<1>1. k \in 1 .. k /\ \A y \in 1 .. k : k >= y
  OBVIOUS
<1>2. \A x \in 1 .. k : (\A y \in 1 .. k : x >= y) => x = k
  BY <1>1
<1> QED
  BY <1>1, <1>2 DEF Max

\* The largest number of a nonempty subset of 1 .. n is in it.
LEMMA MaxIn ==
  ASSUME NEW n \in Nat, NEW s \in SUBSET (1 .. n), s # {}
  PROVE  Max(s) \in s
<1> DEFINE Up == {n - x : x \in s}
<1>1. Up \in SUBSET Nat /\ Up # {}
  <2>1. \A x \in s : x \in 1 .. n /\ n - x \in Nat
    OBVIOUS
  <2> QED
    BY <2>1
<1>2. PICK m \in Up : \A k \in Up : m <= k
  <2> HIDE DEF Up
  <2> QED
    BY <1>1, LeastNat
<1>3. PICK x \in s : m = n - x
  OBVIOUS
<1>4. \A y \in s : x >= y
  <2> TAKE y \in s
  <2>1. n - y \in Up
    OBVIOUS
  <2>2. m <= n - y
    BY <1>2, <2>1
  <2>3. x \in Int /\ y \in Int
    OBVIOUS
  <2> QED
    BY <1>3, <2>2, <2>3
<1> QED
  BY <1>4 DEF Max

\* What a fold's recursion computes on a set of positions, from its values on
\* smaller sets: op is a function on the values and the positions.
FoldOf(op, base, g, s) ==
  IF s = {} THEN base ELSE op[<<g[s \ {Max(s)}], Max(s)>>]

\* A solution of the recursion, with values in S, on the positions up to n.
Solution(n, S, op, base, g) ==
  /\ g \in [SUBSET (1 .. n) -> S]
  /\ \A s \in SUBSET (1 .. n) : g[s] = FoldOf(op, base, g, s)

\* The recursion has a solution, built from the small sets up.
LEMMA FoldDefined ==
  ASSUME NEW n \in Nat, NEW S, NEW base \in S, NEW op \in [S \X (1 .. n) -> S]
  PROVE  \E g : Solution(n, S, op, base, g)
<1> DEFINE D == 1 .. n
           Upto(k) == {r \in SUBSET D : Cardinality(r) <= k}
           Solves(g, k) == g \in [Upto(k) -> S] /\ \A s \in Upto(k) : g[s] = FoldOf(op, base, g, s)
           Fails == {k \in Nat : ~ \E g : Solves(g, k)}
<1>0. IsFiniteSet(D) /\ Cardinality(D) = n
  BY FS_Interval
<1>1. \A s \in SUBSET D : IsFiniteSet(s) /\ Cardinality(s) \in Nat /\ Cardinality(s) <= n
  <2> HIDE DEF D
  <2> QED
    BY <1>0, FS_Subset, FS_CardinalityType
<1>2. \A s \in SUBSET D : s # {} => Max(s) \in s /\ Max(s) \in D
  BY MaxIn
<1>3. op \in [S \X D -> S]
  OBVIOUS
<1> HIDE DEF D
<1>4. Fails = {}
  <2> SUFFICES ASSUME Fails # {} PROVE FALSE
    OBVIOUS
  <2>1. PICK k \in Fails : \A j \in Fails : k <= j
    <3>1. Fails \in SUBSET Nat
      OBVIOUS
    <3> HIDE DEF Fails
    <3> QED
      BY <3>1, LeastNat
  <2>2. k \in Nat /\ ~ \E g : Solves(g, k)
    OBVIOUS
  <2>3. CASE k = 0
    <3> DEFINE g == [s \in Upto(0) |-> base]
    <3>1. ASSUME NEW s \in Upto(0) PROVE s = {}
      BY <1>1, <3>1, FS_EmptySet
    <3>2. Solves(g, 0)
      BY <3>1 DEF FoldOf
    <3> QED
      BY <2>2, <2>3, <3>2
  <2>4. CASE k # 0
    <3>0. k - 1 \in Nat /\ ~ (k <= k - 1)
      BY <2>2, <2>4
    <3>1. k - 1 \notin Fails
      <4> HIDE DEF Fails
      <4> QED
        BY <2>1, <3>0
    <3>2. PICK g : Solves(g, k - 1)
      BY <3>0, <3>1
    <3> DEFINE h == [s \in Upto(k) |-> FoldOf(op, base, g, s)]
    <3>3. \A s \in Upto(k - 1) : s \in Upto(k) /\ h[s] = g[s]
      BY <1>1, <2>2, <3>2
    <3>4. ASSUME NEW s \in Upto(k), s # {}
          PROVE  s \ {Max(s)} \in Upto(k - 1) /\ Max(s) \in D
      <4>1. Max(s) \in s /\ Max(s) \in D /\ IsFiniteSet(s) /\ Cardinality(s) \in Nat
            /\ Cardinality(s) <= k
        BY <1>1, <1>2, <3>4
      <4>2. Cardinality(s \ {Max(s)}) = Cardinality(s) - 1
        BY <4>1, FS_RemoveElement
      <4> QED
        BY <2>2, <4>1, <4>2
    <3>5. ASSUME NEW s \in Upto(k) PROVE FoldOf(op, base, g, s) = FoldOf(op, base, h, s)
      <4>1. CASE s = {}
        BY <4>1 DEF FoldOf
      <4>2. CASE s # {}
        <5>1. h[s \ {Max(s)}] = g[s \ {Max(s)}]
          BY <3>3, <3>4, <4>2
        <5> QED
          BY <5>1 DEF FoldOf
      <4> QED
        BY <4>1, <4>2
    <3>6. ASSUME NEW s \in Upto(k) PROVE FoldOf(op, base, g, s) \in S
      <4>1. CASE s = {}
        BY <4>1 DEF FoldOf
      <4>2. CASE s # {}
        <5>1. g[s \ {Max(s)}] \in S /\ Max(s) \in D
          BY <3>2, <3>4, <4>2
        <5> QED
          BY <1>3, <4>2, <5>1 DEF FoldOf
      <4> QED
        BY <4>1, <4>2
    <3>7. Solves(h, k)
      BY <3>5, <3>6
    <3> QED
      BY <2>2, <3>7
  <2> QED
    BY <2>3, <2>4
<1>5. PICK g : Solves(g, n)
  BY <1>4
<1>6. Upto(n) = SUBSET D
  BY <1>1
<1> QED
  BY <1>5, <1>6 DEF D, Solution

\* What the recursion starts in and each of its steps keeps: T[k] are the
\* values that k steps may lead to.
LEMMA FoldClimbs ==
  ASSUME NEW n \in Nat, NEW T, NEW g,
         g[0] \in T[0],
         \A k \in 1 .. n : g[k - 1] \in T[k - 1] => g[k] \in T[k]
  PROVE  \A k \in 0 .. n : g[k] \in T[k]
<1> DEFINE Fails == {k \in 0 .. n : g[k] \notin T[k]}
<1> SUFFICES ASSUME Fails # {} PROVE FALSE
  OBVIOUS
<1>1. PICK k \in Fails : \A j \in Fails : k <= j
  <2>1. Fails \in SUBSET Nat
    OBVIOUS
  <2> HIDE DEF Fails
  <2> QED
    BY <2>1, LeastNat
<1>2. k # 0 /\ k \in 1 .. n
  OBVIOUS
<1>3. k - 1 \notin Fails
  <2>1. ~ (k <= k - 1)
    BY <1>2
  <2> HIDE DEF Fails
  <2> QED
    BY <1>1, <2>1
<1>4. k - 1 \in 0 .. n
  BY <1>2
<1> QED
  BY <1>2, <1>3, <1>4

\* The positions up to one.
LEMMA UpTo ==
  ASSUME NEW n \in Nat, NEW k \in 1 .. n
  PROVE  /\ 1 .. k \in SUBSET (1 .. n) /\ 1 .. k # {} /\ k - 1 \in 0 .. n /\ k \in 0 .. n
         /\ Max(1 .. k) = k /\ (1 .. k) \ {k} = 1 .. (k - 1)
<1>1. 1 .. k \in SUBSET (1 .. n) /\ 1 .. k # {} /\ k \in Nat \ {0} /\ k - 1 \in 0 .. n /\ k \in 0 .. n
  OBVIOUS
<1> QED
  BY <1>1, MaxOf

\* A function on 0 .. n that each number takes from the one before.
Chain(n, S, op, base, h) ==
  h \in [0 .. n -> S] /\ h[0] = base /\ \A k \in 1 .. n : h[k] = op[h[k - 1]]

\* There is one.
LEMMA ChainDefined ==
  ASSUME NEW n \in Nat, NEW S, NEW base \in S, NEW op \in [S -> S]
  PROVE  \E h : Chain(n, S, op, base, h)
<1> DEFINE op2 == [p \in S \X (1 .. n) |-> op[p[1]]]
<1>1. op2 \in [S \X (1 .. n) -> S]
  OBVIOUS
<1>2. PICK g : Solution(n, S, op2, base, g)
  <2> HIDE DEF op2
  <2> QED
    BY <1>1, FoldDefined
<1> DEFINE h == [k \in 0 .. n |-> g[1 .. k]]
<1>3. g[{}] = base /\ 1 .. 0 = {} /\ 0 \in 0 .. n
  <2>1. {} \in SUBSET (1 .. n) /\ 1 .. 0 = {} /\ 0 \in 0 .. n
    OBVIOUS
  <2> HIDE DEF op2
  <2>2. g[{}] = base
    BY <1>2, <2>1 DEF Solution, FoldOf
  <2> QED
    BY <2>1, <2>2
<1>4. h[0] = base
  BY <1>3
<1>5. ASSUME NEW k \in 1 .. n PROVE h[k] = op[h[k - 1]]
  <2>1. /\ 1 .. k \in SUBSET (1 .. n) /\ 1 .. k # {} /\ k - 1 \in 0 .. n /\ k \in 0 .. n
        /\ Max(1 .. k) = k /\ (1 .. k) \ {k} = 1 .. (k - 1)
    BY UpTo
  <2>2. g[1 .. k] = op2[<<g[1 .. (k - 1)], k>>]
    <3> HIDE DEF op2
    <3>1. g[1 .. k] = FoldOf(op2, base, g, 1 .. k)
      BY <1>2, <2>1 DEF Solution
    <3>2. FoldOf(op2, base, g, 1 .. k) = op2[<<g[(1 .. k) \ {Max(1 .. k)}], Max(1 .. k)>>]
      BY <2>1 DEF FoldOf
    <3> QED
      BY <2>1, <3>1, <3>2
  <2>3. 1 .. (k - 1) \in SUBSET (1 .. n)
    BY <2>1
  <2>4. g[1 .. (k - 1)] \in S
    BY <1>2, <2>3 DEF Solution
  <2> QED
    BY <2>1, <2>2, <2>4
<1>6. h \in [0 .. n -> S]
  <2>1. \A k \in 0 .. n : 1 .. k \in SUBSET (1 .. n)
    OBVIOUS
  <2> QED
    BY <1>2, <2>1 DEF Solution
<1> HIDE DEF h
<1> QED
  BY <1>4, <1>5, <1>6 DEF Chain
-----------------------------------------------------------------------------
(* How often a value occurs in a sequence.                                  *)

One(x, y) == IF x = y THEN 1 ELSE 0

\* The positions of a value in a sequence are finitely many.
LEMMA AtPlaces ==
  ASSUME NEW S, NEW s \in Seq(S), NEW x
  PROVE  /\ IsFiniteSet({i \in 1 .. Len(s) : s[i] = x})
         /\ At(s, x) = Cardinality({i \in 1 .. Len(s) : s[i] = x})
         /\ At(s, x) \in Nat
<1> DEFINE P == {i \in 1 .. Len(s) : s[i] = x}
<1>1. Len(s) \in Nat /\ DOMAIN s = 1 .. Len(s)
  OBVIOUS
<1>2. At(s, x) = Cardinality(P)
  BY <1>1 DEF At
<1>3. P \subseteq 1 .. Len(s) /\ IsFiniteSet(1 .. Len(s))
  BY <1>1, FS_Interval
<1> HIDE DEF P
<1>4. IsFiniteSet(P) /\ Cardinality(P) \in Nat
  BY <1>3, FS_Subset, FS_CardinalityType
<1> QED
  BY <1>2, <1>4 DEF P

\* Sets of positions of the same size.
LEMMA SameSize ==
  ASSUME NEW A, NEW B, IsFiniteSet(A), NEW f \in [A -> B],
         \A x, y \in A : f[x] = f[y] => x = y,
         \A z \in B : \E x \in A : f[x] = z
  PROVE  Cardinality(B) = Cardinality(A) /\ IsFiniteSet(B)
<1>1. f \in Bijection(A, B)
  BY DEF Bijection, Injection, Surjection, IsInjective
<1>2. ExistsBijection(A, B)
  BY <1>1 DEF ExistsBijection
<1> QED
  BY <1>2, FS_Bijection

\* The occurrences in two sequences, one after the other, add up.
LEMMA AtConcat ==
  ASSUME NEW S, NEW s \in Seq(S), NEW r \in Seq(S), NEW x
  PROVE  At(s \o r, x) = At(s, x) + At(r, x)
<1> DEFINE n == Len(s)
           m == Len(r)
           P == {i \in 1 .. n : s[i] = x}
           R == {i \in 1 .. m : r[i] = x}
           Q == {i \in 1 .. (n + m) : (s \o r)[i] = x}
           H == {i \in Q : i > n}
           f == [i \in R |-> i + n]
<1>1. n \in Nat /\ m \in Nat /\ s \o r \in Seq(S) /\ Len(s \o r) = n + m
  OBVIOUS
<1>2. \A i \in 1 .. (n + m) : (s \o r)[i] = IF i <= n THEN s[i] ELSE r[i - n]
  BY ConcatProperties
<1>3. /\ At(s, x) = Cardinality(P) /\ IsFiniteSet(P) /\ Cardinality(P) \in Nat
      /\ At(r, x) = Cardinality(R) /\ IsFiniteSet(R) /\ Cardinality(R) \in Nat
      /\ At(s \o r, x) = Cardinality(Q)
  <2>1. At(s, x) = Cardinality(P) /\ IsFiniteSet(P) /\ At(s, x) \in Nat
    BY AtPlaces
  <2>2. At(r, x) = Cardinality(R) /\ IsFiniteSet(R) /\ At(r, x) \in Nat
    BY AtPlaces
  <2>3. At(s \o r, x) = Cardinality({i \in 1 .. Len(s \o r) : (s \o r)[i] = x})
    BY <1>1, AtPlaces
  <2> QED
    BY <2>1, <2>2, <2>3, <1>1
<1>4. Cardinality(H) = Cardinality(R) /\ IsFiniteSet(H)
  <2> HIDE DEF n, m
  <2>1. \A i \in R : i + n \in H
    BY <1>1, <1>2
  <2>2. f \in [R -> H] /\ (\A i, j \in R : f[i] = f[j] => i = j)
    BY <1>1, <2>1
  <2>3. \A j \in H : j - n \in R /\ f[j - n] = j
    BY <1>1, <1>2
  <2>4. IsFiniteSet(R)
    BY <1>3
  <2> HIDE DEF R, H, f
  <2> QED
    BY <2>2, <2>3, <2>4, SameSize
<1>5. Q = P \union H /\ P \intersect H = {}
  <2> HIDE DEF n, m
  <2> QED
    BY <1>1, <1>2
<1> HIDE DEF P, R, Q, H, f, n, m
<1>6. Cardinality(Q) = Cardinality(P) + Cardinality(H) - Cardinality({})
  BY <1>3, <1>4, <1>5, FS_Union
<1> QED
  BY <1>3, <1>4, <1>6, FS_EmptySet

\* Nothing occurs in the empty sequence, and one value in a sequence of one.
LEMMA AtShort ==
  ASSUME NEW x
  PROVE  At(<<>>, x) = 0 /\ \A y : At(<<y>>, x) = One(y, x)
<1>1. At(<<>>, x) = 0
  <2>1. {i \in DOMAIN <<>> : <<>>[i] = x} = {}
    OBVIOUS
  <2> QED
    BY <2>1, FS_EmptySet DEF At
<1>2. ASSUME NEW y PROVE At(<<y>>, x) = One(y, x)
  <2>1. DOMAIN <<y>> = {1} /\ <<y>>[1] = y
    OBVIOUS
  <2>2. CASE y = x
    <3>1. {i \in DOMAIN <<y>> : <<y>>[i] = x} = {1}
      BY <2>1, <2>2
    <3> QED
      BY <3>1, <2>2, FS_Singleton DEF At, One
  <2>3. CASE y # x
    <3>1. {i \in DOMAIN <<y>> : <<y>>[i] = x} = {}
      BY <2>1, <2>3
    <3> QED
      BY <3>1, <2>3, FS_EmptySet DEF At, One
  <2> QED
    BY <2>2, <2>3
<1> QED
  BY <1>1, <1>2

\* A sequence and the rest of it.
LEMMA AtTail ==
  ASSUME NEW S, NEW s \in Seq(S), s # <<>>, NEW x
  PROVE  /\ s[1] \in S
         /\ Tail(s) \in Seq(S) /\ Len(s) \in Nat /\ Len(Tail(s)) = Len(s) - 1
         /\ At(s, x) = One(s[1], x) + At(Tail(s), x)
         /\ At(Tail(s), x) \in Nat
<1>1. s[1] \in S /\ Tail(s) \in Seq(S) /\ Len(s) \in Nat /\ Len(Tail(s)) = Len(s) - 1
  OBVIOUS
<1>2. <<s[1]>> \in Seq(S) /\ s = <<s[1]>> \o Tail(s)
  <2>1. <<s[1]>> \in Seq(S) /\ <<s[1]>> \o Tail(s) \in Seq(S)
        /\ Len(<<s[1]>> \o Tail(s)) = Len(s)
    BY <1>1
  <2>2. \A i \in 1 .. Len(s) : (<<s[1]>> \o Tail(s))[i] = s[i]
    BY <1>1
  <2> QED
    BY <2>1, <2>2, SeqEqual
<1>3. At(s, x) = At(<<s[1]>>, x) + At(Tail(s), x)
  <2>1. At(<<s[1]>> \o Tail(s), x) = At(<<s[1]>>, x) + At(Tail(s), x)
    BY <1>1, <1>2, AtConcat
  <2> QED
    BY <1>2, <2>1, Zenon
<1>4. At(Tail(s), x) \in Nat
  BY <1>1, AtPlaces
<1> QED
  BY <1>1, <1>3, <1>4, AtShort

\* A sequence and a value put before it.
LEMMA AtCons ==
  ASSUME NEW S, NEW s \in Seq(S), NEW y \in S, NEW x
  PROVE  At(<<y>> \o s, x) = One(y, x) + At(s, x)
<1>1. <<y>> \in Seq(S)
  OBVIOUS
<1>2. At(<<y>> \o s, x) = At(<<y>>, x) + At(s, x)
  BY <1>1, AtConcat
<1> QED
  BY <1>2, AtShort

\* A sequence and a value put after it.
LEMMA AtAppend ==
  ASSUME NEW S, NEW s \in Seq(S), NEW y \in S, NEW x
  PROVE  At(Append(s, y), x) = At(s, x) + One(y, x)
<1>1. <<y>> \in Seq(S)
  OBVIOUS
<1>2. Append(s, y) = s \o <<y>>
  BY AppendIsConcat
<1>3. At(s \o <<y>>, x) = At(s, x) + At(<<y>>, x)
  BY <1>1, AtConcat
<1> QED
  BY <1>2, <1>3, AtShort

\* A sequence and its two parts.
LEMMA AtSplit ==
  ASSUME NEW S, NEW s \in Seq(S), NEW n \in 0 .. Len(s), NEW x
  PROVE  /\ SubSeq(s, 1, n) \in Seq(S) /\ Drop(s, n) \in Seq(S)
         /\ Len(SubSeq(s, 1, n)) = n
         /\ At(s, x) = At(SubSeq(s, 1, n), x) + At(Drop(s, n), x)
<1>1. Len(s) \in Nat /\ n \in Nat /\ n <= Len(s)
  OBVIOUS
<1>2. SubSeq(s, 1, n) \in Seq(S) /\ Len(SubSeq(s, 1, n)) = n
  BY <1>1, SubSeqProperties
<1>3. SubSeq(s, n + 1, Len(s)) \in Seq(S)
  BY <1>1, SubSeqProperties
<1>4. SubSeq(s, 1, n) \o SubSeq(s, n + 1, Len(s)) = SubSeq(s, 1, Len(s))
  <2>1. /\ 1 \in 1 .. Len(s) + 1 /\ n \in (1 - 1) .. Len(s)
        /\ Len(s) \in n .. Len(s)
    BY <1>1
  <2> QED
    BY <2>1, ConcatAdjacentSubSeq
<1>5. SubSeq(s, 1, Len(s)) = s
  BY SubSeqFull
<1>6. At(SubSeq(s, 1, n) \o SubSeq(s, n + 1, Len(s)), x)
        = At(SubSeq(s, 1, n), x) + At(SubSeq(s, n + 1, Len(s)), x)
  BY <1>2, <1>3, AtConcat
<1> QED
  BY <1>2, <1>3, <1>4, <1>5, <1>6 DEF Drop

\* A sequence the other way round.
LEMMA AtReverse ==
  ASSUME NEW S, NEW s \in Seq(S), NEW x
  PROVE  Reverse(s) \in Seq(S) /\ At(Reverse(s), x) = At(s, x)
<1> DEFINE n == Len(s)
           P == {i \in 1 .. n : s[i] = x}
           R == {i \in 1 .. n : Reverse(s)[i] = x}
           f == [i \in P |-> n - i + 1]
<1>1. n \in Nat /\ DOMAIN s = 1 .. n
  OBVIOUS
<1>2. Reverse(s) = [i \in 1 .. n |-> s[n - i + 1]]
  BY DEF Reverse
<1>3. Reverse(s) \in [1 .. n -> S]
  <2>1. \A i \in 1 .. n : n - i + 1 \in 1 .. n
    BY <1>1
  <2>2. \A i \in 1 .. n : s[n - i + 1] \in S
    BY <2>1
  <2> QED
    BY <1>2, <2>2
<1>4. Reverse(s) \in Seq(S) /\ Len(Reverse(s)) = n
  BY <1>1, <1>3
<1>5. At(s, x) = Cardinality(P) /\ IsFiniteSet(P)
  BY AtPlaces
<1>6. At(Reverse(s), x) = Cardinality(R)
  <2>1. At(Reverse(s), x) = Cardinality({i \in 1 .. Len(Reverse(s)) : Reverse(s)[i] = x})
    BY <1>4, AtPlaces
  <2> QED
    BY <1>4, <2>1
<1>7. Cardinality(R) = Cardinality(P)
  <2> HIDE DEF n
  <2>1. \A i \in 1 .. n : n - i + 1 \in 1 .. n /\ n - (n - i + 1) + 1 = i
    BY <1>1
  <2>2. \A i \in 1 .. n : Reverse(s)[i] = s[n - i + 1]
    BY <1>2
  <2>3. f \in [P -> R] /\ \A i, j \in P : f[i] = f[j] => i = j
    BY <1>1, <2>1, <2>2
  <2>4. \A j \in R : n - j + 1 \in P /\ f[n - j + 1] = j
    BY <2>1, <2>2
  <2>5. IsFiniteSet(P)
    BY <1>5
  <2> HIDE DEF P, R, f
  <2>6. \A j \in R : \E i \in P : f[i] = j
    BY <2>4
  <2> QED
    BY <2>3, <2>5, <2>6, SameSize
<1> QED
  BY <1>4, <1>5, <1>6, <1>7
-----------------------------------------------------------------------------
(* The queues.                                                              *)

VecEntry == [id : 0 .. NVec, node : Vec, tick : Nat]
DataEntry == [id : Data, node : Vec, tick : Nat]

\* The ids and the nodes of a queue's entries, in their order.
LEMMA EntrySeqs ==
  ASSUME NEW S, NEW I, NEW V, \A e \in S : e.id \in I /\ e.node \in V, NEW q \in Seq(S)
  PROVE  /\ Ids(q) \in Seq(I) /\ Len(Ids(q)) = Len(q)
         /\ Nodes(q) \in Seq(V) /\ Len(Nodes(q)) = Len(q)
         /\ \A i \in 1 .. Len(q) : Ids(q)[i] = q[i].id /\ Nodes(q)[i] = q[i].node
<1>1. Len(q) \in Nat /\ DOMAIN q = 1 .. Len(q) /\ \A i \in 1 .. Len(q) : q[i] \in S
  OBVIOUS
<1>2. Ids(q) = [i \in 1 .. Len(q) |-> q[i].id] /\ Nodes(q) = [i \in 1 .. Len(q) |-> q[i].node]
  BY <1>1 DEF Ids, Nodes
<1>3. Ids(q) \in [1 .. Len(q) -> I] /\ Nodes(q) \in [1 .. Len(q) -> V]
  BY <1>1, <1>2
<1> QED
  BY <1>1, <1>2, <1>3

\* The queue without its first entry.
LEMMA EntryTail ==
  ASSUME NEW S, NEW q \in Seq(S), q # <<>>, NEW x
  PROVE  /\ q[1] \in S /\ Tail(q) \in Seq(S)
         /\ At(Ids(q), x) = One(q[1].id, x) + At(Ids(Tail(q)), x)
         /\ At(Nodes(q), x) = One(q[1].node, x) + At(Nodes(Tail(q)), x)
         /\ At(Ids(Tail(q)), x) \in Nat /\ At(Nodes(Tail(q)), x) \in Nat
<1> DEFINE I == {e.id : e \in S}
           V == {e.node : e \in S}
<1>0a. \A e \in S : e.id \in I /\ e.node \in V
  OBVIOUS
<1> HIDE DEF I, V
<1>1. /\ q[1] \in S /\ Tail(q) \in Seq(S) /\ Len(q) \in Nat \ {0} /\ Len(Tail(q)) = Len(q) - 1
      /\ \A i \in 1 .. Len(Tail(q)) : Tail(q)[i] = q[i + 1]
  OBVIOUS
<1>0. \A r \in Seq(S) :
        /\ Ids(r) \in Seq(I) /\ Len(Ids(r)) = Len(r)
        /\ Nodes(r) \in Seq(V) /\ Len(Nodes(r)) = Len(r)
        /\ \A i \in 1 .. Len(r) : Ids(r)[i] = r[i].id /\ Nodes(r)[i] = r[i].node
  BY <1>0a, EntrySeqs
<1>2. /\ Ids(q) \in Seq(I) /\ Len(Ids(q)) = Len(q)
      /\ Nodes(q) \in Seq(V) /\ Len(Nodes(q)) = Len(q)
      /\ \A i \in 1 .. Len(q) : Ids(q)[i] = q[i].id /\ Nodes(q)[i] = q[i].node
  BY <1>0
<1>3. /\ Ids(Tail(q)) \in Seq(I) /\ Len(Ids(Tail(q))) = Len(Tail(q))
      /\ Nodes(Tail(q)) \in Seq(V) /\ Len(Nodes(Tail(q))) = Len(Tail(q))
      /\ \A i \in 1 .. Len(Tail(q)) : Ids(Tail(q))[i] = Tail(q)[i].id
                                      /\ Nodes(Tail(q))[i] = Tail(q)[i].node
  BY <1>0, <1>1
<1>4. Ids(q) # <<>> /\ Nodes(q) # <<>>
  BY <1>1, <1>2
<1>5. /\ Tail(Ids(q)) \in Seq(I) /\ Len(Tail(Ids(q))) = Len(q) - 1
      /\ \A i \in 1 .. Len(q) - 1 : Tail(Ids(q))[i] = Ids(q)[i + 1]
      /\ Tail(Nodes(q)) \in Seq(V) /\ Len(Tail(Nodes(q))) = Len(q) - 1
      /\ \A i \in 1 .. Len(q) - 1 : Tail(Nodes(q))[i] = Nodes(q)[i + 1]
  BY <1>2, <1>4
<1>6. \A i \in 1 .. Len(q) - 1 : i \in 1 .. Len(Tail(q)) /\ i + 1 \in 1 .. Len(q)
  BY <1>1
<1>7. Tail(Ids(q)) = Ids(Tail(q))
  <2>1. \A i \in 1 .. Len(Tail(Ids(q))) : Tail(Ids(q))[i] = Ids(Tail(q))[i]
    BY <1>1, <1>2, <1>3, <1>5, <1>6
  <2> QED
    BY <1>1, <1>3, <1>5, <2>1, SeqEqual
<1>8. Tail(Nodes(q)) = Nodes(Tail(q))
  <2>1. \A i \in 1 .. Len(Tail(Nodes(q))) : Tail(Nodes(q))[i] = Nodes(Tail(q))[i]
    BY <1>1, <1>2, <1>3, <1>5, <1>6
  <2> QED
    BY <1>1, <1>3, <1>5, <2>1, SeqEqual
<1>9. /\ At(Ids(q), x) = One(Ids(q)[1], x) + At(Tail(Ids(q)), x) /\ At(Tail(Ids(q)), x) \in Nat
      /\ At(Nodes(q), x) = One(Nodes(q)[1], x) + At(Tail(Nodes(q)), x)
      /\ At(Tail(Nodes(q)), x) \in Nat
  BY <1>2, <1>4, AtTail
<1>10. Ids(q)[1] = q[1].id /\ Nodes(q)[1] = q[1].node
  BY <1>1, <1>2
<1> QED
  BY <1>1, <1>7, <1>8, <1>9, <1>10

\* The queue with one entry more.
LEMMA EntryAppend ==
  ASSUME NEW S, NEW q \in Seq(S), NEW e \in S, NEW x
  PROVE  /\ Append(q, e) \in Seq(S)
         /\ At(Ids(Append(q, e)), x) = At(Ids(q), x) + One(e.id, x)
         /\ At(Nodes(Append(q, e)), x) = At(Nodes(q), x) + One(e.node, x)
<1> DEFINE I == {d.id : d \in S}
           V == {d.node : d \in S}
<1>0a. \A d \in S : d.id \in I /\ d.node \in V
  OBVIOUS
<1> HIDE DEF I, V
<1> DEFINE r == Append(q, e)
<1>1. /\ r \in Seq(S) /\ Len(q) \in Nat /\ Len(r) = Len(q) + 1
      /\ (\A i \in 1 .. Len(q) : r[i] = q[i]) /\ r[Len(q) + 1] = e
  BY AppendProperties
<1> HIDE DEF r
<1>2. /\ Ids(q) \in Seq(I) /\ Len(Ids(q)) = Len(q)
      /\ Nodes(q) \in Seq(V) /\ Len(Nodes(q)) = Len(q)
      /\ \A i \in 1 .. Len(q) : Ids(q)[i] = q[i].id /\ Nodes(q)[i] = q[i].node
  BY <1>0a, EntrySeqs
<1>3. /\ Ids(r) \in Seq(I) /\ Len(Ids(r)) = Len(r)
      /\ Nodes(r) \in Seq(V) /\ Len(Nodes(r)) = Len(r)
      /\ \A i \in 1 .. Len(r) : Ids(r)[i] = r[i].id /\ Nodes(r)[i] = r[i].node
  BY <1>1, <1>0a, EntrySeqs
<1>4. e.id \in I /\ e.node \in V
  BY <1>0a
<1>5. /\ Append(Ids(q), e.id) \in Seq(I) /\ Len(Append(Ids(q), e.id)) = Len(q) + 1
      /\ (\A i \in 1 .. Len(q) : Append(Ids(q), e.id)[i] = Ids(q)[i])
      /\ Append(Ids(q), e.id)[Len(q) + 1] = e.id
  BY <1>2, <1>4, AppendProperties
<1>6. /\ Append(Nodes(q), e.node) \in Seq(V) /\ Len(Append(Nodes(q), e.node)) = Len(q) + 1
      /\ (\A i \in 1 .. Len(q) : Append(Nodes(q), e.node)[i] = Nodes(q)[i])
      /\ Append(Nodes(q), e.node)[Len(q) + 1] = e.node
  BY <1>2, <1>4, AppendProperties
<1>7. \A i \in 1 .. Len(r) : i \in 1 .. Len(q) \/ i = Len(q) + 1
  BY <1>1
<1>8. Ids(r) = Append(Ids(q), e.id)
  <2>1. ASSUME NEW i \in 1 .. Len(Ids(r)) PROVE Ids(r)[i] = Append(Ids(q), e.id)[i]
    <3>1. i \in 1 .. Len(r) /\ Ids(r)[i] = r[i].id
      BY <1>3
    <3>2. CASE i \in 1 .. Len(q)
      BY <1>1, <1>2, <1>5, <3>1, <3>2
    <3>3. CASE i = Len(q) + 1
      BY <1>1, <1>5, <3>1, <3>3
    <3> QED
      BY <1>7, <3>1, <3>2, <3>3
  <2> QED
    BY <1>1, <1>3, <1>5, <2>1, SeqEqual
<1>9. Nodes(r) = Append(Nodes(q), e.node)
  <2>1. ASSUME NEW i \in 1 .. Len(Nodes(r)) PROVE Nodes(r)[i] = Append(Nodes(q), e.node)[i]
    <3>1. i \in 1 .. Len(r) /\ Nodes(r)[i] = r[i].node
      BY <1>3
    <3>2. CASE i \in 1 .. Len(q)
      BY <1>1, <1>2, <1>6, <3>1, <3>2
    <3>3. CASE i = Len(q) + 1
      BY <1>1, <1>6, <3>1, <3>3
    <3> QED
      BY <1>7, <3>1, <3>2, <3>3
  <2> QED
    BY <1>1, <1>3, <1>6, <2>1, SeqEqual
<1>10. /\ At(Append(Ids(q), e.id), x) = At(Ids(q), x) + One(e.id, x)
       /\ At(Append(Nodes(q), e.node), x) = At(Nodes(q), x) + One(e.node, x)
  <2>1. At(Append(Ids(q), e.id), x) = At(Ids(q), x) + One(e.id, x)
    <3> DEFINE p == Ids(q)
               y == e.id
    <3>1. p \in Seq(I) /\ y \in I
      BY <1>2, <1>4
    <3> HIDE DEF p, y
    <3>2. At(Append(p, y), x) = At(p, x) + One(y, x)
      BY <3>1, AtAppend
    <3> QED
      BY <3>2 DEF p, y
  <2>2. At(Append(Nodes(q), e.node), x) = At(Nodes(q), x) + One(e.node, x)
    <3> DEFINE p == Nodes(q)
               y == e.node
    <3>1. p \in Seq(V) /\ y \in V
      BY <1>2, <1>4
    <3> HIDE DEF p, y
    <3>2. At(Append(p, y), x) = At(p, x) + One(y, x)
      BY <3>1, AtAppend
    <3> QED
      BY <3>2 DEF p, y
  <2> QED
    BY <2>1, <2>2
<1> QED
  BY <1>1, <1>8, <1>9, <1>10 DEF r

\* The entries that are swept out of a queue, and those that stay.
LEMMA EntrySplit ==
  ASSUME NEW S, NEW q \in Seq(S), NEW n \in 0 .. Len(q), NEW x
  PROVE  /\ SubSeq(q, 1, n) \in Seq(S) /\ Drop(q, n) \in Seq(S) /\ Len(SubSeq(q, 1, n)) = n
         /\ At(Ids(q), x) = At(Ids(SubSeq(q, 1, n)), x) + At(Ids(Drop(q, n)), x)
         /\ At(Nodes(q), x) = At(Nodes(SubSeq(q, 1, n)), x) + At(Nodes(Drop(q, n)), x)
<1> DEFINE I == {e.id : e \in S}
           V == {e.node : e \in S}
<1>0a. \A e \in S : e.id \in I /\ e.node \in V
  OBVIOUS
<1> HIDE DEF I, V
<1> DEFINE a == SubSeq(q, 1, n)
           b == Drop(q, n)
<1>0. Len(q) \in Nat /\ n \in Nat /\ n <= Len(q)
  OBVIOUS
<1>1. a \in Seq(S) /\ b \in Seq(S) /\ Len(a) = n
  BY AtSplit
<1>2. Len(b) = Len(q) - n /\ \A i \in 1 .. Len(b) : b[i] = q[n + i]
  <2>1. \A i \in n + 1 .. Len(q) : q[i] \in S
    BY <1>0
  <2>2. /\ Len(SubSeq(q, n + 1, Len(q))) = IF n + 1 <= Len(q) THEN Len(q) - (n + 1) + 1 ELSE 0
        /\ \A i \in 1 .. Len(q) - (n + 1) + 1 : SubSeq(q, n + 1, Len(q))[i] = q[n + 1 + i - 1]
    BY <1>0, <2>1, SubSeqProperties
  <2>3. Len(b) = Len(q) - n
    BY <1>0, <2>2 DEF Drop
  <2>4. \A i \in 1 .. Len(b) : b[i] = q[n + 1 + i - 1]
    BY <1>0, <2>2, <2>3 DEF Drop
  <2>5. \A i \in 1 .. Len(b) : n + 1 + i - 1 = n + i
    BY <1>0
  <2> QED
    BY <2>3, <2>4, <2>5
<1>3. \A i \in 1 .. n : a[i] = q[i]
  <2>1. \A i \in 1 .. n : q[i] \in S
    BY <1>0
  <2>2. \A i \in 1 .. n - 1 + 1 : SubSeq(q, 1, n)[i] = q[1 + i - 1]
    BY <1>0, <2>1, SubSeqProperties
  <2>3. \A i \in 1 .. n : i \in 1 .. n - 1 + 1 /\ 1 + i - 1 = i
    BY <1>0
  <2> QED
    BY <2>2, <2>3
<1> HIDE DEF a, b
<1>4. /\ Ids(q) \in Seq(I) /\ Len(Ids(q)) = Len(q)
      /\ Nodes(q) \in Seq(V) /\ Len(Nodes(q)) = Len(q)
      /\ \A i \in 1 .. Len(q) : Ids(q)[i] = q[i].id /\ Nodes(q)[i] = q[i].node
  BY <1>0a, EntrySeqs
<1>5. /\ Ids(a) \in Seq(I) /\ Len(Ids(a)) = n
      /\ Nodes(a) \in Seq(V) /\ Len(Nodes(a)) = n
      /\ \A i \in 1 .. n : Ids(a)[i] = a[i].id /\ Nodes(a)[i] = a[i].node
  BY <1>1, <1>0a, EntrySeqs
<1>6. /\ Ids(b) \in Seq(I) /\ Len(Ids(b)) = Len(b)
      /\ Nodes(b) \in Seq(V) /\ Len(Nodes(b)) = Len(b)
      /\ \A i \in 1 .. Len(b) : Ids(b)[i] = b[i].id /\ Nodes(b)[i] = b[i].node
  BY <1>1, <1>0a, EntrySeqs
<1>7. \A i \in 1 .. Len(q) : i > n => i - n \in 1 .. Len(b) /\ n + (i - n) = i
  BY <1>0, <1>2
<1>8. \A i \in 1 .. Len(q) : i <= n => i \in 1 .. n
  BY <1>0
<1>9. Ids(q) = Ids(a) \o Ids(b)
  <2>1. /\ Ids(a) \o Ids(b) \in Seq(I) /\ Len(Ids(a) \o Ids(b)) = n + Len(b)
        /\ \A i \in 1 .. n + Len(b) : (Ids(a) \o Ids(b))[i] =
             IF i <= n THEN Ids(a)[i] ELSE Ids(b)[i - n]
    <3>1. Ids(a) \in Seq(I) /\ Ids(b) \in Seq(I) /\ Len(Ids(a)) = n /\ Len(Ids(b)) = Len(b)
      BY <1>5, <1>6
    <3>2. /\ Ids(a) \o Ids(b) \in Seq(I)
          /\ Len(Ids(a) \o Ids(b)) = Len(Ids(a)) + Len(Ids(b))
          /\ \A i \in 1 .. Len(Ids(a)) + Len(Ids(b)) : (Ids(a) \o Ids(b))[i] =
               IF i <= Len(Ids(a)) THEN Ids(a)[i] ELSE Ids(b)[i - Len(Ids(a))]
      BY <3>1, ConcatProperties, Zenon
    <3> QED
      BY <3>1, <3>2
  <2>2. n + Len(b) = Len(q)
    BY <1>0, <1>2
  <2>3. \A i \in 1 .. Len(q) : Ids(q)[i] = (Ids(a) \o Ids(b))[i]
    <3> TAKE i \in 1 .. Len(q)
    <3>1. CASE i <= n
      BY <3>1, <1>3, <1>4, <1>5, <1>8, <2>1, <2>2
    <3>2. CASE i > n
      <4>1. ~ (i <= n)
        <5>1. i \in Int /\ n \in Int
          BY <1>0
        <5> QED
          BY <3>2, <5>1
      <4>2. (Ids(a) \o Ids(b))[i] = Ids(b)[i - n]
        BY <4>1, <2>1, <2>2
      <4>3. Ids(b)[i - n] = q[i].id
        BY <3>2, <1>2, <1>6, <1>7
      <4> QED
        BY <1>4, <4>2, <4>3
    <3>3. i \in Int /\ n \in Int
      BY <1>0
    <3>4. i <= n \/ i > n
      BY <3>3
    <3> QED
      BY <3>1, <3>2, <3>4
  <2> QED
    BY <1>4, <2>1, <2>2, <2>3, SeqEqual
<1>10. Nodes(q) = Nodes(a) \o Nodes(b)
  <2>1. /\ Nodes(a) \o Nodes(b) \in Seq(V) /\ Len(Nodes(a) \o Nodes(b)) = n + Len(b)
        /\ \A i \in 1 .. n + Len(b) : (Nodes(a) \o Nodes(b))[i] =
             IF i <= n THEN Nodes(a)[i] ELSE Nodes(b)[i - n]
    <3>1. Nodes(a) \in Seq(V) /\ Nodes(b) \in Seq(V) /\ Len(Nodes(a)) = n /\ Len(Nodes(b)) = Len(b)
      BY <1>5, <1>6
    <3>2. /\ Nodes(a) \o Nodes(b) \in Seq(V)
          /\ Len(Nodes(a) \o Nodes(b)) = Len(Nodes(a)) + Len(Nodes(b))
          /\ \A i \in 1 .. Len(Nodes(a)) + Len(Nodes(b)) : (Nodes(a) \o Nodes(b))[i] =
               IF i <= Len(Nodes(a)) THEN Nodes(a)[i] ELSE Nodes(b)[i - Len(Nodes(a))]
      BY <3>1, ConcatProperties, Zenon
    <3> QED
      BY <3>1, <3>2
  <2>2. n + Len(b) = Len(q)
    BY <1>0, <1>2
  <2>3. \A i \in 1 .. Len(q) : Nodes(q)[i] = (Nodes(a) \o Nodes(b))[i]
    <3> TAKE i \in 1 .. Len(q)
    <3>1. CASE i <= n
      BY <3>1, <1>3, <1>4, <1>5, <1>8, <2>1, <2>2
    <3>2. CASE i > n
      <4>1. ~ (i <= n)
        <5>1. i \in Int /\ n \in Int
          BY <1>0
        <5> QED
          BY <3>2, <5>1
      <4>2. (Nodes(a) \o Nodes(b))[i] = Nodes(b)[i - n]
        BY <4>1, <2>1, <2>2
      <4>3. Nodes(b)[i - n] = q[i].node
        BY <3>2, <1>2, <1>6, <1>7
      <4> QED
        BY <1>4, <4>2, <4>3
    <3>3. i \in Int /\ n \in Int
      BY <1>0
    <3>4. i <= n \/ i > n
      BY <3>3
    <3> QED
      BY <3>1, <3>2, <3>4
  <2> QED
    BY <1>4, <2>1, <2>2, <2>3, SeqEqual
<1>11. /\ At(Ids(a) \o Ids(b), x) = At(Ids(a), x) + At(Ids(b), x)
       /\ At(Nodes(a) \o Nodes(b), x) = At(Nodes(a), x) + At(Nodes(b), x)
  BY <1>5, <1>6, AtConcat
<1> QED
  BY <1>1, <1>9, <1>10, <1>11 DEF a, b
-----------------------------------------------------------------------------
(* The memory a thread sees.                                                *)

Code == {OK, NOMEM, WAIT_AMT}

MemT == [rsv : Seq(Vec), vq : Seq(VecEntry), dq : Seq(DataEntry),
         vec : Seq(Vec), data : Seq(Data),
         code : Code, wait : BOOLEAN, nomem : BOOLEAN, dry : BOOLEAN]

\* How often a node, or a data block, is in that memory.
VecsAt(m, v) ==
  At(m.vec, v) + At(m.rsv, v) + At(Ids(m.vq), v) + At(Nodes(m.vq), v) + At(Nodes(m.dq), v)
DatasAt(m, d) == At(m.data, d) + At(Ids(m.dq), d)

\* Two memories hold the same nodes and data blocks, the same reserve, the same flags.
SameHeld(m, r) ==
  (\A v \in Vec : VecsAt(r, v) = VecsAt(m, v)) /\ (\A d \in Data : DatasAt(r, d) = DatasAt(m, d))
SameFlags(m, r) == r.wait = m.wait /\ r.nomem = m.nomem /\ r.dry = m.dry

\* A queue's entries have the fields the lemmas on queues ask for.
LEMMA Entries ==
  /\ \A e \in VecEntry : e.id \in 0 .. NVec /\ e.node \in Vec
  /\ \A e \in DataEntry : e.id \in Data /\ e.node \in Vec
BY DEF VecEntry, DataEntry

\* The counts are numbers.
LEMMA MemNumbers ==
  ASSUME NEW m \in MemT, NEW x
  PROVE  /\ At(m.vec, x) \in Nat /\ At(m.rsv, x) \in Nat /\ At(m.data, x) \in Nat
         /\ At(Ids(m.vq), x) \in Nat /\ At(Nodes(m.vq), x) \in Nat
         /\ At(Ids(m.dq), x) \in Nat /\ At(Nodes(m.dq), x) \in Nat
         /\ VecsAt(m, x) \in Nat /\ DatasAt(m, x) \in Nat
<1>1. m.vec \in Seq(Vec) /\ m.rsv \in Seq(Vec) /\ m.data \in Seq(Data)
      /\ m.vq \in Seq(VecEntry) /\ m.dq \in Seq(DataEntry)
  BY DEF MemT
<1>2. Ids(m.vq) \in Seq(0 .. NVec) /\ Nodes(m.vq) \in Seq(Vec)
  BY <1>1, Entries, EntrySeqs
<1>3. Ids(m.dq) \in Seq(Data) /\ Nodes(m.dq) \in Seq(Vec)
  BY <1>1, Entries, EntrySeqs
<1>4. At(m.vec, x) \in Nat /\ At(m.rsv, x) \in Nat /\ At(m.data, x) \in Nat
  BY <1>1, AtPlaces
<1>5. At(Ids(m.vq), x) \in Nat /\ At(Nodes(m.vq), x) \in Nat
      /\ At(Ids(m.dq), x) \in Nat /\ At(Nodes(m.dq), x) \in Nat
  BY <1>2, <1>3, AtPlaces
<1> QED
  BY <1>4, <1>5 DEF VecsAt, DatasAt

\* No id of a node, or of a data block, is Nil.
LEMMA NotNil == \A v \in Vec : v # Nil
BY BufAssumption DEF Vec, Nil

\* A node leaves the memory, and nothing else does.
Gives(m, r, id) ==
  /\ r \in MemT /\ r.rsv = m.rsv /\ r.code = m.code /\ SameFlags(m, r)
  /\ \A v \in Vec : VecsAt(r, v) + One(id, v) = VecsAt(m, v)
  /\ \A d \in Data : DatasAt(r, d) = DatasAt(m, d)

\* vec_alloc_combo gives one node, or none.
LEMMA VecAllocGives ==
  ASSUME NEW m \in MemT
  PROVE  VecAlloc(m).id \in 0 .. NVec /\ Gives(m, VecAlloc(m).m, VecAlloc(m).id)
<1>1. m.vec \in Seq(Vec) /\ m.vq \in Seq(VecEntry) /\ NVec \in Nat
  BY BufAssumption DEF MemT
<1>2. \A v \in Vec : /\ v \in 0 .. NVec /\ v \in Nat /\ One(v, v) = 1 /\ One(Nil, v) = 0
                     /\ \A x : One(x, v) \in Nat
  BY BufAssumption DEF Vec, Nil, One
<1>3. \A v : VecsAt(m, v) = At(m.vec, v) + At(m.rsv, v) + At(Ids(m.vq), v)
                            + At(Nodes(m.vq), v) + At(Nodes(m.dq), v)
  BY DEF VecsAt
<1>4. \A v : /\ At(m.vec, v) \in Nat /\ At(m.rsv, v) \in Nat
             /\ At(Ids(m.vq), v) \in Nat /\ At(Nodes(m.vq), v) \in Nat
             /\ At(Nodes(m.dq), v) \in Nat
  BY MemNumbers
<1>5. CASE m.vq # <<>> /\ m.vq[1].id = Nil
  <2> DEFINE r == [m EXCEPT !.vq = Tail(@)]
  <2>1. VecAlloc(m) = [id |-> m.vq[1].node, m |-> r]
    BY <1>5 DEF VecAlloc, Got
  <2>2. m.vq[1] \in VecEntry /\ Tail(m.vq) \in Seq(VecEntry)
    BY <1>1, <1>5
  <2>3. m.vq[1].node \in Vec
    BY <2>2, Entries
  <2>4. r \in MemT /\ r.rsv = m.rsv /\ r.code = m.code /\ SameFlags(m, r)
        /\ r.vec = m.vec /\ r.dq = m.dq /\ r.data = m.data /\ r.vq = Tail(m.vq)
    BY <2>2 DEF MemT, SameFlags
  <2>5. ASSUME NEW v \in Vec PROVE VecsAt(r, v) + One(m.vq[1].node, v) = VecsAt(m, v)
    <3>1. /\ At(Ids(m.vq), v) = One(Nil, v) + At(Ids(Tail(m.vq)), v)
          /\ At(Nodes(m.vq), v) = One(m.vq[1].node, v) + At(Nodes(Tail(m.vq)), v)
          /\ At(Ids(Tail(m.vq)), v) \in Nat /\ At(Nodes(Tail(m.vq)), v) \in Nat
      BY <1>1, <1>5, EntryTail
    <3>2. VecsAt(r, v) = At(m.vec, v) + At(m.rsv, v) + At(Ids(Tail(m.vq)), v)
                         + At(Nodes(Tail(m.vq)), v) + At(Nodes(m.dq), v)
      BY <2>4 DEF VecsAt
    <3> HIDE DEF r
    <3> QED
      BY <1>2, <1>3, <1>4, <3>1, <3>2
  <2>6. \A d : DatasAt(r, d) = DatasAt(m, d)
    BY <2>4 DEF DatasAt
  <2> HIDE DEF r
  <2> QED
    BY <1>2, <2>1, <2>3, <2>4, <2>5, <2>6 DEF Gives
<1>6. CASE ~ (m.vq # <<>> /\ m.vq[1].id = Nil) /\ m.vq # <<>> /\ Aged(m.vq[1])
  <2> DEFINE e == [m.vq[1] EXCEPT !.id = Nil]
             r == [m EXCEPT !.vq[1].id = Nil]
             q == [m.vq EXCEPT ![1] = e]
  <2>1. VecAlloc(m) = [id |-> m.vq[1].id, m |-> r]
    BY <1>6 DEF VecAlloc, Got
  <2>2. m.vq[1] \in VecEntry /\ Tail(m.vq) \in Seq(VecEntry)
    BY <1>1, <1>6
  <2>3. m.vq[1].id \in 0 .. NVec /\ e \in VecEntry /\ e.id = Nil /\ e.node = m.vq[1].node
    <3>1. \A x \in VecEntry : /\ x.id \in 0 .. NVec
                              /\ [x EXCEPT !.id = 0] \in [id : 0 .. NVec, node : Vec, tick : Nat]
                              /\ [x EXCEPT !.id = 0].id = 0 /\ [x EXCEPT !.id = 0].node = x.node
      BY <1>1 DEF VecEntry
    <3> QED
      BY <2>2, <3>1 DEF VecEntry, Nil
  <2>4. q \in Seq(VecEntry) /\ q # <<>> /\ q[1] = e /\ Tail(q) = Tail(m.vq)
    <3>1. 1 \in 1 .. Len(m.vq) /\ Len(m.vq) \in Nat
      BY <1>1, <1>6
    <3>2. q \in Seq(VecEntry) /\ Len(q) = Len(m.vq)
          /\ \A j \in 1 .. Len(m.vq) : q[j] = IF j = 1 THEN e ELSE m.vq[j]
      <4> HIDE DEF e
      <4> QED
        BY <1>1, <2>3, <3>1, ExceptSeq
    <3> HIDE DEF e, q
    <3>3. q # <<>> /\ q[1] = e
      BY <3>1, <3>2
    <3>4. /\ Tail(q) \in Seq(VecEntry) /\ Len(Tail(q)) = Len(m.vq) - 1
          /\ \A j \in 1 .. Len(m.vq) - 1 : Tail(q)[j] = q[j + 1]
      BY <3>2, <3>3
    <3>5. /\ Len(Tail(m.vq)) = Len(m.vq) - 1
          /\ \A j \in 1 .. Len(m.vq) - 1 : Tail(m.vq)[j] = m.vq[j + 1]
      BY <1>1, <1>6
    <3>6. \A j \in 1 .. Len(m.vq) - 1 : j + 1 \in 1 .. Len(m.vq) /\ j + 1 # 1
      BY <3>1
    <3>7. \A j \in 1 .. Len(Tail(q)) : Tail(q)[j] = Tail(m.vq)[j]
      BY <3>2, <3>4, <3>5, <3>6
    <3>8. Tail(q) = Tail(m.vq)
      BY <2>2, <3>4, <3>5, <3>7, SeqEqual
    <3> QED
      BY <3>2, <3>3, <3>8
  <2>5. r = [m EXCEPT !.vq = q]
    OBVIOUS
  <2> HIDE DEF e, q, r
  <2>6. r \in MemT /\ r.rsv = m.rsv /\ r.code = m.code /\ SameFlags(m, r)
        /\ r.vec = m.vec /\ r.dq = m.dq /\ r.data = m.data /\ r.vq = q
    BY <2>4, <2>5 DEF MemT, SameFlags
  <2>7. ASSUME NEW v \in Vec PROVE VecsAt(r, v) + One(m.vq[1].id, v) = VecsAt(m, v)
    <3>1. /\ At(Ids(m.vq), v) = One(m.vq[1].id, v) + At(Ids(Tail(m.vq)), v)
          /\ At(Nodes(m.vq), v) = One(m.vq[1].node, v) + At(Nodes(Tail(m.vq)), v)
          /\ At(Ids(Tail(m.vq)), v) \in Nat /\ At(Nodes(Tail(m.vq)), v) \in Nat
      BY <1>1, <1>6, EntryTail
    <3>2. /\ At(Ids(q), v) = One(q[1].id, v) + At(Ids(Tail(q)), v)
          /\ At(Nodes(q), v) = One(q[1].node, v) + At(Nodes(Tail(q)), v)
      BY <2>4, EntryTail
    <3>3. /\ At(Ids(q), v) = One(Nil, v) + At(Ids(Tail(m.vq)), v)
          /\ At(Nodes(q), v) = One(m.vq[1].node, v) + At(Nodes(Tail(m.vq)), v)
      BY <2>3, <2>4, <3>2
    <3>4. VecsAt(r, v) = At(m.vec, v) + At(m.rsv, v) + At(Ids(q), v)
                         + At(Nodes(q), v) + At(Nodes(m.dq), v)
      BY <2>6 DEF VecsAt
    <3> QED
      BY <1>2, <1>3, <1>4, <3>1, <3>3, <3>4
  <2>8. \A d : DatasAt(r, d) = DatasAt(m, d)
    BY <2>6 DEF DatasAt
  <2> QED
    BY <2>1, <2>3, <2>6, <2>7, <2>8 DEF Gives
<1>7. CASE ~ (m.vq # <<>> /\ m.vq[1].id = Nil) /\ ~ (m.vq # <<>> /\ Aged(m.vq[1])) /\ m.vec # <<>>
  <2> DEFINE r == [m EXCEPT !.vec = Tail(@)]
  <2>1. VecAlloc(m) = [id |-> m.vec[1], m |-> r]
    BY <1>7 DEF VecAlloc, Got
  <2>2. m.vec[1] \in Vec /\ Tail(m.vec) \in Seq(Vec)
    BY <1>1, <1>7
  <2>3. r \in MemT /\ r.rsv = m.rsv /\ r.code = m.code /\ SameFlags(m, r)
        /\ r.vq = m.vq /\ r.dq = m.dq /\ r.data = m.data /\ r.vec = Tail(m.vec)
    BY <2>2 DEF MemT, SameFlags
  <2>4. ASSUME NEW v \in Vec PROVE VecsAt(r, v) + One(m.vec[1], v) = VecsAt(m, v)
    <3>1. At(m.vec, v) = One(m.vec[1], v) + At(Tail(m.vec), v) /\ At(Tail(m.vec), v) \in Nat
      BY <1>1, <1>7, AtTail
    <3>2. VecsAt(r, v) = At(Tail(m.vec), v) + At(m.rsv, v) + At(Ids(m.vq), v)
                         + At(Nodes(m.vq), v) + At(Nodes(m.dq), v)
      BY <2>3 DEF VecsAt
    <3> HIDE DEF r
    <3> QED
      BY <1>2, <1>3, <1>4, <3>1, <3>2
  <2>5. \A d : DatasAt(r, d) = DatasAt(m, d)
    BY <2>3 DEF DatasAt
  <2> HIDE DEF r
  <2> QED
    BY <1>2, <2>1, <2>2, <2>3, <2>4, <2>5 DEF Gives
<1>8. CASE ~ (m.vq # <<>> /\ m.vq[1].id = Nil) /\ ~ (m.vq # <<>> /\ Aged(m.vq[1])) /\ m.vec = <<>>
  <2>1. VecAlloc(m) = [id |-> Nil, m |-> m]
    BY <1>8 DEF VecAlloc, Got
  <2>2. \A v \in Vec : VecsAt(m, v) + One(Nil, v) = VecsAt(m, v)
    BY <1>2, MemNumbers
  <2>3. Nil \in 0 .. NVec
    BY <1>1 DEF Nil
  <2> QED
    BY <2>1, <2>2, <2>3 DEF Gives, SameFlags
<1> QED
  BY <1>5, <1>6, <1>7, <1>8

\* data_alloc_combo gives one data block, or none; the node of the entry it
\* was queued with goes to the free list.
LEMMA DataAllocGives ==
  ASSUME NEW m \in MemT
  PROVE  LET r == DataAlloc(m).m
             id == DataAlloc(m).id
         IN  /\ id \in Data \union {Nil}
             /\ r \in MemT /\ r.rsv = m.rsv /\ r.code = m.code /\ SameFlags(m, r)
             /\ \A v \in Vec : VecsAt(r, v) = VecsAt(m, v)
             /\ \A d \in Data : DatasAt(r, d) + One(id, d) = DatasAt(m, d)
<1>1. m.data \in Seq(Data) /\ m.vec \in Seq(Vec) /\ m.dq \in Seq(DataEntry)
  BY DEF MemT
<1>2. \A d \in Data : One(Nil, d) = 0 /\ \A x : One(x, d) \in Nat
  BY BufAssumption DEF Data, Nil, One
<1>3. \A v : VecsAt(m, v) = At(m.vec, v) + At(m.rsv, v) + At(Ids(m.vq), v)
                            + At(Nodes(m.vq), v) + At(Nodes(m.dq), v)
  BY DEF VecsAt
<1>4. \A v : /\ At(m.vec, v) \in Nat /\ At(m.rsv, v) \in Nat /\ At(m.data, v) \in Nat
             /\ At(Ids(m.vq), v) \in Nat /\ At(Nodes(m.vq), v) \in Nat
             /\ At(Nodes(m.dq), v) \in Nat /\ At(Ids(m.dq), v) \in Nat
  BY MemNumbers
<1>5. CASE m.dq # <<>> /\ Aged(m.dq[1])
  <2> DEFINE w == <<m.dq[1].node>> \o m.vec
             r == [m EXCEPT !.dq = Tail(@), !.vec = <<m.dq[1].node>> \o @]
  <2>1. DataAlloc(m) = [id |-> m.dq[1].id, m |-> r]
    BY <1>5 DEF DataAlloc, Got
  <2>2. m.dq[1] \in DataEntry /\ Tail(m.dq) \in Seq(DataEntry)
    BY <1>1, <1>5
  <2>3. m.dq[1].node \in Vec /\ m.dq[1].id \in Data
    BY <2>2, Entries
  <2>4. w \in Seq(Vec)
    BY <1>1, <2>3
  <2>5. r = [m EXCEPT !.dq = Tail(m.dq), !.vec = w]
    OBVIOUS
  <2> HIDE DEF w, r
  <2>6. r \in MemT /\ r.rsv = m.rsv /\ r.code = m.code /\ SameFlags(m, r)
        /\ r.vec = w /\ r.dq = Tail(m.dq) /\ r.data = m.data /\ r.vq = m.vq
    BY <2>2, <2>4, <2>5 DEF MemT, SameFlags
  <2>7. ASSUME NEW v PROVE VecsAt(r, v) = VecsAt(m, v)
    <3>1. /\ At(Nodes(m.dq), v) = One(m.dq[1].node, v) + At(Nodes(Tail(m.dq)), v)
          /\ At(Nodes(Tail(m.dq)), v) \in Nat
      BY <1>1, <1>5, EntryTail
    <3>2. At(w, v) = One(m.dq[1].node, v) + At(m.vec, v)
      BY <1>1, <2>3, AtCons DEF w
    <3>3. VecsAt(r, v) = At(w, v) + At(m.rsv, v) + At(Ids(m.vq), v)
                         + At(Nodes(m.vq), v) + At(Nodes(Tail(m.dq)), v)
      BY <2>6 DEF VecsAt
    <3>4. One(m.dq[1].node, v) \in Nat
      BY DEF One
    <3> QED
      BY <1>3, <1>4, <3>1, <3>2, <3>3, <3>4
  <2>8. ASSUME NEW d \in Data PROVE DatasAt(r, d) + One(m.dq[1].id, d) = DatasAt(m, d)
    <3>1. /\ At(Ids(m.dq), d) = One(m.dq[1].id, d) + At(Ids(Tail(m.dq)), d)
          /\ At(Ids(Tail(m.dq)), d) \in Nat
      BY <1>1, <1>5, EntryTail
    <3>2. DatasAt(r, d) = At(m.data, d) + At(Ids(Tail(m.dq)), d)
          /\ DatasAt(m, d) = At(m.data, d) + At(Ids(m.dq), d)
      BY <2>6 DEF DatasAt
    <3> QED
      BY <1>2, <1>4, <3>1, <3>2
  <2> QED
    BY <2>1, <2>3, <2>6, <2>7, <2>8
<1>6. CASE ~ (m.dq # <<>> /\ Aged(m.dq[1])) /\ m.data # <<>>
  <2> DEFINE r == [m EXCEPT !.data = Tail(@)]
  <2>1. DataAlloc(m) = [id |-> m.data[1], m |-> r]
    BY <1>6 DEF DataAlloc, Got
  <2>2. m.data[1] \in Data /\ Tail(m.data) \in Seq(Data)
    BY <1>1, <1>6
  <2>3. r \in MemT /\ r.rsv = m.rsv /\ r.code = m.code /\ SameFlags(m, r)
        /\ r.vq = m.vq /\ r.dq = m.dq /\ r.vec = m.vec /\ r.data = Tail(m.data)
    BY <2>2 DEF MemT, SameFlags
  <2> HIDE DEF r
  <2>4. \A v : VecsAt(r, v) = VecsAt(m, v)
    BY <2>3 DEF VecsAt
  <2>5. ASSUME NEW d \in Data PROVE DatasAt(r, d) + One(m.data[1], d) = DatasAt(m, d)
    <3>1. At(m.data, d) = One(m.data[1], d) + At(Tail(m.data), d) /\ At(Tail(m.data), d) \in Nat
      BY <1>1, <1>6, AtTail
    <3>2. DatasAt(r, d) = At(Tail(m.data), d) + At(Ids(m.dq), d)
          /\ DatasAt(m, d) = At(m.data, d) + At(Ids(m.dq), d)
      BY <2>3 DEF DatasAt
    <3> QED
      BY <1>2, <1>4, <3>1, <3>2
  <2> QED
    BY <2>1, <2>2, <2>3, <2>4, <2>5
<1>7. CASE ~ (m.dq # <<>> /\ Aged(m.dq[1])) /\ m.data = <<>>
  <2>1. DataAlloc(m) = [id |-> Nil, m |-> m]
    BY <1>7 DEF DataAlloc, Got
  <2>2. \A d \in Data : DatasAt(m, d) + One(Nil, d) = DatasAt(m, d)
    BY <1>2, MemNumbers
  <2> QED
    BY <2>1, <2>2 DEF SameFlags
<1> QED
  BY <1>5, <1>6, <1>7

\* How much of a queue is swept.
LEMMA SweptBound ==
  ASSUME NEW S, NEW q \in Seq(S)
  PROVE  Swept(q) \in 0 .. Len(q) /\ \A i \in 1 .. Swept(q) : SweptAge(q, i) >= 2
<1>1. CASE q = <<>>
  BY <1>1 DEF Swept
<1>2. CASE q # <<>>
  <2> DEFINE lens == {n \in 0 .. Len(q) : n < Len(q) /\ \A i \in 1 .. n : SweptAge(q, i) >= 2}
             Up == {Len(q) - n : n \in lens}
  <2>1. Len(q) \in Nat \ {0}
    BY <1>2
  <2>2. 0 \in lens /\ \A n \in lens : n \in 0 .. Len(q) /\ \A i \in 1 .. n : SweptAge(q, i) >= 2
    BY <2>1
  <2>3. Swept(q) = CHOOSE n \in lens : \A k \in lens : k <= n
    BY <1>2 DEF Swept
  <2> HIDE DEF lens
  <2>4. Up \in SUBSET Nat /\ Up # {}
    BY <2>1, <2>2
  <2>5. PICK u \in Up : \A k \in Up : u <= k
    <3> HIDE DEF Up
    <3> QED
      BY <2>4, LeastNat
  <2>6. PICK n \in lens : u = Len(q) - n
    OBVIOUS
  <2>7. \A k \in lens : k <= n
    <3> TAKE k \in lens
    <3>1. Len(q) - k \in Up
      OBVIOUS
    <3>2. u <= Len(q) - k
      BY <2>5, <3>1
    <3> QED
      BY <2>1, <2>2, <2>6, <3>2
  <2> QED
    BY <2>2, <2>3, <2>7
<1> QED
  BY <1>1, <1>2

\* A sequence up to a position.
LEMMA PrefixStep ==
  ASSUME NEW S, NEW s \in Seq(S), NEW k \in 1 .. Len(s)
  PROVE  /\ s[k] \in S /\ SubSeq(s, 1, k - 1) \in Seq(S)
         /\ SubSeq(s, 1, k) = Append(SubSeq(s, 1, k - 1), s[k])
<1>1. Len(s) \in Nat /\ k \in Nat \ {0} /\ k <= Len(s) /\ s[k] \in S /\ k - 1 \in 0 .. Len(s)
  OBVIOUS
<1>2. SubSeq(s, 1, k - 1) \in Seq(S)
  BY <1>1, AtSplit
<1>3. 1 \in 1 .. Len(s) /\ k \in 1 .. Len(s)
  BY <1>1
<1>4. SubSeq(s, 1, k) = SubSeq(s, 1, k - 1) \o <<s[k]>>
  BY <1>3, SubSeqRecursiveSecond
<1> QED
  BY <1>1, <1>2, <1>4, AppendIsConcat

\* What is swept out of a queue of nodes goes to the free list: each entry's
\* node, and its id unless it was taken.
LEMMA FreeFold ==
  ASSUME NEW list \in Seq(Vec), NEW q \in Seq(VecEntry), NEW v \in Vec
  PROVE  /\ FoldLeft(FreeEntry, list, q) \in Seq(Vec)
         /\ At(FoldLeft(FreeEntry, list, q), v) = At(list, v) + At(Ids(q), v) + At(Nodes(q), v)
<1> DEFINE n == Len(q)
           S == Seq(Vec)
           op == [p \in S \X (1 .. n) |-> FreeEntry(p[1], q[p[2]])]
           Body(i) == [s \in SUBSET (1 .. n) |->
                         IF s = {} THEN list ELSE FreeEntry(i[s \ {Max(s)}], q[Max(s)])]
           It == CHOOSE i : i = Body(i)
           h == [k \in 0 .. n |-> It[1 .. k]]
           part(k) == SubSeq(q, 1, k)
           T == [k \in 0 .. n |-> {l \in S : At(l, v) = At(list, v) + At(Ids(part(k)), v)
                                                      + At(Nodes(part(k)), v)}]
<1>1. n \in Nat /\ n = Len(q) /\ DOMAIN q = 1 .. n /\ \A k \in 1 .. n : q[k] \in VecEntry
  OBVIOUS
<1>2. FoldLeft(FreeEntry, list, q) = It[1 .. n]
  BY <1>1 DEF FoldLeft, MapThenFoldSet
<1> HIDE DEF n
<1>3. ASSUME NEW l \in S, NEW e \in VecEntry
      PROVE  /\ FreeEntry(l, e) \in S
             /\ At(FreeEntry(l, e), v) = At(l, v) + One(e.id, v) + One(e.node, v)
  <2>1. e.node \in Vec /\ e.id \in 0 .. NVec /\ NVec \in Nat
    BY Entries, BufAssumption
  <2>2. At(l, v) \in Nat /\ One(e.id, v) \in Nat /\ One(e.node, v) \in Nat
    BY AtPlaces DEF One
  <2>3. CASE e.id = Nil
    <3>1. FreeEntry(l, e) = <<e.node>> \o l
      <4>1. FreeEntry(l, e) = <<e.node>> \o <<>> \o l
        BY <2>3 DEF FreeEntry
      <4>2. <<e.node>> \in Seq(Vec)
        BY <2>1
      <4>3. <<e.node>> \o <<>> = <<e.node>>
        BY <4>2, ConcatEmptySeq
      <4> QED
        BY <4>1, <4>3
    <3>2. One(e.id, v) = 0
      BY <2>3, NotNil DEF One
    <3>3. At(<<e.node>> \o l, v) = One(e.node, v) + At(l, v)
      BY <2>1, AtCons
    <3>4. <<e.node>> \o l \in Seq(Vec)
      BY <2>1
    <3> QED
      BY <2>2, <3>1, <3>2, <3>3, <3>4
  <2>4. CASE e.id # Nil
    <3>1. e.id \in Vec
      BY <2>1, <2>4 DEF Vec, Nil
    <3>2. FreeEntry(l, e) = <<e.node>> \o (<<e.id>> \o l)
      <4>1. FreeEntry(l, e) = (<<e.node>> \o <<e.id>>) \o l
        BY <2>4 DEF FreeEntry
      <4>2. <<e.node>> \in Seq(Vec) /\ <<e.id>> \in Seq(Vec)
        BY <2>1, <3>1
      <4> QED
        BY <4>1, <4>2, ConcatAssociative
    <3>3. <<e.id>> \o l \in Seq(Vec)
      BY <3>1
    <3>4. At(<<e.id>> \o l, v) = One(e.id, v) + At(l, v)
      BY <3>1, AtCons
    <3>5. At(<<e.node>> \o (<<e.id>> \o l), v) = One(e.node, v) + At(<<e.id>> \o l, v)
      BY <2>1, <3>3, AtCons
    <3>6. <<e.node>> \o (<<e.id>> \o l) \in Seq(Vec)
      BY <2>1, <3>3
    <3>7. At(<<e.node>> \o (<<e.id>> \o l), v) = At(l, v) + One(e.id, v) + One(e.node, v)
      BY <2>2, <3>4, <3>5
    <3> QED
      BY <3>2, <3>6, <3>7
  <2> QED
    BY <2>3, <2>4
<1>4. op \in [S \X (1 .. n) -> S]
  <2>1. \A p \in S \X (1 .. n) : p[1] \in S /\ q[p[2]] \in VecEntry
    BY <1>1
  <2> HIDE DEF S
  <2>2. \A p \in S \X (1 .. n) : FreeEntry(p[1], q[p[2]]) \in S
    BY <1>3, <2>1
  <2> QED
    BY <2>2
<1>5. It = Body(It)
  <2>1. PICK g : Solution(n, S, op, list, g)
    <3> HIDE DEF op
    <3>1. list \in S /\ n \in Nat /\ op \in [S \X (1 .. n) -> S]
      BY <1>1, <1>4
    <3> HIDE DEF S
    <3> QED
      BY <3>1, FoldDefined
  <2>2. ASSUME NEW s \in SUBSET (1 .. n), s # {}
        PROVE  g[s] = FreeEntry(g[s \ {Max(s)}], q[Max(s)])
    <3>1. Max(s) \in 1 .. n
      BY <1>1, <2>2, MaxIn
    <3>2. g[s \ {Max(s)}] \in S
      BY <2>1 DEF Solution
    <3>3. g[s] = op[<<g[s \ {Max(s)}], Max(s)>>]
      BY <2>1, <2>2 DEF FoldOf, Solution
    <3> QED
      BY <3>1, <3>2, <3>3
  <2>3. g[{}] = list
    BY <2>1 DEF FoldOf, Solution
  <2>4. g = Body(g)
    BY <2>1, <2>2, <2>3 DEF Solution
  <2> HIDE DEF Body
  <2> QED
    BY <2>4
<1>6. h[0] = list /\ \A k \in 1 .. n : h[k] = FreeEntry(h[k - 1], q[k])
  <2>1. h[0] = It[1 .. 0] /\ \A k \in 1 .. n : h[k] = It[1 .. k] /\ h[k - 1] = It[1 .. (k - 1)]
    BY <1>1
  <2>2. 1 .. 0 = {} /\ {} \in SUBSET (1 .. n)
    OBVIOUS
  <2>3. It[{}] = list
    BY <1>5, <2>2
  <2>4. ASSUME NEW k \in 1 .. n PROVE It[1 .. k] = FreeEntry(It[1 .. (k - 1)], q[k])
    <3>2. /\ 1 .. k \in SUBSET (1 .. n) /\ 1 .. k # {}
          /\ Max(1 .. k) = k /\ (1 .. k) \ {k} = 1 .. (k - 1)
      BY <1>1, UpTo
    <3>3. It[1 .. k] = FreeEntry(It[(1 .. k) \ {Max(1 .. k)}], q[Max(1 .. k)])
      BY <1>5, <3>2
    <3> QED
      BY <3>2, <3>3
  <2> QED
    BY <2>1, <2>2, <2>3, <2>4
<1>7. h[0] \in T[0]
  <2>1. part(0) = <<>>
    BY SubSeqEmpty
  <2>2. Ids(<<>>) = <<>> /\ Nodes(<<>>) = <<>>
    BY DEF Ids, Nodes
  <2>3. At(list, v) \in Nat /\ At(<<>>, v) = 0
    BY AtPlaces, AtShort
  <2> HIDE DEF h, part
  <2> QED
    BY <1>1, <1>6, <2>1, <2>2, <2>3
<1>8. ASSUME NEW k \in 1 .. n, h[k - 1] \in T[k - 1] PROVE h[k] \in T[k]
  <2>1. k - 1 \in 0 .. n /\ k \in 0 .. n
    BY <1>1
  <2>2. part(k) = Append(part(k - 1), q[k]) /\ part(k - 1) \in Seq(VecEntry)
        /\ q[k] \in VecEntry
    BY <1>1, PrefixStep
  <2> HIDE DEF part, h
  <2>3. h[k - 1] \in S /\ At(h[k - 1], v) = At(list, v) + At(Ids(part(k - 1)), v)
                                             + At(Nodes(part(k - 1)), v)
    BY <1>8, <2>1
  <2>4. h[k] \in S /\ At(h[k], v) = At(h[k - 1], v) + One(q[k].id, v) + One(q[k].node, v)
    BY <1>3, <1>6, <2>2, <2>3
  <2>5. /\ At(Ids(part(k)), v) = At(Ids(part(k - 1)), v) + One(q[k].id, v)
        /\ At(Nodes(part(k)), v) = At(Nodes(part(k - 1)), v) + One(q[k].node, v)
    <3>1. \A a \in Seq(VecEntry), e \in VecEntry :
            /\ At(Ids(Append(a, e)), v) = At(Ids(a), v) + One(e.id, v)
            /\ At(Nodes(Append(a, e)), v) = At(Nodes(a), v) + One(e.node, v)
      BY EntryAppend
    <3> QED
      BY <2>2, <3>1
  <2>6. Ids(part(k - 1)) \in Seq(0 .. NVec) /\ Nodes(part(k - 1)) \in Seq(Vec)
    BY <2>2, Entries, EntrySeqs
  <2>7. At(Ids(part(k - 1)), v) \in Nat /\ At(Nodes(part(k - 1)), v) \in Nat
        /\ At(list, v) \in Nat
    BY <2>6, AtPlaces
  <2>8. One(q[k].id, v) \in Nat /\ One(q[k].node, v) \in Nat
    BY DEF One
  <2>9. At(h[k], v) = At(list, v) + At(Ids(part(k)), v) + At(Nodes(part(k)), v)
    BY <2>3, <2>4, <2>5, <2>7, <2>8
  <2> QED
    BY <2>1, <2>4, <2>9
<1>9. h[n] \in T[n]
  <2> HIDE DEF h, T
  <2>1. \A k \in 0 .. n : h[k] \in T[k]
    BY <1>1, <1>7, <1>8, FoldClimbs
  <2> QED
    BY <1>1, <2>1
<1>10. part(n) = q /\ h[n] = It[1 .. n]
  BY <1>1, SubSeqFull
<1> QED
  <2> HIDE DEF h, It, part, n
  <2>1. n \in 0 .. n
    BY <1>1
  <2> QED
    BY <1>2, <1>9, <1>10, <2>1
\* There are nodes.
LEMMA SomeVec == /\ Vec # {} /\ RsvCnt \in Nat \ {0}
                 /\ Cardinality(Thread) \in Nat \ {0}
<1>1. Cardinality(Thread) \in Nat \ {0}
  BY BufAssumption, FS_CardinalityType, FS_EmptySet
<1>2. RsvCnt \in Nat \ {0} /\ NVec \in Nat /\ RsvCnt * Cardinality(Thread) <= NVec
  BY BufAssumption
<1>3. RsvCnt * Cardinality(Thread) >= 1
  <2> DEFINE a == RsvCnt
             b == Cardinality(Thread)
  <2>1. a \in Nat /\ b \in Nat /\ a >= 1 /\ b >= 1
    BY <1>1, <1>2
  <2> HIDE DEF a, b
  <2>2. a * b >= 1
    BY <2>1
  <2> QED
    BY <2>2 DEF a, b
<1>4. RsvCnt * Cardinality(Thread) \in Nat
  BY <1>1, <1>2
<1>5. 1 \in Vec
  <2> DEFINE c == RsvCnt * Cardinality(Thread)
  <2>1. c \in Nat /\ c >= 1 /\ c <= NVec
    BY <1>2, <1>3, <1>4
  <2> HIDE DEF c
  <2> QED
    BY <1>2, <2>1 DEF Vec
<1> QED
  BY <1>1, <1>2, <1>5

\* A sweep of the queue of nodes loses nothing.
LEMMA SweepVecKeeps ==
  ASSUME NEW m \in MemT
  PROVE  LET r == SweepVec(m)
         IN  r \in MemT /\ r.rsv = m.rsv /\ r.code = m.code /\ SameFlags(m, r) /\ SameHeld(m, r)
<1> DEFINE n == Swept(m.vq)
           out == SubSeq(m.vq, 1, n)
           w == FoldLeft(FreeEntry, m.vec, out)
           r == SweepVec(m)
<1>1. m.vec \in Seq(Vec) /\ m.vq \in Seq(VecEntry)
  BY DEF MemT
<1>2. n \in 0 .. Len(m.vq)
  BY <1>1, SweptBound
<1>3. r = [m EXCEPT !.vq = Drop(m.vq, n), !.vec = w]
  BY DEF SweepVec
<1>4. out \in Seq(VecEntry) /\ Drop(m.vq, n) \in Seq(VecEntry)
  <2> HIDE DEF n
  <2> QED
    BY <1>1, <1>2, EntrySplit
<1> HIDE DEF n, r
<1>5. w \in Seq(Vec)
  <2> PICK v \in Vec : TRUE
    BY SomeVec
  <2> HIDE DEF out
  <2> QED
    BY <1>1, <1>4, FreeFold
<1> HIDE DEF out, w
<1>6. r \in MemT /\ r.rsv = m.rsv /\ r.code = m.code /\ SameFlags(m, r)
      /\ r.vec = w /\ r.dq = m.dq /\ r.data = m.data /\ r.vq = Drop(m.vq, n)
  BY <1>3, <1>4, <1>5 DEF MemT, SameFlags
<1>7. ASSUME NEW v \in Vec PROVE VecsAt(r, v) = VecsAt(m, v)
  <2>1. At(w, v) = At(m.vec, v) + At(Ids(out), v) + At(Nodes(out), v)
    BY <1>1, <1>4, FreeFold DEF w
  <2>2. /\ At(Ids(m.vq), v) = At(Ids(out), v) + At(Ids(Drop(m.vq, n)), v)
        /\ At(Nodes(m.vq), v) = At(Nodes(out), v) + At(Nodes(Drop(m.vq, n)), v)
    BY <1>1, <1>2, EntrySplit DEF out
  <2>3. VecsAt(r, v) = At(w, v) + At(m.rsv, v) + At(Ids(Drop(m.vq, n)), v)
                       + At(Nodes(Drop(m.vq, n)), v) + At(Nodes(m.dq), v)
    BY <1>6 DEF VecsAt
  <2>4. VecsAt(m, v) = At(m.vec, v) + At(m.rsv, v) + At(Ids(m.vq), v)
                       + At(Nodes(m.vq), v) + At(Nodes(m.dq), v)
    BY DEF VecsAt
  <2>5. Ids(out) \in Seq(0 .. NVec) /\ Nodes(out) \in Seq(Vec)
        /\ Ids(Drop(m.vq, n)) \in Seq(0 .. NVec) /\ Nodes(Drop(m.vq, n)) \in Seq(Vec)
    BY <1>4, Entries, EntrySeqs
  <2>6. At(Ids(out), v) \in Nat /\ At(Nodes(out), v) \in Nat
        /\ At(Ids(Drop(m.vq, n)), v) \in Nat /\ At(Nodes(Drop(m.vq, n)), v) \in Nat
    BY <2>5, AtPlaces
  <2>7. At(m.vec, v) \in Nat /\ At(m.rsv, v) \in Nat /\ At(Nodes(m.dq), v) \in Nat
    BY MemNumbers
  <2> QED
    BY <2>1, <2>2, <2>3, <2>4, <2>6, <2>7
<1>8. \A d : DatasAt(r, d) = DatasAt(m, d)
  BY <1>6 DEF DatasAt
<1> QED
  BY <1>6, <1>7, <1>8 DEF SameHeld, r

\* So does a sweep of the queue of data blocks.
LEMMA SweepDataKeeps ==
  ASSUME NEW m \in MemT
  PROVE  LET r == SweepData(m)
         IN  r \in MemT /\ r.rsv = m.rsv /\ r.code = m.code /\ SameFlags(m, r) /\ SameHeld(m, r)
<1> DEFINE n == Swept(m.dq)
           out == SubSeq(m.dq, 1, n)
           D == Reverse(Ids(out))
           W == Reverse(Nodes(out))
           r == SweepData(m)
<1>1. m.vec \in Seq(Vec) /\ m.dq \in Seq(DataEntry) /\ m.data \in Seq(Data)
  BY DEF MemT
<1>2. n \in 0 .. Len(m.dq)
  BY <1>1, SweptBound
<1>3. r = [m EXCEPT !.dq = Drop(m.dq, n), !.data = D \o m.data, !.vec = W \o m.vec]
  BY DEF SweepData
<1>4. out \in Seq(DataEntry) /\ Drop(m.dq, n) \in Seq(DataEntry)
  <2> HIDE DEF n
  <2> QED
    BY <1>1, <1>2, EntrySplit
<1> HIDE DEF n, r, out
<1>5. Ids(out) \in Seq(Data) /\ Nodes(out) \in Seq(Vec)
      /\ Ids(Drop(m.dq, n)) \in Seq(Data) /\ Nodes(Drop(m.dq, n)) \in Seq(Vec)
  BY <1>4, Entries, EntrySeqs
<1>6. D \in Seq(Data) /\ W \in Seq(Vec)
      /\ \A x : At(D, x) = At(Ids(out), x) /\ At(W, x) = At(Nodes(out), x)
  BY <1>5, AtReverse
<1> HIDE DEF D, W
<1>7. D \o m.data \in Seq(Data) /\ W \o m.vec \in Seq(Vec)
  BY <1>1, <1>6
<1>8. r \in MemT /\ r.rsv = m.rsv /\ r.code = m.code /\ SameFlags(m, r)
      /\ r.vec = W \o m.vec /\ r.vq = m.vq /\ r.data = D \o m.data /\ r.dq = Drop(m.dq, n)
  BY <1>3, <1>4, <1>7 DEF MemT, SameFlags
<1>9. ASSUME NEW v
      PROVE  /\ At(Ids(m.dq), v) = At(Ids(out), v) + At(Ids(Drop(m.dq, n)), v)
             /\ At(Nodes(m.dq), v) = At(Nodes(out), v) + At(Nodes(Drop(m.dq, n)), v)
             /\ At(Ids(out), v) \in Nat /\ At(Nodes(out), v) \in Nat
             /\ At(Ids(Drop(m.dq, n)), v) \in Nat /\ At(Nodes(Drop(m.dq, n)), v) \in Nat
             /\ At(W \o m.vec, v) = At(Nodes(out), v) + At(m.vec, v)
             /\ At(D \o m.data, v) = At(Ids(out), v) + At(m.data, v)
  <2>1. /\ At(Ids(m.dq), v) = At(Ids(out), v) + At(Ids(Drop(m.dq, n)), v)
        /\ At(Nodes(m.dq), v) = At(Nodes(out), v) + At(Nodes(Drop(m.dq, n)), v)
    BY <1>1, <1>2, EntrySplit DEF out
  <2>2. At(Ids(out), v) \in Nat /\ At(Nodes(out), v) \in Nat
        /\ At(Ids(Drop(m.dq, n)), v) \in Nat /\ At(Nodes(Drop(m.dq, n)), v) \in Nat
    BY <1>5, AtPlaces
  <2>3. At(W \o m.vec, v) = At(W, v) + At(m.vec, v) /\ At(D \o m.data, v) = At(D, v) + At(m.data, v)
    BY <1>1, <1>6, AtConcat
  <2> QED
    BY <1>6, <2>1, <2>2, <2>3
<1>10. \A v : /\ At(m.vec, v) \in Nat /\ At(m.rsv, v) \in Nat /\ At(m.data, v) \in Nat
              /\ At(Ids(m.vq), v) \in Nat /\ At(Nodes(m.vq), v) \in Nat
  BY MemNumbers
<1>11. ASSUME NEW v PROVE VecsAt(r, v) = VecsAt(m, v) /\ DatasAt(r, v) = DatasAt(m, v)
  <2>1. VecsAt(r, v) = At(W \o m.vec, v) + At(m.rsv, v) + At(Ids(m.vq), v)
                       + At(Nodes(m.vq), v) + At(Nodes(Drop(m.dq, n)), v)
        /\ DatasAt(r, v) = At(D \o m.data, v) + At(Ids(Drop(m.dq, n)), v)
    BY <1>8 DEF VecsAt, DatasAt
  <2>2. VecsAt(m, v) = At(m.vec, v) + At(m.rsv, v) + At(Ids(m.vq), v)
                       + At(Nodes(m.vq), v) + At(Nodes(m.dq), v)
        /\ DatasAt(m, v) = At(m.data, v) + At(Ids(m.dq), v)
    BY DEF VecsAt, DatasAt
  <2> QED
    BY <1>9, <1>10, <2>1, <2>2
<1> QED
  BY <1>8, <1>11 DEF SameHeld, r

\* A sweep that is made when a queue is longer than its mark.
LEMMA MaybeSweepKeeps ==
  ASSUME NEW m \in MemT, NEW r, r \in {MaybeSweepVec(m), MaybeSweepData(m)}
  PROVE  r \in MemT /\ r.rsv = m.rsv /\ r.code = m.code /\ SameFlags(m, r) /\ SameHeld(m, r)
<1>1. SameFlags(m, m) /\ SameHeld(m, m)
  BY DEF SameFlags, SameHeld
<1> QED
  BY <1>1, SweepVecKeeps, SweepDataKeeps DEF MaybeSweepVec, MaybeSweepData

\* One node for the reserve, if there is one.
Restock(x) ==
  IF VecAlloc(x).id = Nil THEN VecAlloc(x).m
  ELSE [VecAlloc(x).m EXCEPT !.rsv = <<VecAlloc(x).id>> \o @]

\* The reserve gets a node or stays as it is, and no node is lost.
LEMMA Restocked ==
  ASSUME NEW x \in MemT
  PROVE  /\ Restock(x) \in MemT /\ Restock(x).code = x.code
         /\ SameFlags(x, Restock(x)) /\ SameHeld(x, Restock(x))
         /\ Len(x.rsv) \in Nat /\ Len(Restock(x).rsv) \in Nat
         /\ Len(x.rsv) <= Len(Restock(x).rsv) /\ Len(Restock(x).rsv) <= Len(x.rsv) + 1
<1> DEFINE id == VecAlloc(x).id
           y == VecAlloc(x).m
<1>1. id \in 0 .. NVec /\ Gives(x, y, id)
  BY VecAllocGives
<1>2. y \in MemT /\ y.rsv = x.rsv /\ y.code = x.code /\ SameFlags(x, y)
      /\ y.rsv \in Seq(Vec)
      /\ (\A v \in Vec : VecsAt(y, v) + One(id, v) = VecsAt(x, v))
      /\ \A d \in Data : DatasAt(y, d) = DatasAt(x, d)
  BY <1>1 DEF Gives, MemT
<1>3. Len(x.rsv) \in Nat
  BY <1>2
<1>4. CASE id = Nil
  <2>1. Restock(x) = y
    BY <1>4 DEF Restock
  <2>2. \A v \in Vec : One(id, v) = 0
    BY <1>4, NotNil DEF One
  <2>3. \A v : VecsAt(y, v) \in Nat
    BY <1>2, MemNumbers
  <2> HIDE DEF id, y
  <2>4. \A v \in Vec : VecsAt(y, v) = VecsAt(x, v)
    BY <1>2, <2>2, <2>3
  <2> QED
    BY <1>2, <1>3, <2>1, <2>4 DEF SameHeld
<1>5. CASE id # Nil
  <2> DEFINE s == <<id>> \o y.rsv
             z == [y EXCEPT !.rsv = s]
  <2>1. Restock(x) = z
    BY <1>5 DEF Restock
  <2>2. id \in Vec
    BY <1>1, <1>5 DEF Vec, Nil
  <2> HIDE DEF id, y
  <2>3. s \in Seq(Vec) /\ Len(s) = Len(y.rsv) + 1 /\ Len(y.rsv) \in Nat
    BY <1>2, <2>2
  <2> HIDE DEF s
  <2>4. /\ z \in MemT /\ z.rsv = s /\ z.code = y.code /\ SameFlags(y, z)
        /\ z.vec = y.vec /\ z.data = y.data /\ z.vq = y.vq /\ z.dq = y.dq
    BY <1>2, <2>3 DEF MemT, SameFlags
  <2> HIDE DEF z
  <2>5. ASSUME NEW v \in Vec PROVE VecsAt(z, v) = VecsAt(x, v)
    <3>1. At(s, v) = One(id, v) + At(y.rsv, v)
      BY <1>2, <2>2, AtCons DEF s
    <3>2. /\ At(y.vec, v) \in Nat /\ At(y.rsv, v) \in Nat /\ At(Ids(y.vq), v) \in Nat
          /\ At(Nodes(y.vq), v) \in Nat /\ At(Nodes(y.dq), v) \in Nat
      BY <1>2, MemNumbers
    <3>3. VecsAt(z, v) = At(y.vec, v) + At(s, v) + At(Ids(y.vq), v)
                         + At(Nodes(y.vq), v) + At(Nodes(y.dq), v)
      BY <2>4 DEF VecsAt
    <3>4. VecsAt(y, v) = At(y.vec, v) + At(y.rsv, v) + At(Ids(y.vq), v)
                         + At(Nodes(y.vq), v) + At(Nodes(y.dq), v)
      BY DEF VecsAt
    <3>5. One(id, v) \in Nat
      BY DEF One
    <3>6. VecsAt(z, v) = VecsAt(y, v) + One(id, v)
      BY <3>1, <3>2, <3>3, <3>4, <3>5
    <3> QED
      BY <1>2, <3>6
  <2>6. \A d \in Data : DatasAt(z, d) = DatasAt(x, d)
    BY <1>2, <2>4 DEF DatasAt
  <2>7. SameHeld(x, z) /\ SameFlags(x, z)
    BY <1>2, <2>4, <2>5, <2>6 DEF SameHeld, SameFlags
  <2>8. Len(z.rsv) = Len(x.rsv) + 1 /\ z.code = x.code
    BY <1>2, <2>3, <2>4
  <2> QED
    BY <1>3, <2>1, <2>4, <2>7, <2>8
<1> QED
  BY <1>4, <1>5

\* A refill is one such step after the other.
LEMMA RefillChain ==
  ASSUME NEW m \in MemT, NEW nr \in Nat
  PROVE  \E f : /\ f \in [0 .. nr -> MemT] /\ f[0] = m /\ Refill(m, nr) = f[nr]
                /\ \A k \in 1 .. nr : f[k] = Restock(f[k - 1])
<1> DEFINE Body(f) == [k \in 0 .. nr |-> IF k = 0 THEN m ELSE Restock(f[k - 1])]
           fill == CHOOSE f : f = Body(f)
           T == [k \in 0 .. nr |-> MemT]
<1>1. Refill(m, nr) = fill[nr]
  BY DEF Refill, Restock
<1>2. \A x \in MemT : Restock(x) \in MemT
  BY Restocked
<1>3. fill = Body(fill)
  <2> DEFINE op == [x \in MemT |-> Restock(x)]
  <2>1. op \in [MemT -> MemT]
    BY <1>2
  <2>2. PICK f : Chain(nr, MemT, op, m, f)
    <3> HIDE DEF op
    <3> QED
      BY <2>1, ChainDefined
  <2>3. \A k \in 1 .. nr : k - 1 \in 0 .. nr /\ k \in 0 .. nr /\ k # 0
    OBVIOUS
  <2>4. \A k \in 1 .. nr : f[k] = Restock(f[k - 1])
    BY <2>2, <2>3 DEF Chain
  <2>5. \A k \in 0 .. nr : k # 0 => k \in 1 .. nr
    OBVIOUS
  <2>6. f = [k \in 0 .. nr |-> f[k]] /\ f[0] = m
    BY <2>2 DEF Chain
  <2>7. f = Body(f)
    BY <2>4, <2>5, <2>6
  <2> HIDE DEF Body
  <2> QED
    BY <2>7
<1>4. fill[0] = m /\ \A k \in 1 .. nr : fill[k] = Restock(fill[k - 1])
  <2>1. \A k \in 0 .. nr : fill[k] = Body(fill)[k]
    BY <1>3
  <2>2. 0 \in 0 .. nr /\ \A k \in 1 .. nr : k \in 0 .. nr /\ k # 0
    OBVIOUS
  <2> HIDE DEF fill
  <2> QED
    BY <2>1, <2>2
<1> HIDE DEF fill
<1>5. fill[0] \in T[0] /\ \A k \in 1 .. nr : fill[k - 1] \in T[k - 1] => fill[k] \in T[k]
  <2>1. 0 \in 0 .. nr /\ \A k \in 1 .. nr : k \in 0 .. nr /\ k - 1 \in 0 .. nr
    OBVIOUS
  <2> QED
    BY <1>2, <1>4, <2>1
<1>6. \A k \in 0 .. nr : fill[k] \in MemT
  <2>1. \A k \in 0 .. nr : fill[k] \in T[k]
    <3> HIDE DEF T
    <3> QED
      BY <1>5, FoldClimbs
  <2> QED
    BY <2>1
<1>7. fill = [k \in 0 .. nr |-> fill[k]]
  <2> DEFINE g == Body(fill)
  <2>1. fill = g
    BY <1>3
  <2>2. g = [k \in 0 .. nr |-> g[k]]
    OBVIOUS
  <2> HIDE DEF g, fill
  <2> QED
    BY <2>1, <2>2
<1> QED
  BY <1>1, <1>4, <1>6, <1>7

\* A refill puts nodes into the reserve, as many as it was asked for or fewer,
\* and loses none.
LEMMA RefillKeeps ==
  ASSUME NEW m \in MemT, NEW nr \in Nat
  PROVE  LET r == Refill(m, nr)
         IN  /\ r \in MemT /\ r.code = m.code /\ SameFlags(m, r) /\ SameHeld(m, r)
             /\ Len(m.rsv) <= Len(r.rsv) /\ Len(r.rsv) <= Len(m.rsv) + nr
<1> DEFINE Kept(x, k) == /\ x.code = m.code /\ SameFlags(m, x) /\ SameHeld(m, x)
                         /\ Len(m.rsv) <= Len(x.rsv) /\ Len(x.rsv) <= Len(m.rsv) + k
           T == [k \in 0 .. nr |-> {x \in MemT : Kept(x, k)}]
<1>1. PICK fill : /\ fill \in [0 .. nr -> MemT] /\ fill[0] = m /\ Refill(m, nr) = fill[nr]
                  /\ \A k \in 1 .. nr : fill[k] = Restock(fill[k - 1])
  BY RefillChain
<1>2. fill[0] \in T[0]
  <2>1. Len(m.rsv) \in Nat
    BY DEF MemT
  <2>2. Kept(m, 0)
    BY <2>1 DEF SameFlags, SameHeld
  <2> HIDE DEF Kept
  <2> QED
    BY <1>1, <2>2
<1>3. ASSUME NEW k \in 1 .. nr, fill[k - 1] \in T[k - 1] PROVE fill[k] \in T[k]
  <2> DEFINE x == fill[k - 1]
  <2>1. k \in 0 .. nr /\ k - 1 \in 0 .. nr /\ k \in Nat /\ fill[k] = Restock(x)
    BY <1>1
  <2>2. x \in MemT /\ Kept(x, k - 1)
    BY <1>3, <2>1
  <2> HIDE DEF x
  <2>3. Len(m.rsv) \in Nat
    BY DEF MemT
  <2>4. Kept(Restock(x), k)
    BY <2>1, <2>2, <2>3, Restocked DEF SameFlags, SameHeld
  <2>5. Restock(x) \in MemT
    BY <2>2, Restocked
  <2> HIDE DEF Kept
  <2> QED
    BY <2>1, <2>4, <2>5
<1>4. fill[nr] \in T[nr] /\ nr \in 0 .. nr
  <2> HIDE DEF T
  <2>1. \A k \in 0 .. nr : fill[k] \in T[k]
    BY <1>2, <1>3, FoldClimbs
  <2> QED
    BY <2>1
<1> QED
  BY <1>1, <1>4
-----------------------------------------------------------------------------
(* The calls of the memory layer.                                           *)

\* r is what a call that ends with a refill of nr nodes makes of m: nothing is
\* lost, and the reserve has all of them if the call says so.
Ended(m, r, nr) ==
  /\ r \in MemT /\ r.dry = m.dry /\ SameHeld(m, r)
  /\ m.nomem => r.nomem
  /\ Len(m.rsv) <= Len(r.rsv) /\ Len(r.rsv) <= Len(m.rsv) + nr
  /\ r.code = OK \/ ~ r.nomem => Len(r.rsv) = Len(m.rsv) + nr

\* The end of a call.
LEMMA EndingEnds ==
  ASSUME NEW m \in MemT, NEW nr \in Nat, NEW over \in BOOLEAN
  PROVE  Ended(m, Ending(m, nr, over), nr)
<1> DEFINE x == Refill(m, nr)
           c == IF over THEN WAIT_AMT ELSE IF Refilled(m, nr) THEN OK ELSE NOMEM
           b == Refilled(m, nr)
           r == [x EXCEPT !.code = c, !.wait = @ \/ over, !.nomem = @ \/ ~b]
<1>1. /\ x \in MemT /\ x.code = m.code /\ SameFlags(m, x) /\ SameHeld(m, x)
      /\ Len(m.rsv) <= Len(x.rsv) /\ Len(x.rsv) <= Len(m.rsv) + nr
  BY RefillKeeps
<1>2. Ending(m, nr, over) = r
  BY DEF Ending
<1>3. b \in BOOLEAN /\ c \in Code /\ (b <=> Len(x.rsv) = Len(m.rsv) + nr) /\ (c = OK => b)
  BY DEF Refilled, Code, OK, NOMEM, WAIT_AMT
<1> HIDE DEF x, c, b
<1>4. /\ r \in MemT /\ r.code = c /\ r.nomem = (x.nomem \/ ~b) /\ r.dry = x.dry /\ r.rsv = x.rsv
      /\ r.vq = x.vq /\ r.dq = x.dq /\ r.vec = x.vec /\ r.data = x.data
  BY <1>1, <1>3 DEF MemT
<1> HIDE DEF r
<1>5. SameHeld(m, r)
  BY <1>1, <1>4 DEF SameHeld, VecsAt, DatasAt
<1> QED
  BY <1>1, <1>2, <1>3, <1>4, <1>5 DEF Ended, SameFlags

\* fill_in_rsv_list
LEMMA FillInEnds ==
  ASSUME NEW m \in MemT, NEW nr \in Nat
  PROVE  Ended(m, FillIn(m, nr), nr)
<1> DEFINE a == MaybeSweepVec(m)
           b == MaybeSweepData(a)
           o == OverVec(b) \/ OverData(b)
<1>1. FillIn(m, nr) = Ending(b, nr, o)
  BY DEF FillIn
<1>2. a \in MemT /\ a.rsv = m.rsv /\ SameFlags(m, a) /\ SameHeld(m, a)
  BY MaybeSweepKeeps
<1> HIDE DEF a
<1>3. b \in MemT /\ b.rsv = a.rsv /\ SameFlags(a, b) /\ SameHeld(a, b)
  BY <1>2, MaybeSweepKeeps
<1>4. o \in BOOLEAN
  BY DEF OverVec, OverData
<1> HIDE DEF b, o
<1>5. Ended(b, Ending(b, nr, o), nr)
  BY <1>3, <1>4, EndingEnds
<1> QED
  BY <1>1, <1>2, <1>3, <1>5 DEF Ended, SameFlags, SameHeld

\* r is what is left of m when a node, or a data block, has been queued: the
\* reserve gives the node of the entry.  If it has none, the thread is stuck.
Queued(m, r) ==
  /\ r \in MemT /\ r.nomem = m.nomem
  /\ Len(m.rsv) \in Nat /\ Len(r.rsv) \in Nat
  /\ Len(m.rsv) = 0 => Len(r.rsv) = 0 /\ r.dry
  /\ Len(m.rsv) > 0 => Len(r.rsv) = Len(m.rsv) - 1 /\ r.dry = m.dry

\* What it adds to the counts.
VecAdded(m, r, id) ==
  /\ \A v \in Vec : VecsAt(r, v) = VecsAt(m, v) + One(id, v)
  /\ \A d \in Data : DatasAt(r, d) = DatasAt(m, d)
DataAdded(m, r, id) ==
  /\ \A v \in Vec : VecsAt(r, v) = VecsAt(m, v)
  /\ \A d \in Data : DatasAt(r, d) = DatasAt(m, d) + One(id, d)

\* An entry of a queue.
LEMMA EntryType ==
  ASSUME NEW m \in MemT, tick \in Nat, m.rsv # <<>>, NEW id
  PROVE  /\ Entry(m, id).id = id /\ Entry(m, id).node = m.rsv[1]
         /\ id \in Vec => Entry(m, id) \in VecEntry
         /\ id \in Data => Entry(m, id) \in DataEntry
<1>1. m.rsv \in Seq(Vec)
  BY DEF MemT
<1>2. m.rsv[1] \in Vec
  BY <1>1
<1>3. tick % BufMod \in Nat /\ NVec \in Nat
  BY BufAssumption
<1>4. Entry(m, id) = [id |-> id, node |-> m.rsv[1], tick |-> tick % BufMod]
  BY DEF Entry, Now
<1>5. id \in Vec => id \in 0 .. NVec
  BY <1>3 DEF Vec
<1> QED
  BY <1>2, <1>3, <1>4, <1>5 DEF VecEntry, DataEntry

\* An empty reserve gives none.
LEMMA StuckQueued ==
  ASSUME NEW m \in MemT, m.rsv = <<>>
  PROVE  Queued(m, [m EXCEPT !.dry = TRUE])
<1> DEFINE r == [m EXCEPT !.dry = TRUE]
<1>1. r \in MemT /\ r.nomem = m.nomem /\ r.dry = TRUE /\ r.rsv = m.rsv
  BY DEF MemT
<1>2. Len(m.rsv) = 0
  OBVIOUS
<1> HIDE DEF r
<1>3. Queued(m, r)
  BY <1>1, <1>2 DEF Queued
<1> QED
  BY <1>3 DEF r

\* vec_free_to_buf_simple
LEMMA VecRetireQueues ==
  ASSUME NEW m \in MemT, tick \in Nat, NEW id \in Vec
  PROVE  Queued(m, VecRetire(m, id)) /\ (m.rsv # <<>> => VecAdded(m, VecRetire(m, id), id))
<1>1. m.rsv \in Seq(Vec) /\ m.vq \in Seq(VecEntry) /\ Len(m.rsv) \in Nat
  BY DEF MemT
<1>2. CASE m.rsv = <<>>
  <2>1. VecRetire(m, id) = [m EXCEPT !.dry = TRUE]
    BY <1>2 DEF VecRetire
  <2> QED
    BY <1>2, <2>1, StuckQueued
<1>3. CASE m.rsv # <<>>
  <2> DEFINE e == Entry(m, id)
             q == Append(m.vq, e)
             r == [m EXCEPT !.rsv = Tail(@), !.vq = q]
  <2>1. VecRetire(m, id) = r
    BY <1>3 DEF VecRetire
  <2>2. e \in VecEntry /\ e.id = id /\ e.node = m.rsv[1]
    BY <1>3, EntryType
  <2>3. q \in Seq(VecEntry) /\ Tail(m.rsv) \in Seq(Vec) /\ Len(Tail(m.rsv)) = Len(m.rsv) - 1
        /\ Len(m.rsv) > 0
    <3> HIDE DEF e
    <3> QED
      BY <1>1, <1>3, <2>2
  <2> HIDE DEF e, q
  <2>4. r \in MemT /\ r.nomem = m.nomem /\ r.dry = m.dry /\ r.rsv = Tail(m.rsv) /\ r.vq = q
        /\ r.dq = m.dq /\ r.vec = m.vec /\ r.data = m.data
    BY <2>3 DEF MemT
  <2> HIDE DEF r
  <2>5. ASSUME NEW v \in Vec PROVE VecsAt(r, v) = VecsAt(m, v) + One(id, v)
    <3>1. /\ At(Ids(q), v) = At(Ids(m.vq), v) + One(id, v)
          /\ At(Nodes(q), v) = At(Nodes(m.vq), v) + One(m.rsv[1], v)
      BY <1>1, <2>2, EntryAppend DEF q
    <3>2. At(m.rsv, v) = One(m.rsv[1], v) + At(Tail(m.rsv), v) /\ At(Tail(m.rsv), v) \in Nat
      BY <1>1, <1>3, AtTail
    <3>3. /\ At(m.vec, v) \in Nat /\ At(m.rsv, v) \in Nat /\ At(Ids(m.vq), v) \in Nat
          /\ At(Nodes(m.vq), v) \in Nat /\ At(Nodes(m.dq), v) \in Nat
      BY MemNumbers
    <3>4. VecsAt(r, v) = At(m.vec, v) + At(Tail(m.rsv), v) + At(Ids(q), v)
                         + At(Nodes(q), v) + At(Nodes(m.dq), v)
      BY <2>4 DEF VecsAt
    <3>5. VecsAt(m, v) = At(m.vec, v) + At(m.rsv, v) + At(Ids(m.vq), v)
                         + At(Nodes(m.vq), v) + At(Nodes(m.dq), v)
      BY DEF VecsAt
    <3>6. One(id, v) \in Nat /\ One(m.rsv[1], v) \in Nat
      BY DEF One
    <3> QED
      BY <3>1, <3>2, <3>3, <3>4, <3>5, <3>6
  <2>6. \A d : DatasAt(r, d) = DatasAt(m, d)
    BY <2>4 DEF DatasAt
  <2>7. Queued(m, r)
    BY <1>1, <2>3, <2>4 DEF Queued
  <2> QED
    BY <2>1, <2>5, <2>6, <2>7 DEF VecAdded
<1> QED
  BY <1>2, <1>3

\* db_free_to_buf_simple
LEMMA DataRetireQueues ==
  ASSUME NEW m \in MemT, tick \in Nat, NEW id \in Data
  PROVE  Queued(m, DataRetire(m, id)) /\ (m.rsv # <<>> => DataAdded(m, DataRetire(m, id), id))
<1>1. m.rsv \in Seq(Vec) /\ m.dq \in Seq(DataEntry) /\ Len(m.rsv) \in Nat
  BY DEF MemT
<1>2. CASE m.rsv = <<>>
  <2>1. DataRetire(m, id) = [m EXCEPT !.dry = TRUE]
    BY <1>2 DEF DataRetire
  <2> QED
    BY <1>2, <2>1, StuckQueued
<1>3. CASE m.rsv # <<>>
  <2> DEFINE e == Entry(m, id)
             q == Append(m.dq, e)
             r == [m EXCEPT !.rsv = Tail(@), !.dq = q]
  <2>1. DataRetire(m, id) = r
    BY <1>3 DEF DataRetire
  <2>2. e \in DataEntry /\ e.id = id /\ e.node = m.rsv[1]
    BY <1>3, EntryType
  <2>3. q \in Seq(DataEntry) /\ Tail(m.rsv) \in Seq(Vec) /\ Len(Tail(m.rsv)) = Len(m.rsv) - 1
        /\ Len(m.rsv) > 0
    <3> HIDE DEF e
    <3> QED
      BY <1>1, <1>3, <2>2
  <2> HIDE DEF e, q
  <2>4. r \in MemT /\ r.nomem = m.nomem /\ r.dry = m.dry /\ r.rsv = Tail(m.rsv) /\ r.dq = q
        /\ r.vq = m.vq /\ r.vec = m.vec /\ r.data = m.data
    BY <2>3 DEF MemT
  <2> HIDE DEF r
  <2>5. ASSUME NEW v PROVE VecsAt(r, v) = VecsAt(m, v) /\ DatasAt(r, v) = DatasAt(m, v) + One(id, v)
    <3>1. /\ At(Ids(q), v) = At(Ids(m.dq), v) + One(id, v)
          /\ At(Nodes(q), v) = At(Nodes(m.dq), v) + One(m.rsv[1], v)
      BY <1>1, <2>2, EntryAppend DEF q
    <3>2. At(m.rsv, v) = One(m.rsv[1], v) + At(Tail(m.rsv), v) /\ At(Tail(m.rsv), v) \in Nat
      BY <1>1, <1>3, AtTail
    <3>3. /\ At(m.vec, v) \in Nat /\ At(m.rsv, v) \in Nat /\ At(Ids(m.vq), v) \in Nat
          /\ At(Nodes(m.vq), v) \in Nat /\ At(Nodes(m.dq), v) \in Nat
          /\ At(m.data, v) \in Nat /\ At(Ids(m.dq), v) \in Nat
      BY MemNumbers
    <3>4. VecsAt(r, v) = At(m.vec, v) + At(Tail(m.rsv), v) + At(Ids(m.vq), v)
                         + At(Nodes(m.vq), v) + At(Nodes(q), v)
          /\ DatasAt(r, v) = At(m.data, v) + At(Ids(q), v)
      BY <2>4 DEF VecsAt, DatasAt
    <3>5. VecsAt(m, v) = At(m.vec, v) + At(m.rsv, v) + At(Ids(m.vq), v)
                         + At(Nodes(m.vq), v) + At(Nodes(m.dq), v)
          /\ DatasAt(m, v) = At(m.data, v) + At(Ids(m.dq), v)
      BY DEF VecsAt, DatasAt
    <3>6. One(id, v) \in Nat /\ One(m.rsv[1], v) \in Nat
      BY DEF One
    <3> QED
      BY <3>1, <3>2, <3>3, <3>4, <3>5, <3>6
  <2>7. Queued(m, r)
    BY <1>1, <2>3, <2>4 DEF Queued
  <2> QED
    BY <2>1, <2>5, <2>7 DEF DataAdded
<1> QED
  BY <1>2, <1>3

\* r is what vec_free_to_buf, or db_free_to_buf, makes of m: it queues, and the
\* reserve gets a node back, or the refill has failed.
Freed(m, r) ==
  /\ r \in MemT
  /\ Len(m.rsv) \in Nat /\ Len(r.rsv) \in Nat
  /\ m.nomem => r.nomem
  /\ m.dry => r.dry
  /\ Len(m.rsv) = 0 => Len(r.rsv) <= 1 /\ r.dry
  /\ Len(m.rsv) > 0 => /\ r.dry = m.dry
                       /\ Len(r.rsv) <= Len(m.rsv)
                       /\ r.code = OK \/ ~ r.nomem => Len(r.rsv) = Len(m.rsv)

\* vec_free_to_buf
LEMMA VecFreeFrees ==
  ASSUME NEW m \in MemT, tick \in Nat, NEW id \in Vec
  PROVE  Freed(m, VecFree(m, id)) /\ (m.rsv # <<>> => VecAdded(m, VecFree(m, id), id))
<1> DEFINE a == VecRetire(m, id)
           b == MaybeSweepVec(a)
           o == OverVec(b)
           r == Ending(b, 1, o)
<1>1. VecFree(m, id) = r
  BY DEF VecFree
<1>2. Queued(m, a) /\ (m.rsv # <<>> => VecAdded(m, a, id)) /\ a \in MemT
  BY VecRetireQueues DEF Queued
<1> HIDE DEF a
<1>3. b \in MemT /\ b.rsv = a.rsv /\ SameFlags(a, b) /\ SameHeld(a, b)
  BY <1>2, MaybeSweepKeeps
<1>4. o \in BOOLEAN
  BY DEF OverVec
<1> HIDE DEF b, o
<1>5. Ended(b, r, 1)
  BY <1>3, <1>4, EndingEnds
<1> HIDE DEF r
<1>6. r \in MemT /\ Len(r.rsv) \in Nat /\ m.rsv \in Seq(Vec)
  BY <1>5 DEF Ended, MemT
<1>7. m.rsv # <<>> => Len(m.rsv) > 0
  BY <1>6
<1>8. Freed(m, r)
  BY <1>2, <1>3, <1>5, <1>6 DEF Freed, Queued, Ended, SameFlags
<1>9. m.rsv # <<>> => VecAdded(m, r, id)
  BY <1>2, <1>3, <1>5 DEF VecAdded, Ended, SameHeld
<1> QED
  BY <1>1, <1>8, <1>9

\* db_free_to_buf
LEMMA DataFreeFrees ==
  ASSUME NEW m \in MemT, tick \in Nat, NEW id \in Data
  PROVE  Freed(m, DataFree(m, id)) /\ (m.rsv # <<>> => DataAdded(m, DataFree(m, id), id))
<1> DEFINE a == DataRetire(m, id)
           b == MaybeSweepData(a)
           o == OverData(b)
           r == Ending(b, 1, o)
<1>1. DataFree(m, id) = r
  BY DEF DataFree
<1>2. Queued(m, a) /\ (m.rsv # <<>> => DataAdded(m, a, id)) /\ a \in MemT
  BY DataRetireQueues DEF Queued
<1> HIDE DEF a
<1>3. b \in MemT /\ b.rsv = a.rsv /\ SameFlags(a, b) /\ SameHeld(a, b)
  BY <1>2, MaybeSweepKeeps
<1>4. o \in BOOLEAN
  BY DEF OverData
<1> HIDE DEF b, o
<1>5. Ended(b, r, 1)
  BY <1>3, <1>4, EndingEnds
<1> HIDE DEF r
<1>6. r \in MemT /\ Len(r.rsv) \in Nat /\ m.rsv \in Seq(Vec)
  BY <1>5 DEF Ended, MemT
<1>8. Freed(m, r)
  BY <1>2, <1>3, <1>5, <1>6 DEF Freed, Queued, Ended, SameFlags
<1>9. m.rsv # <<>> => DataAdded(m, r, id)
  BY <1>2, <1>3, <1>5 DEF DataAdded, Ended, SameHeld
<1> QED
  BY <1>1, <1>8, <1>9

\* What an insertion has got: its data block and its n nodes, or Nil for what
\* it could not have, and the rest.
Obtained(m, a, n) ==
  /\ a.data \in Data \union {Nil}
  /\ a.vecs \in Seq(0 .. NVec) /\ Len(a.vecs) = n
  /\ a.m \in MemT /\ a.m.rsv = m.rsv /\ SameFlags(m, a.m)
  /\ \A v \in Vec : VecsAt(a.m, v) + At(a.vecs, v) = VecsAt(m, v)
  /\ \A d \in Data : DatasAt(a.m, d) + One(a.data, d) = DatasAt(m, d)

\* Data block and nodes are got one after the other.
LEMMA AllocChain ==
  ASSUME NEW t, Mem(t) \in MemT, NEW n \in Nat
  PROVE  \E v : /\ v[0] = DataAlloc(Mem(t)) /\ \A k \in 1 .. n : v[k] = VecAlloc(v[k - 1].m)
                /\ \A k \in 0 .. n : v[k].m \in MemT
                /\ Allocated(t, n)
                     = [data |-> v[0].id, vecs |-> [i \in 1 .. n |-> v[i].id], m |-> v[n].m]
<1> DEFINE m == Mem(t)
           d == DataAlloc(m)
           S == {x \in [id : (0 .. NVec) \union Data \union {Nil}, m : MemT] : TRUE}
           Body(f) == [i \in 0 .. n |-> IF i = 0 THEN d ELSE VecAlloc(f[i - 1].m)]
           v == CHOOSE f : f = Body(f)
           ids == [i \in 1 .. n |-> v[i].id]
<1>1. Allocated(t, n) = [data |-> d.id, vecs |-> ids, m |-> v[n].m]
  BY DEF Allocated
<1>2. d \in S /\ d.m \in MemT
  <2>1. d = [id |-> d.id, m |-> d.m]
    BY DEF DataAlloc, Got
  <2>2. d.id \in Data \union {Nil} /\ d.m \in MemT
    BY DataAllocGives
  <2> HIDE DEF d, m
  <2> QED
    BY <2>1, <2>2
<1> HIDE DEF m
<1>3. ASSUME NEW x \in MemT
      PROVE  VecAlloc(x) \in S /\ VecAlloc(x).m \in MemT
  <2>1. VecAlloc(x) = [id |-> VecAlloc(x).id, m |-> VecAlloc(x).m]
    BY DEF VecAlloc, Got
  <2>2. VecAlloc(x).id \in 0 .. NVec /\ Gives(x, VecAlloc(x).m, VecAlloc(x).id)
    BY VecAllocGives
  <2>3. VecAlloc(x).m \in MemT
    BY <2>2 DEF Gives
  <2> QED
    BY <2>1, <2>2, <2>3
<1> HIDE DEF d
<1>4. v = Body(v)
  <2> DEFINE op == [x \in S |-> VecAlloc(x.m)]
  <2>1. op \in [S -> S]
    BY <1>3
  <2>2. PICK f : Chain(n, S, op, d, f)
    <3> HIDE DEF op, S
    <3> QED
      BY <1>2, <2>1, ChainDefined
  <2>3. \A k \in 1 .. n : k - 1 \in 0 .. n /\ k \in 0 .. n /\ k # 0
    OBVIOUS
  <2>4. \A k \in 1 .. n : f[k] = VecAlloc(f[k - 1].m)
    BY <2>2, <2>3 DEF Chain
  <2>5. \A k \in 0 .. n : k # 0 => k \in 1 .. n
    OBVIOUS
  <2>6. f = [k \in 0 .. n |-> f[k]] /\ f[0] = d
    BY <2>2 DEF Chain
  <2>7. f = Body(f)
    BY <2>4, <2>5, <2>6
  <2> HIDE DEF Body
  <2> QED
    BY <2>7
<1>5. v[0] = d /\ \A k \in 1 .. n : v[k] = VecAlloc(v[k - 1].m)
  <2>1. \A k \in 0 .. n : v[k] = Body(v)[k]
    BY <1>4
  <2>2. 0 \in 0 .. n /\ \A k \in 1 .. n : k \in 0 .. n /\ k # 0
    OBVIOUS
  <2> HIDE DEF v
  <2> QED
    BY <2>1, <2>2
<1> HIDE DEF v, S
<1>6. \A k \in 0 .. n : v[k].m \in MemT
  <2> DEFINE T == [k \in 0 .. n |-> {x : x \in {y \in {v[k]} : y.m \in MemT}}]
  <2>1. v[0] \in T[0]
    BY <1>2, <1>5
  <2>2. ASSUME NEW k \in 1 .. n, v[k - 1] \in T[k - 1] PROVE v[k] \in T[k]
    <3>1. k - 1 \in 0 .. n /\ k \in 0 .. n
      OBVIOUS
    <3> QED
      BY <1>3, <1>5, <2>2, <3>1
  <2>3. \A k \in 0 .. n : v[k] \in T[k]
    <3> HIDE DEF T
    <3> QED
      BY <2>1, <2>2, FoldClimbs
  <2> QED
    BY <2>3
<1> HIDE DEF ids
<1>7. Allocated(t, n) = [data |-> v[0].id, vecs |-> ids, m |-> v[n].m]
  BY <1>1, <1>5
<1> QED
  BY <1>5, <1>6, <1>7 DEF m, ids, d

\* What an insertion gets, and what it leaves.
LEMMA AllocatedGot ==
  ASSUME NEW t, Mem(t) \in MemT, NEW n \in Nat
  PROVE  Obtained(Mem(t), Allocated(t, n), n)
<1>0. PICK v : /\ v[0] = DataAlloc(Mem(t)) /\ \A k \in 1 .. n : v[k] = VecAlloc(v[k - 1].m)
               /\ \A k \in 0 .. n : v[k].m \in MemT
               /\ Allocated(t, n)
                    = [data |-> v[0].id, vecs |-> [i \in 1 .. n |-> v[i].id], m |-> v[n].m]
  BY AllocChain
<1> DEFINE m == Mem(t)
           d == DataAlloc(m)
           ids == [i \in 1 .. n |-> v[i].id]
           a == [data |-> d.id, vecs |-> ids, m |-> v[n].m]
<1>1. Allocated(t, n) = a
  BY <1>0
<1>2. /\ d.id \in Data \union {Nil} /\ d.m \in MemT
      /\ d.m.rsv = m.rsv /\ SameFlags(m, d.m)
      /\ \A w \in Vec : VecsAt(d.m, w) = VecsAt(m, w)
      /\ \A c \in Data : DatasAt(d.m, c) + One(d.id, c) = DatasAt(m, c)
  BY DataAllocGives
<1> HIDE DEF m
<1>3. ASSUME NEW x \in MemT
      PROVE  VecAlloc(x).id \in 0 .. NVec /\ Gives(x, VecAlloc(x).m, VecAlloc(x).id)
             /\ VecAlloc(x).m \in MemT
  BY VecAllocGives DEF Gives
<1> HIDE DEF d
<1>5. v[0] = d /\ \A k \in 1 .. n : v[k] = VecAlloc(v[k - 1].m)
  BY <1>0 DEF d, m
<1>6. ids \in Seq(0 .. NVec) /\ Len(ids) = n /\ \A k \in 0 .. n : v[k].m \in MemT
  <2>1. \A k \in 1 .. n : k - 1 \in 0 .. n
    OBVIOUS
  <2>2. \A k \in 1 .. n : v[k].id \in 0 .. NVec
    BY <1>0, <1>3, <2>1
  <2>3. ids \in [1 .. n -> 0 .. NVec]
    BY <2>2
  <2> QED
    BY <1>0, <2>3
<1>7. \A k \in 1 .. n : ids[k] = v[k].id
  OBVIOUS
<1> HIDE DEF ids
<1> DEFINE part(k) == SubSeq(ids, 1, k)
           Rest(x, k) == /\ x.rsv = m.rsv /\ SameFlags(m, x)
                         /\ \A w \in Vec : VecsAt(x, w) + At(part(k), w) = VecsAt(m, w)
                         /\ \A c \in Data : DatasAt(x, c) + One(d.id, c) = DatasAt(m, c)
           T == [k \in 0 .. n |-> {y \in {v[k]} : Rest(y.m, k)}]
<1>8. v[0] \in T[0]
  <2>1. part(0) = <<>>
    BY SubSeqEmpty
  <2>2. \A w : At(part(0), w) = 0 /\ VecsAt(d.m, w) \in Nat
    BY <1>2, <2>1, AtShort, MemNumbers
  <2> HIDE DEF part
  <2>3. \A w \in Vec : VecsAt(d.m, w) + At(part(0), w) = VecsAt(m, w)
    BY <1>2, <2>2
  <2>4. Rest(d.m, 0)
    BY <1>2, <2>3
  <2> HIDE DEF Rest
  <2> QED
    BY <1>5, <2>4
<1>9. ASSUME NEW k \in 1 .. n, v[k - 1] \in T[k - 1] PROVE v[k] \in T[k]
  <2> DEFINE x == v[k - 1].m
             y == VecAlloc(x).m
             id == VecAlloc(x).id
  <2>1. k - 1 \in 0 .. n /\ k \in 0 .. n
    OBVIOUS
  <2>2. x \in MemT /\ Rest(x, k - 1) /\ v[k] = VecAlloc(x)
    BY <1>5, <1>6, <1>9, <2>1
  <2>3. Gives(x, y, id) /\ ids[k] = id
    BY <1>3, <1>7, <2>2
  <2>4. part(k) = Append(part(k - 1), id) /\ part(k - 1) \in Seq(0 .. NVec) /\ id \in 0 .. NVec
    BY <1>6, <2>3, PrefixStep
  <2> HIDE DEF x, y, id, part
  <2>5. y \in MemT
    BY <2>3 DEF Gives
  <2>6. ASSUME NEW w \in Vec PROVE VecsAt(y, w) + At(part(k), w) = VecsAt(m, w)
    <3>1. At(part(k), w) = At(part(k - 1), w) + One(id, w)
      BY <2>4, AtAppend
    <3>2. VecsAt(x, w) + At(part(k - 1), w) = VecsAt(m, w)
      BY <2>2
    <3>3. VecsAt(y, w) + One(id, w) = VecsAt(x, w)
      BY <2>3 DEF Gives
    <3>4. At(part(k - 1), w) \in Nat /\ VecsAt(y, w) \in Nat /\ One(id, w) \in Nat
      BY <2>4, <2>5, AtPlaces, MemNumbers DEF One
    <3> QED
      BY <3>1, <3>2, <3>3, <3>4
  <2>7. Rest(y, k)
    BY <2>2, <2>3, <2>6 DEF Gives, SameFlags
  <2>8. v[k].m = y
    BY <2>2 DEF y
  <2> HIDE DEF Rest
  <2> QED
    BY <2>1, <2>7, <2>8
<1>10. Rest(v[n].m, n)
  <2>1. \A k \in 0 .. n : v[k] \in T[k]
    <3> HIDE DEF T
    <3> QED
      BY <1>8, <1>9, FoldClimbs
  <2>2. n \in 0 .. n
    OBVIOUS
  <2> HIDE DEF Rest
  <2> QED
    BY <2>1, <2>2
<1>11. part(n) = ids
  BY <1>6, SubSeqFull
<1>12. n \in 0 .. n
  OBVIOUS
<1> HIDE DEF part
<1>13. Obtained(m, a, n)
  BY <1>2, <1>6, <1>10, <1>11, <1>12 DEF Obtained
<1> QED
  BY <1>1, <1>13 DEF m

\* The reserve is a sequence.
LEMMA RsvLen ==
  ASSUME NEW m \in MemT
  PROVE  /\ m.rsv \in Seq(Vec) /\ Len(m.rsv) \in Nat
         /\ Len(m.rsv) > 0 => m.rsv # <<>>
<1>1. m.rsv \in Seq(Vec)
  BY DEF MemT
<1> QED
  BY <1>1

\* The nodes of ids are queued one after the other: each takes a node of the
\* reserve, and if there are not enough the thread is stuck.
QueuedAll(m, r, ids, k) ==
  /\ r.nomem = m.nomem
  /\ m.dry => r.dry
  /\ Len(m.rsv) >= k => Len(r.rsv) = Len(m.rsv) - k /\ r.dry = m.dry
  /\ Len(m.rsv) < k => Len(r.rsv) = 0 /\ r.dry
  /\ ~ r.dry => /\ \A v \in Vec : VecsAt(r, v) = VecsAt(m, v) + At(SubSeq(ids, 1, k), v)
                /\ \A d \in Data : DatasAt(r, d) = DatasAt(m, d)

\* Nodes are retired one after the other.
LEMMA RetireChain ==
  ASSUME NEW m \in MemT, tick \in Nat, NEW ids \in Seq(Vec)
  PROVE  \E h : /\ h[0] = m /\ \A k \in 1 .. Len(ids) : h[k] = VecRetire(h[k - 1], ids[k])
                /\ \A k \in 0 .. Len(ids) : h[k] \in MemT
                /\ FoldLeft(VecRetire, m, ids) = h[Len(ids)]
<1> DEFINE n == Len(ids)
           op == [p \in MemT \X (1 .. n) |-> VecRetire(p[1], ids[p[2]])]
           Body(i) == [s \in SUBSET (1 .. n) |->
                         IF s = {} THEN m ELSE VecRetire(i[s \ {Max(s)}], ids[Max(s)])]
           It == CHOOSE i : i = Body(i)
           h == [k \in 0 .. n |-> It[1 .. k]]
           T == [k \in 0 .. n |-> MemT]
<1>1. n \in Nat /\ n = Len(ids) /\ DOMAIN ids = 1 .. n /\ \A k \in 1 .. n : ids[k] \in Vec
  OBVIOUS
<1>2. FoldLeft(VecRetire, m, ids) = It[1 .. n]
  BY <1>1 DEF FoldLeft, MapThenFoldSet
<1> HIDE DEF n
<1>3. ASSUME NEW x \in MemT, NEW id \in Vec
      PROVE  /\ VecRetire(x, id) \in MemT /\ Queued(x, VecRetire(x, id))
             /\ x.rsv # <<>> => VecAdded(x, VecRetire(x, id), id)
  BY VecRetireQueues DEF Queued
<1>4. op \in [MemT \X (1 .. n) -> MemT]
  <2>1. \A p \in MemT \X (1 .. n) : p[1] \in MemT /\ ids[p[2]] \in Vec
    BY <1>1
  <2>2. \A p \in MemT \X (1 .. n) : VecRetire(p[1], ids[p[2]]) \in MemT
    BY <1>3, <2>1
  <2> QED
    BY <2>2
<1>5. It = Body(It)
  <2>1. PICK g : Solution(n, MemT, op, m, g)
    <3> HIDE DEF op
    <3> QED
      BY <1>1, <1>4, FoldDefined
  <2>2. ASSUME NEW s \in SUBSET (1 .. n), s # {}
        PROVE  g[s] = VecRetire(g[s \ {Max(s)}], ids[Max(s)])
    <3>1. Max(s) \in 1 .. n
      BY <1>1, <2>2, MaxIn
    <3>2. g[s \ {Max(s)}] \in MemT
      BY <2>1 DEF Solution
    <3>3. g[s] = op[<<g[s \ {Max(s)}], Max(s)>>]
      BY <2>1, <2>2 DEF FoldOf, Solution
    <3> QED
      BY <3>1, <3>2, <3>3
  <2>3. g[{}] = m
    BY <2>1 DEF FoldOf, Solution
  <2>4. g = Body(g)
    BY <2>1, <2>2, <2>3 DEF Solution
  <2> HIDE DEF Body
  <2> QED
    BY <2>4
<1>6. h[0] = m /\ \A k \in 1 .. n : h[k] = VecRetire(h[k - 1], ids[k])
  <2>1. h[0] = It[1 .. 0] /\ \A k \in 1 .. n : h[k] = It[1 .. k] /\ h[k - 1] = It[1 .. (k - 1)]
    BY <1>1
  <2>2. 1 .. 0 = {} /\ {} \in SUBSET (1 .. n)
    OBVIOUS
  <2>3. It[{}] = m
    BY <1>5, <2>2
  <2>4. ASSUME NEW k \in 1 .. n PROVE It[1 .. k] = VecRetire(It[1 .. (k - 1)], ids[k])
    <3>1. /\ 1 .. k \in SUBSET (1 .. n) /\ 1 .. k # {}
          /\ Max(1 .. k) = k /\ (1 .. k) \ {k} = 1 .. (k - 1)
      BY <1>1, UpTo
    <3>2. It[1 .. k] = VecRetire(It[(1 .. k) \ {Max(1 .. k)}], ids[Max(1 .. k)])
      BY <1>5, <3>1
    <3> QED
      BY <3>1, <3>2
  <2> QED
    BY <2>1, <2>2, <2>3, <2>4
<1>7. \A k \in 0 .. n : h[k] \in MemT
  <2> HIDE DEF h
  <2>1. h[0] \in T[0] /\ \A k \in 1 .. n : h[k - 1] \in T[k - 1] => h[k] \in T[k]
    <3>1. 0 \in 0 .. n /\ \A k \in 1 .. n : k \in 0 .. n /\ k - 1 \in 0 .. n
      BY <1>1
    <3> QED
      BY <1>1, <1>3, <1>6, <3>1
  <2>2. \A k \in 0 .. n : h[k] \in T[k]
    <3> HIDE DEF T
    <3> QED
      BY <1>1, <2>1, FoldClimbs
  <2> QED
    BY <2>2
<1>8. FoldLeft(VecRetire, m, ids) = h[n]
  BY <1>1, <1>2
<1> HIDE DEF h
<1> QED
  BY <1>1, <1>6, <1>7, <1>8

\* A lost race queues all the nodes it had got.
LEMMA RetireFold ==
  ASSUME NEW m \in MemT, tick \in Nat, NEW ids \in Seq(Vec)
  PROVE  LET r == FoldLeft(VecRetire, m, ids) IN r \in MemT /\ QueuedAll(m, r, ids, Len(ids))
<1>0. PICK h : /\ h[0] = m /\ \A k \in 1 .. Len(ids) : h[k] = VecRetire(h[k - 1], ids[k])
               /\ \A k \in 0 .. Len(ids) : h[k] \in MemT
               /\ FoldLeft(VecRetire, m, ids) = h[Len(ids)]
  BY RetireChain
<1> DEFINE n == Len(ids)
           T == [k \in 0 .. n |-> {r \in MemT : QueuedAll(m, r, ids, k)}]
<1>1. n \in Nat /\ n = Len(ids) /\ DOMAIN ids = 1 .. n /\ \A k \in 1 .. n : ids[k] \in Vec
  OBVIOUS
<1>2. /\ h[0] = m /\ \A k \in 1 .. n : h[k] = VecRetire(h[k - 1], ids[k])
      /\ \A k \in 0 .. n : h[k] \in MemT
      /\ FoldLeft(VecRetire, m, ids) = h[n]
  BY <1>0
<1> HIDE DEF n
<1>3. ASSUME NEW x \in MemT, NEW id \in Vec
      PROVE  /\ VecRetire(x, id) \in MemT /\ Queued(x, VecRetire(x, id))
             /\ x.rsv # <<>> => VecAdded(x, VecRetire(x, id), id)
  BY VecRetireQueues DEF Queued
<1>7. h[0] \in T[0]
  <2>1. SubSeq(ids, 1, 0) = <<>>
    BY SubSeqEmpty
  <2>2. Len(m.rsv) \in Nat /\ \A v : VecsAt(m, v) \in Nat /\ At(<<>>, v) = 0
    BY AtShort, MemNumbers, RsvLen
  <2>3. QueuedAll(m, m, ids, 0)
    <3>1. \A v \in Vec : VecsAt(m, v) = VecsAt(m, v) + At(SubSeq(ids, 1, 0), v)
      <4>1. TAKE v \in Vec
      <4>2. VecsAt(m, v) \in Nat /\ At(SubSeq(ids, 1, 0), v) = 0
        BY <2>1, <2>2
      <4> QED
        BY <4>2
    <3>2. Len(m.rsv) >= 0 => Len(m.rsv) = Len(m.rsv) - 0
      BY <2>2
    <3>3. ~ (Len(m.rsv) < 0)
      BY <2>2
    <3> QED
      BY <3>1, <3>2, <3>3 DEF QueuedAll
  <2> QED
    BY <1>1, <1>2, <2>3
<1>8. ASSUME NEW k \in 1 .. n, h[k - 1] \in T[k - 1] PROVE h[k] \in T[k]
  <2> DEFINE x == h[k - 1]
             id == ids[k]
             y == VecRetire(x, id)
             b == SubSeq(ids, 1, k - 1)
  <2>1. k - 1 \in 0 .. n /\ k \in 0 .. n /\ k \in Nat \ {0}
    BY <1>1
  <2>2. SubSeq(ids, 1, k) = Append(b, id) /\ b \in Seq(Vec) /\ id \in Vec
    BY <1>1, PrefixStep
  <2>3. x \in MemT /\ QueuedAll(m, x, ids, k - 1)
    BY <1>8, <2>1
  <2>4. h[k] = y
    BY <1>2
  <2>5. y \in MemT /\ Queued(x, y) /\ (x.rsv # <<>> => VecAdded(x, y, id))
    BY <1>3, <2>2, <2>3
  <2> HIDE DEF x, y, id, b
  <2>6. /\ Len(m.rsv) \in Nat /\ Len(x.rsv) \in Nat /\ Len(y.rsv) \in Nat
        /\ Len(x.rsv) > 0 => x.rsv # <<>>
    BY <2>3, <2>5, RsvLen
  <2>7. ASSUME ~ y.dry, NEW v \in Vec PROVE VecsAt(y, v) = VecsAt(m, v) + At(SubSeq(ids, 1, k), v)
    <3>1. Len(x.rsv) > 0 /\ ~ x.dry
      BY <2>5, <2>6, <2>7 DEF Queued
    <3>2. VecsAt(y, v) = VecsAt(x, v) + One(id, v)
      BY <2>5, <2>6, <3>1 DEF VecAdded
    <3>3. VecsAt(x, v) = VecsAt(m, v) + At(b, v)
      BY <2>3, <3>1 DEF QueuedAll, b
    <3>4. At(SubSeq(ids, 1, k), v) = At(b, v) + One(id, v)
      BY <2>2, AtAppend
    <3>5. VecsAt(m, v) \in Nat /\ At(b, v) \in Nat /\ One(id, v) \in Nat
      BY <2>2, AtPlaces, MemNumbers DEF One
    <3> QED
      BY <3>2, <3>3, <3>4, <3>5
  <2>8. ASSUME ~ y.dry, NEW d \in Data PROVE DatasAt(y, d) = DatasAt(m, d)
    <3>1. Len(x.rsv) > 0 /\ ~ x.dry
      BY <2>5, <2>6, <2>8 DEF Queued
    <3> QED
      BY <2>3, <2>5, <2>6, <3>1 DEF VecAdded, QueuedAll
  <2>9. /\ y.nomem = m.nomem
        /\ m.dry => y.dry
        /\ Len(m.rsv) >= k => Len(y.rsv) = Len(m.rsv) - k /\ y.dry = m.dry
        /\ Len(m.rsv) < k => Len(y.rsv) = 0 /\ y.dry
    <3>1. /\ y.nomem = x.nomem
          /\ Len(x.rsv) = 0 => Len(y.rsv) = 0 /\ y.dry
          /\ Len(x.rsv) > 0 => Len(y.rsv) = Len(x.rsv) - 1 /\ y.dry = x.dry
      BY <2>5 DEF Queued
    <3>2. /\ x.nomem = m.nomem
          /\ m.dry => x.dry
          /\ Len(m.rsv) >= k - 1 => Len(x.rsv) = Len(m.rsv) - (k - 1) /\ x.dry = m.dry
          /\ Len(m.rsv) < k - 1 => Len(x.rsv) = 0 /\ x.dry
      BY <2>3 DEF QueuedAll
    <3>3. CASE Len(m.rsv) >= k
      <4>1. Len(x.rsv) = Len(m.rsv) - (k - 1) /\ x.dry = m.dry /\ Len(x.rsv) > 0
        BY <2>1, <2>6, <3>2, <3>3
      <4>2. Len(y.rsv) = Len(x.rsv) - 1 /\ y.dry = x.dry
        BY <3>1, <4>1
      <4>3. Len(y.rsv) = Len(m.rsv) - k /\ ~ (Len(m.rsv) < k)
        BY <2>1, <2>6, <3>3, <4>1, <4>2
      <4> QED
        BY <3>1, <3>2, <4>1, <4>2, <4>3
    <3>4. CASE Len(m.rsv) < k
      <4>1. Len(x.rsv) = 0
        BY <2>1, <2>6, <3>2, <3>4
      <4>2. ~ (Len(m.rsv) >= k)
        BY <2>1, <2>6, <3>4
      <4> QED
        BY <3>1, <3>2, <4>1, <4>2
    <3> QED
      BY <2>1, <2>6, <3>3, <3>4
  <2>10. QueuedAll(m, y, ids, k)
    BY <2>7, <2>8, <2>9 DEF QueuedAll
  <2> QED
    BY <2>1, <2>4, <2>5, <2>10
<1>9. h[n] \in T[n]
  <2> HIDE DEF T
  <2>1. \A k \in 0 .. n : h[k] \in T[k]
    BY <1>1, <1>7, <1>8, FoldClimbs
  <2> QED
    BY <1>1, <2>1
<1>10. n \in 0 .. n
  BY <1>1
<1> QED
  BY <1>1, <1>2, <1>9, <1>10

\* What could be got of ids is retired again: the reserve stays whole as long
\* as each refill finds a node.
GivenAll(m, r, ids, k) ==
  /\ m.nomem => r.nomem
  /\ m.dry => r.dry
  /\ Len(m.rsv) <= RsvCnt => Len(r.rsv) <= RsvCnt
  /\ m.nomem \/ (Len(m.rsv) = RsvCnt /\ ~ m.dry) => r.nomem \/ (Len(r.rsv) = RsvCnt /\ ~ r.dry)
  /\ ~ r.dry => /\ \A v \in Vec : VecsAt(r, v) = VecsAt(m, v) + At(SubSeq(ids, 1, k), v)
                /\ \A d \in Data : DatasAt(r, d) = DatasAt(m, d)

\* So is what an insertion could get, each with its refill.
LEMMA GiveChain ==
  ASSUME NEW m \in MemT, tick \in Nat, NEW ids \in Seq(0 .. NVec)
  PROVE  \E h : /\ h[0] = m /\ \A k \in 1 .. Len(ids) : h[k] = GiveBack(h[k - 1], ids[k])
                /\ \A k \in 0 .. Len(ids) : h[k] \in MemT
                /\ FoldLeft(GiveBack, m, ids) = h[Len(ids)]
<1> DEFINE n == Len(ids)
           op == [p \in MemT \X (1 .. n) |-> GiveBack(p[1], ids[p[2]])]
           Body(i) == [s \in SUBSET (1 .. n) |->
                         IF s = {} THEN m ELSE GiveBack(i[s \ {Max(s)}], ids[Max(s)])]
           It == CHOOSE i : i = Body(i)
           h == [k \in 0 .. n |-> It[1 .. k]]
           T == [k \in 0 .. n |-> MemT]
<1>1. n \in Nat /\ n = Len(ids) /\ DOMAIN ids = 1 .. n /\ \A k \in 1 .. n : ids[k] \in 0 .. NVec
  <2> DEFINE S == 0 .. NVec
  <2> HIDE DEF S
  <2>1. ids \in Seq(S)
    BY DEF S
  <2>2. n \in Nat /\ n = Len(ids) /\ DOMAIN ids = 1 .. n /\ \A k \in 1 .. n : ids[k] \in S
    BY <2>1
  <2> QED
    BY <2>2 DEF S
<1>2. FoldLeft(GiveBack, m, ids) = It[1 .. n]
  BY <1>1 DEF FoldLeft, MapThenFoldSet
<1> HIDE DEF n
<1>3. ASSUME NEW x \in MemT, NEW id \in 0 .. NVec
      PROVE  LET y == GiveBack(x, id)
             IN  /\ y \in MemT
                 /\ id = Nil => y = x
                 /\ id # Nil => id \in Vec /\ Freed(x, y) /\ (x.rsv # <<>> => VecAdded(x, y, id))
  <2>1. CASE id = Nil
    BY <2>1 DEF GiveBack
  <2>2. CASE id # Nil
    <3>1. id \in Vec
      BY <2>2, BufAssumption DEF Vec, Nil
    <3> QED
      BY <2>2, <3>1, VecFreeFrees DEF GiveBack, Freed
  <2> QED
    BY <2>1, <2>2
<1>4. op \in [MemT \X (1 .. n) -> MemT]
  <2>1. \A p \in MemT \X (1 .. n) : p[1] \in MemT /\ ids[p[2]] \in 0 .. NVec
    BY <1>1
  <2>2. \A p \in MemT \X (1 .. n) : GiveBack(p[1], ids[p[2]]) \in MemT
    BY <1>3, <2>1
  <2> QED
    BY <2>2
<1>5. It = Body(It)
  <2>1. PICK g : Solution(n, MemT, op, m, g)
    <3> HIDE DEF op
    <3> QED
      BY <1>1, <1>4, FoldDefined
  <2>2. ASSUME NEW s \in SUBSET (1 .. n), s # {}
        PROVE  g[s] = GiveBack(g[s \ {Max(s)}], ids[Max(s)])
    <3>1. Max(s) \in 1 .. n
      BY <1>1, <2>2, MaxIn
    <3>2. g[s \ {Max(s)}] \in MemT
      BY <2>1 DEF Solution
    <3>3. g[s] = op[<<g[s \ {Max(s)}], Max(s)>>]
      BY <2>1, <2>2 DEF FoldOf, Solution
    <3> QED
      BY <3>1, <3>2, <3>3
  <2>3. g[{}] = m
    BY <2>1 DEF FoldOf, Solution
  <2>4. g = Body(g)
    BY <2>1, <2>2, <2>3 DEF Solution
  <2> HIDE DEF Body
  <2> QED
    BY <2>4
<1>6. h[0] = m /\ \A k \in 1 .. n : h[k] = GiveBack(h[k - 1], ids[k])
  <2>1. h[0] = It[1 .. 0] /\ \A k \in 1 .. n : h[k] = It[1 .. k] /\ h[k - 1] = It[1 .. (k - 1)]
    BY <1>1
  <2>2. 1 .. 0 = {} /\ {} \in SUBSET (1 .. n)
    OBVIOUS
  <2>3. It[{}] = m
    BY <1>5, <2>2
  <2>4. ASSUME NEW k \in 1 .. n PROVE It[1 .. k] = GiveBack(It[1 .. (k - 1)], ids[k])
    <3>1. /\ 1 .. k \in SUBSET (1 .. n) /\ 1 .. k # {}
          /\ Max(1 .. k) = k /\ (1 .. k) \ {k} = 1 .. (k - 1)
      BY <1>1, UpTo
    <3>2. It[1 .. k] = GiveBack(It[(1 .. k) \ {Max(1 .. k)}], ids[Max(1 .. k)])
      BY <1>5, <3>1
    <3> QED
      BY <3>1, <3>2
  <2> QED
    BY <2>1, <2>2, <2>3, <2>4
<1>7. \A k \in 0 .. n : h[k] \in MemT
  <2> HIDE DEF h
  <2>1. h[0] \in T[0] /\ \A k \in 1 .. n : h[k - 1] \in T[k - 1] => h[k] \in T[k]
    <3>1. 0 \in 0 .. n /\ \A k \in 1 .. n : k \in 0 .. n /\ k - 1 \in 0 .. n
      BY <1>1
    <3> QED
      BY <1>1, <1>3, <1>6, <3>1
  <2>2. \A k \in 0 .. n : h[k] \in T[k]
    <3> HIDE DEF T
    <3> QED
      BY <1>1, <2>1, FoldClimbs
  <2> QED
    BY <2>2
<1>8. FoldLeft(GiveBack, m, ids) = h[n]
  BY <1>1, <1>2
<1> HIDE DEF h
<1> QED
  BY <1>1, <1>6, <1>7, <1>8

\* An insertion that runs out of memory gives back all the nodes it had got.
LEMMA GiveFold ==
  ASSUME NEW m \in MemT, tick \in Nat, NEW ids \in Seq(0 .. NVec)
  PROVE  LET r == FoldLeft(GiveBack, m, ids) IN r \in MemT /\ GivenAll(m, r, ids, Len(ids))
<1>0. PICK h : /\ h[0] = m /\ \A k \in 1 .. Len(ids) : h[k] = GiveBack(h[k - 1], ids[k])
               /\ \A k \in 0 .. Len(ids) : h[k] \in MemT
               /\ FoldLeft(GiveBack, m, ids) = h[Len(ids)]
  BY GiveChain
<1> DEFINE n == Len(ids)
           T == [k \in 0 .. n |-> {r \in MemT : GivenAll(m, r, ids, k)}]
<1>1. n \in Nat /\ n = Len(ids) /\ DOMAIN ids = 1 .. n /\ \A k \in 1 .. n : ids[k] \in 0 .. NVec
  <2> DEFINE S == 0 .. NVec
  <2> HIDE DEF S
  <2>1. ids \in Seq(S)
    BY DEF S
  <2>2. n \in Nat /\ n = Len(ids) /\ DOMAIN ids = 1 .. n /\ \A k \in 1 .. n : ids[k] \in S
    BY <2>1
  <2> QED
    BY <2>2 DEF S
<1>2. /\ h[0] = m /\ \A k \in 1 .. n : h[k] = GiveBack(h[k - 1], ids[k])
      /\ \A k \in 0 .. n : h[k] \in MemT
      /\ FoldLeft(GiveBack, m, ids) = h[n]
  BY <1>0
<1> HIDE DEF n
<1>3. ASSUME NEW x \in MemT, NEW id \in 0 .. NVec
      PROVE  LET y == GiveBack(x, id)
             IN  /\ y \in MemT
                 /\ id = Nil => y = x
                 /\ id # Nil => id \in Vec /\ Freed(x, y) /\ (x.rsv # <<>> => VecAdded(x, y, id))
  <2>1. CASE id = Nil
    BY <2>1 DEF GiveBack
  <2>2. CASE id # Nil
    <3>1. id \in Vec
      BY <2>2, BufAssumption DEF Vec, Nil
    <3> QED
      BY <2>2, <3>1, VecFreeFrees DEF GiveBack, Freed
  <2> QED
    BY <2>1, <2>2
<1>7. h[0] \in T[0]
  <2>1. SubSeq(ids, 1, 0) = <<>>
    BY SubSeqEmpty
  <2>2. Len(m.rsv) \in Nat /\ \A v : VecsAt(m, v) \in Nat /\ At(<<>>, v) = 0
    BY AtShort, MemNumbers, RsvLen
  <2>3. GivenAll(m, m, ids, 0)
    <3>1. \A v \in Vec : VecsAt(m, v) = VecsAt(m, v) + At(SubSeq(ids, 1, 0), v)
      <4>1. TAKE v \in Vec
      <4>2. VecsAt(m, v) \in Nat /\ At(SubSeq(ids, 1, 0), v) = 0
        BY <2>1, <2>2
      <4> QED
        BY <4>2
    <3> QED
      BY <3>1 DEF GivenAll
  <2> QED
    BY <1>1, <1>2, <2>3
<1>8. ASSUME NEW k \in 1 .. n, h[k - 1] \in T[k - 1] PROVE h[k] \in T[k]
  <2> DEFINE x == h[k - 1]
             id == ids[k]
             y == GiveBack(x, id)
             b == SubSeq(ids, 1, k - 1)
  <2>1. k - 1 \in 0 .. n /\ k \in 0 .. n /\ k \in Nat \ {0}
    BY <1>1
  <2>2. SubSeq(ids, 1, k) = Append(b, id) /\ b \in Seq(0 .. NVec) /\ id \in 0 .. NVec
    BY <1>1, PrefixStep
  <2>3. x \in MemT /\ GivenAll(m, x, ids, k - 1)
    BY <1>8, <2>1
  <2>4. h[k] = y
    BY <1>2
  <2>5. /\ y \in MemT
        /\ id = Nil => y = x
        /\ id # Nil => id \in Vec /\ Freed(x, y) /\ (x.rsv # <<>> => VecAdded(x, y, id))
    BY <1>3, <2>2, <2>3
  <2> HIDE DEF x, y, id, b
  <2>6. /\ Len(m.rsv) \in Nat /\ Len(x.rsv) \in Nat /\ Len(y.rsv) \in Nat
        /\ Len(x.rsv) > 0 => x.rsv # <<>>
    BY <2>3, <2>5, RsvLen
  <2>7. ~ y.dry => ~ x.dry /\ (id # Nil => Len(x.rsv) > 0)
    BY <2>5, <2>6 DEF Freed
  <2>8. ASSUME ~ y.dry, NEW v \in Vec PROVE VecsAt(y, v) = VecsAt(m, v) + At(SubSeq(ids, 1, k), v)
    <3>1. VecsAt(y, v) = VecsAt(x, v) + One(id, v)
      <4>1. CASE id = Nil
        <5>1. One(id, v) = 0
          BY <4>1, NotNil DEF One
        <5> QED
          BY <2>3, <2>5, <4>1, <5>1, MemNumbers
      <4>2. CASE id # Nil
        BY <2>5, <2>6, <2>7, <2>8, <4>2 DEF VecAdded
      <4> QED
        BY <4>1, <4>2
    <3>3. VecsAt(x, v) = VecsAt(m, v) + At(b, v)
      BY <2>3, <2>7, <2>8 DEF GivenAll, b
    <3>4. At(SubSeq(ids, 1, k), v) = At(b, v) + One(id, v)
      BY <2>2, AtAppend
    <3>5. VecsAt(m, v) \in Nat /\ At(b, v) \in Nat /\ One(id, v) \in Nat
      BY <2>2, AtPlaces, MemNumbers DEF One
    <3> QED
      BY <3>1, <3>3, <3>4, <3>5
  <2>9. ASSUME ~ y.dry, NEW d \in Data PROVE DatasAt(y, d) = DatasAt(m, d)
    <3>1. DatasAt(y, d) = DatasAt(x, d)
      BY <2>5, <2>6, <2>7, <2>9 DEF VecAdded
    <3> QED
      BY <2>3, <2>7, <2>9, <3>1 DEF GivenAll
  <2>10. /\ m.nomem => y.nomem
         /\ m.dry => y.dry
         /\ Len(m.rsv) <= RsvCnt => Len(y.rsv) <= RsvCnt
         /\ m.nomem \/ (Len(m.rsv) = RsvCnt /\ ~ m.dry) => y.nomem \/ (Len(y.rsv) = RsvCnt /\ ~ y.dry)
    BY <2>3, <2>5, <2>6, SomeVec DEF Freed, GivenAll
  <2>11. GivenAll(m, y, ids, k)
    BY <2>8, <2>9, <2>10 DEF GivenAll
  <2> QED
    BY <2>1, <2>4, <2>5, <2>11
<1>9. h[n] \in T[n]
  <2> HIDE DEF T
  <2>1. \A k \in 0 .. n : h[k] \in T[k]
    BY <1>1, <1>7, <1>8, FoldClimbs
  <2> QED
    BY <1>1, <2>1
<1>10. n \in 0 .. n
  BY <1>1
<1> QED
  BY <1>1, <1>2, <1>9, <1>10
-----------------------------------------------------------------------------
(* The state, and what a call changes of it.                                *)

BufT == [rsv : Seq(Vec), vq : Seq(VecEntry), dq : Seq(DataEntry)]
PoolT == [vec : Seq(Vec), data : Seq(Data)]
MemoryOK == buf \in [Thread -> BufT] /\ pool \in PoolT

\* The memory a thread sees.
LEMMA MemTyped ==
  ASSUME MemoryOK, NEW t \in Thread
  PROVE  /\ Mem(t) \in MemT /\ Mem(t).rsv = buf[t].rsv
         /\ Mem(t).code = OK /\ Mem(t).wait = FALSE /\ Mem(t).nomem = FALSE /\ Mem(t).dry = FALSE
<1>1. buf[t] \in BufT
  BY DEF MemoryOK
<1>2. /\ buf[t].rsv \in Seq(Vec) /\ buf[t].vq \in Seq(VecEntry) /\ buf[t].dq \in Seq(DataEntry)
      /\ pool.vec \in Seq(Vec) /\ pool.data \in Seq(Data)
  BY <1>1 DEF MemoryOK, BufT, PoolT
<1>3. OK \in Code /\ FALSE \in BOOLEAN
  BY DEF Code
<1> QED
  BY <1>2, <1>3 DEF Mem, MemT

\* What a call leaves is what the thread then sees; no other thread's queues
\* and reserve change.
LEMMA KeepKeeps ==
  ASSUME MemoryOK, NEW t \in Thread, NEW m \in MemT, Keep(t, m)
  PROVE  /\ MemoryOK'
         /\ buf'[t].rsv = m.rsv
         /\ \A u \in Thread \ {t} : buf'[u] = buf[u]
         /\ \A x : VecsAt(Mem(t), x)' = VecsAt(m, x) /\ DatasAt(Mem(t), x)' = DatasAt(m, x)
<1> DEFINE b == [rsv |-> m.rsv, vq |-> m.vq, dq |-> m.dq]
<1>1. /\ m.rsv \in Seq(Vec) /\ m.vq \in Seq(VecEntry) /\ m.dq \in Seq(DataEntry)
      /\ m.vec \in Seq(Vec) /\ m.data \in Seq(Data)
  BY DEF MemT
<1>2. buf' = [buf EXCEPT ![t] = b] /\ pool' = [vec |-> m.vec, data |-> m.data]
  BY DEF Keep
<1>3. b \in BufT /\ pool' \in PoolT
  BY <1>1, <1>2 DEF BufT, PoolT
<1>4. b.rsv = m.rsv /\ b.vq = m.vq /\ b.dq = m.dq /\ pool'.vec = m.vec /\ pool'.data = m.data
  BY <1>2
<1> HIDE DEF b
<1>5. /\ buf' \in [Thread -> BufT] /\ buf'[t] = b
      /\ \A u \in Thread \ {t} : buf'[u] = buf[u]
  BY <1>2, <1>3 DEF MemoryOK
<1>6. ASSUME NEW x
      PROVE  VecsAt(Mem(t), x)' = VecsAt(m, x) /\ DatasAt(Mem(t), x)' = DatasAt(m, x)
  BY <1>4, <1>5 DEF VecsAt, DatasAt, Mem
<1> QED
  BY <1>3, <1>4, <1>5, <1>6 DEF MemoryOK

\* The threads inside a call have a call left to make.
Busy == {"call", "retire", "retire_data", "help", "help_retire"}
WorkOK ==
  /\ phase \in [Thread -> Phase] /\ budget \in [Thread -> Nat] /\ own \in [Thread -> Nat]
  /\ \A t \in Thread : /\ phase[t] \in Busy => budget[t] > 0
                       /\ OwnVec(t) => own[t] \in Vec
                       /\ OwnData(t) => own[t] \in Data

\* Thread t goes to phase ph, b calls still to make.
Moved(t, ph, b) ==
  /\ phase' \in [Thread -> Phase] /\ budget' \in [Thread -> Nat]
  /\ phase'[t] = ph /\ budget'[t] = b
  /\ \A u \in Thread \ {t} : phase'[u] = phase[u] /\ budget'[u] = budget[u]

\* Goto, with or without Spend.
LEMMA GotoMoves ==
  ASSUME WorkOK, NEW t \in Thread, NEW ph \in Phase, Goto(t, ph)
  PROVE  /\ UNCHANGED budget => Moved(t, ph, budget[t])
         /\ budget[t] > 0 /\ Spend(t) => Moved(t, ph, budget[t] - 1)
<1>1. /\ phase' \in [Thread -> Phase] /\ phase'[t] = ph
      /\ \A u \in Thread \ {t} : phase'[u] = phase[u]
  BY DEF WorkOK, Goto
<1>2. ASSUME budget[t] > 0, Spend(t)
      PROVE  /\ budget' \in [Thread -> Nat] /\ budget'[t] = budget[t] - 1
             /\ \A u \in Thread \ {t} : budget'[u] = budget[u]
  BY <1>2 DEF WorkOK, Spend
<1> QED
  BY <1>1, <1>2 DEF Moved, WorkOK

\* What a worker does with an answer.
LEMMA AnswerMoves ==
  ASSUME WorkOK, NEW t \in Thread, budget[t] > 0, NEW code \in Code, Answer(t, code)
  PROVE  \E ph \in {"idle", "leave"} : \E b \in Nat : Moved(t, ph, b)
<1>0. "idle" \in Phase /\ "leave" \in Phase /\ budget[t] \in Nat /\ budget[t] - 1 \in Nat
  BY DEF Phase, WorkOK
<1>1. code = OK \/ code = NOMEM \/ code = WAIT_AMT
  BY DEF Code
<1>2. OK # NOMEM /\ OK # WAIT_AMT /\ NOMEM # WAIT_AMT
  BY DEF OK, NOMEM, WAIT_AMT
<1>3. \/ \E ph \in {"idle", "leave"} : Goto(t, ph) /\ Spend(t)
      \/ Goto(t, "leave") /\ UNCHANGED budget
  BY <1>1, <1>2 DEF Answer
<1> QED
  BY <1>0, <1>3, GotoMoves

\* What follows a call of the memory layer.
LEMMA AfterMoves ==
  ASSUME WorkOK, NEW t \in Thread, budget[t] > 0, NEW m \in MemT, NEW ph \in Phase,
         After(t, m, ph)
  PROVE  /\ Settle(t, m)
         /\ \E p \in {"stuck", "idle", "leave", ph}, b \in Nat :
              /\ Moved(t, p, b)
              /\ m.dry => p = "stuck"
              /\ ~ m.dry => p # "stuck" \/ p = ph
              /\ p = ph => b > 0 \/ p \in {"stuck", "idle", "leave"}
<1>0. "stuck" \in Phase /\ budget[t] \in Nat /\ m.code \in Code
  BY DEF Phase, WorkOK, MemT
<1>1. CASE m.dry
  <2>1. Goto(t, "stuck") /\ UNCHANGED budget
    BY <1>1 DEF After
  <2>2. Moved(t, "stuck", budget[t])
    BY <1>0, <2>1, GotoMoves
  <2> QED
    BY <1>0, <1>1, <2>2 DEF After
<1>2. CASE ~ m.dry /\ m.code = OK
  <2>1. Goto(t, ph) /\ UNCHANGED budget
    BY <1>2 DEF After
  <2>2. Moved(t, ph, budget[t])
    BY <2>1, GotoMoves
  <2> QED
    BY <1>0, <1>2, <2>2 DEF After
<1>3. CASE ~ m.dry /\ m.code # OK
  <2>1. Answer(t, m.code)
    BY <1>3 DEF After
  <2>2. PICK p \in {"idle", "leave"} : \E b \in Nat : Moved(t, p, b)
    BY <1>0, <2>1, AnswerMoves
  <2> QED
    BY <1>3, <2>2 DEF After
<1> QED
  BY <1>1, <1>2, <1>3

\* A thread that has moved, and what it has unlinked.
LEMMA MovedWork ==
  ASSUME WorkOK, NEW t \in Thread, NEW ph, NEW b, Moved(t, ph, b),
         own' \in [Thread -> Nat],
         \A u \in Thread \ {t} : own'[u] = own[u],
         ph \in Busy => b > 0,
         ph \in {"retire", "help_retire"} => own'[t] \in Vec,
         ph = "retire_data" => own'[t] \in Data
  PROVE  WorkOK'
<1>1. ASSUME NEW u \in Thread
      PROVE  /\ phase'[u] \in Busy => budget'[u] > 0
             /\ phase'[u] \in {"retire", "help_retire"} => own'[u] \in Vec
             /\ phase'[u] = "retire_data" => own'[u] \in Data
  <2>1. CASE u = t
    BY <2>1 DEF Moved
  <2>2. CASE u # t
    BY <2>2 DEF Moved, WorkOK, OwnVec, OwnData
  <2> QED
    BY <2>1, <2>2
<1> QED
  BY <1>1 DEF WorkOK, Moved, OwnVec, OwnData
-----------------------------------------------------------------------------
(* The invariant: types, and the reserves.                                  *)

TreeT == [vec : SUBSET Vec, data : SUBSET Data]

\* A thread whose refills have all found their nodes has a full reserve at
\* every moment, and so is never stuck.
ReserveInv(t) ==
  /\ Len(buf[t].rsv) <= RsvCnt
  /\ t \notin short => phase[t] # "stuck" /\ Len(buf[t].rsv) = RsvCnt

StateInv ==
  /\ MemoryOK /\ WorkOK
  /\ status \in {OK, WAIT_AMT} /\ tree \in TreeT
  /\ \A t \in Thread : ReserveInv(t)

\* The places of a node, and of a data block, that thread t can change.
VecDue(t, v) == IF OwnVec(t) /\ own[t] = v THEN 1 ELSE 0
DataDue(t, d) == IF OwnData(t) /\ own[t] = d THEN 1 ELSE 0
Linked(s, x) == IF x \in s THEN 1 ELSE 0
VecLocal(t, v) == VecsAt(Mem(t), v) + VecDue(t, v) + Linked(tree.vec, v)
DataLocal(t, d) == DatasAt(Mem(t), d) + DataDue(t, d) + Linked(tree.data, d)
Balanced(t) == /\ \A v \in Vec : VecLocal(t, v)' = VecLocal(t, v)
               /\ \A d \in Data : DataLocal(t, d)' = DataLocal(t, d)

\* A step of thread t leaves the other threads' state alone, and what it sees
\* of the nodes and the data blocks stays as it was, if it does not get stuck.
\* (That a publication does so rests on OnePlace.)
Stepped(t) ==
  /\ StateInv'
  /\ phase[t] # "stuck"
  /\ \A u \in Thread \ {t} : buf'[u] = buf[u] /\ own'[u] = own[u] /\ phase'[u] = phase[u]
  /\ phase'[t] # "stuck" /\ Running /\ OnePlace => Balanced(t)

\* All that a step has to show.
LEMMA StepDone ==
  ASSUME StateInv, NEW t \in Thread, phase[t] # "stuck",
         NEW p, NEW b, Moved(t, p, b), p \in Busy => b > 0,
         MemoryOK', \A u \in Thread \ {t} : buf'[u] = buf[u],
         status' \in {OK, WAIT_AMT}, tree' \in TreeT,
         own' \in [Thread -> Nat], \A u \in Thread \ {t} : own'[u] = own[u],
         p \in {"retire", "help_retire"} => own'[t] \in Vec,
         p = "retire_data" => own'[t] \in Data,
         \A u \in Thread \ {t} : u \in short' <=> u \in short,
         Len(buf'[t].rsv) <= RsvCnt,
         t \in short' \/ (p # "stuck" /\ Len(buf'[t].rsv) = RsvCnt),
         p # "stuck" /\ Running /\ OnePlace => Balanced(t)
  PROVE  Stepped(t)
<1>1. WorkOK'
  BY MovedWork DEF StateInv
<1>2. phase'[t] = p /\ \A u \in Thread \ {t} : phase'[u] = phase[u]
  BY DEF Moved
<1>3. ASSUME NEW u \in Thread PROVE ReserveInv(u)'
  <2>1. CASE u = t
    BY <1>2, <2>1 DEF ReserveInv
  <2>2. CASE u # t
    <3>1. ReserveInv(u)
      BY DEF StateInv
    <3>2. buf'[u] = buf[u] /\ phase'[u] = phase[u] /\ (u \in short' <=> u \in short)
      BY <1>2, <2>2
    <3> QED
      BY <3>1, <3>2 DEF ReserveInv
  <2> QED
    BY <2>1, <2>2
<1>4. StateInv'
  BY <1>1, <1>3 DEF StateInv
<1> QED
  BY <1>2, <1>4 DEF Stepped

\* The counts of what one thread sees are numbers.
LEMMA LocalNumbers ==
  ASSUME MemoryOK, NEW t \in Thread, NEW x
  PROVE  /\ VecsAt(Mem(t), x) \in Nat /\ DatasAt(Mem(t), x) \in Nat
         /\ VecDue(t, x) \in Nat /\ DataDue(t, x) \in Nat
         /\ \A s : Linked(s, x) \in Nat
<1>1. VecDue(t, x) \in Nat /\ DataDue(t, x) \in Nat /\ \A s : Linked(s, x) \in Nat
  BY DEF VecDue, DataDue, Linked
<1> QED
  BY <1>1, MemTyped, MemNumbers

\* A call of the memory layer leaves m: what it has to show.
LEMMA CallDone ==
  ASSUME StateInv, NEW t \in Thread, phase[t] # "stuck",
         NEW p \in {"stuck", "idle", "leave", "call", "help"}, NEW b, Moved(t, p, b),
         p \in {"call", "help"} => b > 0,
         NEW m \in MemT, Keep(t, m),
         status' \in {OK, WAIT_AMT}, tree' \in TreeT,
         own' \in [Thread -> Nat], \A u \in Thread \ {t} : own'[u] = own[u],
         \A u \in Thread \ {t} : u \in short' <=> u \in short,
         Len(m.rsv) <= RsvCnt,
         t \in short' \/ (p # "stuck" /\ Len(m.rsv) = RsvCnt),
         p # "stuck" /\ Running /\ OnePlace =>
           /\ \A v \in Vec : VecsAt(m, v) + Linked(tree'.vec, v)
                               = VecsAt(Mem(t), v) + VecDue(t, v) + Linked(tree.vec, v)
           /\ \A d \in Data : DatasAt(m, d) + Linked(tree'.data, d)
                               = DatasAt(Mem(t), d) + DataDue(t, d) + Linked(tree.data, d)
  PROVE  Stepped(t)
<1>1. /\ MemoryOK' /\ buf'[t].rsv = m.rsv
      /\ \A u \in Thread \ {t} : buf'[u] = buf[u]
      /\ \A x : VecsAt(Mem(t), x)' = VecsAt(m, x) /\ DatasAt(Mem(t), x)' = DatasAt(m, x)
  BY KeepKeeps DEF StateInv
<1>2. phase'[t] = p
  BY DEF Moved
<1>3. ASSUME NEW x PROVE VecDue(t, x)' = 0 /\ DataDue(t, x)' = 0
  BY <1>2 DEF VecDue, DataDue, OwnVec, OwnData
<1>4. ASSUME p # "stuck" /\ Running /\ OnePlace PROVE Balanced(t)
  <2>1. ASSUME NEW v \in Vec PROVE VecLocal(t, v)' = VecLocal(t, v)
    <3>1. VecLocal(t, v)' = VecsAt(m, v) + VecDue(t, v)' + Linked(tree'.vec, v)
      BY <1>1 DEF VecLocal, Linked
    <3>2. VecsAt(m, v) \in Nat /\ Linked(tree'.vec, v) \in Nat
      BY MemNumbers DEF Linked
    <3>3. VecLocal(t, v)' = VecsAt(m, v) + Linked(tree'.vec, v)
      BY <1>3, <3>1, <3>2
    <3> QED
      BY <1>4, <3>3 DEF VecLocal
  <2>2. ASSUME NEW d \in Data PROVE DataLocal(t, d)' = DataLocal(t, d)
    <3>1. DataLocal(t, d)' = DatasAt(m, d) + DataDue(t, d)' + Linked(tree'.data, d)
      BY <1>1 DEF DataLocal, Linked
    <3>2. DatasAt(m, d) \in Nat /\ Linked(tree'.data, d) \in Nat
      BY MemNumbers DEF Linked
    <3>3. DataLocal(t, d)' = DatasAt(m, d) + Linked(tree'.data, d)
      BY <1>3, <3>1, <3>2
    <3> QED
      BY <1>4, <3>3 DEF DataLocal
  <2> QED
    BY <2>1, <2>2 DEF Balanced
<1>5. /\ p \in Busy => b > 0
      /\ p \notin {"retire", "help_retire"} /\ p # "retire_data"
  BY DEF Busy
<1> QED
  BY <1>1, <1>4, <1>5, StepDone
-----------------------------------------------------------------------------
(* The steps of the workers, one by one.                                    *)

\* What Settle records of a call.
LEMMA SettleEffect ==
  ASSUME StateInv, NEW t \in Thread, NEW m, Settle(t, m)
  PROVE  /\ Keep(t, m) /\ status' \in {OK, WAIT_AMT}
         /\ \A u \in Thread \ {t} : u \in short' <=> u \in short
         /\ t \in short \/ m.nomem => t \in short'
BY DEF Settle, StateInv

\* The counts after the call are those before, with what was to be queued.
Gained(t, m) ==
  /\ \A v \in Vec : VecsAt(m, v) = VecsAt(Mem(t), v) + VecDue(t, v)
  /\ \A d \in Data : DatasAt(m, d) = DatasAt(Mem(t), d) + DataDue(t, d)

\* Nothing was to be queued, and the counts are the same.
LEMMA NothingDue ==
  ASSUME StateInv, NEW t \in Thread, ~ OwnVec(t), ~ OwnData(t), NEW m, SameHeld(Mem(t), m)
  PROVE  Gained(t, m)
<1>1. \A x : VecDue(t, x) = 0 /\ DataDue(t, x) = 0
  BY DEF VecDue, DataDue
<1>2. \A x : VecsAt(Mem(t), x) \in Nat /\ DatasAt(Mem(t), x) \in Nat
  BY LocalNumbers DEF StateInv
<1>3. ASSUME NEW v \in Vec PROVE VecsAt(m, v) = VecsAt(Mem(t), v) + VecDue(t, v)
  <2>1. VecsAt(m, v) = VecsAt(Mem(t), v)
    BY DEF SameHeld
  <2> QED
    BY <1>1, <1>2, <2>1
<1>4. ASSUME NEW d \in Data PROVE DatasAt(m, d) = DatasAt(Mem(t), d) + DataDue(t, d)
  <2>1. DatasAt(m, d) = DatasAt(Mem(t), d)
    BY DEF SameHeld
  <2> QED
    BY <1>1, <1>2, <2>1
<1> QED
  BY <1>3, <1>4 DEF Gained

\* The tree stays as it is.
LEMMA GainedBalance ==
  ASSUME StateInv, NEW t \in Thread, NEW m, Gained(t, m), tree' = tree
  PROVE  /\ \A v \in Vec : VecsAt(m, v) + Linked(tree'.vec, v)
                             = VecsAt(Mem(t), v) + VecDue(t, v) + Linked(tree.vec, v)
         /\ \A d \in Data : DatasAt(m, d) + Linked(tree'.data, d)
                             = DatasAt(Mem(t), d) + DataDue(t, d) + Linked(tree.data, d)
BY DEF Gained

\* A call whose answer decides what follows.
LEMMA AfterDone ==
  ASSUME StateInv, NEW t \in Thread, phase[t] # "stuck", budget[t] > 0, NEW m \in MemT,
         NEW ph \in {"idle", "leave", "call", "help"}, After(t, m, ph), tree' = tree,
         own' \in [Thread -> Nat], \A u \in Thread \ {t} : own'[u] = own[u],
         Len(m.rsv) <= RsvCnt,
         t \in short \/ m.nomem \/ (~ m.dry /\ Len(m.rsv) = RsvCnt),
         ~ m.dry => Gained(t, m)
  PROVE  Stepped(t)
<1>1. ph \in Phase /\ ph # "stuck"
  BY DEF Phase
<1>2. Settle(t, m)
  BY DEF After
<1>3. PICK p \in {"stuck", "idle", "leave", ph}, b \in Nat :
        /\ Moved(t, p, b)
        /\ m.dry => p = "stuck"
        /\ ~ m.dry => p # "stuck" \/ p = ph
        /\ p = ph => b > 0 \/ p \in {"stuck", "idle", "leave"}
  <2>1. WorkOK
    BY DEF StateInv
  <2> QED
    BY <1>1, <2>1, AfterMoves
<1>4. /\ Keep(t, m) /\ status' \in {OK, WAIT_AMT}
      /\ \A u \in Thread \ {t} : u \in short' <=> u \in short
      /\ t \in short \/ m.nomem => t \in short'
  BY <1>2, SettleEffect
<1>5. /\ p \in {"stuck", "idle", "leave", "call", "help"}
      /\ p \in {"call", "help"} => b > 0
      /\ p # "stuck" <=> ~ m.dry
  BY <1>1, <1>3
<1>6. t \in short' \/ (p # "stuck" /\ Len(m.rsv) = RsvCnt)
  BY <1>4, <1>5
<1>7. p # "stuck" =>
        /\ \A v \in Vec : VecsAt(m, v) + Linked(tree'.vec, v)
                            = VecsAt(Mem(t), v) + VecDue(t, v) + Linked(tree.vec, v)
        /\ \A d \in Data : DatasAt(m, d) + Linked(tree'.data, d)
                            = DatasAt(Mem(t), d) + DataDue(t, d) + Linked(tree.data, d)
  BY <1>5, GainedBalance
<1>8. tree' \in TreeT
  BY DEF StateInv
<1> QED
  BY <1>3, <1>4, <1>5, <1>6, <1>7, <1>8, CallDone

\* What the invariant says of thread t.
LEMMA OwnState ==
  ASSUME StateInv, NEW t \in Thread
  PROVE  /\ MemoryOK /\ WorkOK /\ phase[t] \in Phase /\ budget[t] \in Nat
         /\ status \in {OK, WAIT_AMT} /\ tree \in TreeT
         /\ own \in [Thread -> Nat]
         /\ buf[t].rsv \in Seq(Vec) /\ Len(buf[t].rsv) \in Nat /\ RsvCnt \in Nat
         /\ Len(buf[t].rsv) <= RsvCnt
         /\ t \notin short => phase[t] # "stuck" /\ Len(buf[t].rsv) = RsvCnt
         /\ Mem(t) \in MemT /\ Mem(t).rsv = buf[t].rsv
         /\ Mem(t).nomem = FALSE /\ Mem(t).dry = FALSE
         /\ phase[t] \in Busy => budget[t] > 0
<1>1. MemoryOK /\ WorkOK /\ ReserveInv(t)
  BY DEF StateInv
<1>2. buf[t] \in BufT
  BY <1>1 DEF MemoryOK
<1>3. buf[t].rsv \in Seq(Vec) /\ Len(buf[t].rsv) \in Nat
  BY <1>2 DEF BufT
<1>4. phase[t] \in Phase /\ budget[t] \in Nat /\ (phase[t] \in Busy => budget[t] > 0)
  BY <1>1 DEF WorkOK
<1> QED
  BY <1>1, <1>3, <1>4, MemTyped, BufAssumption DEF StateInv, WorkOK, ReserveInv

\* A step that leaves the memory alone, and unlinks nothing.
LEMMA QuietDone ==
  ASSUME StateInv, NEW t \in Thread, phase[t] # "stuck", ~ OwnVec(t), ~ OwnData(t),
         NEW p \in {"idle", "leave", "call", "help"}, NEW b, Moved(t, p, b),
         p \in {"call", "help"} => b > 0,
         UNCHANGED <<buf, pool, status, tree, own, short>>
  PROVE  Stepped(t)
<1>1. /\ MemoryOK' /\ WorkOK /\ tree' \in TreeT /\ status' \in {OK, WAIT_AMT}
      /\ own' \in [Thread -> Nat]
  BY DEF StateInv, MemoryOK, WorkOK
<1>2. phase'[t] = p
  BY DEF Moved
<1>3. Balanced(t)
  <2>1. \A x : /\ VecsAt(Mem(t), x)' = VecsAt(Mem(t), x)
               /\ DatasAt(Mem(t), x)' = DatasAt(Mem(t), x)
    BY DEF VecsAt, DatasAt, Mem
  <2>2. \A x : /\ VecDue(t, x)' = VecDue(t, x) /\ DataDue(t, x)' = DataDue(t, x)
    BY <1>2 DEF VecDue, DataDue, OwnVec, OwnData
  <2> QED
    BY <2>1, <2>2 DEF Balanced, VecLocal, DataLocal, Linked
<1>4. /\ p \in Busy => b > 0
      /\ p \notin {"retire", "help_retire"} /\ p # "retire_data" /\ p # "stuck"
  BY DEF Busy
<1>5. /\ Len(buf'[t].rsv) <= RsvCnt
      /\ t \in short' \/ Len(buf'[t].rsv) = RsvCnt
  BY OwnState
<1> QED
  BY <1>1, <1>3, <1>4, <1>5, StepDone

\* The end of a session.
LEMMA EndSessionDone ==
  ASSUME StateInv, NEW t \in Thread, EndSession(t)
  PROVE  Stepped(t)
<1>1. /\ phase[t] # "stuck" /\ ~ OwnVec(t) /\ ~ OwnData(t) /\ "idle" \in Phase
      /\ Goto(t, "idle") /\ UNCHANGED <<buf, pool, status, tree, own, budget, short>>
  BY DEF EndSession, OwnVec, OwnData, Phase
<1>2. Moved(t, "idle", budget[t])
  BY <1>1, GotoMoves, OwnState
<1> QED
  BY <1>1, <1>2, QuietDone

\* A call that is done.
LEMMA FinishDone ==
  ASSUME StateInv, NEW t \in Thread, Finish(t)
  PROVE  Stepped(t)
<1>1. /\ phase[t] # "stuck" /\ ~ OwnVec(t) /\ ~ OwnData(t) /\ phase[t] \in Busy
      /\ Answer(t, OK) /\ UNCHANGED <<buf, pool, status, tree, own, short>>
  BY DEF Finish, OwnVec, OwnData, Busy
<1>2. WorkOK /\ budget[t] > 0 /\ OK \in Code
  BY <1>1, OwnState DEF Code
<1>3. PICK p \in {"idle", "leave"}, b \in Nat : Moved(t, p, b)
  BY <1>1, <1>2, AnswerMoves
<1>4. p \in {"idle", "leave", "call", "help"} /\ ~ (p \in {"call", "help"})
  OBVIOUS
<1> QED
  BY <1>1, <1>3, <1>4, QuietDone

\* The walk unlinks a node: it leaves the tree and is to be queued.
LEMMA UnlinkDone ==
  ASSUME StateInv, NEW t \in Thread, Unlink(t)
  PROVE  Stepped(t)
<1> DEFINE p == IF phase[t] = "call" THEN "retire" ELSE "help_retire"
<1>1. PICK v \in tree.vec : tree' = [tree EXCEPT !.vec = @ \ {v}] /\ own' = [own EXCEPT ![t] = v]
  BY DEF Unlink
<1>2. /\ phase[t] # "stuck" /\ ~ OwnVec(t) /\ ~ OwnData(t) /\ phase[t] \in Busy
      /\ Goto(t, p) /\ UNCHANGED <<buf, pool, status, budget, short>>
  BY DEF Unlink, OwnVec, OwnData, Busy
<1>3. p \in {"retire", "help_retire"} /\ p \in Phase /\ p # "stuck"
  BY DEF Phase
<1> HIDE DEF p
<1>4. /\ MemoryOK /\ WorkOK /\ tree \in TreeT /\ status \in {OK, WAIT_AMT} /\ own \in [Thread -> Nat]
      /\ budget[t] > 0
  BY <1>2, OwnState
<1>5. Moved(t, p, budget[t])
  BY <1>2, <1>3, <1>4, GotoMoves
<1>6. v \in Vec /\ v \in Nat
  BY <1>1, <1>4, BufAssumption DEF TreeT, Vec
<1>7. /\ tree' \in TreeT /\ tree'.vec = tree.vec \ {v} /\ tree'.data = tree.data
      /\ own' \in [Thread -> Nat] /\ own'[t] = v
      /\ \A u \in Thread \ {t} : own'[u] = own[u]
  BY <1>1, <1>4, <1>6 DEF TreeT
<1>8. phase'[t] = p
  BY <1>5 DEF Moved
<1>9. \A x : /\ VecsAt(Mem(t), x)' = VecsAt(Mem(t), x) /\ VecsAt(Mem(t), x) \in Nat
             /\ DatasAt(Mem(t), x)' = DatasAt(Mem(t), x) /\ DatasAt(Mem(t), x) \in Nat
  <2>1. \A x : /\ VecsAt(Mem(t), x)' = VecsAt(Mem(t), x)
               /\ DatasAt(Mem(t), x)' = DatasAt(Mem(t), x)
    BY <1>2 DEF VecsAt, DatasAt, Mem
  <2> QED
    BY <2>1, <1>4, LocalNumbers
<1>10. Balanced(t)
  <2>1. ASSUME NEW x \in Vec PROVE VecLocal(t, x)' = VecLocal(t, x)
    <3>1. VecDue(t, x) = 0 /\ VecDue(t, x)' = IF v = x THEN 1 ELSE 0
      BY <1>2, <1>3, <1>7, <1>8 DEF VecDue, OwnVec
    <3>2. Linked(tree.vec, x) = Linked(tree'.vec, x) + IF v = x THEN 1 ELSE 0
      BY <1>1, <1>7 DEF Linked
    <3>3. Linked(tree.vec, x)' = Linked(tree'.vec, x) /\ Linked(tree'.vec, x) \in Nat
      BY DEF Linked
    <3> QED
      BY <1>9, <3>1, <3>2, <3>3 DEF VecLocal
  <2>2. ASSUME NEW d \in Data PROVE DataLocal(t, d)' = DataLocal(t, d)
    <3>1. DataDue(t, d) = 0 /\ DataDue(t, d)' = 0
      BY <1>2, <1>3, <1>8 DEF DataDue, OwnData
    <3>3. Linked(tree.data, d)' = Linked(tree.data, d) /\ Linked(tree.data, d) \in Nat
      BY <1>7 DEF Linked
    <3> QED
      BY <1>9, <3>1, <3>3 DEF DataLocal
  <2> QED
    BY <2>1, <2>2 DEF Balanced
<1>11. /\ Len(buf'[t].rsv) <= RsvCnt
       /\ t \in short' \/ Len(buf'[t].rsv) = RsvCnt
  BY <1>2, OwnState
<1>12. MemoryOK' /\ status' \in {OK, WAIT_AMT} /\ p # "retire_data"
  BY <1>2, <1>3, <1>4 DEF MemoryOK
<1> QED
  BY <1>2, <1>3, <1>4, <1>5, <1>6, <1>7, <1>10, <1>11, <1>12, StepDone

\* A delete takes a record out of the tree.
LEMMA DeleteDone ==
  ASSUME StateInv, NEW t \in Thread, Delete(t)
  PROVE  Stepped(t)
<1>1. PICK d \in tree.data :
        tree' = [tree EXCEPT !.data = @ \ {d}] /\ own' = [own EXCEPT ![t] = d]
  BY DEF Delete
<1>2. /\ phase[t] # "stuck" /\ ~ OwnVec(t) /\ ~ OwnData(t) /\ phase[t] \in Busy
      /\ Goto(t, "retire_data") /\ UNCHANGED <<buf, pool, status, budget, short>>
  BY DEF Delete, OwnVec, OwnData, Busy
<1>3. "retire_data" \in Phase
  BY DEF Phase
<1>4. /\ MemoryOK /\ WorkOK /\ tree \in TreeT /\ status \in {OK, WAIT_AMT} /\ own \in [Thread -> Nat]
      /\ budget[t] > 0
  BY <1>2, OwnState
<1>5. Moved(t, "retire_data", budget[t])
  BY <1>2, <1>3, <1>4, GotoMoves
<1>6. d \in Data /\ d \in Nat
  BY <1>1, <1>4, BufAssumption DEF TreeT, Data
<1>7. /\ tree' \in TreeT /\ tree'.data = tree.data \ {d} /\ tree'.vec = tree.vec
      /\ own' \in [Thread -> Nat] /\ own'[t] = d
      /\ \A u \in Thread \ {t} : own'[u] = own[u]
  BY <1>1, <1>4, <1>6 DEF TreeT
<1>8. phase'[t] = "retire_data"
  BY <1>5 DEF Moved
<1>9. \A x : /\ VecsAt(Mem(t), x)' = VecsAt(Mem(t), x) /\ VecsAt(Mem(t), x) \in Nat
             /\ DatasAt(Mem(t), x)' = DatasAt(Mem(t), x) /\ DatasAt(Mem(t), x) \in Nat
  <2>1. \A x : /\ VecsAt(Mem(t), x)' = VecsAt(Mem(t), x)
               /\ DatasAt(Mem(t), x)' = DatasAt(Mem(t), x)
    BY <1>2 DEF VecsAt, DatasAt, Mem
  <2> QED
    BY <2>1, <1>4, LocalNumbers
<1>10. Balanced(t)
  <2>1. ASSUME NEW x \in Data PROVE DataLocal(t, x)' = DataLocal(t, x)
    <3>1. DataDue(t, x) = 0 /\ DataDue(t, x)' = IF d = x THEN 1 ELSE 0
      BY <1>2, <1>7, <1>8 DEF DataDue, OwnData
    <3>2. Linked(tree.data, x) = Linked(tree'.data, x) + IF d = x THEN 1 ELSE 0
      BY <1>1, <1>7 DEF Linked
    <3>3. Linked(tree.data, x)' = Linked(tree'.data, x) /\ Linked(tree'.data, x) \in Nat
      BY DEF Linked
    <3> QED
      BY <1>9, <3>1, <3>2, <3>3 DEF DataLocal
  <2>2. ASSUME NEW v \in Vec PROVE VecLocal(t, v)' = VecLocal(t, v)
    <3>1. VecDue(t, v) = 0 /\ VecDue(t, v)' = 0
      BY <1>2, <1>8 DEF VecDue, OwnVec
    <3>3. Linked(tree.vec, v)' = Linked(tree.vec, v) /\ Linked(tree.vec, v) \in Nat
      BY <1>7 DEF Linked
    <3> QED
      BY <1>9, <3>1, <3>3 DEF VecLocal
  <2> QED
    BY <2>1, <2>2 DEF Balanced
<1>11. /\ Len(buf'[t].rsv) <= RsvCnt
       /\ t \in short' \/ Len(buf'[t].rsv) = RsvCnt
  BY <1>2, OwnState
<1>12. /\ MemoryOK' /\ status' \in {OK, WAIT_AMT}
       /\ "retire_data" \notin {"retire", "help_retire"} /\ "retire_data" # "stuck"
  BY <1>2, <1>4 DEF MemoryOK
<1> QED
  BY <1>2, <1>4, <1>5, <1>6, <1>7, <1>10, <1>11, <1>12, StepDone

\* find_data begins: the reserve is filled if someone was answered WAIT_AMT.
LEMMA EnterDone ==
  ASSUME StateInv, NEW t \in Thread, Enter(t)
  PROVE  Stepped(t)
<1> DEFINE nr == RsvCnt - Len(buf[t].rsv)
           m == FillIn(Mem(t), nr)
<1>1. /\ phase[t] = "idle" /\ phase[t] # "stuck" /\ budget[t] > 0 /\ UNCHANGED <<tree, own>>
      /\ ~ OwnVec(t) /\ ~ OwnData(t)
  BY DEF Enter, OwnVec, OwnData
<1>2. \/ Goto(t, "call") /\ UNCHANGED <<buf, pool, status, budget, short>>
      \/ m.code = OK /\ Goto(t, "call") /\ Keep(t, m) /\ status' = OK /\ short' = short \ {t}
           /\ UNCHANGED budget
      \/ m.code # OK /\ After(t, m, "call")
  BY DEF Enter
<1>3. /\ MemoryOK /\ WorkOK /\ tree \in TreeT /\ own \in [Thread -> Nat] /\ budget[t] \in Nat
      /\ Mem(t) \in MemT /\ Mem(t).rsv = buf[t].rsv /\ Mem(t).dry = FALSE
      /\ Len(buf[t].rsv) \in Nat /\ RsvCnt \in Nat /\ Len(buf[t].rsv) <= RsvCnt
  BY OwnState
<1>4. nr \in Nat /\ Len(buf[t].rsv) + nr = RsvCnt
  BY <1>3
<1> HIDE DEF nr
<1>5. Ended(Mem(t), m, nr)
  BY <1>3, <1>4, FillInEnds
<1> HIDE DEF m
<1>6. /\ m \in MemT /\ m.dry = FALSE /\ SameHeld(Mem(t), m)
      /\ Len(m.rsv) \in Nat /\ Len(m.rsv) <= RsvCnt
      /\ m.code = OK \/ ~ m.nomem => Len(m.rsv) = RsvCnt
  <2>1. m \in MemT
    BY <1>5 DEF Ended
  <2> QED
    BY <1>3, <1>4, <1>5, <2>1, RsvLen DEF Ended
<1>7. Gained(t, m)
  BY <1>1, <1>6, NothingDue
<1>8. "call" \in Phase
  BY DEF Phase
<1>9. CASE Goto(t, "call") /\ UNCHANGED <<buf, pool, status, budget, short>>
  <2>1. Moved(t, "call", budget[t])
    BY <1>3, <1>8, <1>9, GotoMoves
  <2>2. UNCHANGED <<buf, pool, status, tree, own, short>>
    BY <1>1, <1>9
  <2> QED
    BY <1>1, <2>1, <2>2, QuietDone
<1>10. CASE m.code = OK /\ Goto(t, "call") /\ Keep(t, m) /\ status' = OK /\ short' = short \ {t}
              /\ UNCHANGED budget
  <2>1. Moved(t, "call", budget[t])
    BY <1>3, <1>8, <1>10, GotoMoves
  <2>2. /\ \A v \in Vec : VecsAt(m, v) + Linked(tree'.vec, v)
                            = VecsAt(Mem(t), v) + VecDue(t, v) + Linked(tree.vec, v)
        /\ \A d \in Data : DatasAt(m, d) + Linked(tree'.data, d)
                            = DatasAt(Mem(t), d) + DataDue(t, d) + Linked(tree.data, d)
    BY <1>1, <1>7, GainedBalance
  <2>3. /\ status' \in {OK, WAIT_AMT} /\ tree' \in TreeT /\ own' \in [Thread -> Nat]
        /\ \A u \in Thread \ {t} : own'[u] = own[u] /\ (u \in short' <=> u \in short)
        /\ Len(m.rsv) = RsvCnt /\ "call" # "stuck"
    BY <1>1, <1>3, <1>6, <1>10
  <2> QED
    BY <1>1, <1>6, <1>10, <2>1, <2>2, <2>3, CallDone
<1>11. CASE m.code # OK /\ After(t, m, "call")
  <2>1. m.nomem \/ (~ m.dry /\ Len(m.rsv) = RsvCnt)
    BY <1>6
  <2>2. tree' = tree /\ own' \in [Thread -> Nat] /\ \A u \in Thread \ {t} : own'[u] = own[u]
    BY <1>1, <1>3
  <2> QED
    BY <1>1, <1>6, <1>7, <1>11, <2>1, <2>2, AfterDone
<1> QED
  BY <1>2, <1>9, <1>10, <1>11

\* What vec_free_to_buf, or db_free_to_buf, does to the reserve.
LEMMA FreedReserve ==
  ASSUME StateInv, NEW t \in Thread, NEW m, Freed(Mem(t), m)
  PROVE  /\ m \in MemT /\ Len(m.rsv) <= RsvCnt
         /\ t \in short \/ m.nomem \/ (~ m.dry /\ Len(m.rsv) = RsvCnt)
         /\ ~ m.dry => Mem(t).rsv # <<>>
<1>1. /\ Mem(t) \in MemT /\ Mem(t).rsv = buf[t].rsv /\ Mem(t).dry = FALSE
      /\ Len(buf[t].rsv) \in Nat /\ RsvCnt \in Nat /\ Len(buf[t].rsv) <= RsvCnt
      /\ t \notin short => Len(buf[t].rsv) = RsvCnt
  BY OwnState
<1>2. RsvCnt > 0
  BY BufAssumption
<1>3. Len(m.rsv) \in Nat /\ m \in MemT
  BY DEF Freed
<1>4. CASE Len(buf[t].rsv) = 0
  <2>1. Len(m.rsv) <= 1 /\ m.dry
    BY <1>1, <1>4 DEF Freed
  <2> QED
    BY <1>1, <1>2, <1>3, <1>4, <2>1
<1>5. CASE Len(buf[t].rsv) > 0
  <2>1. /\ m.dry = FALSE /\ Len(m.rsv) <= Len(buf[t].rsv)
        /\ ~ m.nomem => Len(m.rsv) = Len(buf[t].rsv)
    BY <1>1, <1>5 DEF Freed
  <2>2. Mem(t).rsv # <<>>
    BY <1>1, <1>5
  <2> QED
    BY <1>1, <1>3, <2>1, <2>2
<1> QED
  BY <1>1, <1>4, <1>5

\* A node that was to be queued has been.
LEMMA VecGained ==
  ASSUME NEW t \in Thread, OwnVec(t), NEW m, VecAdded(Mem(t), m, own[t]), MemoryOK
  PROVE  Gained(t, m)
<1>1. \A v : VecDue(t, v) = One(own[t], v) /\ DataDue(t, v) = 0
  BY DEF VecDue, DataDue, OwnVec, OwnData, One
<1>2. \A x : DatasAt(Mem(t), x) \in Nat
  BY LocalNumbers
<1> QED
  BY <1>1, <1>2 DEF VecAdded, Gained

\* vec_free_to_buf, in a call that has not done its work.
LEMMA RetireDone ==
  ASSUME StateInv, tick \in Nat, NEW t \in Thread, Retire(t)
  PROVE  Stepped(t)
<1> DEFINE m == VecFree(Mem(t), own[t])
<1>1. /\ phase[t] # "stuck" /\ OwnVec(t) /\ phase[t] \in Busy
      /\ After(t, m, "call") /\ own' = [own EXCEPT ![t] = Nil] /\ tree' = tree
  BY DEF Retire, OwnVec, Busy
<1>2. MemoryOK /\ own \in [Thread -> Nat] /\ Mem(t) \in MemT /\ budget[t] > 0
  BY <1>1, OwnState
<1>3. own[t] \in Vec
  BY <1>1 DEF StateInv, WorkOK
<1>4. own' \in [Thread -> Nat] /\ \A u \in Thread \ {t} : own'[u] = own[u]
  BY <1>1, <1>2 DEF Nil
<1>5. Freed(Mem(t), m) /\ (Mem(t).rsv # <<>> => VecAdded(Mem(t), m, own[t]))
  BY <1>2, <1>3, VecFreeFrees
<1> HIDE DEF m
<1>6. /\ m \in MemT /\ Len(m.rsv) <= RsvCnt
      /\ t \in short \/ m.nomem \/ (~ m.dry /\ Len(m.rsv) = RsvCnt)
      /\ ~ m.dry => Gained(t, m)
  BY <1>1, <1>2, <1>5, FreedReserve, VecGained
<1> QED
  BY <1>1, <1>2, <1>4, <1>6, AfterDone

\* vec_free_to_buf, in a delete that has.
LEMMA HelpRetireDone ==
  ASSUME StateInv, tick \in Nat, NEW t \in Thread, HelpRetire(t)
  PROVE  Stepped(t)
<1> DEFINE m == VecFree(Mem(t), own[t])
<1>1. /\ phase[t] # "stuck" /\ OwnVec(t) /\ phase[t] \in Busy
      /\ own' = [own EXCEPT ![t] = Nil] /\ tree' = tree
      /\ \/ After(t, m, "help")
         \/ ~ m.dry /\ Settle(t, m) /\ Answer(t, OK)
  BY DEF HelpRetire, OwnVec, Busy
<1>2. /\ MemoryOK /\ WorkOK /\ own \in [Thread -> Nat] /\ Mem(t) \in MemT /\ budget[t] > 0
      /\ tree \in TreeT
  BY <1>1, OwnState
<1>3. own[t] \in Vec
  BY <1>1 DEF StateInv, WorkOK
<1>4. own' \in [Thread -> Nat] /\ \A u \in Thread \ {t} : own'[u] = own[u]
  BY <1>1, <1>2 DEF Nil
<1>5. Freed(Mem(t), m) /\ (Mem(t).rsv # <<>> => VecAdded(Mem(t), m, own[t]))
  BY <1>2, <1>3, VecFreeFrees
<1> HIDE DEF m
<1>6. /\ m \in MemT /\ Len(m.rsv) <= RsvCnt
      /\ t \in short \/ m.nomem \/ (~ m.dry /\ Len(m.rsv) = RsvCnt)
      /\ ~ m.dry => Gained(t, m)
  BY <1>1, <1>2, <1>5, FreedReserve, VecGained
<1>7. CASE After(t, m, "help")
  BY <1>1, <1>2, <1>4, <1>6, <1>7, AfterDone
<1>8. CASE ~ m.dry /\ Settle(t, m) /\ Answer(t, OK)
  <2>1. PICK p \in {"idle", "leave"}, b \in Nat : Moved(t, p, b)
    <3>1. OK \in Code
      BY DEF Code
    <3> QED
      BY <1>2, <1>8, <3>1, AnswerMoves
  <2>2. /\ Keep(t, m) /\ status' \in {OK, WAIT_AMT}
        /\ \A u \in Thread \ {t} : u \in short' <=> u \in short
        /\ t \in short \/ m.nomem => t \in short'
    BY <1>8, SettleEffect
  <2>3. /\ \A v \in Vec : VecsAt(m, v) + Linked(tree'.vec, v)
                            = VecsAt(Mem(t), v) + VecDue(t, v) + Linked(tree.vec, v)
        /\ \A d \in Data : DatasAt(m, d) + Linked(tree'.data, d)
                            = DatasAt(Mem(t), d) + DataDue(t, d) + Linked(tree.data, d)
    BY <1>1, <1>6, <1>8, GainedBalance
  <2>4. /\ p \in {"stuck", "idle", "leave", "call", "help"} /\ ~ (p \in {"call", "help"})
        /\ p # "stuck" /\ tree' \in TreeT
    BY <1>1, <1>2
  <2>5. t \in short' \/ (p # "stuck" /\ Len(m.rsv) = RsvCnt)
    BY <1>6, <2>2, <2>4
  <2> QED
    BY <1>1, <1>4, <1>6, <2>1, <2>2, <2>3, <2>4, <2>5, CallDone
<1> QED
  BY <1>1, <1>7, <1>8

\* Another code, and nothing else.
LEMMA OtherCode ==
  ASSUME NEW m \in MemT, NEW c \in Code
  PROVE  LET r == [m EXCEPT !.code = c]
         IN  /\ r \in MemT /\ r.rsv = m.rsv /\ r.code = c /\ SameFlags(m, r)
             /\ \A x : VecsAt(r, x) = VecsAt(m, x) /\ DatasAt(r, x) = DatasAt(m, x)
BY DEF MemT, SameFlags, VecsAt, DatasAt

\* db_free_to_buf
LEMMA RetireDataDone ==
  ASSUME StateInv, tick \in Nat, NEW t \in Thread, RetireData(t)
  PROVE  Stepped(t)
<1> DEFINE f == DataFree(Mem(t), own[t])
           m == [f EXCEPT !.code = OK]
<1>1. /\ phase[t] # "stuck" /\ OwnData(t) /\ phase[t] \in Busy
      /\ After(t, m, "help") /\ own' = [own EXCEPT ![t] = Nil] /\ tree' = tree
  BY DEF RetireData, OwnData, Busy
<1>2. MemoryOK /\ own \in [Thread -> Nat] /\ Mem(t) \in MemT /\ budget[t] > 0
  BY <1>1, OwnState
<1>3. own[t] \in Data
  BY <1>1 DEF StateInv, WorkOK
<1>4. own' \in [Thread -> Nat] /\ \A u \in Thread \ {t} : own'[u] = own[u]
  BY <1>1, <1>2 DEF Nil
<1>5. Freed(Mem(t), f) /\ (Mem(t).rsv # <<>> => DataAdded(Mem(t), f, own[t]))
  BY <1>2, <1>3, DataFreeFrees
<1> HIDE DEF f
<1>6. /\ f \in MemT /\ Len(f.rsv) <= RsvCnt
      /\ t \in short \/ f.nomem \/ (~ f.dry /\ Len(f.rsv) = RsvCnt)
      /\ ~ f.dry => DataAdded(Mem(t), f, own[t])
  BY <1>5, FreedReserve
<1>7. /\ m \in MemT /\ m.rsv = f.rsv /\ m.nomem = f.nomem /\ m.dry = f.dry
      /\ \A x : VecsAt(m, x) = VecsAt(f, x) /\ DatasAt(m, x) = DatasAt(f, x)
  <2>1. OK \in Code
    BY DEF Code
  <2> QED
    BY <1>6, <2>1, OtherCode DEF SameFlags
<1> HIDE DEF m
<1>8. ~ m.dry => Gained(t, m)
  <2>1. \A x : DataDue(t, x) = One(own[t], x) /\ VecDue(t, x) = 0
    BY <1>1 DEF VecDue, DataDue, OwnVec, OwnData, One
  <2>2. \A x : VecsAt(Mem(t), x) \in Nat
    BY <1>2, LocalNumbers
  <2> QED
    BY <1>6, <1>7, <2>1, <2>2 DEF DataAdded, Gained
<1>9. Len(m.rsv) <= RsvCnt /\ (t \in short \/ m.nomem \/ (~ m.dry /\ Len(m.rsv) = RsvCnt))
  BY <1>6, <1>7
<1> QED
  BY <1>1, <1>2, <1>4, <1>7, <1>8, <1>9, AfterDone

\* A thread that is inside a call has unlinked nothing yet.
LEMMA InCall ==
  ASSUME StateInv, NEW t \in Thread, phase[t] = "call"
  PROVE  /\ phase[t] # "stuck" /\ ~ OwnVec(t) /\ ~ OwnData(t) /\ phase[t] \in Busy
         /\ MemoryOK /\ WorkOK /\ own \in [Thread -> Nat] /\ tree \in TreeT /\ budget[t] \in Nat
         /\ Mem(t) \in MemT /\ Mem(t).rsv = buf[t].rsv /\ Mem(t).nomem = FALSE /\ Mem(t).dry = FALSE
         /\ Len(Mem(t).rsv) \in Nat /\ RsvCnt \in Nat /\ Len(Mem(t).rsv) <= RsvCnt
         /\ t \notin short => Len(Mem(t).rsv) = RsvCnt
         /\ budget[t] > 0
BY OwnState DEF OwnVec, OwnData, Busy

\* What an insertion got, all of it.
LEMMA GotAll ==
  ASSUME NEW m, NEW a, NEW n \in Nat, Obtained(m, a, n), Complete(a)
  PROVE  /\ a.data \in Data /\ a.vecs \in Seq(Vec) /\ Len(a.vecs) = n
         /\ a.m \in MemT /\ a.m.rsv = m.rsv
<1>1. /\ a.data \in Data \union {Nil} /\ Len(a.vecs) = n /\ a.m \in MemT /\ a.m.rsv = m.rsv
      /\ a.data # Nil /\ \A i \in DOMAIN a.vecs : a.vecs[i] # Nil
  BY DEF Obtained, Complete
<1>2. a.vecs \in Seq(0 .. NVec)
  BY DEF Obtained
<1>3. DOMAIN a.vecs = 1 .. n /\ \A i \in 1 .. n : a.vecs[i] \in 0 .. NVec
  <2> DEFINE S == 0 .. NVec
  <2> HIDE DEF S
  <2>1. a.vecs \in Seq(S)
    BY <1>2 DEF S
  <2>2. DOMAIN a.vecs = 1 .. n /\ \A i \in 1 .. n : a.vecs[i] \in S
    BY <1>1, <2>1
  <2> QED
    BY <2>2 DEF S
<1>4. \A i \in 1 .. n : a.vecs[i] \in Vec
  BY <1>1, <1>3, BufAssumption DEF Vec, Nil
<1>5. [i \in 1 .. n |-> a.vecs[i]] \in Seq(Vec)
  BY <1>4
<1>6. a.vecs = [i \in 1 .. n |-> a.vecs[i]]
  <2> DEFINE S == 0 .. NVec
             b == [i \in 1 .. n |-> a.vecs[i]]
  <2>1. \A i \in 1 .. n : b[i] \in S /\ b[i] = a.vecs[i]
    BY <1>3
  <2>2. a.vecs \in Seq(S)
    BY <1>2
  <2> HIDE DEF S
  <2>3. b \in Seq(S) /\ Len(b) = n
    BY <2>1
  <2> HIDE DEF b
  <2>4. a.vecs = b
    BY <1>1, <2>1, <2>2, <2>3, SeqEqual
  <2> QED
    BY <2>4 DEF b
<1> QED
  BY <1>1, <1>5, <1>6

\* A sequence from its first element to its last.
LEMMA WholeSeq ==
  ASSUME NEW S, NEW s \in Seq(S), NEW n, Len(s) = n
  PROVE  SubSeq(s, 1, n) = s
OBVIOUS

\* A lost race: f is what is left when data block and nodes of a are queued.
LEMMA RaceQueued ==
  ASSUME tick \in Nat, NEW m \in MemT, m.dry = FALSE, NEW n \in Nat, NEW a,
         Obtained(m, a, n), Complete(a)
  PROVE  LET f == FoldLeft(VecRetire, DataRetire(a.m, a.data), a.vecs)
         IN  /\ f \in MemT /\ Len(f.rsv) \in Nat
             /\ Len(m.rsv) >= n + 1 => f.dry = FALSE /\ Len(f.rsv) = Len(m.rsv) - (n + 1)
             /\ Len(m.rsv) < n + 1 => f.dry /\ Len(f.rsv) = 0
             /\ ~ f.dry => SameHeld(m, f)
<1> DEFINE d == DataRetire(a.m, a.data)
           f == FoldLeft(VecRetire, d, a.vecs)
<1>1. /\ a.data \in Data /\ a.vecs \in Seq(Vec) /\ Len(a.vecs) = n
      /\ a.m \in MemT /\ a.m.rsv = m.rsv
  BY GotAll
<1>2. /\ a.m.dry = FALSE
      /\ \A v \in Vec : VecsAt(a.m, v) + At(a.vecs, v) = VecsAt(m, v)
      /\ \A c \in Data : DatasAt(a.m, c) + One(a.data, c) = DatasAt(m, c)
  BY DEF Obtained, SameFlags
<1>3. Queued(a.m, d) /\ (a.m.rsv # <<>> => DataAdded(a.m, d, a.data))
  BY <1>1, DataRetireQueues
<1> HIDE DEF d
<1>4. d \in MemT
  BY <1>3 DEF Queued
<1>5. f \in MemT /\ QueuedAll(d, f, a.vecs, n)
  BY <1>1, <1>4, RetireFold
<1> HIDE DEF f
<1>6. /\ Len(m.rsv) \in Nat /\ Len(d.rsv) \in Nat /\ Len(f.rsv) \in Nat
      /\ Len(m.rsv) > 0 => a.m.rsv # <<>>
  BY <1>1, <1>4, <1>5, RsvLen
<1>7. /\ Len(m.rsv) = 0 => Len(d.rsv) = 0 /\ d.dry
      /\ Len(m.rsv) > 0 => Len(d.rsv) = Len(m.rsv) - 1 /\ d.dry = FALSE
  BY <1>1, <1>2, <1>3 DEF Queued
<1>8. /\ d.dry => f.dry
      /\ Len(d.rsv) >= n => Len(f.rsv) = Len(d.rsv) - n /\ f.dry = d.dry
      /\ Len(d.rsv) < n => Len(f.rsv) = 0 /\ f.dry
  BY <1>5 DEF QueuedAll
<1>9. Len(m.rsv) >= n + 1 => f.dry = FALSE /\ Len(f.rsv) = Len(m.rsv) - (n + 1)
  <2> SUFFICES ASSUME Len(m.rsv) >= n + 1 PROVE f.dry = FALSE /\ Len(f.rsv) = Len(m.rsv) - (n + 1)
    OBVIOUS
  <2>1. Len(m.rsv) > 0 /\ Len(m.rsv) - 1 >= n
    BY <1>6
  <2>2. Len(d.rsv) = Len(m.rsv) - 1 /\ d.dry = FALSE
    BY <1>7, <2>1
  <2>3. Len(f.rsv) = Len(d.rsv) - n /\ f.dry = d.dry
    BY <1>8, <2>1, <2>2
  <2> QED
    BY <1>6, <2>2, <2>3
<1>10. Len(m.rsv) < n + 1 => f.dry /\ Len(f.rsv) = 0
  <2> SUFFICES ASSUME Len(m.rsv) < n + 1 PROVE f.dry /\ Len(f.rsv) = 0
    OBVIOUS
  <2>1. CASE Len(m.rsv) = 0
    <3>1. Len(d.rsv) = 0 /\ d.dry
      BY <1>7, <2>1
    <3>2. f.dry
      BY <1>8, <3>1
    <3>3. Len(f.rsv) = 0
      <4>1. Len(d.rsv) < n \/ n = 0
        BY <3>1
      <4>2. n = 0 => Len(f.rsv) = Len(d.rsv) - n
        BY <1>8, <3>1
      <4>3. n = 0 => Len(f.rsv) = 0
        BY <3>1, <4>2
      <4> QED
        BY <1>8, <4>1, <4>3
    <3> QED
      BY <3>2, <3>3
  <2>2. CASE Len(m.rsv) > 0
    <3>1. Len(d.rsv) < n
      BY <1>6, <1>7, <2>2
    <3> QED
      BY <1>8, <3>1
  <2> QED
    BY <1>6, <2>1, <2>2
<1>11. ASSUME ~ f.dry PROVE SameHeld(m, f)
  <2>1. Len(m.rsv) > 0 /\ a.m.rsv # <<>>
    <3>1. ~ (Len(m.rsv) < n + 1)
      BY <1>10, <1>11
    <3>2. Len(m.rsv) > 0
      BY <1>6, <3>1
    <3> QED
      BY <1>6, <3>2
  <2>2. DataAdded(a.m, d, a.data)
    BY <1>3, <2>1
  <2>3. SubSeq(a.vecs, 1, n) = a.vecs
    BY <1>1, WholeSeq
  <2>4. /\ \A v \in Vec : VecsAt(f, v) = VecsAt(d, v) + At(a.vecs, v)
        /\ \A c \in Data : DatasAt(f, c) = DatasAt(d, c)
    BY <1>5, <1>11, <2>3 DEF QueuedAll
  <2> QED
    BY <1>2, <2>2, <2>4 DEF DataAdded, SameHeld
<1> QED
  BY <1>5, <1>6, <1>9, <1>10, <1>11 DEF f, d

\* The compare-and-swap of an insertion is lost.
LEMMA LoseRaceDone ==
  ASSUME StateInv, tick \in Nat, NEW t \in Thread, NEW n \in 0 .. MaxNew, LoseRace(t, n)
  PROVE  Stepped(t)
<1> DEFINE a == Allocated(t, n)
           f == FoldLeft(VecRetire, DataRetire(a.m, a.data), a.vecs)
           m == FillIn(f, n + 1)
           p == IF m.dry THEN "stuck" ELSE IF m.code = OK THEN "call" ELSE "leave"
<1>0. n \in Nat /\ n + 1 \in Nat /\ n + 1 <= RsvCnt
  BY BufAssumption
<1>1. /\ phase[t] = "call" /\ budget[t] > 1 /\ Complete(a) /\ Settle(t, m)
      /\ Goto(t, p) /\ Spend(t) /\ UNCHANGED <<tree, own>>
  BY DEF LoseRace
<1>2. /\ phase[t] # "stuck" /\ ~ OwnVec(t) /\ ~ OwnData(t)
      /\ MemoryOK /\ WorkOK /\ own \in [Thread -> Nat] /\ tree \in TreeT /\ budget[t] \in Nat
      /\ Mem(t) \in MemT /\ Mem(t).dry = FALSE
      /\ Len(Mem(t).rsv) \in Nat /\ RsvCnt \in Nat /\ Len(Mem(t).rsv) <= RsvCnt
      /\ t \notin short => Len(Mem(t).rsv) = RsvCnt
  BY <1>1, InCall
<1>3. Obtained(Mem(t), a, n)
  BY <1>0, <1>2, AllocatedGot
<1> HIDE DEF a
<1>4. /\ f \in MemT /\ Len(f.rsv) \in Nat
      /\ Len(Mem(t).rsv) >= n + 1 => f.dry = FALSE /\ Len(f.rsv) = Len(Mem(t).rsv) - (n + 1)
      /\ Len(Mem(t).rsv) < n + 1 => f.dry /\ Len(f.rsv) = 0
      /\ ~ f.dry => SameHeld(Mem(t), f)
  BY <1>0, <1>1, <1>2, <1>3, RaceQueued
<1> HIDE DEF f
<1>5. Ended(f, m, n + 1)
  BY <1>0, <1>4, FillInEnds
<1> HIDE DEF m
<1>6. /\ m \in MemT /\ m.dry = f.dry /\ SameHeld(f, m)
      /\ Len(f.rsv) <= Len(m.rsv) /\ Len(m.rsv) <= Len(f.rsv) + (n + 1)
      /\ ~ m.nomem => Len(m.rsv) = Len(f.rsv) + (n + 1)
  BY <1>5 DEF Ended
<1>7. Len(m.rsv) \in Nat
  BY <1>6, RsvLen
<1>8. Len(m.rsv) <= RsvCnt
  BY <1>0, <1>2, <1>4, <1>6, <1>7
<1>9. t \in short \/ m.nomem \/ (~ m.dry /\ Len(m.rsv) = RsvCnt)
  <2> SUFFICES ASSUME t \notin short, ~ m.nomem PROVE ~ m.dry /\ Len(m.rsv) = RsvCnt
    OBVIOUS
  <2>1. Len(Mem(t).rsv) = RsvCnt /\ Len(Mem(t).rsv) >= n + 1
    BY <1>0, <1>2
  <2>2. f.dry = FALSE /\ Len(f.rsv) = Len(Mem(t).rsv) - (n + 1)
    BY <1>4, <2>1
  <2>3. Len(m.rsv) = RsvCnt
    BY <1>0, <1>2, <1>6, <2>1, <2>2
  <2> QED
    BY <1>6, <2>2, <2>3
<1>10. ~ m.dry => Gained(t, m)
  <2> SUFFICES ASSUME ~ m.dry PROVE Gained(t, m)
    OBVIOUS
  <2>1. SameHeld(Mem(t), f) /\ SameHeld(f, m)
    BY <1>4, <1>6
  <2>2. SameHeld(Mem(t), m)
    BY <2>1 DEF SameHeld
  <2> QED
    BY <1>2, <2>2, NothingDue
<1>11. p \in {"stuck", "leave", "call"} /\ p \in Phase /\ (p # "stuck" <=> ~ m.dry)
  BY DEF Phase
<1> HIDE DEF p
<1>12. Moved(t, p, budget[t] - 1) /\ budget[t] - 1 > 0
  BY <1>1, <1>2, <1>11, GotoMoves
<1>13. /\ Keep(t, m) /\ status' \in {OK, WAIT_AMT}
       /\ \A u \in Thread \ {t} : u \in short' <=> u \in short
       /\ t \in short \/ m.nomem => t \in short'
  BY <1>1, SettleEffect
<1>14. t \in short' \/ (p # "stuck" /\ Len(m.rsv) = RsvCnt)
  BY <1>9, <1>11, <1>13
<1>15. tree' = tree /\ tree' \in TreeT /\ own' \in [Thread -> Nat]
       /\ \A u \in Thread \ {t} : own'[u] = own[u]
  BY <1>1, <1>2
<1>16. p # "stuck" =>
        /\ \A v \in Vec : VecsAt(m, v) + Linked(tree'.vec, v)
                            = VecsAt(Mem(t), v) + VecDue(t, v) + Linked(tree.vec, v)
        /\ \A d \in Data : DatasAt(m, d) + Linked(tree'.data, d)
                            = DatasAt(Mem(t), d) + DataDue(t, d) + Linked(tree.data, d)
  BY <1>10, <1>11, <1>15, GainedBalance
<1>17. p \in {"stuck", "idle", "leave", "call", "help"}
  BY <1>11
<1> QED
  BY <1>2, <1>6, <1>8, <1>12, <1>13, <1>14, <1>15, <1>16, <1>17, CallDone

\* Data block or nodes cannot be had: what was got is retired.
LEMMA RunOutGives ==
  ASSUME StateInv, tick \in Nat, NEW t \in Thread, phase[t] = "call", NEW n \in Nat, NEW a,
         Obtained(Mem(t), a, n), a.data # Nil
  PROVE  LET g == FoldLeft(GiveBack, DataFree(a.m, a.data), a.vecs)
         IN  /\ g \in MemT /\ Len(g.rsv) <= RsvCnt
             /\ t \in short \/ g.nomem \/ (~ g.dry /\ Len(g.rsv) = RsvCnt)
             /\ ~ g.dry => SameHeld(Mem(t), g)
<1> DEFINE m == Mem(t)
           f == DataFree(a.m, a.data)
           g == FoldLeft(GiveBack, f, a.vecs)
<1>1. /\ a.data \in Data /\ a.vecs \in Seq(0 .. NVec) /\ Len(a.vecs) = n
      /\ a.m \in MemT /\ a.m.rsv = m.rsv /\ a.m.nomem = m.nomem /\ a.m.dry = m.dry
      /\ \A v \in Vec : VecsAt(a.m, v) + At(a.vecs, v) = VecsAt(m, v)
      /\ \A c \in Data : DatasAt(a.m, c) + One(a.data, c) = DatasAt(m, c)
  BY DEF Obtained, SameFlags
<1>2. Freed(a.m, f) /\ (a.m.rsv # <<>> => DataAdded(a.m, f, a.data))
  BY <1>1, DataFreeFrees
<1> HIDE DEF f
<1>3. Freed(m, f)
  BY <1>1, <1>2 DEF Freed
<1>4. /\ f \in MemT /\ Len(f.rsv) <= RsvCnt
      /\ t \in short \/ f.nomem \/ (~ f.dry /\ Len(f.rsv) = RsvCnt)
      /\ ~ f.dry => m.rsv # <<>>
  BY <1>3, FreedReserve
<1>5. g \in MemT /\ GivenAll(f, g, a.vecs, n)
  BY <1>1, <1>4, GiveFold
<1> HIDE DEF g, m
<1>6. /\ Len(g.rsv) <= RsvCnt
      /\ t \in short \/ g.nomem \/ (~ g.dry /\ Len(g.rsv) = RsvCnt)
      /\ ~ g.dry => ~ f.dry
  BY <1>4, <1>5 DEF GivenAll
<1>7. ASSUME ~ g.dry PROVE SameHeld(m, g)
  <2>1. DataAdded(a.m, f, a.data)
    BY <1>1, <1>2, <1>4, <1>6, <1>7
  <2>2. SubSeq(a.vecs, 1, n) = a.vecs
    BY <1>1, WholeSeq
  <2>3. /\ \A v \in Vec : VecsAt(g, v) = VecsAt(f, v) + At(a.vecs, v)
        /\ \A c \in Data : DatasAt(g, c) = DatasAt(f, c)
    BY <1>5, <1>7, <2>2 DEF GivenAll
  <2> QED
    BY <1>1, <2>1, <2>3 DEF DataAdded, SameHeld
<1> QED
  BY <1>5, <1>6, <1>7 DEF f, g, m

\* An insertion that runs out of memory.
LEMMA RunOutDone ==
  ASSUME StateInv, tick \in Nat, NEW t \in Thread, NEW n \in 0 .. MaxNew, RunOut(t, n)
  PROVE  Stepped(t)
<1> DEFINE a == Allocated(t, n)
           g == IF a.data = Nil THEN Mem(t)
                ELSE FoldLeft(GiveBack, DataFree(a.m, a.data), a.vecs)
           m == [g EXCEPT !.code = NOMEM]
<1>1. phase[t] = "call" /\ After(t, m, "leave") /\ UNCHANGED <<tree, own>>
  BY DEF RunOut
<1>2. /\ phase[t] # "stuck" /\ ~ OwnVec(t) /\ ~ OwnData(t)
      /\ MemoryOK /\ own \in [Thread -> Nat] /\ budget[t] > 0
      /\ Mem(t) \in MemT /\ Mem(t).dry = FALSE
      /\ Len(Mem(t).rsv) <= RsvCnt
      /\ t \notin short => Len(Mem(t).rsv) = RsvCnt
  BY <1>1, InCall
<1>3. n \in Nat
  OBVIOUS
<1>4. Obtained(Mem(t), a, n)
  BY <1>2, <1>3, AllocatedGot
<1> HIDE DEF a
<1>5. /\ g \in MemT /\ Len(g.rsv) <= RsvCnt
      /\ t \in short \/ g.nomem \/ (~ g.dry /\ Len(g.rsv) = RsvCnt)
      /\ ~ g.dry => SameHeld(Mem(t), g)
  <2>1. CASE a.data = Nil
    <3>1. SameHeld(Mem(t), Mem(t))
      BY DEF SameHeld
    <3> QED
      BY <1>2, <2>1, <3>1
  <2>2. CASE a.data # Nil
    BY <1>1, <1>3, <1>4, <2>2, RunOutGives
  <2> QED
    BY <2>1, <2>2
<1> HIDE DEF g
<1>6. /\ m \in MemT /\ m.rsv = g.rsv /\ m.nomem = g.nomem /\ m.dry = g.dry
      /\ \A x : VecsAt(m, x) = VecsAt(g, x) /\ DatasAt(m, x) = DatasAt(g, x)
  <2>1. NOMEM \in Code
    BY DEF Code
  <2> QED
    BY <1>5, <2>1, OtherCode DEF SameFlags
<1> HIDE DEF m
<1>7. ~ m.dry => Gained(t, m)
  <2> SUFFICES ASSUME ~ m.dry PROVE Gained(t, m)
    OBVIOUS
  <2>1. SameHeld(Mem(t), m)
    BY <1>5, <1>6 DEF SameHeld
  <2> QED
    BY <1>2, <2>1, NothingDue
<1>8. Len(m.rsv) <= RsvCnt /\ (t \in short \/ m.nomem \/ (~ m.dry /\ Len(m.rsv) = RsvCnt))
  BY <1>5, <1>6
<1>9. tree' = tree /\ own' \in [Thread -> Nat] /\ \A u \in Thread \ {t} : own'[u] = own[u]
  BY <1>1, <1>2
<1> QED
  BY <1>1, <1>2, <1>6, <1>7, <1>8, <1>9, AfterDone
-----------------------------------------------------------------------------
(* The places of a node and of a data block.                                *)

\* What thread t has of them, besides the free lists and the tree.
VecTerms(v) ==
  [t \in Thread |->
     At(buf[t].rsv, v) + At(Ids(buf[t].vq), v) + At(Nodes(buf[t].vq), v)
     + At(Nodes(buf[t].dq), v) + (IF OwnVec(t) /\ own[t] = v THEN 1 ELSE 0)]
DataTerms(d) ==
  [t \in Thread |-> At(Ids(buf[t].dq), d) + (IF OwnData(t) /\ own[t] = d THEN 1 ELSE 0)]
VecPlaces(v) == At(pool.vec, v) + (IF v \in tree.vec THEN 1 ELSE 0) + Total(VecTerms(v))
DataPlaces(d) == At(pool.data, d) + (IF d \in tree.data THEN 1 ELSE 0) + Total(DataTerms(d))

\* OnePlace counts them.
LEMMA PlacesCounted ==
  OnePlace <=> (Running => (\A v \in Vec : VecPlaces(v) = 1) /\ (\A d \in Data : DataPlaces(d) = 1))
BY DEF OnePlace, VecOnePlace, DataOnePlace, VecPlaces, DataPlaces, VecTerms, DataTerms

\* The counts are numbers, and what a thread sees is the free list, the tree
\* and the thread's own term.
TermsOK ==
  /\ \A x : VecTerms(x) \in [Thread -> Nat] /\ DataTerms(x) \in [Thread -> Nat]
  /\ \A x : At(pool.vec, x) \in Nat /\ At(pool.data, x) \in Nat
  /\ \A t \in Thread : \A x :
       /\ VecLocal(t, x) = At(pool.vec, x) + Linked(tree.vec, x) + VecTerms(x)[t]
       /\ DataLocal(t, x) = At(pool.data, x) + Linked(tree.data, x) + DataTerms(x)[t]
       
\* The memory's types are enough for that.
LEMMA TermsTyped == MemoryOK => TermsOK
<1> SUFFICES ASSUME MemoryOK PROVE TermsOK
  OBVIOUS
<1>1. ASSUME NEW t \in Thread, NEW x
      PROVE  /\ At(pool.vec, x) \in Nat /\ At(pool.data, x) \in Nat
             /\ VecTerms(x)[t] \in Nat /\ DataTerms(x)[t] \in Nat
             /\ VecLocal(t, x) = At(pool.vec, x) + Linked(tree.vec, x) + VecTerms(x)[t]
             /\ DataLocal(t, x) = At(pool.data, x) + Linked(tree.data, x) + DataTerms(x)[t]
  <2> DEFINE m == Mem(t)
  <2>1. m \in MemT
    BY MemTyped
  <2>2. /\ m.vec = pool.vec /\ m.data = pool.data /\ m.rsv = buf[t].rsv
        /\ m.vq = buf[t].vq /\ m.dq = buf[t].dq
    BY DEF Mem
  <2> HIDE DEF m
  <2>3. /\ At(m.vec, x) \in Nat /\ At(m.rsv, x) \in Nat /\ At(m.data, x) \in Nat
        /\ At(Ids(m.vq), x) \in Nat /\ At(Nodes(m.vq), x) \in Nat
        /\ At(Ids(m.dq), x) \in Nat /\ At(Nodes(m.dq), x) \in Nat
        /\ VecDue(t, x) \in Nat /\ DataDue(t, x) \in Nat
        /\ Linked(tree.vec, x) \in Nat /\ Linked(tree.data, x) \in Nat
    BY <2>1, MemNumbers, LocalNumbers
  <2>4. /\ VecTerms(x)[t] = At(m.rsv, x) + At(Ids(m.vq), x) + At(Nodes(m.vq), x)
                            + At(Nodes(m.dq), x) + VecDue(t, x)
        /\ DataTerms(x)[t] = At(Ids(m.dq), x) + DataDue(t, x)
    BY <2>2 DEF VecTerms, DataTerms, VecDue, DataDue
  <2>5. /\ VecLocal(t, x) = At(m.vec, x) + At(m.rsv, x) + At(Ids(m.vq), x) + At(Nodes(m.vq), x)
                            + At(Nodes(m.dq), x) + VecDue(t, x) + Linked(tree.vec, x)
        /\ DataLocal(t, x) = At(m.data, x) + At(Ids(m.dq), x) + DataDue(t, x) + Linked(tree.data, x)
    BY DEF VecLocal, DataLocal, VecsAt, DatasAt, m
  <2> QED
    BY <2>2, <2>3, <2>4, <2>5
<1>2. ASSUME NEW x PROVE VecTerms(x) \in [Thread -> Nat] /\ DataTerms(x) \in [Thread -> Nat]
  BY <1>1 DEF VecTerms, DataTerms
<1>3. PICK t \in Thread : TRUE
  BY BufAssumption
<1> QED
  BY <1>1, <1>2, <1>3 DEF TermsOK

\* And in the next state.
LEMMA TermsTypedNext == MemoryOK' => TermsOK'
BY TermsTyped, PTL

\* If a thread sees as many of each as before, there are as many as before.
LEMMA PlacesKept ==
  ASSUME MemoryOK, MemoryOK', NEW t \in Thread, Balanced(t),
         \A u \in Thread \ {t} : buf'[u] = buf[u] /\ own'[u] = own[u] /\ phase'[u] = phase[u]
  PROVE  /\ \A v \in Vec : VecPlaces(v)' = VecPlaces(v)
         /\ \A d \in Data : DataPlaces(d)' = DataPlaces(d)
<1>1. TermsOK /\ TermsOK' /\ IsFiniteSet(Thread)
  BY TermsTyped, TermsTypedNext, BufAssumption
<1>2. ASSUME NEW v \in Vec PROVE VecPlaces(v)' = VecPlaces(v)
  <2> DEFINE f == VecTerms(v)
             g == VecTerms(v)'
             a == At(pool.vec, v) + Linked(tree.vec, v)
             b == (At(pool.vec, v) + Linked(tree.vec, v))'
  <2>1. \A u \in Thread \ {t} : g[u] = f[u]
    BY DEF VecTerms, OwnVec
  <2>2. f \in [Thread -> Nat] /\ g \in [Thread -> Nat] /\ a \in Nat /\ b \in Nat
    BY <1>1 DEF TermsOK, Linked
  <2>3. VecLocal(t, v) = a + f[t] /\ VecLocal(t, v)' = b + g[t]
    BY <1>1 DEF TermsOK
  <2>4. VecPlaces(v) = a + SumFunction(f) /\ VecPlaces(v)' = b + SumFunction(g)
    BY DEF VecPlaces, Total, Linked
  <2> HIDE DEF f, g, a, b
  <2>5. f \in [Thread -> Int] /\ g \in [Thread -> Int]
    BY <2>2
  <2>6. SumFunction(g) = SumFunction(f) + g[t] - f[t]
    BY <1>1, <2>1, <2>5, SumChange
  <2>7. SumFunction(f) \in Nat /\ SumFunction(g) \in Nat /\ f[t] \in Nat /\ g[t] \in Nat
    BY <1>1, <2>2, SumType
  <2>8. b + g[t] = a + f[t]
    BY <2>3 DEF Balanced
  <2> QED
    BY <2>2, <2>4, <2>6, <2>7, <2>8
<1>3. ASSUME NEW d \in Data PROVE DataPlaces(d)' = DataPlaces(d)
  <2> DEFINE f == DataTerms(d)
             g == DataTerms(d)'
             a == At(pool.data, d) + Linked(tree.data, d)
             b == (At(pool.data, d) + Linked(tree.data, d))'
  <2>1. \A u \in Thread \ {t} : g[u] = f[u]
    BY DEF DataTerms, OwnData
  <2>2. f \in [Thread -> Nat] /\ g \in [Thread -> Nat] /\ a \in Nat /\ b \in Nat
    BY <1>1 DEF TermsOK, Linked
  <2>3. DataLocal(t, d) = a + f[t] /\ DataLocal(t, d)' = b + g[t]
    BY <1>1 DEF TermsOK
  <2>4. DataPlaces(d) = a + SumFunction(f) /\ DataPlaces(d)' = b + SumFunction(g)
    BY DEF DataPlaces, Total, Linked
  <2> HIDE DEF f, g, a, b
  <2>5. f \in [Thread -> Int] /\ g \in [Thread -> Int]
    BY <2>2
  <2>6. SumFunction(g) = SumFunction(f) + g[t] - f[t]
    BY <1>1, <2>1, <2>5, SumChange
  <2>7. SumFunction(f) \in Nat /\ SumFunction(g) \in Nat /\ f[t] \in Nat /\ g[t] \in Nat
    BY <1>1, <2>2, SumType
  <2>8. b + g[t] = a + f[t]
    BY <2>3 DEF Balanced
  <2> QED
    BY <2>2, <2>4, <2>6, <2>7, <2>8
<1> QED
  BY <1>2, <1>3

\* A thread does not see a node, or a data block, twice.
LEMMA SeenOnce ==
  ASSUME MemoryOK, Running, OnePlace, NEW t \in Thread
  PROVE  /\ \A v \in Vec : VecLocal(t, v) <= 1
         /\ \A d \in Data : DataLocal(t, d) <= 1
<1>1. TermsOK /\ IsFiniteSet(Thread)
  BY TermsTyped, BufAssumption
<1>2. (\A v \in Vec : VecPlaces(v) = 1) /\ (\A d \in Data : DataPlaces(d) = 1)
  BY PlacesCounted
<1>3. ASSUME NEW v \in Vec PROVE VecLocal(t, v) <= 1
  <2> DEFINE f == VecTerms(v)
             a == At(pool.vec, v) + Linked(tree.vec, v)
  <2>1. f \in [Thread -> Nat] /\ a \in Nat /\ VecLocal(t, v) = a + f[t]
    BY <1>1 DEF TermsOK, Linked
  <2>2. a + SumFunction(f) = 1
    BY <1>2 DEF VecPlaces, Total, Linked
  <2> HIDE DEF f, a
  <2>3. f[t] <= SumFunction(f) /\ SumFunction(f) \in Nat /\ f[t] \in Nat
    BY <1>1, <2>1, SumAtLeast, SumType
  <2> QED
    BY <2>1, <2>2, <2>3
<1>4. ASSUME NEW d \in Data PROVE DataLocal(t, d) <= 1
  <2> DEFINE f == DataTerms(d)
             a == At(pool.data, d) + Linked(tree.data, d)
  <2>1. f \in [Thread -> Nat] /\ a \in Nat /\ DataLocal(t, d) = a + f[t]
    BY <1>1 DEF TermsOK, Linked
  <2>2. a + SumFunction(f) = 1
    BY <1>2 DEF DataPlaces, Total, Linked
  <2> HIDE DEF f, a
  <2>3. f[t] <= SumFunction(f) /\ SumFunction(f) \in Nat /\ f[t] \in Nat
    BY <1>1, <2>1, SumAtLeast, SumType
  <2> QED
    BY <2>1, <2>2, <2>3
<1> QED
  BY <1>3, <1>4

\* What occurs in a sequence has a place in it.
LEMMA AtRange ==
  ASSUME NEW S, NEW s \in Seq(S), NEW x
  PROVE  At(s, x) \in Nat /\ (At(s, x) = 0 <=> x \notin Range(s))
<1> DEFINE P == {i \in 1 .. Len(s) : s[i] = x}
<1>1. IsFiniteSet(P) /\ At(s, x) = Cardinality(P) /\ At(s, x) \in Nat
  BY AtPlaces
<1>2. Cardinality(P) = 0 <=> P = {}
  BY <1>1, FS_EmptySet
<1>3. x \notin Range(s) <=> P = {}
  <2>1. DOMAIN s = 1 .. Len(s)
    OBVIOUS
  <2> QED
    BY <2>1 DEF Range
<1> QED
  BY <1>1, <1>2, <1>3

\* With the tree that r is and the memory m, thread t sees as many as before.
Published(t, m, r) ==
  /\ \A v \in Vec : VecsAt(m, v) + Linked(r.vec, v)
                      = VecsAt(Mem(t), v) + VecDue(t, v) + Linked(tree.vec, v)
  /\ \A d \in Data : DatasAt(m, d) + Linked(r.data, d)
                      = DatasAt(Mem(t), d) + DataDue(t, d) + Linked(tree.data, d)

\* The nodes of an insertion enter the tree, each once: none is in the tree yet.
LEMMA PublishBalance ==
  ASSUME StateInv, Running, OnePlace, NEW t \in Thread, ~ OwnVec(t), ~ OwnData(t),
         NEW n, NEW a, Obtained(Mem(t), a, n), a.vecs \in Seq(Vec), a.data \in Data,
         NEW r \in TreeT, r.vec = tree.vec \union Range(a.vecs),
         r.data = tree.data \union {a.data}
  PROVE  Published(t, a.m, r)
<1>1. /\ a.m \in MemT
      /\ \A v \in Vec : VecsAt(a.m, v) + At(a.vecs, v) = VecsAt(Mem(t), v)
      /\ \A d \in Data : DatasAt(a.m, d) + One(a.data, d) = DatasAt(Mem(t), d)
  BY DEF Obtained
<1>2. \A x : VecDue(t, x) = 0 /\ DataDue(t, x) = 0
  BY DEF VecDue, DataDue
<1>3. /\ \A v \in Vec : VecLocal(t, v) <= 1
      /\ \A d \in Data : DataLocal(t, d) <= 1
  BY SeenOnce DEF StateInv
<1>4. ASSUME NEW v \in Vec
      PROVE  VecsAt(a.m, v) + Linked(r.vec, v)
               = VecsAt(Mem(t), v) + VecDue(t, v) + Linked(tree.vec, v)
  <2>1. VecsAt(a.m, v) \in Nat /\ VecsAt(Mem(t), v) \in Nat
    BY <1>1, MemNumbers, LocalNumbers DEF StateInv
  <2>2. At(a.vecs, v) \in Nat /\ (At(a.vecs, v) = 0 <=> v \notin Range(a.vecs))
    BY AtRange
  <2>3. VecsAt(Mem(t), v) + Linked(tree.vec, v) <= 1
    BY <1>2, <1>3, <2>1 DEF VecLocal, Linked
  <2>4. VecsAt(a.m, v) + At(a.vecs, v) = VecsAt(Mem(t), v)
    BY <1>1
  <2>5. Linked(r.vec, v) = Linked(tree.vec, v) + At(a.vecs, v)
    BY <2>1, <2>2, <2>3, <2>4 DEF Linked
  <2>6. Linked(tree.vec, v) \in Nat
    BY DEF Linked
  <2> QED
    BY <1>2, <2>1, <2>2, <2>4, <2>5, <2>6
<1>5. ASSUME NEW d \in Data
      PROVE  DatasAt(a.m, d) + Linked(r.data, d)
               = DatasAt(Mem(t), d) + DataDue(t, d) + Linked(tree.data, d)
  <2>1. DatasAt(a.m, d) \in Nat /\ DatasAt(Mem(t), d) \in Nat
    BY <1>1, MemNumbers, LocalNumbers DEF StateInv
  <2>2. One(a.data, d) \in Nat /\ (One(a.data, d) = 0 <=> d # a.data)
    BY DEF One
  <2>3. DatasAt(Mem(t), d) + Linked(tree.data, d) <= 1
    BY <1>2, <1>3, <2>1 DEF DataLocal, Linked
  <2>4. DatasAt(a.m, d) + One(a.data, d) = DatasAt(Mem(t), d)
    BY <1>1
  <2>5. Linked(r.data, d) = Linked(tree.data, d) + One(a.data, d)
    BY <2>1, <2>2, <2>3, <2>4 DEF Linked
  <2>6. Linked(tree.data, d) \in Nat
    BY DEF Linked
  <2> QED
    BY <1>2, <2>1, <2>2, <2>4, <2>5, <2>6
<1> QED
  BY <1>4, <1>5 DEF Published

\* An insertion is published.
LEMMA PublishDone ==
  ASSUME StateInv, NEW t \in Thread, NEW n \in 0 .. MaxNew, Publish(t, n)
  PROVE  Stepped(t)
<1> DEFINE a == Allocated(t, n)
<1>1. /\ phase[t] = "call" /\ Complete(a) /\ Keep(t, a.m) /\ Answer(t, OK)
      /\ tree' = [vec |-> tree.vec \union Range(a.vecs), data |-> tree.data \union {a.data}]
      /\ UNCHANGED <<status, own, short>>
  BY DEF Publish
<1>2. /\ phase[t] # "stuck" /\ ~ OwnVec(t) /\ ~ OwnData(t)
      /\ MemoryOK /\ WorkOK /\ own \in [Thread -> Nat] /\ tree \in TreeT /\ budget[t] > 0
      /\ Mem(t) \in MemT /\ Len(Mem(t).rsv) <= RsvCnt
      /\ t \notin short => Len(Mem(t).rsv) = RsvCnt
  BY <1>1, InCall
<1>3. n \in Nat
  OBVIOUS
<1>4. Obtained(Mem(t), a, n)
  BY <1>2, <1>3, AllocatedGot
<1> HIDE DEF a
<1>5. a.data \in Data /\ a.vecs \in Seq(Vec) /\ a.m \in MemT /\ a.m.rsv = Mem(t).rsv
  BY <1>1, <1>3, <1>4, GotAll
<1>6. PICK p \in {"idle", "leave"}, b \in Nat : Moved(t, p, b)
  <2>1. OK \in Code
    BY DEF Code
  <2> QED
    BY <1>1, <1>2, <2>1, AnswerMoves
<1>7. /\ tree' \in TreeT /\ tree'.vec = tree.vec \union Range(a.vecs)
      /\ tree'.data = tree.data \union {a.data}
  <2>1. Range(a.vecs) \subseteq Vec
    BY <1>5 DEF Range
  <2> QED
    BY <1>1, <1>2, <1>5, <2>1 DEF TreeT
<1>8. Running /\ OnePlace =>
        /\ \A v \in Vec : VecsAt(a.m, v) + Linked(tree'.vec, v)
                            = VecsAt(Mem(t), v) + VecDue(t, v) + Linked(tree.vec, v)
        /\ \A d \in Data : DatasAt(a.m, d) + Linked(tree'.data, d)
                            = DatasAt(Mem(t), d) + DataDue(t, d) + Linked(tree.data, d)
  <2> SUFFICES ASSUME Running, OnePlace
               PROVE  Published(t, a.m, tree')
    BY DEF Published
  <2> DEFINE r == tree'
  <2>1. r \in TreeT /\ r.vec = tree.vec \union Range(a.vecs) /\ r.data = tree.data \union {a.data}
    BY <1>7
  <2> HIDE DEF r
  <2>2. Published(t, a.m, r)
    BY <1>2, <1>4, <1>5, <2>1, PublishBalance
  <2> QED
    BY <2>2 DEF r
<1>9. /\ p \in {"stuck", "idle", "leave", "call", "help"} /\ ~ (p \in {"call", "help"})
      /\ p # "stuck" /\ own' \in [Thread -> Nat] /\ \A u \in Thread \ {t} : own'[u] = own[u]
      /\ \A u \in Thread \ {t} : u \in short' <=> u \in short
      /\ status' \in {OK, WAIT_AMT}
      /\ t \in short' \/ Len(a.m.rsv) = RsvCnt
      /\ Len(a.m.rsv) <= RsvCnt
  BY <1>1, <1>2, <1>5, OwnState
<1> QED
  BY <1>1, <1>2, <1>5, <1>6, <1>7, <1>8, <1>9, CallDone
-----------------------------------------------------------------------------
(* The initial state: cluster_init fills the reserves.                      *)

\* The threads have their turns: each one, and no two the same.
LEMMA Turns ==
  /\ Cardinality(Thread) \in Nat \ {0}
  /\ \A t \in Thread : Turn(t) \in 1 .. Cardinality(Thread)
  /\ \A k \in 1 .. Cardinality(Thread) : \E t \in Thread : Turn(t) = k
  /\ \A t, u \in Thread : Turn(t) = Turn(u) => t = u
<1> DEFINE C == Cardinality(Thread)
           Ok(o) == \A t \in Thread : \E i \in DOMAIN o : o[i] = t
<1>1. IsFiniteSet(Thread) /\ Thread # {}
  BY BufAssumption
<1>2. C \in Nat /\ ExistsBijection(1 .. C, Thread)
  BY <1>1, FS_CardinalityType
<1>3. C # 0
  BY <1>1, FS_EmptySet
<1> HIDE DEF C
<1>4. \E o \in [1 .. C -> Thread] : Ok(o)
  BY <1>2 DEF ExistsBijection, Bijection, Injection, Surjection
<1>5. Order \in [1 .. C -> Thread] /\ Ok(Order)
  <2>1. Order = CHOOSE o \in [1 .. C -> Thread] : Ok(o)
    BY DEF Order, C
  <2> HIDE DEF Ok
  <2> QED
    BY <1>4, <2>1
<1>6. \A t \in Thread : Turn(t) \in 1 .. C /\ Order[Turn(t)] = t
  <2> TAKE t \in Thread
  <2>1. \E i \in DOMAIN Order : Order[i] = t
    BY <1>5
  <2>2. DOMAIN Order = 1 .. C
    BY <1>5
  <2> QED
    BY <2>1, <2>2 DEF Turn
<1>7. \A i, j \in 1 .. C : Order[i] = Order[j] => i = j
  <2>1. IsFiniteSet(1 .. C) /\ Cardinality(1 .. C) = C
    BY <1>2, FS_Interval
  <2>2. Order \in Surjection(1 .. C, Thread)
    BY <1>5 DEF Surjection
  <2>3. Order \in Injection(1 .. C, Thread)
    BY <2>1, <2>2, FS_SurjSameCardinalityImpliesInj DEF C
  <2> QED
    BY <2>3 DEF Injection, IsInjective
<1>8. ASSUME NEW k \in 1 .. C PROVE \E t \in Thread : Turn(t) = k
  <2>1. Order[k] \in Thread
    BY <1>5
  <2>2. Turn(Order[k]) = k
    BY <1>6, <1>7, <2>1
  <2> QED
    BY <2>1, <2>2
<1> QED
  BY <1>2, <1>3, <1>6, <1>8 DEF C

\* A product grows with its second factor.
LEMMA TimesGrows ==
  ASSUME NEW r \in Nat, NEW a \in Nat, NEW b \in Nat, a < b
  PROVE  r * a + r <= r * b
<1>1. PICK d \in Nat : b = a + 1 + d
  <2>1. b - a - 1 \in Nat /\ b = a + 1 + (b - a - 1)
    OBVIOUS
  <2> QED
    BY <2>1
<1>2. r * b = r * a + r + r * d
  BY <1>1
<1>3. r * d \in Nat /\ r * a \in Nat
  OBVIOUS
<1> QED
  BY <1>2, <1>3

\* The end of a thread's block of nodes.
BlockEnd(t) == Turn(t) * RsvCnt

\* The reserves are blocks of RsvCnt nodes, one after the other.
LEMMA Blocks ==
  /\ RsvCnt * Cardinality(Thread) \in Nat /\ RsvCnt * Cardinality(Thread) <= NVec
  /\ \A t \in Thread : /\ BlockEnd(t) \in Nat /\ RsvCnt <= BlockEnd(t)
                       /\ BlockEnd(t) <= RsvCnt * Cardinality(Thread)
  /\ \A t, u \in Thread : t # u => BlockEnd(t) + RsvCnt <= BlockEnd(u) \/ BlockEnd(u) + RsvCnt <= BlockEnd(t)
  /\ \A v \in 1 .. RsvCnt * Cardinality(Thread) :
       \E t \in Thread : BlockEnd(t) < v + RsvCnt /\ v <= BlockEnd(t)
<1> DEFINE C == Cardinality(Thread)
<1>1. RsvCnt \in Nat /\ C \in Nat \ {0} /\ RsvCnt * C <= NVec /\ NVec \in Nat
  BY BufAssumption, Turns
<1>2. RsvCnt * C \in Nat
  BY <1>1
<1>3. ASSUME NEW t \in Thread
      PROVE  /\ Turn(t) \in Nat \ {0} /\ Turn(t) <= C
             /\ BlockEnd(t) = RsvCnt * Turn(t) /\ BlockEnd(t) \in Nat
  <2>1. Turn(t) \in Nat \ {0} /\ Turn(t) <= C
    BY <1>1, Turns
  <2> QED
    BY <1>1, <2>1 DEF BlockEnd
<1> HIDE DEF C
<1>4. ASSUME NEW t \in Thread PROVE RsvCnt <= BlockEnd(t) /\ BlockEnd(t) <= RsvCnt * C
  <2>1. RsvCnt * 0 + RsvCnt <= RsvCnt * Turn(t)
    BY <1>1, <1>3, TimesGrows
  <2>2. Turn(t) < C => RsvCnt * Turn(t) + RsvCnt <= RsvCnt * C
    BY <1>1, <1>3, TimesGrows
  <2>3. RsvCnt * 0 = 0
    BY <1>1
  <2>4. Turn(t) = C => RsvCnt * Turn(t) = RsvCnt * C
    OBVIOUS
  <2>5. Turn(t) < C \/ Turn(t) = C
    BY <1>1, <1>3
  <2>6. RsvCnt * Turn(t) \in Nat
    BY <1>3
  <2> QED
    BY <1>1, <1>2, <1>3, <2>1, <2>2, <2>3, <2>4, <2>5, <2>6
<1>5. ASSUME NEW t \in Thread, NEW u \in Thread, t # u
      PROVE  BlockEnd(t) + RsvCnt <= BlockEnd(u) \/ BlockEnd(u) + RsvCnt <= BlockEnd(t)
  <2>1. Turn(t) # Turn(u)
    BY <1>5, Turns
  <2>2. Turn(t) < Turn(u) \/ Turn(u) < Turn(t)
    BY <1>3, <2>1
  <2>3. /\ Turn(t) < Turn(u) => RsvCnt * Turn(t) + RsvCnt <= RsvCnt * Turn(u)
        /\ Turn(u) < Turn(t) => RsvCnt * Turn(u) + RsvCnt <= RsvCnt * Turn(t)
    BY <1>1, <1>3, TimesGrows
  <2> QED
    BY <1>3, <2>2, <2>3
<1>6. ASSUME NEW v \in 1 .. RsvCnt * C
      PROVE  \E t \in Thread : BlockEnd(t) < v + RsvCnt /\ v <= BlockEnd(t)
  <2> DEFINE S == {k \in Nat : v <= RsvCnt * k}
  <2>0. v \in Nat \ {0}
    BY <1>2
  <2>1. S \in SUBSET Nat /\ C \in S
    BY <1>1, <1>2, <2>0
  <2>2. PICK k \in S : \A j \in S : k <= j
    <3> HIDE DEF S
    <3>1. S # {}
      BY <2>1
    <3> QED
      BY <2>1, <3>1, LeastNat
  <2>3. k \in Nat /\ v <= RsvCnt * k /\ k <= C
    BY <2>1, <2>2
  <2>4. k # 0
    <3>1. RsvCnt * 0 = 0
      BY <1>1
    <3> QED
      BY <2>0, <2>3, <3>1
  <2>5. ~ (v <= RsvCnt * (k - 1))
    <3>1. k - 1 \in Nat /\ ~ (k <= k - 1)
      BY <2>3, <2>4
    <3> QED
      BY <2>2, <3>1
  <2>6. RsvCnt * k = RsvCnt * (k - 1) + RsvCnt /\ RsvCnt * (k - 1) \in Nat
    <3>1. k - 1 \in Nat
      BY <2>3, <2>4
    <3>2. RsvCnt * (k - 1) \in Nat
      BY <1>1, <3>1
    <3> QED
      BY <1>1, <2>3, <3>2
  <2>7. PICK t \in Thread : Turn(t) = k
    <3>1. k \in 1 .. C
      BY <1>1, <2>3, <2>4
    <3> QED
      BY <3>1, Turns DEF C
  <2>8. BlockEnd(t) = RsvCnt * k
    BY <1>3, <2>7
  <2> QED
    BY <1>1, <2>0, <2>3, <2>5, <2>6, <2>8
<1> QED
  BY <1>1, <1>2, <1>3, <1>4, <1>5, <1>6 DEF C

\* A value that occurs at one place, and one that occurs nowhere.
LEMMA AtPlace ==
  ASSUME NEW S, NEW s \in Seq(S), NEW x
  PROVE  /\ \A k \in 1 .. Len(s) :
              (\A i \in 1 .. Len(s) : s[i] = x <=> i = k) => At(s, x) = 1
         /\ (\A i \in 1 .. Len(s) : s[i] # x) => At(s, x) = 0
<1> DEFINE P == {i \in 1 .. Len(s) : s[i] = x}
<1>1. At(s, x) = Cardinality(P)
  BY AtPlaces
<1>2. ASSUME NEW k \in 1 .. Len(s), \A i \in 1 .. Len(s) : s[i] = x <=> i = k
      PROVE  At(s, x) = 1
  <2>1. P = {k}
    BY <1>2
  <2>2. Cardinality({k}) = 1
    BY FS_Singleton
  <2> QED
    BY <1>1, <2>1, <2>2
<1>3. ASSUME \A i \in 1 .. Len(s) : s[i] # x PROVE At(s, x) = 0
  <2>1. P = {}
    BY <1>3
  <2> QED
    BY <1>1, <2>1, FS_EmptySet
<1> QED
  BY <1>2, <1>3

\* A run of consecutive nodes, upwards or downwards, in a sequence.
LEMMA AtRun ==
  ASSUME NEW n \in Nat, NEW a \in Nat, NEW v \in Nat
  PROVE  /\ At([i \in 1 .. n |-> a + i], v) = IF a < v /\ v <= a + n THEN 1 ELSE 0
         /\ n <= a => At([i \in 1 .. n |-> a + 1 - i], v) = IF a < v + n /\ v <= a THEN 1 ELSE 0
<1> DEFINE s == [i \in 1 .. n |-> a + i]
           r == [i \in 1 .. n |-> a + 1 - i]
<1>1. s \in Seq(Int) /\ Len(s) = n /\ \A i \in 1 .. n : s[i] = a + i
  OBVIOUS
<1>2. r \in Seq(Int) /\ Len(r) = n /\ \A i \in 1 .. n : r[i] = a + 1 - i
  OBVIOUS
<1> HIDE DEF s, r
<1>3. At(s, v) = IF a < v /\ v <= a + n THEN 1 ELSE 0
  <2>1. CASE a < v /\ v <= a + n
    <3>1. v - a \in 1 .. n /\ \A i \in 1 .. n : s[i] = v <=> i = v - a
      BY <1>1, <2>1
    <3>2. At(s, v) = 1
      BY <1>1, <3>1, AtPlace
    <3> QED
      BY <2>1, <3>2
  <2>2. CASE ~ (a < v /\ v <= a + n)
    <3>1. \A i \in 1 .. n : s[i] # v
      BY <1>1, <2>2
    <3>2. At(s, v) = 0
      BY <1>1, <3>1, AtPlace
    <3> QED
      BY <2>2, <3>2
  <2> QED
    BY <2>1, <2>2
<1>4. ASSUME n <= a PROVE At(r, v) = IF a < v + n /\ v <= a THEN 1 ELSE 0
  <2>1. CASE a < v + n /\ v <= a
    <3>1. a + 1 - v \in 1 .. n /\ \A i \in 1 .. n : r[i] = v <=> i = a + 1 - v
      BY <1>2, <2>1
    <3>2. At(r, v) = 1
      BY <1>2, <3>1, AtPlace
    <3> QED
      BY <2>1, <3>2
  <2>2. CASE ~ (a < v + n /\ v <= a)
    <3>1. \A i \in 1 .. n : r[i] # v
      BY <1>2, <1>4, <2>2
    <3>2. At(r, v) = 0
      BY <1>2, <3>1, AtPlace
    <3> QED
      BY <2>2, <3>2
  <2> QED
    BY <2>1, <2>2
<1> QED
  BY <1>3, <1>4 DEF s, r

\* At first the nodes are in the reserves and on the free list.
LEMMA FirstMemory ==
  ASSUME Init
  PROVE  /\ MemoryOK
         /\ \A t \in Thread : Len(buf[t].rsv) = RsvCnt /\ buf[t].vq = <<>> /\ buf[t].dq = <<>>
         /\ \A v \in Vec : /\ At(pool.vec, v) = IF RsvCnt * Cardinality(Thread) < v THEN 1 ELSE 0
                           /\ \A t \in Thread : At(buf[t].rsv, v) =
                                IF BlockEnd(t) < v + RsvCnt /\ v <= BlockEnd(t) THEN 1 ELSE 0
         /\ \A d \in Data : At(pool.data, d) = 1
<1> DEFINE F == RsvCnt * Cardinality(Thread)
           rest == [i \in 1 .. NVec - F |-> F + i]
           data == [i \in 1 .. NData |-> i]
           rsv(t) == [i \in 1 .. RsvCnt |-> BlockEnd(t) + 1 - i]
<1>1. /\ F \in Nat /\ F <= NVec /\ NVec \in Nat /\ NData \in Nat /\ RsvCnt \in Nat
      /\ \A t \in Thread : BlockEnd(t) \in Nat /\ RsvCnt <= BlockEnd(t) /\ BlockEnd(t) <= F
  BY Blocks, BufAssumption
<1>2. /\ buf = [t \in Thread |-> [rsv |-> rsv(t), vq |-> <<>>, dq |-> <<>>]]
      /\ pool = [vec |-> rest, data |-> data]
  BY DEF Init, BlockEnd, Data
<1> HIDE DEF F
<1>3. NVec - F \in Nat /\ F + (NVec - F) = NVec
  BY <1>1
<1>4. rest \in Seq(Vec) /\ Len(rest) = NVec - F
  <2>1. \A i \in 1 .. NVec - F : F + i \in Vec
    BY <1>1 DEF Vec
  <2> QED
    BY <1>3, <2>1
<1>5. data \in Seq(Data) /\ Len(data) = NData /\ \A i \in 1 .. NData : data[i] = i
  <2>1. \A i \in 1 .. NData : i \in Data
    BY DEF Data
  <2> QED
    BY <1>1, <2>1
<1>6. ASSUME NEW t \in Thread PROVE rsv(t) \in Seq(Vec) /\ Len(rsv(t)) = RsvCnt
  <2>1. \A i \in 1 .. RsvCnt : BlockEnd(t) + 1 - i \in Vec
    BY <1>1 DEF Vec
  <2> QED
    BY <1>1, <2>1
<1>7. ASSUME NEW v \in Vec
      PROVE  /\ At(rest, v) = IF F < v THEN 1 ELSE 0
             /\ \A t \in Thread : At(rsv(t), v) = IF BlockEnd(t) < v + RsvCnt /\ v <= BlockEnd(t) THEN 1 ELSE 0
  <2>1. v \in Nat /\ v <= NVec
    BY <1>1 DEF Vec
  <2>2. At(rest, v) = IF F < v /\ v <= F + (NVec - F) THEN 1 ELSE 0
    BY <1>1, <1>3, <2>1, AtRun
  <2>3. ASSUME NEW t \in Thread
        PROVE  At(rsv(t), v) = IF BlockEnd(t) < v + RsvCnt /\ v <= BlockEnd(t) THEN 1 ELSE 0
    BY <1>1, <2>1, AtRun
  <2> QED
    BY <1>3, <2>1, <2>2, <2>3
<1>8. ASSUME NEW d \in Data PROVE At(data, d) = 1
  <2> HIDE DEF data
  <2>1. d \in 1 .. NData
    BY DEF Data
  <2>2. \A i \in 1 .. NData : data[i] = d <=> i = d
    BY <1>5
  <2> QED
    BY <1>5, <2>1, <2>2, AtPlace
<1>9. MemoryOK
  <2>1. \A t \in Thread : [rsv |-> rsv(t), vq |-> <<>>, dq |-> <<>>] \in BufT
    <3>1. <<>> \in Seq(VecEntry) /\ <<>> \in Seq(DataEntry)
      OBVIOUS
    <3>2. \A r \in Seq(Vec) : [rsv |-> r, vq |-> <<>>, dq |-> <<>>] \in BufT
      BY <3>1 DEF BufT
    <3> HIDE DEF rsv
    <3> QED
      BY <1>6, <3>2
  <2>2. [vec |-> rest, data |-> data] \in PoolT
    BY <1>4, <1>5 DEF PoolT
  <2> HIDE DEF rest, data, rsv
  <2> QED
    BY <1>2, <2>1, <2>2 DEF MemoryOK
<1>10. \A t \in Thread : buf[t].rsv = rsv(t) /\ buf[t].vq = <<>> /\ buf[t].dq = <<>>
  BY <1>2
<1>11. pool.vec = rest /\ pool.data = data
  BY <1>2
<1> HIDE DEF rest, data, rsv
<1> QED
  BY <1>6, <1>7, <1>8, <1>9, <1>10, <1>11 DEF F

\* The invariant holds at first.
LEMMA FirstState == Init => StateInv
<1> SUFFICES ASSUME Init PROVE StateInv
  OBVIOUS
<1>1. MemoryOK /\ \A t \in Thread : Len(buf[t].rsv) = RsvCnt
  BY FirstMemory
<1>2. /\ status = OK /\ tree = [vec |-> {}, data |-> {}]
      /\ phase = [t \in Thread |-> "idle"] /\ own = [t \in Thread |-> Nil]
      /\ budget = Budget
  BY DEF Init
<1>3. WorkOK
  <2>1. Nil \in Nat /\ "idle" \in Phase /\ "idle" \notin Busy
    BY DEF Nil, Phase, Busy
  <2>2. budget \in [Thread -> Nat]
    BY <1>2, BufAssumption
  <2> QED
    BY <1>2, <2>1, <2>2 DEF WorkOK, OwnVec, OwnData
<1>4. \A t \in Thread : ReserveInv(t)
  <2>1. RsvCnt \in Nat
    BY BufAssumption
  <2> QED
    BY <1>1, <1>2, <2>1 DEF ReserveInv
<1>5. tree \in TreeT /\ status \in {OK, WAIT_AMT}
  BY <1>2 DEF TreeT
<1> QED
  BY <1>1, <1>3, <1>4, <1>5 DEF StateInv

\* At first every node and every data block is in one place.
LEMMA FirstPlaces == Init => OnePlace
<1> SUFFICES ASSUME Init PROVE OnePlace
  OBVIOUS
<1> DEFINE F == RsvCnt * Cardinality(Thread)
<1>1. /\ MemoryOK
      /\ \A t \in Thread : buf[t].vq = <<>> /\ buf[t].dq = <<>>
      /\ \A v \in Vec : /\ At(pool.vec, v) = IF F < v THEN 1 ELSE 0
                        /\ \A t \in Thread : At(buf[t].rsv, v) =
                             IF BlockEnd(t) < v + RsvCnt /\ v <= BlockEnd(t) THEN 1 ELSE 0
      /\ \A d \in Data : At(pool.data, d) = 1
  BY FirstMemory
<1>2. tree.vec = {} /\ tree.data = {} /\ \A t \in Thread : ~ OwnVec(t) /\ ~ OwnData(t)
  BY DEF Init, OwnVec, OwnData
<1>3. Ids(<<>>) = <<>> /\ Nodes(<<>>) = <<>> /\ \A x : At(<<>>, x) = 0
  <2>1. DOMAIN <<>> = {} /\ \A f : DOMAIN f = {} => [i \in DOMAIN f |-> f[i].id] = <<>>
                                                 /\ [i \in DOMAIN f |-> f[i].node] = <<>>
    OBVIOUS
  <2> QED
    BY <2>1, AtShort DEF Ids, Nodes
<1>4. /\ IsFiniteSet(Thread) /\ RsvCnt \in Nat /\ F \in Nat
      /\ \A t \in Thread : BlockEnd(t) \in Nat
  BY BufAssumption, Blocks
<1>5. ASSUME NEW v \in Vec PROVE VecPlaces(v) = 1
  <2> DEFINE f == VecTerms(v)
  <2>0. v \in Nat
    BY BufAssumption DEF Vec
  <2>1. \A t \in Thread : f[t] = IF BlockEnd(t) < v + RsvCnt /\ v <= BlockEnd(t) THEN 1 ELSE 0
    BY <1>1, <1>2, <1>3 DEF VecTerms
  <2>2. f \in [Thread -> Nat]
    BY <1>1, TermsTyped DEF TermsOK
  <2>3. VecPlaces(v) = (IF F < v THEN 1 ELSE 0) + SumFunction(f)
    <3>1. SumFunction(f) \in Nat
      BY <1>4, <2>2, SumType
    <3>2. VecPlaces(v) = At(pool.vec, v) + 0 + SumFunction(f)
      BY <1>2 DEF VecPlaces, Total
    <3> HIDE DEF f
    <3> QED
      BY <1>1, <3>1, <3>2
  <2> HIDE DEF f
  <2>4. CASE F < v
    <3>1. \A t \in Thread : ~ (v <= BlockEnd(t))
      BY <1>4, <2>0, <2>4, Blocks
    <3>2. f \in [Thread -> {0}]
      <4>1. \A t \in Thread : f[t] = 0
        BY <2>1, <3>1
      <4> QED
        BY <2>2, <4>1
    <3>3. SumFunction(f) = 0
      BY <1>4, <3>2, SumZero
    <3> QED
      BY <2>3, <2>4, <3>3
  <2>5. CASE ~ (F < v)
    <3>1. v \in 1 .. F
      BY <1>4, <2>0, <2>5 DEF Vec
    <3>2. PICK t \in Thread : BlockEnd(t) < v + RsvCnt /\ v <= BlockEnd(t)
      BY <3>1, Blocks
    <3>3. \A u \in Thread \ {t} : f[u] = 0
      <4>1. TAKE u \in Thread \ {t}
      <4>2. BlockEnd(t) + RsvCnt <= BlockEnd(u) \/ BlockEnd(u) + RsvCnt <= BlockEnd(t)
        BY Blocks
      <4>3. ~ (BlockEnd(u) < v + RsvCnt /\ v <= BlockEnd(u))
        BY <1>4, <2>0, <3>2, <4>2
      <4> QED
        BY <2>1, <4>3
    <3>4. SumFunction(f) = f[t]
      BY <1>4, <2>2, <3>3, SumSingle
    <3>5. f[t] = 1
      BY <2>1, <3>2
    <3> QED
      BY <2>3, <2>5, <3>4, <3>5
  <2> QED
    BY <2>4, <2>5
<1>6. ASSUME NEW d \in Data PROVE DataPlaces(d) = 1
  <2> DEFINE f == DataTerms(d)
  <2>1. \A t \in Thread : f[t] = 0
    BY <1>1, <1>2, <1>3 DEF DataTerms
  <2>2. f \in [Thread -> {0}]
    BY <2>1 DEF DataTerms
  <2>3. SumFunction(f) = 0
    <3> HIDE DEF f
    <3> QED
      BY <1>4, <2>2, SumZero
  <2> HIDE DEF f
  <2>4. DataPlaces(d) = 1 + 0 + SumFunction(f)
    BY <1>1, <1>2 DEF DataPlaces, Total, f
  <2> QED
    BY <2>3, <2>4
<1> QED
  BY <1>5, <1>6, PlacesCounted
-----------------------------------------------------------------------------
(* The specification.                                                       *)

\* A step inside the sessions, or of them.
LEMMA OneStep ==
  ASSUME StateInv, tick \in Nat, [Next]_vars
  PROVE  UNCHANGED bufVars \/ \E t \in Thread : Stepped(t)
<1>1. CASE UNCHANGED vars
  BY <1>1 DEF vars, bufVars
<1>2. CASE Next
  <2>1. CASE Done /\ UNCHANGED vars
    BY <1>1, <2>1
  <2>2. ASSUME NEW t \in Thread, Spin(t) PROVE UNCHANGED vars
    BY <2>2 DEF Spin
  <2>3. ASSUME NEW t \in Thread, StartSession(t) \/ ExitStep(t) PROVE UNCHANGED bufVars
    BY <2>3 DEF StartSession, ExitStep
  <2>4. ASSUME NEW t \in Thread, NEW n \in 0 .. MaxNew, Publish(t, n) \/ LoseRace(t, n) \/ RunOut(t, n)
        PROVE  Stepped(t)
    BY <2>4, PublishDone, LoseRaceDone, RunOutDone
  <2>5. ASSUME NEW t \in Thread,
               \/ EndSession(t) \/ Enter(t) \/ Finish(t) \/ Unlink(t)
               \/ Retire(t) \/ HelpRetire(t) \/ Delete(t) \/ RetireData(t)
        PROVE  Stepped(t)
    BY <2>5, EndSessionDone, EnterDone, FinishDone, UnlinkDone, RetireDone, HelpRetireDone,
       DeleteDone, RetireDataDone
  <2> QED
    BY <1>1, <1>2, <2>1, <2>2, <2>3, <2>4, <2>5 DEF Next, Step
<1> QED
  BY <1>1, <1>2

\* The invariant is kept.
LEMMA StateStep ==
  ASSUME StateInv, tick \in Nat, [Next]_vars
  PROVE  StateInv'
<1>1. CASE UNCHANGED bufVars
  BY <1>1 DEF bufVars, StateInv, MemoryOK, WorkOK, ReserveInv, OwnVec, OwnData
<1>2. CASE \E t \in Thread : Stepped(t)
  BY <1>2 DEF Stepped
<1> QED
  BY <1>1, <1>2, OneStep

\* OnePlace in the next state.
LEMMA PlacesCountedNext ==
  OnePlace' <=> (Running' => /\ \A v \in Vec : VecPlaces(v)' = 1
                             /\ \A d \in Data : DataPlaces(d)' = 1)
<1>1. (OnePlace <=> (Running => /\ \A v \in Vec : VecPlaces(v) = 1
                                /\ \A d \in Data : DataPlaces(d) = 1))'
  BY PlacesCounted, PTL
<1> QED
  BY <1>1

\* No step loses a node or a data block, or puts one in a second place.
LEMMA PlacesStep ==
  ASSUME StateInv, StateInv', tick \in Nat, OnePlace, [Next]_vars
  PROVE  OnePlace'
<1>1. CASE UNCHANGED bufVars
  BY <1>1 DEF bufVars, OnePlace, VecOnePlace, DataOnePlace, Running, OwnVec, OwnData
<1>2. ASSUME NEW t \in Thread, Stepped(t) PROVE OnePlace'
  <2> SUFFICES ASSUME Running'
               PROVE  (\A v \in Vec : VecPlaces(v)' = 1) /\ (\A d \in Data : DataPlaces(d)' = 1)
    BY PlacesCountedNext
  <2>1. /\ phase[t] # "stuck"
        /\ \A u \in Thread \ {t} : buf'[u] = buf[u] /\ own'[u] = own[u] /\ phase'[u] = phase[u]
        /\ phase'[t] # "stuck" /\ Running /\ OnePlace => Balanced(t)
    BY <1>2 DEF Stepped
  <2>2. \A u \in Thread : phase'[u] # "stuck"
    BY DEF Running
  <2>3. Running
    BY <2>1, <2>2 DEF Running
  <2>4. Balanced(t)
    BY <2>1, <2>2, <2>3
  <2>5. (\A v \in Vec : VecPlaces(v) = 1) /\ (\A d \in Data : DataPlaces(d) = 1)
    BY <2>3, PlacesCounted
  <2>6. MemoryOK /\ MemoryOK'
    BY DEF StateInv
  <2>7. /\ \A v \in Vec : VecPlaces(v)' = VecPlaces(v)
        /\ \A d \in Data : DataPlaces(d)' = DataPlaces(d)
    BY <2>1, <2>4, <2>6, PlacesKept
  <2> QED
    BY <2>5, <2>7
<1> QED
  BY <1>1, <1>2, OneStep

\* What SptThread_proofs proves, of the sessions of the workers.
GraceProof == INSTANCE SptThread_proofs

\* What the steps of the sessions are.
LEMMA GraceSteps ==
  ASSUME [Next]_vars
  PROVE  \/ UNCHANGED graceVars
         \/ \E t \in Thread : \/ Grace!Start(t) /\ tick < MaxTick
                              \/ Grace!ExitClear(t) \/ Grace!Exit(t)
<1>1. UNCHANGED vars => UNCHANGED graceVars
  BY DEF vars, graceVars
<1>2. ASSUME NEW t \in Thread, Step(t)
      PROVE  \/ Grace!Start(t) /\ tick < MaxTick
             \/ Grace!ExitClear(t) \/ Grace!Exit(t) \/ UNCHANGED graceVars
  <2>1. StartSession(t) \/ EndSession(t) \/ ExitStep(t)
          => (Grace!Start(t) /\ tick < MaxTick) \/ Grace!ExitClear(t) \/ Grace!Exit(t)
    BY DEF StartSession, EndSession, ExitStep
  <2>2. Enter(t) => UNCHANGED graceVars
    BY DEF Enter, After
  <2>3. Finish(t) \/ Unlink(t) \/ Retire(t) \/ HelpRetire(t) \/ Delete(t) \/ RetireData(t)
          => UNCHANGED graceVars
    BY DEF Finish, Unlink, Retire, HelpRetire, Delete, RetireData, After
  <2>4. ASSUME NEW n \in 0 .. MaxNew, Publish(t, n) \/ LoseRace(t, n) \/ RunOut(t, n)
        PROVE  UNCHANGED graceVars
    BY <2>4 DEF Publish, LoseRace, RunOut, After
  <2> QED
    BY <1>2, <2>1, <2>2, <2>3, <2>4 DEF Step
<1> QED
  BY <1>1, <1>2 DEF Next, Spin

\* SptThread, and SptThread as SptThread_proofs extends it, are the same.
LEMMA GraceSame ==
  /\ GraceProof!ThreadAssumption /\ GraceProof!TickAssumption
  /\ Init => GraceProof!Init
  /\ [Next]_vars => [GraceProof!Next]_(GraceProof!vars)
  /\ GraceProof!TypeOK => Grace!TypeOK /\ tick \in Nat
<1>1. GraceProof!ThreadAssumption /\ GraceProof!TickAssumption
  BY SessionAssumption DEF Grace!ThreadAssumption, Grace!TickAssumption,
     GraceProof!ThreadAssumption, GraceProof!TickAssumption
<1>2. Init => GraceProof!Init
  BY DEF Init, Grace!Init, GraceProof!Init
<1>3. ASSUME NEW t \in Thread
      PROVE  /\ Grace!Start(t) => GraceProof!Start(t)
             /\ Grace!ExitClear(t) => GraceProof!ExitClear(t)
             /\ Grace!Exit(t) => GraceProof!Exit(t)
  <2> USE DEF Grace!Goto, GraceProof!Goto, Grace!Return, GraceProof!Return
  <2>1. /\ Grace!Start(t) => GraceProof!Start(t)
        /\ Grace!ExitClear(t) => GraceProof!ExitClear(t)
        /\ Grace!ExitClosing(t) => GraceProof!ExitClosing(t)
    BY DEF Grace!Start, GraceProof!Start, Grace!ExitClear, GraceProof!ExitClear,
           Grace!ExitClosing, GraceProof!ExitClosing
  <2>2. /\ Grace!ExitMask(t) => GraceProof!ExitMask(t)
        /\ Grace!ExitTick(t) => GraceProof!ExitTick(t)
        /\ Grace!ExitReset(t) => GraceProof!ExitReset(t)
    BY DEF Grace!ExitMask, GraceProof!ExitMask, Grace!ExitTick, GraceProof!ExitTick,
           Grace!ExitReset, GraceProof!ExitReset
  <2> QED
    BY <2>1, <2>2 DEF Grace!Exit, GraceProof!Exit
<1>4. [Next]_vars => [GraceProof!Next]_(GraceProof!vars)
  <2> SUFFICES ASSUME [Next]_vars PROVE GraceProof!Next \/ UNCHANGED GraceProof!vars
    OBVIOUS
  <2>1. UNCHANGED graceVars => UNCHANGED GraceProof!vars
    BY DEF graceVars, GraceProof!vars
  <2>2. ASSUME NEW t \in Thread, Grace!Start(t) \/ Grace!ExitClear(t) \/ Grace!Exit(t)
        PROVE  GraceProof!Next
    BY <1>3, <2>2 DEF GraceProof!Next, GraceProof!Exit
  <2> QED
    BY <2>1, <2>2, GraceSteps
<1>5. GraceProof!TypeOK => Grace!TypeOK /\ tick \in Nat
  BY DEF GraceProof!TypeOK, Grace!TypeOK, GraceProof!Tick, Grace!Tick,
     GraceProof!Control, Grace!Control
<1> QED
  BY <1>1, <1>2, <1>4, <1>5

\* The workers open and close their sessions as SptThread has them.
LEMMA SessionsTyped == Spec => [](Grace!TypeOK /\ tick \in Nat)
<1>1. Spec => GraceProof!Spec
  BY GraceSame, PTL DEF Spec, GraceProof!Spec
<1>2. GraceProof!Spec => []GraceProof!TypeOK
  BY GraceSame, GraceProof!TypeCorrect
<1> QED
  BY <1>1, <1>2, GraceSame, PTL

\* The invariant.
LEMMA StateInvariant == Spec => []StateInv
<1>1. StateInv /\ tick \in Nat /\ [Next]_vars => StateInv'
  BY StateStep
<1> QED
  BY <1>1, FirstState, SessionsTyped, PTL DEF Spec

\* The types are right, and no reserve grows beyond what a thread keeps.
THEOREM TypeCorrect == Spec => []TypeOK
<1>1. StateInv /\ Grace!TypeOK => TypeOK
  BY DEF StateInv, WorkOK, ReserveInv, TreeT, TypeOK
<1> QED
  BY <1>1, StateInvariant, SessionsTyped, PTL

\* Between two calls the reserve of a thread is whole, and the thread is never
\* stuck in the middle of one, as long as each of its refills found a node.
THEOREM ReserveIsWhole == Spec => []ReserveWhole
<1>1. StateInv => ReserveWhole
  BY DEF StateInv, ReserveInv, ReserveWhole
<1> QED
  BY <1>1, StateInvariant, PTL

\* No sequence of calls of any number of workers loses a node or a data block,
\* or has one in two places.
THEOREM EachInOnePlace == Spec => []OnePlace
<1>1. StateInv /\ StateInv' /\ tick \in Nat /\ OnePlace /\ [Next]_vars => OnePlace'
  BY PlacesStep
<1> QED
  BY <1>1, FirstPlaces, StateInvariant, SessionsTyped, PTL DEF Spec
-----------------------------------------------------------------------------
(* How the queues of a thread age.  The tick is below the modulus of the    *)
(* entries' ticks, so an entry's tick is the one it was queued at.          *)

TickFits == tick \in Nat /\ tick < BufMod

\* Two ticks have passed since e was queued.
Old(e) == e.tick + 2 <= tick

\* A queue whose entries are S: none is ahead of the tick, and an id was taken
\* from an old entry only.
Timely(S) == \A e \in S : e.tick <= tick /\ (e.id = Nil => Old(e))
Sound(m) == Timely(Range(m.vq)) /\ Timely(Range(m.dq))

\* From S to T: what comes is of this tick, what goes is old, and so is an
\* entry whose id goes.
Aging(S, T) ==
  /\ \A e \in T : \/ e.tick = tick /\ e.id # Nil
                  \/ e \in S
                  \/ \E d \in S : Old(d) /\ e.id = Nil /\ e.node = d.node /\ e.tick = d.tick
  /\ \A e \in S : Old(e) \/ e \in T
Ages(m, r) == Aging(Range(m.vq), Range(r.vq)) /\ Aging(Range(m.dq), Range(r.dq))

\* r is what some work on m leaves, as far as the ages tell.
Older(m, r) == Sound(m) => Sound(r) /\ Ages(m, r)

\* A queue's entries are aged one work after the other.
LEMMA AgingTwice ==
  ASSUME TickFits, NEW S, NEW T, NEW U, Aging(S, T), Aging(T, U)
  PROVE  Aging(S, U)
<1>1. \A e : e.tick = tick => ~ Old(e)
  BY DEF TickFits, Old
<1>2. ASSUME NEW e \in U
      PROVE  \/ e.tick = tick /\ e.id # Nil
             \/ e \in S
             \/ \E d \in S : Old(d) /\ e.id = Nil /\ e.node = d.node /\ e.tick = d.tick
  <2>1. CASE e \in T
    BY <2>1 DEF Aging
  <2>2. CASE \E d \in T : Old(d) /\ e.id = Nil /\ e.node = d.node /\ e.tick = d.tick
    <3>1. PICK d \in T : Old(d) /\ e.id = Nil /\ e.node = d.node /\ e.tick = d.tick
      BY <2>2
    <3>2. d \in S \/ \E c \in S : Old(c) /\ d.id = Nil /\ d.node = c.node /\ d.tick = c.tick
      BY <1>1, <3>1 DEF Aging
    <3> QED
      BY <3>1, <3>2
  <2> QED
    BY <2>1, <2>2 DEF Aging
<1>3. \A e \in S : Old(e) \/ e \in U
  BY DEF Aging
<1> QED
  BY <1>2, <1>3 DEF Aging

\* A timely queue stays timely.
LEMMA AgingTimely ==
  ASSUME TickFits, NEW S, NEW T, Timely(S), Aging(S, T)
  PROVE  Timely(T)
BY DEF TickFits, Timely, Aging, Old

\* What a work has to show.
LEMMA OlderBy ==
  ASSUME TickFits, NEW m, NEW r, Sound(m) => Ages(m, r)
  PROVE  Older(m, r)
BY AgingTimely DEF Sound, Ages, Older

\* One work after the other.
LEMMA OlderTwice ==
  ASSUME TickFits, NEW m, NEW x, NEW r, Older(m, x), Older(x, r)
  PROVE  Older(m, r)
BY AgingTwice DEF Ages, Older

\* Work that leaves the queues alone.
LEMMA OlderSame ==
  ASSUME NEW m, NEW r, r.vq = m.vq, r.dq = m.dq
  PROVE  Older(m, r)
BY DEF Older, Ages, Aging, Sound

\* The age of an entry that is not ahead of the tick.
LEMMA AgedOld ==
  ASSUME TickFits, NEW e, e.tick \in Nat, e.tick <= tick
  PROVE  Aged(e) => Old(e)
<1>1. Now = tick /\ BufMod \in Nat
  BY BufAssumption DEF TickFits, Now
<1>2. Age(e) = tick - e.tick
  <2>1. ~ (Now < e.tick) /\ Now - e.tick = tick - e.tick
    BY <1>1 DEF TickFits
  <2> QED
    BY <2>1 DEF Age
<1> QED
  BY <1>2 DEF Aged, Old, TickFits

\* The entries of a queue, and of the queue without its first.
LEMMA RangeTail ==
  ASSUME NEW S, NEW q \in Seq(S), q # <<>>
  PROVE  /\ q[1] \in S /\ Range(Tail(q)) \subseteq Range(q) /\ Range(q) \subseteq S
         /\ q[1] \in Range(q) /\ \A e \in Range(q) : e = q[1] \/ e \in Range(Tail(q))
<1>1. /\ Len(q) \in Nat \ {0} /\ DOMAIN q = 1 .. Len(q) /\ \A i \in 1 .. Len(q) : q[i] \in S
      /\ DOMAIN Tail(q) = 1 .. (Len(q) - 1)
      /\ \A i \in 1 .. (Len(q) - 1) : Tail(q)[i] = q[i + 1]
  OBVIOUS
<1>2. Range(q) = {q[i] : i \in 1 .. Len(q)}
  BY <1>1 DEF Range
<1>3. Range(Tail(q)) = {q[i + 1] : i \in 1 .. (Len(q) - 1)}
  BY <1>1 DEF Range
<1>4. 1 \in 1 .. Len(q) /\ \A i \in 1 .. (Len(q) - 1) : i + 1 \in 1 .. Len(q)
  BY <1>1
<1>5. \A i \in 1 .. Len(q) : i # 1 => i - 1 \in 1 .. (Len(q) - 1) /\ (i - 1) + 1 = i
  BY <1>1
<1>6. q[1] \in S /\ q[1] \in Range(q) /\ Range(q) \subseteq S
  BY <1>1, <1>2, <1>4
<1>7. Range(Tail(q)) \subseteq Range(q)
  BY <1>2, <1>3, <1>4
<1>8. ASSUME NEW e \in Range(q) PROVE e = q[1] \/ e \in Range(Tail(q))
  <2>1. PICK i \in 1 .. Len(q) : e = q[i]
    BY <1>2
  <2>2. i # 1 => e = q[(i - 1) + 1] /\ i - 1 \in 1 .. (Len(q) - 1)
    BY <1>5, <2>1
  <2> QED
    BY <1>3, <2>1, <2>2
<1> QED
  BY <1>6, <1>7, <1>8

\* A queue without its first entry, which is old.
LEMMA TailAging ==
  ASSUME NEW S, NEW q \in Seq(S), q # <<>>, Old(q[1])
  PROVE  Aging(Range(q), Range(Tail(q)))
BY RangeTail DEF Aging

\* The first entry of a queue.
LEMMA FirstTimely ==
  ASSUME TickFits, NEW S, \A e \in S : e.tick \in Nat, NEW q \in Seq(S), q # <<>>, Timely(Range(q))
  PROVE  /\ q[1].id = Nil \/ Aged(q[1]) => Old(q[1])
         /\ q[1].tick \in Nat /\ q[1].tick <= tick
<1>1. q[1] \in S /\ q[1] \in Range(q)
  BY RangeTail
<1>2. q[1].tick \in Nat /\ q[1].tick <= tick /\ (q[1].id = Nil => Old(q[1]))
  BY <1>1 DEF Timely
<1> QED
  BY <1>2, AgedOld

\* A queue whose first entry's id is taken.
LEMMA TakenAging ==
  ASSUME NEW q \in Seq(VecEntry), q # <<>>, Old(q[1])
  PROVE  Aging(Range(q), Range([q EXCEPT ![1].id = Nil]))
<1> DEFINE z == [q[1] EXCEPT !.id = Nil]
           r == [q EXCEPT ![1] = z]
<1>1. Len(q) \in Nat \ {0} /\ DOMAIN q = 1 .. Len(q) /\ \A i \in 1 .. Len(q) : q[i] \in VecEntry
  OBVIOUS
<1>2. q[1] \in VecEntry
  BY <1>1
<1>3. z.id = Nil /\ z.node = q[1].node /\ z.tick = q[1].tick
  BY <1>2 DEF VecEntry
<1> HIDE DEF z
<1>4. DOMAIN r = 1 .. Len(q) /\ \A i \in 1 .. Len(q) : r[i] = IF i = 1 THEN z ELSE q[i]
  BY <1>1
<1> HIDE DEF r
<1>5. /\ \A e \in Range(r) : e = z \/ e \in Range(q)
      /\ \A e \in Range(q) : e = q[1] \/ e \in Range(r)
      /\ q[1] \in Range(q)
  BY <1>1, <1>4 DEF Range
<1>6. Aging(Range(q), Range(r))
  BY <1>3, <1>5 DEF Aging
<1> QED
  BY <1>6 DEF r, z

\* vec_alloc_combo takes an entry's id, or its node, when it is old.
LEMMA VecAllocAges ==
  ASSUME TickFits, NEW m \in MemT
  PROVE  Older(m, VecAlloc(m).m)
<1>1. m.vq \in Seq(VecEntry) /\ \A e \in VecEntry : e.tick \in Nat
  BY DEF MemT, VecEntry
<1> SUFFICES ASSUME Sound(m) PROVE Ages(m, VecAlloc(m).m)
  BY OlderBy
<1>2. m.vq # <<>> => (m.vq[1].id = Nil \/ Aged(m.vq[1]) => Old(m.vq[1]))
  BY <1>1, FirstTimely DEF Sound
<1>3. Aging(Range(m.dq), Range(m.dq)) /\ Aging(Range(m.vq), Range(m.vq))
  BY DEF Aging
<1>4. CASE m.vq # <<>> /\ m.vq[1].id = Nil
  <2>1. VecAlloc(m).m = [m EXCEPT !.vq = Tail(@)]
    BY <1>4 DEF VecAlloc, Got
  <2>2. VecAlloc(m).m.vq = Tail(m.vq) /\ VecAlloc(m).m.dq = m.dq
    BY <2>1 DEF MemT
  <2> QED
    BY <1>1, <1>2, <1>3, <1>4, <2>2, TailAging DEF Ages
<1>5. CASE m.vq # <<>> /\ m.vq[1].id # Nil /\ Aged(m.vq[1])
  <2> DEFINE q == [m.vq EXCEPT ![1].id = Nil]
  <2>1. VecAlloc(m).m = [m EXCEPT !.vq = q]
    BY <1>5 DEF VecAlloc, Got
  <2>2. Aging(Range(m.vq), Range(q))
    BY <1>1, <1>2, <1>5, TakenAging
  <2> HIDE DEF q
  <2>3. VecAlloc(m).m.vq = q /\ VecAlloc(m).m.dq = m.dq
    BY <2>1 DEF MemT
  <2> QED
    BY <1>3, <2>2, <2>3 DEF Ages
<1>6. CASE ~ (m.vq # <<>> /\ (m.vq[1].id = Nil \/ Aged(m.vq[1])))
  <2>1. VecAlloc(m).m = m \/ VecAlloc(m).m = [m EXCEPT !.vec = Tail(@)]
    BY <1>6 DEF VecAlloc, Got
  <2>2. VecAlloc(m).m.vq = m.vq /\ VecAlloc(m).m.dq = m.dq
    BY <2>1 DEF MemT
  <2> QED
    BY <1>3, <2>2 DEF Ages
<1> QED
  BY <1>4, <1>5, <1>6

\* data_alloc_combo takes an entry when it is old.
LEMMA DataAllocAges ==
  ASSUME TickFits, NEW m \in MemT
  PROVE  Older(m, DataAlloc(m).m)
<1>1. m.dq \in Seq(DataEntry) /\ \A e \in DataEntry : e.tick \in Nat
  BY DEF MemT, DataEntry
<1> SUFFICES ASSUME Sound(m) PROVE Ages(m, DataAlloc(m).m)
  BY OlderBy
<1>2. m.dq # <<>> => (m.dq[1].id = Nil \/ Aged(m.dq[1]) => Old(m.dq[1]))
  BY <1>1, FirstTimely DEF Sound
<1>3. Aging(Range(m.dq), Range(m.dq)) /\ Aging(Range(m.vq), Range(m.vq))
  BY DEF Aging
<1>4. CASE m.dq # <<>> /\ Aged(m.dq[1])
  <2>1. DataAlloc(m).m = [m EXCEPT !.dq = Tail(@), !.vec = <<m.dq[1].node>> \o @]
    BY <1>4 DEF DataAlloc, Got
  <2>2. DataAlloc(m).m.dq = Tail(m.dq) /\ DataAlloc(m).m.vq = m.vq
    BY <2>1 DEF MemT
  <2> QED
    BY <1>1, <1>2, <1>3, <1>4, <2>2, TailAging DEF Ages
<1>5. CASE ~ (m.dq # <<>> /\ Aged(m.dq[1]))
  <2>1. DataAlloc(m).m = m \/ DataAlloc(m).m = [m EXCEPT !.data = Tail(@)]
    BY <1>5 DEF DataAlloc, Got
  <2>2. DataAlloc(m).m.dq = m.dq /\ DataAlloc(m).m.vq = m.vq
    BY <2>1 DEF MemT
  <2> QED
    BY <1>3, <2>2 DEF Ages
<1> QED
  BY <1>4, <1>5

\* A queue without its oldest entries.
LEMMA DropAging ==
  ASSUME NEW S, NEW q \in Seq(S), NEW n \in 0 .. Len(q), \A i \in 1 .. n : Old(q[i])
  PROVE  Aging(Range(q), Range(Drop(q, n)))
<1>1. Len(q) \in Nat /\ DOMAIN q = 1 .. Len(q) /\ \A i \in 1 .. Len(q) : q[i] \in S
  OBVIOUS
<1>2. /\ DOMAIN Drop(q, n) = 1 .. (Len(q) - n)
      /\ \A i \in 1 .. (Len(q) - n) : Drop(q, n)[i] = q[i + n] /\ i + n \in 1 .. Len(q)
  BY <1>1 DEF Drop
<1>3. Range(q) = {q[i] : i \in 1 .. Len(q)}
  BY <1>1 DEF Range
<1>4. Range(Drop(q, n)) = {q[i + n] : i \in 1 .. (Len(q) - n)}
  BY <1>2 DEF Range
<1>5. \A e \in Range(Drop(q, n)) : e \in Range(q)
  BY <1>2, <1>3, <1>4
<1>6. ASSUME NEW e \in Range(q) PROVE Old(e) \/ e \in Range(Drop(q, n))
  <2>1. PICK i \in 1 .. Len(q) : e = q[i]
    BY <1>3
  <2>2. CASE i <= n
    <3>1. i \in 1 .. n
      BY <1>1, <2>2
    <3> QED
      BY <2>1, <3>1
  <2>3. CASE i > n
    <3>1. i - n \in 1 .. (Len(q) - n) /\ (i - n) + n = i
      BY <1>1, <2>3
    <3> QED
      BY <1>4, <2>1, <3>1
  <2> QED
    BY <1>1, <2>2, <2>3
<1> QED
  BY <1>5, <1>6 DEF Aging

\* The sweep takes old entries: none is ahead of the tick, so no lap is added.
LEMMA SweptOld ==
  ASSUME TickFits, NEW S, \A e \in S : e.tick \in Nat, NEW q \in Seq(S), Timely(Range(q))
  PROVE  Aging(Range(q), Range(Drop(q, Swept(q))))
<1>1. Len(q) \in Nat /\ DOMAIN q = 1 .. Len(q) /\ \A i \in 1 .. Len(q) : q[i] \in S
  OBVIOUS
<1>2. Swept(q) \in 0 .. Len(q) /\ \A i \in 1 .. Swept(q) : SweptAge(q, i) >= 2
  BY SweptBound
<1>3. \A i \in 1 .. Len(q) : q[i].tick \in Nat /\ q[i].tick <= tick
  BY <1>1 DEF Timely, Range
<1>4. Now = tick /\ BufMod \in Nat /\ tick \in Nat
  BY BufAssumption DEF TickFits, Now
<1>5. ASSUME NEW i \in 1 .. Swept(q) PROVE Old(q[i])
  <2>1. i \in 1 .. Len(q) /\ \A j \in 1 .. i : j \in 1 .. Len(q)
    BY <1>1, <1>2
  <2>2. ~ \E j \in 1 .. i : Now < q[j].tick
    BY <1>3, <1>4, <2>1
  <2>3. SweptAge(q, i) = tick - q[i].tick
    BY <1>4, <2>2 DEF SweptAge
  <2>4. SweptAge(q, i) >= 2 /\ q[i].tick \in Nat
    BY <1>2, <1>3, <2>1
  <2> QED
    BY <1>4, <2>3, <2>4 DEF Old
<1> QED
  BY <1>2, <1>5, DropAging

\* vec_buf_free
LEMMA SweepVecAges ==
  ASSUME TickFits, NEW m \in MemT
  PROVE  Older(m, SweepVec(m))
<1>1. m.vq \in Seq(VecEntry) /\ \A e \in VecEntry : e.tick \in Nat
  BY DEF MemT, VecEntry
<1>2. SweepVec(m).vq = Drop(m.vq, Swept(m.vq)) /\ SweepVec(m).dq = m.dq
  BY DEF SweepVec, MemT
<1>3. Aging(Range(m.dq), Range(m.dq))
  BY DEF Aging
<1>4. Sound(m) => Ages(m, SweepVec(m))
  BY <1>1, <1>2, <1>3, SweptOld DEF Sound, Ages
<1> QED
  BY <1>4, OlderBy

\* db_buf_free
LEMMA SweepDataAges ==
  ASSUME TickFits, NEW m \in MemT
  PROVE  Older(m, SweepData(m))
<1>1. m.dq \in Seq(DataEntry) /\ \A e \in DataEntry : e.tick \in Nat
  BY DEF MemT, DataEntry
<1>2. SweepData(m).dq = Drop(m.dq, Swept(m.dq)) /\ SweepData(m).vq = m.vq
  BY DEF SweepData, MemT
<1>3. Aging(Range(m.vq), Range(m.vq))
  BY DEF Aging
<1>4. Sound(m) => Ages(m, SweepData(m))
  BY <1>1, <1>2, <1>3, SweptOld DEF Sound, Ages
<1> QED
  BY <1>4, OlderBy

\* A sweep, if the queue is longer than its mark.
LEMMA MaybeSweepAges ==
  ASSUME TickFits, NEW m \in MemT
  PROVE  Older(m, MaybeSweepVec(m)) /\ Older(m, MaybeSweepData(m))
BY OlderSame, SweepVecAges, SweepDataAges DEF MaybeSweepVec, MaybeSweepData

\* One node for the reserve.
LEMMA RestockAges ==
  ASSUME TickFits, NEW x \in MemT
  PROVE  Older(x, Restock(x))
<1> DEFINE y == VecAlloc(x).m
<1>1. y \in MemT
  BY VecAllocGives DEF Gives
<1>2. Older(x, y)
  BY VecAllocAges
<1>3. Restock(x) = y \/ Restock(x) = [y EXCEPT !.rsv = <<VecAlloc(x).id>> \o @]
  BY DEF Restock
<1> HIDE DEF y
<1>4. Restock(x).vq = y.vq /\ Restock(x).dq = y.dq
  BY <1>1, <1>3 DEF MemT
<1>5. Older(y, Restock(x))
  BY <1>4, OlderSame
<1> QED
  BY <1>2, <1>5, OlderTwice

\* fill_in_rsv_list_simple
LEMMA RefillAges ==
  ASSUME TickFits, NEW m \in MemT, NEW nr \in Nat
  PROVE  Older(m, Refill(m, nr))
<1> DEFINE T == [k \in 0 .. nr |-> {x \in MemT : Older(m, x)}]
<1>1. PICK fill : /\ fill \in [0 .. nr -> MemT] /\ fill[0] = m /\ Refill(m, nr) = fill[nr]
                  /\ \A k \in 1 .. nr : fill[k] = Restock(fill[k - 1])
  BY RefillChain
<1>2. fill[0] \in T[0]
  BY <1>1, OlderSame
<1>3. ASSUME NEW k \in 1 .. nr, fill[k - 1] \in T[k - 1] PROVE fill[k] \in T[k]
  <2> DEFINE x == fill[k - 1]
  <2>1. k \in 0 .. nr /\ k - 1 \in 0 .. nr /\ fill[k] = Restock(x) /\ fill[k] \in MemT
    BY <1>1
  <2>2. x \in MemT /\ Older(m, x)
    BY <1>3, <2>1
  <2> HIDE DEF x
  <2>3. Older(m, Restock(x))
    BY <2>2, OlderTwice, RestockAges
  <2> QED
    BY <2>1, <2>3
<1>4. fill[nr] \in T[nr] /\ nr \in 0 .. nr
  <2> HIDE DEF T
  <2>1. \A k \in 0 .. nr : fill[k] \in T[k]
    BY <1>2, <1>3, FoldClimbs
  <2> QED
    BY <2>1
<1> QED
  BY <1>1, <1>4

\* The end of a call.
LEMMA EndingAges ==
  ASSUME TickFits, NEW m \in MemT, NEW nr \in Nat, NEW over
  PROVE  Older(m, Ending(m, nr, over))
<1> DEFINE x == Refill(m, nr)
           r == Ending(m, nr, over)
<1>1. x \in MemT /\ Older(m, x)
  BY RefillKeeps, RefillAges
<1>2. r.vq = x.vq /\ r.dq = x.dq
  <2> HIDE DEF x
  <2>1. \A c, w, f : LET z == [x EXCEPT !.code = c, !.wait = w, !.nomem = f]
                     IN z.vq = x.vq /\ z.dq = x.dq
    BY <1>1 DEF MemT
  <2> QED
    BY <2>1 DEF Ending, x
<1> HIDE DEF x, r
<1>3. Older(x, r)
  BY <1>2, OlderSame
<1>4. Older(m, r)
  BY <1>1, <1>3, OlderTwice
<1> QED
  BY <1>4 DEF r

\* fill_in_rsv_list
LEMMA FillInAges ==
  ASSUME TickFits, NEW m \in MemT, NEW nr \in Nat
  PROVE  Older(m, FillIn(m, nr))
<1> DEFINE a == MaybeSweepVec(m)
           b == MaybeSweepData(a)
           r == Ending(b, nr, OverVec(b) \/ OverData(b))
<1>1. FillIn(m, nr) = r
  BY DEF FillIn
<1>2. a \in MemT /\ Older(m, a)
  BY MaybeSweepKeeps, MaybeSweepAges
<1> HIDE DEF a
<1>3. b \in MemT /\ Older(a, b)
  BY <1>2, MaybeSweepKeeps, MaybeSweepAges
<1> HIDE DEF b
<1>4. Older(b, r)
  BY <1>3, EndingAges
<1> HIDE DEF r
<1>5. Older(m, r)
  BY <1>2, <1>3, <1>4, OlderTwice
<1> QED
  BY <1>1, <1>5

\* The id was queued at this tick.
JustIn(S, id) == \E e \in S : e.id = id /\ e.tick = tick

\* What was just queued is still in the queue after any work on it.
LEMMA StaysIn ==
  ASSUME TickFits, NEW S, NEW T, Aging(S, T), NEW id, JustIn(S, id)
  PROVE  JustIn(T, id)
<1>1. \A e : e.tick = tick => ~ Old(e)
  BY DEF TickFits, Old
<1> QED
  BY <1>1 DEF Aging, JustIn

\* A new entry.
LEMMA AppendAging ==
  ASSUME NEW S, NEW q \in Seq(S), NEW e \in S, e.tick = tick, e.id # Nil
  PROVE  Aging(Range(q), Range(Append(q, e))) /\ JustIn(Range(Append(q, e)), e.id)
<1>1. Len(q) \in Nat /\ DOMAIN q = 1 .. Len(q)
  OBVIOUS
<1>2. /\ DOMAIN Append(q, e) = 1 .. (Len(q) + 1)
      /\ \A i \in 1 .. (Len(q) + 1) : Append(q, e)[i] = IF i = Len(q) + 1 THEN e ELSE q[i]
  OBVIOUS
<1>3. /\ \A i \in 1 .. (Len(q) + 1) : i # Len(q) + 1 => i \in 1 .. Len(q)
      /\ \A i \in 1 .. Len(q) : i \in 1 .. (Len(q) + 1) /\ i # Len(q) + 1
      /\ Len(q) + 1 \in 1 .. (Len(q) + 1)
  BY <1>1
<1>4. /\ \A x \in Range(Append(q, e)) : x = e \/ x \in Range(q)
      /\ \A x \in Range(q) : x \in Range(Append(q, e))
      /\ e \in Range(Append(q, e))
  BY <1>1, <1>2, <1>3 DEF Range
<1> QED
  BY <1>4 DEF Aging, JustIn

\* The tick of a new entry.
LEMMA EntryTick ==
  ASSUME TickFits, NEW m, NEW id
  PROVE  Entry(m, id).tick = tick
<1>1. Now = tick
  BY BufAssumption DEF TickFits, Now
<1> QED
  BY <1>1 DEF Entry

\* vec_free_to_buf_simple
LEMMA VecRetireAges ==
  ASSUME TickFits, NEW m \in MemT, NEW id \in Vec
  PROVE  /\ Older(m, VecRetire(m, id))
         /\ m.rsv # <<>> => JustIn(Range(VecRetire(m, id).vq), id)
<1>1. CASE m.rsv = <<>>
  <2>1. VecRetire(m, id) = [m EXCEPT !.dry = TRUE]
    BY <1>1 DEF VecRetire
  <2>2. VecRetire(m, id).vq = m.vq /\ VecRetire(m, id).dq = m.dq
    BY <2>1 DEF MemT
  <2> QED
    BY <1>1, <2>2, OlderSame
<1>2. CASE m.rsv # <<>>
  <2> DEFINE e == Entry(m, id)
             q == Append(m.vq, e)
  <2>1. VecRetire(m, id) = [m EXCEPT !.rsv = Tail(@), !.vq = q]
    BY <1>2 DEF VecRetire
  <2>2. e \in VecEntry /\ e.id = id /\ e.tick = tick /\ id # Nil
    BY <1>2, EntryType, EntryTick, NotNil DEF TickFits
  <2>3. m.vq \in Seq(VecEntry)
    BY DEF MemT
  <2> HIDE DEF e
  <2>4. Aging(Range(m.vq), Range(q)) /\ JustIn(Range(q), id)
    BY <2>2, <2>3, AppendAging
  <2> HIDE DEF q
  <2>5. VecRetire(m, id).vq = q /\ VecRetire(m, id).dq = m.dq
    BY <2>1 DEF MemT
  <2>6. Sound(m) => Ages(m, VecRetire(m, id))
    BY <2>4, <2>5 DEF Ages, Aging
  <2> QED
    BY <2>4, <2>5, <2>6, OlderBy
<1> QED
  BY <1>1, <1>2

\* db_free_to_buf_simple
LEMMA DataRetireAges ==
  ASSUME TickFits, NEW m \in MemT, NEW id \in Data
  PROVE  /\ Older(m, DataRetire(m, id))
         /\ m.rsv # <<>> => JustIn(Range(DataRetire(m, id).dq), id)
<1>1. CASE m.rsv = <<>>
  <2>1. DataRetire(m, id) = [m EXCEPT !.dry = TRUE]
    BY <1>1 DEF DataRetire
  <2>2. DataRetire(m, id).vq = m.vq /\ DataRetire(m, id).dq = m.dq
    BY <2>1 DEF MemT
  <2> QED
    BY <1>1, <2>2, OlderSame
<1>2. CASE m.rsv # <<>>
  <2> DEFINE e == Entry(m, id)
             q == Append(m.dq, e)
  <2>1. DataRetire(m, id) = [m EXCEPT !.rsv = Tail(@), !.dq = q]
    BY <1>2 DEF DataRetire
  <2>2. e \in DataEntry /\ e.id = id /\ e.tick = tick /\ id # Nil
    <3>1. id # Nil
      BY BufAssumption DEF Data, Nil
    <3> QED
      BY <1>2, <3>1, EntryType, EntryTick DEF TickFits
  <2>3. m.dq \in Seq(DataEntry)
    BY DEF MemT
  <2> HIDE DEF e
  <2>4. Aging(Range(m.dq), Range(q)) /\ JustIn(Range(q), id)
    BY <2>2, <2>3, AppendAging
  <2> HIDE DEF q
  <2>5. DataRetire(m, id).dq = q /\ DataRetire(m, id).vq = m.vq
    BY <2>1 DEF MemT
  <2>6. Sound(m) => Ages(m, DataRetire(m, id))
    BY <2>4, <2>5 DEF Ages, Aging
  <2> QED
    BY <2>4, <2>5, <2>6, OlderBy
<1> QED
  BY <1>1, <1>2

\* vec_free_to_buf: the node it was given is in the queue.
LEMMA VecFreeAges ==
  ASSUME TickFits, NEW m \in MemT, NEW id \in Vec
  PROVE  /\ Older(m, VecFree(m, id))
         /\ Sound(m) /\ m.rsv # <<>> => JustIn(Range(VecFree(m, id).vq), id)
<1> DEFINE a == VecRetire(m, id)
           b == MaybeSweepVec(a)
           r == Ending(b, 1, OverVec(b))
<1>1. VecFree(m, id) = r
  BY DEF VecFree
<1>2. a \in MemT /\ Older(m, a) /\ (m.rsv # <<>> => JustIn(Range(a.vq), id))
  <2>1. a \in MemT
    BY VecRetireQueues DEF Queued, TickFits
  <2> QED
    BY <2>1, VecRetireAges
<1> HIDE DEF a
<1>3. b \in MemT /\ Older(a, b)
  BY <1>2, MaybeSweepKeeps, MaybeSweepAges
<1> HIDE DEF b
<1>4. Older(b, r)
  BY <1>3, EndingAges
<1> HIDE DEF r
<1>5. Older(a, r) /\ Older(m, r)
  BY <1>2, <1>3, <1>4, OlderTwice
<1>6. Sound(m) /\ m.rsv # <<>> => JustIn(Range(r.vq), id)
  BY <1>2, <1>5, StaysIn DEF Older, Ages
<1> QED
  BY <1>1, <1>5, <1>6

\* db_free_to_buf: so is the data block.
LEMMA DataFreeAges ==
  ASSUME TickFits, NEW m \in MemT, NEW id \in Data
  PROVE  /\ Older(m, DataFree(m, id))
         /\ Sound(m) /\ m.rsv # <<>> => JustIn(Range(DataFree(m, id).dq), id)
<1> DEFINE a == DataRetire(m, id)
           b == MaybeSweepData(a)
           r == Ending(b, 1, OverData(b))
<1>1. DataFree(m, id) = r
  BY DEF DataFree
<1>2. a \in MemT /\ Older(m, a) /\ (m.rsv # <<>> => JustIn(Range(a.dq), id))
  <2>1. a \in MemT
    BY DataRetireQueues DEF Queued, TickFits
  <2> QED
    BY <2>1, DataRetireAges
<1> HIDE DEF a
<1>3. b \in MemT /\ Older(a, b)
  BY <1>2, MaybeSweepKeeps, MaybeSweepAges
<1> HIDE DEF b
<1>4. Older(b, r)
  BY <1>3, EndingAges
<1> HIDE DEF r
<1>5. Older(a, r) /\ Older(m, r)
  BY <1>2, <1>3, <1>4, OlderTwice
<1>6. Sound(m) /\ m.rsv # <<>> => JustIn(Range(r.dq), id)
  BY <1>2, <1>5, StaysIn DEF Older, Ages
<1> QED
  BY <1>1, <1>5, <1>6

\* The data block and the nodes of an insertion.
LEMMA AllocatedAges ==
  ASSUME TickFits, NEW t, Mem(t) \in MemT, NEW n \in Nat
  PROVE  Older(Mem(t), Allocated(t, n).m)
<1>1. PICK v : /\ v[0] = DataAlloc(Mem(t)) /\ \A k \in 1 .. n : v[k] = VecAlloc(v[k - 1].m)
               /\ \A k \in 0 .. n : v[k].m \in MemT
               /\ Allocated(t, n)
                    = [data |-> v[0].id, vecs |-> [i \in 1 .. n |-> v[i].id], m |-> v[n].m]
  BY AllocChain
<1> DEFINE T == [k \in 0 .. n |-> {y \in {v[k]} : Older(Mem(t), y.m)}]
<1>2. v[0] \in T[0]
  BY <1>1, DataAllocAges
<1>3. ASSUME NEW k \in 1 .. n, v[k - 1] \in T[k - 1] PROVE v[k] \in T[k]
  <2>1. k \in 0 .. n /\ k - 1 \in 0 .. n
    OBVIOUS
  <2>2. Older(Mem(t), v[k - 1].m) /\ v[k - 1].m \in MemT /\ v[k].m = VecAlloc(v[k - 1].m).m
    BY <1>1, <1>3, <2>1
  <2>3. Older(v[k - 1].m, v[k].m)
    BY <2>2, VecAllocAges
  <2>4. Older(Mem(t), v[k].m)
    BY <2>2, <2>3, OlderTwice
  <2> QED
    BY <2>1, <2>4
<1>4. v[n] \in T[n] /\ n \in 0 .. n
  <2> HIDE DEF T
  <2>1. \A k \in 0 .. n : v[k] \in T[k]
    BY <1>2, <1>3, FoldClimbs
  <2> QED
    BY <2>1
<1>5. Allocated(t, n).m = v[n].m
  BY <1>1
<1> QED
  BY <1>4, <1>5

\* The nodes of a lost race.
LEMMA RetireFoldAges ==
  ASSUME TickFits, NEW m \in MemT, NEW ids \in Seq(Vec)
  PROVE  Older(m, FoldLeft(VecRetire, m, ids))
<1>1. tick \in Nat
  BY DEF TickFits
<1>2. PICK h : /\ h[0] = m /\ \A k \in 1 .. Len(ids) : h[k] = VecRetire(h[k - 1], ids[k])
               /\ \A k \in 0 .. Len(ids) : h[k] \in MemT
               /\ FoldLeft(VecRetire, m, ids) = h[Len(ids)]
  BY <1>1, RetireChain
<1> DEFINE n == Len(ids)
           T == [k \in 0 .. n |-> {x \in MemT : Older(m, x)}]
<1>3. n \in Nat /\ \A k \in 1 .. n : ids[k] \in Vec
  OBVIOUS
<1>4. /\ h[0] = m /\ \A k \in 1 .. n : h[k] = VecRetire(h[k - 1], ids[k])
      /\ \A k \in 0 .. n : h[k] \in MemT
      /\ FoldLeft(VecRetire, m, ids) = h[n]
  BY <1>2
<1> HIDE DEF n
<1>5. h[0] \in T[0]
  BY <1>3, <1>4, OlderSame
<1>6. ASSUME NEW k \in 1 .. n, h[k - 1] \in T[k - 1] PROVE h[k] \in T[k]
  <2>1. k \in 0 .. n /\ k - 1 \in 0 .. n
    BY <1>3
  <2>2. Older(m, h[k - 1]) /\ h[k - 1] \in MemT /\ h[k] = VecRetire(h[k - 1], ids[k])
        /\ h[k] \in MemT /\ ids[k] \in Vec
    BY <1>3, <1>4, <1>6, <2>1
  <2>3. Older(h[k - 1], h[k])
    BY <2>2, VecRetireAges
  <2>4. Older(m, h[k])
    BY <2>2, <2>3, OlderTwice
  <2> QED
    BY <2>1, <2>2, <2>4
<1>7. h[n] \in T[n] /\ n \in 0 .. n
  <2> HIDE DEF T
  <2>1. \A k \in 0 .. n : h[k] \in T[k]
    BY <1>3, <1>5, <1>6, FoldClimbs
  <2> QED
    BY <1>3, <2>1
<1> QED
  BY <1>4, <1>7

\* What an insertion that ran out of memory gives back.
LEMMA GiveFoldAges ==
  ASSUME TickFits, NEW m \in MemT, NEW ids \in Seq(0 .. NVec)
  PROVE  Older(m, FoldLeft(GiveBack, m, ids))
<1>1. tick \in Nat
  BY DEF TickFits
<1>2. PICK h : /\ h[0] = m /\ \A k \in 1 .. Len(ids) : h[k] = GiveBack(h[k - 1], ids[k])
               /\ \A k \in 0 .. Len(ids) : h[k] \in MemT
               /\ FoldLeft(GiveBack, m, ids) = h[Len(ids)]
  BY <1>1, GiveChain
<1> DEFINE n == Len(ids)
           S == 0 .. NVec
           T == [k \in 0 .. n |-> {x \in MemT : Older(m, x)}]
<1> HIDE DEF S
<1>3. n \in Nat /\ \A k \in 1 .. n : ids[k] \in S
  <2>1. ids \in Seq(S)
    BY DEF S
  <2> QED
    BY <2>1
<1>4. /\ h[0] = m /\ \A k \in 1 .. n : h[k] = GiveBack(h[k - 1], ids[k])
      /\ \A k \in 0 .. n : h[k] \in MemT
      /\ FoldLeft(GiveBack, m, ids) = h[n]
  BY <1>2
<1> HIDE DEF n
<1>5. h[0] \in T[0]
  BY <1>3, <1>4, OlderSame
<1>6. ASSUME NEW k \in 1 .. n, h[k - 1] \in T[k - 1] PROVE h[k] \in T[k]
  <2>1. k \in 0 .. n /\ k - 1 \in 0 .. n
    BY <1>3
  <2>2. Older(m, h[k - 1]) /\ h[k - 1] \in MemT /\ h[k] = GiveBack(h[k - 1], ids[k])
        /\ h[k] \in MemT /\ ids[k] \in S
    BY <1>3, <1>4, <1>6, <2>1
  <2>3. Older(h[k - 1], h[k])
    <3>1. CASE ids[k] = Nil
      BY <2>2, <3>1, OlderSame DEF GiveBack
    <3>2. CASE ids[k] # Nil
      <4>1. ids[k] \in Vec /\ h[k] = VecFree(h[k - 1], ids[k])
        BY <2>2, <3>2, BufAssumption DEF GiveBack, S, Vec, Nil
      <4> QED
        BY <2>2, <4>1, VecFreeAges
    <3> QED
      BY <3>1, <3>2
  <2>4. Older(m, h[k])
    BY <2>2, <2>3, OlderTwice
  <2> QED
    BY <2>1, <2>2, <2>4
<1>7. h[n] \in T[n] /\ n \in 0 .. n
  <2> HIDE DEF T
  <2>1. \A k \in 0 .. n : h[k] \in T[k]
    BY <1>3, <1>5, <1>6, FoldClimbs
  <2> QED
    BY <1>3, <2>1
<1> QED
  BY <1>4, <1>7
-----------------------------------------------------------------------------
(* What is queued is in one queue, and not in the tree.                     *)

\* What the queues of a thread hold.
LEMMA QueuedIn ==
  ASSUME NEW b, NEW x
  PROVE  /\ x \in QueuedVec(b) <=> \/ \E e \in Range(b.vq) : e.id = x \/ e.node = x
                                   \/ \E e \in Range(b.dq) : e.node = x
         /\ x \in QueuedData(b) <=> \E e \in Range(b.dq) : e.id = x
<1>1. \A q : /\ x \in Range(Ids(q)) <=> \E e \in Range(q) : e.id = x
             /\ x \in Range(Nodes(q)) <=> \E e \in Range(q) : e.node = x
  BY DEF Range, Ids, Nodes
<1> QED
  BY <1>1 DEF QueuedVec, QueuedData

\* What is queued is one of the thread's places.
LEMMA QueuedTerm ==
  ASSUME MemoryOK, NEW t \in Thread, NEW x
  PROVE  /\ x \in QueuedVec(buf[t]) => VecTerms(x)[t] >= 1
         /\ x \in QueuedData(buf[t]) => DataTerms(x)[t] >= 1
<1> DEFINE m == Mem(t)
<1>1. m \in MemT /\ m.vq = buf[t].vq /\ m.dq = buf[t].dq /\ m.rsv = buf[t].rsv
  BY MemTyped DEF Mem
<1> HIDE DEF m
<1>2. m.vq \in Seq(VecEntry) /\ m.dq \in Seq(DataEntry)
  BY <1>1 DEF MemT
<1>3. /\ Ids(m.vq) \in Seq(0 .. NVec) /\ Nodes(m.vq) \in Seq(Vec)
      /\ Ids(m.dq) \in Seq(Data) /\ Nodes(m.dq) \in Seq(Vec)
  BY <1>2, Entries, EntrySeqs
<1>4. /\ x \in Range(Ids(m.vq)) => At(Ids(m.vq), x) # 0
      /\ x \in Range(Nodes(m.vq)) => At(Nodes(m.vq), x) # 0
      /\ x \in Range(Ids(m.dq)) => At(Ids(m.dq), x) # 0
      /\ x \in Range(Nodes(m.dq)) => At(Nodes(m.dq), x) # 0
  BY <1>3, AtRange
<1>5. /\ At(m.rsv, x) \in Nat /\ At(Ids(m.vq), x) \in Nat /\ At(Nodes(m.vq), x) \in Nat
      /\ At(Ids(m.dq), x) \in Nat /\ At(Nodes(m.dq), x) \in Nat
      /\ VecDue(t, x) \in Nat /\ DataDue(t, x) \in Nat
  BY <1>1, MemNumbers, LocalNumbers
<1>6. /\ VecTerms(x)[t] = At(m.rsv, x) + At(Ids(m.vq), x) + At(Nodes(m.vq), x)
                          + At(Nodes(m.dq), x) + VecDue(t, x)
      /\ DataTerms(x)[t] = At(Ids(m.dq), x) + DataDue(t, x)
  BY <1>1 DEF VecTerms, DataTerms, VecDue, DataDue
<1>7. /\ x \in QueuedVec(buf[t]) => At(Ids(m.vq), x) # 0 \/ At(Nodes(m.vq), x) # 0 \/ At(Nodes(m.dq), x) # 0
      /\ x \in QueuedData(buf[t]) => At(Ids(m.dq), x) # 0
  BY <1>1, <1>4 DEF QueuedVec, QueuedData
<1>8. \A a, b, c, d, e \in Nat : b # 0 \/ c # 0 \/ d # 0 => a + b + c + d + e >= 1
  OBVIOUS
<1>9. \A a, b \in Nat : a # 0 => a + b >= 1
  OBVIOUS
<1>10. x \in QueuedVec(buf[t]) => VecTerms(x)[t] >= 1
  BY <1>5, <1>6, <1>7, <1>8
<1>11. x \in QueuedData(buf[t]) => DataTerms(x)[t] >= 1
  BY <1>5, <1>6, <1>7, <1>9
<1> QED
  BY <1>10, <1>11

\* Two terms of a sum.
LEMMA SumOfTwo ==
  ASSUME NEW f \in [Thread -> Nat], NEW t \in Thread, NEW u \in Thread, t # u
  PROVE  SumFunction(f) \in Nat /\ f[t] + f[u] <= SumFunction(f)
<1> DEFINE g == [f EXCEPT ![t] = 0]
<1>1. IsFiniteSet(Thread) /\ g \in [Thread -> Nat] /\ g[t] = 0
      /\ \A x \in Thread \ {t} : g[x] = f[x]
  BY BufAssumption
<1> HIDE DEF g
<1>2. f \in [Thread -> Int] /\ g \in [Thread -> Int]
  BY <1>1
<1>3. SumFunction(g) = SumFunction(f) + g[t] - f[t]
  BY <1>1, <1>2, SumChange
<1>4. g[u] <= SumFunction(g) /\ SumFunction(f) \in Nat /\ SumFunction(g) \in Nat /\ f[t] \in Nat /\ f[u] \in Nat
  BY <1>1, SumAtLeast, SumType
<1> QED
  BY <1>1, <1>3, <1>4

Apart ==
  /\ \A t \in Thread : \A u \in Thread \ {t} :
       /\ \A v \in Vec : v \in QueuedVec(buf[t]) => v \notin QueuedVec(buf[u])
       /\ \A d \in Data : d \in QueuedData(buf[t]) => d \notin QueuedData(buf[u])
  /\ \A t \in Thread : /\ \A v \in Vec \intersect tree.vec : v \notin QueuedVec(buf[t])
                       /\ \A d \in Data \intersect tree.data : d \notin QueuedData(buf[t])

\* Each thread queues its own.
LEMMA PlacesApart == MemoryOK /\ Running /\ OnePlace => Apart
<1> SUFFICES ASSUME MemoryOK, Running, OnePlace PROVE Apart
  OBVIOUS
<1>1. TermsOK /\ IsFiniteSet(Thread)
  BY TermsTyped, BufAssumption
<1>2. /\ \A v \in Vec : VecPlaces(v) = 1
      /\ \A d \in Data : DataPlaces(d) = 1
  BY PlacesCounted
<1>3. \A x : /\ VecTerms(x) \in [Thread -> Nat] /\ DataTerms(x) \in [Thread -> Nat]
             /\ At(pool.vec, x) \in Nat /\ At(pool.data, x) \in Nat
  BY <1>1 DEF TermsOK
<1>4. ASSUME NEW t \in Thread, NEW u \in Thread \ {t}
      PROVE  /\ \A v \in Vec : v \in QueuedVec(buf[t]) => v \notin QueuedVec(buf[u])
             /\ \A d \in Data : d \in QueuedData(buf[t]) => d \notin QueuedData(buf[u])
  <2>1. ASSUME NEW v \in Vec, v \in QueuedVec(buf[t]), v \in QueuedVec(buf[u]) PROVE FALSE
    <3> DEFINE f == VecTerms(v)
               a == At(pool.vec, v)
               b == IF v \in tree.vec THEN 1 ELSE 0
    <3>1. f \in [Thread -> Nat] /\ f[t] >= 1 /\ f[u] >= 1
      BY <1>3, <2>1, QueuedTerm
    <3>2. a + b + SumFunction(f) = 1 /\ a \in Nat /\ b \in Nat
      BY <1>2, <1>3 DEF VecPlaces, Total
    <3> HIDE DEF f, a, b
    <3>3. SumFunction(f) \in Nat /\ f[t] + f[u] <= SumFunction(f) /\ f[t] \in Nat /\ f[u] \in Nat
      BY <3>1, SumOfTwo
    <3> QED
      BY <3>1, <3>2, <3>3
  <2>2. ASSUME NEW d \in Data, d \in QueuedData(buf[t]), d \in QueuedData(buf[u]) PROVE FALSE
    <3> DEFINE f == DataTerms(d)
               a == At(pool.data, d)
               b == IF d \in tree.data THEN 1 ELSE 0
    <3>1. f \in [Thread -> Nat] /\ f[t] >= 1 /\ f[u] >= 1
      BY <1>3, <2>2, QueuedTerm
    <3>2. a + b + SumFunction(f) = 1 /\ a \in Nat /\ b \in Nat
      BY <1>2, <1>3 DEF DataPlaces, Total
    <3> HIDE DEF f, a, b
    <3>3. SumFunction(f) \in Nat /\ f[t] + f[u] <= SumFunction(f) /\ f[t] \in Nat /\ f[u] \in Nat
      BY <3>1, SumOfTwo
    <3> QED
      BY <3>1, <3>2, <3>3
  <2> QED
    BY <2>1, <2>2
<1>5. ASSUME NEW t \in Thread
      PROVE  /\ \A v \in Vec \intersect tree.vec : v \notin QueuedVec(buf[t])
             /\ \A d \in Data \intersect tree.data : d \notin QueuedData(buf[t])
  <2>1. ASSUME NEW v \in Vec \intersect tree.vec, v \in QueuedVec(buf[t]) PROVE FALSE
    <3> DEFINE f == VecTerms(v)
               a == At(pool.vec, v)
    <3>1. f \in [Thread -> Nat] /\ f[t] >= 1
      BY <1>3, <2>1, QueuedTerm
    <3>2. a + 1 + SumFunction(f) = 1 /\ a \in Nat
      BY <1>2, <1>3 DEF VecPlaces, Total
    <3> HIDE DEF f, a
    <3>3. f[t] <= SumFunction(f) /\ SumFunction(f) \in Nat /\ f[t] \in Nat
      BY <1>1, <3>1, SumAtLeast, SumType
    <3> QED
      BY <3>1, <3>2, <3>3
  <2>2. ASSUME NEW d \in Data \intersect tree.data, d \in QueuedData(buf[t]) PROVE FALSE
    <3> DEFINE f == DataTerms(d)
               a == At(pool.data, d)
    <3>1. f \in [Thread -> Nat] /\ f[t] >= 1
      BY <1>3, <2>2, QueuedTerm
    <3>2. a + 1 + SumFunction(f) = 1 /\ a \in Nat
      BY <1>2, <1>3 DEF DataPlaces, Total
    <3> HIDE DEF f, a
    <3>3. f[t] <= SumFunction(f) /\ SumFunction(f) \in Nat /\ f[t] \in Nat
      BY <1>1, <3>1, SumAtLeast, SumType
    <3> QED
      BY <3>1, <3>2, <3>3
  <2> QED
    BY <2>1, <2>2
<1> QED
  BY <1>4, <1>5 DEF Apart

\* And in the next state.
LEMMA PlacesApartNext == MemoryOK' /\ Running' /\ OnePlace' => Apart'
BY PlacesApart, PTL
-----------------------------------------------------------------------------
(* What the sessions that hold a node or a data block may still see.        *)

\* With s's session open since then, e is of this tick, or of the one before
\* if the session cannot see another.
Young(e, s) == e.tick = tick \/ (e.tick + 1 = tick /\ ~ GraceProof!MaySee(s))

HoldT == [vec : [Vec -> SUBSET Thread], data : [Data -> SUBSET Thread]]

\* The holders of what thread t has queued are young: nothing of it is old.
Guarded(t) ==
  /\ Sound(buf[t])
  /\ \A e \in Range(buf[t].vq) : /\ e.id # Nil => \A s \in hold.vec[e.id] : Young(e, s)
                                 /\ \A s \in hold.vec[e.node] : Young(e, s)
  /\ \A e \in Range(buf[t].dq) : /\ \A s \in hold.data[e.id] : Young(e, s)
                                 /\ \A s \in hold.vec[e.node] : Young(e, s)

\* The holders are sessions that are open.
HoldersOpen ==
  /\ \A v \in Vec : hold.vec[v] \subseteq online
  /\ \A d \in Data : hold.data[d] \subseteq online

ReuseInv ==
  Running =>
  /\ hold \in HoldT /\ HoldersOpen /\ NoEarlyReuse
  /\ \A t \in Thread : Guarded(t)

\* The entries of a thread's queues.
LEMMA QueueTypes ==
  ASSUME NEW m, m.vq \in Seq(VecEntry), m.dq \in Seq(DataEntry)
  PROVE  /\ \A e \in Range(m.vq) : /\ e.tick \in Nat /\ e.node \in Vec
                                   /\ e.id # Nil => e.id \in Vec
         /\ \A e \in Range(m.dq) : /\ e.tick \in Nat /\ e.node \in Vec
                                   /\ e.id \in Data /\ e.id # Nil
<1>1. Range(m.vq) \subseteq VecEntry
  BY DEF Range
<1>2. Range(m.dq) \subseteq DataEntry
  BY DEF Range
<1>3. \A e \in VecEntry : e.tick \in Nat /\ e.node \in Vec /\ (e.id # Nil => e.id \in Vec)
  BY BufAssumption DEF VecEntry, Vec, Nil
<1>4. \A e \in DataEntry : e.tick \in Nat /\ e.node \in Vec /\ e.id \in Data /\ e.id # Nil
  BY BufAssumption DEF DataEntry, Data, Nil
<1> QED
  BY <1>1, <1>2, <1>3, <1>4

\* Who holds what, after a call of the memory layer.
LEMMA KeepHolds ==
  ASSUME hold \in HoldT, online \subseteq Thread, NEW t, NEW m, Keep(t, m)
  PROVE  /\ hold' \in HoldT
         /\ \A v \in Vec : hold'.vec[v] = IF v \in QueuedVec(m) \ QueuedVec(buf[t])
                                          THEN hold.vec[v] \union online ELSE hold.vec[v]
         /\ \A d \in Data : hold'.data[d] = IF d \in QueuedData(m) \ QueuedData(buf[t])
                                            THEN hold.data[d] \union online ELSE hold.data[d]
<1> DEFINE upd(f, new) == [x \in DOMAIN f |-> IF x \in new THEN f[x] \union online ELSE f[x]]
           A == QueuedVec(m) \ QueuedVec(buf[t])
           B == QueuedData(m) \ QueuedData(buf[t])
<1>1. hold' = [vec |-> upd(hold.vec, A), data |-> upd(hold.data, B)]
  BY DEF Keep
<1>2. hold.vec \in [Vec -> SUBSET Thread] /\ hold.data \in [Data -> SUBSET Thread]
  BY DEF HoldT
<1> HIDE DEF A, B
<1>3. upd(hold.vec, A) \in [Vec -> SUBSET Thread] /\ upd(hold.data, B) \in [Data -> SUBSET Thread]
  BY <1>2
<1>4. hold' \in HoldT /\ hold'.vec = upd(hold.vec, A) /\ hold'.data = upd(hold.data, B)
  BY <1>1, <1>3 DEF HoldT
<1>5. /\ \A v \in Vec : upd(hold.vec, A)[v] = IF v \in A THEN hold.vec[v] \union online ELSE hold.vec[v]
      /\ \A d \in Data : upd(hold.data, B)[d] = IF d \in B THEN hold.data[d] \union online ELSE hold.data[d]
  BY <1>2
<1> HIDE DEF upd
<1> QED
  BY <1>4, <1>5 DEF A, B

\* What the sessions may see is theirs alone.
LEMMA YoungSame ==
  ASSUME UNCHANGED graceVars
  PROVE  \A e, s : Young(e, s)' <=> Young(e, s)
BY DEF Young, GraceProof!MaySee, GraceProof!Debt, GraceProof!Stale, graceVars

\* What leaves the queues of the thread is old, and so has no holder.
LEMMA LeavesUnheld ==
  ASSUME MemoryOK, TickFits, NEW t \in Thread, NEW m \in MemT, Older(Mem(t), m), Guarded(t)
  PROVE  /\ \A v \in Vec : v \in QueuedVec(buf[t]) /\ v \notin QueuedVec(m) => hold.vec[v] = {}
         /\ \A d \in Data : d \in QueuedData(buf[t]) /\ d \notin QueuedData(m) => hold.data[d] = {}
<1>1. Mem(t).vq = buf[t].vq /\ Mem(t).dq = buf[t].dq
  BY DEF Mem
<1>2. /\ \A e \in Range(buf[t].vq) : Old(e) \/ e \in Range(m.vq)
      /\ \A e \in Range(buf[t].dq) : Old(e) \/ e \in Range(m.dq)
  BY <1>1 DEF Older, Sound, Guarded, Ages, Aging
<1>3. ASSUME NEW e, e.tick \in Nat, Old(e), NEW s PROVE ~ Young(e, s)
  BY <1>3 DEF TickFits, Old, Young
<1>4. buf[t].vq \in Seq(VecEntry) /\ buf[t].dq \in Seq(DataEntry)
  BY DEF MemoryOK, BufT
<1>5. /\ \A e \in Range(buf[t].vq) : e.tick \in Nat
      /\ \A e \in Range(buf[t].dq) : e.tick \in Nat
  BY <1>4, QueueTypes
<1>6. /\ \A e \in Range(buf[t].vq) : Old(e) => /\ e.id # Nil => hold.vec[e.id] = {}
                                               /\ hold.vec[e.node] = {}
      /\ \A e \in Range(buf[t].dq) : Old(e) => hold.data[e.id] = {} /\ hold.vec[e.node] = {}
  BY <1>3, <1>5 DEF Guarded
<1>7. ASSUME NEW v \in Vec, v \in QueuedVec(buf[t]), v \notin QueuedVec(m) PROVE hold.vec[v] = {}
  <2>1. \/ \E e \in Range(buf[t].vq) : e.id = v \/ e.node = v
        \/ \E e \in Range(buf[t].dq) : e.node = v
    BY <1>7, QueuedIn
  <2>2. /\ \A e \in Range(m.vq) : e.id # v /\ e.node # v
        /\ \A e \in Range(m.dq) : e.node # v
    BY <1>7, QueuedIn
  <2> QED
    BY <1>2, <1>6, <2>1, <2>2, NotNil
<1>8. ASSUME NEW d \in Data, d \in QueuedData(buf[t]), d \notin QueuedData(m) PROVE hold.data[d] = {}
  <2>1. \E e \in Range(buf[t].dq) : e.id = d
    BY <1>8, QueuedIn
  <2>2. \A e \in Range(m.dq) : e.id # d
    BY <1>8, QueuedIn
  <2> QED
    BY <1>2, <1>6, <2>1, <2>2
<1> QED
  BY <1>7, <1>8

\* The queues of the thread after a call: what is new in them is of this tick.
LEMMA KeepGuards ==
  ASSUME TickFits, MemoryOK, hold \in HoldT, online \subseteq Thread,
         NEW t \in Thread, NEW m \in MemT, Keep(t, m), Older(Mem(t), m), Guarded(t),
         UNCHANGED graceVars
  PROVE  Guarded(t)'
<1>1. buf'[t].vq = m.vq /\ buf'[t].dq = m.dq /\ Mem(t).vq = buf[t].vq /\ Mem(t).dq = buf[t].dq
  BY DEF Keep, Mem, MemoryOK
<1>2. tick' = tick /\ \A e, s : Young(e, s)' <=> Young(e, s)
  BY YoungSame DEF graceVars
<1>3. Sound(m) /\ Ages(Mem(t), m)
  BY <1>1 DEF Older, Guarded, Sound
<1>4. Sound(buf[t])'
  BY <1>1, <1>2, <1>3 DEF Sound, Timely, Old
<1>5. m.vq \in Seq(VecEntry) /\ m.dq \in Seq(DataEntry)
  BY DEF MemT
<1>6. buf[t].vq \in Seq(VecEntry) /\ buf[t].dq \in Seq(DataEntry)
  BY DEF MemoryOK, BufT
<1>7. /\ \A v \in Vec : v \in QueuedVec(buf[t]) => hold'.vec[v] = hold.vec[v]
      /\ \A d \in Data : d \in QueuedData(buf[t]) => hold'.data[d] = hold.data[d]
  BY KeepHolds
<1>8. \A e, s : e.tick = tick => Young(e, s)
  BY DEF Young
<1>9. ASSUME NEW e \in Range(m.vq)
      PROVE  /\ e.id # Nil => \A s \in hold'.vec[e.id] : Young(e, s)
             /\ \A s \in hold'.vec[e.node] : Young(e, s)
  <2>1. CASE e.tick = tick
    BY <1>8, <2>1
  <2>2. CASE e \in Range(buf[t].vq)
    <3>1. e.node \in Vec /\ (e.id # Nil => e.id \in Vec)
      BY <1>6, <2>2, QueueTypes
    <3>2. e.node \in QueuedVec(buf[t]) /\ e.id \in QueuedVec(buf[t])
      BY <2>2, QueuedIn
    <3> QED
      BY <1>7, <2>2, <3>1, <3>2 DEF Guarded
  <2>3. ASSUME NEW d \in Range(buf[t].vq), e.id = Nil, e.node = d.node, e.tick = d.tick
        PROVE  \A s \in hold'.vec[e.node] : Young(e, s)
    <3>1. d.node \in Vec /\ d.node \in QueuedVec(buf[t])
      BY <1>6, QueueTypes, QueuedIn
    <3>2. \A s \in hold.vec[d.node] : Young(d, s)
      BY DEF Guarded
    <3>3. \A s : Young(d, s) => Young(e, s)
      BY <2>3 DEF Young
    <3> QED
      BY <1>7, <2>3, <3>1, <3>2, <3>3
  <2> QED
    BY <1>1, <1>3, <2>1, <2>2, <2>3 DEF Ages, Aging
<1>10. ASSUME NEW e \in Range(m.dq)
       PROVE  /\ \A s \in hold'.data[e.id] : Young(e, s)
              /\ \A s \in hold'.vec[e.node] : Young(e, s)
  <2>1. CASE e.tick = tick
    BY <1>8, <2>1
  <2>2. CASE e \in Range(buf[t].dq)
    <3>1. e.node \in Vec /\ e.id \in Data
      BY <1>6, <2>2, QueueTypes
    <3>2. e.node \in QueuedVec(buf[t]) /\ e.id \in QueuedData(buf[t])
      BY <2>2, QueuedIn
    <3> QED
      BY <1>7, <2>2, <3>1, <3>2 DEF Guarded
  <2>3. e.id # Nil
    BY <1>5, QueueTypes
  <2> QED
    BY <1>1, <1>3, <2>1, <2>2, <2>3 DEF Ages, Aging
<1> QED
  BY <1>1, <1>2, <1>4, <1>9, <1>10 DEF Guarded
-----------------------------------------------------------------------------
(* No step of a worker reuses what is held.                                 *)

\* What a step may assume.
Sane ==
  /\ StateInv /\ StateInv' /\ Running /\ Running' /\ OnePlace /\ OnePlace'
  /\ ReuseInv /\ TickFits /\ online \subseteq Thread

\* A call of the memory layer: what the worker has unlinked gets queued, what
\* leaves its queues has no holder, and the other queues have none of it.
LEMMA KeepReuse ==
  ASSUME Sane, NEW t \in Thread, Stepped(t), NEW m \in MemT, Keep(t, m), UNCHANGED graceVars,
         Older(Mem(t), m),
         OwnVec(t) => own[t] \in QueuedVec(m), OwnData(t) => own[t] \in QueuedData(m)
  PROVE  ReuseInv'
<1>1. /\ MemoryOK /\ MemoryOK' /\ hold \in HoldT /\ HoldersOpen /\ NoEarlyReuse /\ Running /\ Running'
      /\ \A u \in Thread : Guarded(u)
      /\ TickFits /\ online \subseteq Thread /\ Apart'
  BY PlacesApartNext DEF Sane, ReuseInv, StateInv
<1>2. \A u \in Thread \ {t} : buf'[u] = buf[u] /\ own'[u] = own[u] /\ phase'[u] = phase[u]
  BY DEF Stepped
<1>3. /\ hold' \in HoldT
      /\ \A v \in Vec : hold'.vec[v] = IF v \in QueuedVec(m) \ QueuedVec(buf[t])
                                       THEN hold.vec[v] \union online ELSE hold.vec[v]
      /\ \A d \in Data : hold'.data[d] = IF d \in QueuedData(m) \ QueuedData(buf[t])
                                         THEN hold.data[d] \union online ELSE hold.data[d]
  BY <1>1, KeepHolds
<1>4. online' = online /\ tick' = tick
  BY DEF graceVars
<1>5. HoldersOpen'
  BY <1>1, <1>3, <1>4 DEF HoldersOpen
<1>6. QueuedVec(buf'[t]) = QueuedVec(m) /\ QueuedData(buf'[t]) = QueuedData(m)
  <2>1. buf'[t].vq = m.vq /\ buf'[t].dq = m.dq
    BY <1>1 DEF Keep, MemoryOK
  <2> QED
    BY <2>1 DEF QueuedVec, QueuedData
<1>7. ASSUME NEW u \in Thread \ {t}
      PROVE  /\ \A v \in Vec : v \in QueuedVec(buf[u]) => hold'.vec[v] = hold.vec[v]
             /\ \A d \in Data : d \in QueuedData(buf[u]) => hold'.data[d] = hold.data[d]
  <2>1. /\ \A v \in Vec : v \in QueuedVec(buf'[t]) => v \notin QueuedVec(buf'[u])
        /\ \A d \in Data : d \in QueuedData(buf'[t]) => d \notin QueuedData(buf'[u])
    BY <1>1 DEF Apart
  <2> QED
    BY <1>2, <1>3, <1>6, <2>1
<1>8. ASSUME NEW u \in Thread PROVE Guarded(u)'
  <2>1. CASE u = t
    BY <1>1, <2>1, KeepGuards
  <2>2. CASE u # t
    <3>1. /\ buf'[u] = buf[u] /\ Guarded(u)
          /\ \A v \in Vec : v \in QueuedVec(buf[u]) => hold'.vec[v] = hold.vec[v]
          /\ \A d \in Data : d \in QueuedData(buf[u]) => hold'.data[d] = hold.data[d]
      BY <1>1, <1>2, <1>7, <2>2
    <3>2. buf[u].vq \in Seq(VecEntry) /\ buf[u].dq \in Seq(DataEntry)
      BY <1>1 DEF MemoryOK, BufT
    <3>3. /\ \A e \in Range(buf[u].vq) :
               /\ e.id # Nil => hold'.vec[e.id] = hold.vec[e.id]
               /\ hold'.vec[e.node] = hold.vec[e.node]
          /\ \A e \in Range(buf[u].dq) :
               /\ hold'.data[e.id] = hold.data[e.id]
               /\ hold'.vec[e.node] = hold.vec[e.node]
      BY <3>1, <3>2, QueueTypes, QueuedIn
    <3>4. \A e, s : Young(e, s)' <=> Young(e, s)
      BY YoungSame
    <3>5. Sound(buf[u])'
      BY <1>4, <3>1 DEF Guarded, Sound, Timely, Old
    <3> QED
      BY <3>1, <3>3, <3>4, <3>5 DEF Guarded
  <2> QED
    BY <2>1, <2>2
<1>9. /\ \A v \in Vec : v \in QueuedVec(buf[t]) /\ v \notin QueuedVec(m) => hold.vec[v] = {}
      /\ \A d \in Data : d \in QueuedData(buf[t]) /\ d \notin QueuedData(m) => hold.data[d] = {}
  BY <1>1, LeavesUnheld
<1>10. ASSUME NEW v \in Vec, hold'.vec[v] # {}
       PROVE  \E u \in Thread : v \in QueuedVec(buf'[u]) \/ (OwnVec(u)' /\ own'[u] = v)
  <2>1. CASE v \in QueuedVec(m)
    BY <1>6, <2>1
  <2>2. CASE v \notin QueuedVec(m)
    <3>1. hold.vec[v] # {}
      BY <1>3, <1>10, <2>2
    <3>2. PICK u \in Thread : v \in QueuedVec(buf[u]) \/ (OwnVec(u) /\ own[u] = v)
      BY <1>1, <3>1 DEF NoEarlyReuse
    <3>3. u # t
      BY <1>9, <2>2, <3>1, <3>2
    <3> QED
      BY <1>2, <3>2, <3>3 DEF OwnVec
  <2> QED
    BY <2>1, <2>2
<1>11. ASSUME NEW d \in Data, hold'.data[d] # {}
       PROVE  \E u \in Thread : d \in QueuedData(buf'[u]) \/ (OwnData(u)' /\ own'[u] = d)
  <2>1. CASE d \in QueuedData(m)
    BY <1>6, <2>1
  <2>2. CASE d \notin QueuedData(m)
    <3>1. hold.data[d] # {}
      BY <1>3, <1>11, <2>2
    <3>2. PICK u \in Thread : d \in QueuedData(buf[u]) \/ (OwnData(u) /\ own[u] = d)
      BY <1>1, <3>1 DEF NoEarlyReuse
    <3>3. u # t
      BY <1>9, <2>2, <3>1, <3>2
    <3> QED
      BY <1>2, <3>2, <3>3 DEF OwnData
  <2> QED
    BY <2>1, <2>2
<1>12. NoEarlyReuse'
  BY <1>10, <1>11 DEF NoEarlyReuse
<1> QED
  BY <1>3, <1>5, <1>8, <1>12 DEF ReuseInv

\* A step that leaves the queues and what is unlinked alone: sessions close,
\* ticks pass, and no holder that is still there sees a second one.
LEMMA SessionReuse ==
  ASSUME Sane, buf' = buf, own' = own,
         \A u \in Thread : (OwnVec(u) => OwnVec(u)') /\ (OwnData(u) => OwnData(u)'),
         hold' \in HoldT,
         \A v \in Vec : hold'.vec[v] \subseteq hold.vec[v] /\ hold'.vec[v] \subseteq online',
         \A d \in Data : hold'.data[d] \subseteq hold.data[d] /\ hold'.data[d] \subseteq online',
         tick' = tick \/ tick' = tick + 1,
         \A s \in online \intersect online' : \A e : Young(e, s) => Young(e, s)'
  PROVE  ReuseInv'
<1>1. /\ MemoryOK /\ HoldersOpen /\ NoEarlyReuse /\ Running /\ TickFits
      /\ \A u \in Thread : Guarded(u)
  BY DEF Sane, ReuseInv, StateInv
<1>2. HoldersOpen'
  BY DEF HoldersOpen
<1>3. ASSUME NEW u \in Thread PROVE Guarded(u)'
  <2>1. buf[u].vq \in Seq(VecEntry) /\ buf[u].dq \in Seq(DataEntry)
    BY <1>1 DEF MemoryOK, BufT
  <2>2. Sound(buf[u])'
    <3>1. /\ \A e \in Range(buf[u].vq) : e.tick \in Nat
          /\ \A e \in Range(buf[u].dq) : e.tick \in Nat
      BY <2>1, QueueTypes
    <3>2. \A e : e.tick \in Nat => /\ e.tick <= tick => e.tick <= tick'
                                   /\ Old(e) => Old(e)'
      BY <1>1 DEF Old, TickFits
    <3> QED
      BY <1>1, <3>1, <3>2 DEF Guarded, Sound, Timely
  <2>3. \A v \in Vec : \A e : (\A s \in hold.vec[v] : Young(e, s)) => \A s \in hold'.vec[v] : Young(e, s)'
    BY <1>1 DEF HoldersOpen
  <2>4. \A d \in Data : \A e : (\A s \in hold.data[d] : Young(e, s)) => \A s \in hold'.data[d] : Young(e, s)'
    BY <1>1 DEF HoldersOpen
  <2>5. ASSUME NEW e \in Range(buf[u].vq)
        PROVE  /\ e.id # Nil => \A s \in hold'.vec[e.id] : Young(e, s)'
               /\ \A s \in hold'.vec[e.node] : Young(e, s)'
    <3>1. e.node \in Vec /\ (e.id # Nil => e.id \in Vec)
      BY <2>1, QueueTypes
    <3> QED
      BY <1>1, <2>3, <3>1 DEF Guarded
  <2>6. ASSUME NEW e \in Range(buf[u].dq)
        PROVE  /\ \A s \in hold'.data[e.id] : Young(e, s)'
               /\ \A s \in hold'.vec[e.node] : Young(e, s)'
    <3>1. e.node \in Vec /\ e.id \in Data
      BY <2>1, QueueTypes
    <3> QED
      BY <1>1, <2>3, <2>4, <3>1 DEF Guarded
  <2> QED
    BY <2>2, <2>5, <2>6 DEF Guarded
<1>4. NoEarlyReuse'
  BY <1>1 DEF NoEarlyReuse
<1> QED
  BY <1>2, <1>3, <1>4 DEF ReuseInv
-----------------------------------------------------------------------------
(* The calls of the memory layer, one by one.                               *)

\* A thread that is not stuck afterwards has not found its reserve empty.
LEMMA NotDry ==
  ASSUME Sane, NEW t \in Thread, NEW m, NEW ph, After(t, m, ph)
  PROVE  ~ m.dry /\ Keep(t, m) /\ UNCHANGED graceVars
<1>1. phase \in [Thread -> Phase]
  BY DEF Sane, StateInv, WorkOK
<1>2. Goto(t, "stuck") => phase'[t] = "stuck"
  BY <1>1 DEF Goto
<1>3. phase'[t] # "stuck"
  BY DEF Sane, Running
<1> QED
  BY <1>2, <1>3 DEF After, Settle

\* The queues of a thread are sound before its call.
LEMMA SoundBefore ==
  ASSUME Sane, NEW t \in Thread
  PROVE  Sound(Mem(t)) /\ TickFits /\ tick \in Nat /\ StateInv
<1>1. Sound(buf[t]) /\ TickFits /\ tick \in Nat /\ StateInv
  BY DEF Sane, ReuseInv, Guarded, TickFits
<1>2. Mem(t).vq = buf[t].vq /\ Mem(t).dq = buf[t].dq
  BY DEF Mem
<1> QED
  BY <1>1, <1>2 DEF Sound

\* vec_free_to_buf: the node the worker has unlinked is queued.
LEMMA VecFreeReuse ==
  ASSUME Sane, NEW t \in Thread, Stepped(t), OwnVec(t), ~ VecFree(Mem(t), own[t]).dry,
         Keep(t, VecFree(Mem(t), own[t])), UNCHANGED graceVars
  PROVE  ReuseInv'
<1> DEFINE m == VecFree(Mem(t), own[t])
<1>1. Sound(Mem(t)) /\ TickFits /\ tick \in Nat /\ StateInv
  BY SoundBefore
<1>2. Mem(t) \in MemT
  BY <1>1, OwnState
<1>3. own[t] \in Vec
  BY <1>1 DEF StateInv, WorkOK
<1>4. Freed(Mem(t), m)
  BY <1>1, <1>2, <1>3, VecFreeFrees
<1>5. /\ Older(Mem(t), m)
      /\ Sound(Mem(t)) /\ Mem(t).rsv # <<>> => JustIn(Range(m.vq), own[t])
  BY <1>1, <1>2, <1>3, VecFreeAges
<1>6. ~ m.dry /\ Keep(t, m)
  OBVIOUS
<1> HIDE DEF m
<1>7. m \in MemT /\ Mem(t).rsv # <<>>
  BY <1>1, <1>4, <1>6, FreedReserve
<1>8. own[t] \in QueuedVec(m)
  BY <1>1, <1>5, <1>7, QueuedIn DEF JustIn
<1>9. ~ OwnData(t)
  BY DEF OwnVec, OwnData
<1> QED
  BY <1>5, <1>6, <1>7, <1>8, <1>9, KeepReuse

\* db_free_to_buf: so is the data block.
LEMMA DataFreeReuse ==
  ASSUME Sane, NEW t \in Thread, RetireData(t)
  PROVE  ReuseInv'
<1> DEFINE f == DataFree(Mem(t), own[t])
           m == [f EXCEPT !.code = OK]
<1>1. Sound(Mem(t)) /\ TickFits /\ tick \in Nat /\ StateInv
  BY SoundBefore
<1>2. Mem(t) \in MemT
  BY <1>1, OwnState
<1>3. OwnData(t) /\ ~ OwnVec(t) /\ After(t, m, "help")
  BY DEF RetireData, OwnData, OwnVec
<1>4. own[t] \in Data
  BY <1>1, <1>3 DEF StateInv, WorkOK
<1>5. Freed(Mem(t), f)
  BY <1>1, <1>2, <1>4, DataFreeFrees
<1>6. /\ Older(Mem(t), f)
      /\ Sound(Mem(t)) /\ Mem(t).rsv # <<>> => JustIn(Range(f.dq), own[t])
  BY <1>1, <1>2, <1>4, DataFreeAges
<1>7. Stepped(t)
  BY <1>1, RetireDataDone
<1> HIDE DEF f
<1>8. f \in MemT
  BY <1>1, <1>5, FreedReserve
<1>9. m \in MemT /\ m.dry = f.dry /\ m.vq = f.vq /\ m.dq = f.dq
  BY <1>8 DEF MemT, Code
<1>10. ~ m.dry /\ Keep(t, m) /\ UNCHANGED graceVars
  BY <1>3, NotDry
<1> HIDE DEF m
<1>11. Older(f, m)
  BY <1>1, <1>9, OlderSame
<1>12. Older(Mem(t), m)
  BY <1>1, <1>6, <1>11, OlderTwice
<1>13. Mem(t).rsv # <<>>
  BY <1>1, <1>5, <1>9, <1>10, FreedReserve
<1>14. own[t] \in QueuedData(m)
  BY <1>1, <1>6, <1>9, <1>13, QueuedIn DEF JustIn
<1> QED
  BY <1>3, <1>7, <1>9, <1>10, <1>12, <1>14, KeepReuse

\* A worker that has unlinked nothing.
LEMMA OtherCallReuse ==
  ASSUME Sane, NEW t \in Thread, Stepped(t), NEW m \in MemT, Keep(t, m), UNCHANGED graceVars,
         Older(Mem(t), m), phase[t] \in {"call", "idle"}
  PROVE  ReuseInv'
<1>1. ~ OwnVec(t) /\ ~ OwnData(t)
  BY DEF OwnVec, OwnData
<1> QED
  BY <1>1, KeepReuse

\* The walk retires the node it has unlinked.
LEMMA RetireReuse ==
  ASSUME Sane, NEW t \in Thread, Retire(t)
  PROVE  ReuseInv'
<1>1. Stepped(t)
  BY SoundBefore, RetireDone
<1>2. OwnVec(t) /\ After(t, VecFree(Mem(t), own[t]), "call")
  BY DEF Retire, OwnVec
<1> QED
  BY <1>1, <1>2, NotDry, VecFreeReuse

\* So does a delete that has done its work.
LEMMA HelpRetireReuse ==
  ASSUME Sane, NEW t \in Thread, HelpRetire(t)
  PROVE  ReuseInv'
<1> DEFINE m == VecFree(Mem(t), own[t])
<1>1. Stepped(t)
  BY SoundBefore, HelpRetireDone
<1>2. /\ OwnVec(t)
      /\ \/ After(t, m, "help")
         \/ ~ m.dry /\ Keep(t, m) /\ UNCHANGED graceVars
  BY DEF HelpRetire, OwnVec, Settle
<1>3. ~ m.dry /\ Keep(t, m) /\ UNCHANGED graceVars
  BY <1>2, NotDry
<1> QED
  BY <1>1, <1>2, <1>3, VecFreeReuse

\* fill_in_rsv_list, at the start of a call.
LEMMA FillReuse ==
  ASSUME Sane, NEW t \in Thread, Enter(t), status = WAIT_AMT
  PROVE  ReuseInv'
<1> DEFINE nr == RsvCnt - Len(buf[t].rsv)
           m == FillIn(Mem(t), nr)
<1>1. Sound(Mem(t)) /\ TickFits /\ tick \in Nat /\ StateInv
  BY SoundBefore
<1>2. Stepped(t)
  BY <1>1, EnterDone
<1>3. phase[t] = "idle" /\ Mem(t) \in MemT /\ nr \in Nat
  <2>1. Mem(t) \in MemT /\ Len(buf[t].rsv) \in Nat /\ RsvCnt \in Nat /\ Len(buf[t].rsv) <= RsvCnt
    BY <1>1, OwnState
  <2> QED
    BY <2>1 DEF Enter
<1>4. \/ Keep(t, m) /\ UNCHANGED graceVars
      \/ After(t, m, "call")
  BY DEF Enter
<1> HIDE DEF nr
<1>5. m \in MemT
  BY <1>3, FillInEnds DEF Ended
<1>6. Older(Mem(t), m)
  BY <1>1, <1>3, FillInAges
<1> HIDE DEF m
<1>7. Keep(t, m) /\ UNCHANGED graceVars
  BY <1>4, NotDry
<1> QED
  BY <1>2, <1>3, <1>5, <1>6, <1>7, OtherCallReuse

\* An insertion is published.
LEMMA PublishReuse ==
  ASSUME Sane, NEW t \in Thread, NEW n \in 0 .. MaxNew, Publish(t, n)
  PROVE  ReuseInv'
<1> DEFINE a == Allocated(t, n)
<1>1. TickFits /\ StateInv
  BY SoundBefore
<1>2. Stepped(t)
  BY <1>1, PublishDone
<1>3. phase[t] = "call" /\ Keep(t, a.m) /\ UNCHANGED graceVars
  BY DEF Publish
<1>4. n \in Nat /\ Mem(t) \in MemT
  <2>1. Mem(t) \in MemT
    BY <1>1, OwnState
  <2> QED
    BY <2>1
<1>5. a.m \in MemT /\ Older(Mem(t), a.m)
  BY <1>1, <1>4, AllocatedGot, AllocatedAges DEF Obtained
<1> HIDE DEF a
<1> QED
  BY <1>2, <1>3, <1>5, OtherCallReuse

\* The compare-and-swap of an insertion is lost.
LEMMA LoseRaceReuse ==
  ASSUME Sane, NEW t \in Thread, NEW n \in 0 .. MaxNew, LoseRace(t, n)
  PROVE  ReuseInv'
<1> DEFINE a == Allocated(t, n)
           d == DataRetire(a.m, a.data)
           f == FoldLeft(VecRetire, d, a.vecs)
           m == FillIn(f, n + 1)
<1>1. TickFits /\ StateInv /\ tick \in Nat
  BY SoundBefore
<1>2. Stepped(t)
  BY <1>1, LoseRaceDone
<1>3. phase[t] = "call" /\ Complete(a) /\ Keep(t, m) /\ UNCHANGED graceVars
  BY DEF LoseRace, Settle
<1>4. n \in Nat /\ n + 1 \in Nat /\ Mem(t) \in MemT
  <2>1. Mem(t) \in MemT
    BY <1>1, OwnState
  <2> QED
    BY <2>1
<1>5. Obtained(Mem(t), a, n) /\ Older(Mem(t), a.m)
  BY <1>1, <1>4, AllocatedGot, AllocatedAges
<1> HIDE DEF a
<1>6. a.data \in Data /\ a.vecs \in Seq(Vec) /\ a.m \in MemT
  BY <1>3, <1>4, <1>5, GotAll
<1>7. d \in MemT /\ Older(a.m, d)
  BY <1>1, <1>6, DataRetireQueues, DataRetireAges DEF Queued
<1> HIDE DEF d
<1>8. f \in MemT /\ Older(d, f)
  BY <1>1, <1>6, <1>7, RetireFold, RetireFoldAges
<1> HIDE DEF f
<1>9. m \in MemT /\ Older(f, m)
  BY <1>1, <1>4, <1>8, FillInEnds, FillInAges DEF Ended
<1> HIDE DEF m
<1>10. Older(Mem(t), m)
  BY <1>1, <1>5, <1>7, <1>8, <1>9, OlderTwice
<1> QED
  BY <1>2, <1>3, <1>9, <1>10, OtherCallReuse

\* An insertion runs out of memory.
LEMMA RunOutReuse ==
  ASSUME Sane, NEW t \in Thread, NEW n \in 0 .. MaxNew, RunOut(t, n)
  PROVE  ReuseInv'
<1> DEFINE a == Allocated(t, n)
           f == DataFree(a.m, a.data)
           g == IF a.data = Nil THEN Mem(t) ELSE FoldLeft(GiveBack, f, a.vecs)
           m == [g EXCEPT !.code = NOMEM]
<1>1. TickFits /\ StateInv /\ tick \in Nat
  BY SoundBefore
<1>2. Stepped(t)
  BY <1>1, RunOutDone
<1>3. phase[t] = "call" /\ After(t, m, "leave")
  BY DEF RunOut
<1>4. n \in Nat /\ Mem(t) \in MemT
  <2>1. Mem(t) \in MemT
    BY <1>1, OwnState
  <2> QED
    BY <2>1
<1>5. Obtained(Mem(t), a, n) /\ Older(Mem(t), a.m)
  BY <1>1, <1>4, AllocatedGot, AllocatedAges
<1> HIDE DEF a
<1>6. g \in MemT /\ Older(Mem(t), g)
  <2>1. CASE a.data = Nil
    <3>1. Older(Mem(t), Mem(t))
      BY <1>1, OlderSame
    <3> QED
      BY <1>4, <2>1, <3>1
  <2>2. CASE a.data # Nil
    <3>1. a.data \in Data /\ a.m \in MemT /\ a.vecs \in Seq(0 .. NVec)
      BY <1>5, <2>2 DEF Obtained
    <3>2. f \in MemT /\ Older(a.m, f)
      BY <1>1, <3>1, DataFreeFrees, DataFreeAges DEF Freed
    <3> HIDE DEF f
    <3>3. FoldLeft(GiveBack, f, a.vecs) \in MemT /\ Older(f, FoldLeft(GiveBack, f, a.vecs))
      BY <1>1, <3>1, <3>2, GiveFold, GiveFoldAges
    <3>4. g = FoldLeft(GiveBack, f, a.vecs)
      BY <2>2
    <3> HIDE DEF g
    <3>5. g \in MemT /\ Older(f, g)
      BY <3>3, <3>4
    <3> QED
      BY <1>1, <1>5, <3>2, <3>5, OlderTwice
  <2> QED
    BY <2>1, <2>2
<1> HIDE DEF g
<1>7. m \in MemT /\ m.vq = g.vq /\ m.dq = g.dq
  BY <1>6 DEF MemT, Code
<1>8. Keep(t, m) /\ UNCHANGED graceVars
  BY <1>3, NotDry
<1> HIDE DEF m
<1>9. Older(Mem(t), m)
  BY <1>1, <1>6, <1>7, OlderSame, OlderTwice
<1> QED
  BY <1>2, <1>3, <1>7, <1>8, <1>9, OtherCallReuse
-----------------------------------------------------------------------------
(* The steps that leave the queues alone.                                   *)

\* What is newly held has just left the tree, and its worker has it.
LEMMA TakenReuse ==
  ASSUME Sane, NEW t \in Thread, Stepped(t), ~ OwnVec(t), ~ OwnData(t), buf' = buf,
         UNCHANGED graceVars, hold' \in HoldT, HoldersOpen',
         \A v \in Vec : hold'.vec[v] = hold.vec[v] \/ (v \in tree.vec /\ OwnVec(t)' /\ own'[t] = v),
         \A d \in Data : hold'.data[d] = hold.data[d] \/ (d \in tree.data /\ OwnData(t)' /\ own'[t] = d)
  PROVE  ReuseInv'
<1>1. /\ MemoryOK /\ NoEarlyReuse /\ Running /\ Running' /\ OnePlace
      /\ \A u \in Thread : Guarded(u)
  BY DEF Sane, ReuseInv, StateInv
<1>2. \A u \in Thread \ {t} : own'[u] = own[u] /\ phase'[u] = phase[u]
  BY DEF Stepped
<1>3. /\ \A u \in Thread : \A v \in Vec : v \in QueuedVec(buf[u]) => hold'.vec[v] = hold.vec[v]
      /\ \A u \in Thread : \A d \in Data : d \in QueuedData(buf[u]) => hold'.data[d] = hold.data[d]
  BY <1>1, PlacesApart DEF Apart
<1>4. ASSUME NEW u \in Thread PROVE Guarded(u)'
  <2>1. buf[u].vq \in Seq(VecEntry) /\ buf[u].dq \in Seq(DataEntry)
    BY <1>1 DEF MemoryOK, BufT
  <2>2. /\ \A e \in Range(buf[u].vq) : /\ e.id # Nil => hold'.vec[e.id] = hold.vec[e.id]
                                       /\ hold'.vec[e.node] = hold.vec[e.node]
        /\ \A e \in Range(buf[u].dq) : /\ hold'.data[e.id] = hold.data[e.id]
                                       /\ hold'.vec[e.node] = hold.vec[e.node]
    BY <1>3, <2>1, QueueTypes, QueuedIn
  <2>3. \A e, s : Young(e, s)' <=> Young(e, s)
    BY YoungSame
  <2>4. Sound(buf[u])'
    BY <1>1 DEF Guarded, Sound, Timely, Old, graceVars
  <2> QED
    BY <1>1, <2>2, <2>3, <2>4 DEF Guarded
<1>5. ASSUME NEW v \in Vec, hold'.vec[v] # {}
      PROVE  \E u \in Thread : v \in QueuedVec(buf'[u]) \/ (OwnVec(u)' /\ own'[u] = v)
  <2>1. CASE hold'.vec[v] = hold.vec[v]
    <3>1. PICK u \in Thread : v \in QueuedVec(buf[u]) \/ (OwnVec(u) /\ own[u] = v)
      BY <1>1, <1>5, <2>1 DEF NoEarlyReuse
    <3> QED
      BY <1>2, <3>1 DEF OwnVec
  <2>2. CASE OwnVec(t)' /\ own'[t] = v
    BY <2>2
  <2> QED
    BY <2>1, <2>2
<1>6. ASSUME NEW d \in Data, hold'.data[d] # {}
      PROVE  \E u \in Thread : d \in QueuedData(buf'[u]) \/ (OwnData(u)' /\ own'[u] = d)
  <2>1. CASE hold'.data[d] = hold.data[d]
    <3>1. PICK u \in Thread : d \in QueuedData(buf[u]) \/ (OwnData(u) /\ own[u] = d)
      BY <1>1, <1>6, <2>1 DEF NoEarlyReuse
    <3> QED
      BY <1>2, <3>1 DEF OwnData
  <2>2. CASE OwnData(t)' /\ own'[t] = d
    BY <2>2
  <2> QED
    BY <2>1, <2>2
<1>7. NoEarlyReuse'
  BY <1>5, <1>6 DEF NoEarlyReuse
<1> QED
  BY <1>4, <1>7 DEF ReuseInv

\* A step inside a call that neither queues nor unlinks.
LEMMA IdleReuse ==
  ASSUME Sane, NEW t \in Thread, Enter(t) \/ Finish(t), UNCHANGED <<buf, hold>>
  PROVE  ReuseInv'
<1>1. Stepped(t)
  BY SoundBefore, EnterDone, FinishDone
<1>2. ~ OwnVec(t) /\ ~ OwnData(t) /\ UNCHANGED graceVars
  BY DEF Enter, Finish, OwnVec, OwnData, After
<1>3. hold' \in HoldT /\ HoldersOpen'
  BY <1>2 DEF Sane, ReuseInv, HoldersOpen, graceVars
<1> QED
  BY <1>1, <1>2, <1>3, TakenReuse

\* A node is unlinked: the sessions open now hold it.
LEMMA UnlinkReuse ==
  ASSUME Sane, NEW t \in Thread, Unlink(t)
  PROVE  ReuseInv'
<1>1. PICK v \in tree.vec : own' = [own EXCEPT ![t] = v] /\ hold' = [hold EXCEPT !.vec[v] = online]
  BY DEF Unlink
<1>2. Stepped(t) /\ StateInv
  BY SoundBefore, UnlinkDone
<1>3. ~ OwnVec(t) /\ ~ OwnData(t) /\ UNCHANGED graceVars /\ buf' = buf
  BY DEF Unlink, OwnVec, OwnData
<1>4. v \in Vec /\ own \in [Thread -> Nat] /\ phase \in [Thread -> Phase]
  BY <1>2 DEF StateInv, WorkOK, TreeT
<1>5. own'[t] = v /\ OwnVec(t)'
  BY <1>1, <1>4 DEF Unlink, Goto, OwnVec
<1>6. hold \in HoldT /\ HoldersOpen /\ online \subseteq Thread
  BY DEF Sane, ReuseInv
<1>7. /\ hold' \in HoldT /\ hold'.vec[v] = online
      /\ \A x \in Vec \ {v} : hold'.vec[x] = hold.vec[x]
      /\ \A d \in Data : hold'.data[d] = hold.data[d]
  BY <1>1, <1>4, <1>6 DEF HoldT
<1>8. HoldersOpen'
  BY <1>3, <1>6, <1>7 DEF HoldersOpen, graceVars
<1> QED
  BY <1>2, <1>3, <1>5, <1>7, <1>8, TakenReuse

\* So is a record.
LEMMA DeleteReuse ==
  ASSUME Sane, NEW t \in Thread, Delete(t)
  PROVE  ReuseInv'
<1>1. PICK d \in tree.data : own' = [own EXCEPT ![t] = d] /\ hold' = [hold EXCEPT !.data[d] = online]
  BY DEF Delete
<1>2. Stepped(t) /\ StateInv
  BY SoundBefore, DeleteDone
<1>3. ~ OwnVec(t) /\ ~ OwnData(t) /\ UNCHANGED graceVars /\ buf' = buf
  BY DEF Delete, OwnVec, OwnData
<1>4. d \in Data /\ own \in [Thread -> Nat] /\ phase \in [Thread -> Phase]
  BY <1>2 DEF StateInv, WorkOK, TreeT
<1>5. own'[t] = d /\ OwnData(t)'
  BY <1>1, <1>4 DEF Delete, Goto, OwnData
<1>6. hold \in HoldT /\ HoldersOpen /\ online \subseteq Thread
  BY DEF Sane, ReuseInv
<1>7. /\ hold' \in HoldT /\ hold'.data[d] = online
      /\ \A x \in Data \ {d} : hold'.data[x] = hold.data[x]
      /\ \A v \in Vec : hold'.vec[v] = hold.vec[v]
  BY <1>1, <1>4, <1>6 DEF HoldT
<1>8. HoldersOpen'
  BY <1>3, <1>6, <1>7 DEF HoldersOpen, graceVars
<1> QED
  BY <1>2, <1>3, <1>5, <1>7, <1>8, TakenReuse
-----------------------------------------------------------------------------
(* The sessions.                                                            *)

\* The sessions that have still to close their round, or may.
Moving == {t \in Thread : pc[t] \in {"on", "mask", "tick"}}

\* A session starts below MaxTick, and each makes one tick at most.
TickBound == tick + Cardinality(Moving) + 1 <= MaxTick + Cardinality(Thread)

\* They can be counted.
LEMMA MovingFinite ==
  /\ IsFiniteSet(Moving) /\ Cardinality(Moving) \in Nat
  /\ Cardinality(Moving) <= Cardinality(Thread)
  /\ Cardinality(Thread) \in Nat
  /\ MaxTick \in Nat /\ BufMod \in Nat /\ TickMod \in Nat \ {0}
<1>1. IsFiniteSet(Thread) /\ Moving \subseteq Thread /\ MaxTick \in Nat /\ BufMod \in Nat
  BY BufAssumption DEF Moving
<1>2. TickMod \in Nat \ {0}
  BY SessionAssumption DEF Grace!TickAssumption
<1> QED
  BY <1>1, <1>2, FS_Subset, FS_CardinalityType

\* And in the next state.
LEMMA MovingFiniteNext ==
  /\ IsFiniteSet(Moving') /\ Cardinality(Moving') \in Nat
  /\ Cardinality(Moving') <= Cardinality(Thread)
<1>1. IsFiniteSet(Thread) /\ Moving' \subseteq Thread
  BY BufAssumption DEF Moving
<1> QED
  BY <1>1, FS_Subset, FS_CardinalityType

\* The tick moves by one, and does not wrap.
LEMMA TickMoves ==
  ASSUME Grace!TypeOK, tick \in Nat, TickBound, [Next]_vars,
         MaxTick + Cardinality(Thread) <= TickMod
  PROVE  (tick' = tick \/ (tick' = tick + 1 /\ tick + 1 < TickMod)) /\ TickBound'
<1> USE DEF TickBound
<1>0. pc \in [Thread -> Grace!Control]
  BY DEF Grace!TypeOK
<1>1. CASE UNCHANGED graceVars
  <2>1. tick' = tick /\ Moving' = Moving
    BY <1>1 DEF Moving, graceVars
  <2> QED
    BY <2>1
<1>2. ASSUME NEW t \in Thread, Grace!Start(t), tick < MaxTick
      PROVE  tick' = tick /\ TickBound'
  <2>1. tick' = tick
    BY <1>2 DEF Grace!Start
  <2> QED
    BY <1>2, <2>1, MovingFinite, MovingFiniteNext
<1>3. ASSUME NEW t \in Thread,
             \/ Grace!ExitClear(t) \/ Grace!ExitClosing(t) \/ Grace!ExitMask(t) \/ Grace!ExitReset(t)
      PROVE  tick' = tick /\ TickBound'
  <2>1. tick' = tick /\ Moving' \subseteq Moving
    <3>1. CASE Grace!ExitClear(t)
      BY <1>0, <3>1 DEF Grace!ExitClear, Grace!Goto, Moving
    <3>2. CASE Grace!ExitClosing(t)
      BY <1>0, <3>2 DEF Grace!ExitClosing, Grace!Goto, Grace!Return, Moving
    <3>3. CASE Grace!ExitMask(t)
      BY <1>0, <3>3 DEF Grace!ExitMask, Grace!Goto, Grace!Return, Moving
    <3>4. CASE Grace!ExitReset(t)
      BY <1>0, <3>4 DEF Grace!ExitReset, Grace!Goto, Grace!Return, Moving
    <3> QED
      BY <1>3, <3>1, <3>2, <3>3, <3>4
  <2>2. Cardinality(Moving') <= Cardinality(Moving)
    BY <2>1, MovingFinite, FS_Subset
  <2> QED
    BY <2>1, <2>2, MovingFinite, MovingFiniteNext
<1>4. ASSUME NEW t \in Thread, Grace!ExitTick(t)
      PROVE  tick' = tick + 1 /\ tick + 1 < TickMod /\ TickBound'
  <2>1. tick' = (tick + 1) % TickMod /\ t \in Moving /\ Moving' = Moving \ {t}
    BY <1>0, <1>4 DEF Grace!ExitTick, Grace!Goto, Moving
  <2>2. Cardinality(Moving') = Cardinality(Moving) - 1
    BY <2>1, MovingFinite, FS_RemoveElement
  <2>3. Cardinality(Moving) >= 1 /\ tick + 1 < TickMod
    BY <2>2, MovingFinite, MovingFiniteNext
  <2>4. tick' = tick + 1
    BY <2>1, <2>3, MovingFinite
  <2> QED
    BY <2>2, <2>3, <2>4, MovingFinite, MovingFiniteNext
<1> QED
  BY <1>1, <1>2, <1>3, <1>4, GraceSteps DEF Grace!Exit

\* What the sessions of SptThread_proofs tell of a step.
SessionsSane ==
  /\ GraceProof!CloserInv /\ GraceProof!OnlineIsOn /\ GraceProof!OnlineIsOn'
  /\ [GraceProof!Next]_(GraceProof!vars)
  /\ tick \in Nat /\ (tick' = tick \/ (tick' = tick + 1 /\ tick + 1 < TickMod))

\* What is finite there is finite here.
LEMMA CountSame ==
  /\ GraceProof!IsFiniteSet(Thread)
  /\ GraceProof!Cardinality(Thread) = Cardinality(Thread)
<1>1. IsFiniteSet(Thread) => GraceProof!IsFiniteSet(Thread)
  BY DEF IsFiniteSet, GraceProof!IsFiniteSet
<1>2. GraceProof!Cardinality(Thread) = Cardinality(Thread)
  BY DEF Cardinality, GraceProof!Cardinality
<1> QED
  BY <1>1, <1>2, BufAssumption

\* A session that stays open sees one tick more at most.
LEMMA YoungKept ==
  ASSUME Cardinality(Thread) <= 2, SessionsSane, NEW s \in Thread, s \in online, s \in online',
         NEW e, Young(e, s)
  PROVE  Young(e, s)'
<1>1. pc[s] = "on" /\ pc'[s] = "on"
  BY DEF SessionsSane, GraceProof!OnlineIsOn
<1>2. GraceProof!IsFiniteSet(Thread) /\ GraceProof!Cardinality(Thread) <= 2
  BY CountSame
<1>3. \/ tick' = tick /\ (GraceProof!MaySee(s)' => GraceProof!MaySee(s))
      \/ tick' = (tick + 1) % TickMod /\ GraceProof!MaySee(s) /\ ~ GraceProof!MaySee(s)'
  BY <1>1, <1>2, GraceSame, GraceProof!SeesOnce DEF SessionsSane
<1>4. CASE tick' = tick /\ (GraceProof!MaySee(s)' => GraceProof!MaySee(s))
  BY <1>4 DEF Young
<1>5. CASE tick' = (tick + 1) % TickMod /\ GraceProof!MaySee(s) /\ ~ GraceProof!MaySee(s)'
  <2>1. tick' = tick + 1 \/ tick' = tick
    BY DEF SessionsSane
  <2>2. tick' = tick + 1 => e.tick + 1 = tick'
    BY <1>5 DEF Young
  <2>3. tick' = tick => e.tick = tick'
    BY <1>5 DEF Young
  <2> QED
    BY <1>5, <2>1, <2>2, <2>3 DEF Young
<1> QED
  BY <1>3, <1>4, <1>5

\* A step of the sessions: the holders lose the one that closes, if one does.
LEMMA SessionStepReuse ==
  ASSUME Sane, Cardinality(Thread) <= 2, SessionsSane, NEW t \in Thread,
         StartSession(t) \/ EndSession(t) \/ ExitStep(t)
  PROVE  ReuseInv'
<1>1. /\ hold \in HoldT /\ HoldersOpen /\ online \subseteq Thread
      /\ phase \in [Thread -> Phase]
  BY DEF Sane, ReuseInv, StateInv, WorkOK
<1>2. tick' = tick \/ tick' = tick + 1
  BY DEF SessionsSane
<1>3. \A s \in online \intersect online' : \A e : Young(e, s) => Young(e, s)'
  BY <1>1, YoungKept
<1>4. /\ buf' = buf /\ own' = own
      /\ \A u \in Thread : (OwnVec(u) => OwnVec(u)') /\ (OwnData(u) => OwnData(u)')
  BY <1>1 DEF StartSession, ExitStep, EndSession, bufVars, OwnVec, OwnData, Goto
<1>5. /\ hold' \in HoldT
      /\ \A v \in Vec : hold'.vec[v] \subseteq hold.vec[v] /\ hold'.vec[v] \subseteq online'
      /\ \A d \in Data : hold'.data[d] \subseteq hold.data[d] /\ hold'.data[d] \subseteq online'
  <2>1. CASE StartSession(t) \/ ExitStep(t)
    <3>1. hold' = hold
      BY <2>1 DEF StartSession, ExitStep, bufVars
    <3>2. online \subseteq online'
      BY <2>1 DEF StartSession, ExitStep, Grace!Start, Grace!Exit, Grace!ExitClosing,
                  Grace!ExitMask, Grace!ExitTick, Grace!ExitReset
    <3> QED
      BY <1>1, <3>1, <3>2 DEF HoldersOpen
  <2>2. CASE EndSession(t)
    <3>1. /\ hold' = [vec |-> [v \in Vec |-> hold.vec[v] \ {t}],
                      data |-> [d \in Data |-> hold.data[d] \ {t}]]
          /\ online' = online \ {t}
      BY <2>2 DEF EndSession, Grace!ExitClear
    <3>2. /\ \A v \in Vec : hold.vec[v] \in SUBSET Thread
          /\ \A d \in Data : hold.data[d] \in SUBSET Thread
      BY <1>1 DEF HoldT
    <3>3. hold' \in HoldT
      BY <3>1, <3>2 DEF HoldT
    <3> QED
      BY <1>1, <3>1, <3>3 DEF HoldersOpen
  <2> QED
    BY <2>1, <2>2
<1> QED
  BY <1>2, <1>3, <1>4, <1>5, SessionReuse
-----------------------------------------------------------------------------
(* The specification.                                                       *)

\* Nothing changes.
LEMMA StutterReuse ==
  ASSUME Sane, UNCHANGED vars
  PROVE  ReuseInv'
<1>1. UNCHANGED graceVars /\ UNCHANGED bufVars
  BY DEF vars, graceVars, bufVars
<1>2. \A e, s : Young(e, s)' <=> Young(e, s)
  BY <1>1, YoungSame
<1>3. hold \in HoldT /\ HoldersOpen
  BY DEF Sane, ReuseInv
<1>4. /\ buf' = buf /\ own' = own /\ hold' = hold /\ tick' = tick /\ online' = online
      /\ \A u \in Thread : (OwnVec(u) => OwnVec(u)') /\ (OwnData(u) => OwnData(u)')
  BY <1>1 DEF bufVars, graceVars, OwnVec, OwnData
<1> QED
  BY <1>2, <1>3, <1>4, SessionReuse DEF HoldersOpen

\* The invariant is kept.
LEMMA ReuseStep ==
  ASSUME StateInv, StateInv', OnePlace, OnePlace', ReuseInv, TickFits, online \subseteq Thread,
         Cardinality(Thread) <= 2, SessionsSane, [Next]_vars
  PROVE  ReuseInv'
<1> SUFFICES ASSUME Running' PROVE ReuseInv'
  BY DEF ReuseInv
<1>1. Running
  <2>1. UNCHANGED bufVars \/ \E t \in Thread : Stepped(t)
    BY OneStep DEF TickFits
  <2>2. CASE UNCHANGED bufVars
    BY <2>2 DEF Running, bufVars
  <2>3. CASE \E t \in Thread : Stepped(t)
    BY <2>3 DEF Running, Stepped
  <2> QED
    BY <2>1, <2>2, <2>3
<1>2. Sane
  BY <1>1 DEF Sane
<1>3. CASE UNCHANGED vars
  BY <1>2, <1>3, StutterReuse
<1>4. ASSUME NEW t \in Thread, Step(t) PROVE ReuseInv'
  <2>1. CASE StartSession(t) \/ EndSession(t) \/ ExitStep(t)
    BY <1>2, <2>1, SessionStepReuse
  <2>2. CASE Enter(t) \/ Finish(t)
    <3>1. CASE Enter(t) /\ status = WAIT_AMT
      BY <1>2, <3>1, FillReuse
    <3>2. CASE Finish(t) \/ (Enter(t) /\ status # WAIT_AMT)
      <4>1. UNCHANGED <<buf, hold>>
        BY <3>2 DEF Finish, Enter
      <4> QED
        BY <1>2, <3>2, <4>1, IdleReuse
    <3> QED
      BY <2>2, <3>1, <3>2
  <2>3. ASSUME NEW n \in 0 .. MaxNew, Publish(t, n) \/ LoseRace(t, n) \/ RunOut(t, n)
        PROVE  ReuseInv'
    BY <1>2, <2>3, PublishReuse, LoseRaceReuse, RunOutReuse
  <2>4. CASE Unlink(t) \/ Retire(t) \/ HelpRetire(t) \/ Delete(t) \/ RetireData(t)
    BY <1>2, <2>4, UnlinkReuse, RetireReuse, HelpRetireReuse, DeleteReuse, DataFreeReuse
  <2> QED
    BY <1>4, <2>1, <2>2, <2>3, <2>4 DEF Step
<1> QED
  BY <1>3, <1>4 DEF Next, Spin

\* At first nothing is queued, and nothing held.
LEMMA FirstReuse == Init => ReuseInv
<1> SUFFICES ASSUME Init PROVE ReuseInv
  OBVIOUS
<1>1. hold = [vec |-> [v \in Vec |-> {}], data |-> [d \in Data |-> {}]]
  BY DEF Init
<1>2. hold \in HoldT /\ HoldersOpen /\ NoEarlyReuse
  BY <1>1 DEF HoldT, HoldersOpen, NoEarlyReuse
<1>3. ASSUME NEW t \in Thread PROVE Guarded(t)
  <2>1. buf[t].vq = <<>> /\ buf[t].dq = <<>>
    BY DEF Init
  <2>2. Range(buf[t].vq) = {} /\ Range(buf[t].dq) = {}
    BY <2>1 DEF Range
  <2> QED
    BY <2>2 DEF Guarded, Sound, Timely
<1> QED
  BY <1>2, <1>3 DEF ReuseInv

\* At first no session is open.
LEMMA FirstTick == Init => TickBound
<1> SUFFICES ASSUME Init PROVE TickBound
  OBVIOUS
<1>1. tick = 0 /\ Moving = {}
  BY DEF Init, Grace!Init, Moving
<1>2. Cardinality(Moving) = 0
  BY <1>1, FS_EmptySet
<1>3. Cardinality(Thread) # 0
  BY BufAssumption, FS_EmptySet
<1> QED
  BY <1>1, <1>2, <1>3, MovingFinite DEF TickBound

\* Two workers never reuse what a session that is open may still reach, as
\* long as neither tick wraps: a node or a data block that was unlinked or
\* queued while the session was open is still in a queue, or on its way to
\* one.  (A session of three or more outlives two ticks; an entry's tick that
\* has wrapped looks old at once.)
THEOREM NotReusedEarly ==
  ASSUME Cardinality(Thread) <= 2,
         MaxTick + Cardinality(Thread) <= TickMod, MaxTick + Cardinality(Thread) <= BufMod
  PROVE  Spec => []NoEarlyReuse
<1> DEFINE Known == StateInv /\ OnePlace /\ Grace!TypeOK /\ tick \in Nat
                    /\ GraceProof!CloserInv /\ GraceProof!OnlineIsOn
<1>1. Spec => GraceProof!Spec
  BY GraceSame, PTL DEF Spec, GraceProof!Spec
<1>2. Spec => []Known
  BY <1>1, GraceSame, StateInvariant, EachInOnePlace, SessionsTyped,
     GraceProof!CloserInvariant, GraceProof!OnlineInvariant, PTL
<1>3. Known /\ TickBound /\ [Next]_vars => TickBound'
  BY TickMoves
<1>4. Known /\ Known' /\ TickBound /\ ReuseInv /\ [Next]_vars => ReuseInv'
  <2> SUFFICES ASSUME Known, Known', TickBound, ReuseInv, [Next]_vars PROVE ReuseInv'
    OBVIOUS
  <2>1. online \subseteq Thread
    BY DEF Grace!TypeOK
  <2>2. TickFits
    <3>1. tick \in Nat
      OBVIOUS
    <3> QED
      BY <3>1, MovingFinite DEF TickBound, TickFits
  <2>3. SessionsSane
    BY GraceSame, TickMoves DEF SessionsSane
  <2> QED
    BY <2>1, <2>2, <2>3, ReuseStep
<1>5. ReuseInv => NoEarlyReuse
  BY DEF ReuseInv, NoEarlyReuse
<1> QED
  BY <1>2, <1>3, <1>4, <1>5, FirstReuse, FirstTick, PTL DEF Spec
=============================================================================
